----------------------------- MODULE PingBurst ------------------------------
(***************************************************************************)
(* A check that sends several echoes and says how many were lost           *)
(* (probes._probe_ping_burst).  One loop sends what is due and then waits  *)
(* for a message until the next echo is due or the time is over.           *)
(*                                                                         *)
(* Answers get lost, come twice, late and out of order; on a raw socket    *)
(* those of other programs are seen too.  Each step of the program may     *)
(* take its time.  Left out: names, errors in sending, the jitter.         *)
(***************************************************************************)
EXTENDS Integers, FiniteSets, Sequences

CONSTANTS
  Asked,     \* the echoes that were asked for, MAX_PING_COUNT at most
  Gap,       \* PING_GAP
  Timeout,
  LastTime,  \* bound
  MaxInbox   \* bound: messages that wait in the socket

BurstSane == {Asked, Timeout, LastTime, MaxInbox} \subseteq Nat /\ Gap \in Nat \ {0}

VARIABLES
  clock,   \* perf_counter() - started
  now,     \* the program's reading of it
  pc,
  raw,     \* the kind of the socket
  sent,    \* when each echo was sent, in the order of their numbers
  rtt,     \* for each echo that was answered
  inbox,   \* messages in the socket
  verdict, \* the result
  heard    \* history: when the first answer to each echo came

burstVars == <<clock, now, pc, raw, sent, rtt, inbox, verdict, heard>>

Least(a, b) == IF a < b THEN a ELSE b
Count == IF Least(Asked, Timeout \div Gap) < 1 THEN 1 ELSE Least(Asked, Timeout \div Gap)
Nothing == [x \in {} |-> 0]
Undecided == [kind |-> "none", loss |-> 0]
Put(f, x, v) == [y \in DOMAIN f \cup {x} |-> IF y = x THEN v ELSE f[y]]

Init ==
  /\ clock = 0 /\ now = 0 /\ pc = "top"
  /\ raw \in BOOLEAN
  /\ sent = <<>> /\ rtt = Nothing /\ inbox = <<>>
  /\ verdict = Undecided
  /\ heard = Nothing

-----------------------------------------------------------------------------
(* Time, and the network.                                                  *)
Pass ==
  /\ clock < LastTime
  /\ clock' = clock + 1
  /\ UNCHANGED <<now, pc, raw, sent, rtt, inbox, verdict, heard>>
Message == [kind : {"reply"}, seq : 1..Count, mine : BOOLEAN] \cup [kind : {"unreachable"}, seq : {0}, mine : {TRUE}]
Counts(m) == m.kind = "reply" /\ m.mine
Arrive ==
  /\ Len(inbox) < MaxInbox /\ pc # "done"
  /\ \E m \in Message :
       /\ Counts(m) => m.seq \in DOMAIN sent
       /\ ~m.mine => raw
       /\ inbox' = Append(inbox, m)
       /\ heard' = IF Counts(m) /\ m.seq \notin DOMAIN heard THEN Put(heard, m.seq, clock) ELSE heard
  /\ UNCHANGED <<clock, now, pc, raw, sent, rtt, verdict>>

-----------------------------------------------------------------------------
(* The loop.                                                               *)
Top ==
  /\ pc = "top"
  /\ now' = clock
  /\ pc' = "sending"
  /\ UNCHANGED <<clock, raw, sent, rtt, inbox, verdict, heard>>

SendDue == Len(sent) < Count /\ now >= Len(sent) * Gap
Send ==
  /\ pc = "sending" /\ SendDue
  /\ sent' = Append(sent, clock)
  /\ UNCHANGED <<clock, now, pc, raw, rtt, inbox, verdict, heard>>

Over == Cardinality(DOMAIN rtt) = Count \/ now >= Timeout
Sent ==
  /\ pc = "sending" /\ ~SendDue
  /\ IF Over
     THEN /\ pc' = "done"
          /\ verdict' = [kind |-> IF rtt = Nothing THEN "down" ELSE "up",
                         loss |-> Count - Cardinality(DOMAIN rtt)]
     ELSE pc' = "waiting" /\ UNCHANGED verdict
  /\ UNCHANGED <<clock, now, raw, sent, rtt, inbox, heard>>

\* The wait ends with nothing when the next echo is due, or the time is over.
WaitsUntil == IF Len(sent) < Count THEN Least(Len(sent) * Gap, Timeout) ELSE Timeout
Silence ==
  /\ pc = "waiting" /\ inbox = <<>> /\ clock >= WaitsUntil
  /\ pc' = "top"
  /\ UNCHANGED <<clock, now, raw, sent, rtt, inbox, verdict, heard>>

Accepted_AnyProgram(m) == m.seq \in DOMAIN sent /\ m.seq \notin DOMAIN rtt
Accepted(m) == m.seq \in DOMAIN sent /\ m.seq \notin DOMAIN rtt /\ (raw => m.mine)
Receive ==
  /\ pc = "waiting" /\ inbox # <<>>
  /\ LET m == Head(inbox)
     IN IF m.kind = "unreachable"
        THEN /\ pc' = "done" /\ verdict' = [kind |-> "unreachable", loss |-> 0]
             /\ UNCHANGED rtt
        ELSE /\ pc' = "top" /\ UNCHANGED verdict
             /\ rtt' = IF Accepted(m) THEN Put(rtt, m.seq, clock - sent[m.seq]) ELSE rtt
  /\ inbox' = Tail(inbox)
  /\ UNCHANGED <<clock, now, raw, sent, heard>>

Next == Pass \/ Arrive \/ Top \/ Send \/ Sent \/ Silence \/ Receive

-----------------------------------------------------------------------------
TypeOK ==
  /\ clock \in 0..LastTime /\ now \in 0..clock
  /\ pc \in {"top", "sending", "waiting", "done"} /\ raw \in BOOLEAN
  /\ Len(sent) <= Count
  /\ DOMAIN rtt \subseteq DOMAIN sent /\ DOMAIN heard \subseteq DOMAIN sent
  /\ verdict \in [kind : {"none", "up", "down", "unreachable"}, loss : 0..Count]

(* All echoes were sent, and those that count as answered were: no second  *)
(* answer and none to another program counts, and a round trip is no       *)
(* shorter than it was.  The others had no answer when the result was      *)
(* made; or one that still waits in the socket, which counts as lost only  *)
(* if the time was over when the loop last looked (probes.py:359): the     *)
(* loop may have been kept from reading what came in time.                 *)
Unread(seq) == \E i \in DOMAIN inbox : Counts(inbox[i]) /\ inbox[i].seq = seq
BurstTrue ==
  verdict.kind \in {"up", "down"} =>
    /\ Len(sent) = Count
    /\ verdict.loss = Count - Cardinality(DOMAIN rtt)
    /\ (verdict.kind = "up") <=> (rtt # Nothing)
    /\ \A seq \in DOMAIN rtt : seq \in DOMAIN heard /\ rtt[seq] >= heard[seq] - sent[seq]
    /\ \A seq \in DOMAIN heard \ DOMAIN rtt : now >= Timeout /\ Unread(seq)

(* What makes it true: an echo is answered when the first message for it   *)
(* is read, a message of one's own is about an echo that was sent, and     *)
(* once there is a verdict nothing is sent or read.                        *)
Timed == /\ sent \in Seq(0..LastTime)
         /\ rtt \in [DOMAIN rtt -> Int] /\ heard \in [DOMAIN heard -> 0..clock]
RoundTrips ==
  /\ \A seq \in DOMAIN rtt : seq \in DOMAIN heard /\ rtt[seq] >= heard[seq] - sent[seq]
  /\ \A seq \in DOMAIN heard \ DOMAIN rtt : Unread(seq)
Messages ==
  /\ inbox \in Seq(Message)
  /\ \A i \in DOMAIN inbox : /\ Counts(inbox[i]) => inbox[i].seq \in DOMAIN heard
                             /\ ~inbox[i].mine => raw
Inductive == /\ TypeOK /\ Timed /\ RoundTrips /\ Messages
             /\ verdict.kind # "none" => pc = "done"
             /\ BurstTrue
=============================================================================
