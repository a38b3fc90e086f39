------------------------------ MODULE WebLinks ------------------------------
(***************************************************************************)
(* The links to the containers' web pages (web_links.py): a thread lists   *)
(* the containers that run, asks the ports of the ones that are new, were  *)
(* started again or were asked long ago, and keeps the answers.            *)
(*                                                                         *)
(* Containers are asked side by side, each port at its own moment; they    *)
(* may be started again meanwhile.  Left out: how candidates are found and *)
(* a port is asked (external: Answer), host network, and listening ports.  *)
(***************************************************************************)
EXTENDS Integers, FiniteSets

CONSTANTS
  Containers,  \* ids
  Ports,       \* the candidates of each, the best one first: 1..n
  TtlUnknown, TtlNone, TtlFound,  \* TTL_UNKNOWN, TTL_NONE, TTL_FOUND
  LastTime,    \* bound
  MaxStarts    \* bound: of a container

LinksSane ==
  /\ IsFiniteSet(Ports) /\ Ports = 1..Cardinality(Ports)
  /\ LastTime \in Nat /\ MaxStarts \in Nat

VARIABLES
  now,     \* time.time()
  starts,  \* how often each container was started; 0 when it does not run
  serves,  \* what each port answers
  lately,  \* history: the last start of each, kept while it is stopped
  listed,  \* the containers the refresh found running, with their start
  due,     \* the ones that are to be asked
  answers, \* what their ports have answered so far, since which start
  at,      \* now of the refresh, or -1 while the thread sleeps
  cache    \* _cache

webVars == <<now, starts, serves, lately, listed, due, answers, at, cache>>

Empty == [c \in {} |-> 0]
Asleep == -1
Kinds == {"web", "silent", "closed"}

Init ==
  /\ now = 0
  /\ starts = [c \in Containers |-> 0]
  /\ serves = [c \in Containers |-> [p \in Ports |-> "closed"]]
  /\ lately = [c \in Containers |-> 0]
  /\ listed = Empty
  /\ due = {}
  /\ answers = Empty
  /\ at = Asleep
  /\ cache = Empty

-----------------------------------------------------------------------------
(* What the containers do.                                                 *)
StartContainer(c) ==
  /\ starts[c] = 0 /\ lately[c] < MaxStarts
  /\ starts' = [starts EXCEPT ![c] = lately[c] + 1]
  /\ lately' = [lately EXCEPT ![c] = @ + 1]
  /\ serves' = [serves EXCEPT ![c] = [p \in Ports |-> "closed"]]
  /\ UNCHANGED <<now, listed, due, answers, at, cache>>
ComesUp(c, p) ==   \* a service of it answers, a while after its start
  /\ starts[c] > 0 /\ serves[c][p] = "closed"
  /\ \E kind \in {"web", "silent"} : serves' = [serves EXCEPT ![c][p] = kind]
  /\ UNCHANGED <<now, starts, lately, listed, due, answers, at, cache>>
StopContainer(c) ==
  /\ starts[c] > 0
  /\ starts' = [starts EXCEPT ![c] = 0]
  /\ serves' = [serves EXCEPT ![c] = [p \in Ports |-> "closed"]]
  /\ UNCHANGED <<now, lately, listed, due, answers, at, cache>>
Pass ==
  /\ now < LastTime
  /\ now' = now + 1
  /\ UNCHANGED <<starts, serves, lately, listed, due, answers, at, cache>>

-----------------------------------------------------------------------------
(* refresh.                                                                *)
Ttl(entry) == IF ~entry.known THEN TtlUnknown ELSE IF entry.web # 0 THEN TtlFound ELSE TtlNone
Old(entry) == now - entry.at >= Ttl(entry)
Kept(live) == [c \in DOMAIN cache \cap live |-> cache[c]]
IsDue(c) == c \notin DOMAIN cache \/ cache[c].sig # starts[c] \/ Old(cache[c])

\* A container that cannot be inspected counts as gone until the next time.
List ==
  /\ at = Asleep
  /\ \E live \in SUBSET {c \in Containers : starts[c] > 0} :
       /\ listed' = [c \in live |-> starts[c]]
       /\ cache' = Kept(live)
       /\ due' = {c \in live : IsDue(c)}
  /\ at' = now
  /\ answers' = Empty
  /\ UNCHANGED <<now, starts, serves, lately>>

\* probe: one port, in the order of the candidates.
Answered(c) == IF c \in DOMAIN answers THEN answers[c] ELSE [ports |-> <<>>, since |-> starts[c]]
Probe(c) ==
  LET old == Answered(c)
      port == Cardinality(DOMAIN old.ports) + 1
      ports == [p \in 1..port |-> IF p = port THEN serves[c][p] ELSE old.ports[p]]
  IN /\ c \in due /\ port \in Ports
     /\ answers' = [d \in DOMAIN answers \cup {c} |->
                      IF d = c THEN [ports |-> ports, since |-> old.since] ELSE answers[d]]
     /\ UNCHANGED <<now, starts, serves, lately, listed, due, at, cache>>

\* choose: the best page, none when every port has answered something else.
Webs(ports) == {p \in DOMAIN ports : ports[p] = "web"}
Best(ports) == CHOOSE p \in Webs(ports) : \A q \in Webs(ports) : p <= q
Choose(ports) ==
  IF Webs(ports) # {} THEN [known |-> TRUE, web |-> Best(ports)]
  ELSE [known |-> \A p \in DOMAIN ports : ports[p] = "silent", web |-> 0]

Signature_Now(c) == IF starts[c] > 0 THEN starts[c] ELSE listed[c]
Signature(c) == listed[c]   \* of the attributes that were read when it was listed
Entry(c, found, since) ==
  [sig |-> Signature(c), at |-> at, known |-> found.known, web |-> found.web, since |-> since]
Keep(c, found) ==
  /\ cache' = [d \in DOMAIN cache \cup {c} |->
                 IF d = c THEN Entry(c, found, Answered(c).since) ELSE cache[d]]
  /\ due' = due \ {c}
  /\ answers' = [d \in DOMAIN answers \ {c} |-> answers[d]]
  /\ UNCHANGED <<now, starts, serves, lately, listed, at>>
Work(c) ==
  /\ c \in due /\ c \in DOMAIN answers /\ DOMAIN answers[c].ports = Ports
  /\ Keep(c, Choose(answers[c].ports))
WorkFails(c) ==
  /\ c \in due
  /\ Keep(c, [known |-> FALSE, web |-> 0])
Sleep ==
  /\ at # Asleep /\ due = {}
  /\ at' = Asleep
  /\ UNCHANGED <<now, starts, serves, lately, listed, due, answers, cache>>

Next ==
  \/ Pass \/ List \/ Sleep
  \/ \E c \in Containers :
       \/ StartContainer(c) \/ StopContainer(c) \/ (\E p \in Ports : ComesUp(c, p))
       \/ Probe(c) \/ Work(c) \/ WorkFails(c)
Spec == Init /\ [][Next]_webVars

-----------------------------------------------------------------------------
TypeOK ==
  /\ now \in 0..LastTime /\ at \in Asleep..LastTime
  /\ starts \in [Containers -> 0..MaxStarts] /\ lately \in [Containers -> 0..MaxStarts]
  /\ serves \in [Containers -> [Ports -> Kinds]]
  /\ DOMAIN listed \subseteq Containers /\ due \subseteq DOMAIN listed
  /\ DOMAIN answers \subseteq due
  /\ \A c \in DOMAIN answers :
       \E p \in {0} \cup Ports : answers[c].ports \in [1..p -> Kinds]
  /\ \A c \in DOMAIN cache :
       /\ cache[c].known \in BOOLEAN /\ cache[c].web \in {0} \cup Ports
       /\ cache[c].sig \in 1..MaxStarts /\ cache[c].at \in 0..LastTime

(* An answer that is kept for the present start of a container was given   *)
(* in it, also if the container was started again while it was asked.      *)
(* (One that is kept for an earlier start is still handed out until the    *)
(* next refresh: lookup, web_links.py:328, does not compare.)              *)
LinksOfThisStart ==
  \A c \in DOMAIN cache : starts[c] > 0 /\ cache[c].sig = starts[c] => cache[c].since = starts[c]

(* After a refresh every container it listed has an entry for the start it *)
(* was found in, whatever failed.                                          *)
RefreshComplete ==
  at = Asleep => \A c \in DOMAIN listed : c \in DOMAIN cache /\ cache[c].sig = listed[c]

(* What makes it so: starts are numbered, an answer begun in the start that *)
(* was listed has its number, and so has an entry with that signature; a   *)
(* container that was listed is due or has an entry for the start listed.  *)
Numbered ==
  /\ starts \in [Containers -> Nat] /\ lately \in [Containers -> Nat]
  /\ \A c \in Containers : starts[c] \in {0, lately[c]}
  /\ DOMAIN listed \subseteq Containers /\ due \subseteq DOMAIN listed
  /\ DOMAIN answers \subseteq due /\ DOMAIN cache \subseteq Containers
  /\ \A c \in DOMAIN listed : listed[c] \in 1..lately[c]
AnswersOfListed ==
  \A c \in DOMAIN answers : starts[c] = listed[c] => answers[c].since = listed[c]
EntriesOfSig ==
  \A c \in DOMAIN cache :
    cache[c].sig \in 1..lately[c] /\ (starts[c] = cache[c].sig => cache[c].since = cache[c].sig)
ListedOrDue ==
  /\ \A c \in DOMAIN listed \ due : c \in DOMAIN cache /\ cache[c].sig = listed[c]
  /\ at = Asleep => due = {}
Inductive == TypeOK /\ Numbered /\ AnswersOfListed /\ EntriesOfSig /\ ListedOrDue
=============================================================================
