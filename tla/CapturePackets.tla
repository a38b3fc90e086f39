--------------------------- MODULE CapturePackets ---------------------------
(***************************************************************************)
(* The figures of one packet capture: the helper counts every packet and   *)
(* lists a limited number of them a second (capture_worker.run), the agent *)
(* adds up the lines it reads from it (capture._apply), and a viewer polls *)
(* for the packets it does not have yet (capture.snapshot).                *)
(*                                                                         *)
(* A turn of the helper's loop is one action, and the lines pass through a *)
(* pipe in their order.  Left out: what a packet says, bytes and           *)
(* protocols, which are added up like the packets, the kernel's drops, and *)
(* how the capture starts and ends (Capture).                              *)
(***************************************************************************)
EXTENDS Integers, FiniteSets, Sequences, FiniteSetsExt

CONSTANTS
  Flows,        \* flow_key of the packets
  MAX_PPS,      \* packets listed a second
  TickFlows,    \* MAX_FLOWS of the helper: flows in one tick
  JobFlows,     \* flows the agent keeps: MAX_FLOWS * 5
  MAX_PACKETS,  \* packets kept
  Second,       \* moments in a second
  Deadline,     \* the capture's duration, in moments
  Pipe,         \* bound: lines the pipe holds
  MaxFrames     \* bound

PacketsSane ==
  /\ MAX_PPS \in Nat \ {0} /\ MAX_PACKETS \in Nat \ {0}
  /\ Second \in Nat /\ Deadline \in Nat /\ MaxFrames \in Nat

VARIABLES
  mono,     \* time.monotonic of the helper
  helper,   \* the helper's variables, and whether it runs
  wire,     \* its lines that the agent has not read
  job,      \* what the agent has added up
  viewer,   \* the last packet it knows of, and the ones it has got
  frames,   \* frames so far
  cut       \* history: flows were left out

packetVars == <<mono, helper, wire, job, viewer, frames, cut>>

NoFlows == [f \in {} |-> 0]
CountOf(flows) == MapThenSumSet(LAMBDA f : flows[f], DOMAIN flows)
Plus(flows, f, n) ==
  [g \in DOMAIN flows \cup {f} |-> (IF g \in DOMAIN flows THEN flows[g] ELSE 0) +
                                   (IF g = f THEN n ELSE 0)]

Init ==
  /\ mono = 0
  /\ helper = [runs |-> TRUE, pkts |-> 0, flows |-> NoFlows, skipped |-> 0, sent |-> 0,
               secondStart |-> 0, tickAt |-> Second]
  /\ wire = <<>>
  /\ job = [seq |-> 0, packets |-> <<>>, pkts |-> 0, unlisted |-> 0, flows |-> NoFlows,
            added |-> "none"]
  /\ viewer = [last |-> 0, has |-> {}]
  /\ frames = 0
  /\ cut = FALSE

Pass ==
  /\ helper.runs /\ mono < Deadline
  /\ mono' = mono + 1
  /\ UNCHANGED <<helper, wire, job, viewer, frames, cut>>

-----------------------------------------------------------------------------
(* run: first the tick that is due, with the flows of the most bytes.      *)
TickDue == mono >= helper.tickAt
Busiest(top) ==
  /\ top \subseteq DOMAIN helper.flows
  /\ Cardinality(top) = Min({TickFlows, Cardinality(DOMAIN helper.flows)})
TickLine(top) == [t |-> "tick", pkts |-> helper.pkts, skipped |-> helper.skipped,
                  flows |-> [f \in top |-> helper.flows[f]]]
Ticked_Skipped ==
  IF TickDue THEN [helper EXCEPT !.pkts = 0, !.flows = NoFlows, !.tickAt = mono + Second]
  ELSE helper
Ticked ==
  IF TickDue THEN [helper EXCEPT !.pkts = 0, !.flows = NoFlows, !.skipped = 0,
                                 !.tickAt = mono + Second]
  ELSE helper

\* Then a packet, which is counted, and listed unless there were enough.
NewSecond(h) == mono - h.secondStart >= Second
Full(h) == ~NewSecond(h) /\ h.sent >= MAX_PPS
Counted(h, f) == [h EXCEPT !.pkts = @ + 1, !.flows = Plus(@, f, 1),
                           !.secondStart = IF NewSecond(h) THEN mono ELSE @,
                           !.sent = IF NewSecond(h) THEN 1 ELSE IF Full(h) THEN @ ELSE @ + 1,
                           !.skipped = IF Full(h) THEN @ + 1 ELSE @]

\* One turn of the loop.  "nothing": none came, or none that counts (the
\* second copy on lo, one that cannot be read, one the filter refuses).
Turn(f) ==
  /\ helper.runs /\ mono < Deadline /\ Len(wire) + 2 <= Pipe
  /\ f # "nothing" => frames < MaxFrames
  /\ f # "nothing" \/ TickDue   \* otherwise it changes nothing
  /\ \E top \in SUBSET DOMAIN helper.flows :
       /\ IF TickDue THEN Busiest(top) ELSE top = {}
       /\ cut' = (cut \/ (TickDue /\ top # DOMAIN helper.flows))
       /\ wire' = wire \o (IF TickDue THEN <<TickLine(top)>> ELSE <<>>)
                       \o IF f # "nothing" /\ ~Full(Ticked) THEN <<[t |-> "pkt"]>> ELSE <<>>
  /\ helper' = IF f = "nothing" THEN Ticked ELSE Counted(Ticked, f)
  /\ frames' = frames + (IF f = "nothing" THEN 0 ELSE 1)
  /\ UNCHANGED <<mono, job, viewer>>

\* The deadline or an error of the socket, and its last line; or it is killed.
Finish ==
  /\ helper.runs /\ Len(wire) < Pipe
  /\ wire' = Append(wire, [t |-> "end"])
  /\ helper' = [helper EXCEPT !.runs = FALSE]
  /\ UNCHANGED <<mono, job, viewer, frames, cut>>
Killed ==
  /\ helper.runs
  /\ helper' = [helper EXCEPT !.runs = FALSE]
  /\ UNCHANGED <<mono, wire, job, viewer, frames, cut>>

-----------------------------------------------------------------------------
(* _apply: the next line.                                                  *)
Newest(packets, most) ==
  SubSeq(packets, IF Len(packets) > most THEN Len(packets) - most + 1 ELSE 1, Len(packets))
ApplyPacket ==
  /\ job' = [job EXCEPT !.seq = @ + 1, !.packets = Newest(Append(@, job.seq + 1), MAX_PACKETS),
                        !.added = "pkt"]
  /\ UNCHANGED cut
\* Flows that are new have to find a place.
Places(line, kept) ==
  LET new == DOMAIN line.flows \ DOMAIN job.flows
  IN /\ kept \subseteq new
     /\ Cardinality(kept) = Min({Cardinality(new), JobFlows - Cardinality(DOMAIN job.flows)})
AddFlows(flows, line, kept) ==
  [f \in DOMAIN flows \cup kept |-> (IF f \in DOMAIN flows THEN flows[f] ELSE 0) +
                                    (IF f \in DOMAIN line.flows THEN line.flows[f] ELSE 0)]
ApplyTick(line) ==
  \E kept \in SUBSET DOMAIN line.flows :
    /\ Places(line, kept)
    /\ job' = [job EXCEPT !.pkts = @ + line.pkts, !.unlisted = @ + line.skipped,
                          !.flows = AddFlows(@, line, kept), !.added = "tick"]
    /\ cut' = (cut \/ ~(DOMAIN line.flows \subseteq DOMAIN job.flows \cup kept))
Apply ==
  /\ wire # <<>>
  /\ wire' = Tail(wire)
  /\ \/ Head(wire).t = "pkt" /\ ApplyPacket
     \/ Head(wire).t = "tick" /\ ApplyTick(Head(wire))
     \/ Head(wire).t = "end" /\ job' = [job EXCEPT !.added = "end"] /\ UNCHANGED cut
  /\ UNCHANGED <<mono, helper, viewer, frames>>

(* snapshot: a poll for what came after the last packet the viewer has.    *)
Limit_One == 1
Limit == MAX_PACKETS
News(after) ==
  LET new == {i \in DOMAIN job.packets : job.packets[i] > after}
  IN {job.packets[i] : i \in {j \in new : Cardinality({k \in new : k > j}) < Limit}}
Poll ==
  /\ viewer.last < job.seq   \* otherwise it gets nothing
  /\ viewer' = [last |-> job.seq, has |-> viewer.has \cup News(viewer.last)]
  /\ UNCHANGED <<mono, helper, wire, job, frames, cut>>

Next ==
  \/ Pass \/ Finish \/ Killed \/ Apply \/ Poll
  \/ \E f \in Flows \cup {"nothing"} : Turn(f)

-----------------------------------------------------------------------------
FlowTables == UNION {[flows -> 1..MaxFrames] : flows \in SUBSET Flows}
Lines == {[t |-> "pkt"], [t |-> "end"]}
         \cup [t : {"tick"}, pkts : 0..MaxFrames, skipped : 0..MaxFrames, flows : FlowTables]
TypeOK ==
  /\ mono \in 0..Deadline /\ frames \in 0..MaxFrames /\ cut \in BOOLEAN
  /\ helper \in [runs : BOOLEAN, pkts : 0..MaxFrames, flows : FlowTables, skipped : 0..MaxFrames,
                 sent : 0..MAX_PPS, secondStart : 0..Deadline, tickAt : 0..(Deadline + Second)]
  /\ wire \in Seq(Lines)
  /\ job \in [seq : 0..MaxFrames, packets : Seq(1..MaxFrames), pkts : 0..MaxFrames,
              unlisted : 0..MaxFrames, flows : FlowTables, added : {"none", "pkt", "tick", "end"}]
  /\ Len(job.packets) <= MAX_PACKETS
  /\ viewer \in [last : 0..MaxFrames, has : SUBSET (1..MaxFrames)]

(* The totals are those of the packets that were listed and of the ones    *)
(* that were not: never more, and the same when a tick has been added.     *)
TotalsAgree ==
  /\ job.pkts <= job.seq + job.unlisted
  /\ job.added = "tick" => job.pkts = job.seq + job.unlisted

(* The flows add up to the totals unless some had to be left out.          *)
FlowsAgree == CountOf(job.flows) <= job.pkts /\ (~cut => CountOf(job.flows) = job.pkts)

(* A viewer that polls with the last packet it knows of has every packet   *)
(* up to that one that is still kept, and misses only ones that were       *)
(* pushed out between two polls.                                           *)
PollsMissNothing ==
  \A i \in DOMAIN job.packets : job.packets[i] <= viewer.last => job.packets[i] \in viewer.has

(* What makes it so: along the pipe, what was said of packets (told) is    *)
(* never less than what was counted of them (added), and the same after a  *)
(* tick; at its end, what the helper has not said yet is missing.          *)
Tells(line) == IF line.t = "pkt" THEN 1 ELSE IF line.t = "tick" THEN line.skipped ELSE 0
Adds(line) == IF line.t = "tick" THEN line.pkts ELSE 0
Kept(lines, told, added) ==
  /\ \A i \in 0..Len(lines) : added[i] <= told[i]
  /\ \A i \in 1..Len(lines) : /\ told[i] = told[i - 1] + Tells(lines[i])
                              /\ added[i] = added[i - 1] + Adds(lines[i])
                              /\ lines[i].t = "tick" => told[i] = added[i]
Books(lines, toldFirst, addedFirst, toldLast, addedLast) ==
  \E told, added \in [0..Len(lines) -> 0..MaxFrames] :
    /\ told[0] = toldFirst /\ told[Len(lines)] = toldLast
    /\ added[0] = addedFirst /\ added[Len(lines)] = addedLast
    /\ Kept(lines, told, added)
CountedIn(x) == \A f \in DOMAIN x.flows : x.flows[f] <= x.pkts
BooksTrue ==
  /\ TypeOK /\ TotalsAgree /\ PollsMissNothing
  /\ Books(wire, job.seq + job.unlisted, job.pkts, frames - helper.skipped, frames - helper.pkts)
  /\ CountedIn(helper) /\ CountedIn(job)
  /\ \A i \in DOMAIN wire : wire[i].t = "tick" => CountedIn(wire[i])
  /\ viewer.last <= job.seq /\ \A i \in DOMAIN job.packets : job.packets[i] <= job.seq

\* And the flows of the helper, of each tick on its way and of the job count the packets they
\* come with, but for those left out.
Tally(x, leftOut) == /\ IsFiniteSet(DOMAIN x.flows) /\ CountOf(x.flows) <= x.pkts
                     /\ ~leftOut => CountOf(x.flows) = x.pkts
FlowsTrue == /\ Tally(helper, cut) /\ Tally(job, cut)
             /\ \A i \in DOMAIN wire : wire[i].t = "tick" => Tally(wire[i], cut)
Inductive == BooksTrue /\ FlowsTrue
=============================================================================
