------------------------------ MODULE LanScan -------------------------------
(***************************************************************************)
(* The sweep of the host's network (lan_scan.py).                          *)
(*                                                                         *)
(* A start looks for a running scan, reads the host's network through a    *)
(* helper, and publishes a job of its own; the look and the publication    *)
(* are two critical sections.  The job's thread sweeps the addresses,      *)
(* reads the neighbour table and asks the devices for their ports.         *)
(*                                                                         *)
(* Of the network there is the set of addresses, with those that answer a  *)
(* connect and those the neighbour table knows.  Names and ports are cut   *)
(* to whether they have been asked for.                                    *)
(***************************************************************************)
EXTENDS Integers

CONSTANTS
  Askers,      \* the threads that serve POST /network/scan
  Hosts,       \* the addresses of the subnet
  Own,         \* the scanning host's own one
  Answers,     \* those that accept or refuse a connect
  Neighbours,  \* those the neighbour table ends up with
  MaxSweeps    \* bound: jobs

Sweeps == 1..MaxSweeps
NetworkSane ==
  /\ Answers \cup Neighbours \cup {Own} \subseteq Hosts
  /\ MaxSweeps \in Nat

VARIABLES
  newest,   \* _job, or 0
  sweep,    \* each job
  sweeps,   \* how many there have been
  asker,    \* where each request is
  tied      \* history: jobs whose start crossed with another one

lanVars == <<newest, sweep, sweeps, asker, tied>>

NoSweep == [state |-> "none", phase |-> "sweeping", scanned |-> {}, via |-> [h \in {} |-> "tcp"],
            macs |-> {}, asked |-> {}]

Init ==
  /\ newest = 0
  /\ sweep = [i \in Sweeps |-> NoSweep]
  /\ sweeps = 0
  /\ asker = [a \in Askers |-> "idle"]
  /\ tied = FALSE

Busy(i) == i # 0 /\ sweep[i].state = "scanning"

-----------------------------------------------------------------------------
(* start, first part: a running scan is reported instead.                  *)
MaySweep_Always == TRUE
MaySweep == ~Busy(newest)

Ask(a) ==
  /\ asker[a] = "idle"
  /\ MaySweep
  /\ sweeps < MaxSweeps
  /\ asker' = [asker EXCEPT ![a] = "reading"]
  /\ tied' = (tied \/ \E b \in Askers \ {a} : asker[b] # "idle")
  /\ UNCHANGED <<newest, sweep, sweeps>>

(* read_host and choose_network raise, or a job is published.  A thread of *)
(* its own works on it.                                                    *)
ReadFails(a) ==
  /\ asker[a] = "reading"
  /\ asker' = [asker EXCEPT ![a] = "idle"]
  /\ UNCHANGED <<newest, sweep, sweeps, tied>>

PublishJob(a) ==
  /\ asker[a] = "reading"
  /\ sweeps < MaxSweeps
  /\ sweeps' = sweeps + 1
  /\ newest' = sweeps'
  /\ sweep' = [sweep EXCEPT ![sweeps'].state = "scanning"]
  /\ asker' = [asker EXCEPT ![a] = "idle"]
  /\ UNCHANGED tied

-----------------------------------------------------------------------------
(* _run.  _upsert: a device that is there already is not added again, and  *)
(* keeps how it was found.                                                 *)
Found(via, hs, how) ==
  [h \in DOMAIN via \cup hs |-> IF h \in DOMAIN via THEN via[h] ELSE how]
WithOwn(via) == [h \in DOMAIN via \cup {Own} |-> IF h = Own THEN "self" ELSE via[h]]

Change(i, j) == sweep' = [sweep EXCEPT ![i] = j]
InPhase(i, phase) == Busy(i) /\ sweep[i].phase = phase

\* One address has been probed.
Probe(i, h) ==
  /\ InPhase(i, "sweeping") /\ h \notin sweep[i].scanned
  /\ Change(i, [sweep[i] EXCEPT !.scanned = @ \cup {h},
                                !.via = IF h \in Answers THEN Found(@, {h}, "tcp") ELSE @])
  /\ UNCHANGED <<newest, sweeps, asker, tied>>

Swept(i) ==
  /\ InPhase(i, "sweeping") /\ sweep[i].scanned = Hosts
  /\ Change(i, [sweep[i] EXCEPT !.phase = "arp"])
  /\ UNCHANGED <<newest, sweeps, asker, tied>>

ReadNeighbours(i) ==
  /\ InPhase(i, "arp")
  /\ Change(i, [sweep[i] EXCEPT
       !.phase = "ports", !.macs = Neighbours,
       !.via = WithOwn(Found(@, Neighbours, "arp"))])
  /\ UNCHANGED <<newest, sweeps, asker, tied>>

AskPorts(i, h) ==
  /\ InPhase(i, "ports") /\ h \in DOMAIN sweep[i].via \ sweep[i].asked
  /\ Change(i, [sweep[i] EXCEPT !.asked = @ \cup {h}])
  /\ UNCHANGED <<newest, sweeps, asker, tied>>

AllAsked(i) ==
  /\ InPhase(i, "ports") /\ sweep[i].asked = DOMAIN sweep[i].via
  /\ Change(i, [sweep[i] EXCEPT !.state = "done", !.phase = "done"])
  /\ UNCHANGED <<newest, sweeps, asker, tied>>

(* The helper that reads the neighbour table fails: the job has failed.    *)
SweepFails(i) ==
  /\ InPhase(i, "arp")
  /\ Change(i, [sweep[i] EXCEPT !.state = "error"])
  /\ UNCHANGED <<newest, sweeps, asker, tied>>

(* Nothing limits how long it may take (lan_scan.py:106; HELPER_TIMEOUT    *)
(* is not used): the thread waits for it for ever.                         *)
SweepHangs(i) ==
  /\ InPhase(i, "arp")
  /\ Change(i, [sweep[i] EXCEPT !.phase = "hung"])
  /\ UNCHANGED <<newest, sweeps, asker, tied>>
Hung(i) == InPhase(i, "hung")

SweepStep(i) == \/ \E h \in Hosts : Probe(i, h) \/ AskPorts(i, h)
                \/ Swept(i) \/ ReadNeighbours(i) \/ AllAsked(i) \/ SweepFails(i) \/ SweepHangs(i)

Next == \/ \E a \in Askers : Ask(a) \/ ReadFails(a) \/ PublishJob(a)
        \/ \E i \in Sweeps : SweepStep(i)

SweepSteps == \E i \in Sweeps : SweepStep(i)
Spec == Init /\ [][Next]_lanVars
FairSpec == Spec /\ WF_lanVars(SweepSteps)

-----------------------------------------------------------------------------
(* Every variable has its type.                                            *)
Ways == {"tcp", "arp", "self"}
Vias == UNION {[found -> Ways] : found \in SUBSET Hosts}
Jobs == [state: {"none", "scanning", "done", "error"},
         phase: {"sweeping", "arp", "hung", "ports", "done"},
         scanned: SUBSET Hosts, macs: SUBSET Hosts, asked: SUBSET Hosts,
         via: Vias]
TypeOK ==
  /\ newest \in 0..sweeps /\ sweeps \in 0..MaxSweeps
  /\ sweep \in [Sweeps -> Jobs]
  /\ asker \in [Askers -> {"idle", "reading"}]
  /\ tied \in BOOLEAN

(* One scan sweeps the network at a time, and it is the one that is shown, *)
(* unless a start has crossed another one between its look and its job:    *)
(* the two critical sections let both in (lan_scan.py:306-313).  A         *)
(* finished scan has missed nobody and says of each how it was found.      *)
OneSweep ==
  /\ \A i \in Sweeps : Busy(i) => i = newest \/ tied
  /\ \A i \in Sweeps : sweep[i].state = "done" =>
       /\ DOMAIN sweep[i].via = Answers \cup Neighbours \cup {Own}
       /\ \A h \in Hosts : h \in Answers \ {Own} => sweep[i].via[h] = "tcp"

(* What makes it so: nobody is between a look and a job while a scan runs, *)
(* nor are two at a time, unless their starts crossed.                     *)
Apart ==
  tied \/ /\ \A a, b \in Askers : asker[a] # "idle" /\ asker[b] # "idle" => a = b
          /\ \A a \in Askers, i \in Sweeps : asker[a] # "idle" => ~Busy(i)
          /\ \A i \in Sweeps : Busy(i) => i = newest

(* Whom a job has found so far goes by its phase.                          *)
FoundSoFar(j) ==
  CASE j.phase = "sweeping" -> j.scanned \cap Answers
    [] j.phase \in {"arp", "hung"} -> Answers
    [] OTHER -> Answers \cup Neighbours \cup {Own}
JobsTrue ==
  \A i \in Sweeps : LET j == sweep[i] IN
    /\ i > sweeps => j = NoSweep
    /\ DOMAIN j.via = FoundSoFar(j)
    /\ j.asked \subseteq DOMAIN j.via
    /\ \A h \in DOMAIN j.via : h \in Answers \ {Own} => j.via[h] = "tcp"
    /\ j.state = "done" => j.phase = "done"
Inductive == TypeOK /\ Apart /\ JobsTrue
=============================================================================
