--------------------------- MODULE ContainerCache ---------------------------
(***************************************************************************)
(* The snapshot of the containers that GET /containers answers with        *)
(* (main.py): one worker thread lists them, reads each one's counters and  *)
(* turns them into rates by what it saw of the container before.           *)
(*                                                                         *)
(* A container has one counter, of the work done since it was started, for *)
(* its bytes and for its CPU time; the time between two readings is taken  *)
(* as one, so that a rate is a difference.  Left out: what else a row      *)
(* says, the figures that are read as they are, and the GPU.               *)
(***************************************************************************)
EXTENDS Integers

CONSTANTS
  Containers,   \* their ids; one that was removed does not come back
  MostWork      \* bound: the counter of a container

CacheSane == MostWork \in Nat

Unseen == -1    \* no entry in previous_io or previous_cpu
NoRows == [c \in {} |-> 0]
Nobody == [of |-> "nobody", status |-> "exited"]

VARIABLES
  status,     \* of each container
  work,       \* its counter
  previousIo, previousCpu,  \* previous_io, previous_cpu
  toRead,     \* the containers of this round that are still to be read
  sampled,    \* the one that is being read, and the status it was found in
  rows,       \* the snapshot that is being built
  round,      \* whether the worker is in a round
  shown,      \* container_cache
  sinceIo, sinceCpu,  \* history: work since previousIo and previousCpu were set
  blind       \* history: previousIo is not what the counter was

cacheVars == <<status, work, previousIo, previousCpu, toRead, sampled, rows, round, shown,
               sinceIo, sinceCpu, blind>>
workerVars == <<toRead, sampled, rows, round, shown>>
previousVars == <<previousIo, previousCpu>>
historyVars == <<sinceIo, sinceCpu, blind>>

There == {c \in Containers : status[c] \notin {"new", "removed"}}

Init ==
  /\ status \in [Containers -> {"new", "running"}]   \* the agent may come later than they
  /\ work \in [Containers -> 0..MostWork]
  /\ previousIo = [c \in Containers |-> Unseen]
  /\ previousCpu = [c \in Containers |-> Unseen]
  /\ toRead = {}
  /\ sampled = Nobody
  /\ rows = NoRows
  /\ round = FALSE
  /\ shown = NoRows
  /\ sinceIo = [c \in Containers |-> 0]
  /\ sinceCpu = [c \in Containers |-> 0]
  /\ blind = [c \in Containers |-> FALSE]

-----------------------------------------------------------------------------
(* What the containers do meanwhile.                                       *)
Turn(c, from, to) ==
  /\ status[c] \in from
  /\ status' = [status EXCEPT ![c] = to]
  /\ UNCHANGED <<previousVars, workerVars, historyVars>>

Starts(c) == Turn(c, {"new", "exited"}, "running") /\ work' = [work EXCEPT ![c] = 0]
Stops(c) == Turn(c, {"running"}, "exited") /\ UNCHANGED work
Pauses(c) == Turn(c, {"running"}, "paused") /\ UNCHANGED work
Unpauses(c) == Turn(c, {"paused"}, "running") /\ UNCHANGED work
Goes(c) == Turn(c, {"exited"}, "removed") /\ UNCHANGED work

\* A difference of two counters is never more than MostWork.
OneMore(n) == IF n < MostWork THEN n + 1 ELSE n

Works(c) ==
  /\ status[c] = "running" /\ work[c] < MostWork
  /\ work' = [work EXCEPT ![c] = @ + 1]
  /\ sinceIo' = [sinceIo EXCEPT ![c] = IF previousIo[c] = Unseen THEN 0 ELSE OneMore(@)]
  /\ sinceCpu' = [sinceCpu EXCEPT ![c] = IF previousCpu[c] = Unseen THEN 0 ELSE OneMore(@)]
  /\ UNCHANGED <<status, previousVars, workerVars, blind>>

-----------------------------------------------------------------------------
(* build_container_snapshot: a container that has gone is forgotten by the *)
(* CPU counters; the listing may fail, which ends the round.               *)
List ==
  /\ ~round
  /\ round' = TRUE
  /\ toRead' = There
  /\ previousCpu' = [c \in Containers |-> IF c \in There THEN previousCpu[c] ELSE Unseen]
  /\ UNCHANGED <<status, work, previousIo, sampled, rows, shown, historyVars>>

(* container.reload: one that has gone meanwhile is left out.              *)
Reload ==
  /\ sampled = Nobody
  /\ \E c \in toRead :
       /\ toRead' = toRead \ {c}
       /\ sampled' = IF c \in There THEN [of |-> c, status |-> status[c]] ELSE Nobody
  /\ UNCHANGED <<status, work, previousVars, rows, round, shown, historyVars>>

AtLeast0(n) == IF n > 0 THEN n ELSE 0

(* use_previous_cpu: at first sight a reading is compared with itself.     *)
Before_Zero(c, n) == AtLeast0(previousCpu[c])
Before(c, n) == IF previousCpu[c] = Unseen THEN n ELSE previousCpu[c]

(* calculate_cpu_percent and add_io_rates; neither is ever below 0.        *)
Cpu(c, n) == AtLeast0(n - Before(c, n))
Io(c, n) == IF previousIo[c] = Unseen THEN 0 ELSE AtLeast0(n - previousIo[c])

\* A row, and what has really been done (history; anything after a blind reading).
Row(c, io, cpu) ==
  [io |-> io, cpu |-> cpu, doneCpu |-> sinceCpu[c],
   doneIo |-> IF blind[c] THEN MostWork ELSE sinceIo[c]]
Add(c, row) == rows' = [d \in DOMAIN rows \cup {c} |-> IF d = c THEN row ELSE rows[d]]
Seen(c, n, unknown) ==
  /\ previousIo' = [previousIo EXCEPT ![c] = n]
  /\ sinceIo' = [sinceIo EXCEPT ![c] = 0]
  /\ blind' = [blind EXCEPT ![c] = unknown]

\* Docker's counters of a container that does not run are all 0.
Counter(c) == IF status[c] \in {"running", "paused"} THEN work[c] ELSE 0

(* get_container_stats of a running container.                             *)
ReadCounters ==
  LET c == sampled.of
      n == Counter(c)
  IN /\ sampled.status = "running"
     /\ previousCpu' = [previousCpu EXCEPT ![c] = n]
     /\ sinceCpu' = [sinceCpu EXCEPT ![c] = 0]
     /\ Add(c, Row(c, Io(c, n), Cpu(c, n)))
     /\ Seen(c, n, FALSE)
     /\ sampled' = Nobody
     /\ UNCHANGED <<status, work, toRead, round, shown>>

(* Of one that does not run, or whose counters docker does not give: 0 for *)
(* all of them, which add_io_rates keeps like any other reading.           *)
ReadNothing ==
  LET c == sampled.of
  IN /\ sampled # Nobody
     /\ Add(c, Row(c, Io(c, 0), 0))
     /\ Seen(c, 0, Counter(c) # 0)
     /\ sampled' = Nobody
     /\ UNCHANGED <<status, work, previousCpu, toRead, round, shown, sinceCpu>>

(* cache_worker: the snapshot is published as a whole.                     *)
Publish ==
  /\ round /\ toRead = {} /\ sampled = Nobody
  /\ shown' = rows
  /\ rows' = NoRows
  /\ round' = FALSE
  /\ UNCHANGED <<status, work, previousVars, toRead, sampled, historyVars>>

Next ==
  \/ \E c \in Containers : \/ Starts(c) \/ Stops(c) \/ Pauses(c) \/ Unpauses(c) \/ Goes(c)
                           \/ Works(c)
  \/ List \/ Reload \/ ReadCounters \/ ReadNothing \/ Publish

Spec == Init /\ [][Next]_cacheVars

-----------------------------------------------------------------------------
Amounts == 0..MostWork
Rates == [io : Amounts, cpu : Amounts, doneIo : Amounts, doneCpu : Amounts]

(* Every variable has its type.                                            *)
TypeOK ==
  /\ status \in [Containers -> {"new", "running", "paused", "exited", "removed"}]
  /\ work \in [Containers -> Amounts]
  /\ previousIo \in [Containers -> Unseen..MostWork]
  /\ previousCpu \in [Containers -> Unseen..MostWork]
  /\ toRead \subseteq Containers
  /\ sampled = Nobody \/ sampled.of \in Containers
  /\ round \in BOOLEAN
  /\ \A c \in DOMAIN rows : rows[c] \in Rates
  /\ \A c \in DOMAIN shown : shown[c] \in Rates
  /\ sinceIo \in [Containers -> Amounts] /\ sinceCpu \in [Containers -> Amounts]
  /\ blind \in [Containers -> BOOLEAN]

(* A rate that is shown is never more than what the container has done     *)
(* since its counters were read before, and 0 at first sight, across       *)
(* stops, starts, pauses and failed readings: for the CPU always, for the  *)
(* bytes unless the reading before gave 0 for a counter that was not.      *)
Sane(row) == row.cpu =< row.doneCpu /\ row.io =< row.doneIo
RatesSane == \A c \in DOMAIN shown : Sane(shown[c])

(* What makes it so: a counter has grown by no more than what was done     *)
(* since it was read, and the rows that are being built are as good.       *)
Grown(previous, since, c) == previous[c] # Unseen => Counter(c) - previous[c] =< since[c]
Inductive ==
  /\ TypeOK /\ RatesSane /\ \A c \in DOMAIN rows : Sane(rows[c])
  /\ \A c \in Containers : /\ ~blind[c] => Grown(previousIo, sinceIo, c)
                           /\ Grown(previousCpu, sinceCpu, c)
=============================================================================
