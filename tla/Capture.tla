------------------------------ MODULE Capture -------------------------------
(***************************************************************************)
(* The packet capture (capture.py, with the loop of capture_worker.py).    *)
(*                                                                         *)
(* A start reserves, validates, removes the helpers that were left behind, *)
(* launches one and publishes the job; a reader thread follows the helper  *)
(* and removes it.  A stop kills the helper of the job it has looked up.   *)
(* The job and the reservation are in memory, helpers outlive the agent.   *)
(*                                                                         *)
(* Of what a helper prints only its last line, "end", is kept; the figures *)
(* and packets of a job are left out, and so is what a snapshot shows.     *)
(***************************************************************************)
EXTENDS Integers, FiniteSets

CONSTANTS
  Viewers,         \* the threads that serve start and stop
  MaxCaptures,     \* bound: captures started
  MaxDockerFaults, \* bound: docker calls that fail
  MaxDeaths        \* bound: restarts of the agent

Captures == 1..MaxCaptures
CaptureSane == {MaxCaptures, MaxDockerFaults, MaxDeaths} \subseteq Nat

VARIABLES
  job,        \* _job: the newest job, or 0
  state,      \* the state of each job
  starting,   \* _starting
  caller,     \* where each request is, and the job it works on
  captures,   \* how many helpers there have been
  sniffer,    \* the helper container of each job
  said,       \* the reason in its "end" line, once it has printed one
  reader,     \* the reader thread of each job
  dockerFaults, deaths,
  leftBehind  \* history: the removal of a helper failed

captureVars == <<job, state, starting, caller, captures, sniffer, said, reader,
                 dockerFaults, deaths, leftBehind>>

Idle == [pc |-> "idle", on |-> 0]

Init ==
  /\ job = 0
  /\ state = [i \in Captures |-> "none"]
  /\ starting = FALSE
  /\ caller = [v \in Viewers |-> Idle]
  /\ captures = 0
  /\ sniffer = [i \in Captures |-> "none"]
  /\ said = [i \in Captures |-> "nothing"]
  /\ reader = [i \in Captures |-> "none"]
  /\ dockerFaults = 0
  /\ deaths = 0
  /\ leftBehind = FALSE

Capturing(i) == i # 0 /\ state[i] = "capturing"
Goto(v, pc, on) == caller' = [caller EXCEPT ![v] = [pc |-> pc, on |-> on]]
DockerFails == dockerFaults < MaxDockerFaults /\ dockerFaults' = dockerFaults + 1
DockerWorks == UNCHANGED dockerFaults

helperVars == <<captures, sniffer, said>>

-----------------------------------------------------------------------------
(* start: check and reserve in one step.                                   *)
MayStart_Unreserved == ~(job # 0 /\ state[job] = "capturing")
MayStart == ~starting /\ ~(job # 0 /\ state[job] = "capturing")

Start(v) ==
  /\ caller[v] = Idle
  /\ captures < MaxCaptures
  /\ MayStart
  /\ starting' = TRUE
  /\ Goto(v, "validate", 0)
  /\ UNCHANGED <<job, state, helperVars, reader, dockerFaults, deaths, leftBehind>>

(* _validated, validate_filter: the request is good, or refused; reading   *)
(* the interfaces may fail.  Whatever happens, the reservation is dropped. *)
Validate(v) ==
  /\ caller[v].pc = "validate"
  /\ \/ Goto(v, "clear", 0) /\ UNCHANGED starting
     \/ caller' = [caller EXCEPT ![v] = Idle] /\ starting' = FALSE
  /\ UNCHANGED <<job, state, helperVars, reader, dockerFaults, deaths, leftBehind>>

There == {i \in Captures : sniffer[i] \in {"created", "running", "exited"}}

(* _clear_stale: every helper of this kind, whoever started it.  A removal *)
(* that fails is passed over.                                              *)
ClearStale(v) ==
  /\ caller[v].pc = "clear"
  /\ \/ /\ sniffer' = [i \in Captures |-> IF i \in There THEN "removed" ELSE sniffer[i]]
        /\ DockerWorks /\ UNCHANGED leftBehind
     \/ DockerFails /\ leftBehind' = TRUE /\ UNCHANGED sniffer
  /\ Goto(v, "create", 0)
  /\ UNCHANGED <<job, state, starting, captures, said, reader, deaths>>

Create(v) ==
  /\ caller[v].pc = "create"
  /\ captures < MaxCaptures
  /\ captures' = captures + 1
  /\ sniffer' = [sniffer EXCEPT ![captures'] = "created"]
  /\ Goto(v, "launch", captures')
  /\ UNCHANGED <<job, state, starting, said, reader, dockerFaults, deaths, leftBehind>>

(* Attach and start; if that fails the container is removed again.         *)
Launch(v) ==
  LET i == caller[v].on
  IN /\ caller[v].pc = "launch"
     /\ \/ /\ DockerWorks
           /\ sniffer' = [sniffer EXCEPT ![i] = IF @ = "created" THEN "running" ELSE @]
           /\ Goto(v, "publish", i)
           /\ UNCHANGED starting
        \/ /\ DockerFails
           /\ sniffer' = [sniffer EXCEPT ![i] = "removed"]
           /\ caller' = [caller EXCEPT ![v] = Idle]
           /\ starting' = FALSE
     /\ UNCHANGED <<job, state, captures, said, reader, deaths, leftBehind>>

(* `_job, _container = job, container`, and the reservation ends.          *)
Publish(v) ==
  LET i == caller[v].on
  IN /\ caller[v].pc = "publish"
     /\ job' = i
     /\ state' = [state EXCEPT ![i] = "capturing"]
     /\ starting' = FALSE
     /\ Goto(v, "thread", i)
     /\ UNCHANGED <<helperVars, reader, dockerFaults, deaths, leftBehind>>

Follow(v) ==
  /\ caller[v].pc = "thread"
  /\ reader' = [reader EXCEPT ![caller[v].on] = "reading"]
  /\ caller' = [caller EXCEPT ![v] = Idle]
  /\ UNCHANGED <<job, state, starting, helperVars, dockerFaults, deaths, leftBehind>>

-----------------------------------------------------------------------------
(* stop: the job and its container are looked up together.                 *)
Stop(v) ==
  /\ caller[v] = Idle
  /\ Capturing(job)
  /\ Goto(v, "kill", job)
  /\ UNCHANGED <<job, state, starting, helperVars, reader, dockerFaults, deaths, leftBehind>>

\* A kill that fails is passed over: the helper goes on to the end of its time.
Kill(v) ==
  LET i == caller[v].on
  IN /\ caller[v].pc = "kill"
     /\ \/ DockerWorks /\ sniffer' = [sniffer EXCEPT ![i] = IF @ = "running" THEN "exited" ELSE @]
        \/ DockerFails /\ UNCHANGED sniffer
     /\ Goto(v, "mark", i)
     /\ UNCHANGED <<job, state, starting, captures, said, reader, deaths, leftBehind>>

Stopped(i) == IF i = job /\ Capturing(i) THEN "stopped" ELSE state[i]
Mark(v) ==
  /\ caller[v].pc = "mark"
  /\ state' = [state EXCEPT ![caller[v].on] = Stopped(caller[v].on)]
  /\ caller' = [caller EXCEPT ![v] = Idle]
  /\ UNCHANGED <<job, starting, helperVars, reader, dockerFaults, deaths, leftBehind>>

-----------------------------------------------------------------------------
(* The helper: to the end of its time or to a socket error; it says which  *)
(* in its last line.  (A stop kills it, and then it says nothing.)         *)
Ends(i) ==
  /\ sniffer[i] = "running"
  /\ sniffer' = [sniffer EXCEPT ![i] = "exited"]
  /\ \E reason \in {"finished", "broken"} : said' = [said EXCEPT ![i] = reason]
  /\ UNCHANGED <<job, state, starting, caller, captures, reader, dockerFaults, deaths, leftBehind>>

(* _read: a line is applied to its job if that is still the newest one.    *)
EndState(reason) == IF reason = "finished" THEN "done" ELSE "error"
TakeEnd(i) ==
  /\ reader[i] = "reading" /\ said[i] # "nothing"
  /\ state' = [state EXCEPT ![i] = IF i = job THEN EndState(said[i]) ELSE @]
  /\ said' = [said EXCEPT ![i] = "nothing"]
  /\ UNCHANGED <<job, starting, caller, captures, sniffer, reader, dockerFaults, deaths, leftBehind>>

Lost_Unchecked(i) == state[i]
Lost(i) == IF i = job /\ Capturing(i) THEN "error" ELSE state[i]

(* The stream ends with the container, or breaks before: a job that still  *)
(* counts as capturing has failed.                                         *)
StreamEnds(i) ==
  /\ reader[i] = "reading"
  /\ \/ sniffer[i] \in {"exited", "removed"} /\ said[i] = "nothing" /\ DockerWorks
     \/ DockerFails
  /\ state' = [state EXCEPT ![i] = Lost(i)]
  /\ reader' = [reader EXCEPT ![i] = "removing"]
  /\ UNCHANGED <<job, starting, caller, helperVars, deaths, leftBehind>>

RemoveHelper(i) ==
  /\ reader[i] = "removing"
  /\ \/ DockerWorks /\ sniffer' = [sniffer EXCEPT ![i] = "removed"] /\ UNCHANGED leftBehind
     \/ DockerFails /\ leftBehind' = TRUE /\ UNCHANGED sniffer
  /\ reader' = [reader EXCEPT ![i] = "gone"]
  /\ UNCHANGED <<job, state, starting, caller, captures, said, deaths>>

-----------------------------------------------------------------------------
(* The agent restarts: helpers stay, and nothing follows them.             *)
AgentRestart ==
  /\ deaths < MaxDeaths
  /\ deaths' = deaths + 1
  /\ job' = 0
  /\ starting' = FALSE
  /\ caller' = [v \in Viewers |-> Idle]
  /\ reader' = [i \in Captures |-> IF reader[i] = "none" THEN "none" ELSE "gone"]
  /\ UNCHANGED <<state, helperVars, dockerFaults, leftBehind>>

Starts(v) == Validate(v) \/ ClearStale(v) \/ Create(v) \/ Launch(v) \/ Publish(v) \/ Follow(v)
Stops(v) == Kill(v) \/ Mark(v)
Reads(i) == TakeEnd(i) \/ StreamEnds(i) \/ RemoveHelper(i)

Next ==
  \/ AgentRestart
  \/ \E v \in Viewers : Start(v) \/ Stop(v) \/ Starts(v) \/ Stops(v)
  \/ \E i \in Captures : Ends(i) \/ Reads(i)

CallerSteps == \E v \in Viewers : Starts(v) \/ Stops(v)
ReaderSteps == \E i \in Captures : Reads(i)
HelperSteps == \E i \in Captures : Ends(i)
Spec == Init /\ [][Next]_captureVars
FairSpec == /\ Spec
            /\ WF_captureVars(CallerSteps)
            /\ WF_captureVars(ReaderSteps)
            /\ WF_captureVars(HelperSteps)

-----------------------------------------------------------------------------
(* Every variable has its type.                                            *)
Stages == {"idle", "validate", "clear", "create", "launch", "publish", "thread", "kill", "mark"}
TypeOK ==
  /\ job \in {0} \cup Captures
  /\ state \in [Captures -> {"none", "capturing", "done", "stopped", "error"}]
  /\ starting \in BOOLEAN
  /\ caller \in [Viewers -> [pc : Stages, on : {0} \cup Captures]]
  /\ captures \in 0..MaxCaptures
  /\ sniffer \in [Captures -> {"none", "created", "running", "exited", "removed"}]
  /\ said \in [Captures -> {"nothing", "finished", "broken"}]
  /\ reader \in [Captures -> {"none", "reading", "removing", "gone"}]
  /\ dockerFaults \in 0..MaxDockerFaults
  /\ deaths \in 0..MaxDeaths
  /\ leftBehind \in BOOLEAN

Running == {i \in Captures : sniffer[i] = "running"}

(* The host runs one sniffer at a time, whichever requests cross and even  *)
(* after a restart that left one behind, unless docker refused to remove   *)
(* one; and a job is only shown as capturing while a thread follows it.    *)
Followed ==
  Capturing(job) =>
    reader[job] = "reading" \/ \E v \in Viewers : caller[v] = [pc |-> "thread", on |-> job]
OneSniffer == (Cardinality(Running) > 1 => leftBehind) /\ Followed

(* A new capture is refused, which must not be for ever.                   *)
Refusing == starting \/ Capturing(job)

(* What makes it one sniffer: the reservation is that of the one request   *)
(* that starts a capture, a helper is of a start that has been, and once   *)
(* the helpers before it are removed there is only the start's own one.    *)
Begins(v) == caller[v].pc \in {"validate", "clear", "create", "launch", "publish"}
Reserved ==
  /\ \A v \in Viewers : Begins(v) => starting
  /\ \A u, v \in Viewers : Begins(u) /\ Begins(v) => u = v
OfAStart ==
  /\ \A v \in Viewers : caller[v].pc \in {"launch", "publish", "thread"} =>
                           caller[v].on \in 1..captures
  /\ \A v \in Viewers : caller[v].pc \in {"kill", "mark"} => caller[v].on # 0
  /\ \A i \in Captures : i > captures => sniffer[i] = "none" /\ reader[i] = "none"
Alone ==
  leftBehind \/
    /\ \A i, j \in Running : i = j
    /\ \A v \in Viewers : caller[v].pc = "create" => There = {}
    /\ \A v \in Viewers : caller[v].pc \in {"launch", "publish"} => There \subseteq {caller[v].on}
Inductive == TypeOK /\ Reserved /\ OfAStart /\ Alone /\ Followed
=============================================================================
