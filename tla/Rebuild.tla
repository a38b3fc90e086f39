------------------------------- MODULE Rebuild -------------------------------
(***************************************************************************)
(* The rebuild jobs of one host (rebuild.py).  A job's thread starts a     *)
(* helper container that pulls the project's checkout and builds it.  The  *)
(* project the agent itself belongs to is handed off: its helper replaces  *)
(* the agent, and nobody waits for it.                                     *)
(*                                                                         *)
(* _finish ends with repo_status.invalidate(): RepoStatus takes that call  *)
(* at any moment.                                                          *)
(***************************************************************************)
EXTENDS Integers, FiniteSets

CONSTANTS
  Projects,     \* the Compose projects that are git checkouts
  Own,          \* the agent's own project (none or one)
  MaxCommits,   \* bound: the newest commit a remote ever has
  MaxJobs,      \* MAX_JOBS
  MaxStarts,    \* bound: rebuilds accepted in one behaviour
  MaxRestarts   \* bound: restarts of the agent that no rebuild caused

ASSUME ProjectsAssumption == Projects # {} /\ Own \subseteq Projects
ASSUME BoundsAssumption ==
  /\ MaxCommits \in Nat
  /\ MaxJobs \in Nat \ {0}
  /\ MaxStarts \in Nat
  /\ MaxRestarts \in Nat

VARIABLES
  head,      \* the commit each checkout is at
  upstream,  \* the commit each remote is at
  nextJob,   \* rebuilds accepted so far
  table,     \* the ids in _jobs
  job,       \* the job dictionaries
  pc,        \* where the thread of each job is
  exit,      \* local `code` of _rebuild
  helper,    \* the helper container of each job
  target,    \* the project of each job, and so of its helper
  wanted,    \* history: the remote's commit when the job was accepted
  restarts   \* restarts of the agent that no rebuild caused

gitVars == <<head, upstream>>
jobVars == <<nextJob, table, job, pc, exit, helper, target, wanted, restarts>>
vars == <<gitVars, jobVars>>

JobIds == 1..MaxStarts
NoJob == [state |-> "none", pull |-> FALSE]
Job == [state : {"none", "running", "done", "failed", "handed_off"}, pull : BOOLEAN]

AtWork == {"pulling", "building"}
HelperStates == AtWork \cup {"none", "good", "bad", "removed"}
(* "discard" is the finally branch after an exception, "remove" without.   *)
Locations == {"idle", "launch", "wait", "remove", "discard", "finish", "done", "dead"}
Commits == 0..MaxCommits

Init ==
  /\ head = [p \in Projects |-> 0]
  /\ upstream \in [Projects -> Commits]
  /\ nextJob = 0
  /\ table = {}
  /\ job = [j \in JobIds |-> NoJob]
  /\ pc = [j \in JobIds |-> "idle"]
  /\ exit = [j \in JobIds |-> "none"]
  /\ helper = [j \in JobIds |-> "none"]
  /\ target = [j \in JobIds |-> CHOOSE p \in Projects : TRUE]
  /\ wanted = [j \in JobIds |-> 0]
  /\ restarts = 0

(***************************************************************************)
(* The job table                                                           *)
(***************************************************************************)

(* Wrong variant: the table is not asked.                                  *)
Running_Unasked == FALSE

Running == \E j \in table : job[j].state = "running"

Kept(t, jobs) ==
  {i \in t : \/ Cardinality({k \in t : k > i}) < MaxJobs
             \/ jobs[i].state = "running"}

Start(p, pull) ==
  LET j == nextJob + 1
      jobs == [job EXCEPT ![j] = [state |-> "running", pull |-> pull]]
      kept == Kept(table \cup {j}, jobs)
  IN
    /\ nextJob < MaxStarts
    /\ ~ Running
    /\ nextJob' = j
    /\ table' = kept
    /\ job' = [i \in JobIds |-> IF i \in kept THEN jobs[i] ELSE NoJob]
    /\ pc' = [pc EXCEPT ![j] = "launch"]
    /\ target' = [target EXCEPT ![j] = p]
    /\ wanted' = [wanted EXCEPT ![j] = upstream[p]]
    /\ UNCHANGED <<gitVars, exit, helper, restarts>>

Goto(j, to) == pc' = [pc EXCEPT ![j] = to]

Finish(j, state, to) ==
  /\ job' = [job EXCEPT ![j].state = state]
  /\ Goto(j, to)

(***************************************************************************)
(* The thread of a job                                                     *)
(***************************************************************************)

LaunchFails(j) ==
  /\ pc[j] = "launch"
  /\ Finish(j, "failed", "done")
  /\ UNCHANGED <<gitVars, nextJob, table, exit, helper, target, wanted, restarts>>

Started(j) == [helper EXCEPT ![j] = IF job[j].pull THEN "pulling" ELSE "building"]

Launch(j) ==
  /\ pc[j] = "launch"
  /\ target[j] \notin Own
  /\ helper' = Started(j)
  /\ Goto(j, "wait")
  /\ UNCHANGED <<gitVars, nextJob, table, job, exit, target, wanted, restarts>>

HandOff(j) ==
  /\ pc[j] = "launch"
  /\ target[j] \in Own
  /\ helper' = Started(j)
  /\ Finish(j, "handed_off", "done")
  /\ UNCHANGED <<gitVars, nextJob, table, exit, target, wanted, restarts>>

(* container.wait returns a code ...                                       *)
SeeExit(j) ==
  /\ pc[j] = "wait"
  /\ helper[j] \in {"good", "bad"}
  /\ exit' = [exit EXCEPT ![j] = helper[j]]
  /\ Goto(j, "remove")
  /\ UNCHANGED <<gitVars, nextJob, table, job, helper, target, wanted, restarts>>

(* ... or raises: a timeout, or a daemon that went away.                   *)
LoseTrack(j) ==
  /\ pc[j] = "wait"
  /\ Finish(j, "failed", "discard")
  /\ UNCHANGED <<gitVars, nextJob, table, exit, helper, target, wanted, restarts>>

(* container.remove(force=True), whose failure is only logged.             *)
RemoveHelper(j) ==
  /\ pc[j] \in {"remove", "discard"}
  /\ helper' \in {helper, [helper EXCEPT ![j] = "removed"]}
  /\ Goto(j, IF pc[j] = "remove" THEN "finish" ELSE "done")
  /\ UNCHANGED <<gitVars, nextJob, table, job, exit, target, wanted, restarts>>

(* Wrong variants: the exit code is not looked at; the job stays as it is; *)
(* a word only backups use.                                                *)
Outcome_Hopeful(j) == "done"
Outcome_Pending(j) == job[j].state
Outcome_Succeeded(j) == IF exit[j] = "good" THEN "succeeded" ELSE "failed"

Outcome(j) == IF exit[j] = "good" THEN "done" ELSE "failed"

Conclude(j) ==
  /\ pc[j] = "finish"
  /\ Finish(j, Outcome(j), "done")
  /\ UNCHANGED <<gitVars, nextJob, table, exit, helper, target, wanted, restarts>>

(***************************************************************************)
(* The helper: `git pull --ff-only ... && docker compose up -d --build`    *)
(***************************************************************************)

Pull(p) == head' = [head EXCEPT ![p] = upstream[p]]

HelperPulls(j) ==
  /\ helper[j] = "pulling"
  /\ helper' = [helper EXCEPT ![j] = "building"]
  /\ Pull(target[j])
  /\ UNCHANGED <<upstream, nextJob, table, job, pc, exit, target, wanted, restarts>>

(* Somebody pushes to the remote, or pulls on the host.                    *)
Push(p) ==
  /\ upstream[p] < MaxCommits
  /\ upstream' = [upstream EXCEPT ![p] = @ + 1]
  /\ UNCHANGED <<head, jobVars>>

ByHand(p) ==
  /\ Pull(p)
  /\ UNCHANGED <<upstream, jobVars>>

(* What a restart of the agent takes with it.                              *)
MemoryLost ==
  /\ table' = {}
  /\ job' = [j \in JobIds |-> NoJob]
  /\ pc' = [j \in JobIds |-> IF pc[j] \in {"idle", "done"} THEN pc[j] ELSE "dead"]
  /\ exit' = [j \in JobIds |-> "none"]
  /\ UNCHANGED <<gitVars, nextJob, target, wanted>>

(* `up` of the agent's own project replaces the agent; any other build     *)
(* just ends.  The helper of a self-rebuild removes itself.                *)
HelperExits(j, outcome) ==
  /\ IF outcome = "good" THEN helper[j] = "building" ELSE helper[j] \in AtWork
  /\ helper' = [helper EXCEPT ![j] = IF target[j] \in Own THEN "removed" ELSE outcome]
  /\ UNCHANGED restarts
  /\ IF target[j] \in Own /\ outcome = "good"
       THEN MemoryLost
       ELSE UNCHANGED <<gitVars, nextJob, table, job, pc, exit, target, wanted>>

AgentRestart ==
  /\ restarts < MaxRestarts
  /\ restarts' = restarts + 1
  /\ MemoryLost
  /\ UNCHANGED helper

Thread(j) ==
  \/ LaunchFails(j) \/ Launch(j) \/ HandOff(j) \/ SeeExit(j) \/ LoseTrack(j)
  \/ RemoveHelper(j) \/ Conclude(j)

Next ==
  \/ \E p \in Projects, pull \in BOOLEAN : Start(p, pull)
  \/ \E j \in JobIds : Thread(j) \/ HelperPulls(j)
  \/ \E j \in JobIds, outcome \in {"good", "bad"} : HelperExits(j, outcome)
  \/ AgentRestart
  \/ \E p \in Projects : Push(p) \/ ByHand(p)

(* Every docker call of a thread returns or raises, container.wait at      *)
(* REBUILD_TIMEOUT.  Nothing is assumed of helpers, callers or the agent.  *)
Fairness == \A j \in JobIds : WF_vars(Thread(j))

Spec == Init /\ [][Next]_vars
FairSpec == Spec /\ Fairness

-----------------------------------------------------------------------------
(***************************************************************************)
(* Properties                                                              *)
(***************************************************************************)

(* Every variable has the type the code gives it.                          *)
TypeOK ==
  /\ head \in [Projects -> Commits]
  /\ upstream \in [Projects -> Commits]
  /\ nextJob \in 0..MaxStarts
  /\ table \subseteq JobIds
  /\ job \in [JobIds -> Job]
  /\ pc \in [JobIds -> Locations]
  /\ exit \in [JobIds -> {"none", "good", "bad"}]
  /\ helper \in [JobIds -> HelperStates]
  /\ target \in [JobIds -> Projects]
  /\ wanted \in [JobIds -> Commits]
  /\ restarts \in 0..MaxRestarts

(* "One at a time per host - a second request while one is running is a    *)
(* 409" (README.md): never two helpers pulling or building.                *)
OneAtATime ==
  \A j, k \in JobIds : helper[j] \in AtWork /\ helper[k] \in AtWork => j = k

(* While a job waits for its helper no later rebuild has begun, so nothing *)
(* the agent starts can pull or build under it.                            *)
WaitedAlone ==
  \A j, k \in JobIds : pc[j] = "wait" /\ j < k => helper[k] = "none"

(* A job that is reported done, pull included, has its checkout at least   *)
(* where the remote was when the rebuild was asked for.                    *)
DoneIsPulled ==
  [][\A j \in JobIds :
       job[j].state = "running" /\ job'[j].state = "done" /\ job[j].pull =>
         head[target[j]] >= wanted[j]]_vars

(* A running job ends or is forgotten: the next request is not refused for *)
(* ever.                                                                   *)
JobsEnd ==
  \A j \in JobIds :
    j \in table /\ job[j].state = "running"
      ~> j \notin table \/ job[j].state # "running"
-----------------------------------------------------------------------------
(***************************************************************************)
(* What the safety properties rest on: the conjuncts of the inductive      *)
(* invariant of Rebuild_proofs                                             *)
(***************************************************************************)

Working == {"launch", "wait", "remove", "finish"}

(* A thread that has not finished its job works on a running job of the    *)
(* table: _finish comes last, and _record never drops a running job.       *)
WorkingIsRunning ==
  \A j \in JobIds : pc[j] \in Working => j \in table /\ job[j].state = "running"

(* At most one job of the table is running: start() decides under the lock.*)
OneRunning ==
  \A j, k \in table : job[j].state = "running" /\ job[k].state = "running" => j = k

(* A job that was not accepted yet has done nothing.                       *)
FutureIsBlank ==
  \A j \in JobIds : j > nextJob => pc[j] = "idle" /\ helper[j] = "none" /\ exit[j] = "none"

(* No later job has had a helper while one is launched or waited for.      *)
NothingLater ==
  \A j, k \in JobIds : pc[j] \in {"launch", "wait"} /\ j < k => helper[k] = "none"

(* A helper that is waited for or removed was started.                     *)
HelperBegan ==
  \A j \in JobIds : pc[j] \in {"wait", "remove", "discard"} => helper[j] # "none"

(* Remotes never fall behind a checkout or what a job was asked for.       *)
RemotesLead ==
  /\ \A p \in Projects : head[p] <= upstream[p]
  /\ \A j \in JobIds : wanted[j] <= upstream[target[j]]

(* Past its pull, and when its exit code says so, a running job's helper   *)
(* has brought the checkout to what was asked for.                         *)
PastPull ==
  \A j \in JobIds :
    /\ job[j].state = "running" /\ job[j].pull
    /\ helper[j] \in {"building", "good"} \/ exit[j] = "good"
    => wanted[j] <= head[target[j]]

Inductive ==
  /\ TypeOK
  /\ WorkingIsRunning
  /\ OneRunning
  /\ FutureIsBlank
  /\ NothingLater
  /\ HelperBegan
  /\ RemotesLead
  /\ PastPull
=============================================================================
