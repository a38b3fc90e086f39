---------------------------- MODULE VolumeBackup ----------------------------
(***************************************************************************)
(* The backup jobs of one host (volume_backup.py): the job table, the      *)
(* thread of each job, the containers it stops and starts again around the *)
(* copy, and the throwaway helper container that makes the copy.           *)
(*                                                                         *)
(* A job's thread is a sequence of Docker calls, each of which may fail;   *)
(* between two of them the control routes may start, stop or delete any    *)
(* container that is not protected, the helper may exit, and the agent may *)
(* restart: its threads and its table go, the containers and the helpers   *)
(* stay as they are.                                                       *)
(*                                                                         *)
(* Containers are numbered in the order Docker lists them (newest first),  *)
(* jobs in the order they started.  What is in an archive is the business  *)
(* of ArchiveTransfer; here a helper's exit is good or bad.                *)
(***************************************************************************)
EXTENDS Integers, FiniteSets

CONSTANTS
  Containers,   \* numbers: the containers of the host, newest first
  Protected,    \* PROTECTED_CONTAINER_NAMES: never stopped
  Sources,      \* the volumes and directories a job may name
  Uses,         \* [Sources -> SUBSET Containers]: the outcome of _uses
  MaxJobs,      \* MAX_JOBS, the length of the job table
  MaxStarts,    \* bound: jobs accepted in one behaviour
  MaxRestarts,  \* bound: restarts of the agent in one behaviour
  MaxOutside    \* bound: changes made by the control routes in one behaviour

ASSUME ContainersAssumption == Containers \subseteq Int /\ IsFiniteSet(Containers)
ASSUME ProtectedAssumption == Protected \subseteq Containers
ASSUME SourcesAssumption == Sources # {}
ASSUME UsesAssumption == Uses \in [Sources -> SUBSET Containers]
ASSUME BoundsAssumption ==
  /\ MaxJobs \in Nat \ {0}
  /\ MaxStarts \in Nat
  /\ MaxRestarts \in Nat
  /\ MaxOutside \in Nat

VARIABLES
  nextJob,    \* jobs accepted so far; the id of the newest one
  table,      \* the ids in _jobs
  job,        \* the job dictionaries (NoJob for an id that is not in _jobs)
  pc,         \* where the thread of each job is
  list,       \* local `stopped` of _quiesce and _backup
  rest,       \* the part of `list` that the current loop has not reached
  skipped,    \* local `skipped` of _quiesce
  exit,       \* locals `code` and `output` of _backup: how the helper ended
  errors,     \* local `failed` of _resume: the containers that did not start
  helper,     \* the helper container of each job
  box,        \* the state of each container
  touched,    \* history: containers changed from outside since the job listed them
  restarts,   \* restarts of the agent so far
  outside     \* changes to the containers from outside so far

threadVars == <<pc, list, rest, skipped, exit, errors>>
vars == <<nextJob, table, job, threadVars, helper, box, touched, restarts, outside>>

JobIds == 1..MaxStarts

JobStates == {"none", "running", "succeeded", "failed"}
JobErrors == {"none", "quiesce", "helper", "copy", "restart"}

Job == [state : JobStates, source : Sources, stop : BOOLEAN,
        stopped : SUBSET Containers, notStopped : SUBSET Containers,
        result : BOOLEAN, error : JobErrors]

(* Where a thread is while its job is running, and where it may be after.  *)
(* "salvage" is the except branch of _backup, "discard" its finally branch *)
(* after an exception, "remove" its finally branch without one.            *)
Working == {"list", "stopping", "launch", "wait", "remove", "resume",
            "salvage"}
Locations == Working \cup {"idle", "discard", "done", "dead"}

HelperStates == {"none", "copying", "good", "bad", "removed"}


NoJob == [state |-> "none", source |-> CHOOSE s \in Sources : TRUE, stop |-> FALSE,
          stopped |-> {}, notStopped |-> {}, result |-> FALSE, error |-> "none"]

Init ==
  /\ nextJob = 0
  /\ table = {}
  /\ job = [j \in JobIds |-> NoJob]
  /\ pc = [j \in JobIds |-> "idle"]
  /\ list = [j \in JobIds |-> {}]
  /\ rest = [j \in JobIds |-> {}]
  /\ skipped = [j \in JobIds |-> {}]
  /\ exit = [j \in JobIds |-> "none"]
  /\ errors = [j \in JobIds |-> {}]
  /\ helper = [j \in JobIds |-> "none"]
  /\ box \in [Containers -> {"up", "down"}]
  /\ touched = [j \in JobIds |-> {}]
  /\ restarts = 0
  /\ outside = 0

(***************************************************************************)
(* The job table                                                           *)
(***************************************************************************)

(* Wrong variant: nothing is ever in the way of a start.                   *)
Running_Never == FALSE

Running == \E j \in table : job[j].state = "running"

(* Wrong variant: the slice is one entry short.                            *)
Kept_OneTooMany(t, jobs) ==
  {i \in t : Cardinality({k \in t : k > i}) <= MaxJobs \/ jobs[i].state = "running"}

(* What _record keeps of a table: sorted(...)[:-MAX_JOBS] are the jobs      *)
(* that have MaxJobs newer ones beside them; of these, a running one stays.*)
Kept(t, jobs) ==
  {i \in t : \/ Cardinality({k \in t : k > i}) < MaxJobs
             \/ jobs[i].state = "running"}

(* start(), past its validation: refused (409) while a job is running.     *)
Start(s, stop) ==
  LET j == nextJob + 1
      record == [NoJob EXCEPT !.state = "running", !.source = s, !.stop = stop]
      jobs == [job EXCEPT ![j] = record]
      kept == Kept(table \cup {j}, jobs)
  IN
    /\ nextJob < MaxStarts
    /\ ~ Running
    /\ nextJob' = j
    /\ table' = kept
    /\ job' = [i \in JobIds |-> IF i \in kept THEN jobs[i] ELSE NoJob]
    /\ pc' = [pc EXCEPT ![j] = IF stop THEN "list" ELSE "launch"]
    /\ UNCHANGED <<list, rest, skipped, exit, errors, helper, box, touched, restarts, outside>>

(* The thread of job j moves on; its locals die with it.                   *)
Goto(j, to) == pc' = [pc EXCEPT ![j] = to]

Forget(j) ==
  /\ list' = [list EXCEPT ![j] = {}]
  /\ rest' = [rest EXCEPT ![j] = {}]
  /\ skipped' = [skipped EXCEPT ![j] = {}]
  /\ exit' = [exit EXCEPT ![j] = "none"]
  /\ errors' = [errors EXCEPT ![j] = {}]
  /\ touched' = [touched EXCEPT ![j] = {}]

(* _finish, and the thread leaves for `to`.  job["result"] is stored just   *)
(* before, when the helper left one.                                       *)
Finish(j, state, error, to) ==
  /\ job' = [job EXCEPT ![j].state = state, ![j].error = error,
                        ![j].result = exit[j] = "good"]
  /\ Goto(j, to)
  /\ Forget(j)

(***************************************************************************)
(* _quiesce: list the running containers, then stop them one by one        *)
(***************************************************************************)

(* Wrong variant: a protected container is passed over in silence.         *)
Skipped_Unnamed(users) == {}

Skipped(users) == users \cap Protected

List(j) ==
  LET users == {c \in Uses[job[j].source] : box[c] = "up"} IN
    /\ pc[j] = "list"
    /\ list' = [list EXCEPT ![j] = users \ Protected]
    /\ rest' = [rest EXCEPT ![j] = users \ Protected]
    /\ skipped' = [skipped EXCEPT ![j] = Skipped(users)]
    /\ touched' = [touched EXCEPT ![j] = {}]
    /\ Goto(j, "stopping")
    /\ UNCHANGED <<nextJob, table, job, exit, errors, helper, box, restarts, outside>>

(* The containers still to stop are taken newest first.                    *)
IsNewest(c, S) == c \in S /\ \A d \in S : c <= d
IsOldest(c, S) == c \in S /\ \A d \in S : d <= c

StopOne(j, c) ==
  /\ pc[j] = "stopping"
  /\ IsNewest(c, rest[j])
  /\ box[c] # "gone"
  /\ box' = [box EXCEPT ![c] = "down"]
  /\ rest' = [rest EXCEPT ![j] = @ \ {c}]
  /\ UNCHANGED <<nextJob, table, job, pc, list, skipped, exit, errors, helper, touched, restarts, outside>>

(* A listing or a stop that raises ends the job in _run_job: nothing that  *)
(* was stopped before is started again.  The stop that raised may have     *)
(* taken effect all the same.                                              *)
QuiesceFails(j) ==
  /\ \/ /\ pc[j] = "list"
        /\ UNCHANGED box
     \/ /\ pc[j] = "stopping"
        /\ \E c \in rest[j] :
             /\ IsNewest(c, rest[j])
             /\ \/ UNCHANGED box
                \/ /\ box[c] = "up"
                   /\ box' = [box EXCEPT ![c] = "down"]
  /\ Finish(j, "failed", "quiesce", "done")
  /\ UNCHANGED <<nextJob, table, helper, restarts, outside>>

Quiesced(j) ==
  /\ pc[j] = "stopping"
  /\ rest[j] = {}
  /\ job' = [job EXCEPT ![j].stopped = list[j], ![j].notStopped = skipped[j]]
  /\ Goto(j, "launch")
  /\ UNCHANGED <<nextJob, table, list, rest, skipped, exit, errors, helper, box, touched, restarts, outside>>

(***************************************************************************)
(* The helper: started, followed until it exits, removed                   *)
(***************************************************************************)

Launch(j) ==
  /\ pc[j] = "launch"
  /\ helper' = [helper EXCEPT ![j] = "copying"]
  /\ Goto(j, "wait")
  /\ UNCHANGED <<nextJob, table, job, list, rest, skipped, exit, errors, box, touched, restarts, outside>>

(* backup_helper.main returns: 0, or an exit code or a JSON error.         *)
HelperExits(j, outcome) ==
  /\ helper[j] = "copying"
  /\ helper' = [helper EXCEPT ![j] = outcome]
  /\ UNCHANGED <<nextJob, table, job, threadVars, box, touched, restarts, outside>>

(* Wrong variant: the containers are left alone after an exception.        *)
ToSalvage_Nothing(j) == {}

(* What the except branch hands to _resume.                                *)
ToSalvage(j) == list[j]

(* The except branch: the helper could not be started, a call about it     *)
(* raised, or it was still running at the deadline.                        *)
LoseTrack(j) ==
  /\ pc[j] \in {"launch", "wait"}
  /\ rest' = [rest EXCEPT ![j] = ToSalvage(j)]
  /\ Goto(j, "salvage")
  /\ UNCHANGED <<nextJob, table, job, list, skipped, exit, errors, helper, box, touched, restarts, outside>>

SeeExit(j) ==
  /\ pc[j] = "wait"
  /\ helper[j] \in {"good", "bad"}
  /\ exit' = [exit EXCEPT ![j] = helper[j]]
  /\ Goto(j, "remove")
  /\ UNCHANGED <<nextJob, table, job, list, rest, skipped, errors, helper, box, touched, restarts, outside>>

(* container.remove(force=True), whose failure is only logged.             *)
RemoveHelper(j) ==
  /\ pc[j] \in {"remove", "discard"}
  /\ helper' \in {helper, [helper EXCEPT ![j] = "removed"]}
  /\ IF pc[j] = "remove"
       THEN /\ rest' = [rest EXCEPT ![j] = list[j]]
            /\ Goto(j, "resume")
       ELSE /\ Goto(j, "done")
            /\ UNCHANGED rest
  /\ UNCHANGED <<nextJob, table, job, list, skipped, exit, errors, box, touched, restarts, outside>>

(***************************************************************************)
(* _resume, and the verdict on the job                                     *)
(***************************************************************************)

(* One container.start(), oldest first; an error is collected and the loop *)
(* goes on.                                                                *)
ResumeOne(j, c) ==
  /\ pc[j] \in {"resume", "salvage"}
  /\ IsOldest(c, rest[j])
  /\ \/ /\ box[c] # "gone"
        /\ box' = [box EXCEPT ![c] = "up"]
        /\ UNCHANGED errors
     \/ /\ errors' = [errors EXCEPT ![j] = @ \cup {c}]
        /\ UNCHANGED box
  /\ rest' = [rest EXCEPT ![j] = @ \ {c}]
  /\ UNCHANGED <<nextJob, table, job, pc, list, skipped, exit, helper, touched, restarts, outside>>

(* After an exception the errors of _resume are dropped, and the job is    *)
(* over before its helper is removed.                                      *)
Salvaged(j) ==
  /\ pc[j] = "salvage"
  /\ rest[j] = {}
  /\ Finish(j, "failed", "helper",
            IF helper[j] = "none" THEN "done" ELSE "discard")
  /\ UNCHANGED <<nextJob, table, helper, box, restarts, outside>>

(* Wrong variants: a failed restart goes unreported, a failed copy leaves   *)
(* the job running, a state that only a rebuild has.                       *)
Outcome_ErrorsIgnored(j) ==
  IF exit[j] = "bad" THEN <<"failed", "copy">> ELSE <<"succeeded", "none">>
Outcome_StillRunning(j) ==
  IF exit[j] = "bad" THEN <<"running", "copy">> ELSE <<"succeeded", "none">>
Outcome_HandedOff(j) == <<"handed_off", "none">>

Outcome(j) ==
  IF exit[j] = "bad" THEN <<"failed", "copy">>
  ELSE IF errors[j] # {} THEN <<"failed", "restart">>
  ELSE <<"succeeded", "none">>

Verdict(j) ==
  /\ pc[j] = "resume"
  /\ rest[j] = {}
  /\ Finish(j, Outcome(j)[1], Outcome(j)[2], "done")
  /\ UNCHANGED <<nextJob, table, helper, box, restarts, outside>>

(***************************************************************************)
(* Everybody else                                                          *)
(***************************************************************************)

(* A control route (or the container itself, when it exits) changes c.     *)
Outside(c, to) ==
  /\ outside < MaxOutside
  /\ outside' = outside + 1
  /\ box' = [box EXCEPT ![c] = to]
  /\ touched' = [j \in JobIds |->
                   IF pc[j] \in Working THEN touched[j] \cup {c} ELSE touched[j]]
  /\ UNCHANGED <<nextJob, table, job, threadVars, helper, restarts>>

(* _control: start, stop and restart, refused for a protected container.   *)
Control(c, to) ==
  /\ c \notin Protected
  /\ box[c] # "gone"
  /\ Outside(c, to)

(* delete_container                                                        *)
Delete(c) ==
  /\ c \notin Protected
  /\ box[c] # "gone"
  /\ Outside(c, "gone")

(* The agent's process ends and a new one starts: daemon threads and _jobs *)
(* are gone, containers and helpers are not.                               *)
AgentRestart ==
  /\ restarts < MaxRestarts
  /\ restarts' = restarts + 1
  /\ table' = {}
  /\ job' = [j \in JobIds |-> NoJob]
  /\ pc' = [j \in JobIds |-> IF pc[j] \in Working \cup {"discard"}
                               THEN "dead" ELSE pc[j]]
  /\ list' = [j \in JobIds |-> {}]
  /\ rest' = [j \in JobIds |-> {}]
  /\ skipped' = [j \in JobIds |-> {}]
  /\ exit' = [j \in JobIds |-> "none"]
  /\ errors' = [j \in JobIds |-> {}]
  /\ touched' = [j \in JobIds |-> {}]
  /\ UNCHANGED <<nextJob, helper, box, outside>>

Thread(j) ==
  \/ List(j)
  \/ \E c \in Containers : StopOne(j, c)
  \/ QuiesceFails(j)
  \/ Quiesced(j)
  \/ Launch(j)
  \/ LoseTrack(j)
  \/ SeeExit(j)
  \/ RemoveHelper(j)
  \/ \E c \in Containers : ResumeOne(j, c)
  \/ Salvaged(j)
  \/ Verdict(j)

Next ==
  \/ \E s \in Sources, stop \in BOOLEAN : Start(s, stop)
  \/ \E j \in JobIds : Thread(j)
  \/ \E j \in JobIds, outcome \in {"good", "bad"} : HelperExits(j, outcome)
  \/ \E c \in Containers, to \in {"up", "down"} : Control(c, to)
  \/ \E c \in Containers : Delete(c)
  \/ AgentRestart

(* Every Docker call returns or raises (docker-py gives up after a minute) *)
(* and the follow loop has a deadline, so a job's thread keeps moving.     *)
(* Nothing is assumed of the helper, of the callers or of the agent.       *)
Fairness == \A j \in JobIds : WF_vars(Thread(j))

Spec == Init /\ [][Next]_vars
FairSpec == Spec /\ Fairness

-----------------------------------------------------------------------------
(***************************************************************************)
(* Properties                                                              *)
(***************************************************************************)

(* Every variable has the type the code gives it.                          *)
TypeOK ==
  /\ nextJob \in 0..MaxStarts
  /\ table \subseteq JobIds
  /\ job \in [JobIds -> Job]
  /\ pc \in [JobIds -> Locations]
  /\ list \in [JobIds -> SUBSET Containers]
  /\ rest \in [JobIds -> SUBSET Containers]
  /\ skipped \in [JobIds -> SUBSET Containers]
  /\ exit \in [JobIds -> {"none", "good", "bad"}]
  /\ errors \in [JobIds -> SUBSET Containers]
  /\ helper \in [JobIds -> HelperStates]
  /\ box \in [Containers -> {"up", "down", "gone"}]
  /\ touched \in [JobIds -> SUBSET Containers]
  /\ restarts \in 0..MaxRestarts
  /\ outside \in 0..MaxOutside

(* Two jobs are never both between listing the containers they stop and    *)
(* having started them again, so no job can stop or start a container in   *)
(* the middle of another one's copy.  start() only looks at job["state"]:  *)
(* it holds because every path resumes the containers before _finish.      *)
OneOutage ==
  \A j, k \in JobIds : pc[j] \in Working /\ pc[k] \in Working => j = k

(* While the helper of a job that stops containers is copying, a container *)
(* that mounts the source and is up was either changed from outside since  *)
(* the job listed it, or is named in job["not_stopped"] ("a backup taken   *)
(* while something was still writing needs to say so", _quiesce).          *)
QuietOrNamed ==
  \A j \in JobIds : pc[j] = "wait" /\ job[j].stop =>
    \A c \in Uses[job[j].source] \ touched[j] :
      box[c] = "up" => c \in job[j].notStopped

(* When a job is reported succeeded, every container it stopped, and that  *)
(* nobody else changed meanwhile, is up again.                             *)
BackOnSuccess ==
  [][\A j \in JobIds :
       job[j].state = "running" /\ job'[j].state = "succeeded" =>
         \A c \in job[j].stopped \ touched[j] : box'[c] = "up"]_vars

(* A container that _quiesce stopped is started again however the copy     *)
(* ends, unless Docker refuses to start it or the agent is restarted.      *)
OutageEnds ==
  \A j \in JobIds, c \in Containers :
    pc[j] = "launch" /\ c \in list[j]
      ~> box[c] = "up" \/ c \in errors[j] \/ pc[j] = "dead"

(* A running job ends, or is forgotten by a restart: the next start() is   *)
(* not refused for ever.                                                   *)
JobsEnd ==
  \A j \in JobIds :
    j \in table /\ job[j].state = "running"
      ~> j \notin table \/ job[j].state # "running"

(* The table is bounded and holds the newest jobs without a gap: a caller  *)
(* polling the job it just started finds it until MaxJobs later ones exist.*)
NewestKept ==
  /\ Cardinality(table) <= MaxJobs
  /\ \A i \in table : i..nextJob \subseteq table

-----------------------------------------------------------------------------
(***************************************************************************)
(* What the properties rest on: the conjuncts of the inductive invariant   *)
(* of VolumeBackup_proofs                                                  *)
(***************************************************************************)

(* A thread that has not finished its job works on a running job of the    *)
(* table: _finish comes last, and _record never drops a running job.       *)
WorkingIsRunning ==
  \A j \in JobIds : pc[j] \in Working => j \in table /\ job[j].state = "running"

(* At most one job of the table is running: start() decides under the lock.*)
OneRunning ==
  \A j, k \in table : job[j].state = "running" /\ job[k].state = "running" => j = k

(* A thread that is not at work on its job has no list of stopped ones.    *)
NoLeftovers ==
  \A j \in JobIds : pc[j] \notin Working => list[j] = {}

(* From the listing to the end of the copy, an untouched container that    *)
(* mounts the source is down, or skipped, or still in the stop loop.       *)
Quieting ==
  \A j \in JobIds : pc[j] \in {"stopping", "launch", "wait"} /\ job[j].stop =>
    \A c \in Uses[job[j].source] \ touched[j] :
      box[c] = "up" => \/ c \in skipped[j]
                       \/ pc[j] = "stopping" /\ c \in rest[j]

(* Once the stop loop is over the job names what was stopped and skipped.  *)
Named ==
  \A j \in JobIds : pc[j] \in {"launch", "wait", "remove", "resume", "salvage"} =>
    /\ job[j].stopped = list[j]
    /\ job[j].stop => job[j].notStopped = skipped[j]

(* In the resume loop an untouched container is up again, was refused by   *)
(* Docker, or is still to come.                                            *)
Resuming ==
  \A j \in JobIds : pc[j] = "resume" =>
    \A c \in list[j] \ touched[j] :
      box[c] = "up" \/ c \in errors[j] \/ c \in rest[j]

Inductive ==
  /\ TypeOK
  /\ WorkingIsRunning
  /\ OneRunning
  /\ NoLeftovers
  /\ Quieting
  /\ Named
  /\ Resuming
=============================================================================
