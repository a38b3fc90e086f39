--------------------------- MODULE Rebuild_proofs ---------------------------
(***************************************************************************)
(* The safety theorems of Rebuild, for any projects, commits and jobs.     *)
(* Rebuilds do overlap; what holds is that none begins while another is    *)
(* waited for, and that a job is only done when its checkout has what was  *)
(* asked for.                                                              *)
(***************************************************************************)
EXTENDS Rebuild, TLAPS

LEMMA NoJobType == NoJob \in Job
  BY DEF NoJob, Job

LEMMA OutcomeStates ==
  ASSUME NEW j \in JobIds
  PROVE  /\ Outcome(j) \in {"done", "failed"}
         /\ Outcome(j) = "done" => exit[j] = "good"
  BY DEF Outcome

LEMMA FinishType ==
  ASSUME TypeOK, NEW j \in JobIds, NEW state \in {"done", "failed", "handed_off"},
         NEW to \in Locations, Finish(j, state, to)
  PROVE  job' \in [JobIds -> Job] /\ pc' \in [JobIds -> Locations]
  BY DEF Finish, Goto, TypeOK, Job

(* _finish leaves every other job alone.                                   *)
LEMMA FinishJob ==
  ASSUME TypeOK, NEW j \in JobIds, NEW state, NEW to, Finish(j, state, to)
  PROVE  /\ job'[j].state = state
         /\ pc'[j] = to
         /\ \A k \in JobIds \ {j} : job'[k] = job[k] /\ pc'[k] = pc[k]
  BY DEF Finish, Goto, TypeOK, Job

LEMMA InitInductive == Init => Inductive
<1> SUFFICES ASSUME Init PROVE Inductive
  OBVIOUS
<1>1. (CHOOSE p \in Projects : TRUE) \in Projects
  BY ProjectsAssumption
<1>2. TypeOK
  BY <1>1, NoJobType, BoundsAssumption
  DEF Init, TypeOK, JobIds, Locations, HelperStates, AtWork, Commits
<1>3. WorkingIsRunning /\ OneRunning /\ FutureIsBlank /\ NothingLater /\ HelperBegan
  BY DEF Init, WorkingIsRunning, OneRunning, FutureIsBlank, NothingLater, HelperBegan, Working
<1>4. RemotesLead /\ PastPull
  BY <1>1, BoundsAssumption DEF Init, RemotesLead, PastPull, NoJob, Commits
<1> QED
  BY <1>2, <1>3, <1>4 DEF Inductive

(* A rebuild is only accepted when no thread is at work on another.        *)
LEMMA StartStep ==
  ASSUME Inductive, NEW p \in Projects, NEW pull \in BOOLEAN, Start(p, pull)
  PROVE  Inductive'
<1> USE DEF Inductive
<1> DEFINE j == nextJob + 1
           jobs == [job EXCEPT ![j] = [state |-> "running", pull |-> pull]]
           kept == Kept(table \cup {j}, jobs)
<1>1. j \in JobIds /\ nextJob \in Nat /\ j > nextJob
  BY BoundsAssumption DEF Start, TypeOK, JobIds
<1>2. kept \subseteq table \cup {j}
  BY DEF Kept
<1>3. /\ nextJob' = j /\ table' = kept
      /\ job' = [i \in JobIds |-> IF i \in kept THEN jobs[i] ELSE NoJob]
  BY DEF Start
<1>4. \A i \in JobIds : pc[i] \notin Working
  BY DEF Start, Running, WorkingIsRunning
<1>5. \A i \in JobIds : pc'[i] \in Working => i = j
  BY <1>1, <1>4 DEF Start, TypeOK
<1>6. \A i \in kept : job'[i].state = "running" => i = j
  BY <1>1, <1>2, <1>3 DEF Start, Running, TypeOK
<1>7. j \in kept /\ job'[j].state = "running"
  <2>1. jobs[j].state = "running"
    BY <1>1 DEF TypeOK
  <2>2. j \in kept
    BY <2>1 DEF Kept
  <2> QED
    BY <1>1, <1>3, <2>1, <2>2
<1>8. TypeOK'
  <2>1. job' \in [JobIds -> Job]
    BY <1>1, <1>3, NoJobType DEF TypeOK, Job
  <2>2. table' \subseteq JobIds
    BY <1>1, <1>2, <1>3 DEF TypeOK
  <2>3. upstream[p] \in Commits
    BY DEF TypeOK
  <2>4. nextJob' \in 0..MaxStarts
    BY <1>1, <1>3, BoundsAssumption DEF Start, TypeOK
  <2> QED
    BY <1>1, <2>1, <2>2, <2>3, <2>4 DEF Start, TypeOK, Locations, gitVars
<1>9. WorkingIsRunning'
  BY <1>3, <1>5, <1>7 DEF WorkingIsRunning
<1>10. OneRunning'
  BY <1>3, <1>6 DEF OneRunning
<1>11. FutureIsBlank'
  <2>1. \A i \in JobIds : i > j => i > nextJob /\ i # j
    BY <1>1 DEF JobIds
  <2> QED
    BY <1>1, <1>3, <2>1 DEF Start, FutureIsBlank, TypeOK
<1>12. NothingLater'
  <2>1. \A i \in JobIds : j < i => i > nextJob
    BY <1>1 DEF JobIds
  <2> QED
    BY <1>5, <2>1 DEF Start, FutureIsBlank, NothingLater, Working
<1>13. RemotesLead'
  BY <1>1, BoundsAssumption DEF Start, RemotesLead, TypeOK, gitVars, Commits
<1>14. PastPull'
  <2>1. helper[j] = "none" /\ exit[j] = "none"
    BY <1>1 DEF FutureIsBlank
  <2>2. \A i \in JobIds : job'[i].state = "running" => i = j
    BY <1>3, <1>6 DEF NoJob
  <2> QED
    BY <2>1, <2>2 DEF Start, PastPull, gitVars
<1>15. HelperBegan'
  BY <1>1 DEF Start, HelperBegan, TypeOK
<1> QED
  BY <1>8, <1>9, <1>10, <1>11, <1>12, <1>13, <1>14, <1>15

(* A thread moves on without touching its job.                             *)
LEMMA ThreadMovesStep ==
  ASSUME Inductive, NEW j \in JobIds, Launch(j) \/ SeeExit(j) \/ RemoveHelper(j)
  PROVE  Inductive'
<1> USE DEF Inductive
<1>1. TypeOK'
  BY DEF Launch, SeeExit, RemoveHelper, Started, Goto, TypeOK, Locations, HelperStates,
         AtWork, gitVars
<1>2. WorkingIsRunning'
  BY DEF Launch, SeeExit, RemoveHelper, Goto, WorkingIsRunning, TypeOK, Working
<1>3. OneRunning'
  BY DEF Launch, SeeExit, RemoveHelper, OneRunning
<1>4. \A k \in JobIds : k > nextJob => k # j
  BY DEF Launch, SeeExit, RemoveHelper, FutureIsBlank
<1>5. FutureIsBlank'
  BY <1>4 DEF Launch, SeeExit, RemoveHelper, Started, Goto, FutureIsBlank, TypeOK
<1>6. NothingLater'
  <2>1. CASE Launch(j)
    <3>1. \A i \in JobIds : pc[i] \in {"launch", "wait"} => i = j
      BY <2>1 DEF Launch, WorkingIsRunning, OneRunning, Working
    <3> QED
      BY <2>1, <3>1 DEF Launch, Started, Goto, NothingLater, TypeOK, JobIds
  <2>2. CASE SeeExit(j) \/ RemoveHelper(j)
    <3>1. helper[j] # "none"
      BY <2>2 DEF SeeExit, RemoveHelper, HelperBegan
    <3>2. \A i \in JobIds : helper[i] = "none" => helper'[i] = "none"
      BY <2>2, <3>1 DEF SeeExit, RemoveHelper, TypeOK
    <3>3. pc'[j] \in {"remove", "finish", "done"} /\ \A i \in JobIds \ {j} : pc'[i] = pc[i]
      BY <2>2 DEF SeeExit, RemoveHelper, Goto, TypeOK
    <3> QED
      BY <3>2, <3>3 DEF NothingLater
  <2> QED
    BY <2>1, <2>2
<1>7. RemotesLead'
  BY DEF Launch, SeeExit, RemoveHelper, RemotesLead, gitVars
<1>8. PastPull'
  BY DEF Launch, SeeExit, RemoveHelper, Started, PastPull, TypeOK, gitVars
<1>9. HelperBegan'
  BY DEF Launch, SeeExit, RemoveHelper, Started, Goto, HelperBegan, TypeOK
<1> QED
  BY <1>1, <1>2, <1>3, <1>5, <1>6, <1>7, <1>8, <1>9

(* A job ends.                                                             *)
LEMMA ThreadEndsStep ==
  ASSUME Inductive, NEW j \in JobIds,
         LaunchFails(j) \/ HandOff(j) \/ LoseTrack(j) \/ Conclude(j)
  PROVE  Inductive'
<1> USE DEF Inductive
<1>1. PICK state \in {"done", "failed", "handed_off"}, to \in {"done", "discard"} :
        Finish(j, state, to)
  BY OutcomeStates DEF LaunchFails, HandOff, LoseTrack, Conclude
<1>2. /\ job'[j].state = state /\ pc'[j] = to
      /\ \A k \in JobIds \ {j} : job'[k] = job[k] /\ pc'[k] = pc[k]
  BY <1>1, FinishJob
<1>3. pc[j] \in Working /\ UNCHANGED <<gitVars, nextJob, table, exit, target, wanted, restarts>>
  BY DEF LaunchFails, HandOff, LoseTrack, Conclude, Working
<1>4. /\ helper' \in [JobIds -> HelperStates]
      /\ \A k \in JobIds \ {j} : helper'[k] = helper[k]
  BY DEF LaunchFails, HandOff, LoseTrack, Conclude, Started, TypeOK, HelperStates, AtWork
<1>5. TypeOK'
  <2>1. job' \in [JobIds -> Job] /\ pc' \in [JobIds -> Locations]
    BY <1>1, FinishType DEF Locations
  <2> QED
    BY <1>3, <1>4, <2>1 DEF TypeOK, gitVars
<1>6. WorkingIsRunning'
  BY <1>1, <1>2, <1>3 DEF WorkingIsRunning, Working
<1>7. OneRunning'
  BY <1>1, <1>2, <1>3 DEF OneRunning, TypeOK
<1>8. j <= nextJob
  BY <1>3 DEF FutureIsBlank, Working, TypeOK, JobIds
<1>9. FutureIsBlank'
  <2>1. \A k \in JobIds : k > nextJob => k # j
    BY <1>8 DEF TypeOK, JobIds
  <2> QED
    BY <1>2, <1>3, <1>4, <2>1 DEF FutureIsBlank
<1>10. NothingLater'
  <2>1. \A k \in JobIds : pc'[k] \notin {"launch", "wait"}
    BY <1>1, <1>2, <1>3 DEF WorkingIsRunning, OneRunning, Working
  <2> QED
    BY <2>1 DEF NothingLater
<1>11. RemotesLead'
  BY <1>3 DEF RemotesLead, gitVars
<1>12. PastPull'
  BY <1>1, <1>2, <1>3, <1>4 DEF PastPull, gitVars
<1>13. HelperBegan'
  <2>1. to = "discard" => helper'[j] # "none"
    BY <1>1, <1>2 DEF LaunchFails, HandOff, LoseTrack, Conclude, Finish, Goto, HelperBegan, TypeOK
  <2> QED
    BY <1>2, <1>4, <2>1 DEF HelperBegan
<1> QED
  BY <1>5, <1>6, <1>7, <1>9, <1>10, <1>11, <1>12, <1>13

(* A checkout or a remote moves on.                                        *)
LEMMA GitStep ==
  ASSUME Inductive,
         head' \in [Projects -> Commits], upstream' \in [Projects -> Commits],
         \A p \in Projects : /\ head[p] <= head'[p] /\ head'[p] <= upstream'[p]
                             /\ upstream[p] <= upstream'[p]
  PROVE  /\ \A p \in Projects : head'[p] <= upstream'[p]
         /\ \A j \in JobIds : wanted[j] <= upstream'[target[j]]
         /\ \A j \in JobIds : wanted[j] <= head[target[j]] => wanted[j] <= head'[target[j]]
<1>1. \A p \in Projects : /\ head[p] \in Int /\ head'[p] \in Int
                           /\ upstream[p] \in Int /\ upstream'[p] \in Int
  BY BoundsAssumption DEF Inductive, TypeOK, Commits
<1>2. \A j \in JobIds : wanted[j] \in Int /\ target[j] \in Projects
  BY BoundsAssumption DEF Inductive, TypeOK, Commits
<1>3. \A j \in JobIds : wanted[j] <= upstream[target[j]]
  BY DEF Inductive, RemotesLead
<1> QED
  BY <1>1, <1>2, <1>3

(* What Pull and Push do meets the conditions of GitStep.                  *)
LEMMA PullStep ==
  ASSUME Inductive, NEW p \in Projects, Pull(p), UNCHANGED upstream
  PROVE  /\ head' \in [Projects -> Commits] /\ upstream' \in [Projects -> Commits]
         /\ head'[p] = upstream[p]
         /\ \A q \in Projects : /\ head[q] <= head'[q] /\ head'[q] <= upstream'[q]
                                 /\ upstream[q] <= upstream'[q]
<1>1. \A q \in Projects : head[q] \in Int /\ upstream[q] \in Int /\ head[q] <= upstream[q]
  BY BoundsAssumption DEF Inductive, TypeOK, RemotesLead, Commits
<1>2. head' \in [Projects -> Commits]
  BY DEF Pull, Inductive, TypeOK
<1>3. \A q \in Projects : head'[q] = IF q = p THEN upstream[p] ELSE head[q]
  BY DEF Pull, Inductive, TypeOK
<1> QED
  BY <1>1, <1>2, <1>3 DEF Inductive, TypeOK

LEMMA PushStep ==
  ASSUME Inductive, NEW p \in Projects, Push(p)
  PROVE  Inductive'
<1> USE DEF Inductive
<1>1. \A q \in Projects : head[q] \in Int /\ upstream[q] \in Int /\ head[q] <= upstream[q]
  BY BoundsAssumption DEF TypeOK, RemotesLead, Commits
<1>2. upstream' \in [Projects -> Commits] /\ head' = head
  BY BoundsAssumption DEF Push, TypeOK, Commits
<1>3. \A q \in Projects : upstream'[q] = IF q = p THEN upstream[q] + 1 ELSE upstream[q]
  BY DEF Push, TypeOK
<1>4. /\ \A q \in Projects : head'[q] <= upstream'[q]
      /\ \A j \in JobIds : wanted[j] <= upstream'[target[j]]
  BY <1>1, <1>2, <1>3, GitStep DEF TypeOK
<1>5. TypeOK'
  BY <1>2 DEF Push, TypeOK, jobVars
<1> QED
  BY <1>4, <1>5 DEF Push, jobVars, WorkingIsRunning, OneRunning, FutureIsBlank, NothingLater,
                     HelperBegan, RemotesLead, PastPull

LEMMA ByHandStep ==
  ASSUME Inductive, NEW p \in Projects, ByHand(p)
  PROVE  Inductive'
<1> USE DEF Inductive
<1>1. TypeOK'
  BY PullStep DEF ByHand, TypeOK, jobVars
<1>2. /\ \A q \in Projects : head'[q] <= upstream'[q]
      /\ \A j \in JobIds : wanted[j] <= upstream'[target[j]]
      /\ \A j \in JobIds : wanted[j] <= head[target[j]] => wanted[j] <= head'[target[j]]
  BY PullStep, GitStep DEF ByHand
<1> QED
  BY <1>1, <1>2 DEF ByHand, jobVars, WorkingIsRunning, OneRunning, FutureIsBlank, NothingLater,
                     HelperBegan, RemotesLead, PastPull

(* The pull of a helper brings its checkout to where the remote is.        *)
LEMMA HelperPullsStep ==
  ASSUME Inductive, NEW j \in JobIds, HelperPulls(j)
  PROVE  Inductive'
<1> USE DEF Inductive
<1>1. target[j] \in Projects
  BY DEF TypeOK
<1>2. /\ head' \in [Projects -> Commits]
      /\ head'[target[j]] = upstream[target[j]]
      /\ \A q \in Projects : head'[q] <= upstream'[q]
      /\ \A k \in JobIds : wanted[k] <= upstream'[target[k]]
      /\ \A k \in JobIds : wanted[k] <= head[target[k]] => wanted[k] <= head'[target[k]]
  BY <1>1, PullStep, GitStep DEF HelperPulls
<1>3. \A k \in JobIds : helper'[k] = IF k = j THEN "building" ELSE helper[k]
  BY DEF HelperPulls, TypeOK
<1>4. TypeOK'
  BY <1>2 DEF HelperPulls, TypeOK, HelperStates, AtWork
<1>5. FutureIsBlank' /\ NothingLater' /\ HelperBegan'
  BY <1>3 DEF HelperPulls, FutureIsBlank, NothingLater, HelperBegan
<1>6. PastPull'
  BY <1>1, <1>2, <1>3 DEF HelperPulls, PastPull, RemotesLead
<1> QED
  BY <1>2, <1>4, <1>5, <1>6 DEF HelperPulls, WorkingIsRunning, OneRunning, RemotesLead

(* After a restart nothing is at work and no job is running.               *)
LEMMA MemoryLostStep ==
  ASSUME Inductive, MemoryLost, helper' \in [JobIds -> HelperStates],
         restarts' \in 0..MaxRestarts,
         \A j \in JobIds : helper[j] = "none" => helper'[j] = "none"
  PROVE  Inductive'
<1> USE DEF Inductive
<1>1. TypeOK'
  BY NoJobType DEF MemoryLost, TypeOK, Locations, gitVars
<1>2. \A j \in JobIds : /\ pc'[j] = (IF pc[j] \in {"idle", "done"} THEN pc[j] ELSE "dead")
                         /\ job'[j].state = "none" /\ exit'[j] = "none"
  BY DEF MemoryLost, NoJob
<1>3. WorkingIsRunning' /\ OneRunning' /\ NothingLater' /\ HelperBegan' /\ PastPull'
  BY <1>2 DEF MemoryLost, WorkingIsRunning, OneRunning, NothingLater, HelperBegan, PastPull, Working
<1>4. FutureIsBlank'
  BY <1>2 DEF MemoryLost, FutureIsBlank
<1>5. RemotesLead'
  BY DEF MemoryLost, RemotesLead, gitVars
<1> QED
  BY <1>1, <1>3, <1>4, <1>5

LEMMA HelperExitsStep ==
  ASSUME Inductive, NEW j \in JobIds, NEW outcome \in {"good", "bad"},
         HelperExits(j, outcome)
  PROVE  Inductive'
<1> USE DEF Inductive
<1>1. helper[j] \in AtWork /\ (outcome = "good" => helper[j] = "building")
  BY DEF HelperExits, AtWork
<1>2. helper' \in [JobIds -> HelperStates]
  BY DEF HelperExits, TypeOK, HelperStates
<1>3. \A k \in JobIds : helper'[k] = IF k # j THEN helper[k]
                                      ELSE IF target[j] \in Own THEN "removed" ELSE outcome
  BY DEF HelperExits, TypeOK
<1>4. \A k \in JobIds : helper[k] = "none" => helper'[k] = "none"
  BY <1>1, <1>3 DEF AtWork
<1>5. CASE target[j] \in Own /\ outcome = "good"
  BY <1>2, <1>4, <1>5, MemoryLostStep DEF HelperExits, TypeOK
<1>6. CASE ~ (target[j] \in Own /\ outcome = "good")
  <2>1. UNCHANGED <<gitVars, nextJob, table, job, exit, pc, target, wanted, restarts>>
    BY <1>6 DEF HelperExits
  <2>2. TypeOK'
    BY <1>2, <2>1 DEF TypeOK, gitVars
  <2>3. PastPull'
    BY <1>1, <1>3, <2>1 DEF PastPull, gitVars
  <2>4. FutureIsBlank' /\ NothingLater' /\ HelperBegan'
    BY <1>3, <1>4, <2>1 DEF FutureIsBlank, NothingLater, HelperBegan
  <2> QED
    BY <2>1, <2>2, <2>3, <2>4 DEF WorkingIsRunning, OneRunning, RemotesLead, gitVars
<1> QED
  BY <1>5, <1>6

LEMMA AgentRestartStep ==
  ASSUME Inductive, AgentRestart
  PROVE  Inductive'
  BY MemoryLostStep, BoundsAssumption DEF AgentRestart, Inductive, TypeOK

LEMMA NextInductive == Inductive /\ [Next]_vars => Inductive'
<1> SUFFICES ASSUME Inductive, [Next]_vars PROVE Inductive'
  OBVIOUS
<1>1. CASE \E p \in Projects, pull \in BOOLEAN : Start(p, pull)
  BY <1>1, StartStep
<1>2. CASE \E j \in JobIds : Thread(j) \/ HelperPulls(j)
  BY <1>2, ThreadMovesStep, ThreadEndsStep, HelperPullsStep DEF Thread
<1>3. CASE \E j \in JobIds, outcome \in {"good", "bad"} : HelperExits(j, outcome)
  BY <1>3, HelperExitsStep
<1>4. CASE AgentRestart
  BY <1>4, AgentRestartStep
<1>5. CASE \E p \in Projects : Push(p) \/ ByHand(p)
  BY <1>5, PushStep, ByHandStep
<1>6. CASE UNCHANGED vars
  BY <1>6 DEF vars, gitVars, jobVars, Inductive, TypeOK, WorkingIsRunning, OneRunning,
              FutureIsBlank, NothingLater, HelperBegan, RemotesLead, PastPull
<1> QED
  BY <1>1, <1>2, <1>3, <1>4, <1>5, <1>6 DEF Next

(* The invariant that the theorems below are read off from.                *)
THEOREM InductiveInvariant == Spec => []Inductive
  BY InitInductive, NextInductive, PTL DEF Spec

(* The variables of the rebuilds keep their types.                         *)
THEOREM TypeCorrect == Spec => []TypeOK
<1>1. Inductive => TypeOK
  BY DEF Inductive
<1> QED
  BY <1>1, InductiveInvariant, PTL

(* While the agent waits for a rebuild it has begun no later one, whatever *)
(* was handed off, lost or restarted before.                               *)
THEOREM WaitsAlone == Spec => []WaitedAlone
<1>1. Inductive => WaitedAlone
  BY DEF Inductive, NothingLater, WaitedAlone
<1> QED
  BY <1>1, InductiveInvariant, PTL

(* Only the end of a thread that saw exit code 0 makes a running job done. *)
LEMMA OnlyConcludeIsDone ==
  ASSUME Inductive, [Next]_vars, NEW j \in JobIds,
         job[j].state = "running", job'[j].state = "done"
  PROVE  Conclude(j) /\ exit[j] = "good"
<1> USE DEF Inductive
<1>1. ASSUME NEW p \in Projects, NEW pull \in BOOLEAN, Start(p, pull)
      PROVE  FALSE
  <2>1. nextJob + 1 \in JobIds
    BY <1>1, BoundsAssumption DEF Start, TypeOK, JobIds
  <2> QED
    BY <1>1, <2>1 DEF Start, TypeOK, NoJob
<1>2. ASSUME NEW k \in JobIds, LaunchFails(k) \/ HandOff(k) \/ LoseTrack(k)
      PROVE  FALSE
  <2>1. PICK state \in {"failed", "handed_off"}, to \in {"done", "discard"} : Finish(k, state, to)
    BY <1>2 DEF LaunchFails, HandOff, LoseTrack
  <2> QED
    BY <2>1, FinishJob
<1>3. ASSUME NEW k \in JobIds, Conclude(k)
      PROVE  k = j /\ exit[j] = "good"
  <2>1. job'[k].state = Outcome(k) /\ \A i \in JobIds \ {k} : job'[i] = job[i]
    BY <1>3, FinishJob DEF Conclude
  <2> QED
    BY <2>1, OutcomeStates
<1>4. ASSUME NEW k \in JobIds,
             Launch(k) \/ SeeExit(k) \/ RemoveHelper(k) \/ HelperPulls(k)
      PROVE  FALSE
  BY <1>4 DEF Launch, SeeExit, RemoveHelper, HelperPulls
<1>5. ~ MemoryLost
  BY DEF MemoryLost, NoJob
<1>6. ASSUME NEW k \in JobIds, NEW outcome, HelperExits(k, outcome)
      PROVE  FALSE
  BY <1>5, <1>6 DEF HelperExits
<1>7. ASSUME NEW p \in Projects, Push(p) \/ ByHand(p)
      PROVE  FALSE
  BY <1>7 DEF Push, ByHand, jobVars
<1>8. ~ UNCHANGED vars
  BY DEF vars, jobVars
<1> QED
  BY <1>1, <1>2, <1>3, <1>4, <1>5, <1>6, <1>7, <1>8 DEF Next, Thread, AgentRestart

(* A job is reported done only when its checkout has what the remote had   *)
(* when the rebuild was asked for.                                         *)
THEOREM DoneHasTheCommit == Spec => DoneIsPulled
<1>1. ASSUME Inductive, [Next]_vars, NEW j \in JobIds,
             job[j].state = "running", job'[j].state = "done", job[j].pull
      PROVE  head[target[j]] >= wanted[j]
  <2>1. exit[j] = "good"
    BY <1>1, OnlyConcludeIsDone
  <2>2. head[target[j]] \in Int /\ wanted[j] \in Int
    BY <1>1, BoundsAssumption DEF Inductive, TypeOK, Commits
  <2> QED
    BY <1>1, <2>1, <2>2 DEF Inductive, PastPull
<1>2. Inductive /\ [Next]_vars =>
        [\A j \in JobIds :
           job[j].state = "running" /\ job'[j].state = "done" /\ job[j].pull =>
             head[target[j]] >= wanted[j]]_vars
  BY <1>1
<1> QED
  BY <1>2, InductiveInvariant, PTL DEF Spec, DoneIsPulled
=============================================================================
