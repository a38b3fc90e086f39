------------------------ MODULE VolumeBackup_proofs ------------------------
(***************************************************************************)
(* The safety theorems of VolumeBackup, for any containers, sources, jobs  *)
(* and restarts.  One lemma per action shows that it keeps the inductive   *)
(* invariant; the theorems at the end are read off from that.              *)
(***************************************************************************)
EXTENDS VolumeBackup, FiniteSetTheorems, TLAPS

LEMMA NoJobType == NoJob \in Job
  BY SourcesAssumption DEF NoJob, Job, JobStates, JobErrors

LEMMA FinishType ==
  ASSUME TypeOK, NEW j \in JobIds, NEW state \in JobStates, NEW error \in JobErrors,
         NEW to \in Locations, Finish(j, state, error, to)
  PROVE  job' \in [JobIds -> Job] /\ pc' \in [JobIds -> Locations]
<1>1. [job[j] EXCEPT !.state = state, !.error = error,
                     !.result = exit[j] = "good"] \in Job
  <2>1. job[j] \in Job /\ (exit[j] = "good") \in BOOLEAN
    BY DEF TypeOK
  <2> QED
    BY <2>1 DEF Job
<1> QED
  BY <1>1 DEF Finish, Goto, TypeOK

(* The listing of _quiesce. *)
LEMMA ListStep ==
  ASSUME Inductive,
         NEW j \in JobIds,
         List(j)
  PROVE  Inductive'
<1> USE DEF Inductive
<1>1. TypeOK'
  BY UsesAssumption, ProtectedAssumption DEF TypeOK, Job, JobStates, JobErrors, Locations, HelperStates, Working, JobIds,
         List, Skipped, Goto
<1>2. WorkingIsRunning'
  BY DEF WorkingIsRunning, TypeOK, Working, Job,
         List, Skipped, Goto
<1>3. OneRunning'
  BY DEF OneRunning, WorkingIsRunning, TypeOK, Working, Job,
         List, Skipped, Goto
<1>4. NoLeftovers'
  BY DEF NoLeftovers, TypeOK, Working,
         List, Skipped, Goto
<1>5. Quieting'
  BY DEF Quieting, WorkingIsRunning, OneRunning, TypeOK, Working, Job,
         List, Skipped, Goto
<1>6. Named'
  BY DEF Named, WorkingIsRunning, OneRunning, TypeOK, Working, Job,
         List, Skipped, Goto
<1>7. Resuming'
  BY DEF Resuming, WorkingIsRunning, OneRunning, TypeOK, Working, Job,
         List, Skipped, Goto
<1> QED
  BY <1>1, <1>2, <1>3, <1>4, <1>5, <1>6, <1>7

(* One stop of _quiesce. *)
LEMMA StopOneStep ==
  ASSUME Inductive,
         NEW j \in JobIds,
         NEW c \in Containers,
         StopOne(j, c)
  PROVE  Inductive'
<1> USE DEF Inductive
<1>1. TypeOK'
  BY DEF TypeOK, Job, JobStates, JobErrors, Locations, HelperStates, Working, JobIds,
         StopOne, IsNewest
<1>2. WorkingIsRunning'
  BY DEF WorkingIsRunning, TypeOK, Working, Job,
         StopOne, IsNewest
<1>3. OneRunning'
  BY DEF OneRunning, WorkingIsRunning, TypeOK, Working, Job,
         StopOne, IsNewest
<1>4. NoLeftovers'
  BY DEF NoLeftovers, TypeOK, Working,
         StopOne, IsNewest
<1>5. Quieting'
  BY DEF Quieting, WorkingIsRunning, OneRunning, TypeOK, Working, Job,
         StopOne, IsNewest
<1>6. Named'
  BY DEF Named, WorkingIsRunning, OneRunning, TypeOK, Working, Job,
         StopOne, IsNewest
<1>7. Resuming'
  BY DEF Resuming, WorkingIsRunning, OneRunning, TypeOK, Working, Job,
         StopOne, IsNewest
<1> QED
  BY <1>1, <1>2, <1>3, <1>4, <1>5, <1>6, <1>7

(* A listing or a stop that raises. *)
LEMMA QuiesceFailsStep ==
  ASSUME Inductive,
         NEW j \in JobIds,
         QuiesceFails(j)
  PROVE  Inductive'
<1> USE DEF Inductive
<1>1. TypeOK'
  <2>1. job' \in [JobIds -> Job] /\ pc' \in [JobIds -> Locations]
    BY FinishType DEF QuiesceFails, TypeOK, JobStates, JobErrors, Locations, Working
  <2> QED
    BY <2>1 DEF TypeOK, QuiesceFails, Finish, Forget
<1>2. WorkingIsRunning'
  BY DEF WorkingIsRunning, TypeOK, Working, Job,
         QuiesceFails, Finish, Forget, Goto
<1>3. OneRunning'
  BY DEF OneRunning, WorkingIsRunning, TypeOK, Working, Job,
         QuiesceFails, Finish, Forget, Goto
<1>4. NoLeftovers'
  BY DEF NoLeftovers, TypeOK, Working,
         QuiesceFails, Finish, Forget, Goto
<1>5. Quieting'
  BY DEF Quieting, WorkingIsRunning, OneRunning, TypeOK, Working, Job,
         QuiesceFails, Finish, Forget, Goto
<1>6. Named'
  BY DEF Named, WorkingIsRunning, OneRunning, TypeOK, Working, Job,
         QuiesceFails, Finish, Forget, Goto
<1>7. Resuming'
  BY DEF Resuming, WorkingIsRunning, OneRunning, TypeOK, Working, Job,
         QuiesceFails, Finish, Forget, Goto
<1> QED
  BY <1>1, <1>2, <1>3, <1>4, <1>5, <1>6, <1>7

(* The end of _quiesce. *)
LEMMA QuiescedStep ==
  ASSUME Inductive,
         NEW j \in JobIds,
         Quiesced(j)
  PROVE  Inductive'
<1> USE DEF Inductive
<1>1. TypeOK'
  <2>1. job' \in [JobIds -> Job]
    <3>1. [job[j] EXCEPT !.stopped = list[j], !.notStopped = skipped[j]] \in Job
      <4>1. job[j] \in Job /\ list[j] \subseteq Containers /\ skipped[j] \subseteq Containers
        BY DEF TypeOK
      <4> QED
        BY <4>1 DEF Job
    <3> QED
      BY <3>1 DEF Quiesced, TypeOK
  <2> QED
    BY <2>1 DEF TypeOK, Quiesced, Goto, Locations, Working
<1>2. WorkingIsRunning'
  BY DEF WorkingIsRunning, TypeOK, Working, Job,
         Quiesced, Goto
<1>3. OneRunning'
  BY DEF OneRunning, WorkingIsRunning, TypeOK, Working, Job,
         Quiesced, Goto
<1>4. NoLeftovers'
  BY DEF NoLeftovers, TypeOK, Working,
         Quiesced, Goto
<1>5. Quieting'
  BY DEF Quieting, WorkingIsRunning, OneRunning, TypeOK, Working, Job,
         Quiesced, Goto
<1>6. Named'
  BY DEF Named, WorkingIsRunning, OneRunning, TypeOK, Working, Job,
         Quiesced, Goto
<1>7. Resuming'
  BY DEF Resuming, WorkingIsRunning, OneRunning, TypeOK, Working, Job,
         Quiesced, Goto
<1> QED
  BY <1>1, <1>2, <1>3, <1>4, <1>5, <1>6, <1>7

(* The helper is started. *)
LEMMA LaunchStep ==
  ASSUME Inductive,
         NEW j \in JobIds,
         Launch(j)
  PROVE  Inductive'
<1> USE DEF Inductive
<1>1. TypeOK'
  BY DEF TypeOK, Job, JobStates, JobErrors, Locations, HelperStates, Working, JobIds,
         Launch, Goto
<1>2. WorkingIsRunning'
  BY DEF WorkingIsRunning, TypeOK, Working, Job,
         Launch, Goto
<1>3. OneRunning'
  BY DEF OneRunning, WorkingIsRunning, TypeOK, Working, Job,
         Launch, Goto
<1>4. NoLeftovers'
  BY DEF NoLeftovers, TypeOK, Working,
         Launch, Goto
<1>5. Quieting'
  BY DEF Quieting, WorkingIsRunning, OneRunning, TypeOK, Working, Job,
         Launch, Goto
<1>6. Named'
  BY DEF Named, WorkingIsRunning, OneRunning, TypeOK, Working, Job,
         Launch, Goto
<1>7. Resuming'
  BY DEF Resuming, WorkingIsRunning, OneRunning, TypeOK, Working, Job,
         Launch, Goto
<1> QED
  BY <1>1, <1>2, <1>3, <1>4, <1>5, <1>6, <1>7

(* The helper exits. *)
LEMMA HelperExitsStep ==
  ASSUME Inductive,
         NEW j \in JobIds,
         NEW outcome \in {"good", "bad"},
         HelperExits(j, outcome)
  PROVE  Inductive'
<1> USE DEF Inductive
<1>1. TypeOK'
  BY DEF TypeOK, Job, JobStates, JobErrors, Locations, HelperStates, Working, JobIds,
         HelperExits, threadVars
<1>2. WorkingIsRunning'
  BY DEF WorkingIsRunning, TypeOK, Working, Job,
         HelperExits, threadVars
<1>3. OneRunning'
  BY DEF OneRunning, WorkingIsRunning, TypeOK, Working, Job,
         HelperExits, threadVars
<1>4. NoLeftovers'
  BY DEF NoLeftovers, TypeOK, Working,
         HelperExits, threadVars
<1>5. Quieting'
  BY DEF Quieting, WorkingIsRunning, OneRunning, TypeOK, Working, Job,
         HelperExits, threadVars
<1>6. Named'
  BY DEF Named, WorkingIsRunning, OneRunning, TypeOK, Working, Job,
         HelperExits, threadVars
<1>7. Resuming'
  BY DEF Resuming, WorkingIsRunning, OneRunning, TypeOK, Working, Job,
         HelperExits, threadVars
<1> QED
  BY <1>1, <1>2, <1>3, <1>4, <1>5, <1>6, <1>7

(* The except branch is entered. *)
LEMMA LoseTrackStep ==
  ASSUME Inductive,
         NEW j \in JobIds,
         LoseTrack(j)
  PROVE  Inductive'
<1> USE DEF Inductive
<1>1. TypeOK'
  BY DEF TypeOK, Job, JobStates, JobErrors, Locations, HelperStates, Working, JobIds,
         LoseTrack, ToSalvage, Goto
<1>2. WorkingIsRunning'
  BY DEF WorkingIsRunning, TypeOK, Working, Job,
         LoseTrack, ToSalvage, Goto
<1>3. OneRunning'
  BY DEF OneRunning, WorkingIsRunning, TypeOK, Working, Job,
         LoseTrack, ToSalvage, Goto
<1>4. NoLeftovers'
  BY DEF NoLeftovers, TypeOK, Working,
         LoseTrack, ToSalvage, Goto
<1>5. Quieting'
  BY DEF Quieting, WorkingIsRunning, OneRunning, TypeOK, Working, Job,
         LoseTrack, ToSalvage, Goto
<1>6. Named'
  BY DEF Named, WorkingIsRunning, OneRunning, TypeOK, Working, Job,
         LoseTrack, ToSalvage, Goto
<1>7. Resuming'
  BY DEF Resuming, WorkingIsRunning, OneRunning, TypeOK, Working, Job,
         LoseTrack, ToSalvage, Goto
<1> QED
  BY <1>1, <1>2, <1>3, <1>4, <1>5, <1>6, <1>7

(* The exit of the helper is seen. *)
LEMMA SeeExitStep ==
  ASSUME Inductive,
         NEW j \in JobIds,
         SeeExit(j)
  PROVE  Inductive'
<1> USE DEF Inductive
<1>1. TypeOK'
  BY DEF TypeOK, Job, JobStates, JobErrors, Locations, HelperStates, Working, JobIds,
         SeeExit, Goto
<1>2. WorkingIsRunning'
  BY DEF WorkingIsRunning, TypeOK, Working, Job,
         SeeExit, Goto
<1>3. OneRunning'
  BY DEF OneRunning, WorkingIsRunning, TypeOK, Working, Job,
         SeeExit, Goto
<1>4. NoLeftovers'
  BY DEF NoLeftovers, TypeOK, Working,
         SeeExit, Goto
<1>5. Quieting'
  BY DEF Quieting, WorkingIsRunning, OneRunning, TypeOK, Working, Job,
         SeeExit, Goto
<1>6. Named'
  BY DEF Named, WorkingIsRunning, OneRunning, TypeOK, Working, Job,
         SeeExit, Goto
<1>7. Resuming'
  BY DEF Resuming, WorkingIsRunning, OneRunning, TypeOK, Working, Job,
         SeeExit, Goto
<1> QED
  BY <1>1, <1>2, <1>3, <1>4, <1>5, <1>6, <1>7

(* The finally branch. *)
LEMMA RemoveHelperStep ==
  ASSUME Inductive,
         NEW j \in JobIds,
         RemoveHelper(j)
  PROVE  Inductive'
<1> USE DEF Inductive
<1>1. TypeOK'
  BY DEF TypeOK, Job, JobStates, JobErrors, Locations, HelperStates, Working, JobIds,
         RemoveHelper, Goto
<1>2. WorkingIsRunning'
  BY DEF WorkingIsRunning, TypeOK, Working, Job,
         RemoveHelper, Goto
<1>3. OneRunning'
  BY DEF OneRunning, WorkingIsRunning, TypeOK, Working, Job,
         RemoveHelper, Goto
<1>4. NoLeftovers'
  BY DEF NoLeftovers, TypeOK, Working,
         RemoveHelper, Goto
<1>5. Quieting'
  BY DEF Quieting, WorkingIsRunning, OneRunning, TypeOK, Working, Job,
         RemoveHelper, Goto
<1>6. Named'
  BY DEF Named, WorkingIsRunning, OneRunning, TypeOK, Working, Job,
         RemoveHelper, Goto
<1>7. Resuming'
  BY DEF Resuming, WorkingIsRunning, OneRunning, TypeOK, Working, Job,
         RemoveHelper, Goto
<1> QED
  BY <1>1, <1>2, <1>3, <1>4, <1>5, <1>6, <1>7

(* One start of _resume. *)
LEMMA ResumeOneStep ==
  ASSUME Inductive,
         NEW j \in JobIds,
         NEW c \in Containers,
         ResumeOne(j, c)
  PROVE  Inductive'
<1> USE DEF Inductive
<1>1. TypeOK'
  BY DEF TypeOK, Job, JobStates, JobErrors, Locations, HelperStates, Working, JobIds,
         ResumeOne, IsOldest
<1>2. WorkingIsRunning'
  BY DEF WorkingIsRunning, TypeOK, Working, Job,
         ResumeOne, IsOldest
<1>3. OneRunning'
  BY DEF OneRunning, WorkingIsRunning, TypeOK, Working, Job,
         ResumeOne, IsOldest
<1>4. NoLeftovers'
  BY DEF NoLeftovers, TypeOK, Working,
         ResumeOne, IsOldest
<1>5. Quieting'
  BY DEF Quieting, WorkingIsRunning, OneRunning, TypeOK, Working, Job,
         ResumeOne, IsOldest
<1>6. Named'
  BY DEF Named, WorkingIsRunning, OneRunning, TypeOK, Working, Job,
         ResumeOne, IsOldest
<1>7. Resuming'
  BY DEF Resuming, WorkingIsRunning, OneRunning, TypeOK, Working, Job,
         ResumeOne, IsOldest
<1> QED
  BY <1>1, <1>2, <1>3, <1>4, <1>5, <1>6, <1>7

(* The end of the except branch. *)
LEMMA SalvagedStep ==
  ASSUME Inductive,
         NEW j \in JobIds,
         Salvaged(j)
  PROVE  Inductive'
<1> USE DEF Inductive
<1>1. TypeOK'
  <2>1. job' \in [JobIds -> Job] /\ pc' \in [JobIds -> Locations]
    BY FinishType DEF Salvaged, TypeOK, JobStates, JobErrors, Locations, Working
  <2> QED
    BY <2>1 DEF TypeOK, Salvaged, Finish, Forget
<1>2. WorkingIsRunning'
  BY DEF WorkingIsRunning, TypeOK, Working, Job,
         Salvaged, Finish, Forget, Goto
<1>3. OneRunning'
  BY DEF OneRunning, WorkingIsRunning, TypeOK, Working, Job,
         Salvaged, Finish, Forget, Goto
<1>4. NoLeftovers'
  BY DEF NoLeftovers, TypeOK, Working,
         Salvaged, Finish, Forget, Goto
<1>5. Quieting'
  BY DEF Quieting, WorkingIsRunning, OneRunning, TypeOK, Working, Job,
         Salvaged, Finish, Forget, Goto
<1>6. Named'
  BY DEF Named, WorkingIsRunning, OneRunning, TypeOK, Working, Job,
         Salvaged, Finish, Forget, Goto
<1>7. Resuming'
  BY DEF Resuming, WorkingIsRunning, OneRunning, TypeOK, Working, Job,
         Salvaged, Finish, Forget, Goto
<1> QED
  BY <1>1, <1>2, <1>3, <1>4, <1>5, <1>6, <1>7

(* The verdict ends the job, and is a success only when every container    *)
(* was started again.                                                      *)
LEMMA OutcomeStates ==
  ASSUME NEW j \in JobIds
  PROVE  /\ Outcome(j)[1] \in {"failed", "succeeded"}
         /\ Outcome(j)[2] \in JobErrors
         /\ Outcome(j)[1] = "succeeded" => errors[j] = {}
<1>1. CASE exit[j] = "bad"
  <2>1. Outcome(j) = <<"failed", "copy">>
    BY <1>1 DEF Outcome
  <2> QED
    BY <2>1 DEF JobErrors
<1>2. CASE exit[j] # "bad" /\ errors[j] # {}
  <2>1. Outcome(j) = <<"failed", "restart">>
    BY <1>2 DEF Outcome
  <2> QED
    BY <2>1 DEF JobErrors
<1>3. CASE exit[j] # "bad" /\ errors[j] = {}
  <2>1. Outcome(j) = <<"succeeded", "none">>
    BY <1>3 DEF Outcome
  <2> QED
    BY <1>3, <2>1 DEF JobErrors
<1> QED
  BY <1>1, <1>2, <1>3

(* The verdict on the job. *)
LEMMA VerdictStep ==
  ASSUME Inductive,
         NEW j \in JobIds,
         Verdict(j)
  PROVE  Inductive'
<1> USE DEF Inductive
<1>1. TypeOK'
  <2>1. job' \in [JobIds -> Job] /\ pc' \in [JobIds -> Locations]
    <3>1. Finish(j, Outcome(j)[1], Outcome(j)[2], "done") /\ pc[j] = "resume"
      BY DEF Verdict
    <3>2. Outcome(j)[1] \in JobStates /\ Outcome(j)[2] \in JobErrors
      BY OutcomeStates DEF JobStates, TypeOK
    <3>3. "done" \in Locations
      BY DEF Locations
    <3> HIDE DEF Inductive
    <3> QED
      BY <3>1, <3>2, <3>3, FinishType DEF Inductive
  <2> QED
    BY <2>1 DEF TypeOK, Verdict, Finish, Forget
<1>2. WorkingIsRunning'
  BY DEF WorkingIsRunning, TypeOK, Working, Job,
         Verdict, Finish, Forget, Goto
<1>3. OneRunning'
  <2>1. job'[j].state \in {"failed", "succeeded"}
    BY OutcomeStates DEF Verdict, Finish, TypeOK, Job
  <2>2. \A k \in JobIds : k # j => job'[k] = job[k]
    BY DEF Verdict, Finish, TypeOK
  <2> QED
    BY <2>1, <2>2 DEF OneRunning, TypeOK, Verdict
<1>4. NoLeftovers'
  BY DEF NoLeftovers, TypeOK, Working,
         Verdict, Finish, Forget, Goto
<1>5. \A k \in JobIds : pc'[k] \notin Working
  <2>1. pc'[j] = "done" /\ \A k \in JobIds : k # j => pc'[k] = pc[k]
    BY DEF Verdict, Finish, Goto, TypeOK
  <2>2. \A k \in JobIds : k # j => pc[k] \notin Working
    BY DEF Verdict, WorkingIsRunning, OneRunning, Working
  <2> QED
    BY <2>1, <2>2 DEF Working
<1>6. Quieting' /\ Named' /\ Resuming'
  BY <1>5 DEF Quieting, Named, Resuming, Working
<1> QED
  BY <1>1, <1>2, <1>3, <1>4, <1>6

(* A control route or a container acts. *)
LEMMA OutsideStep ==
  ASSUME Inductive,
         NEW c \in Containers,
         NEW to \in {"up", "down", "gone"},
         Outside(c, to)
  PROVE  Inductive'
<1> USE DEF Inductive
<1>1. TypeOK'
  BY BoundsAssumption DEF TypeOK, Job, JobStates, JobErrors, Locations, HelperStates, Working, JobIds,
         Outside, threadVars
<1>2. WorkingIsRunning'
  BY DEF WorkingIsRunning, TypeOK, Working, Job,
         Outside, threadVars
<1>3. OneRunning'
  BY DEF OneRunning, WorkingIsRunning, TypeOK, Working, Job,
         Outside, threadVars
<1>4. NoLeftovers'
  BY DEF NoLeftovers, TypeOK, Working,
         Outside, threadVars
<1>5. Quieting'
  BY DEF Quieting, WorkingIsRunning, OneRunning, TypeOK, Working, Job,
         Outside, threadVars
<1>6. Named'
  BY DEF Named, WorkingIsRunning, OneRunning, TypeOK, Working, Job,
         Outside, threadVars
<1>7. Resuming'
  BY DEF Resuming, WorkingIsRunning, OneRunning, TypeOK, Working, Job,
         Outside, threadVars
<1> QED
  BY <1>1, <1>2, <1>3, <1>4, <1>5, <1>6, <1>7

(* The agent restarts. *)
LEMMA AgentRestartStep ==
  ASSUME Inductive,
         AgentRestart
  PROVE  Inductive'
<1> USE DEF Inductive
<1>1. TypeOK'
  BY NoJobType, BoundsAssumption DEF TypeOK, Job, JobStates, JobErrors, Locations, HelperStates, Working, JobIds,
         AgentRestart
<1>2. WorkingIsRunning'
  BY DEF WorkingIsRunning, TypeOK, Working, Job,
         AgentRestart
<1>3. OneRunning'
  BY DEF OneRunning, WorkingIsRunning, TypeOK, Working, Job,
         AgentRestart
<1>4. NoLeftovers'
  BY DEF NoLeftovers, TypeOK, Working,
         AgentRestart
<1>5. Quieting'
  BY DEF Quieting, WorkingIsRunning, OneRunning, TypeOK, Working, Job,
         AgentRestart
<1>6. Named'
  BY DEF Named, WorkingIsRunning, OneRunning, TypeOK, Working, Job,
         AgentRestart
<1>7. Resuming'
  BY DEF Resuming, WorkingIsRunning, OneRunning, TypeOK, Working, Job,
         AgentRestart
<1> QED
  BY <1>1, <1>2, <1>3, <1>4, <1>5, <1>6, <1>7

(* start() accepts a job. *)
LEMMA StartStep ==
  ASSUME Inductive,
         NEW s \in Sources,
         NEW stop \in BOOLEAN,
         Start(s, stop)
  PROVE  Inductive'
<1> USE DEF Inductive
<1>1. TypeOK'
  <2> DEFINE r == [NoJob EXCEPT !.state = "running", !.source = s, !.stop = stop]
  <2>1. r \in Job
    BY NoJobType DEF Job, JobStates
  <2>2. nextJob + 1 \in JobIds /\ nextJob' \in 0..MaxStarts
    BY BoundsAssumption DEF Start, TypeOK, JobIds
  <2>3. job' \in [JobIds -> Job]
    BY <2>1, <2>2, NoJobType DEF Start, TypeOK
  <2>4. table' \subseteq JobIds
    BY <2>2 DEF Start, Kept, TypeOK
  <2> QED
    BY <2>2, <2>3, <2>4 DEF Start, TypeOK, Locations, Working
<1>2. WorkingIsRunning'
  BY DEF WorkingIsRunning, TypeOK, Working, Job,
         Start, Kept, Running
<1>3. OneRunning'
  BY DEF OneRunning, WorkingIsRunning, TypeOK, Working, Job,
         Start, Kept, Running
<1>4. NoLeftovers'
  BY DEF NoLeftovers, TypeOK, Working,
         Start, Kept, Running
<1>5. Quieting'
  BY DEF Quieting, WorkingIsRunning, OneRunning, TypeOK, Working, Job,
         Start, Kept, Running
<1>6. Named'
  <2> DEFINE n == nextJob + 1
  <2>1. n \in JobIds /\ \A k \in JobIds : pc[k] \notin Working
    BY BoundsAssumption DEF Start, Running, WorkingIsRunning, TypeOK, JobIds
  <2>2. \A k \in JobIds \ {n} : pc'[k] \notin Working
    BY <2>1 DEF Start, TypeOK
  <2>3. list'[n] = {}
    BY <2>1 DEF Start, NoLeftovers
  <2>4. n \in table'
    BY <2>1 DEF Start, Kept, TypeOK, NoJob
  <2>5. job'[n].stopped = {} /\ (pc'[n] = "launch" => ~ job'[n].stop)
    BY <2>1, <2>4 DEF Start, TypeOK, NoJob
  <2>6. pc'[n] \in {"list", "launch"}
    BY <2>1 DEF Start, TypeOK
  <2> QED
    BY <2>2, <2>3, <2>5, <2>6 DEF Named, Working
<1>7. Resuming'
  BY DEF Resuming, WorkingIsRunning, OneRunning, TypeOK, Working, Job,
         Start, Kept, Running
<1> QED
  BY <1>1, <1>2, <1>3, <1>4, <1>5, <1>6, <1>7

LEMMA InitInductive == Init => Inductive
<1> SUFFICES ASSUME Init PROVE Inductive
  OBVIOUS
<1>1. TypeOK
  BY NoJobType, BoundsAssumption DEF Init, TypeOK, Locations, HelperStates
<1>2. WorkingIsRunning /\ OneRunning /\ NoLeftovers
  BY DEF Init, WorkingIsRunning, OneRunning, NoLeftovers, Working
<1>3. Quieting /\ Named /\ Resuming
  BY DEF Init, Quieting, Named, Resuming
<1> QED
  BY <1>1, <1>2, <1>3 DEF Inductive

(* Every step of a job's thread keeps the invariant.                       *)
LEMMA ThreadStep ==
  ASSUME Inductive, NEW j \in JobIds, Thread(j)
  PROVE  Inductive'
  BY ListStep, StopOneStep, QuiesceFailsStep, QuiescedStep, LaunchStep, LoseTrackStep,
     SeeExitStep, RemoveHelperStep, ResumeOneStep, SalvagedStep, VerdictStep
  DEF Thread

LEMMA NextInductive == Inductive /\ [Next]_vars => Inductive'
<1> SUFFICES ASSUME Inductive, [Next]_vars PROVE Inductive'
  OBVIOUS
<1>1. CASE \E s \in Sources, stop \in BOOLEAN : Start(s, stop)
  BY <1>1, StartStep
<1>2. CASE \E j \in JobIds : Thread(j)
  BY <1>2, ThreadStep
<1>3. CASE \E j \in JobIds, outcome \in {"good", "bad"} : HelperExits(j, outcome)
  BY <1>3, HelperExitsStep
<1>4. CASE \E c \in Containers, to \in {"up", "down"} : Control(c, to)
  BY <1>4, OutsideStep DEF Control
<1>5. CASE \E c \in Containers : Delete(c)
  BY <1>5, OutsideStep DEF Delete
<1>6. CASE AgentRestart
  BY <1>6, AgentRestartStep
<1>7. CASE UNCHANGED vars
  BY <1>7 DEF vars, threadVars, Inductive, TypeOK, WorkingIsRunning, OneRunning,
              NoLeftovers, Quieting, Named, Resuming
<1> QED
  BY <1>1, <1>2, <1>3, <1>4, <1>5, <1>6, <1>7 DEF Next

(* The invariant that the theorems below are read off from.                *)
THEOREM InductiveInvariant == Spec => []Inductive
  BY InitInductive, NextInductive, PTL DEF Spec

(* The variables of the backup jobs keep their types, whatever the number  *)
(* of containers, sources, jobs and restarts.                              *)
THEOREM TypeCorrect == Spec => []TypeOK
<1>1. Inductive => TypeOK
  BY DEF Inductive
<1> QED
  BY <1>1, InductiveInvariant, PTL

(* No two jobs have containers stopped at the same time: start() refuses a *)
(* second job until the first has resumed its containers, on every path.   *)
THEOREM OutagesExclusive == Spec => []OneOutage
<1>1. Inductive => OneOutage
  BY DEF Inductive, OneOutage, WorkingIsRunning, OneRunning
<1> QED
  BY <1>1, InductiveInvariant, PTL

(* During the copy of a job that stops containers, whatever still runs on  *)
(* the source was changed from outside or is named in the job.             *)
THEOREM CopiesQuietOrNamed == Spec => []QuietOrNamed
<1>1. Inductive => QuietOrNamed
  BY DEF Inductive, QuietOrNamed, Quieting, Named
<1> QED
  BY <1>1, InductiveInvariant, PTL

(* Only the verdict makes a running job succeed.                           *)
LEMMA OnlyVerdictSucceeds ==
  ASSUME Inductive, [Next]_vars, NEW j \in JobIds,
         job[j].state = "running", job'[j].state = "succeeded"
  PROVE  Verdict(j) /\ errors[j] = {}
<1> USE DEF Inductive
<1>1. ASSUME NEW s \in Sources, NEW stop \in BOOLEAN, Start(s, stop)
      PROVE  FALSE
  <2>1. nextJob + 1 \in JobIds
    BY <1>1, BoundsAssumption DEF Start, TypeOK, JobIds
  <2> QED
    BY <1>1, <2>1 DEF Start, TypeOK, NoJob
<1>2. ASSUME NEW k \in JobIds, Thread(k), ~ Verdict(k)
      PROVE  FALSE
  <2>1. CASE QuiesceFails(k) \/ Salvaged(k)
    <3>1. PICK e, to : Finish(k, "failed", e, to)
      BY <2>1 DEF QuiesceFails, Salvaged
    <3>2. job'[k].state = "failed" /\ \A i \in JobIds \ {k} : job'[i] = job[i]
      BY <3>1 DEF Finish, TypeOK, Job
    <3> QED
      BY <3>2
  <2>2. CASE Quiesced(k)
    BY <2>2 DEF Quiesced, TypeOK, Job
  <2> QED
    BY <1>2, <2>1, <2>2 DEF Thread, List, StopOne, Launch, LoseTrack, SeeExit,
                            RemoveHelper, ResumeOne
<1>3. ASSUME NEW k \in JobIds, Verdict(k)
      PROVE  k = j /\ errors[j] = {}
  BY <1>3, OutcomeStates DEF Verdict, Finish, TypeOK, Job
<1>4. ASSUME NEW k \in JobIds, NEW outcome, HelperExits(k, outcome)
      PROVE  FALSE
  BY <1>4 DEF HelperExits
<1>5. ASSUME NEW c \in Containers, NEW to, Control(c, to) \/ Delete(c)
      PROVE  FALSE
  BY <1>5 DEF Control, Delete, Outside
<1>6. ~ AgentRestart
  BY DEF AgentRestart, NoJob
<1>7. ~ UNCHANGED vars
  BY DEF vars
<1> QED
  BY <1>1, <1>2, <1>3, <1>4, <1>5, <1>6, <1>7 DEF Next

(* A job that is reported succeeded has brought every container it stopped *)
(* back, unless somebody else changed that container meanwhile.            *)
THEOREM SuccessBringsBack == Spec => BackOnSuccess
<1>1. ASSUME Inductive, [Next]_vars, NEW j \in JobIds,
             job[j].state = "running", job'[j].state = "succeeded",
             NEW c \in job[j].stopped \ touched[j]
      PROVE  box'[c] = "up"
  <2>1. Verdict(j) /\ errors[j] = {}
    BY <1>1, OnlyVerdictSucceeds
  <2>2. c \in list[j] /\ rest[j] = {} /\ UNCHANGED box
    BY <1>1, <2>1 DEF Verdict, Inductive, Named
  <2> QED
    BY <1>1, <2>1, <2>2 DEF Verdict, Inductive, Resuming
<1>2. Inductive /\ [Next]_vars =>
        [\A j \in JobIds :
           job[j].state = "running" /\ job'[j].state = "succeeded" =>
             \A c \in job[j].stopped \ touched[j] : box'[c] = "up"]_vars
  BY <1>1
<1> QED
  BY <1>2, InductiveInvariant, PTL DEF Spec, BackOnSuccess

(***************************************************************************)
(* The table                                                               *)
(***************************************************************************)

TableOK == table \subseteq 1..nextJob /\ NewestKept

(* Only start() adds to the table, and only it and a restart drop from it. *)
LEMMA TableSteps ==
  ASSUME Inductive, [Next]_vars
  PROVE  \/ \E s \in Sources, stop \in BOOLEAN : Start(s, stop)
         \/ table' = {} /\ nextJob' = nextJob
         \/ UNCHANGED <<table, nextJob>>
<1>1. ASSUME NEW j \in JobIds, Thread(j)
      PROVE  UNCHANGED <<table, nextJob>>
  BY <1>1 DEF Thread, List, StopOne, QuiesceFails, Quiesced, Launch, LoseTrack, SeeExit,
              RemoveHelper, ResumeOne, Salvaged, Verdict
<1>2. ASSUME NEW j \in JobIds, NEW outcome, HelperExits(j, outcome)
      PROVE  UNCHANGED <<table, nextJob>>
  BY <1>2 DEF HelperExits
<1>3. ASSUME NEW c \in Containers, NEW to, Control(c, to) \/ Delete(c)
      PROVE  UNCHANGED <<table, nextJob>>
  BY <1>3 DEF Control, Delete, Outside
<1> QED
  BY <1>1, <1>2, <1>3 DEF Next, AgentRestart, vars

(* Nothing runs when a job is accepted, so _record keeps the new job and   *)
(* of the others those with fewer than MaxJobs newer ones; as the table    *)
(* had no gap these are the newest without a gap, MaxJobs at most.         *)
LEMMA StartKeepsTable ==
  ASSUME Inductive, TableOK, NEW s \in Sources, NEW stop \in BOOLEAN, Start(s, stop)
  PROVE  TableOK'
<1> USE DEF Inductive
<1> DEFINE j == nextJob + 1
           t == table \cup {j}
           newer(i) == {k \in t : k > i}
<1>1. /\ nextJob \in Nat /\ j \in JobIds /\ MaxJobs \in Nat /\ MaxJobs > 0
      /\ table \subseteq 1..nextJob /\ nextJob' = j
  BY BoundsAssumption DEF Start, TypeOK, JobIds, TableOK
<1>2. t \subseteq 1..j
  BY <1>1
<1>3. \A i \in t : i..j \subseteq t
  <2>1. \A i \in table : i..nextJob \subseteq table
    BY DEF TableOK, NewestKept
  <2>2. \A i \in table : \A k \in i..j : k = j \/ k \in i..nextJob
    BY <1>1
  <2>3. j..j = {j}
    BY <1>1
  <2> QED
    BY <2>1, <2>2, <2>3
<1>4. /\ table' \subseteq t
      /\ \A i \in t : i \in table' <=> Cardinality(newer(i)) < MaxJobs \/ i = j
  <2> DEFINE record == [NoJob EXCEPT !.state = "running", !.source = s, !.stop = stop]
             jobs == [job EXCEPT ![j] = record]
  <2>1. table' = Kept(t, jobs)
    BY DEF Start
  <2>2. \A i \in t : jobs[i].state = "running" <=> i = j
    BY <1>1 DEF Start, Running, TypeOK, NoJob
  <2> HIDE DEF jobs
  <2>3. Kept(t, jobs) = {i \in t : Cardinality(newer(i)) < MaxJobs \/ jobs[i].state = "running"}
    BY DEF Kept
  <2> HIDE DEF t, newer
  <2> QED
    BY <2>1, <2>2, <2>3
<1>5. \A i \in t : IsFiniteSet(newer(i))
  <2>1. IsFiniteSet(1..j)
    BY <1>1, FS_Interval
  <2>2. \A i \in t : newer(i) \subseteq 1..j
    BY <1>2
  <2> HIDE DEF t, newer
  <2> QED
    BY <2>1, <2>2, FS_Subset
<1>6. \A i \in table' : i..j \subseteq table'
  <2> SUFFICES ASSUME NEW i \in table', NEW k \in i..j PROVE k \in table'
    OBVIOUS
  <2>1. i \in t /\ k \in t /\ i \in Int /\ k \in Int /\ i <= k
    BY <1>1, <1>2, <1>3, <1>4
  <2>2. CASE i = j
    <3>1. k = j
      BY <1>1, <2>1, <2>2
    <3> QED
      BY <2>2, <3>1
  <2>3. CASE i # j
    <3>1. newer(k) \subseteq newer(i)
      <4>1. \A m \in t : m \in Int
        BY <1>1, <1>2
      <4> HIDE DEF t
      <4>2. \A m \in t : m > k => m > i
        BY <2>1, <4>1
      <4> QED
        BY <4>2
    <3>2. Cardinality(newer(k)) <= Cardinality(newer(i))
      BY <1>5, <2>1, <3>1, FS_Subset
    <3>3. Cardinality(newer(k)) \in Nat /\ Cardinality(newer(i)) \in Nat
      BY <1>5, <2>1, FS_CardinalityType
    <3>4. Cardinality(newer(i)) < MaxJobs
      BY <1>4, <2>1, <2>3
    <3> QED
      BY <1>1, <1>4, <2>1, <3>2, <3>3, <3>4
  <2> QED
    BY <2>2, <2>3
<1>7. table' \subseteq (j - MaxJobs + 1)..j
  <2> SUFFICES ASSUME NEW i \in table', ~ (i \in (j - MaxJobs + 1)..j) PROVE FALSE
    OBVIOUS
  <2>1. i \in t /\ i \in Int /\ i < j - MaxJobs + 1 /\ i # j
    BY <1>1, <1>2, <1>4
  <2>2. (i + 1)..j \subseteq newer(i)
    <3>1. \A k \in (i + 1)..j : k \in i..j /\ k > i
      BY <1>1, <2>1
    <3> QED
      BY <1>3, <2>1, <3>1
  <2>3. Cardinality((i + 1)..j) = j - i
    BY <1>1, <2>1, FS_Interval
  <2>4. Cardinality((i + 1)..j) <= Cardinality(newer(i))
    BY <1>5, <2>1, <2>2, FS_Subset
  <2>5. Cardinality(newer(i)) < MaxJobs /\ Cardinality(newer(i)) \in Nat
    BY <1>4, <1>5, <2>1, FS_CardinalityType
  <2> QED
    BY <1>1, <2>1, <2>3, <2>4, <2>5
<1>8. Cardinality(table') <= MaxJobs
  <2>1. /\ IsFiniteSet((j - MaxJobs + 1)..j)
        /\ Cardinality((j - MaxJobs + 1)..j) = MaxJobs
    BY <1>1, FS_Interval
  <2> QED
    BY <1>7, <2>1, FS_Subset
<1>9. table' \subseteq 1..nextJob'
  BY <1>1, <1>2, <1>4
<1> QED
  BY <1>1, <1>6, <1>8, <1>9 DEF TableOK, NewestKept

(* The table keeps the newest jobs, without a gap and MaxJobs at most.     *)
THEOREM NewestStay == Spec => []NewestKept
<1>1. Init => TableOK
  BY BoundsAssumption, FS_EmptySet DEF Init, TableOK, NewestKept
<1>2. Inductive /\ TableOK /\ [Next]_vars => TableOK'
  <2> SUFFICES ASSUME Inductive, TableOK, [Next]_vars PROVE TableOK'
    OBVIOUS
  <2>1. CASE table' = {} /\ nextJob' = nextJob
    BY <2>1, BoundsAssumption, FS_EmptySet DEF TableOK, NewestKept
  <2>2. CASE UNCHANGED <<table, nextJob>>
    BY <2>2 DEF TableOK, NewestKept
  <2> QED
    BY <2>1, <2>2, TableSteps, StartKeepsTable
<1>3. TableOK => NewestKept
  BY DEF TableOK
<1> QED
  BY <1>1, <1>2, <1>3, InductiveInvariant, PTL DEF Spec
=============================================================================
