--------------------------- MODULE NetWatch_proofs ---------------------------
(***************************************************************************)
(* Proofs about NetWatch, for any number of runs, requests and restarts.   *)
(*                                                                         *)
(* The type and the state file are proved for any number of callers;       *)
(* OneLive only for one, because a disable sets the flag of whichever run  *)
(* is the newest when it gets to it.                                       *)
(***************************************************************************)
EXTENDS NetWatch, TLAPS

(* What the supervisors' steps can change.                                 *)
LEMMA SupervisorSteps ==
  ASSUME TypeOK, NEW i \in Runs, Supervise(i)
  PROVE  /\ UNCHANGED <<enabled, detector, run, stop, call>>
         /\ Save(i) \/ (sup[i] \notin {"unborn", "done"}
                        /\ \E to \in Places \ {"unborn"} : sup' = [sup EXCEPT ![i] = to])
<1>1. Save(i) => UNCHANGED <<enabled, detector, run, stop, call>>
  BY DEF Save, Encode, Write, callVars
<1>2. ASSUME ~ Save(i)
      PROVE  /\ UNCHANGED <<enabled, detector, run, stop, call>>
             /\ sup[i] \notin {"unborn", "done"}
             /\ \E to \in Places \ {"unborn"} : sup' = [sup EXCEPT ![i] = to]
  BY <1>2 DEF Supervise, Check, ClearStale, Create, StartHelper, Publish, HandleLine, AfterLine,
              StreamEnds, StreamBreaks, RemoveHelper, Pause, Goto, Places, memVars, callVars
<1> QED
  BY <1>1, <1>2

(* The types of what a removal assigns.                                    *)
LEMMA ForgottenTyped ==
  ASSUME TypeOK, NEW runs \in SUBSET Runs, Forgotten(runs)
  PROVE  /\ pointer' \in 0..run
         /\ target' \in [Callers -> 0..run]
  BY BoundsAssumption DEF TypeOK, Forgotten

LEMMA RemovedTyped ==
  ASSUME TypeOK, NEW runs \in SUBSET Runs, Removed(runs)
  PROVE  /\ helper' \in [Runs -> {"none", "created", "running", "exited"}]
         /\ left' \subseteq {0} \cup Runs
         /\ pointer' \in 0..run
         /\ target' \in [Callers -> 0..run]
<1>1. /\ helper' \in [Runs -> {"none", "created", "running", "exited"}]
      /\ left' \subseteq {0} \cup Runs
  BY DEF TypeOK, Removed
<1> QED
  BY <1>1, ForgottenTyped DEF Removed

LEMMA InitInductive == Init => Inductive
<1> SUFFICES ASSUME Init PROVE Inductive
  OBVIOUS
<1>1. NoContent \in Content /\ NoContent.known = 0
  BY BoundsAssumption DEF NoContent, Content
<1>2. \A i \in Runs : i > run /\ sup[i] = "unborn"
  BY BoundsAssumption DEF Init, Runs
<1>3. sup \in [Runs -> Places]
  BY DEF Init, Places
<1>4. TypeOK
  <2>1. /\ known \in 0..MaxLearnt /\ run \in 0..MaxRuns /\ pointer \in 0..run
        /\ target \in [Callers -> 0..run]
        /\ requests \in 0..MaxRequests /\ faults \in 0..MaxFaults /\ restarts \in 0..MaxRestarts
    BY BoundsAssumption DEF Init
  <2>2. /\ stop \in [Runs -> BOOLEAN]
        /\ helper \in [Runs -> {"none", "created", "running", "exited"}]
        /\ call \in [Callers -> {"idle", "flag", "kill", "save"}]
        /\ saving \in [Actors -> {"no", "encode", "write"}]
        /\ text \in [Actors -> Content]
        /\ file \in Content
    BY <1>1 DEF Init
  <2>3. file.known <= known
    BY <1>1 DEF Init
  <2>4. \A i \in Runs : sup[i] = "unborn" <=> i > run
    BY <1>2
  <2>5. /\ enabled \in BOOLEAN /\ detector \in BOOLEAN /\ dirty \in BOOLEAN
        /\ orphan \in BOOLEAN /\ left \subseteq {0} \cup Runs /\ crossed \in BOOLEAN
    BY DEF Init
  <2> QED
    BY <1>3, <2>1, <2>2, <2>3, <2>4, <2>5 DEF TypeOK
<1>5. TextKnown /\ SavesThere /\ OnItsWay
  BY DEF Init, TextKnown, SavesThere, OnItsWay, Actors
<1> QED
  BY <1>4, <1>5 DEF Inductive

-----------------------------------------------------------------------------
(* Types                                                                   *)

LEMMA SaveTyped ==
  ASSUME TypeOK, TextKnown, NEW a \in Actors, Save(a)
  PROVE  TypeOK' /\ TextKnown'
<1>1. CASE Encode(a)
  <2>1. Current \in Content /\ Current.known = known
    BY DEF Current, Content, TypeOK
  <2>2. /\ text' \in [Actors -> Content]
        /\ \A b \in Actors : text'[b] = text[b] \/ text'[b] = Current
    <3>1. CASE text' = [text EXCEPT ![a] = Current]
      BY <3>1, <2>1 DEF TypeOK
    <3>2. CASE text' = text
      BY <3>2 DEF TypeOK
    <3> QED
      BY <1>1, <3>1, <3>2 DEF Encode
  <2>3. /\ saving' \in [Actors -> {"no", "encode", "write"}]
        /\ dirty' \in BOOLEAN /\ crossed' \in BOOLEAN
    BY <1>1 DEF Encode, TypeOK
  <2>4. TextKnown'
    <3> SUFFICES ASSUME NEW b \in Actors, saving'[b] = "write"
                 PROVE  text'[b].known <= known'
      BY DEF TextKnown
    <3>1. known' = known /\ known \in 0..MaxLearnt
      BY <1>1 DEF Encode, TypeOK
    <3>2. CASE text'[b] = Current
      BY <3>1, <3>2, <2>1, BoundsAssumption
    <3>3. CASE text'[b] # Current
      <4>1. text'[b] = text[b] /\ saving[b] = "write"
        BY <1>1, <2>1, <3>3 DEF Encode, TypeOK
      <4> QED
        BY <3>1, <4>1 DEF TextKnown
    <3> QED
      BY <3>2, <3>3
  <2>5. UNCHANGED <<enabled, detector, known, run, stop, sup, boxVars, callVars, file, faults, restarts>>
    BY <1>1 DEF Encode
  <2> QED
    BY <2>2, <2>3, <2>4, <2>5 DEF TypeOK, boxVars, callVars
<1>2. CASE Write(a)
  <2>1. text[a] \in Content /\ text[a].known <= known
    BY <1>2 DEF Write, TextKnown, TypeOK
  <2>2. file' = text[a] \/ file' = file
    BY <1>2 DEF Write
  <2>3. /\ file' \in Content /\ file'.known <= known
        /\ saving' \in [Actors -> {"no", "encode", "write"}]
    BY <1>2, <2>1, <2>2 DEF Write, TypeOK
  <2>4. dirty' \in BOOLEAN /\ faults' \in 0..MaxFaults
    <3>1. dirty' = dirty \/ dirty' = TRUE
      BY <1>2 DEF Write, AfterFailure
    <3>2. dirty' \in BOOLEAN
      BY <3>1 DEF TypeOK
    <3>3. faults' \in 0..MaxFaults
      BY <1>2, BoundsAssumption DEF Write, Fault, TypeOK
    <3> QED
      BY <3>2, <3>3
  <2>5. UNCHANGED <<enabled, detector, known, run, stop, sup, boxVars, callVars, text, crossed, restarts>>
    BY <1>2 DEF Write
  <2>6. TextKnown'
    BY <1>2, <2>5 DEF Write, TextKnown, TypeOK
  <2> QED
    BY <2>3, <2>4, <2>5, <2>6 DEF TypeOK, boxVars, callVars
<1> QED
  BY <1>1, <1>2 DEF Save

LEMMA RequestTyped ==
  ASSUME TypeOK, TextKnown, NEW c \in Callers, Request(c) \/ SetFlag(c) \/ Kill(c) \/ Answer(c)
  PROVE  TypeOK' /\ TextKnown'
<1> USE BoundsAssumption
<1>0. c \in Actors
  BY DEF Actors
<1>1. CASE Enable(c)
  <2>1. CASE IsOn /\ UNCHANGED <<run, stop, enabled, detector, dirty, sup, call, saving>>
    BY <1>1, <2>1 DEF Enable, TypeOK, TextKnown, boxVars
  <2>2. CASE ~ IsOn /\ StartRun /\ sup' = [sup EXCEPT ![run'] = "check"]
    <3>1. run' \in Runs /\ run' = run + 1
      BY <2>2 DEF StartRun, TypeOK, Runs
    <3>2. stop' \in [Runs -> BOOLEAN] /\ enabled' \in BOOLEAN /\ detector' \in BOOLEAN /\ dirty' \in BOOLEAN
      BY <2>2, <3>1 DEF StartRun, TypeOK
    <3>3. sup' \in [Runs -> Places] /\ \A i \in Runs : sup'[i] = "unborn" <=> i > run'
      BY <2>2, <3>1 DEF TypeOK, Places, Runs
    <3>4. run' \in 0..MaxRuns /\ pointer \in 0..run' /\ target \in [Callers -> 0..run']
      BY <3>1 DEF TypeOK, Runs
    <3>5. /\ call' = [call EXCEPT ![c] = "save"]
          /\ saving' = [saving EXCEPT ![c] = "encode"]
          /\ requests' \in 0..MaxRequests
      BY <1>1, <2>2 DEF Enable, TypeOK
    <3>6. /\ call' \in [Callers -> {"idle", "flag", "kill", "save"}]
          /\ saving' \in [Actors -> {"no", "encode", "write"}]
      BY <3>5 DEF TypeOK
    <3>7. UNCHANGED <<known, boxVars, target, text, file, crossed, faults, restarts>>
      BY <1>1 DEF Enable
    <3>8. TextKnown'
      BY <3>5, <3>7, <1>0 DEF TextKnown, TypeOK
    <3> QED
      BY <3>1, <3>2, <3>3, <3>4, <3>5, <3>6, <3>7, <3>8 DEF TypeOK, boxVars
  <2> QED
    BY <1>1, <2>1, <2>2 DEF Enable
<1>2. CASE Disable(c)
  <2>1. /\ call' \in [Callers -> {"idle", "flag", "kill", "save"}]
        /\ target' \in [Callers -> 0..run] /\ requests' \in 0..MaxRequests
    BY <1>2 DEF Disable, TypeOK
  <2>2. /\ enabled' \in BOOLEAN
        /\ UNCHANGED <<detector, known, dirty, run, stop, sup, boxVars, saveVars, faults, restarts>>
    BY <1>2 DEF Disable
  <2> QED
    BY <2>1, <2>2 DEF TypeOK, TextKnown, boxVars, saveVars
<1>3. CASE SetFlag(c)
  BY <1>3 DEF SetFlag, Flagged, TypeOK, TextKnown, boxVars, saveVars
<1>4. CASE Kill(c)
  <2>1. helper' \in [Runs -> {"none", "created", "running", "exited"}]
    BY <1>4 DEF Kill, TypeOK
  <2>2. /\ call' \in [Callers -> {"idle", "flag", "kill", "save"}]
        /\ target' \in [Callers -> 0..run] /\ dirty' \in BOOLEAN
        /\ saving' \in [Actors -> {"no", "encode", "write"}]
    BY <1>4, <1>0 DEF Kill, TypeOK
  <2>3. TextKnown'
    BY <1>4, <1>0 DEF Kill, TextKnown, TypeOK
  <2> QED
    BY <1>4, <2>1, <2>2, <2>3 DEF Kill, TypeOK
<1>5. CASE Answer(c)
  BY <1>5 DEF Answer, TypeOK, TextKnown, memVars, boxVars, saveVars
<1> QED
  BY <1>1, <1>2, <1>3, <1>4, <1>5 DEF Request

LEMMA SupervisorTyped ==
  ASSUME TypeOK, TextKnown, NEW i \in Runs, Supervise(i), ~ Save(i)
  PROVE  TypeOK' /\ TextKnown'
<1> USE BoundsAssumption
<1>0. i \in Actors
  BY DEF Actors
<1>1. UNCHANGED <<enabled, detector, run, stop, call>> /\ sup[i] \notin {"unborn", "done"}
  BY SupervisorSteps
<1>2. PICK to \in Places \ {"unborn"} : sup' = [sup EXCEPT ![i] = to]
  BY SupervisorSteps
<1>3. sup' \in [Runs -> Places] /\ \A j \in Runs : sup'[j] = "unborn" <=> j > run
  BY <1>1, <1>2 DEF TypeOK
<1>4. faults' \in 0..MaxFaults /\ UNCHANGED <<text, file, crossed, requests, restarts>>
  BY DEF Supervise, Check, ClearStale, Create, StartHelper, Publish, HandleLine, AfterLine,
         StreamEnds, StreamBreaks, RemoveHelper, Pause, Fault, TypeOK, memVars, callVars, saveVars
<1>5. known' \in 0..MaxLearnt /\ known' >= known /\ dirty' \in BOOLEAN
  <2>1. \/ known' = known /\ (dirty' = dirty \/ dirty' = TRUE)
        \/ known < MaxLearnt /\ known' = known + 1 /\ dirty' = TRUE
    BY DEF Supervise, Check, ClearStale, Create, StartHelper, Publish, HandleLine, AfterLine,
           StreamEnds, StreamBreaks, RemoveHelper, Pause, memVars
  <2>2. dirty' \in BOOLEAN
    BY <2>1 DEF TypeOK
  <2>3. known' \in 0..MaxLearnt /\ known' >= known
    BY <2>1 DEF TypeOK
  <2> QED
    BY <2>2, <2>3
<1>6. saving' = saving \/ saving' = [saving EXCEPT ![i] = "encode"]
  BY DEF Supervise, Check, ClearStale, Create, StartHelper, Publish, HandleLine, AfterLine,
         StreamEnds, StreamBreaks, RemoveHelper, Pause, saveVars
<1>7. /\ saving' \in [Actors -> {"no", "encode", "write"}]
      /\ \A a \in Actors : saving'[a] = "write" => saving[a] = "write"
  BY <1>0, <1>6 DEF TypeOK
<1>8. /\ helper' \in [Runs -> {"none", "created", "running", "exited"}]
      /\ orphan' \in BOOLEAN /\ left' \subseteq {0} \cup Runs
      /\ pointer' \in 0..run /\ target' \in [Callers -> 0..run]
  <2>1. CASE StartHelper(i) \/ RemoveHelper(i)
    <3>1. orphan' \in BOOLEAN
      BY <2>1 DEF StartHelper, RemoveHelper, TypeOK
    <3>2. CASE Removed({i})
      BY <3>1, <3>2, RemovedTyped
    <3>3. CASE ~ Removed({i})
      BY <2>1, <3>1, <3>3 DEF StartHelper, RemoveHelper, TypeOK
    <3> QED
      BY <3>2, <3>3
  <2>4. CASE ClearStale(i)
    <3>1. PICK kept \in SUBSET Labelled :
             /\ helper' = [j \in Runs |-> IF j \in kept THEN helper[j] ELSE "none"]
             /\ orphan' = (0 \in kept)
             /\ left' = kept
             /\ Forgotten(Runs \ kept)
      BY <2>4 DEF ClearStale
    <3>2. left' \subseteq {0} \cup Runs /\ orphan' \in BOOLEAN
      BY <3>1 DEF Labelled
    <3>3. helper' \in [Runs -> {"none", "created", "running", "exited"}]
      BY <3>1 DEF TypeOK
    <3> QED
      BY <3>1, <3>2, <3>3, ForgottenTyped
  <2>5. CASE Create(i)
    <3>1. CASE helper[i] # "none" /\ sup'[i] = "start" /\ Forgotten({i})
      BY <2>5, <3>1, ForgottenTyped DEF Create, TypeOK, boxVars
    <3>2. CASE UNCHANGED <<orphan, left, pointer, target>>
      BY <2>5, <3>2 DEF Create, TypeOK, boxVars
    <3>3. \/ Forgotten({i}) /\ helper[i] # "none" /\ sup' = [sup EXCEPT ![i] = "start"]
          \/ UNCHANGED <<orphan, left, pointer, target>>
      BY <2>5 DEF Create, Goto, boxVars
    <3> QED
      BY <3>1, <3>2, <3>3 DEF TypeOK
  <2>2. CASE Publish(i)
    <3>1. sup[i] # "unborn"
      BY <2>2 DEF Publish
    <3>2. i \in 0..run
      BY <3>1 DEF TypeOK, Runs
    <3> QED
      BY <2>2, <3>2 DEF Publish, TypeOK, callVars
  <2>3. CASE Check(i) \/ HandleLine(i) \/ AfterLine(i) \/ StreamEnds(i) \/ StreamBreaks(i) \/ Pause(i)
    BY <2>3 DEF Check, HandleLine, AfterLine, StreamEnds, StreamBreaks, Pause, TypeOK, boxVars,
                callVars
  <2> QED
    BY <2>1, <2>2, <2>3, <2>4, <2>5 DEF Supervise
<1>9. TextKnown'
  <2> SUFFICES ASSUME NEW a \in Actors, saving'[a] = "write" PROVE text'[a].known <= known'
    BY DEF TextKnown
  <2>1. text'[a] \in Content /\ text'[a].known <= known
    BY <1>4, <1>7 DEF TextKnown, TypeOK
  <2> QED
    BY <1>5, <2>1 DEF TypeOK, Content
<1>10. file' \in Content /\ file'.known <= known'
  BY <1>4, <1>5 DEF TypeOK, Content
<1> QED
  BY <1>1, <1>3, <1>4, <1>5, <1>7, <1>8, <1>9, <1>10 DEF TypeOK

LEMMA RestartTyped ==
  ASSUME TypeOK, NEW c \in Callers, Restart(c)
  PROVE  TypeOK' /\ TextKnown'
<1> USE BoundsAssumption
<1>0. c \in Actors
  BY DEF Actors
<1>1. /\ UNCHANGED <<text, file, requests, faults>> /\ restarts' \in 0..MaxRestarts
      /\ known' = file.known /\ file \in Content
  BY DEF Restart, Loaded, TypeOK
<1>2. known' \in 0..MaxLearnt /\ file'.known <= known'
  BY <1>1 DEF Content
<1>3. orphan' \in BOOLEAN /\ crossed' \in BOOLEAN
  BY DEF Restart, TypeOK
<1>4. run' \in run..MaxRuns
  BY DEF Restart, StartRun, TypeOK
<1>5. /\ helper' \in [Runs -> {"none", "created", "running", "exited"}]
      /\ left' \subseteq {0} \cup Runs
      /\ pointer' \in 0..run' /\ target' \in [Callers -> 0..run']
  BY <1>4 DEF Restart, TypeOK
<1>6. /\ call' \in [Callers -> {"idle", "flag", "kill", "save"}]
      /\ saving' \in [Actors -> {"no", "encode", "write"}]
      /\ \A a \in Actors : saving'[a] # "write"
  BY DEF Restart
<1>7. /\ stop' \in [Runs -> BOOLEAN]
      /\ sup' \in [Runs -> Places] /\ \A i \in Runs : sup'[i] = "unborn" <=> i > run'
  <2>1. CASE file.enabled
    <3>1. /\ run' = run + 1 /\ run' \in Runs
          /\ stop' = [stop EXCEPT ![run'] = FALSE]
          /\ sup' = [i \in Runs |-> IF i <= run THEN "done" ELSE IF i = run' THEN "check" ELSE sup[i]]
      BY <2>1 DEF Restart, StartRun, TypeOK, Runs
    <3>2. stop' \in [Runs -> BOOLEAN]
      BY <3>1 DEF TypeOK
    <3>3. sup' \in [Runs -> Places]
      BY <3>1 DEF TypeOK, Places
    <3>4. \A i \in Runs : sup'[i] = "unborn" <=> i > run'
      BY <3>1 DEF TypeOK, Runs
    <3> QED
      BY <3>2, <3>3, <3>4
  <2>2. CASE ~ file.enabled
    <3>1. /\ run' = run /\ stop' = stop
          /\ sup' = [i \in Runs |-> IF i <= run THEN "done" ELSE sup[i]]
      BY <2>2 DEF Restart
    <3>2. sup' \in [Runs -> Places]
      BY <3>1 DEF TypeOK, Places
    <3>3. \A i \in Runs : sup'[i] = "unborn" <=> i > run'
      BY <3>1 DEF TypeOK, Runs
    <3> QED
      BY <3>1, <3>2, <3>3 DEF TypeOK
  <2> QED
    BY <2>1, <2>2
<1>8. enabled' \in BOOLEAN /\ detector' \in BOOLEAN /\ dirty' \in BOOLEAN
  BY DEF Restart, StartRun
<1>9. text' \in [Actors -> Content] /\ requests' \in 0..MaxRequests /\ faults' \in 0..MaxFaults
  BY <1>1 DEF TypeOK
<1>10. run' \in 0..MaxRuns
  BY <1>4 DEF TypeOK
<1>11. TypeOK'
  BY <1>1, <1>2, <1>3, <1>5, <1>6, <1>7, <1>8, <1>9, <1>10 DEF TypeOK
<1> QED
  BY <1>6, <1>11 DEF TextKnown

LEMMA HelperDiesTyped ==
  ASSUME TypeOK, TextKnown, NEW i \in Runs, HelperDies(i)
  PROVE  TypeOK' /\ TextKnown'
<1>1. faults' \in 0..MaxFaults /\ helper' \in [Runs -> {"none", "created", "running", "exited"}]
  BY BoundsAssumption DEF HelperDies, Fault, TypeOK
<1> QED
  BY <1>1 DEF HelperDies, TypeOK, TextKnown, memVars, callVars, saveVars

LEMMA TypeStep == TypeOK /\ TextKnown /\ [Next]_vars => TypeOK' /\ TextKnown'
<1> SUFFICES ASSUME TypeOK, TextKnown, [Next]_vars PROVE TypeOK' /\ TextKnown'
  OBVIOUS
<1>1. ASSUME NEW c \in Callers, Request(c) \/ Serve(c) \/ Restart(c)
      PROVE  TypeOK' /\ TextKnown'
  BY <1>1, RequestTyped, SaveTyped, RestartTyped DEF Serve, Actors
<1>2. ASSUME NEW i \in Runs, Supervise(i) \/ HelperDies(i)
      PROVE  TypeOK' /\ TextKnown'
  <2>1. i \in Actors
    BY DEF Actors
  <2> QED
    BY <1>2, <2>1, SaveTyped, SupervisorTyped, HelperDiesTyped
<1>3. CASE UNCHANGED vars
  BY <1>3 DEF vars, TypeOK, TextKnown, memVars, callVars, saveVars, boxVars
<1> QED
  BY <1>1, <1>2, <1>3 DEF Next

-----------------------------------------------------------------------------
(* The state file                                                          *)

LEMMA SavesThereStep == TypeOK /\ SavesThere /\ [Next]_vars => SavesThere'
<1> SUFFICES ASSUME TypeOK, SavesThere, [Next]_vars PROVE SavesThere'
  OBVIOUS
<1>0. Runs \cap Callers = {}
  BY CallersAssumption DEF Runs
<1>1. ASSUME NEW a \in Actors, Save(a) PROVE SavesThere'
  BY <1>1 DEF Save, Encode, Write, SavesThere, TypeOK, Actors
<1>2. ASSUME NEW c \in Callers, Request(c) \/ Serve(c) \/ Restart(c) PROVE SavesThere'
  <2>1. CASE Enable(c)
    <3>1. \A i \in Runs : sup[i] # "unborn" => sup'[i] = sup[i]
      BY <2>1, BoundsAssumption DEF Enable, StartRun, TypeOK, Runs
    <3> QED
      BY <1>0, <2>1, <3>1 DEF Enable, SavesThere, TypeOK, Actors
  <2>2. CASE Disable(c) \/ SetFlag(c) \/ Answer(c)
    BY <2>2 DEF Disable, SetFlag, Answer, SavesThere, saveVars
  <2>3. CASE Kill(c)
    BY <1>0, <2>3 DEF Kill, SavesThere, TypeOK, Actors
  <2>4. CASE Restart(c)
    BY <1>0, <2>4 DEF Restart, SavesThere, Actors
  <2>5. c \in Actors
    BY DEF Actors
  <2> QED
    BY <1>1, <1>2, <2>1, <2>2, <2>3, <2>4, <2>5 DEF Request, Serve
<1>3. ASSUME NEW i \in Runs, Supervise(i), ~ Save(i) PROVE SavesThere'
  BY <1>3 DEF Supervise, Check, ClearStale, Create, StartHelper, Publish, HandleLine, AfterLine,
              StreamEnds, StreamBreaks, RemoveHelper, Pause, Goto, SavesThere, TypeOK, Actors, saveVars
<1>4. ASSUME NEW i \in Runs, HelperDies(i) PROVE SavesThere'
  BY <1>4 DEF HelperDies, SavesThere, saveVars
<1>5. CASE UNCHANGED vars
  BY <1>5 DEF vars, SavesThere, saveVars
<1> QED
  BY <1>1, <1>2, <1>3, <1>4, <1>5 DEF Next, Actors

(* Nothing that OnItsWay speaks of has changed, or only what is not about  *)
(* to be written.                                                          *)
LEMMA OnItsWayKept ==
  ASSUME OnItsWay,
         UNCHANGED <<enabled, detector, known, dirty, crossed, text, file>>,
         \A c \in Callers : call[c] \in {"flag", "kill"} => call'[c] \in {"flag", "kill"},
         \A a \in Actors : saving[a] = "write" <=> saving'[a] = "write"
  PROVE  OnItsWay'
<1>1. Current' = Current
  BY DEF Current
<1> SUFFICES ASSUME detector, ~ dirty, ~ crossed
             PROVE  \/ \E c \in Callers : call'[c] \in {"flag", "kill"}
                    \/ \E a \in Actors : /\ saving'[a] = "write" /\ text'[a] = Current'
                                        /\ \A b \in Actors \ {a} : saving'[b] # "write"
                    \/ (\A a \in Actors : saving'[a] # "write") /\ file' = Current'
  BY DEF OnItsWay
<1>2. CASE \E c \in Callers : call[c] \in {"flag", "kill"}
  BY <1>2
<1>3. CASE \E a \in Actors : /\ saving[a] = "write" /\ text[a] = Current
                            /\ \A b \in Actors \ {a} : saving[b] # "write"
  BY <1>1, <1>3
<1>4. CASE (\A a \in Actors : saving[a] # "write") /\ file = Current
  BY <1>1, <1>4
<1> QED
  BY <1>2, <1>3, <1>4 DEF OnItsWay

LEMMA SaveOnItsWay ==
  ASSUME TypeOK, OnItsWay, NEW a \in Actors, Save(a)
  PROVE  OnItsWay'
<1>1. CASE Encode(a)
  <2>1. UNCHANGED <<enabled, detector, known, call, file>>
    BY <1>1 DEF Encode, callVars
  <2>2. CASE saving' = [saving EXCEPT ![a] = "no"] /\ UNCHANGED <<text, dirty, crossed>>
    <3>1. \A b \in Actors : saving[b] = "write" <=> saving'[b] = "write"
      BY <1>1, <2>2 DEF Encode, TypeOK
    <3> QED
      BY <2>1, <2>2, <3>1, OnItsWayKept
  <2>3. CASE /\ text' = [text EXCEPT ![a] = Current]
             /\ saving' = [saving EXCEPT ![a] = "write"]
             /\ crossed' = (\E b \in Actors \ {a} : saving[b] = "write")
    <3>1. Current' = Current
      BY <2>1 DEF Current
    <3>2. saving'[a] = "write" /\ text'[a] = Current'
      BY <2>3, <3>1 DEF TypeOK
    <3>3. ~ crossed' => \A b \in Actors \ {a} : saving'[b] # "write"
      BY <2>3 DEF TypeOK
    <3> QED
      BY <3>2, <3>3 DEF OnItsWay
  <2> QED
    BY <1>1, <2>2, <2>3 DEF Encode
<1>2. CASE Write(a)
  <2>1. /\ UNCHANGED <<enabled, detector, known, call, text, crossed>>
        /\ saving[a] = "write" /\ saving' = [saving EXCEPT ![a] = "no"]
    BY <1>2 DEF Write, callVars
  <2>2. Current' = Current
    BY <2>1 DEF Current
  <2>3. CASE dirty' = TRUE
    BY <2>3 DEF OnItsWay
  <2>4. CASE file' = text[a] /\ UNCHANGED dirty
    <3> SUFFICES ASSUME detector, ~ dirty, ~ crossed,
                        ~ \E c \in Callers : call[c] \in {"flag", "kill"}
                 PROVE  (\A b \in Actors : saving'[b] # "write") /\ file' = Current'
      BY <2>1, <2>4 DEF OnItsWay
    <3>1. PICK b \in Actors : /\ saving[b] = "write" /\ text[b] = Current
                             /\ \A d \in Actors \ {b} : saving[d] # "write"
      BY <2>1 DEF OnItsWay
    <3>2. b = a
      BY <2>1, <3>1
    <3> QED
      BY <2>1, <2>2, <2>4, <3>1, <3>2 DEF TypeOK
  <2> QED
    BY <1>2, <2>3, <2>4 DEF Write, AfterFailure
<1> QED
  BY <1>1, <1>2 DEF Save

LEMMA OnItsWayStep == TypeOK /\ SavesThere /\ OnItsWay /\ [Next]_vars => OnItsWay'
<1> SUFFICES ASSUME TypeOK, SavesThere, OnItsWay, [Next]_vars PROVE OnItsWay'
  OBVIOUS
<1>1. ASSUME dirty' \/ ~ detector' PROVE OnItsWay'
  BY <1>1 DEF OnItsWay
<1>2. ASSUME NEW c \in Callers, Request(c) \/ Serve(c) \/ Restart(c) PROVE OnItsWay'
  <2>1. CASE Enable(c)
    <3>1. CASE dirty' = TRUE
      BY <1>1, <3>1
    <3>2. CASE dirty' # TRUE
      BY <2>1, <3>2, OnItsWayKept DEF Enable, StartRun
    <3> QED
      BY <3>1, <3>2
  <2>2. CASE Disable(c) \/ SetFlag(c)
    <3>1. call'[c] \in {"flag", "kill"}
      BY <2>2 DEF Disable, SetFlag, TypeOK
    <3> QED
      BY <3>1 DEF OnItsWay
  <2>3. CASE Kill(c)
    <3>1. dirty' = (dirty \/ detector) /\ detector' = detector
      BY <2>3 DEF Kill
    <3> QED
      BY <1>1, <3>1
  <2>4. CASE Answer(c)
    <3>1. /\ UNCHANGED <<enabled, detector, known, dirty, crossed, text, file, saving>>
          /\ call[c] = "save" /\ call' = [call EXCEPT ![c] = "idle"]
      BY <2>4 DEF Answer, memVars, saveVars
    <3>2. \A d \in Callers : call[d] \in {"flag", "kill"} => call'[d] \in {"flag", "kill"}
      BY <3>1 DEF TypeOK
    <3> QED
      BY <3>1, <3>2, OnItsWayKept
  <2>5. CASE Restart(c)
    BY <1>1, <2>5 DEF Restart, StartRun
  <2>6. CASE Save(c)
    BY <2>6, SaveOnItsWay DEF Actors
  <2> QED
    BY <1>2, <2>1, <2>2, <2>3, <2>4, <2>5, <2>6 DEF Request, Serve
<1>3. ASSUME NEW i \in Runs, Supervise(i), ~ Save(i) PROVE OnItsWay'
  <2>1. UNCHANGED <<enabled, detector, crossed, text, file, call>>
    BY <1>3 DEF Supervise, Check, ClearStale, Create, StartHelper, Publish, HandleLine, AfterLine,
                StreamEnds, StreamBreaks, RemoveHelper, Pause, memVars, callVars, saveVars
  <2>2. dirty' = TRUE \/ UNCHANGED <<known, dirty>>
    BY <1>3 DEF Supervise, Check, ClearStale, Create, StartHelper, Publish, HandleLine, AfterLine,
                StreamEnds, StreamBreaks, RemoveHelper, Pause, memVars
  <2>3. saving' = saving \/ (saving' = [saving EXCEPT ![i] = "encode"] /\ sup[i] \in {"consume", "failed"})
    BY <1>3 DEF Supervise, Check, ClearStale, Create, StartHelper, Publish, HandleLine, AfterLine,
                StreamEnds, StreamBreaks, RemoveHelper, Pause, saveVars
  <2>4. \A a \in Actors : saving[a] = "write" <=> saving'[a] = "write"
    BY <2>3 DEF SavesThere, TypeOK
  <2> QED
    BY <1>1, <2>1, <2>2, <2>4, OnItsWayKept
<1>4. ASSUME NEW i \in Runs, HelperDies(i) PROVE OnItsWay'
  BY <1>4, OnItsWayKept DEF HelperDies, memVars, callVars, saveVars
<1>5. CASE UNCHANGED vars
  BY <1>5, OnItsWayKept DEF vars, memVars, callVars, saveVars
<1>6. ASSUME NEW i \in Runs, Save(i) PROVE OnItsWay'
  BY <1>6, SaveOnItsWay DEF Actors
<1> QED
  BY <1>2, <1>3, <1>4, <1>5, <1>6 DEF Next

LEMMA InductiveStep == Inductive /\ [Next]_vars => Inductive'
  BY TypeStep, SavesThereStep, OnItsWayStep DEF Inductive

(* Inductive holds in every reachable state of enable, disable, resume and *)
(* the supervisors.                                                        *)
THEOREM InductiveInvariant == Spec => []Inductive
<1> QED
  BY InitInductive, InductiveStep, PTL DEF Spec

(* Every reachable state is of its type: a run has a supervisor exactly if *)
(* it was started, and the state file never knows more than the detector.  *)
THEOREM TypeCorrect == Spec => []TypeOK
<1>1. Inductive => TypeOK
  BY DEF Inductive
<1> QED
  BY <1>1, InductiveInvariant, PTL

(* What _save has written is what the memory holds, or the flag says that  *)
(* there is more to save; unless two saves crossed.                        *)
THEOREM SavedIsCurrent == Spec => []SavedOrDirty
<1>1. Inductive => SavedOrDirty
  BY DEF Inductive, OnItsWay, SavedOrDirty
<1> QED
  BY <1>1, InductiveInvariant, PTL

-----------------------------------------------------------------------------
(* One watcher                                                             *)

LEMMA OneLiveStep ==
  ASSUME \A c, d \in Callers : c = d, TypeOK, OneLive, [Next]_vars
  PROVE  OneLive'
<1>1. ASSUME NEW c \in Callers, Request(c) \/ Serve(c) \/ Restart(c) PROVE OneLive'
  <2>1. CASE Enable(c) /\ UNCHANGED <<run, stop, enabled, sup, call>>
    BY <2>1 DEF OneLive, Alive
  <2>2. CASE Enable(c) /\ ~ UNCHANGED <<run, stop, enabled, sup, call>>
    <3>1. /\ call[c] = "idle" /\ ~ IsOn /\ run' = run + 1 /\ run' \in Runs
          /\ enabled' = TRUE
          /\ stop' = [stop EXCEPT ![run'] = FALSE]
          /\ sup' = [sup EXCEPT ![run'] = "check"]
      <4>1. /\ call[c] = "idle" /\ ~ IsOn /\ StartRun
            /\ sup' = [sup EXCEPT ![run'] = "check"]
        BY <2>2 DEF Enable
      <4>2. run' = run + 1 /\ run' \in Runs
        BY <4>1, BoundsAssumption DEF StartRun, TypeOK, Runs
      <4> QED
        BY <4>1, <4>2 DEF StartRun
    <3>2. \A i \in Runs : Alive(i) => stop[i]
      <4> SUFFICES ASSUME NEW i \in Runs, Alive(i), ~ stop[i] PROVE FALSE
        OBVIOUS
      <4>1. i = run /\ enabled
        BY <3>1 DEF OneLive
      <4> QED
        BY <3>1, <4>1 DEF IsOn, Runs
    <3>3. \A i \in Runs : Alive(i)' /\ ~ stop'[i] => i = run'
      BY <3>1, <3>2 DEF Alive, TypeOK
    <3> QED
      BY <3>1, <3>3 DEF OneLive
  <2>3. CASE Disable(c)
    <3>1. call'[c] = "flag" /\ UNCHANGED <<run, stop, sup>>
      BY <2>3 DEF Disable, TypeOK
    <3> QED
      BY <3>1 DEF OneLive, Alive
  <2>4. CASE SetFlag(c)
    <3>1. \A i \in Runs : stop'[i] <=> stop[i] \/ i = run
      BY <2>4 DEF SetFlag, Flagged
    <3>2. UNCHANGED <<run, sup>>
      BY <2>4 DEF SetFlag
    <3> QED
      BY <3>1, <3>2 DEF OneLive, Alive
  <2>5. CASE Kill(c) \/ Answer(c) \/ Save(c)
    <3>1. UNCHANGED <<enabled, run, stop, sup>>
      BY <2>5 DEF Kill, Answer, Save, Encode, Write, memVars
    <3>2. \A d \in Callers : call[d] = "flag" => call'[d] = "flag"
      BY <2>5 DEF Kill, Answer, Save, Encode, Write, callVars, TypeOK
    <3> QED
      BY <3>1, <3>2 DEF OneLive, Alive
  <2>6. CASE Restart(c)
    <3>1. CASE file.enabled
      <4>1. /\ enabled' = TRUE /\ run' = run + 1
            /\ sup' = [i \in Runs |-> IF i <= run THEN "done" ELSE IF i = run' THEN "check" ELSE sup[i]]
        BY <2>6, <3>1 DEF Restart, StartRun
      <4>2. \A i \in Runs : Alive(i)' => i = run'
        BY <4>1 DEF Alive, TypeOK, Runs
      <4> QED
        BY <4>1, <4>2 DEF OneLive
    <3>2. CASE ~ file.enabled
      <4>1. sup' = [i \in Runs |-> IF i <= run THEN "done" ELSE sup[i]]
        BY <2>6, <3>2 DEF Restart
      <4>2. \A i \in Runs : ~ Alive(i)'
        BY <4>1 DEF Alive, TypeOK, Runs
      <4> QED
        BY <4>2 DEF OneLive
    <3> QED
      BY <3>1, <3>2
  <2> QED
    BY <1>1, <2>1, <2>2, <2>3, <2>4, <2>5, <2>6 DEF Request, Serve
<1>2. ASSUME NEW i \in Runs, Supervise(i) PROVE OneLive'
  <2>1. UNCHANGED <<enabled, run, stop, call>>
    BY <1>2, SupervisorSteps
  <2>2. \A j \in Runs : Alive(j)' => Alive(j)
    <3>1. CASE Save(i)
      BY <3>1 DEF Save, Encode, Write, Alive
    <3>2. CASE ~ Save(i)
      BY <1>2, <3>2, SupervisorSteps DEF Alive, TypeOK
    <3> QED
      BY <3>1, <3>2
  <2> QED
    BY <2>1, <2>2 DEF OneLive
<1>3. ASSUME NEW i \in Runs, HelperDies(i) PROVE OneLive'
  BY <1>3 DEF HelperDies, OneLive, Alive, memVars, callVars
<1>4. CASE UNCHANGED vars
  BY <1>4 DEF vars, OneLive, Alive, memVars, callVars
<1> QED
  BY <1>1, <1>2, <1>3, <1>4 DEF Next

(* With one request at a time, turning the watch off and on again never    *)
(* leaves two watchers, however often and wherever the older supervisor is.*)
THEOREM NeverTwo ==
  ASSUME \A c, d \in Callers : c = d
  PROVE  Spec => []OneLive
<1>1. Init => OneLive
  BY DEF Init, OneLive, Alive
<1>2. Inductive /\ OneLive /\ [Next]_vars => OneLive'
  BY OneLiveStep DEF Inductive
<1> QED
  BY <1>1, <1>2, InductiveInvariant, PTL DEF Spec
=============================================================================
