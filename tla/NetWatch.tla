------------------------------ MODULE NetWatch ------------------------------
(***************************************************************************)
(* The network watch (netwatch.py): requests turn it on and off, a         *)
(* supervisor thread per run keeps a helper container alive, and what is   *)
(* learnt and whether the watch is on are kept in a state file.            *)
(*                                                                         *)
(* Every enable starts a run with a stop flag of its own.  The supervisor  *)
(* of an older run may still be winding down, or be in the middle of a     *)
(* launch, while the next run is starting.                                 *)
(*                                                                         *)
(* What the detector knows is a number that grows.  What snapshot()        *)
(* reports of the state is left out: nothing in the program reads it.      *)
(***************************************************************************)
EXTENDS Integers, FiniteSets

CONSTANTS
  Callers,      \* the threads that serve requests
  MaxRuns,      \* bound: runs
  MaxRequests,  \* bound: requests
  MaxLearnt,    \* bound: what can be learnt
  MaxFaults,    \* bound: helpers that die and calls that raise
  MaxLeft,      \* bound: helpers that Docker refuses to remove at one time
  MaxRestarts   \* bound: restarts of the agent

ASSUME CallersAssumption == Callers # {} /\ Callers \cap Int = {}
ASSUME BoundsAssumption ==
  /\ MaxRuns \in Nat
  /\ MaxRequests \in Nat
  /\ MaxLearnt \in Nat
  /\ MaxFaults \in Nat
  /\ MaxLeft \in Nat
  /\ MaxRestarts \in Nat

Runs == 1..MaxRuns
Actors == Runs \cup Callers

VARIABLES
  enabled,   \* _enabled
  detector,  \* there is a _detector
  known,     \* what it knows
  dirty,     \* its flag: there is something to save
  run,       \* the newest run: the one of _stop and _thread, or 0
  stop,      \* the stop flag of each run
  sup,       \* where the supervisor of each run is
  helper,    \* the helper container of each run
  orphan,    \* a helper that no thread knows is still there
  left,      \* history: the helpers left behind, 0 for orphans: Docker refused
             \* to remove them, or their output broke off
  pointer,   \* _container, as its run; 0 for one that is removed or none
  call,      \* where each request is
  target,    \* disable's local `container`, likewise
  saving,    \* where each thread's _save is
  text,      \* its local `text`
  file,      \* the state file
  crossed,   \* history: a save overlapped another, and none has been alone since
  requests, faults, restarts

vars == <<enabled, detector, known, dirty, run, stop, sup, helper, orphan, left, pointer,
          call, target, saving, text, file, crossed, requests, faults, restarts>>
memVars == <<enabled, detector, known, dirty, run, stop>>
callVars == <<call, target, requests>>
saveVars == <<saving, text, file, crossed>>
boxVars == <<helper, orphan, left, pointer>>

Content == [enabled : BOOLEAN, known : 0..MaxLearnt]
Current == [enabled |-> enabled, known |-> known]
NoContent == [enabled |-> FALSE, known |-> 0]

Alive(i) == sup[i] \notin {"unborn", "done"}

Init ==
  /\ enabled = FALSE /\ detector = FALSE /\ known = 0 /\ dirty = FALSE
  /\ run = 0
  /\ stop = [i \in Runs |-> FALSE]
  /\ sup = [i \in Runs |-> "unborn"]
  /\ helper = [i \in Runs |-> "none"]
  /\ orphan = FALSE /\ left = {} /\ pointer = 0
  /\ call = [c \in Callers |-> "idle"]
  /\ target = [c \in Callers |-> 0]
  /\ saving = [a \in Actors |-> "no"]
  /\ text = [a \in Actors |-> NoContent]
  /\ file = NoContent
  /\ crossed = FALSE
  /\ requests = 0 /\ faults = 0 /\ restarts = 0

Fault == faults < MaxFaults /\ faults' = faults + 1

-----------------------------------------------------------------------------
(* Saving                                                                  *)

(* _save, under the lock: a request always saves, a supervisor if there is *)
(* something to save and the last time is long ago.                        *)
Encode(a) ==
  /\ saving[a] = "encode"
  /\ \/ /\ detector
        /\ a \in Callers \/ dirty
        /\ text' = [text EXCEPT ![a] = Current]
        /\ dirty' = FALSE
        /\ saving' = [saving EXCEPT ![a] = "write"]
        /\ crossed' = (\E b \in Actors \ {a} : saving[b] = "write")
     \/ /\ a \in Runs \/ ~ detector
        /\ saving' = [saving EXCEPT ![a] = "no"]
        /\ UNCHANGED <<text, dirty, crossed>>
  /\ UNCHANGED <<enabled, detector, known, run, stop, sup, boxVars, callVars, file, faults,
                 restarts>>

(* Wrong variant: a save that failed is forgotten.                         *)
AfterFailure_Clean == dirty

(* The flag after an OSError: there is something to save again.            *)
AfterFailure == TRUE

(* _save, outside the lock: the .tmp file and its rename.                  *)
Write(a) ==
  /\ saving[a] = "write"
  /\ saving' = [saving EXCEPT ![a] = "no"]
  /\ \/ file' = text[a] /\ UNCHANGED <<dirty, faults>>
     \/ Fault /\ dirty' = AfterFailure /\ UNCHANGED file
  /\ UNCHANGED <<enabled, detector, known, run, stop, sup, boxVars, callVars, text, crossed,
                 restarts>>

Save(a) == Encode(a) \/ Write(a)

-----------------------------------------------------------------------------
(* Requests                                                                *)

(* enable has nothing to do.                                               *)
IsOn == enabled /\ run > 0 /\ Alive(run)

(* Wrong variant: one flag for all runs, which enable clears.              *)
StartRun_OneFlag ==
  /\ run < MaxRuns
  /\ run' = run + 1
  /\ stop' = [i \in Runs |-> FALSE]
  /\ enabled' = TRUE /\ detector' = TRUE /\ dirty' = TRUE

(* A new run with a stop flag of its own; there is a detector from now on. *)
StartRun ==
  /\ run < MaxRuns
  /\ run' = run + 1
  /\ stop' = [stop EXCEPT ![run'] = FALSE]
  /\ enabled' = TRUE /\ detector' = TRUE /\ dirty' = TRUE

(* enable, up to its save: one section under the lock.                     *)
Enable(c) ==
  /\ call[c] = "idle"
  /\ requests < MaxRequests /\ requests' = requests + 1
  /\ \/ IsOn /\ UNCHANGED <<run, stop, enabled, detector, dirty, sup, call, saving>>
     \/ /\ ~ IsOn
        /\ StartRun
        /\ sup' = [sup EXCEPT ![run'] = "check"]
        /\ call' = [call EXCEPT ![c] = "save"]
        /\ saving' = [saving EXCEPT ![c] = "encode"]
  /\ UNCHANGED <<known, boxVars, target, text, file, crossed, faults, restarts>>

(* disable, in the order of its steps: the lock is let go between them.    *)
Disable(c) ==
  /\ call[c] = "idle"
  /\ requests < MaxRequests /\ requests' = requests + 1
  /\ enabled' = FALSE
  /\ target' = [target EXCEPT ![c] = pointer]
  /\ call' = [call EXCEPT ![c] = "flag"]
  /\ UNCHANGED <<detector, known, dirty, run, stop, sup, boxVars, saveVars, faults, restarts>>

(* Wrong variant: disable relies on the kill alone.                        *)
Flagged_Not == stop

(* `_stop.set()`: the flag of the run that is the newest by now.           *)
Flagged == [i \in Runs |-> stop[i] \/ i = run]

SetFlag(c) ==
  /\ call[c] = "flag"
  /\ stop' = Flagged
  /\ call' = [call EXCEPT ![c] = "kill"]
  /\ UNCHANGED <<enabled, detector, known, dirty, run, sup, boxVars, target, requests,
                 saveVars, faults, restarts>>

(* The kill does nothing if that container is gone, and may fail unheard.  *)
Kill(c) ==
  /\ call[c] = "kill"
  /\ \/ helper' = [i \in Runs |-> IF i = target[c] /\ helper[i] = "running"
                                    THEN "exited" ELSE helper[i]]
     \/ UNCHANGED helper
  /\ call' = [call EXCEPT ![c] = "save"]
  /\ dirty' = (dirty \/ detector)
  /\ saving' = [saving EXCEPT ![c] = "encode"]
  /\ target' = [target EXCEPT ![c] = 0]
  /\ UNCHANGED <<enabled, detector, known, run, stop, sup, orphan, left, pointer, requests,
                 text, file, crossed, faults, restarts>>

(* The answer, after the save.                                             *)
Answer(c) ==
  /\ call[c] = "save" /\ saving[c] = "no"
  /\ call' = [call EXCEPT ![c] = "idle"]
  /\ UNCHANGED <<memVars, sup, boxVars, target, requests, saveVars, faults, restarts>>

Request(c) == Enable(c) \/ Disable(c)
Serve(c) == SetFlag(c) \/ Kill(c) \/ Answer(c) \/ Save(c)

-----------------------------------------------------------------------------
(* The supervisor of run i                                                 *)

Goto(i, to) == sup' = [sup EXCEPT ![i] = to]

(* Nobody can do anything any more to what these runs had.                 *)
Forgotten(runs) ==
  /\ pointer' = IF pointer \in runs THEN 0 ELSE pointer
  /\ target' = [c \in Callers |-> IF target[c] \in runs THEN 0 ELSE target[c]]

Removed(runs) ==
  /\ helper' = [j \in Runs |-> IF j \in runs THEN "none" ELSE helper[j]]
  /\ left' = left \ runs
  /\ Forgotten(runs)

(* Wrong variant: any run that was stopped ends every run.                 *)
Stopped_Any(i) == \E j \in Runs : stop[j]

Stopped(i) == stop[i]

(* The head of the loop, up to the gateway: reading the routes can fail.   *)
Check(i) ==
  /\ sup[i] = "check" /\ saving[i] = "no"
  /\ \/ Stopped(i) /\ Goto(i, "done") /\ UNCHANGED faults
     \/ ~ Stopped(i) /\ Goto(i, "clear") /\ UNCHANGED faults
     \/ ~ Stopped(i) /\ Goto(i, "failed") /\ Fault
  /\ UNCHANGED <<memVars, boxVars, callVars, saveVars, restarts>>

(* What carries the label, the orphans as 0.                               *)
Labelled == {j \in Runs : helper[j] # "none"} \cup {j \in {0} : orphan}

(* _clear_stale: whatever carries the label, also the helper that another  *)
(* supervisor has just made; a removal that fails is passed over.          *)
ClearStale(i) ==
  /\ sup[i] = "clear"
  /\ \E kept \in SUBSET Labelled :
       /\ helper' = [j \in Runs |-> IF j \in kept THEN helper[j] ELSE "none"]
       /\ orphan' = (0 \in kept)
       /\ left' = kept /\ Cardinality(kept) <= MaxLeft
       /\ Forgotten(Runs \ kept)
  /\ Goto(i, "create")
  /\ UNCHANGED <<memVars, call, requests, saveVars, faults, restarts>>

(* What the run still has of an earlier round becomes an orphan.           *)
Create(i) ==
  /\ sup[i] = "create"
  /\ \/ /\ helper' = [helper EXCEPT ![i] = "created"]
        /\ IF helper[i] = "none"
             THEN UNCHANGED <<orphan, left, pointer, target>>
             ELSE /\ orphan' = TRUE
                  /\ left' = (left \ {i}) \cup {0}
                  /\ Forgotten({i})
        /\ Goto(i, "start")
        /\ UNCHANGED faults
     \/ Goto(i, "failed") /\ Fault /\ UNCHANGED <<boxVars, target>>
  /\ UNCHANGED <<memVars, call, requests, saveVars, restarts>>

(* attach and start; what could not be started is removed, if it can be.   *)
StartHelper(i) ==
  /\ sup[i] = "start"
  /\ \/ /\ helper[i] = "created"
        /\ helper' = [helper EXCEPT ![i] = "running"]
        /\ Goto(i, "publish")
        /\ UNCHANGED <<left, pointer, target, faults>>
     \/ /\ helper[i] = "none"
        /\ Goto(i, "failed")
        /\ UNCHANGED <<helper, left, pointer, target, faults>>
     \/ /\ helper[i] = "created"
        /\ \/ Removed({i})
           \/ left' = left \cup {i} /\ UNCHANGED <<helper, pointer, target>>
        /\ Goto(i, "failed") /\ Fault
  /\ UNCHANGED <<memVars, orphan, call, requests, saveVars, restarts>>

(* `_container = container`                                                *)
Publish(i) ==
  /\ sup[i] = "publish"
  /\ pointer' = IF helper[i] = "none" THEN 0 ELSE i
  /\ Goto(i, "consume")
  /\ UNCHANGED <<memVars, helper, orphan, left, callVars, saveVars, faults, restarts>>

(* handle: a line (a claim, a reply, a beat) and the save that follows it. *)
HandleLine(i) ==
  /\ sup[i] = "consume" /\ helper[i] = "running"
  /\ \/ UNCHANGED <<known, dirty>>
     \/ known < MaxLearnt /\ known' = known + 1 /\ dirty' = TRUE
  /\ saving' = [saving EXCEPT ![i] = "encode"]
  /\ Goto(i, "handled")
  /\ UNCHANGED <<enabled, detector, run, stop, boxVars, callVars, text, file, crossed,
                 faults, restarts>>

(* Only after a line does _consume look at the flag.                       *)
AfterLine(i) ==
  /\ sup[i] = "handled" /\ saving[i] = "no"
  /\ Goto(i, IF Stopped(i) THEN "remove" ELSE "consume")
  /\ UNCHANGED <<memVars, boxVars, callVars, saveVars, faults, restarts>>

StreamEnds(i) ==
  /\ sup[i] = "consume" /\ helper[i] # "running"
  /\ Goto(i, "remove")
  /\ UNCHANGED <<memVars, boxVars, callVars, saveVars, faults, restarts>>

(* Reading the output raises: the helper is not looked at any more.        *)
StreamBreaks(i) ==
  /\ sup[i] = "consume"
  /\ Fault
  /\ left' = IF helper[i] = "none" THEN left ELSE left \cup {i}
  /\ Goto(i, "failed")
  /\ UNCHANGED <<memVars, helper, orphan, pointer, callVars, saveVars, restarts>>

(* The removal may fail; the supervisor goes on as if it had not.          *)
RemoveHelper(i) ==
  /\ sup[i] = "remove"
  /\ \/ Removed({i})
     \/ /\ helper[i] # "none"
        /\ left' = left \cup {i} /\ Cardinality(left') <= MaxLeft
        /\ UNCHANGED <<helper, pointer, target>>
  /\ Goto(i, IF Stopped(i) THEN "done" ELSE "failed")
  /\ UNCHANGED <<memVars, orphan, call, requests, saveVars, faults, restarts>>

(* The pause after a failure: cut short by the flag, or followed by a save *)
(* and the next round.                                                     *)
Pause(i) ==
  /\ sup[i] = "failed"
  /\ \/ Stopped(i) /\ Goto(i, "done") /\ UNCHANGED saving
     \/ /\ ~ Stopped(i)
        /\ Goto(i, "check")
        /\ saving' = [saving EXCEPT ![i] = "encode"]
  /\ UNCHANGED <<memVars, boxVars, callVars, text, file, crossed, faults, restarts>>

Supervise(i) ==
  \/ Check(i) \/ ClearStale(i) \/ Create(i) \/ StartHelper(i) \/ Publish(i)
  \/ HandleLine(i) \/ AfterLine(i) \/ StreamEnds(i) \/ StreamBreaks(i)
  \/ RemoveHelper(i) \/ Pause(i) \/ Save(i)

-----------------------------------------------------------------------------
(* Around them                                                             *)

HelperDies(i) ==
  /\ helper[i] = "running"
  /\ Fault
  /\ helper' = [helper EXCEPT ![i] = "exited"]
  /\ UNCHANGED <<memVars, sup, orphan, left, pointer, callVars, saveVars, restarts>>

(* Wrong variant: a restart begins with an empty detector.                 *)
Loaded_Nothing == 0

(* What a detector made from the state file knows.                         *)
Loaded == file.known

(* The agent restarts: threads, tables and requests are gone, helpers are  *)
(* not.  resume turns the watch on again if the file says so; its save is  *)
(* made by thread c.                                                       *)
Restart(c) ==
  /\ restarts < MaxRestarts /\ restarts' = restarts + 1
  /\ known' = Loaded
  /\ orphan' = (orphan \/ \E i \in Runs : helper[i] # "none")
  /\ helper' = [i \in Runs |-> "none"] /\ left' = {} /\ pointer' = 0
  /\ target' = [d \in Callers |-> 0]
  /\ crossed' = FALSE
  /\ \/ /\ file.enabled
        /\ StartRun
        /\ sup' = [i \in Runs |-> IF i <= run THEN "done" ELSE IF i = run' THEN "check" ELSE sup[i]]
        /\ call' = [d \in Callers |-> IF d = c THEN "save" ELSE "idle"]
        /\ saving' = [a \in Actors |-> IF a = c THEN "encode" ELSE "no"]
     \/ /\ ~ file.enabled
        /\ enabled' = FALSE /\ detector' = FALSE /\ dirty' = FALSE
        /\ sup' = [i \in Runs |-> IF i <= run THEN "done" ELSE sup[i]]
        /\ call' = [d \in Callers |-> "idle"]
        /\ saving' = [a \in Actors |-> "no"]
        /\ UNCHANGED <<run, stop>>
  /\ UNCHANGED <<text, file, requests, faults>>

Next ==
  \/ \E c \in Callers : Request(c) \/ Serve(c) \/ Restart(c)
  \/ \E i \in Runs : Supervise(i) \/ HelperDies(i)

Spec == Init /\ [][Next]_vars

(* A request that was accepted is served; a supervisor's calls return, and *)
(* a helper that runs sends a beat every now and then.                     *)
FairSpec ==
  /\ Spec
  /\ \A c \in Callers : WF_vars(Serve(c))
  /\ \A i \in Runs : WF_vars(Supervise(i))

-----------------------------------------------------------------------------
(* Properties                                                              *)

Places == {"unborn", "check", "clear", "create", "start", "publish", "consume", "handled",
           "remove", "failed", "done"}

(* The variables keep their types; the future is blank, and nothing that   *)
(* is or will be in the file is unknown to the detector.                   *)
TypeOK ==
  /\ enabled \in BOOLEAN /\ detector \in BOOLEAN /\ dirty \in BOOLEAN
  /\ known \in 0..MaxLearnt
  /\ run \in 0..MaxRuns
  /\ stop \in [Runs -> BOOLEAN]
  /\ sup \in [Runs -> Places] /\ \A i \in Runs : sup[i] = "unborn" <=> i > run
  /\ helper \in [Runs -> {"none", "created", "running", "exited"}]
  /\ orphan \in BOOLEAN /\ left \subseteq {0} \cup Runs
  /\ pointer \in 0..run
  /\ call \in [Callers -> {"idle", "flag", "kill", "save"}]
  /\ target \in [Callers -> 0..run]
  /\ saving \in [Actors -> {"no", "encode", "write"}]
  /\ text \in [Actors -> Content]
  /\ file \in Content /\ file.known <= known
  /\ crossed \in BOOLEAN
  /\ requests \in 0..MaxRequests /\ faults \in 0..MaxFaults
  /\ restarts \in 0..MaxRestarts

(* Turning the watch off and on again never leaves two watchers: of the    *)
(* supervisors that live, all but the newest have been told to stop, and   *)
(* the newest one too if the watch is off and nobody is turning it off.    *)
OneLive ==
  \A i \in Runs :
    Alive(i) /\ ~ stop[i] => i = run /\ (enabled \/ \E c \in Callers : call[c] = "flag")

(* When the watch is off and no request is being served, every supervisor  *)
(* that lives has been told to stop (with one request at a time, a         *)
(* consequence of OneLive).                                                *)
OffIsTold ==
  ~ enabled /\ (\A c \in Callers : call[c] = "idle") =>
    \A i \in Runs : Alive(i) => stop[i]

(* A watch that stays off has no helper, though a disable may come in the  *)
(* middle of a launch, when there is nothing to kill yet; but for one that *)
(* was left behind: nothing removes that before the next run does, nor an  *)
(* orphan of an agent that ended in the middle of a disable.               *)
OffIsOff ==
  <>[](~ enabled) => <>[](\A i \in Runs : helper[i] = "none" \/ i \in left)

(* A watch that stays on ends up with exactly one helper, the newest run's,*)
(* whatever failed and whatever older supervisors still removed; any other *)
(* is one that Docker refused to remove.                                   *)
OnIsOn ==
  <>[]enabled =>
    <>[](/\ \E i \in Runs : i = run /\ helper[i] = "running"
         /\ Labelled \ {run} \subseteq left)

(* What the file says is what the memory says, or there is something left  *)
(* to save; unless two saves crossed, which the lock does not prevent.     *)
SavedOrDirty ==
  detector /\ ~ dirty /\ ~ crossed
    /\ (\A c \in Callers : call[c] = "idle") /\ (\A a \in Actors : saving[a] = "no")
  => file = Current

-----------------------------------------------------------------------------
(* The inductive invariant                                                 *)

(* With a clean flag, the memory is in the file or on its way there, but   *)
(* for a disable that has yet to mark what it changed.                     *)
OnItsWay ==
  detector /\ ~ dirty /\ ~ crossed =>
    \/ \E c \in Callers : call[c] \in {"flag", "kill"}
    \/ \E a \in Actors : /\ saving[a] = "write" /\ text[a] = Current
                        /\ \A b \in Actors \ {a} : saving[b] # "write"
    \/ (\A a \in Actors : saving[a] # "write") /\ file = Current

(* A text on its way has nothing that the detector does not know.          *)
TextKnown == \A a \in Actors : saving[a] = "write" => text[a].known <= known

(* A supervisor saves after a line and before a round, and waits for it.   *)
SavesThere == \A i \in Runs : saving[i] # "no" => sup[i] \in {"handled", "check"}

Inductive == TypeOK /\ TextKnown /\ SavesThere /\ OnItsWay
=============================================================================
