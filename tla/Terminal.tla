------------------------------ MODULE Terminal ------------------------------
(***************************************************************************)
(* Shells over a websocket (terminal.py): coroutines of one event loop     *)
(* that count the sessions under a thread lock, open an exec, in a helper  *)
(* container for a shell on the host, pump both ways, and tear down.       *)
(*                                                                         *)
(* A session that is refused sends its refusal while it holds the lock.    *)
(* If the send has to wait, the next coroutine that wants the lock blocks  *)
(* the loop, and with it the one that would release it: nothing moves any  *)
(* more.  The model has this (`stuck`).  What is typed is left out.        *)
(***************************************************************************)
EXTENDS Integers, FiniteSets

CONSTANTS
  Sessions,      \* the websockets that ask for a shell
  HostSessions,  \* those of them that want one on the host
  MaxSessions,   \* MAX_SESSIONS
  MaxRestarts    \* bound: restarts of the agent

TerminalSane == IsFiniteSet(Sessions) /\ {MaxSessions, MaxRestarts} \subseteq Nat

VARIABLES
  active,    \* _active
  lock,      \* who holds _lock across an await
  stuck,     \* the event loop waits for that lock
  at,        \* where each session's coroutine is
  shell,     \* its process
  pid,       \* its announced pid has been read
  helper,    \* its helper container
  reading,   \* a thread is in recv on its socket
  viewer,    \* its browser tab
  missed,    \* history: the hang-up could not be sent
  restarts

terminalVars == <<active, lock, stuck, at, shell, pid, helper, reading, viewer, missed, restarts>>

None == "nobody"
Init ==
  /\ active = 0
  /\ lock = None
  /\ stuck = FALSE
  /\ at = [s \in Sessions |-> "none"]
  /\ shell = [s \in Sessions |-> "none"]
  /\ pid = [s \in Sessions |-> FALSE]
  /\ helper = [s \in Sessions |-> "none"]
  /\ reading = [s \in Sessions |-> FALSE]
  /\ viewer = [s \in Sessions |-> "none"]
  /\ missed = [s \in Sessions |-> FALSE]
  /\ restarts = 0

Goto(s, pc) == at' = [at EXCEPT ![s] = pc]
shellVars == <<shell, pid, reading, missed>>

(* `with _lock:` in a coroutine: free, or the whole loop waits.            *)
Locked(s) == lock \notin {None, s}
Blocks == stuck' = TRUE /\ UNCHANGED <<active, lock, at, shellVars, helper, viewer, restarts>>

-----------------------------------------------------------------------------
Full == active >= MaxSessions

(* serve, the count: a place is taken, or the session is refused; sending  *)
(* the refusal may have to wait.                                           *)
Arrive(s) ==
  /\ ~stuck /\ at[s] = "none" /\ viewer[s] # "gone"
  /\ IF Locked(s) THEN Blocks
     ELSE /\ viewer' = [viewer EXCEPT ![s] = "here"]
          /\ \/ ~Full /\ active' = active + 1 /\ Goto(s, "opening") /\ UNCHANGED lock
             \/ Full /\ Goto(s, "gone") /\ UNCHANGED <<active, lock>>
             \/ Full /\ lock' = s /\ Goto(s, "refusing") /\ UNCHANGED active
          /\ UNCHANGED <<stuck, shellVars, helper, restarts>>

Refused(s) ==
  /\ ~stuck /\ at[s] = "refusing"
  /\ lock' = None
  /\ Goto(s, "gone")
  /\ UNCHANGED <<active, stuck, shellVars, helper, viewer, restarts>>

(* open_host: a helper, and the exec in it; open_container: just the exec. *)
(* An exec that cannot be started takes the helper with it; if Docker does *)
(* not remove the helper, nobody tries again before the agent restarts.    *)
After(s, outcome) == helper' = [helper EXCEPT ![s] = IF @ = "there" THEN outcome ELSE @]
RemoveHelper(s) == After(s, "removed") \/ After(s, "left")

StartHelper(s) ==
  /\ ~stuck /\ at[s] = "opening" /\ s \in HostSessions /\ helper[s] = "none"
  /\ helper' = [helper EXCEPT ![s] = "there"]
  /\ UNCHANGED <<active, lock, stuck, at, shellVars, viewer, restarts>>

Open(s) ==
  /\ ~stuck /\ at[s] = "opening" /\ (s \in HostSessions => helper[s] = "there")
  /\ shell' = [shell EXCEPT ![s] = "running"]
  /\ reading' = [reading EXCEPT ![s] = TRUE]
  /\ Goto(s, "open")
  /\ UNCHANGED <<active, lock, stuck, pid, missed, helper, viewer, restarts>>

OpenFails(s) ==
  /\ ~stuck /\ at[s] = "opening"
  /\ RemoveHelper(s)
  /\ Goto(s, "release")
  /\ UNCHANGED <<active, lock, stuck, shellVars, viewer, restarts>>

(* _strip_marker: the first output holds the pid.                          *)
ReadPid(s) ==
  /\ ~stuck /\ at[s] = "open" /\ shell[s] = "running" /\ ~pid[s]
  /\ pid' = [pid EXCEPT ![s] = TRUE]
  /\ UNCHANGED <<active, lock, stuck, at, shell, reading, missed, helper, viewer, restarts>>

(* The shell exits by itself; the tab is closed.                           *)
Exit(s) ==
  /\ shell[s] = "running"
  /\ shell' = [shell EXCEPT ![s] = "ended"]
  /\ UNCHANGED <<active, lock, stuck, at, pid, reading, missed, helper, viewer, restarts>>
Leave(s) ==
  /\ viewer[s] = "here"
  /\ viewer' = [viewer EXCEPT ![s] = "gone"]
  /\ UNCHANGED <<active, lock, stuck, at, shellVars, helper, restarts>>

(* _pump: the first of the two ends, and the other is cancelled.           *)
PumpEnds(s) ==
  /\ ~stuck /\ at[s] = "open"
  /\ viewer[s] = "gone" \/ shell[s] = "ended"
  /\ reading' = [reading EXCEPT ![s] = shell[s] # "ended"]
  /\ Goto(s, "release")
  /\ UNCHANGED <<active, lock, stuck, shell, pid, missed, helper, viewer, restarts>>

(* The finally of serve: the place is given back, under the same lock.     *)
Freed == active - 1
FreePlace(s) ==
  /\ ~stuck /\ at[s] = "release"
  /\ IF Locked(s) THEN Blocks
     ELSE /\ active' = Freed
          /\ Goto(s, IF shell[s] = "none" THEN "gone" ELSE "hangup")
          /\ UNCHANGED <<lock, stuck, shellVars, helper, viewer, restarts>>

(* close: hang up on a shell that still runs, if its pid is known and the  *)
(* daemon answers, ...                                                     *)
HangUp(s) ==
  /\ ~stuck /\ at[s] = "hangup"
  /\ \/ /\ pid[s]
        /\ shell' = [shell EXCEPT ![s] = "ended"]
        /\ UNCHANGED missed
     \/ /\ missed' = [missed EXCEPT ![s] = TRUE]
        /\ UNCHANGED shell
  /\ Goto(s, "shutdown")
  /\ UNCHANGED <<active, lock, stuck, pid, reading, helper, viewer, restarts>>

(* ... wake the thread that may be in recv, and remove the helper.         *)
Awake_Not(s) == reading
Awake(s) == [reading EXCEPT ![s] = FALSE]
Shutdown(s) ==
  /\ ~stuck /\ at[s] = "shutdown"
  /\ reading' = Awake(s)
  /\ RemoveHelper(s)
  /\ Goto(s, "gone")
  /\ UNCHANGED <<active, lock, stuck, shell, pid, missed, viewer, restarts>>

(* The agent restarts: sessions end as they are, and cleanup_helpers       *)
(* removes what they leave, up to the first that Docker does not remove.   *)
Leftover == {s \in Sessions : helper[s] \in {"there", "left"}}
AgentRestart ==
  /\ restarts < MaxRestarts
  /\ restarts' = restarts + 1
  /\ active' = 0 /\ lock' = None /\ stuck' = FALSE
  /\ at' = [s \in Sessions |-> IF at[s] = "none" THEN "none" ELSE "gone"]
  /\ reading' = [s \in Sessions |-> FALSE]
  /\ \E left \in SUBSET Leftover :
       helper' = [s \in Sessions |-> IF s \in left THEN "left"
                                     ELSE IF s \in Leftover THEN "removed" ELSE helper[s]]
  /\ missed' = [s \in Sessions |-> missed[s] \/ at[s] \notin {"none", "gone"}]
  /\ UNCHANGED <<shell, pid, viewer>>

Serve(s) ==
  \/ Refused(s) \/ StartHelper(s) \/ Open(s) \/ OpenFails(s)
  \/ PumpEnds(s) \/ FreePlace(s) \/ HangUp(s) \/ Shutdown(s)
Next ==
  \/ AgentRestart
  \/ \E s \in Sessions : Arrive(s) \/ ReadPid(s) \/ Exit(s) \/ Leave(s) \/ Serve(s)

ServeSteps == \E s \in Sessions : Serve(s)
Spec == Init /\ [][Next]_terminalVars
FairSpec == Spec /\ WF_terminalVars(ServeSteps)

-----------------------------------------------------------------------------
(* Every variable has its type.                                            *)
Stages == {"none", "refusing", "opening", "open", "release", "hangup", "shutdown", "gone"}
TypeOK ==
  /\ active \in 0..MaxSessions
  /\ lock \in Sessions \cup {None}
  /\ stuck \in BOOLEAN
  /\ at \in [Sessions -> Stages]
  /\ shell \in [Sessions -> {"none", "running", "ended"}]
  /\ pid \in [Sessions -> BOOLEAN] /\ reading \in [Sessions -> BOOLEAN]
  /\ missed \in [Sessions -> BOOLEAN]
  /\ helper \in [Sessions -> {"none", "there", "removed", "left"}]
  /\ viewer \in [Sessions -> {"none", "here", "gone"}]
  /\ restarts \in 0..MaxRestarts

(* A tab that is closed, or a shell that ends, has to give its place back, *)
(* leave no thread, and have its helper removed, or at least tried: one    *)
(* that Docker would not remove is left, privileged, until the agent       *)
(* restarts.  A shell whose tab is gone is hung up on, unless its pid was  *)
(* not known or the hang-up could not be sent.  A loop that waits for its  *)
(* own lock (`stuck`) gets to none of this.                                *)
Over(s) == at[s] = "gone" \/ (at[s] # "none" /\ (viewer[s] = "gone" \/ shell[s] = "ended"))
Clean(s) == \/ stuck
            \/ /\ at[s] = "gone" /\ ~reading[s] /\ helper[s] # "there"
               /\ pid[s] => shell[s] = "ended" \/ missed[s]

(* A place is taken for exactly as long as its session is there.           *)
Placed == {s \in Sessions : at[s] \in {"opening", "open", "release"}}
PlacesCounted == active = Cardinality(Placed)

Inductive == TypeOK /\ PlacesCounted
=============================================================================
