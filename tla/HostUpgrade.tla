---------------------------- MODULE HostUpgrade -----------------------------
(***************************************************************************)
(* Upgrading the host's packages (host_control.py): a helper starts a      *)
(* transient systemd unit, which the agent and the Docker daemon may both  *)
(* be restarted under; what the agent knows of it are the facts, which it  *)
(* gathers now and then, and the unit's log.                               *)
(*                                                                         *)
(* A script in a helper is one step for each thing it does on the host.    *)
(* systemd refuses a unit whose name is taken.  Left out: the other facts, *)
(* the package lists, services, the journal and the power switch.          *)
(***************************************************************************)
EXTENDS Integers

CONSTANTS
  Askers,
  Loop,        \* the background loop, beside the askers
  MaxRuns,     \* bound: upgrades
  MaxMishaps   \* bound: helpers that fail, upgrades that are killed, restarts of the agent

UpgradeSane == {MaxRuns, MaxMishaps} \subseteq Nat

Callers == Askers \cup {Loop}
NoLog == -1

VARIABLES
  unit,      \* the unit on the host: absent, or how far it is
  newest,    \* the upgrades so far
  worked,    \* history: the newest whose shell came to its log
  log,       \* UPGRADE_LOG: the upgrade whose exit code is its last line, 0 for none
  facts,     \* _facts: nothing yet, or whether an upgrade runs
  pc,
  saw,       \* what a request has read: is the unit active; history: the upgrade at work then,
             \* or the newest that came to its log; and the exit code that it answered
  orphan,    \* the callers whose helper outlived the agent
  mishaps

upgradeVars == <<unit, newest, log, facts, pc, saw, orphan, mishaps, worked>>

Nothing == [active |-> FALSE, newest |-> 0, exit |-> 0]

Init ==
  /\ unit = "absent" /\ newest = 0 /\ worked = 0 /\ log = NoLog
  /\ facts = "none"
  /\ pc = [c \in Callers |-> "idle"]
  /\ saw = [c \in Callers |-> Nothing]
  /\ orphan = {}
  /\ mishaps = 0

Active == unit # "absent"
Goto(c, to) == pc' = [pc EXCEPT ![c] = to]
Look(c) == saw' = [saw EXCEPT ![c] = [active |-> Active, newest |-> IF Active THEN newest ELSE worked, exit |-> 0]]
Forget(c) == saw' = [saw EXCEPT ![c] = Nothing]
Mishap == mishaps < MaxMishaps /\ mishaps' = mishaps + 1
hostVars == <<unit, newest, worked, log>>

-----------------------------------------------------------------------------
(* The unit: its shell empties the log, works, and adds the exit code.     *)
Empty ==
  /\ unit = "begun"
  /\ unit' = "working" /\ log' = 0 /\ worked' = newest
  /\ UNCHANGED <<newest, facts, pc, saw, orphan, mishaps>>
WriteExit ==
  /\ unit = "working"
  /\ unit' = "ending" /\ log' = newest
  /\ UNCHANGED <<newest, worked, facts, pc, saw, orphan, mishaps>>
Collected ==   \* --collect
  /\ unit = "ending"
  /\ unit' = "absent"
  /\ UNCHANGED <<newest, worked, log, facts, pc, saw, orphan, mishaps>>
Killed ==      \* somebody stops it, or the host goes down
  /\ unit \in {"begun", "working"} /\ Mishap
  /\ unit' = "absent"
  /\ UNCHANGED <<newest, worked, log, facts, pc, saw, orphan>>

-----------------------------------------------------------------------------
(* start_upgrade.                                                          *)
Ask(c) ==
  /\ c \in Askers /\ pc[c] = "idle" /\ facts # "upgrading" /\ newest < MaxRuns
  /\ Goto(c, "rm")
  /\ UNCHANGED <<hostVars, facts, saw, orphan, mishaps>>
RemoveLog(c) ==
  /\ pc[c] = "rm"
  /\ log' = NoLog
  /\ Goto(c, "run")
  /\ UNCHANGED <<unit, newest, worked, facts, saw, orphan, mishaps>>
RunUnit(c) ==
  /\ pc[c] = "run" /\ (Active \/ newest < MaxRuns)
  /\ IF Active
     THEN Goto(c, "idle") /\ UNCHANGED <<unit, newest>>
     ELSE /\ unit' = "begun" /\ newest' = newest + 1
          /\ Goto(c, IF c \in orphan THEN "idle" ELSE "mark")
  /\ orphan' = orphan \ {c}
  /\ UNCHANGED <<worked, log, facts, saw, mishaps>>
Mark(c) ==
  /\ pc[c] = "mark"
  /\ facts' = "upgrading"
  /\ Goto(c, "idle")
  /\ UNCHANGED <<hostVars, saw, orphan, mishaps>>

(* upgrade_status: the unit's state, and then its log.                     *)
AskStatus(c) ==
  /\ c \in Askers /\ pc[c] = "idle"
  /\ Look(c)
  /\ Goto(c, "tail")
  /\ UNCHANGED <<hostVars, facts, orphan, mishaps>>
Exit_OfTheLog(c) == IF log > 0 THEN log ELSE 0
Exit(c) == IF log > 0 /\ ~saw[c].active THEN log ELSE 0
Tail(c) ==
  /\ pc[c] = "tail"
  /\ IF Exit(c) = 0 THEN Forget(c) ELSE saw' = [saw EXCEPT ![c].exit = Exit(c)]
  /\ Goto(c, IF saw[c].active THEN "idle" ELSE "gather")
  /\ UNCHANGED <<hostVars, facts, orphan, mishaps>>

(* refresh_facts, by the loop or after a status.                           *)
Wake ==
  /\ pc[Loop] = "idle"
  /\ Goto(Loop, "gather")
  /\ UNCHANGED <<hostVars, facts, saw, orphan, mishaps>>
Gather(c) ==
  /\ pc[c] = "gather"
  /\ Look(c)
  /\ Goto(c, "publish")
  /\ UNCHANGED <<hostVars, facts, orphan, mishaps>>
Facts_Added(c) == IF saw[c].active \/ facts = "upgrading" THEN "upgrading" ELSE "idle"
Facts(c) == IF saw[c].active THEN "upgrading" ELSE "idle"
Publish(c) ==
  /\ pc[c] = "publish"
  /\ facts' = Facts(c)
  /\ Goto(c, "idle") /\ Forget(c)
  /\ UNCHANGED <<hostVars, orphan, mishaps>>

\* A helper that takes too long is removed, wherever its script is.
HelperFails(c) ==
  /\ pc[c] \in {"rm", "run", "mark", "tail", "gather", "publish"} /\ c \notin orphan
  /\ Mishap
  /\ Goto(c, "idle") /\ Forget(c)
  /\ UNCHANGED <<hostVars, facts, orphan>>

AgentRestart ==   \* scripts go on, and nobody waits for them
  /\ Mishap
  /\ facts' = "none"
  /\ orphan' = {c \in Callers : pc[c] \in {"rm", "run"}}
  /\ pc' = [c \in Callers |-> IF c \in orphan' THEN pc[c] ELSE "idle"]
  /\ saw' = [c \in Callers |-> Nothing]
  /\ UNCHANGED hostVars

LoopSteps == Wake \/ Gather(Loop) \/ Publish(Loop)
Next ==
  \/ Empty \/ WriteExit \/ Collected \/ Killed \/ LoopSteps \/ AgentRestart
  \/ \E c \in Callers :
       \/ Ask(c) \/ RemoveLog(c) \/ RunUnit(c) \/ Mark(c) \/ AskStatus(c) \/ Tail(c)
       \/ Gather(c) \/ Publish(c) \/ HelperFails(c)

-----------------------------------------------------------------------------
TypeOK ==
  /\ unit \in {"absent", "begun", "working", "ending"}
  /\ newest \in 0..MaxRuns /\ worked \in 0..MaxRuns /\ log \in NoLog..MaxRuns
  /\ facts \in {"none", "idle", "upgrading"}
  /\ pc \in [Callers -> {"idle", "rm", "run", "mark", "tail", "gather", "publish"}]
  /\ orphan \subseteq Callers
  /\ saw \in [Callers -> [active : BOOLEAN, newest : 0..MaxRuns, exit : 0..MaxRuns]]

(* An exit code that is reported is that of the newest upgrade whose shell *)
(* had come to its log when it was asked for, or of a later one, also when *)
(* starts crossed, the agent was restarted or an upgrade was killed: while *)
(* one has only begun, none of an earlier.  (One that is killed before it  *)
(* comes to its log leaves there what was, by crossed starts an exit code  *)
(* of the one before.)                                                     *)
ExitIsOfNewest == \A c \in Callers : saw[c].exit = 0 \/ saw[c].exit >= saw[c].newest

(* What makes it so: an exit code in the log is of the newest upgrade that *)
(* came to it, and who saw no unit at work reads none that is older.       *)
LogOfNewest == /\ log \in {NoLog, 0, worked}
               /\ unit \in {"working", "ending"} => worked = newest
SeenFirst == \A c \in Callers : ~saw[c].active => saw[c].newest <= worked
Inductive == TypeOK /\ worked <= newest /\ LogOfNewest /\ SeenFirst /\ ExitIsOfNewest

(* New upgrades are refused although none runs: the facts have to notice.  *)
RefusedForNothing == facts = "upgrading" /\ ~Active
=============================================================================
