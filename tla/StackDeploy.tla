---------------------------- MODULE StackDeploy -----------------------------
(***************************************************************************)
(* Deploying a Compose project that the dashboard sends (stack_deploy.py): *)
(* the compose file and its .env are written to the project's folder, then *)
(* `docker compose up`; and removing one: `down`, then the folder goes.    *)
(*                                                                         *)
(* Requests run in threads of their own and nothing keeps two of them off  *)
(* one project.  There is one project; a file is known by its text.  What  *)
(* the policy refuses changes nothing and is not among the requests.       *)
(***************************************************************************)
EXTENDS Integers

CONSTANTS
  Users,
  Texts, Envs,  \* compose files, and the variables that may come with one
  MaxRequests,  \* bound
  MaxFaults     \* bound: commands that fail or take too long, restarts

StackSane == {MaxRequests, MaxFaults} \subseteq Nat

None == "none"
Absent == [there |-> FALSE, text |-> None, env |-> None]

VARIABLES
  folder,   \* STACK_DIR/<name>
  running,  \* what the containers were made from, or Absent
  op,       \* the request of each user
  requests, faults,
  promised  \* history: what the last request left, if it was alone and succeeded

stackVars == <<folder, running, op, requests, faults, promised>>

NoOp == [pc |-> "idle", text |-> None, env |-> None, makes |-> Absent, alone |-> FALSE]
Unknown == [there |-> FALSE, text |-> "unknown", env |-> None]
Stack(text, env) == [there |-> TRUE, text |-> text, env |-> env]
AtWork(u) == op[u].pc # "idle"

Init ==
  /\ folder = Absent /\ running = Absent
  /\ op = [u \in Users |-> NoOp]
  /\ requests = 0 /\ faults = 0
  /\ promised = Unknown

Goto(u, pc) == op' = [op EXCEPT ![u].pc = pc]
End(u) == op' = [op EXCEPT ![u] = NoOp]
Faulty == faults < MaxFaults /\ faults' = faults + 1

\* A request that comes while another is at work is not alone, and neither is that one.
Begin(u, first) ==
  /\ ~AtWork(u) /\ requests < MaxRequests
  /\ requests' = requests + 1
  /\ LET others == {v \in Users : AtWork(v)}
     IN op' = [v \in Users |-> IF v = u THEN [first EXCEPT !.alone = others = {}]
                               ELSE [op[v] EXCEPT !.alone = FALSE]]
  /\ promised' = Unknown
  /\ UNCHANGED <<folder, running, faults>>

-----------------------------------------------------------------------------
(* deploy_stack.                                                           *)
Deploy(u) ==
  \E text \in Texts, env \in Envs \cup {None} :
    Begin(u, [NoOp EXCEPT !.pc = "mkdir", !.text = text, !.env = env])
MakeFolder(u) ==
  /\ op[u].pc = "mkdir"
  /\ folder' = [folder EXCEPT !.there = TRUE]
  /\ Goto(u, "text")
  /\ UNCHANGED <<running, requests, faults, promised>>

\* A folder that was removed meanwhile fails the request.
WriteText(u) ==
  /\ op[u].pc = "text"
  /\ IF folder.there
     THEN folder' = [folder EXCEPT !.text = op[u].text] /\ Goto(u, "env")
     ELSE End(u) /\ UNCHANGED folder
  /\ UNCHANGED <<running, requests, faults, promised>>
EnvFile_Kept(u) == IF op[u].env = None THEN folder.env ELSE op[u].env
EnvFile(u) == op[u].env   \* without variables the .env of an earlier request goes
WriteEnv(u) ==
  /\ op[u].pc = "env"
  /\ CASE folder.there -> folder' = [folder EXCEPT !.env = EnvFile(u)] /\ Goto(u, "up")
       [] ~folder.there /\ op[u].env = None -> UNCHANGED folder /\ Goto(u, "up")
       [] ~folder.there /\ op[u].env # None -> UNCHANGED folder /\ End(u)
  /\ UNCHANGED <<running, requests, faults, promised>>
StartUp(u) ==   \* compose reads both files
  /\ op[u].pc = "up"
  /\ IF folder.there /\ folder.text # None
     THEN op' = [op EXCEPT ![u].pc = "upping", ![u].makes = folder]
     ELSE End(u)
  /\ UNCHANGED <<folder, running, requests, faults, promised>>
Upped(u) ==
  /\ op[u].pc = "upping"
  /\ \/ /\ running' = op[u].makes
        /\ promised' = IF op[u].alone THEN Stack(op[u].text, op[u].env) ELSE Unknown
        /\ UNCHANGED faults
     \/ Faulty /\ running' \in {running, op[u].makes} /\ UNCHANGED promised
  /\ End(u)
  /\ UNCHANGED <<folder, requests>>

-----------------------------------------------------------------------------
(* remove_stack: the folder goes even if `down` has failed, unless it took *)
(* too long.                                                               *)
Remove(u) == Begin(u, [NoOp EXCEPT !.pc = "down"])
Down(u) ==
  /\ op[u].pc = "down"
  /\ \/ running' = Absent /\ Goto(u, "rmtree") /\ UNCHANGED faults
     \/ Faulty /\ running' \in {running, Absent}
        /\ op' = [op EXCEPT ![u].pc = "rmtree", ![u].alone = FALSE]
     \/ Faulty /\ running' \in {running, Absent} /\ End(u)
  /\ UNCHANGED <<folder, requests, promised>>
RemoveTree(u) ==
  /\ op[u].pc = "rmtree"
  /\ folder' = Absent
  /\ promised' = IF op[u].alone THEN Absent ELSE Unknown
  /\ End(u)
  /\ UNCHANGED <<running, requests, faults>>

AgentRestart ==   \* the commands are children of the agent
  /\ Faulty
  /\ op' = [u \in Users |-> NoOp]
  /\ UNCHANGED <<folder, running, requests, promised>>

Next ==
  \/ AgentRestart
  \/ \E u \in Users : \/ Deploy(u) \/ MakeFolder(u) \/ WriteText(u) \/ WriteEnv(u)
                      \/ StartUp(u) \/ Upped(u) \/ Remove(u) \/ Down(u) \/ RemoveTree(u)

-----------------------------------------------------------------------------
Stacks == [there : BOOLEAN, text : Texts \cup {None}, env : Envs \cup {None}]
Ops == [pc : {"idle", "mkdir", "text", "env", "up", "upping", "down", "rmtree"},
        text : Texts \cup {None}, env : Envs \cup {None}, makes : Stacks, alone : BOOLEAN]
TypeOK ==
  /\ folder \in Stacks /\ running \in Stacks
  /\ requests \in 0..MaxRequests /\ faults \in 0..MaxFaults
  /\ op \in [Users -> Ops]

(* After a request that succeeded and that no other one overlapped, the    *)
(* project runs exactly what it sent, and its folder holds that, whatever  *)
(* earlier requests that crossed, failed or were cut off had left there.   *)
StackAsAsked == promised # Unknown => running = promised /\ folder = promised

(* What a request that is alone has got done.                              *)
SoFar(u) ==
  /\ op[u].pc \in {"text", "env", "up", "upping"} => folder.there
  /\ op[u].pc \in {"env", "up", "upping"} => folder.text = op[u].text
  /\ op[u].pc \in {"up", "upping"} => folder.env = op[u].env
  /\ op[u].pc = "upping" => op[u].makes = folder
  /\ op[u].pc = "rmtree" => running = Absent
Inductive ==
  /\ TypeOK /\ StackAsAsked
  /\ promised # Unknown => \A u \in Users : ~AtWork(u)
  /\ \A u \in Users : AtWork(u) /\ op[u].alone =>
       SoFar(u) /\ \A v \in Users \ {u} : ~AtWork(v)
=============================================================================
