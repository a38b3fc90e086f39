----------------------------- MODULE StackBackup -----------------------------
(***************************************************************************)
(* The configuration backup (stack_backup.py).  The agent of each host     *)
(* collects the definition files of its Compose projects and pushes them   *)
(* as machines/<host> to one branch of one repository, which the agents of *)
(* other hosts push to as well.                                            *)
(*                                                                         *)
(* A run is sequential and there is one per agent: _loop is the only       *)
(* caller of run_once.  What makes it hard is outside: the branch moves    *)
(* between fetch and push, an answer gets lost, and the agent is stopped   *)
(* in the middle of a git command on a clone that survives it.             *)
(*                                                                         *)
(* The files of a project are a version number; 0 says that none of them   *)
(* can be read, and Unseen that _discover does not find the project: it    *)
(* has no container, and no Compose file under the extra directories.      *)
(* Hosts stands for the folder names: no two are the same after _sanitize. *)
(* The agents are configured.                                              *)
(***************************************************************************)
EXTENDS Integers, Sequences

CONSTANTS
  Hosts,       \* the hosts, each with an agent
  Projects,    \* the Compose projects on a host
  Disks,       \* the disks that the hosts may start with
  Attempts,    \* rounds of _sync: 5
  MaxVersion,  \* bound: versions of a project's files
  MaxEdits,    \* bound: changes of projects' files
  MaxFaults,   \* bound: network faults, git commands that hang among them
  MaxStops     \* bound: stops of an agent

ASSUME SetsAssumption == Hosts # {} /\ Projects # {}
Versions == 0..MaxVersion
Files == [Projects -> Versions]
Unseen == -1
States == Versions \cup {Unseen}
ASSUME DisksAssumption == Disks \subseteq [Hosts -> [Projects -> States]]
ASSUME BoundsAssumption ==
  /\ Attempts \in Nat \ {0}
  /\ MaxVersion \in Nat \ {0}
  /\ MaxEdits \in Nat
  /\ MaxFaults \in Nat
  /\ MaxStops \in Nat

VARIABLES
  branch,    \* the remote branch: the trees of its commits, oldest first
  disk,      \* the project files of each host
  pc,        \* where each agent's loop is
  staging,   \* what the run collected
  attempt,   \* the round of _sync
  clone,     \* how usable workdir/.git is
  fetched,   \* origin/<branch> in the clone: a position in branch
  head,      \* HEAD of the clone: its tree, and the commit of branch it is on
  outcome,   \* how the last run ended, "none" while one goes on
  bare,      \* history: hosts with a collection that discovered no project
  edits, faults, stops

vars == <<branch, disk, pc, staging, attempt, clone, fetched, head,
          outcome, bare, edits, faults, stops>>
repoVars == <<clone, fetched, head>>
envVars == <<disk, bare, edits, stops>>

NoFolder == [p \in {} |-> 0]
Trees == [Hosts -> Files \cup {NoFolder}]
Tip == branch[Len(branch)]

(* "partial" has no remote, "anonymous" no user.name yet, and "locked" an  *)
(* index.lock or shallow.lock that a killed git left.                      *)
CloneStates == {"none", "partial", "anonymous", "ready", "locked"}
Stuck(h) == clone[h] \in {"partial", "anonymous", "locked"}

Nothing == [p \in Projects |-> 0]
NoHead == [on |-> 0, tree |-> [h \in Hosts |-> NoFolder]]

Init ==
  /\ branch = <<NoHead.tree>>
  /\ disk \in Disks
  /\ pc = [h \in Hosts |-> "waiting"]
  /\ staging = [h \in Hosts |-> Nothing]
  /\ attempt = [h \in Hosts |-> 0]
  /\ clone = [h \in Hosts |-> "none"]
  /\ fetched = [h \in Hosts |-> 0]
  /\ head = [h \in Hosts |-> NoHead]
  /\ outcome = [h \in Hosts |-> "none"]
  /\ bare = {}
  /\ edits = 0 /\ faults = 0 /\ stops = 0

-----------------------------------------------------------------------------
(* The run                                                                 *)

(* The wait for _trigger is over, by a trigger or by the interval, at any  *)
(* time: _loop clears the event before the run, so a trigger that comes    *)
(* during one only makes the next come early.                              *)
Wake(h) ==
  /\ pc[h] = "waiting"
  /\ pc' = [pc EXCEPT ![h] = "collect"]
  /\ outcome' = [outcome EXCEPT ![h] = "none"]
  /\ UNCHANGED <<branch, staging, attempt, repoVars, faults, envVars>>

(* The end of run_once, with a result or an exception.                     *)
EndRun(h, result) ==
  /\ pc' = [pc EXCEPT ![h] = "waiting"]
  /\ outcome' = [outcome EXCEPT ![h] = result]
  /\ staging' = [staging EXCEPT ![h] = Nothing]
  /\ attempt' = [attempt EXCEPT ![h] = 0]

Goto(h, to) ==
  /\ pc' = [pc EXCEPT ![h] = to]
  /\ UNCHANGED <<outcome, staging, attempt>>

(* _discover, and what _collect writes of it.                              *)
Discovered(found) == {p \in Projects : found[p] # Unseen}
Folder(found) == [p \in Projects |-> IF found[p] = Unseen THEN 0 ELSE found[p]]

(* Wrong variant: nothing is checked, an unreadable host has no files.     *)
Readable_Always(found) == TRUE

(* _collect raises only if there are projects and none was written: where  *)
(* none is discovered, the folder is the inventory alone.                  *)
Readable(found) == Discovered(found) # {} => Folder(found) # Nothing

Collect(h) ==
  /\ pc[h] = "collect"
  /\ IF Readable(disk[h])
       THEN /\ pc' = [pc EXCEPT ![h] = "clone"]
            /\ staging' = [staging EXCEPT ![h] = Folder(disk[h])]
            /\ attempt' = [attempt EXCEPT ![h] = 1]
            /\ UNCHANGED outcome
       ELSE EndRun(h, "error")
  /\ bare' = IF Discovered(disk[h]) = {} THEN bare \cup {h} ELSE bare
  /\ UNCHANGED <<branch, repoVars, faults, disk, edits, stops>>

(* _ensure_clone: a .git is taken for a clone, if its remote can be set.   *)
EnsureClone(h) ==
  /\ pc[h] = "clone"
  /\ \/ /\ clone[h] = "none"
        /\ clone' = [clone EXCEPT ![h] = "anonymous"]
        /\ Goto(h, "identify")
     \/ /\ clone[h] = "partial"
        /\ EndRun(h, "error")
        /\ UNCHANGED clone
     \/ /\ clone[h] \in {"anonymous", "ready", "locked"}
        /\ Goto(h, "fetch")
        /\ UNCHANGED clone
  /\ UNCHANGED <<branch, fetched, head, faults, envVars>>

(* The two `git config` after a clone.                                     *)
Identify(h) ==
  /\ pc[h] = "identify"
  /\ clone' = [clone EXCEPT ![h] = "ready"]
  /\ Goto(h, "fetch")
  /\ UNCHANGED <<branch, fetched, head, faults, envVars>>

Fetch(h) ==
  /\ pc[h] = "fetch"
  /\ IF clone[h] = "locked"
       THEN EndRun(h, "error") /\ UNCHANGED fetched
       ELSE /\ fetched' = [fetched EXCEPT ![h] = Len(branch)]
            /\ Goto(h, "stage")
  /\ UNCHANGED <<branch, clone, head, faults, envVars>>

(* Wrong variant: a retry builds on the commit whose push failed.          *)
ResetTo_FirstRound(h) ==
  IF attempt[h] = 1 THEN [on |-> fetched[h], tree |-> branch[fetched[h]]] ELSE head[h]

(* `git reset --hard origin/<branch>`                                      *)
ResetTo(h) == [on |-> fetched[h], tree |-> branch[fetched[h]]]

Stage(h) ==
  /\ pc[h] = "stage"
  /\ head' = [head EXCEPT ![h] = ResetTo(h)]
  /\ Goto(h, "commit")
  /\ UNCHANGED <<branch, clone, fetched, faults, envVars>>

(* Wrong variant: the files are copied over the old ones (no rmtree).      *)
Index_Merged(h) ==
  [head[h].tree EXCEPT ![h] =
     IF @ = NoFolder THEN staging[h]
     ELSE [p \in Projects |-> IF staging[h][p] = 0 THEN @[p] ELSE staging[h][p]]]

(* The index after rmtree, copytree and `git add` of machines/<host>       *)
Index(h) == [head[h].tree EXCEPT ![h] = staging[h]]

(* `git diff --cached` finds nothing to commit, which is a success; or     *)
(* there is a commit, which git refuses to make for nobody.                *)
Commit(h) ==
  /\ pc[h] = "commit"
  /\ \/ /\ Index(h)[h] = head[h].tree[h]
        /\ EndRun(h, "success")
        /\ UNCHANGED head
     \/ /\ Index(h)[h] # head[h].tree[h]
        /\ clone[h] = "anonymous"
        /\ EndRun(h, "error")
        /\ UNCHANGED head
     \/ /\ Index(h)[h] # head[h].tree[h]
        /\ clone[h] # "anonymous"
        /\ head' = [head EXCEPT ![h].tree = Index(h)]
        /\ Goto(h, "push")
  /\ UNCHANGED <<branch, clone, fetched, faults, envVars>>

(* Wrong variant: one round too many.                                      *)
Retry_OneMore(h) ==
  IF attempt[h] <= Attempts
    THEN /\ pc' = [pc EXCEPT ![h] = "fetch"]
         /\ attempt' = [attempt EXCEPT ![h] = @ + 1]
         /\ UNCHANGED <<outcome, staging>>
    ELSE EndRun(h, "error")

(* After a push that failed: the next round, or the end of the rounds.     *)
Retry(h) ==
  IF attempt[h] < Attempts
    THEN /\ pc' = [pc EXCEPT ![h] = "fetch"]
         /\ attempt' = [attempt EXCEPT ![h] = @ + 1]
         /\ UNCHANGED <<outcome, staging>>
    ELSE EndRun(h, "error")

(* Wrong variant: `git push --force`.                                      *)
Accepts_Forced(h) == TRUE

(* A plain `git push` is accepted only if it extends the branch.           *)
Accepts(h) == head[h].on = Len(branch)

Fault == faults < MaxFaults /\ faults' = faults + 1

Push(h) ==
  /\ pc[h] = "push"
  /\ \/ /\ Accepts(h)
        /\ branch' = Append(branch, head[h].tree)
        /\ \/ EndRun(h, "success") /\ UNCHANGED faults
           \/ Retry(h) /\ Fault
     \/ /\ ~ Accepts(h)
        /\ Retry(h)
        /\ UNCHANGED <<branch, faults>>
     \/ Retry(h) /\ Fault /\ UNCHANGED branch
  /\ UNCHANGED <<repoVars, envVars>>

(* The inventory, the clone or the fetch fails; a clone that fails removes *)
(* what it made.                                                           *)
Raises(h) ==
  /\ pc[h] \in {"collect", "clone", "fetch"}
  /\ pc[h] = "clone" => clone[h] = "none"
  /\ Fault
  /\ EndRun(h, "error")
  /\ UNCHANGED <<branch, repoVars, envVars>>

(* _git has no timeout: a clone, a fetch or a push whose connection goes   *)
(* silent does not return, and the only loop of the agent waits for it.    *)
(* The push may have been accepted.                                        *)
Hang(h) ==
  /\ \/ pc[h] = "clone" /\ clone[h] = "none" /\ Goto(h, "clone hangs") /\ UNCHANGED branch
     \/ pc[h] = "fetch" /\ clone[h] # "locked" /\ Goto(h, "fetch hangs") /\ UNCHANGED branch
     \/ /\ pc[h] = "push"
        /\ Goto(h, "push hangs")
        /\ \/ UNCHANGED branch
           \/ Accepts(h) /\ branch' = Append(branch, head[h].tree)
  /\ Fault
  /\ UNCHANGED <<repoVars, envVars>>

Run(h) ==
  \/ Wake(h) \/ Collect(h) \/ EnsureClone(h) \/ Identify(h) \/ Fetch(h)
  \/ Stage(h) \/ Commit(h) \/ Push(h) \/ Raises(h)

-----------------------------------------------------------------------------
(* Around it                                                               *)

(* A project's files change, can no longer or again be read, or it is no   *)
(* longer or again there to be discovered.                                 *)
Edit(h, p, v) ==
  /\ edits < MaxEdits /\ edits' = edits + 1
  /\ disk' = [disk EXCEPT ![h][p] = v]
  /\ UNCHANGED <<branch, pc, staging, attempt, repoVars, outcome, bare,
                 faults, stops>>

(* What a git killed in the middle leaves of the clone, which is on a      *)
(* volume.  A lock is met by the next fetch or reset.                      *)
Leaves(h) ==
  {clone[h]} \cup
    IF pc[h] \in {"clone", "clone hangs"} /\ clone[h] = "none" THEN {"partial", "anonymous"}
    ELSE IF pc[h] \in {"fetch", "fetch hangs", "stage", "commit"} THEN {"locked"}
    ELSE {}

(* The agent is stopped, rebuilt or loses power, and starts again.         *)
AgentStops(h) ==
  /\ stops < MaxStops /\ stops' = stops + 1
  /\ \E state \in Leaves(h) : clone' = [clone EXCEPT ![h] = state]
  /\ EndRun(h, "none")
  /\ UNCHANGED <<branch, disk, fetched, head, bare, edits, faults>>

Next ==
  \E h \in Hosts :
    \/ Run(h) \/ Hang(h) \/ AgentStops(h)
    \/ \E p \in Projects, v \in States : Edit(h, p, v)

Spec == Init /\ [][Next]_vars

(* The interval passes, and a git command that does not hang returns.      *)
FairSpec == Spec /\ \A h \in Hosts : WF_vars(Run(h))

-----------------------------------------------------------------------------
(* Properties                                                              *)

Locations == {"waiting", "collect", "clone", "identify", "fetch", "stage", "commit",
              "push", "clone hangs", "fetch hangs", "push hangs"}

(* The variables keep their types.                                         *)
TypeOK ==
  /\ branch \in Seq(Trees) /\ Len(branch) > 0
  /\ disk \in [Hosts -> [Projects -> States]]
  /\ pc \in [Hosts -> Locations]
  /\ staging \in [Hosts -> Files]
  /\ attempt \in [Hosts -> 0..Attempts]
  /\ clone \in [Hosts -> CloneStates]
  /\ fetched \in [Hosts -> 0..Len(branch)]
  /\ head \in [Hosts -> [on : 0..Len(branch), tree : Trees]]
  /\ outcome \in [Hosts -> {"none", "success", "error"}]
  /\ bare \subseteq Hosts
  /\ edits \in 0..MaxEdits /\ faults \in 0..MaxFaults
  /\ stops \in 0..MaxStops

(* A host whose projects are known and whose files can no longer be read   *)
(* (the mount is gone, the containers are there) does not empty its folder *)
(* on the branch.  A folder without a project's files is pushed only where *)
(* a collection discovered no project at all, which _collect takes for a   *)
(* host without any: with the containers removed and the mount gone, the   *)
(* last backup is replaced by an inventory.                                *)
NeverEmptied ==
  \A n \in 1..Len(branch), h \in Hosts : branch[n][h] = Nothing => h \in bare

(* However pushes, retries and other hosts' pushes interleave, an agent    *)
(* only adds a commit to the branch, and the commit leaves every other     *)
(* host's folder as the branch had it.                                     *)
OthersKept ==
  [][branch' # branch =>
       /\ Len(branch') = Len(branch) + 1
       /\ \A n \in 1..Len(branch) : branch'[n] = branch[n]
       /\ \E h \in Hosts : /\ pc[h] = "push"
                          /\ \A k \in Hosts \ {h} : Tip'[k] = Tip[k]]_vars

(* A run that ends in "pushed" or "no changes" found or put what it        *)
(* collected on the branch, also when the answer to a push got lost.       *)
ReportedIsThere ==
  [][\A h \in Hosts :
       pc[h] # "waiting" /\ pc'[h] = "waiting" /\ outcome'[h] = "success" =>
         \E n \in fetched[h]..Len(branch') : branch'[n][h] = staging[h]]_vars

Current(h) ==
  \/ Discovered(disk[h]) # {} /\ Folder(disk[h]) = Nothing
  \/ Tip[h] = Folder(disk[h])

Hung(h) == pc[h] \in {"clone hangs", "fetch hangs", "push hangs"}

(* Once nothing changes any more, the branch gets to what is on the disk,  *)
(* whatever failed or was pushed before; unless the agent waits for a git  *)
(* that hangs (only a stop ends that), or was stopped in the middle of     *)
(* git, which can spoil the clone (AlwaysSettles).                         *)
Settles == \A h \in Hosts : <>[](Stuck(h) \/ Hung(h) \/ Current(h))

(* "Every BACKUP_INTERVAL_HOURS the agent ... pushes machines/<HOST_NAME>/ *)
(* to a private GitHub repository": the same, in spite of a stop.          *)
AlwaysSettles == \A h \in Hosts : <>[]Current(h)

-----------------------------------------------------------------------------
(* The inductive invariant                                                 *)

(* What HEAD is while it is being made into the commit that is pushed.     *)
Building ==
  \A h \in Hosts :
    /\ pc[h] \in {"stage", "commit", "push"} => fetched[h] > 0
    /\ pc[h] \in {"commit", "push"} => head[h].on = fetched[h]
    /\ pc[h] = "commit" => head[h].tree = branch[fetched[h]]
    /\ pc[h] = "push" =>
         head[h].tree = [branch[fetched[h]] EXCEPT ![h] = staging[h]]

(* Only a collection with something in it gets to git, or one that had     *)
(* nothing to look for.                                                    *)
Collected ==
  \A h \in Hosts :
    pc[h] \notin {"waiting", "collect"} => staging[h] # Nothing \/ h \in bare

Inductive == TypeOK /\ Building /\ Collected /\ NeverEmptied
=============================================================================
