------------------------- MODULE StackBackup_proofs -------------------------
(***************************************************************************)
(* Proofs about StackBackup, for any hosts, projects and bounds.           *)
(*                                                                         *)
(* An agent's step changes its own clone and appends to the branch at      *)
(* most, so every conjunct of the invariant is proved for the host that    *)
(* moves, and for the others from the fact that the commits of the branch  *)
(* stay where they are.                                                    *)
(***************************************************************************)
EXTENDS StackBackup, SequenceTheorems, TLAPS

(* A fixed set of facts about the constants.                               *)
LEMMA Constants ==
  /\ Nothing \in Files /\ Nothing # NoFolder /\ NoHead.tree \in Trees
  /\ \A files \in Files : files # NoFolder
<1>1. Nothing \in Files
  BY BoundsAssumption DEF Nothing, Files, Versions
<1>2. \A files \in Files : DOMAIN files = Projects
  BY DEF Files
<1>3. DOMAIN NoFolder = {}
  BY DEF NoFolder
<1>4. NoHead.tree \in Trees
  BY DEF NoHead, Trees
<1> QED
  BY <1>1, <1>2, <1>3, <1>4, SetsAssumption

(* What is collected of the projects of a host is a folder.                *)
LEMMA FolderTyped ==
  ASSUME NEW found \in [Projects -> States]
  PROVE  Folder(found) \in Files
  BY BoundsAssumption DEF Folder, Files, States, Versions

(* A folder without any file is of a host where no project was found.      *)
LEMMA ReadableFolder ==
  ASSUME NEW found \in [Projects -> States], Readable(found), Folder(found) = Nothing
  PROVE  Discovered(found) = {}
  BY DEF Readable

LEMMA Lengths ==
  ASSUME TypeOK
  PROVE  Len(branch) \in Nat /\ Len(branch) > 0 /\ Tip \in Trees
  BY DEF TypeOK, Tip

LEMMA InitInductive == Init => Inductive
<1> SUFFICES ASSUME Init PROVE Inductive
  OBVIOUS
<1> USE Constants, BoundsAssumption, DisksAssumption
<1>1. branch \in Seq(Trees) /\ Len(branch) = 1 /\ branch[1] = NoHead.tree
  BY DEF Init
<1>2. TypeOK
  <2>1. NoHead \in [on : 0..Len(branch), tree : Trees]
    BY <1>1 DEF NoHead
  <2> QED
    BY <1>1, <2>1 DEF Init, TypeOK, Locations, CloneStates
<1>3. Building /\ Collected
  BY DEF Init, Building, Collected
<1>4. NeverEmptied
  <2>1. \A h \in Hosts : NoHead.tree[h] = NoFolder
    BY DEF NoHead
  <2>2. \A n \in 1..Len(branch) : n = 1
    BY <1>1
  <2> QED
    BY <1>1, <2>1, <2>2 DEF NeverEmptied
<1> QED
  BY <1>2, <1>3, <1>4 DEF Inductive

(* Commits stay where they are, and at most one is added: the pushed one.  *)
LEMMA BranchGrows ==
  ASSUME Inductive, [Next]_vars
  PROVE  \/ branch' = branch
         \/ \E h \in Hosts : /\ pc[h] = "push"
                             /\ head[h].on = Len(branch)
                             /\ branch' = Append(branch, head[h].tree)
<1>1. ASSUME NEW h \in Hosts, Push(h) \/ Hang(h)
      PROVE  \/ branch' = branch
             \/ /\ pc[h] = "push"
                /\ head[h].on = Len(branch)
                /\ branch' = Append(branch, head[h].tree)
  BY <1>1 DEF Push, Hang, Accepts
<1>2. ASSUME NEW h \in Hosts, Run(h), ~ Push(h)
      PROVE  branch' = branch
  BY <1>2 DEF Run, Wake, Collect, EnsureClone, Identify, Fetch, Stage, Commit, Raises
<1> QED
  BY <1>1, <1>2 DEF Next, AgentStops, Edit, vars

(* What an append does to the branch, in the terms of the invariant.       *)
LEMMA Appended ==
  ASSUME TypeOK, NEW tree \in Trees, branch' = Append(branch, tree)
  PROVE  /\ branch' \in Seq(Trees) /\ Len(branch') = Len(branch) + 1
         /\ Len(branch) \in Nat
         /\ \A n \in 1..Len(branch) : branch'[n] = branch[n]
         /\ branch'[Len(branch) + 1] = tree
  BY DEF TypeOK

(* The fields that the end of a run, a goto and a retry assign.            *)
threadOK == /\ pc \in [Hosts -> Locations]
            /\ staging \in [Hosts -> Files]
            /\ attempt \in [Hosts -> 0..Attempts]
            /\ outcome \in [Hosts -> {"none", "success", "error"}]

LEMMA EndRunTyped ==
  ASSUME TypeOK, NEW h \in Hosts, NEW r \in {"none", "success", "error"}, EndRun(h, r)
  PROVE  threadOK' /\ pc'[h] = "waiting"
<1>1. pc' \in [Hosts -> Locations] /\ pc'[h] = "waiting"
  BY DEF TypeOK, EndRun, Locations
<1>2. staging' \in [Hosts -> Files] /\ outcome' \in [Hosts -> {"none", "success", "error"}]
  BY Constants DEF TypeOK, EndRun
<1>3. attempt' \in [Hosts -> 0..Attempts]
  BY BoundsAssumption DEF TypeOK, EndRun
<1> QED
  BY <1>1, <1>2, <1>3 DEF threadOK

LEMMA GotoTyped ==
  ASSUME TypeOK, NEW h \in Hosts, NEW to \in Locations, Goto(h, to)
  PROVE  threadOK'
  BY DEF TypeOK, threadOK, Goto

LEMMA RetryTyped ==
  ASSUME TypeOK, NEW h \in Hosts, Retry(h)
  PROVE  threadOK' /\ pc'[h] \in {"waiting", "fetch"}
<1>1. CASE attempt[h] < Attempts
  <2>1. attempt[h] + 1 \in 0..Attempts
    BY <1>1, BoundsAssumption DEF TypeOK
  <2>2. attempt' \in [Hosts -> 0..Attempts]
    BY <1>1, <2>1 DEF TypeOK, Retry
  <2>3. pc' \in [Hosts -> Locations] /\ pc'[h] = "fetch"
    BY <1>1 DEF TypeOK, Retry, Locations
  <2> QED
    BY <1>1, <2>2, <2>3 DEF TypeOK, threadOK, Retry
<1>2. CASE ~ (attempt[h] < Attempts)
  BY <1>2, EndRunTyped DEF Retry
<1> QED
  BY <1>1, <1>2

(* The tree that Commit makes.                                             *)
LEMMA IndexTyped ==
  ASSUME TypeOK, NEW h \in Hosts
  PROVE  Index(h) \in Trees /\ head[h].tree \in Trees
  BY DEF TypeOK, Index, Trees

LEMMA TypeStep ==
  ASSUME Inductive, [Next]_vars
  PROVE  TypeOK'
<1> USE DEF Inductive
<1>1. ASSUME NEW h \in Hosts, Wake(h)
      PROVE  TypeOK'
  BY <1>1 DEF Wake, TypeOK, Locations, repoVars, envVars
<1>2. ASSUME NEW h \in Hosts, Collect(h)
      PROVE  TypeOK'
  <2>2. Folder(disk[h]) \in Files
    BY FolderTyped DEF TypeOK
  <2>3. bare' \subseteq Hosts
    BY <1>2 DEF Collect, TypeOK
  <2>1. threadOK'
    <3>1. CASE Readable(disk[h])
      <4>1. 1 \in 0..Attempts
        BY BoundsAssumption
      <4>2. attempt' \in [Hosts -> 0..Attempts]
        BY <1>2, <3>1, <4>1 DEF Collect, TypeOK
      <4>3. pc' \in [Hosts -> Locations] /\ staging' \in [Hosts -> Files]
        <5>1. pc' = [pc EXCEPT ![h] = "clone"]
              /\ staging' = [staging EXCEPT ![h] = Folder(disk[h])]
          BY <1>2, <3>1 DEF Collect
        <5> QED
          BY <2>2, <5>1 DEF TypeOK, Locations
      <4> QED
        BY <1>2, <3>1, <4>2, <4>3 DEF Collect, threadOK, TypeOK
    <3>2. CASE ~ Readable(disk[h])
      BY <1>2, <3>2, EndRunTyped DEF Collect
    <3> QED
      BY <3>1, <3>2
  <2> QED
    BY <1>2, <2>1, <2>3 DEF Collect, TypeOK, threadOK, repoVars
<1>3. ASSUME NEW h \in Hosts, EnsureClone(h)
      PROVE  TypeOK'
  <2>1. threadOK'
    BY <1>3, EndRunTyped, GotoTyped DEF EnsureClone, Locations
  <2> QED
    BY <1>3, <2>1 DEF EnsureClone, TypeOK, threadOK, envVars, CloneStates
<1>4. ASSUME NEW h \in Hosts, Identify(h)
      PROVE  TypeOK'
  <2>1. threadOK'
    BY <1>4, GotoTyped DEF Identify, Locations
  <2> QED
    BY <1>4, <2>1 DEF Identify, TypeOK, threadOK, envVars, CloneStates
<1>5. ASSUME NEW h \in Hosts, Fetch(h)
      PROVE  TypeOK'
  <2>1. threadOK'
    BY <1>5, EndRunTyped, GotoTyped DEF Fetch, Locations
  <2>2. Len(branch) \in 0..Len(branch)
    BY DEF TypeOK
  <2>3. fetched' \in [Hosts -> 0..Len(branch)]
    BY <1>5, <2>2 DEF Fetch, TypeOK
  <2> QED
    BY <1>5, <2>1, <2>3 DEF Fetch, TypeOK, threadOK, envVars
<1>6. ASSUME NEW h \in Hosts, Stage(h)
      PROVE  TypeOK'
  <2>1. threadOK'
    BY <1>6, GotoTyped DEF Stage, Locations
  <2>2. fetched[h] \in 1..Len(branch)
    <3>1. fetched[h] \in 0..Len(branch)
      BY DEF TypeOK
    <3>2. fetched[h] > 0
      BY <1>6 DEF Stage, Building
    <3> QED
      BY <3>1, <3>2, Lengths
  <2>3. branch[fetched[h]] \in Trees
    BY <2>2 DEF TypeOK
  <2>4. ResetTo(h) \in [on : 0..Len(branch), tree : Trees]
    BY <2>2, <2>3 DEF ResetTo, TypeOK
  <2>5. head' \in [Hosts -> [on : 0..Len(branch), tree : Trees]]
    BY <1>6, <2>4 DEF Stage, TypeOK
  <2> QED
    BY <1>6, <2>1, <2>5 DEF Stage, TypeOK, threadOK, envVars
<1>7. ASSUME NEW h \in Hosts, Commit(h)
      PROVE  TypeOK'
  <2>1. threadOK'
    BY <1>7, EndRunTyped, GotoTyped DEF Commit, Locations
  <2>2. head' \in [Hosts -> [on : 0..Len(branch), tree : Trees]]
    BY <1>7, IndexTyped DEF Commit, TypeOK
  <2> QED
    BY <1>7, <2>1, <2>2 DEF Commit, TypeOK, threadOK, envVars
<1>8. ASSUME NEW h \in Hosts, Push(h)
      PROVE  TypeOK'
  <2>1. threadOK'
    BY <1>8, EndRunTyped, RetryTyped DEF Push
  <2>2. /\ branch' \in Seq(Trees)
        /\ Len(branch') \in Nat /\ Len(branch') >= Len(branch)
    <3>1. head[h].tree \in Trees
      BY IndexTyped
    <3>2. CASE branch' = branch
      BY <3>2 DEF TypeOK
    <3>3. CASE branch' = Append(branch, head[h].tree)
      BY <3>1, <3>3, Appended
    <3> QED
      BY <1>8, <3>2, <3>3 DEF Push
  <2>3. Len(branch) \in Nat /\ 0..Len(branch) \subseteq 0..Len(branch')
    BY <2>2 DEF TypeOK
  <2>4. faults' \in 0..MaxFaults
    BY <1>8, BoundsAssumption DEF Push, Fault, TypeOK
  <2> QED
    BY <1>8, <2>1, <2>2, <2>3, <2>4 DEF Push, TypeOK, threadOK, repoVars, envVars
<1>9. ASSUME NEW h \in Hosts, Raises(h)
      PROVE  TypeOK'
  <2>1. threadOK'
    BY <1>9, EndRunTyped DEF Raises
  <2>2. faults' \in 0..MaxFaults
    BY <1>9, BoundsAssumption DEF Raises, Fault, TypeOK
  <2> QED
    BY <1>9, <2>1, <2>2 DEF Raises, TypeOK, threadOK, repoVars, envVars
<1>10. ASSUME NEW h \in Hosts, AgentStops(h)
       PROVE  TypeOK'
  <2>1. threadOK'
    BY <1>10, EndRunTyped DEF AgentStops
  <2>2. clone' \in [Hosts -> CloneStates]
    BY <1>10 DEF AgentStops, Leaves, TypeOK, CloneStates
  <2>3. stops' \in 0..MaxStops
    BY <1>10, BoundsAssumption DEF AgentStops, TypeOK
  <2> QED
    BY <1>10, <2>1, <2>2, <2>3 DEF AgentStops, TypeOK, threadOK
<1>11. ASSUME NEW h \in Hosts, NEW p \in Projects, NEW v \in States, Edit(h, p, v)
       PROVE  TypeOK'
  BY <1>11, BoundsAssumption DEF Edit, TypeOK, repoVars
<1>13. ASSUME NEW h \in Hosts, Hang(h)
       PROVE  TypeOK'
  <2>1. threadOK'
    BY <1>13, GotoTyped DEF Hang, Locations
  <2>2. /\ branch' \in Seq(Trees)
        /\ Len(branch') \in Nat /\ Len(branch') >= Len(branch)
    <3>1. head[h].tree \in Trees
      BY IndexTyped
    <3>2. CASE branch' = branch
      BY <3>2 DEF TypeOK
    <3>3. CASE branch' = Append(branch, head[h].tree)
      BY <3>1, <3>3, Appended
    <3> QED
      BY <1>13, <3>2, <3>3 DEF Hang
  <2>3. Len(branch) \in Nat /\ 0..Len(branch) \subseteq 0..Len(branch')
    BY <2>2 DEF TypeOK
  <2>4. faults' \in 0..MaxFaults
    <3>1. Fault
      BY <1>13 DEF Hang
    <3> QED
      BY <3>1, BoundsAssumption DEF Fault, TypeOK
  <2>5. UNCHANGED <<repoVars, envVars>>
    BY <1>13 DEF Hang
  <2> QED
    BY <2>1, <2>2, <2>3, <2>4, <2>5 DEF TypeOK, threadOK, repoVars, envVars
<1>12. CASE UNCHANGED vars
  BY <1>12 DEF vars, TypeOK
<1> QED
  BY <1>1, <1>2, <1>3, <1>4, <1>5, <1>6, <1>7, <1>8, <1>9, <1>10, <1>11, <1>12,
     <1>13 DEF Next, Run

LEMMA BareGrows ==
  ASSUME [Next]_vars
  PROVE  bare \subseteq bare'
<1>1. ASSUME NEW h \in Hosts, Collect(h)
      PROVE  bare \subseteq bare'
  BY <1>1 DEF Collect
<1>2. ASSUME NEW h \in Hosts, Run(h) \/ Hang(h) \/ AgentStops(h), ~ Collect(h)
      PROVE  bare' = bare
  BY <1>2 DEF Run, Wake, EnsureClone, Identify, Fetch, Stage, Commit, Push, Raises, Hang,
              AgentStops, envVars
<1>3. ASSUME NEW h \in Hosts, NEW p \in Projects, NEW v \in States, Edit(h, p, v)
      PROVE  bare' = bare
  BY <1>3 DEF Edit
<1> QED
  BY <1>1, <1>2, <1>3 DEF Next, vars

(* Where a host that is between the fetch and the push comes from.         *)
LEMMA BuildingStep ==
  ASSUME Inductive, [Next]_vars
  PROVE  Building' /\ Collected'
<1> USE DEF Inductive
<1> SUFFICES ASSUME NEW k \in Hosts
             PROVE  /\ pc'[k] \in {"stage", "commit", "push"} => fetched'[k] > 0
                    /\ pc'[k] \in {"commit", "push"} => head'[k].on = fetched'[k]
                    /\ pc'[k] = "commit" => head'[k].tree = branch'[fetched'[k]]
                    /\ pc'[k] = "push" =>
                         head'[k].tree = [branch'[fetched'[k]] EXCEPT ![k] = staging'[k]]
                    /\ pc'[k] \notin {"waiting", "collect"} =>
                         staging'[k] # Nothing \/ k \in bare'
  BY DEF Building, Collected
<1> DEFINE Filled == staging'[k] # Nothing \/ k \in bare'
<1>9. bare \subseteq bare'
  BY BareGrows
<1>1. \A n \in 1..Len(branch) : branch'[n] = branch[n]
  <2>1. CASE branch' = branch
    BY <2>1
  <2>2. ASSUME NEW h \in Hosts, branch' = Append(branch, head[h].tree)
        PROVE  \A n \in 1..Len(branch) : branch'[n] = branch[n]
    BY <2>2, IndexTyped, Appended
  <2> QED
    BY <2>1, <2>2, BranchGrows
<1>2. CASE /\ pc'[k] = pc[k] /\ staging'[k] = staging[k]
           /\ fetched'[k] = fetched[k] /\ head'[k] = head[k]
  <2>1. fetched[k] > 0 => branch'[fetched[k]] = branch[fetched[k]]
    BY <1>1 DEF TypeOK
  <2>2. /\ pc[k] \in {"stage", "commit", "push"} => fetched[k] > 0
        /\ pc[k] \in {"commit", "push"} => head[k].on = fetched[k]
    BY DEF Building
  <2>3. /\ pc[k] = "commit" => head[k].tree = branch[fetched[k]]
        /\ pc[k] = "push" => head[k].tree = [branch[fetched[k]] EXCEPT ![k] = staging[k]]
    BY DEF Building
  <2>4. pc[k] \notin {"waiting", "collect"} => staging[k] # Nothing \/ k \in bare
    BY DEF Collected
  <2>5. pc[k] \in {"commit", "push"} => branch'[fetched[k]] = branch[fetched[k]]
    BY <2>1, <2>2
  <2> HIDE DEF Inductive
  <2> QED
    BY <1>2, <1>9, <2>2, <2>3, <2>4, <2>5
<1>3. CASE pc'[k] \in {"waiting", "collect"}
  BY <1>3
<1>4. CASE /\ pc'[k] \in {"clone", "identify", "fetch", "clone hangs", "fetch hangs",
                         "push hangs"}
           /\ Filled
  BY <1>4
<1>5. CASE Fetch(k)
  <2>1. Len(branch) > 0
    BY DEF TypeOK
  <2> QED
    BY <1>5, <1>9, <2>1, EndRunTyped DEF Fetch, Goto, TypeOK, Collected
<1>6. CASE Stage(k)
  <2>1. fetched[k] \in 1..Len(branch)
    <3>1. fetched[k] \in 0..Len(branch)
      BY DEF TypeOK
    <3>2. fetched[k] > 0
      BY <1>6 DEF Stage, Building
    <3> QED
      BY <3>1, <3>2, Lengths
  <2>2. pc'[k] = "commit" /\ Filled /\ fetched'[k] = fetched[k]
    BY <1>6, <1>9 DEF Stage, Goto, TypeOK, Collected
  <2>3. head'[k] = [on |-> fetched[k], tree |-> branch[fetched[k]]]
    BY <1>6 DEF Stage, ResetTo, TypeOK
  <2>4. fetched[k] > 0 /\ branch'[fetched[k]] = branch[fetched[k]]
    BY <1>1, <2>1
  <2> QED
    BY <2>2, <2>3, <2>4
<1>7. CASE Commit(k)
  <2>1. CASE pc'[k] = "waiting"
    BY <2>1
  <2>2. CASE pc'[k] # "waiting"
    <3>1. /\ pc'[k] = "push" /\ staging'[k] = staging[k] /\ fetched'[k] = fetched[k]
          /\ head'[k] = [head[k] EXCEPT !.tree = Index(k)]
      BY <1>7, <2>2 DEF Commit, EndRun, Goto, TypeOK
    <3>2. /\ staging[k] # Nothing \/ k \in bare'
          /\ fetched[k] > 0
          /\ head[k].on = fetched[k] /\ head[k].tree = branch[fetched[k]]
      BY <1>7, <1>9 DEF Commit, Building, Collected
    <3>3. branch'[fetched[k]] = branch[fetched[k]]
      BY <1>1, <3>2, Lengths DEF TypeOK
    <3>4. head[k] \in [on : 0..Len(branch), tree : Trees]
      BY DEF TypeOK
    <3>5. head'[k].on = head[k].on /\ head'[k].tree = Index(k)
      BY <3>1, <3>4
    <3> QED
      BY <3>1, <3>2, <3>3, <3>5 DEF Index
  <2> QED
    BY <2>1, <2>2
<1>8. \/ pc'[k] \in {"waiting", "collect"}
      \/ /\ pc'[k] \in {"clone", "identify", "fetch", "clone hangs", "fetch hangs",
                         "push hangs"}
         /\ Filled
      \/ Fetch(k) \/ Stage(k) \/ Commit(k)
      \/ /\ pc'[k] = pc[k] /\ staging'[k] = staging[k]
         /\ fetched'[k] = fetched[k] /\ head'[k] = head[k]
  <2>1. ASSUME NEW h \in Hosts, Run(h) \/ Hang(h) \/ AgentStops(h), h # k
        PROVE  /\ pc'[k] = pc[k] /\ staging'[k] = staging[k]
               /\ fetched'[k] = fetched[k] /\ head'[k] = head[k]
    BY <2>1 DEF Run, Wake, Collect, EnsureClone, Identify, Fetch, Stage, Commit, Push,
                Raises, Hang, AgentStops, Retry, EndRun, Goto, TypeOK, repoVars
  <2>2. ASSUME Wake(k) \/ Raises(k) \/ AgentStops(k)
        PROVE  pc'[k] \in {"waiting", "collect"}
    BY <2>2 DEF Wake, Raises, AgentStops, EndRun, TypeOK
  <2>3. ASSUME Collect(k)
        PROVE  \/ pc'[k] = "waiting"
               \/ pc'[k] = "clone" /\ Filled
    <3>1. CASE Readable(disk[k])
      <4>1. disk[k] \in [Projects -> States]
        BY DEF TypeOK
      <4>2. Folder(disk[k]) = Nothing => k \in bare'
        BY <2>3, <3>1, <4>1, ReadableFolder DEF Collect
      <4> QED
        BY <2>3, <3>1, <4>2 DEF Collect, TypeOK
    <3>2. CASE ~ Readable(disk[k])
      BY <2>3, <3>2 DEF Collect, EndRun, TypeOK
    <3> QED
      BY <3>1, <3>2
  <2>6. ASSUME EnsureClone(k) \/ Identify(k)
        PROVE  \/ pc'[k] = "waiting"
               \/ pc'[k] \in {"clone", "identify", "fetch"} /\ Filled
    BY <1>9, <2>6 DEF EnsureClone, Identify, EndRun, Goto, TypeOK, Collected
  <2>4. ASSUME Push(k)
        PROVE  \/ pc'[k] = "waiting"
               \/ pc'[k] = "fetch" /\ Filled
    BY <1>9, <2>4 DEF Push, Retry, EndRun, TypeOK, Collected
  <2>7. ASSUME Hang(k)
        PROVE  pc'[k] \in {"clone hangs", "fetch hangs", "push hangs"} /\ Filled
    BY <1>9, <2>7 DEF Hang, Goto, TypeOK, Collected
  <2>5. ASSUME NEW h \in Hosts, NEW p \in Projects, NEW v \in States, Edit(h, p, v)
        PROVE  /\ pc'[k] = pc[k] /\ staging'[k] = staging[k]
               /\ fetched'[k] = fetched[k] /\ head'[k] = head[k]
    BY <2>5 DEF Edit, repoVars
  <2> QED
    BY <2>1, <2>2, <2>3, <2>4, <2>5, <2>6, <2>7 DEF Next, Run, vars
<1> QED
  BY <1>2, <1>3, <1>4, <1>5, <1>6, <1>7, <1>8

(* A push adds the tip's tree with what the host collected in its folder.  *)
LEMMA PushedTree ==
  ASSUME Inductive, NEW h \in Hosts, pc[h] = "push", head[h].on = Len(branch)
  PROVE  head[h].tree = [Tip EXCEPT ![h] = staging[h]]
  BY DEF Inductive, Building, Tip

LEMMA EmptiedStep ==
  ASSUME Inductive, [Next]_vars
  PROVE  NeverEmptied'
<1> USE DEF Inductive
<1>3. bare \subseteq bare'
  BY BareGrows
<1>1. CASE branch' = branch
  BY <1>1, <1>3 DEF NeverEmptied
<1>2. ASSUME NEW h \in Hosts, pc[h] = "push", head[h].on = Len(branch),
             branch' = Append(branch, head[h].tree)
      PROVE  NeverEmptied'
  <2> DEFINE tree == head[h].tree
  <2>1. /\ Len(branch') = Len(branch) + 1 /\ Len(branch) \in Nat
        /\ \A n \in 1..Len(branch) : branch'[n] = branch[n]
        /\ branch'[Len(branch) + 1] = tree
    BY <1>2, IndexTyped, Appended
  <2>2. \A k \in Hosts : tree[k] = Nothing => k \in bare
    <3>1. \A k \in Hosts : Tip[k] = Nothing => k \in bare
      BY Lengths DEF NeverEmptied, Tip
    <3>2. staging[h] = Nothing => h \in bare
      BY <1>2 DEF Collected
    <3>3. tree = [Tip EXCEPT ![h] = staging[h]] /\ Tip \in Trees
      BY <1>2, PushedTree, Lengths
    <3> QED
      BY <3>1, <3>2, <3>3 DEF Trees
  <2>3. \A n \in 1..Len(branch') : n \in 1..Len(branch) \/ n = Len(branch) + 1
    BY <2>1
  <2> QED
    BY <1>3, <2>1, <2>2, <2>3 DEF NeverEmptied
<1> QED
  BY <1>1, <1>2, BranchGrows

LEMMA NextInductive == Inductive /\ [Next]_vars => Inductive'
  BY TypeStep, BuildingStep, EmptiedStep DEF Inductive

(* The invariant that the theorems below are read off from.                *)
THEOREM InductiveInvariant == Spec => []Inductive
  BY InitInductive, NextInductive, PTL DEF Spec

(* The variables of the agents' loops, clones and of the branch keep their *)
(* types.                                                                  *)
THEOREM TypeCorrect == Spec => []TypeOK
<1>1. Inductive => TypeOK
  BY DEF Inductive
<1> QED
  BY <1>1, InductiveInvariant, PTL

(* A folder without a project's files is only ever on the branch for a     *)
(* host whose agent discovered no project when it collected: files that    *)
(* cannot be read never empty a folder.                                    *)
THEOREM FoldersNeverEmptied == Spec => []NeverEmptied
<1>1. Inductive => NeverEmptied
  BY DEF Inductive
<1> QED
  BY <1>1, InductiveInvariant, PTL

(* Among any number of hosts a push adds one commit to the branch, and     *)
(* this commit has the folders of all other hosts as they were.            *)
THEOREM PushesKeepOthers == Spec => OthersKept
<1>1. ASSUME Inductive, [Next]_vars, branch' # branch
      PROVE  /\ Len(branch') = Len(branch) + 1
             /\ \A n \in 1..Len(branch) : branch'[n] = branch[n]
             /\ \E h \in Hosts : /\ pc[h] = "push"
                                /\ \A k \in Hosts \ {h} : Tip'[k] = Tip[k]
  <2> USE DEF Inductive
  <2>1. PICK h \in Hosts : /\ pc[h] = "push"
                           /\ head[h].on = Len(branch)
                           /\ branch' = Append(branch, head[h].tree)
    BY <1>1, BranchGrows
  <2>2. /\ Len(branch') = Len(branch) + 1
        /\ \A n \in 1..Len(branch) : branch'[n] = branch[n]
        /\ branch'[Len(branch) + 1] = head[h].tree
    BY <1>1, <2>1, IndexTyped, Appended
  <2>3. Tip' = [Tip EXCEPT ![h] = staging[h]]
    BY <1>1, <2>1, <2>2, PushedTree DEF Tip
  <2> QED
    BY <2>1, <2>2, <2>3
<1>2. Inductive /\ [Next]_vars =>
        [branch' # branch =>
           /\ Len(branch') = Len(branch) + 1
           /\ \A n \in 1..Len(branch) : branch'[n] = branch[n]
           /\ \E h \in Hosts : /\ pc[h] = "push"
                              /\ \A k \in Hosts \ {h} : Tip'[k] = Tip[k]]_vars
  BY <1>1
<1> QED
  BY <1>2, InductiveInvariant, PTL DEF Spec, OthersKept

(* Only these two ends of a run report a success.                          *)
LEMMA SuccessEnds ==
  ASSUME Inductive, [Next]_vars, NEW h \in Hosts,
         pc[h] # "waiting", pc'[h] = "waiting", outcome'[h] = "success"
  PROVE  \/ /\ pc[h] = "commit" /\ Index(h)[h] = head[h].tree[h] /\ branch' = branch
         \/ /\ pc[h] = "push" /\ head[h].on = Len(branch)
            /\ branch' = Append(branch, head[h].tree)
<1> USE DEF Inductive
<1>1. ASSUME NEW k \in Hosts, k # h, Run(k) \/ Hang(k) \/ AgentStops(k)
      PROVE  FALSE
  <2>1. \E to : pc' = [pc EXCEPT ![k] = to]
    BY <1>1 DEF Run, Wake, Collect, EnsureClone, Identify, Fetch, Stage, Commit, Push,
                Raises, Hang, AgentStops, Retry, EndRun, Goto
  <2> QED
    BY <1>1, <2>1 DEF TypeOK
<1>2. Run(h) \/ Hang(h) \/ AgentStops(h)
  BY <1>1 DEF Next, Edit, vars
<1>9. ~ Hang(h)
  BY DEF Hang, Goto, TypeOK
<1>3. ~ EndRun(h, "error") /\ ~ EndRun(h, "none")
  BY DEF EndRun, TypeOK
<1>4. \A to : Goto(h, to) => to = "waiting"
  BY DEF Goto, TypeOK
<1>5. ~ Retry(h)
  BY <1>3 DEF Retry, TypeOK
<1>6. CASE Commit(h)
  BY <1>3, <1>4, <1>6 DEF Commit
<1>7. CASE Push(h)
  BY <1>5, <1>7 DEF Push, Accepts
<1>8. ~ Wake(h) /\ ~ Collect(h)
  BY <1>3 DEF Wake, Collect, TypeOK
<1> QED
  BY <1>2, <1>3, <1>4, <1>6, <1>7, <1>8, <1>9
  DEF Run, EnsureClone, Identify, Fetch, Stage, Raises, AgentStops

(* A run that is reported a success found or put its files on the branch,  *)
(* at the commit it fetched or a later one.                                *)
THEOREM ReportsAreTrue == Spec => ReportedIsThere
<1>1. ASSUME Inductive, [Next]_vars, NEW h \in Hosts,
             pc[h] # "waiting", pc'[h] = "waiting", outcome'[h] = "success"
      PROVE  \E n \in fetched[h]..Len(branch') : branch'[n][h] = staging[h]
  <2> USE DEF Inductive
  <2>1. fetched[h] \in 0..Len(branch) /\ Len(branch) \in Nat /\ Tip \in Trees
    BY <1>1, Lengths DEF TypeOK
  <2>2. head[h].tree \in Trees
    BY <1>1, IndexTyped
  <2>3. CASE pc[h] = "commit" /\ Index(h)[h] = head[h].tree[h] /\ branch' = branch
    <3>1. head[h].tree = branch[fetched[h]]
      BY <2>3, <1>1 DEF Building
    <3>2. Index(h)[h] = staging[h]
      BY <2>2 DEF Index, Trees
    <3>3. fetched[h] \in fetched[h]..Len(branch')
      BY <2>1, <2>3
    <3> QED
      BY <2>3, <3>1, <3>2, <3>3
  <2>4. CASE /\ pc[h] = "push" /\ head[h].on = Len(branch)
             /\ branch' = Append(branch, head[h].tree)
    <3>1. Len(branch') = Len(branch) + 1 /\ branch'[Len(branch) + 1] = head[h].tree
      BY <1>1, <2>2, <2>4, Appended
    <3>2. head[h].tree[h] = staging[h]
      BY <1>1, <2>1, <2>4, PushedTree DEF Trees
    <3>3. Len(branch) + 1 \in fetched[h]..Len(branch')
      BY <2>1, <3>1
    <3> QED
      BY <3>1, <3>2, <3>3
  <2> QED
    BY <1>1, <2>3, <2>4, SuccessEnds
<1>2. Inductive /\ [Next]_vars =>
        [\A h \in Hosts :
           pc[h] # "waiting" /\ pc'[h] = "waiting" /\ outcome'[h] = "success" =>
             \E n \in fetched[h]..Len(branch') : branch'[n][h] = staging[h]]_vars
  BY <1>1
<1> QED
  BY <1>2, InductiveInvariant, PTL DEF Spec, ReportedIsThere
=============================================================================
