----------------------------- MODULE DiskUsage ------------------------------
(***************************************************************************)
(* Where the host's disk space goes (disk_usage.py) and what deletes it    *)
(* (disk_delete.py).                                                       *)
(*                                                                         *)
(* A scan of a folder lists its children and then walks each directory, in *)
(* a thread of its own; finished scans are kept and shown again.  After a  *)
(* delete the kept scans are corrected by what the deleted path was said   *)
(* to take, or dropped.                                                    *)
(*                                                                         *)
(* A path is the sequence of its names, every file and directory takes one *)
(* unit, and only deletes change the disk.  Left out: hard links (counted  *)
(* once per scan), mounts of another device, unreadable directories.       *)
(***************************************************************************)
EXTENDS Integers, FiniteSets, Sequences

CONSTANTS
  Tree,        \* the paths that are there at first
  Folders,     \* those of them that are directories
  BindMounts,  \* those a running container has mounted
  Deleters,    \* the threads that serve a delete
  ScanSlots,   \* MAX_CONCURRENT
  MaxScans     \* bound: scans started

Names == UNION {{p[k] : k \in DOMAIN p} : p \in Tree}
Under(p, q) == Len(q) =< Len(p) /\ SubSeq(p, 1, Len(q)) = q
StrictlyUnder(p, q) == p # q /\ Under(p, q)
Parent(p) == SubSeq(p, 1, Len(p) - 1)

\* The tree is a tree.
DiskSane ==
  /\ IsFiniteSet(Tree) /\ Tree \subseteq Seq(Names) /\ Folders \subseteq Tree
  /\ \A p \in Tree : Len(p) >= 2 => Parent(p) \in Folders
  /\ \A p, q \in Tree : StrictlyUnder(q, p) => p \in Folders
  /\ MaxScans \in Nat

ScanIds == 1..MaxScans
None == -1                \* Python's None, for a number of bytes

VARIABLES
  disk,     \* the paths that are there
  table,    \* _scans: the scan kept for each folder, or 0
  scan,     \* each scan: its path, state, rows, and the walk it is in
  scans,    \* how many there have been
  delete,   \* each delete: where it is, its path and its `freed`
  crossed   \* history: the scans a delete has disturbed

diskVars == <<disk, table, scan, scans, delete, crossed>>

\* A row: `bytes` and `pending`.
Sizes == 0..Cardinality(Tree)
NoRows == [p \in {} |-> 0]
NoScan == [path |-> <<>>, state |-> "none", rows |-> NoRows, walking |-> <<>>, total |-> 0]

NoDelete == [pc |-> "idle", path |-> <<>>, freed |-> None, doubtful |-> FALSE]

Init ==
  /\ disk = Tree
  /\ table = [p \in Folders |-> 0]
  /\ scan = [i \in ScanIds |-> NoScan]
  /\ scans = 0
  /\ delete = [d \in Deleters |-> NoDelete]
  /\ crossed = {}

Taken(p) == Cardinality({q \in disk : Under(q, p)})
Children(p) == {q \in disk : q # <<>> /\ Parent(q) = p}

-----------------------------------------------------------------------------
(* History.  A scan is disturbed by a delete at work above or below it     *)
(* while it runs, and a kept one by two deletes at once, by one that       *)
(* failed, or by one that took its `freed` from a disturbed scan.          *)
Near(p, q) == Under(p, q) \/ Under(q, p)
Deleting(p) == {d \in Deleters : delete[d].pc # "idle" /\ Near(delete[d].path, p)}
Reach(p) == {i \in ScanIds : scan[i].state # "none" /\ Near(scan[i].path, p)}
Active == {"waiting", "scanning", "walking"}
Disturbed(d, path) ==
  {i \in Reach(path) : scan[i].state \in Active \/ Deleting(scan[i].path) \ {d} # {}}

-----------------------------------------------------------------------------
(* usage: a new scan, unless one is running or a finished one is kept; the *)
(* caller may insist on a new one, and a kept one grows too old.           *)
Usage(p) ==
  /\ scans < MaxScans
  /\ table[p] # 0 => scan[table[p]].state \notin Active
  /\ scans' = scans + 1
  /\ table' = [table EXCEPT ![p] = scans']
  /\ scan' = [scan EXCEPT ![scans'] = [NoScan EXCEPT !.path = p, !.state = "waiting"]]
  /\ crossed' = IF Deleting(p) = {} THEN crossed ELSE crossed \cup {scans'}
  /\ UNCHANGED <<disk, delete>>

Scanning == {i \in ScanIds : scan[i].state \in Active \ {"waiting"}}

TakeSlot(i) ==
  /\ scan[i].state = "waiting"
  /\ Cardinality(Scanning) < ScanSlots
  /\ scan' = [scan EXCEPT ![i].state = "scanning"]
  /\ UNCHANGED <<disk, table, scans, delete, crossed>>

Row(p) == [bytes |-> 1, pending |-> p \in Folders]

(* _run: the folder is gone, or its children become the rows at once.      *)
List(i) ==
  /\ scan[i].state = "scanning"
  /\ IF scan[i].path \in disk
     THEN scan' = [scan EXCEPT ![i].state = "walking",
                               ![i].rows = [p \in Children(scan[i].path) |-> Row(p)]]
     ELSE scan' = [scan EXCEPT ![i].state = "error"]
  /\ UNCHANGED <<disk, table, scans, delete, crossed>>

(* _walk adds up in a local variable and stores it in the row at the end.  *)
Pending(i) == {p \in DOMAIN scan[i].rows : scan[i].rows[p].pending}
Walk(i) ==
  /\ scan[i].state = "walking" /\ scan[i].walking = <<>>
  /\ \E p \in Pending(i) :
       scan' = [scan EXCEPT ![i].walking = p,
                            ![i].total = IF Taken(p) = 0 THEN 1 ELSE Taken(p)]
  /\ UNCHANGED <<disk, table, scans, delete, crossed>>

\* A row that a delete has removed meanwhile is no longer among the entries.
Store(i) ==
  /\ scan[i].walking # <<>>
  /\ scan' = [scan EXCEPT
       ![i].rows = [p \in DOMAIN scan[i].rows |->
                      IF p = scan[i].walking
                      THEN [bytes |-> scan[i].total, pending |-> FALSE]
                      ELSE scan[i].rows[p]],
       ![i].walking = <<>>]
  /\ UNCHANGED <<disk, table, scans, delete, crossed>>

Finish(i) ==
  /\ scan[i].state = "walking" /\ scan[i].walking = <<>> /\ Pending(i) = {}
  /\ scan' = [scan EXCEPT ![i].state = "done"]
  /\ UNCHANGED <<disk, table, scans, delete, crossed>>

Scan(i) == TakeSlot(i) \/ List(i) \/ Walk(i) \/ Store(i) \/ Finish(i)

-----------------------------------------------------------------------------
(* known_bytes: what the scan kept for the parent says, if it has walked it. *)
ParentScan(path) == IF table[Parent(path)] = 0 THEN NoScan ELSE scan[table[Parent(path)]]
KnownBytes(path) ==
  LET rows == ParentScan(path).rows
  IN IF path \in DOMAIN rows /\ ~rows[path].pending THEN rows[path].bytes ELSE None

(* check: it is there, it is no top-level directory and holds no mount.    *)
Check(path) ==
  /\ Len(path) >= 2
  /\ path \in disk
  /\ \A m \in BindMounts : ~Under(m, path)

(* delete, up to the start of the helper.                                  *)
Delete(d) ==
  /\ delete[d].pc = "idle"
  /\ \E path \in Tree :
       /\ Check(path)
       /\ delete' = [delete EXCEPT ![d] =
            [pc |-> "rm", path |-> path, freed |-> KnownBytes(path),
             doubtful |-> table[Parent(path)] \in crossed]]
       /\ crossed' = crossed \cup Disturbed(d, path)
  /\ UNCHANGED <<disk, table, scan, scans>>

(* The helper's rm -rf.                                                    *)
Remove(d) ==
  /\ delete[d].pc = "rm"
  /\ disk' = {p \in disk : ~Under(p, delete[d].path)}
  /\ delete' = [delete EXCEPT ![d].pc = "forget"]
  /\ UNCHANGED <<table, scan, scans, crossed>>

(* It fails half way, or is lost track of: the kept scans stay as they are. *)
RemoveFails(d) ==
  /\ delete[d].pc = "rm"
  /\ \E gone \in SUBSET {p \in disk : Under(p, delete[d].path)} :
       /\ \A p \in gone : \A q \in disk : Under(q, p) => q \in gone
       /\ disk' = disk \ gone
  /\ delete' = [delete EXCEPT ![d] = NoDelete]
  /\ crossed' = crossed \cup Reach(delete[d].path)
  /\ UNCHANGED <<table, scan, scans>>

(* forget_path: scans of what is gone are dropped, and so are those of the *)
(* folders above if the size is not known; else they are corrected.        *)
Dropped_Below(path, freed) == {p \in Folders : Under(p, path)}
Dropped(path, freed) ==
  {p \in Folders : Under(p, path) \/ (freed = None /\ StrictlyUnder(path, p))}

AtLeast0_Not(n) == n
AtLeast0(n) == IF n > 0 THEN n ELSE 0
Corrected(rows, path, freed) ==
  [p \in DOMAIN rows \ {path} |->
     IF StrictlyUnder(path, p) THEN [rows[p] EXCEPT !.bytes = AtLeast0(@ - freed)]
     ELSE rows[p]]

ForgetPath(d) ==
  LET path == delete[d].path
      freed == delete[d].freed
      kept == {i \in ScanIds : /\ i \in {table[p] : p \in Folders \ Dropped(path, freed)}
                               /\ StrictlyUnder(path, scan[i].path)}
  IN /\ delete[d].pc = "forget"
     /\ table' = [p \in Folders |-> IF p \in Dropped(path, freed) THEN 0 ELSE table[p]]
     /\ scan' = [i \in ScanIds |->
          IF i \in kept THEN [scan[i] EXCEPT !.rows = Corrected(@, path, freed)] ELSE scan[i]]
     /\ delete' = [delete EXCEPT ![d] = NoDelete]
     /\ crossed' = IF delete[d].doubtful THEN crossed \cup Reach(path) ELSE crossed
     /\ UNCHANGED <<disk, scans>>

Next ==
  \/ \E p \in Folders : Usage(p)
  \/ \E i \in ScanIds : Scan(i)
  \/ \E d \in Deleters : Delete(d) \/ Remove(d) \/ RemoveFails(d) \/ ForgetPath(d)

ScanSteps == \E i \in ScanIds : Scan(i)
Spec == Init /\ [][Next]_diskVars
FairSpec == Spec /\ WF_diskVars(ScanSteps)

-----------------------------------------------------------------------------
(* Every variable has its type.                                            *)
ScansOf(names) ==
  [path : Folders \cup {<<>>}, state : Active \cup {"none", "done", "error"},
   rows : [names -> [bytes : Sizes, pending : BOOLEAN]], walking : Tree \cup {<<>>},
   total : Sizes]
Deletes == [pc : {"rm", "forget"}, path : Tree, freed : Sizes \cup {None}, doubtful : BOOLEAN]
TypeOK ==
  /\ disk \subseteq Tree
  /\ scans \in 0..MaxScans
  /\ table \in [Folders -> 0..scans]
  /\ scan = [i \in ScanIds |-> scan[i]]
  /\ \A i \in ScanIds :
       LET names == DOMAIN scan[i].rows IN names \subseteq Tree /\ scan[i] \in ScansOf(names)
  /\ delete \in [Deleters -> {NoDelete} \cup Deletes]
  /\ crossed \subseteq ScanIds

(* A finished scan that is still kept tells the truth about the disk, row  *)
(* by row, whatever has been deleted since, as long as no delete crossed   *)
(* its walk, another delete, or a failure on its way.                      *)
ScanHonest ==
  \A p \in Folders :
    LET i == table[p]
    IN (i # 0 /\ i \notin crossed /\ Deleting(p) = {}) =>
         (scan[i].state = "done" =>
            /\ DOMAIN scan[i].rows = Children(p)
            /\ \A q \in Children(p) : scan[i].rows[q].bytes = Taken(q))

(* What makes it so.  The rows of a scan are true of the disk; once the    *)
(* helper has removed a path, all but for that path, of which the delete   *)
(* knows what it took.                                                     *)
RowsTrue(i, p) ==
  /\ DOMAIN scan[i].rows = Children(p)
  /\ \A q \in Children(p) : ~scan[i].rows[q].pending => scan[i].rows[q].bytes = Taken(q)
RowsBehind(i, p, path, freed) ==
  /\ DOMAIN scan[i].rows \ {path} = Children(p)
  /\ \A q \in Children(p) :
       scan[i].rows[q].bytes = Taken(q) + (IF Under(path, q) THEN freed ELSE 0)
\* A finished scan and the delete at work near it, which will correct it.
Owed(i, p, d) ==
  \A path \in Tree, freed \in Sizes :
    delete[d].path = path /\ delete[d].freed = freed /\ ~delete[d].doubtful
      /\ StrictlyUnder(path, p) =>
        IF delete[d].pc = "rm" THEN freed = Taken(path) ELSE RowsBehind(i, p, path, freed)
KeptTrue(i, p) ==
  /\ scan[i].state \in Active => Deleting(p) = {}
  /\ \A d, e \in Deleting(p) : d = e
  /\ scan[i].state \in {"walking", "done"} /\ (\A d \in Deleting(p) : delete[d].pc = "rm")
       => RowsTrue(i, p)
  /\ DOMAIN scan[i].rows # {} => scan[i].state \in {"walking", "done"}
  /\ scan[i].walking # <<>> =>
       /\ scan[i].state = "walking"
       /\ \E q \in Pending(i) : scan[i].walking = q /\ scan[i].total = Taken(q)
  /\ scan[i].state = "done" => Pending(i) = {} /\ \A d \in Deleting(p) : Owed(i, p, d)
Inductive ==
  /\ TypeOK
  /\ \A p \in Folders, i \in ScanIds : table[p] = i =>
       /\ scan[i].path = p /\ scan[i].state # "none"
       /\ i \notin crossed => KeptTrue(i, p)

(* A scan that waits for its slot or works: it has to end.                 *)
AtWork(i) == scan[i].state \in Active
=============================================================================
