----------------------------- MODULE HostFiles ------------------------------
(***************************************************************************)
(* The file manager (files.py): each request checks the paths it names in  *)
(* the agent, and then a helper container changes the host's files, some   *)
(* time later.  Other requests, and people on the host, come in between.   *)
(*                                                                         *)
(* A file's text is a number, another one for every text written, which    *)
(* also serves as its modification time.  Left out: folders, who may write *)
(* where, owners and modes, downloads (see FolderArchive).                 *)
(***************************************************************************)
EXTENDS Integers, Functions

CONSTANTS
  Paths,      \* the names in the folders that may be changed
  Users,      \* the threads that serve requests
  MaxTexts,   \* bound: texts written
  MaxRequests,  \* bound: requests that change something
  MaxHelperFaults  \* bound: helpers that fail

Nowhere == "nowhere"   \* no path
FilesSane == /\ Paths # {} /\ Nowhere \notin Paths
             /\ MaxTexts \in Nat \ {0} /\ {MaxRequests, MaxHelperFaults} \subseteq Nat

None == 0     \* no file
Half == -1    \* a file that was cut short
TextIds == 1..MaxTexts

VARIABLES
  file,      \* the text at each path
  tmp,       \* the text in the .hl-... file of each request
  texts,     \* how many there have been
  opened,    \* what each user has read for editing: a path and its text
  op,        \* the request of each user; history: what it found there
  requests, helperFaults,
  others,    \* history: somebody else was at the files of the request since it began
  writing    \* where the file lies that each user's helper is writing

fileVars == <<file, tmp, texts, opened, op, requests, helperFaults, others, writing>>

NoOp == [pc |-> "idle", kind |-> "none", path |-> Nowhere, dest |-> Nowhere, text |-> None,
         expected |-> None, found |-> None, inDest |-> None]
Unread == [path |-> Nowhere, text |-> None]

First == CHOOSE p \in Paths : TRUE
Init ==
  /\ file = [p \in Paths |-> IF p = First THEN 1 ELSE None]
  /\ tmp = [u \in Users |-> None]
  /\ texts = 1
  /\ opened = [u \in Users |-> Unread]
  /\ op = [u \in Users |-> NoOp]
  /\ requests = 0
  /\ helperFaults = 0
  /\ others = [u \in Users |-> FALSE]
  /\ writing = [u \in Users |-> Nowhere]

Exists(p) == file[p] # None

(* What is left of a request that has passed its checks: its helper.       *)
Begin(u, pc, kind, p, q, text, expected) ==
  /\ op' = [op EXCEPT ![u] = [pc |-> pc, kind |-> kind, path |-> p, dest |-> q, text |-> text,
                              expected |-> expected, found |-> file[p],
                              inDest |-> IF q = Nowhere THEN None ELSE file[q]]]
  /\ others' = [others EXCEPT ![u] = \E v \in Users : writing[v] \in Paths /\ writing[v] \in {p, q}]

End(u) == op' = [op EXCEPT ![u] = NoOp]
Step(u, pc) == op' = [op EXCEPT ![u].pc = pc]

\* u is at the file p, which other requests may be about.
Concerns(v, p) == p \in {op[v].path, op[v].dest}
Touch(u, p) == others' = [v \in Users |-> others[v] \/ (v # u /\ Concerns(v, p))]

-----------------------------------------------------------------------------
(* read_text: the text goes to the editor with its modification time.      *)
ReadText(u) ==
  /\ op[u] = NoOp /\ opened[u] = Unread /\ requests < MaxRequests
  /\ \E p \in Paths : /\ Exists(p)
                      /\ opened' = [opened EXCEPT ![u] = [path |-> p, text |-> file[p]]]
  /\ UNCHANGED <<file, tmp, texts, op, helperFaults, requests, others, writing>>

(* write_file, the checks: saving what was read, or an upload.             *)
MaySave(p, expected) == Exists(p) => file[p] = expected
MayUpload(p, overwrite) == Exists(p) => overwrite

Save(u) ==
  /\ op[u] = NoOp /\ requests < MaxRequests /\ opened[u] # Unread /\ texts < MaxTexts
  /\ opened' = [opened EXCEPT ![u] = Unread]
  /\ IF MaySave(opened[u].path, opened[u].text)
     THEN Begin(u, "put", "save", opened[u].path, Nowhere, texts + 1, opened[u].text) /\ texts' = texts + 1
     ELSE UNCHANGED <<op, texts, others>>   \* Conflict
  /\ requests' = requests + 1
  /\ UNCHANGED <<file, tmp, helperFaults, writing>>

(* An upload may replace a file if the caller says so; new_file never does. *)
Upload(u) ==
  /\ op[u] = NoOp /\ requests < MaxRequests /\ texts < MaxTexts
  /\ \E p \in Paths, overwrite \in BOOLEAN :
       /\ MayUpload(p, overwrite)
       /\ Begin(u, "put", IF overwrite THEN "upload" ELSE "new", p, Nowhere, texts + 1, None)
  /\ texts' = texts + 1
  /\ requests' = requests + 1
  /\ UNCHANGED <<file, tmp, opened, helperFaults, writing>>

Faulty == helperFaults < MaxHelperFaults /\ helperFaults' = helperFaults + 1
Faultless == UNCHANGED helperFaults

(* put_archive: the text arrives beside its target, or not all of it.      *)
Put(u) ==
  /\ op[u].pc = "put"
  /\ \/ Faultless /\ tmp' = [tmp EXCEPT ![u] = op[u].text] /\ Step(u, "place")
     \/ Faulty /\ tmp' = [tmp EXCEPT ![u] = Half] /\ End(u)
  /\ UNCHANGED <<file, texts, opened, requests, others, writing>>

(* _PLACE, without a file there: a rename that does nothing (and says so   *)
(* to nobody) if one has appeared since the shell looked; then the text    *)
(* stays in the .hl- file.                                                 *)
PlaceNew(u) ==
  /\ op[u].pc = "place" /\ ~Exists(op[u].path)
  /\ Step(u, "mv_tmp")
  /\ UNCHANGED <<file, tmp, texts, opened, helperFaults, requests, others, writing>>
MoveTmp(u) ==
  /\ op[u].pc = "mv_tmp"
  /\ IF Exists(op[u].path)
     THEN UNCHANGED <<file, tmp, others>>
     ELSE /\ file' = [file EXCEPT ![op[u].path] = tmp[u]]
          /\ tmp' = [tmp EXCEPT ![u] = None]
          /\ Touch(u, op[u].path)
  /\ Step(u, "look")
  /\ UNCHANGED <<texts, opened, helperFaults, requests, writing>>

(* With a file there: cat over it, so that it keeps its inode ...          *)
Truncate(u) ==
  /\ op[u].pc = "place" /\ Exists(op[u].path)
  /\ file' = [file EXCEPT ![op[u].path] = Half]
  /\ writing' = [writing EXCEPT ![u] = op[u].path]
  /\ Touch(u, op[u].path)
  /\ Step(u, "cat")
  /\ UNCHANGED <<tmp, texts, opened, helperFaults, requests>>

(* ... wherever the file has been moved since, or into one that has been   *)
(* removed; two who write to one file at once may leave a mixture.         *)
CatInto(u, p, text) == file' = [file EXCEPT ![p] = text] /\ Touch(u, p)
Cat(u) ==
  /\ op[u].pc = "cat"
  /\ \/ writing[u] = Nowhere /\ UNCHANGED <<file, others>>
     \/ writing[u] # Nowhere /\ CatInto(u, writing[u], tmp[u])
     \/ writing[u] # Nowhere /\ others[u] /\ CatInto(u, writing[u], Half)
  /\ writing' = [writing EXCEPT ![u] = Nowhere]
  /\ Step(u, "rm_tmp")
  /\ UNCHANGED <<tmp, texts, opened, helperFaults, requests>>

(* ... and only then the temporary file goes.                              *)
RemoveTmp(u) ==
  /\ op[u].pc = "rm_tmp"
  /\ tmp' = [tmp EXCEPT ![u] = None]
  /\ Step(u, "look")
  /\ UNCHANGED <<file, texts, opened, helperFaults, requests, others, writing>>

(* The request is done if there is a file where it was to be, whichever.   *)
Look(u) ==
  /\ op[u].pc = "look"
  /\ End(u)
  /\ UNCHANGED <<file, tmp, texts, opened, helperFaults, requests, others, writing>>

(* The disk is full, or the helper is killed: the files stay as they are,  *)
(* or what was being copied is there in part.  Had the shell gone on after *)
(* a cat that failed, it would have removed the text.                      *)
Failed_Unseen(u) == IF op[u].pc = "cat" THEN Step(u, "rm_tmp") ELSE End(u)
Failed(u) == End(u)
CutShort(u) == op[u].pc = "cp" /\ Exists(op[u].path)
HelperFails(u) ==
  /\ op[u].pc \in {"place", "mv_tmp", "cat", "rm_tmp", "mv", "cp"}
  /\ Faulty
  /\ \/ UNCHANGED <<file, others>>
     \/ CutShort(u) /\ file' = [file EXCEPT ![op[u].dest] = Half] /\ Touch(u, op[u].dest)
  /\ writing' = [writing EXCEPT ![u] = Nowhere]
  /\ Failed(u)
  /\ UNCHANGED <<tmp, texts, opened, requests>>

-----------------------------------------------------------------------------
(* rename, move, copy: the source is there, and the destination free.      *)
MayTake(p, q) == p # q /\ Exists(p) /\ ~Exists(q)
Take(u) ==
  /\ op[u] = NoOp /\ requests < MaxRequests
  /\ \E p, q \in Paths, kind \in {"move", "copy"} :
       /\ MayTake(p, q)
       /\ Begin(u, IF kind = "move" THEN "mv" ELSE "cp", kind, p, q, None, None)
  /\ requests' = requests + 1
  /\ UNCHANGED <<file, tmp, texts, opened, helperFaults, writing>>

\* The helper stops at once if what it is to take has gone.
SourceGone(u) ==
  /\ op[u].pc \in {"mv", "cp"} /\ ~Exists(op[u].path)
  /\ End(u)
  /\ UNCHANGED <<file, tmp, texts, opened, helperFaults, requests, others, writing>>

(* mv -n: nothing happens if the target is taken, and the exit code is 0.  *)
Move(u) ==
  LET p == op[u].path  q == op[u].dest IN
  /\ op[u].pc = "mv" /\ Exists(p)
  /\ IF Exists(q)
     THEN UNCHANGED <<file, others, writing>>
     ELSE /\ file' = [file EXCEPT ![q] = file[p], ![p] = None]
          /\ others' = [v \in Users |-> others[v] \/ (v # u /\ (Concerns(v, p) \/ Concerns(v, q)))]
          /\ writing' = [v \in Users |-> IF writing[v] = p THEN q ELSE writing[v]]
  /\ Step(u, "look")
  /\ UNCHANGED <<tmp, texts, opened, helperFaults, requests>>

(* cp -a: writes over whatever is there by now.                            *)
Copy(u) ==
  /\ op[u].pc = "cp" /\ Exists(op[u].path)
  /\ file' = [file EXCEPT ![op[u].dest] = file[op[u].path]]
  /\ Touch(u, op[u].dest)
  /\ Step(u, "look")
  /\ UNCHANGED <<tmp, texts, opened, helperFaults, requests, writing>>

(* delete: see DiskUsage.                                                  *)
Delete(u) ==
  /\ op[u] = NoOp /\ requests < MaxRequests
  /\ \E p \in Paths : Exists(p) /\ Begin(u, "rm", "delete", p, Nowhere, None, None)
  /\ requests' = requests + 1
  /\ UNCHANGED <<file, tmp, texts, opened, helperFaults, writing>>
Remove(u) ==
  /\ op[u].pc = "rm"
  /\ file' = [file EXCEPT ![op[u].path] = None]
  /\ writing' = [v \in Users |-> IF writing[v] = op[u].path THEN Nowhere ELSE writing[v]]
  /\ Touch(u, op[u].path)
  /\ End(u)
  /\ UNCHANGED <<tmp, texts, opened, helperFaults, requests>>

(* Somebody on the host edits a file.                                      *)
Outside ==
  /\ texts < MaxTexts
  /\ texts' = texts + 1
  /\ \E p \in Paths :
       /\ Exists(p)
       /\ file' = [file EXCEPT ![p] = texts']
       /\ others' = [v \in Users |-> others[v] \/ Concerns(v, p)]
  /\ UNCHANGED <<tmp, opened, op, helperFaults, requests, writing>>

Next ==
  \/ Outside
  \/ \E u \in Users :
       \/ ReadText(u) \/ Save(u) \/ Upload(u) \/ Take(u) \/ Delete(u)
       \/ Put(u) \/ PlaceNew(u) \/ MoveTmp(u) \/ Truncate(u) \/ Cat(u) \/ RemoveTmp(u) \/ Look(u)
       \/ Move(u) \/ Copy(u) \/ SourceGone(u) \/ Remove(u) \/ HelperFails(u)

Spec == Init /\ [][Next]_fileVars

-----------------------------------------------------------------------------
(* Every variable has its type.                                            *)
Contents == TextIds \cup {Half, None}
Ops == [pc : {"idle", "put", "place", "mv_tmp", "cat", "rm_tmp", "look", "mv", "cp", "rm"},
        kind : {"none", "save", "upload", "new", "move", "copy", "delete"},
        path : Paths \cup {Nowhere}, dest : Paths \cup {Nowhere}, text : TextIds \cup {None},
        expected : Contents, found : Contents, inDest : Contents]
TypeOK ==
  /\ file \in [Paths -> TextIds \cup {None, Half}]
  /\ tmp \in [Users -> TextIds \cup {None, Half}]
  /\ texts \in TextIds
  /\ opened \in [Users -> [path : Paths, text : TextIds \cup {Half}] \cup {Unread}]
  /\ op \in [Users -> Ops]
  /\ requests \in 0..MaxRequests
  /\ helperFaults \in 0..MaxHelperFaults
  /\ others \in [Users -> BOOLEAN]
  /\ writing \in [Users -> Paths \cup {Nowhere}]

\* What the request of u found at p when it was checked.
Found(u, p) == IF p = op[u].path THEN op[u].found
               ELSE IF p = op[u].dest THEN op[u].inDest ELSE None

\* It was asked to replace or remove just that.
AskedFor(u, p) ==
  /\ op[u].path = p
  /\ op[u].kind \in {"save", "upload", "delete"}
  /\ op[u].kind = "save" => op[u].found = op[u].expected

\* The files are as the request of u was to leave them.
AsAsked(u) ==
  CASE op[u].kind = "move" -> file[op[u].dest] = op[u].found /\ file[op[u].path] = None
    [] op[u].kind = "copy" -> file[op[u].dest] = op[u].found
    [] OTHER -> file[op[u].path] = op[u].text

(* A request that is reported as done has left its files as it was to, if  *)
(* nobody else was at them since it was checked; one that fails after its  *)
(* text had been sent has that text still, whole, beside the file or in    *)
(* it; and a text that a request found when it was checked is lost by its  *)
(* helper only if it was to replace or delete that very text.  (What is    *)
(* written between check and helper may be lost: nothing looks again.)     *)
Kept(text) == text \in Range(file') \cup Range(tmp')
TextKept ==
  /\ \A u \in Users : (op[u].pc = "look" /\ op'[u] = NoOp /\ ~others[u]) => AsAsked(u)
  /\ \A u \in Users : (op[u].pc \in {"place", "mv_tmp", "cat"} /\ op'[u] = NoOp) => Kept(op[u].text)
  /\ \A u \in Users, p \in Paths :
       (op'[u] # op[u] /\ op[u] # NoOp /\ file[p] > 0 /\ file[p] = Found(u, p)
          /\ ~Kept(file[p])) => AskedFor(u, p)
TextsKept == [][TextKept]_fileVars

(* What a request has kept to: the checks it passed, its text, and what it *)
(* has done while nobody else was at its files.                            *)
Checked(u) ==
  /\ op[u].kind = "new" => op[u].found = None
  /\ op[u].kind = "save" => op[u].found \in {None, op[u].expected}
  /\ op[u].inDest = None
Staged(u) ==
  /\ op[u].pc = "idle" => op[u] = NoOp
  /\ op[u].pc # "idle" => op[u].path \in Paths
  /\ op[u].pc \in {"put", "place", "mv_tmp", "cat", "rm_tmp"} =>
       op[u].kind \in {"save", "upload", "new"} /\ op[u].text \in TextIds
  /\ op[u].pc \in {"place", "mv_tmp", "cat"} => tmp[u] = op[u].text
  /\ op[u].pc \in {"mv", "cp"} => op[u].dest \in Paths \ {op[u].path}
  /\ op[u].pc = "mv" => op[u].kind = "move"
  /\ op[u].pc = "cp" => op[u].kind = "copy"
  /\ op[u].kind \in {"move", "copy"} => op[u].dest \in Paths
  /\ op[u].pc = "rm" => op[u].kind = "delete"
Alone(u) ==
  /\ writing[u] # Nowhere => op[u].pc = "cat"
  /\ ~others[u] =>
       /\ op[u].pc \in {"mv", "cp"} => file[op[u].path] = op[u].found /\ file[op[u].dest] = None
       /\ op[u].pc = "mv_tmp" => file[op[u].path] = None
       /\ op[u].pc = "cat" => writing[u] = op[u].path
       /\ op[u].pc = "rm_tmp" => file[op[u].path] = op[u].text
       /\ op[u].pc = "look" => AsAsked(u)
Inductive == TypeOK /\ \A u \in Users : Checked(u) /\ Staged(u) /\ Alone(u)
=============================================================================
