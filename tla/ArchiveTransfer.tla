--------------------------- MODULE ArchiveTransfer ---------------------------
(***************************************************************************)
(* How an archive reaches its directory.  A helper (backup_helper.py)      *)
(* either writes it there itself or streams it to another host's agent,    *)
(* whose Receiver (volume_backup.py) writes it: in both cases to           *)
(* `<name>.part`, synced and renamed at the end.                           *)
(*                                                                         *)
(* A directory entry points to an inode, and a writer keeps the inode it   *)
(* opened: the files of two writers are one file when they have one name.  *)
(* An archive is a sequence of Size chunks; chunk i of helper h is <<h, i>>*)
(***************************************************************************)
EXTENDS Integers, Sequences

CONSTANTS
  Helpers,        \* the helpers; also the inodes, named after who created them
  Remote,         \* those that stream to another agent
  Names,          \* the names of archives
  NameOf,         \* [Helpers -> Names]: BACKUP_NAME, from archive_name
  NoOne,          \* not a helper: no directory entry
  Size,           \* chunks in an archive
  MaxDeletes,     \* bound: archives deleted in one behaviour
  MaxRestarts,    \* bound: restarts of the receiving agent
  MaxPowerLosses  \* bound: power losses of the destination host

ASSUME RemoteAssumption == Remote \subseteq Helpers
ASSUME NameOfAssumption == NameOf \in [Helpers -> Names]
ASSUME NoOneAssumption == NoOne \notin Helpers
ASSUME SizeAssumption == Size \in Nat \ {0}
ASSUME BoundsAssumption ==
  MaxDeletes \in Nat /\ MaxRestarts \in Nat /\ MaxPowerLosses \in Nat

VARIABLES
  helper,      \* each helper's main()
  sent,        \* chunks that a remote helper has handed to its connection
  body,        \* the request body, as the receiver will see it end
  writer,      \* each Receiver, or _to_file of a local helper
  handle,      \* the inode a writer has open
  offset,      \* chunks a writer has hashed and written
  part,        \* directory entries `<name>.part`
  final,       \* directory entries `<name>`
  before,      \* the `final` entry that the last change to it replaced
  data,        \* the contents of each inode
  synced,      \* inodes whose contents are on the disk
  removed,     \* history: names deleted, or touched by a power loss
  deletes, agentRestarts, powerLosses  \* bounded counters of each

directory == <<part, final, before, removed>>
counters == <<deletes, agentRestarts, powerLosses>>
sender == <<helper, sent, body>>
vars == <<sender, writer, handle, offset, directory, data, synced, counters>>

Hole == <<NoOne, 0>>
Chunk == (Helpers \X (1..Size)) \cup {Hole}
Entry == Helpers \cup {NoOne}

(* "left" is a writer that is gone and has not removed its .part.          *)
Busy == {"writing", "sync", "rename", "abort"}
WriterStates == Busy \cup {"none", "refused", "stored", "aborted", "left"}

Whole(h) == [i \in 1..Size |-> <<h, i>>]

Init ==
  /\ helper = [h \in Helpers |-> "idle"]
  /\ sent = [h \in Helpers |-> 0]
  /\ body = [h \in Helpers |-> "open"]
  /\ writer = [h \in Helpers |-> "none"]
  /\ handle = [h \in Helpers |-> NoOne]
  /\ offset = [h \in Helpers |-> 0]
  /\ part = [n \in Names |-> NoOne]
  /\ final = [n \in Names |-> NoOne]
  /\ before = [n \in Names |-> NoOne]
  /\ data = [h \in Helpers |-> <<>>]
  /\ synced = {}
  /\ removed = {}
  /\ deletes = 0
  /\ agentRestarts = 0
  /\ powerLosses = 0

(***************************************************************************)
(* The helper                                                              *)
(***************************************************************************)

Begin(h) ==
  /\ helper[h] = "idle"
  /\ helper' = [helper EXCEPT ![h] = "sending"]
  /\ UNCHANGED <<sent, body, writer, handle, offset, directory, data, synced, counters>>

(* _Chunks hands the next chunk to http.client; the request is under way   *)
(* before the other agent has looked at its headers.                       *)
Send(h) ==
  /\ h \in Remote
  /\ helper[h] = "sending"
  /\ sent[h] < Size
  /\ sent' = [sent EXCEPT ![h] = @ + 1]
  /\ UNCHANGED <<helper, body, writer, handle, offset, directory, data, synced, counters>>

(* Wrong variant: the body is ended properly although the tar failed.      *)
AllSent_Early(h) == sent[h] > 0

AllSent(h) == sent[h] = Size

SendEnd(h) ==
  /\ h \in Remote
  /\ helper[h] = "sending"
  /\ AllSent(h)
  /\ body' = [body EXCEPT ![h] = "eof"]
  /\ helper' = [helper EXCEPT ![h] = "awaiting"]
  /\ UNCHANGED <<sent, writer, handle, offset, directory, data, synced, counters>>

(* tar, gpg or the connection fails, the agent answers with an error, or   *)
(* the job removes the helper by force.  A body without its last chunk     *)
(* ends in a disconnect, or, when the sender's host or the network went    *)
(* away, in nothing at all: backup_receive reads request.stream() without  *)
(* a timeout.  A local helper leaves its .part where it is.                *)
HelperFails(h) ==
  /\ helper[h] \in {"sending", "awaiting"}
  /\ helper' = [helper EXCEPT ![h] = "bad"]
  /\ \/ body' = [body EXCEPT ![h] = IF @ = "open" THEN "broken" ELSE @]
     \/ h \in Remote /\ UNCHANGED body
  /\ writer' = [writer EXCEPT ![h] =
                  IF h \notin Remote /\ @ \in Busy THEN "left" ELSE @]
  /\ UNCHANGED <<sent, handle, offset, directory, data, synced, counters>>

(* The digests are of what was sent and of what arrived.                   *)
Reported(h) ==
  /\ writer[h] = "stored"
  /\ h \in Remote => helper[h] = "awaiting" /\ offset[h] = sent[h]

Succeed(h) ==
  /\ helper[h] \in {"sending", "awaiting"}
  /\ Reported(h)
  /\ helper' = [helper EXCEPT ![h] = "good"]
  /\ UNCHANGED <<sent, body, writer, handle, offset, directory, data, synced, counters>>

(***************************************************************************)
(* The writer: Receiver and backup_receive, or _to_file                    *)
(***************************************************************************)

(* open(partial, "wb"): a new file, or the one that is there, truncated.   *)
Open(h) ==
  LET n == NameOf[h]
      inode == IF part[n] = NoOne THEN h ELSE part[n]
  IN
    /\ writer[h] = "none"
    /\ helper[h] # "idle"
    /\ h \notin Remote => helper[h] = "sending"
    /\ writer' = [writer EXCEPT ![h] = "writing"]
    /\ handle' = [handle EXCEPT ![h] = inode]
    /\ part' = [part EXCEPT ![n] = inode]
    /\ data' = [data EXCEPT ![inode] = <<>>]
    /\ synced' = synced \ {inode}
    /\ UNCHANGED <<sender, offset, final, before, removed, counters>>

(* A directory or a name that policy rejects, or an error in open.         *)
Refuse(h) ==
  /\ h \in Remote
  /\ writer[h] = "none"
  /\ helper[h] # "idle"
  /\ writer' = [writer EXCEPT ![h] = "refused"]
  /\ UNCHANGED <<sender, handle, offset, directory, data, synced, counters>>

(* A write at an offset past the end of the file leaves a hole.            *)
WriteAt(contents, at, chunk) ==
  [i \in 1..(IF at > Len(contents) THEN at ELSE Len(contents)) |->
     IF i = at THEN chunk
     ELSE IF i <= Len(contents) THEN contents[i] ELSE Hole]

(* Wrong variant: the last, empty read is written as well.                 *)
Available_PastEnd(h) == IF h \in Remote THEN sent[h] ELSE Size + 1

Available(h) == IF h \in Remote THEN sent[h] ELSE Size

Write(h) ==
  LET i == offset[h] + 1 IN
    /\ writer[h] = "writing"
    /\ offset[h] < Available(h)
    /\ offset' = [offset EXCEPT ![h] = i]
    /\ data' = [data EXCEPT ![handle[h]] = WriteAt(@, i, <<h, i>>)]
    /\ synced' = synced \ {handle[h]}
    /\ UNCHANGED <<sender, writer, handle, directory, counters>>

AtEnd(h) == offset[h] = Available(h) /\ (h \in Remote => body[h] = "eof")

EndOfBody(h) ==
  /\ writer[h] = "writing"
  /\ AtEnd(h)
  /\ writer' = [writer EXCEPT ![h] = "sync"]
  /\ UNCHANGED <<sender, handle, offset, directory, data, synced, counters>>

(* Wrong variant: commit() renames without fsync.                          *)
OnDisk_NotFlushed(inode) == synced

OnDisk(inode) == synced \cup {inode}

Sync(h) ==
  /\ writer[h] = "sync"
  /\ synced' = OnDisk(handle[h])
  /\ writer' = [writer EXCEPT ![h] = "rename"]
  /\ UNCHANGED <<sender, handle, offset, directory, data, counters>>

Rename(h) ==
  LET n == NameOf[h] IN
    /\ writer[h] = "rename"
    /\ part[n] # NoOne
    /\ before' = [before EXCEPT ![n] = final[n]]
    /\ final' = [final EXCEPT ![n] = part[n]]
    /\ part' = [part EXCEPT ![n] = NoOne]
    /\ writer' = [writer EXCEPT ![h] = "stored"]
    /\ UNCHANGED <<sender, handle, offset, removed, data, synced, counters>>

(* Wrong variant: a disconnect looks like a client that is slow.           *)
Raises_Deaf(h) ==
  \/ writer[h] = "writing" /\ offset[h] < sent[h]
  \/ writer[h] \in {"sync", "rename"}

(* The client disconnects, or a write, the sync or the rename raises.      *)
Raises(h) ==
  \/ writer[h] = "writing" /\ (body[h] = "broken" \/ offset[h] < sent[h])
  \/ writer[h] \in {"sync", "rename"}

WriterFails(h) ==
  /\ h \in Remote
  /\ Raises(h)
  /\ writer' = [writer EXCEPT ![h] = "abort"]
  /\ UNCHANGED <<sender, handle, offset, directory, data, synced, counters>>

(* Wrong variant: abort() only closes the file.                            *)
Unlinked_Kept(n) == part

Unlinked(n) == [part EXCEPT ![n] = NoOne]

(* Receiver.abort, whose unlink may raise.                                 *)
Abort(h) ==
  /\ writer[h] = "abort"
  /\ \/ /\ part' = Unlinked(NameOf[h])
        /\ writer' = [writer EXCEPT ![h] = "aborted"]
     \/ /\ writer' = [writer EXCEPT ![h] = "left"]
        /\ UNCHANGED part
  /\ UNCHANGED <<sender, handle, offset, final, before, removed, data, synced, counters>>

(***************************************************************************)
(* Everybody else                                                          *)
(***************************************************************************)

(* delete_archives sees only finished archives.                            *)
Delete(n) ==
  /\ deletes < MaxDeletes
  /\ final[n] # NoOne
  /\ before' = [before EXCEPT ![n] = final[n]]
  /\ final' = [final EXCEPT ![n] = NoOne]
  /\ removed' = removed \cup {n}
  /\ deletes' = deletes + 1
  /\ UNCHANGED <<sender, writer, handle, offset, part, data, synced, agentRestarts, powerLosses>>

Stranded(W) == [h \in Helpers |-> IF h \in W /\ writer[h] \in Busy THEN "left" ELSE writer[h]]
Broken(W) == [h \in Helpers |-> IF h \in W /\ helper[h] # "idle" /\ body[h] = "open"
                                  THEN "broken" ELSE body[h]]

(* The receiving agent's process ends: connections break, files stay.      *)
AgentRestart ==
  /\ agentRestarts < MaxRestarts
  /\ agentRestarts' = agentRestarts + 1
  /\ writer' = [h \in Helpers |->
                  IF h \in Remote /\ writer[h] = "none" /\ helper[h] # "idle"
                    THEN "refused" ELSE Stranded(Remote)[h]]
  /\ body' = Broken(Remote)
  /\ UNCHANGED <<helper, sent, handle, offset, directory, data, synced, deletes, powerLosses>>

(* The destination host loses power: besides, its local helpers die, a     *)
(* file that was not synced keeps some prefix, and the last change of a    *)
(* directory entry (never synced) may not have reached the disk.           *)
PowerLoss ==
  /\ powerLosses < MaxPowerLosses
  /\ powerLosses' = powerLosses + 1
  /\ helper' = [h \in Helpers |-> IF h \notin Remote /\ helper[h] = "sending"
                                    THEN "bad" ELSE helper[h]]
  /\ writer' = [h \in Helpers |->
                  IF h \in Remote /\ writer[h] = "none" /\ helper[h] # "idle"
                    THEN "refused" ELSE Stranded(Helpers)[h]]
  /\ body' = Broken(Helpers)
  /\ \E kept \in [Helpers -> 0..Size] :
       data' = [i \in Helpers |->
                  IF i \in synced THEN data[i]
                  ELSE SubSeq(data[i], 1, IF kept[i] < Len(data[i]) THEN kept[i] ELSE Len(data[i]))]
  /\ \E undone \in SUBSET Names :
       /\ final' = [n \in Names |-> IF n \in undone THEN before[n] ELSE final[n]]
       /\ part' = [n \in Names |-> IF n \in undone /\ final[n] # NoOne
                                     THEN final[n] ELSE part[n]]
  /\ before' = final'
  /\ removed' = Names
  /\ UNCHANGED <<sent, handle, offset, synced, deletes, agentRestarts>>

HelperSteps(h) ==
  Begin(h) \/ Send(h) \/ SendEnd(h) \/ HelperFails(h) \/ Succeed(h)
WriterSteps(h) ==
  \/ Open(h) \/ Refuse(h) \/ Write(h) \/ EndOfBody(h) \/ Sync(h) \/ Rename(h)
  \/ WriterFails(h) \/ Abort(h)

Next ==
  \/ \E h \in Helpers : HelperSteps(h) \/ WriterSteps(h)
  \/ \E n \in Names : Delete(n)
  \/ AgentRestart
  \/ PowerLoss

(* A helper's socket gives up after ten minutes, and its job removes it at *)
(* a deadline, so it does not send for ever; a disconnect that was sent    *)
(* reaches the receiver, whose file operations return or raise.            *)
Fairness ==
  \A h \in Helpers : WF_vars(HelperSteps(h)) /\ WF_vars(WriterSteps(h))

Spec == Init /\ [][Next]_vars
FairSpec == Spec /\ Fairness

-----------------------------------------------------------------------------
(***************************************************************************)
(* Properties                                                              *)
(***************************************************************************)

(* Every variable has the type the code gives it.                          *)
TypeOK ==
  /\ helper \in [Helpers -> {"idle", "sending", "awaiting", "good", "bad"}]
  /\ sent \in [Helpers -> 0..Size]
  /\ body \in [Helpers -> {"open", "eof", "broken"}]
  /\ writer \in [Helpers -> WriterStates]
  /\ handle \in [Helpers -> Entry]
  /\ offset \in [Helpers -> 0..Size]
  /\ part \in [Names -> Entry]
  /\ final \in [Names -> Entry]
  /\ before \in [Names -> Entry]
  /\ data \in [Helpers -> Seq(Chunk)]
  /\ synced \subseteq Helpers
  /\ removed \subseteq Names
  /\ deletes \in 0..MaxDeletes
  /\ agentRestarts \in 0..MaxRestarts
  /\ powerLosses \in 0..MaxPowerLosses

(* The archive under a name, as ArchiveStore sees it.                      *)
Stored(n) ==
  IF final[n] = NoOne THEN NoOne
  ELSE LET makers == {h \in Helpers : NameOf[h] = n /\ data[final[n]] = Whole(h)}
       IN IF makers = {} THEN "torn" ELSE CHOOSE h \in makers : TRUE

Store == INSTANCE ArchiveStore WITH
  archive <- [n \in Names |-> Stored(n)],
  verdict <- [h \in Helpers |-> IF helper[h] \in {"good", "bad"} THEN helper[h] ELSE "pending"],
  taken <- removed

(* Through disconnects, failed writes, restarts and power losses, nobody   *)
(* ever sees a truncated archive under its final name, and an archive that *)
(* is there never changes ("an interrupted upload leaves something plainly *)
(* incomplete rather than a truncated archive that looks finished",        *)
(* Receiver).                                                              *)
StoreSpec == Store!Spec

(* When a helper reports success, what is stored under its name is what it *)
(* sent, unless it was deleted meanwhile: "if that doesn't match what we   *)
(* sent, the archive on disk is not the archive this helper built, and     *)
(* saying so now beats finding out at restore" (main, backup_helper.py).   *)
GoodIsStored ==
  [][\A h \in Helpers :
       helper[h] # "good" /\ helper'[h] = "good" =>
         \/ final[NameOf[h]] # NoOne /\ data[final[NameOf[h]]] = Whole(h)
         \/ NameOf[h] \in removed]_vars

(* A .part file nobody is writing is left only by a process that was       *)
(* killed, by a local helper that failed, or by an unlink that raised ("a  *)
(* partial archive must not survive", backup_receive): no code ever lists  *)
(* or deletes one.                                                         *)
NoLitter ==
  powerLosses = 0 =>
    \A n \in Names : part[n] # NoOne =>
      \E h \in Helpers : NameOf[h] = n /\ writer[h] \in Busy \cup {"left"}

(* The sender went away without a word: its connection stays open.         *)
Vanished(h) == helper[h] = "bad" /\ body[h] = "open"

(* An upload ends, in one way or another: no receiver keeps a file open    *)
(* for a sender that is gone, unless that one vanished without ending its  *)
(* connection.  Then the receiver waits, and its file stays open, until    *)
(* its agent ends: nothing in backup_receive gives up.                     *)
UploadsEnd ==
  \A h \in Helpers : writer[h] = "writing" ~> writer[h] \notin Busy \/ Vanished(h)
-----------------------------------------------------------------------------
(***************************************************************************)
(* What the properties rest on: the conjuncts of the inductive invariant   *)
(* of ArchiveTransfer_proofs, for archives of different names              *)
(***************************************************************************)

Distinct == \A g, h \in Helpers : NameOf[g] = NameOf[h] => g = h

(* A name leads to nothing or to the file of the helper that has the name. *)
OwnEntries ==
  \A n \in Names : \A e \in {part[n], final[n], before[n]} :
    e # NoOne => e \in Helpers /\ NameOf[e] = n

(* A writer writes to its helper's file, from its start.                   *)
OwnFile ==
  \A h \in Helpers :
    /\ writer[h] \notin {"none", "refused"} => handle[h] = h
    /\ writer[h] = "none" => offset[h] = 0

(* The last chunk of a body is only sent after all the others.             *)
EndIsEnd == \A h \in Remote : body[h] = "eof" => sent[h] = Size

Prefix(h, n) == [i \in 1..n |-> <<h, i>>]

(* What was written is a prefix of the archive, and all of it at the end.  *)
WrittenInOrder ==
  \A h \in Helpers :
    /\ writer[h] \in {"writing", "sync", "rename"} => data[h] = Prefix(h, offset[h])
    /\ writer[h] \in {"sync", "rename"} => offset[h] = Size
    /\ writer[h] = "rename" => h \in synced

(* Only a writer that is through has given its file the final name, ...    *)
Unpublished ==
  \A h \in Helpers :
    writer[h] # "stored" => final[NameOf[h]] = NoOne /\ before[NameOf[h]] = NoOne

(* ... and that file is whole, on the disk, and has the name until someone *)
(* takes it away.                                                          *)
Published ==
  \A h \in Helpers :
    writer[h] = "stored" => /\ h \in synced
                            /\ data[h] = Whole(h)
                            /\ final[NameOf[h]] = h \/ NameOf[h] \in removed

GoodIsThrough == \A h \in Helpers : helper[h] = "good" => writer[h] = "stored"

Inductive ==
  /\ TypeOK
  /\ OwnEntries
  /\ OwnFile
  /\ EndIsEnd
  /\ WrittenInOrder
  /\ Unpublished
  /\ Published
  /\ GoodIsThrough
  /\ NoLitter
=============================================================================
