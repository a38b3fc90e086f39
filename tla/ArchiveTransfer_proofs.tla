----------------------- MODULE ArchiveTransfer_proofs -----------------------
(***************************************************************************)
(* ArchiveTransfer implements ArchiveStore, for any number of helpers      *)
(* whose archives have different names and for archives of any size: each  *)
(* writer has a file of its own, gives it its final name only when it is   *)
(* whole and on the disk, and never touches it again.  With one name for   *)
(* two archives none of this holds (ArchiveSameName.cfg).                  *)
(***************************************************************************)
EXTENDS ArchiveTransfer, SequenceTheorems, TLAPS

(***************************************************************************)
(* Files                                                                   *)
(***************************************************************************)

LEMMA PrefixType ==
  ASSUME NEW h \in Helpers, NEW n \in 0..Size
  PROVE  /\ Prefix(h, n) \in Seq(Chunk)
         /\ Len(Prefix(h, n)) = n
<1>1. n \in Nat /\ \A i \in 1..n : <<h, i>> \in Chunk
  BY SizeAssumption DEF Chunk
<1>2. Prefix(h, n) \in [1..n -> Chunk]
  BY <1>1 DEF Prefix
<1>3. Prefix(h, n) \in Seq(Chunk)
  BY <1>1, <1>2, SeqDef
<1>4. DOMAIN Prefix(h, n) = 1..n /\ DOMAIN Prefix(h, n) = 1..Len(Prefix(h, n))
  BY <1>3, LenProperties DEF Prefix
<1>5. Len(Prefix(h, n)) \in Nat
  BY <1>3, LenProperties
<1> QED
  BY <1>1, <1>3, <1>4, <1>5

LEMMA PrefixEmpty ==
  ASSUME NEW h \in Helpers
  PROVE  Prefix(h, 0) = <<>>
<1>1. Prefix(h, 0) \in Seq(Chunk) /\ Len(Prefix(h, 0)) = 0
  BY PrefixType, SizeAssumption
<1> QED
  BY <1>1, EmptySeq

(* A write at the end of a prefix makes the next one.                      *)
LEMMA PrefixGrows ==
  ASSUME NEW h \in Helpers, NEW n \in 0..Size, n < Size
  PROVE  WriteAt(Prefix(h, n), n + 1, <<h, n + 1>>) = Prefix(h, n + 1)
<1>1. n \in Nat /\ Len(Prefix(h, n)) = n
  BY PrefixType, SizeAssumption
<1>2. \A i \in 1..(n + 1) : i # n + 1 => i <= n /\ i \in 1..n
  BY <1>1
<1>3. \A i \in 1..n : Prefix(h, n)[i] = <<h, i>>
  BY DEF Prefix
<1>4. (IF n + 1 > n THEN n + 1 ELSE n) = n + 1
  BY <1>1
<1>5. WriteAt(Prefix(h, n), n + 1, <<h, n + 1>>) =
        [i \in 1..(n + 1) |-> IF i = n + 1 THEN <<h, n + 1>>
                              ELSE IF i <= n THEN Prefix(h, n)[i] ELSE Hole]
  BY <1>1, <1>4 DEF WriteAt
<1> QED
  BY <1>2, <1>3, <1>5 DEF Prefix

LEMMA WholeIsPrefix ==
  ASSUME NEW h \in Helpers
  PROVE  Whole(h) = Prefix(h, Size)
  BY DEF Whole, Prefix

(* What a loss of power leaves of a file is a file.                        *)
LEMMA CutType ==
  ASSUME NEW s \in Seq(Chunk), NEW k \in 0..Size
  PROVE  SubSeq(s, 1, IF k < Len(s) THEN k ELSE Len(s)) \in Seq(Chunk)
<1> DEFINE m == IF k < Len(s) THEN k ELSE Len(s)
<1>1. Len(s) \in Nat /\ s \in [1..Len(s) -> Chunk]
  BY LenProperties
<1>2. m \in Int /\ m <= Len(s)
  BY <1>1, SizeAssumption
<1>3. \A i \in 1..m : s[i] \in Chunk
  BY <1>1, <1>2
<1> HIDE DEF m
<1>4. SubSeq(s, 1, m) \in Seq(Chunk)
  BY <1>2, <1>3, SubSeqProperties
<1> QED
  BY <1>4 DEF m

(* With different names, what has a helper's name is its file.             *)
LEMMA OwnName ==
  ASSUME Distinct, Inductive, NEW h \in Helpers
  PROVE  /\ NameOf[h] \in Names
         /\ part[NameOf[h]] \in {NoOne, h}
         /\ final[NameOf[h]] \in {NoOne, h}
         /\ before[NameOf[h]] \in {NoOne, h}
  BY NameOfAssumption DEF Distinct, Inductive, OwnEntries

(***************************************************************************)
(* The invariant                                                           *)
(***************************************************************************)

LEMMA InitInductive == Init => Inductive
<1> SUFFICES ASSUME Init PROVE Inductive
  OBVIOUS
<1>1. TypeOK
  BY EmptySeq, SizeAssumption, BoundsAssumption DEF Init, TypeOK, WriterStates, Entry
<1>2. OwnEntries /\ OwnFile /\ EndIsEnd /\ WrittenInOrder
  BY RemoteAssumption DEF Init, OwnEntries, OwnFile, EndIsEnd, WrittenInOrder
<1>3. Unpublished /\ Published /\ GoodIsThrough /\ NoLitter
  BY NameOfAssumption DEF Init, Unpublished, Published, GoodIsThrough, NoLitter
<1> QED
  BY <1>1, <1>2, <1>3 DEF Inductive

(* The helper moves on; nothing is written.                                *)
LEMMA HelperStep ==
  ASSUME Inductive, NEW h \in Helpers,
         Begin(h) \/ Send(h) \/ SendEnd(h) \/ HelperFails(h) \/ Succeed(h)
  PROVE  Inductive'
<1> USE DEF Inductive
<1>1. UNCHANGED <<handle, offset, directory, data, synced, counters>>
  BY DEF Begin, Send, SendEnd, HelperFails, Succeed
<1>2. \A g \in Helpers : \/ writer'[g] = writer[g]
                         \/ writer[g] \in Busy /\ writer'[g] = "left"
  BY DEF Begin, Send, SendEnd, HelperFails, Succeed, TypeOK
<1>3. TypeOK'
  <2>1. helper' \in [Helpers -> {"idle", "sending", "awaiting", "good", "bad"}]
    BY DEF Begin, Send, SendEnd, HelperFails, Succeed, TypeOK
  <2>2. sent' \in [Helpers -> 0..Size]
    <3>1. Send(h) => sent' \in [Helpers -> 0..Size]
      BY SizeAssumption DEF Send, TypeOK
    <3>2. ~ Send(h) => sent' = sent
      BY DEF Begin, SendEnd, HelperFails, Succeed
    <3> QED
      BY <3>1, <3>2 DEF TypeOK
  <2>4. body' \in [Helpers -> {"open", "eof", "broken"}]
    BY DEF Begin, Send, SendEnd, HelperFails, Succeed, TypeOK
  <2>3. writer' \in [Helpers -> WriterStates]
    BY DEF Begin, Send, SendEnd, HelperFails, Succeed, TypeOK, WriterStates
  <2> QED
    BY <1>1, <2>1, <2>2, <2>3, <2>4 DEF TypeOK, directory, counters
<1>4. OwnEntries'
  BY <1>1 DEF OwnEntries, directory
<1>5. OwnFile'
  BY <1>1, <1>2 DEF OwnFile, Busy
<1>6. EndIsEnd'
  BY SizeAssumption, RemoteAssumption
  DEF Begin, Send, SendEnd, AllSent, HelperFails, Succeed, EndIsEnd, TypeOK
<1>7. WrittenInOrder'
  BY <1>1, <1>2 DEF WrittenInOrder
<1>8. Unpublished'
  BY <1>1, <1>2 DEF Unpublished, Busy, directory
<1>9. Published'
  BY <1>1, <1>2 DEF Published, directory
<1>10. GoodIsThrough'
  BY <1>2 DEF Begin, Send, SendEnd, HelperFails, Succeed, Reported, GoodIsThrough, TypeOK, Busy
<1>11. NoLitter'
  BY <1>1, <1>2 DEF NoLitter, Busy, directory, counters
<1> QED
  BY <1>3, <1>4, <1>5, <1>6, <1>7, <1>8, <1>9, <1>10, <1>11

(* The writer of h moves on without touching a file or a name.             *)
LEMMA WriterMovesStep ==
  ASSUME Inductive, NEW h \in Helpers,
         Refuse(h) \/ EndOfBody(h) \/ Sync(h) \/ WriterFails(h)
  PROVE  Inductive'
<1> USE DEF Inductive
<1>1. UNCHANGED <<sender, handle, offset, directory, data, counters>>
  BY DEF Refuse, EndOfBody, Sync, WriterFails
<1>2. \A g \in Helpers : g # h => writer'[g] = writer[g]
  BY DEF Refuse, EndOfBody, Sync, WriterFails, TypeOK
<1>3. \/ writer[h] = "none" /\ writer'[h] = "refused" /\ synced' = synced
      \/ writer[h] = "writing" /\ AtEnd(h) /\ writer'[h] = "sync" /\ synced' = synced
      \/ writer[h] = "sync" /\ writer'[h] = "rename" /\ synced' = synced \cup {handle[h]}
      \/ writer[h] \in Busy /\ writer'[h] = "abort" /\ synced' = synced
  BY DEF Refuse, EndOfBody, Sync, OnDisk, WriterFails, Raises, TypeOK, Busy
<1>4. writer[h] = "sync" => handle[h] = h
  BY DEF OwnFile
<1>5. AtEnd(h) => offset[h] = Size
  BY DEF AtEnd, Available, EndIsEnd
<1>6. TypeOK'
  <2>1. writer' \in [Helpers -> WriterStates]
    BY DEF Refuse, EndOfBody, Sync, WriterFails, TypeOK, WriterStates, Busy
  <2>2. synced' \subseteq Helpers
    BY <1>3, <1>4 DEF TypeOK
  <2> QED
    BY <1>1, <2>1, <2>2 DEF TypeOK, sender, directory, counters
<1>7. OwnEntries' /\ EndIsEnd'
  BY <1>1 DEF OwnEntries, EndIsEnd, directory, sender
<1>8. OwnFile'
  BY <1>1, <1>2, <1>3 DEF OwnFile, Busy
<1>9. WrittenInOrder'
  BY <1>1, <1>2, <1>3, <1>4, <1>5 DEF WrittenInOrder, Busy
<1>10. Unpublished'
  BY <1>1, <1>2, <1>3 DEF Unpublished, Busy, directory
<1>11. Published'
  BY <1>1, <1>2, <1>3 DEF Published, directory
<1>12. GoodIsThrough'
  BY <1>1, <1>2, <1>3 DEF GoodIsThrough, sender, Busy
<1>13. NoLitter'
  BY <1>1, <1>2, <1>3 DEF NoLitter, Busy, directory, counters
<1> QED
  BY <1>6, <1>7, <1>8, <1>9, <1>10, <1>11, <1>12, <1>13

(* The file that h opens is its own, new or from an attempt of its own.    *)
LEMMA OpenStep ==
  ASSUME Distinct, Inductive, NEW h \in Helpers, Open(h)
  PROVE  Inductive'
<1> USE DEF Inductive
<1>1. /\ writer[h] = "none" /\ offset[h] = 0
      /\ writer' = [writer EXCEPT ![h] = "writing"]
      /\ handle' = [handle EXCEPT ![h] = h]
      /\ part' = [part EXCEPT ![NameOf[h]] = h]
      /\ data' = [data EXCEPT ![h] = <<>>]
      /\ synced' = synced \ {h}
      /\ UNCHANGED <<sender, offset, final, before, removed, counters>>
  BY OwnName DEF Open, OwnFile
<1>2. TypeOK'
  BY <1>1, EmptySeq, OwnName DEF TypeOK, WriterStates, Busy, Entry, sender, counters
<1>3. OwnEntries'
  BY <1>1 DEF OwnEntries, TypeOK
<1>4. OwnFile' /\ EndIsEnd'
  BY <1>1 DEF OwnFile, EndIsEnd, TypeOK, sender
<1>5. WrittenInOrder'
  <2>1. data'[h] = Prefix(h, offset'[h]) /\ writer'[h] = "writing"
    BY <1>1, PrefixEmpty DEF TypeOK
  <2>2. \A g \in Helpers \ {h} : /\ writer'[g] = writer[g] /\ data'[g] = data[g]
                                 /\ offset'[g] = offset[g] /\ (g \in synced => g \in synced')
    BY <1>1 DEF TypeOK
  <2> QED
    BY <2>1, <2>2 DEF WrittenInOrder
<1>6. Unpublished' /\ Published' /\ GoodIsThrough'
  BY <1>1 DEF Unpublished, Published, GoodIsThrough, TypeOK, sender
<1>7. NoLitter'
  BY <1>1 DEF NoLitter, Busy, TypeOK, counters
<1> QED
  BY <1>2, <1>3, <1>4, <1>5, <1>6, <1>7

LEMMA WriteStep ==
  ASSUME Inductive, NEW h \in Helpers, Write(h)
  PROVE  Inductive'
<1> USE DEF Inductive
<1>1. offset[h] \in 0..Size /\ offset[h] < Size
  <2>1. offset[h] \in 0..Size /\ Available(h) \in 0..Size
    BY SizeAssumption DEF Available, TypeOK
  <2> QED
    BY <2>1, SizeAssumption DEF Write
<1>2. data[h] = Prefix(h, offset[h]) /\ handle[h] = h /\ writer[h] = "writing"
  BY DEF Write, WrittenInOrder, OwnFile
<1>3. /\ offset' = [offset EXCEPT ![h] = offset[h] + 1]
      /\ data' = [data EXCEPT ![h] = Prefix(h, offset[h] + 1)]
      /\ synced' = synced \ {h}
      /\ UNCHANGED <<sender, writer, handle, directory, counters>>
  BY <1>1, <1>2, PrefixGrows DEF Write, TypeOK
<1>4. offset[h] + 1 \in 0..Size
  BY <1>1, SizeAssumption
<1>5. TypeOK'
  BY <1>3, <1>4, PrefixType DEF TypeOK, sender, directory, counters
<1>6. OwnEntries' /\ OwnFile' /\ EndIsEnd'
  BY <1>2, <1>3 DEF OwnEntries, OwnFile, EndIsEnd, TypeOK, sender, directory
<1>7. WrittenInOrder'
  <2>1. data'[h] = Prefix(h, offset'[h])
    BY <1>3 DEF TypeOK
  <2>2. \A g \in Helpers \ {h} : /\ data'[g] = data[g] /\ offset'[g] = offset[g]
                                 /\ (g \in synced => g \in synced')
    BY <1>3 DEF TypeOK
  <2> QED
    BY <1>2, <1>3, <2>1, <2>2 DEF WrittenInOrder
<1>8. Unpublished' /\ Published' /\ GoodIsThrough' /\ NoLitter'
  BY <1>2, <1>3 DEF Unpublished, Published, GoodIsThrough, NoLitter, TypeOK, sender,
                    directory, counters
<1> QED
  BY <1>5, <1>6, <1>7, <1>8

(* The file that gets the final name is h's, whole and synced.             *)
LEMMA RenameStep ==
  ASSUME Distinct, Inductive, NEW h \in Helpers, Rename(h)
  PROVE  Inductive' /\ final' = [final EXCEPT ![NameOf[h]] = h]
<1> USE DEF Inductive
<1>1. NameOf[h] \in Names /\ part[NameOf[h]] = h
  BY OwnName DEF Rename
<1>2. /\ writer[h] = "rename" /\ h \in synced /\ data[h] = Whole(h)
      /\ final[NameOf[h]] = NoOne
  BY WholeIsPrefix DEF Rename, WrittenInOrder, Unpublished
<1>3. /\ before' = [before EXCEPT ![NameOf[h]] = NoOne]
      /\ final' = [final EXCEPT ![NameOf[h]] = h]
      /\ part' = [part EXCEPT ![NameOf[h]] = NoOne]
      /\ writer' = [writer EXCEPT ![h] = "stored"]
      /\ UNCHANGED <<sender, handle, offset, removed, data, synced, counters>>
  BY <1>1, <1>2 DEF Rename
<1>4. \A g \in Helpers \ {h} : NameOf[g] # NameOf[h] /\ NameOf[g] \in Names
  BY NameOfAssumption DEF Distinct
<1>5. TypeOK'
  BY <1>3 DEF TypeOK, WriterStates, Entry, sender, counters
<1>6. OwnEntries'
  BY <1>1, <1>3 DEF OwnEntries, TypeOK
<1>7. OwnFile' /\ EndIsEnd' /\ WrittenInOrder'
  BY <1>2, <1>3 DEF OwnFile, EndIsEnd, WrittenInOrder, TypeOK, sender
<1>8. Unpublished'
  BY <1>1, <1>3, <1>4 DEF Unpublished, TypeOK
<1>9. Published'
  BY <1>1, <1>2, <1>3, <1>4 DEF Published, TypeOK
<1>10. GoodIsThrough'
  BY <1>3 DEF GoodIsThrough, TypeOK, sender
<1>11. NoLitter'
  <2>1. \A n \in Names : part'[n] # NoOne => n # NameOf[h] /\ part'[n] = part[n]
    BY <1>1, <1>3 DEF TypeOK
  <2> QED
    BY <1>3, <2>1 DEF NoLitter, TypeOK, counters
<1> QED
  BY <1>3, <1>5, <1>6, <1>7, <1>8, <1>9, <1>10, <1>11

LEMMA AbortStep ==
  ASSUME Inductive, NEW h \in Helpers, Abort(h)
  PROVE  Inductive'
<1> USE DEF Inductive
<1>1. NameOf[h] \in Names
  BY NameOfAssumption
<1>2. UNCHANGED <<sender, handle, offset, final, before, removed, data, synced, counters>>
  BY DEF Abort
<1>3. /\ writer[h] = "abort" /\ writer'[h] \in {"aborted", "left"}
      /\ \A g \in Helpers \ {h} : writer'[g] = writer[g]
      /\ writer' \in [Helpers -> WriterStates]
  BY DEF Abort, TypeOK, WriterStates
<1>4. /\ \A n \in Names : part'[n] \in {part[n], NoOne}
      /\ part' \in [Names -> Entry]
      /\ part'[NameOf[h]] = NoOne \/ writer'[h] = "left"
  BY <1>1 DEF Abort, Unlinked, TypeOK, Entry
<1>5. TypeOK'
  BY <1>2, <1>3, <1>4 DEF TypeOK, sender, counters
<1>6. OwnEntries'
  BY <1>2, <1>4 DEF OwnEntries
<1>7. OwnFile' /\ EndIsEnd' /\ WrittenInOrder'
  BY <1>2, <1>3 DEF OwnFile, EndIsEnd, WrittenInOrder, sender
<1>8. Unpublished' /\ Published' /\ GoodIsThrough'
  BY <1>2, <1>3 DEF Unpublished, Published, GoodIsThrough, sender
<1>9. NoLitter'
  <2>1. \A g \in Helpers : writer[g] \in Busy \cup {"left"} =>
          writer'[g] \in Busy \cup {"left"} \/ part'[NameOf[g]] = NoOne
    BY <1>3, <1>4 DEF Busy
  <2> QED
    BY <1>2, <1>4, <2>1 DEF NoLitter, counters
<1> QED
  BY <1>5, <1>6, <1>7, <1>8, <1>9

LEMMA DeleteStep ==
  ASSUME Inductive, NEW n \in Names, Delete(n)
  PROVE  Inductive'
<1> USE DEF Inductive
<1>1. /\ before' = [before EXCEPT ![n] = final[n]]
      /\ final' = [final EXCEPT ![n] = NoOne]
      /\ removed' = removed \cup {n}
      /\ UNCHANGED <<sender, writer, handle, offset, part, data, synced, powerLosses, agentRestarts>>
  BY DEF Delete
<1>2. TypeOK'
  <2>1. deletes' \in 0..MaxDeletes
    BY BoundsAssumption DEF Delete, TypeOK
  <2> QED
    BY <1>1, <2>1 DEF TypeOK, Entry, sender
<1>3. OwnEntries'
  BY <1>1 DEF OwnEntries, TypeOK
<1>4. OwnFile' /\ EndIsEnd' /\ WrittenInOrder' /\ GoodIsThrough' /\ NoLitter'
  BY <1>1 DEF OwnFile, EndIsEnd, WrittenInOrder, GoodIsThrough, NoLitter, sender
<1>5. Unpublished'
  BY <1>1, NameOfAssumption DEF Unpublished, TypeOK
<1>6. Published'
  BY <1>1, NameOfAssumption DEF Published, TypeOK
<1> QED
  BY <1>2, <1>3, <1>4, <1>5, <1>6

LEMMA AgentRestartStep ==
  ASSUME Inductive, AgentRestart
  PROVE  Inductive'
<1> USE DEF Inductive
<1>1. UNCHANGED <<helper, sent, handle, offset, directory, data, synced, deletes, powerLosses>>
  BY DEF AgentRestart
<1>2. \A h \in Helpers : \/ writer'[h] = writer[h]
                         \/ writer[h] = "none" /\ writer'[h] = "refused"
                         \/ writer[h] \in Busy /\ writer'[h] = "left"
  BY DEF AgentRestart, Stranded
<1>3. \A h \in Helpers : body'[h] = body[h] \/ body'[h] = "broken"
  BY DEF AgentRestart, Broken
<1>4. TypeOK'
  <2>1. agentRestarts' \in 0..MaxRestarts
    BY BoundsAssumption DEF AgentRestart, TypeOK
  <2>2. writer' \in [Helpers -> WriterStates]
    BY DEF AgentRestart, Stranded, TypeOK, WriterStates
  <2>3. body' \in [Helpers -> {"open", "eof", "broken"}]
    BY DEF AgentRestart, Broken, TypeOK
  <2> QED
    BY <1>1, <2>1, <2>2, <2>3 DEF TypeOK, directory
<1>5. OwnEntries' /\ EndIsEnd'
  BY <1>1, <1>3, RemoteAssumption DEF OwnEntries, EndIsEnd, directory
<1>6. OwnFile' /\ WrittenInOrder'
  BY <1>1, <1>2 DEF OwnFile, WrittenInOrder, Busy
<1>7. Unpublished' /\ Published' /\ GoodIsThrough'
  BY <1>1, <1>2 DEF Unpublished, Published, GoodIsThrough, Busy, directory
<1>8. NoLitter'
  BY <1>1, <1>2 DEF NoLitter, Busy, directory
<1> QED
  BY <1>4, <1>5, <1>6, <1>7, <1>8

(* A loss of power cuts only files that never had their final name.        *)
LEMMA PowerLossStep ==
  ASSUME Inductive, PowerLoss
  PROVE  Inductive'
<1> USE DEF Inductive
<1>1. UNCHANGED <<sent, handle, offset, synced, deletes, agentRestarts>>
      /\ removed' = Names /\ before' = final'
  BY DEF PowerLoss
<1>2. \A h \in Helpers : \/ writer'[h] = writer[h] /\ writer[h] \notin Busy
                         \/ writer[h] = "none" /\ writer'[h] = "refused"
                         \/ writer[h] \in Busy /\ writer'[h] = "left"
  BY DEF PowerLoss, Stranded, Busy
<1>3. /\ body' \in [Helpers -> {"open", "eof", "broken"}]
      /\ \A h \in Helpers : body'[h] = body[h] \/ body'[h] = "broken"
  BY DEF PowerLoss, Broken, TypeOK
<1>4. /\ data' \in [Helpers -> Seq(Chunk)]
      /\ \A i \in synced : data'[i] = data[i]
  BY CutType DEF PowerLoss, TypeOK
<1>5. /\ final' \in [Names -> Entry] /\ part' \in [Names -> Entry]
      /\ \A n \in Names : final'[n] \in {final[n], before[n]} /\ part'[n] \in {part[n], final[n]}
  BY DEF PowerLoss, TypeOK
<1>6. /\ helper' \in [Helpers -> {"idle", "sending", "awaiting", "good", "bad"}]
      /\ \A h \in Helpers : helper'[h] = helper[h] \/ helper'[h] = "bad"
  BY DEF PowerLoss, TypeOK
<1>7. TypeOK'
  <2>1. powerLosses' \in 0..MaxPowerLosses
    BY BoundsAssumption DEF PowerLoss, TypeOK
  <2>2. writer' \in [Helpers -> WriterStates]
    BY DEF PowerLoss, Stranded, TypeOK, WriterStates
  <2> QED
    BY <1>1, <1>3, <1>4, <1>5, <1>6, <2>1, <2>2 DEF TypeOK
<1>8. OwnEntries'
  BY <1>1, <1>5 DEF OwnEntries
<1>9. OwnFile' /\ EndIsEnd' /\ WrittenInOrder'
  BY <1>1, <1>2, <1>3, RemoteAssumption DEF OwnFile, EndIsEnd, WrittenInOrder, Busy
<1>10. Unpublished'
  BY <1>1, <1>2, <1>5, NameOfAssumption DEF Unpublished, Busy
<1>11. Published'
  BY <1>1, <1>2, <1>4, NameOfAssumption DEF Published
<1>12. GoodIsThrough'
  BY <1>2, <1>6 DEF GoodIsThrough, Busy
<1>13. NoLitter'
  <2>1. powerLosses' # 0
    BY DEF PowerLoss, TypeOK
  <2> QED
    BY <2>1 DEF NoLitter
<1> QED
  BY <1>7, <1>8, <1>9, <1>10, <1>11, <1>12, <1>13

LEMMA NextInductive ==
  ASSUME Distinct
  PROVE  Inductive /\ [Next]_vars => Inductive'
<1> SUFFICES ASSUME Inductive, [Next]_vars PROVE Inductive'
  OBVIOUS
<1>1. CASE \E h \in Helpers : HelperSteps(h) \/ WriterSteps(h)
  BY <1>1, HelperStep, WriterMovesStep, OpenStep, WriteStep, RenameStep, AbortStep
  DEF HelperSteps, WriterSteps
<1>2. CASE \E n \in Names : Delete(n)
  BY <1>2, DeleteStep
<1>3. CASE AgentRestart \/ PowerLoss
  BY <1>3, AgentRestartStep, PowerLossStep
<1>4. CASE UNCHANGED vars
  BY <1>4 DEF vars, sender, directory, counters, Inductive, TypeOK, OwnEntries, OwnFile,
              EndIsEnd, WrittenInOrder, Unpublished, Published, GoodIsThrough, NoLitter
<1> QED
  BY <1>1, <1>2, <1>3, <1>4 DEF Next

(* The invariant that the theorems below are read off from.                *)
THEOREM InductiveInvariant ==
  ASSUME Distinct
  PROVE  Spec => []Inductive
  BY InitInductive, NextInductive, PTL DEF Spec

(* The variables of the transfers keep their types.                        *)
THEOREM TypeCorrect ==
  ASSUME Distinct
  PROVE  Spec => []TypeOK
<1>1. Inductive => TypeOK
  BY DEF Inductive
<1> QED
  BY <1>1, InductiveInvariant, PTL

(* Without a loss of power, a .part file has a writer, or was left by a    *)
(* process that was killed or could not remove it.                         *)
THEOREM NothingLeft ==
  ASSUME Distinct
  PROVE  Spec => []NoLitter
<1>1. Inductive => NoLitter
  BY DEF Inductive
<1> QED
  BY <1>1, InductiveInvariant, PTL

(* A helper that reports success finds its archive whole under its name,   *)
(* unless that was deleted or lost meanwhile.                              *)
THEOREM SuccessIsStored ==
  ASSUME Distinct
  PROVE  Spec => GoodIsStored
<1>1. ASSUME Inductive, [Next]_vars, NEW h \in Helpers,
             helper[h] # "good", helper'[h] = "good"
      PROVE  \/ final[NameOf[h]] # NoOne /\ data[final[NameOf[h]]] = Whole(h)
             \/ NameOf[h] \in removed
  <2>1. Succeed(h)
    BY <1>1 DEF Next, HelperSteps, WriterSteps, Begin, Send, SendEnd, HelperFails, Succeed,
                Open, Refuse, Write, EndOfBody, Sync, Rename, WriterFails, Abort, Delete,
                AgentRestart, PowerLoss, vars, sender, Inductive, TypeOK
  <2>2. writer[h] = "stored"
    BY <2>1 DEF Succeed, Reported
  <2> QED
    BY <1>1, <2>2, NoOneAssumption DEF Inductive, Published
<1>2. Inductive /\ [Next]_vars =>
        [\A h \in Helpers :
           helper[h] # "good" /\ helper'[h] = "good" =>
             \/ final[NameOf[h]] # NoOne /\ data[final[NameOf[h]]] = Whole(h)
             \/ NameOf[h] \in removed]_vars
  BY <1>1
<1> QED
  BY <1>2, InductiveInvariant, PTL DEF Spec, GoodIsStored

(***************************************************************************)
(* The refinement                                                          *)
(***************************************************************************)

(* What is under a name is whole, so ArchiveStore sees what is there.      *)
LEMMA StoredIsFinal ==
  ASSUME Distinct, Inductive, NEW n \in Names
  PROVE  Stored(n) = final[n]
<1>1. CASE final[n] = NoOne
  BY <1>1 DEF Stored
<1>2. CASE final[n] # NoOne
  <2> DEFINE e == final[n]
             makers == {h \in Helpers : NameOf[h] = n /\ data[e] = Whole(h)}
  <2>1. e \in Helpers /\ NameOf[e] = n
    BY <1>2 DEF Inductive, OwnEntries
  <2>2. data[e] = Whole(e)
    BY <1>2, <2>1 DEF Inductive, Unpublished, Published
  <2>3. makers = {e}
    BY <2>1, <2>2 DEF Distinct
  <2>4. Stored(n) = CHOOSE h \in makers : TRUE
    BY <1>2, <2>3 DEF Stored
  <2> HIDE DEF makers, e
  <2>5. (CHOOSE h \in {e} : TRUE) = e
    OBVIOUS
  <2> QED
    BY <2>3, <2>4, <2>5 DEF e
<1> QED
  BY <1>1, <1>2

Archive == [n \in Names |-> Stored(n)]
Verdicts == [h \in Helpers |-> IF helper[h] \in {"good", "bad"} THEN helper[h] ELSE "pending"]

LEMMA ArchiveIsFinal ==
  ASSUME Distinct
  PROVE  Inductive => Archive = final
  BY StoredIsFinal DEF Inductive, TypeOK, Archive

LEMMA ArchiveIsFinalNext ==
  ASSUME Distinct
  PROVE  (Inductive => Archive = final)'
  BY ArchiveIsFinal, PTL

LEMMA InitRefines == Init => Store!Init
<1> SUFFICES ASSUME Init PROVE Store!Init
  OBVIOUS
<1>1. \A n \in Names : Stored(n) = NoOne
  BY DEF Init, Stored
<1> QED
  BY <1>1 DEF Init, Store!Init

(* Renaming stores, a helper's end succeeds or fails, and the rest is not  *)
(* seen.                                                                   *)
LEMMA NextRefines ==
  ASSUME Distinct
  PROVE  Inductive /\ Inductive' /\ [Next]_vars => [Store!Next]_Store!vars
<1> SUFFICES ASSUME Inductive, Inductive', [Next]_vars
             PROVE  [Store!Next]_Store!vars
  OBVIOUS
<1> USE DEF Inductive
<1>1. Archive = final /\ Archive' = final'
  BY ArchiveIsFinal, ArchiveIsFinalNext
<1>2. ASSUME NEW h \in Helpers, Rename(h)
      PROVE  Store!Store(h)
  <2>1. final' = [final EXCEPT ![NameOf[h]] = h]
    BY <1>2, RenameStep
  <2>2. Verdicts[h] # "good" /\ UNCHANGED <<helper, removed>>
    BY <1>2 DEF Rename, Verdicts, GoodIsThrough, sender
  <2> QED
    BY <1>1, <2>1, <2>2 DEF Store!Store, Archive, Verdicts
<1>3. ASSUME NEW h \in Helpers, Succeed(h)
      PROVE  Store!Succeed(h)
  <2>1. final[NameOf[h]] = h \/ NameOf[h] \in removed
    BY <1>3 DEF Succeed, Reported, Published
  <2>2. Verdicts[h] = "pending" /\ Verdicts' = [Verdicts EXCEPT ![h] = "good"]
    BY <1>3 DEF Succeed, Verdicts, TypeOK
  <2>3. UNCHANGED <<final, removed>>
    BY <1>3 DEF Succeed, directory
  <2> QED
    BY <1>1, <2>1, <2>2, <2>3 DEF Store!Succeed, Archive, Verdicts
<1>4. ASSUME NEW h \in Helpers, HelperFails(h)
      PROVE  Store!Fail(h)
  <2>1. Verdicts[h] = "pending" /\ Verdicts' = [Verdicts EXCEPT ![h] = "bad"]
    BY <1>4 DEF HelperFails, Verdicts, TypeOK
  <2>2. UNCHANGED <<final, removed>>
    BY <1>4 DEF HelperFails, directory
  <2> QED
    BY <1>1, <2>1, <2>2 DEF Store!Fail, Archive, Verdicts
<1>5. ASSUME NEW n \in Names, Delete(n)
      PROVE  Store!Delete(n)
  <2>1. UNCHANGED helper
    BY <1>5 DEF Delete, sender
  <2> QED
    BY <1>1, <1>5, <2>1 DEF Delete, Store!Delete, Archive
<1>6. ASSUME PowerLoss
      PROVE  Store!PowerLoss
  <2>1. final' \in [Names -> Helpers \cup {NoOne}]
        /\ \A n \in Names : final'[n] # NoOne => NameOf[final'[n]] = n
    BY DEF TypeOK, Entry, OwnEntries
  <2>2. removed' = Names
    BY <1>6 DEF PowerLoss
  <2>3. Verdicts' \in [Helpers -> {"pending", "good", "bad"}]
    BY DEF Verdicts, TypeOK
  <2>4. \A h \in Helpers : Verdicts'[h] # Verdicts[h] =>
          Verdicts[h] = "pending" /\ Verdicts'[h] = "bad"
    BY <1>6 DEF PowerLoss, Verdicts
  <2> QED
    BY <1>1, <2>1, <2>2, <2>3, <2>4 DEF Store!PowerLoss, Archive, Verdicts
<1>7. ASSUME UNCHANGED <<final, removed>>, Verdicts' = Verdicts
      PROVE  UNCHANGED Store!vars
  BY <1>1, <1>7 DEF Store!vars, Archive, Verdicts
<1>8. ASSUME NEW h \in Helpers,
             Begin(h) \/ Send(h) \/ SendEnd(h) \/ Open(h) \/ Refuse(h) \/ Write(h)
               \/ EndOfBody(h) \/ Sync(h) \/ WriterFails(h) \/ Abort(h)
      PROVE  UNCHANGED Store!vars
  <2>1. UNCHANGED <<final, removed>>
    BY <1>8 DEF Begin, Send, SendEnd, Open, Refuse, Write, EndOfBody, Sync, WriterFails,
                Abort, directory
  <2>2. Verdicts' = Verdicts
    BY <1>8 DEF Begin, Send, SendEnd, Open, Refuse, Write, EndOfBody, Sync, WriterFails,
                Abort, sender, Verdicts, TypeOK
  <2> QED
    BY <1>7, <2>1, <2>2
<1>9. ASSUME AgentRestart \/ UNCHANGED vars
      PROVE  UNCHANGED Store!vars
  BY <1>7, <1>9 DEF AgentRestart, vars, directory, sender, Verdicts
<1>10. CASE \E h \in Helpers : HelperSteps(h) \/ WriterSteps(h)
  BY <1>2, <1>3, <1>4, <1>8, <1>10 DEF HelperSteps, WriterSteps, Store!Next
<1> QED
  BY <1>5, <1>6, <1>9, <1>10 DEF Next, Store!Next

(* Whatever is lost or restarted, the directory only ever holds whole      *)
(* archives: the transfers implement the abstract store.                   *)
THEOREM ImplementsStore ==
  ASSUME Distinct
  PROVE  Spec => StoreSpec
  BY InitRefines, NextRefines, InductiveInvariant, PTL DEF Spec, StoreSpec, Store!Spec
=============================================================================
