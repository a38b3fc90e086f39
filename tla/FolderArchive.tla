--------------------------- MODULE FolderArchive ----------------------------
(***************************************************************************)
(* The download of a folder (files.folder_archive): a thread packs the     *)
(* folder into a bounded queue, and the response iterates a generator that *)
(* empties it.  The thread looks at `aborted` once a second while the      *)
(* queue is full; the generator sets it in a finally.                      *)
(*                                                                         *)
(* The thread is started with the generator's creation.  A generator that  *)
(* was never asked for its first chunk has no finally to run.              *)
(***************************************************************************)
EXTENDS Integers

CONSTANTS
  QueueLimit,  \* the queue's maxsize
  MaxChunks    \* bound: chunks of the folder

FolderSane == {QueueLimit, MaxChunks} \subseteq Nat

VARIABLES
  producer,   \* where the thread is
  packed,     \* chunks it has packed
  fifo,       \* chunks in the queue
  none,       \* the None at its end
  aborted,    \* sink.aborted
  generator,  \* the generator
  taken       \* chunks the response has sent

archiveVars == <<producer, packed, fifo, none, aborted, generator, taken>>

Init ==
  /\ producer = "packing"
  /\ packed = 0
  /\ fifo = 0
  /\ none = FALSE
  /\ aborted = FALSE
  /\ generator = "new"
  /\ taken = 0

HasRoom == fifo + (IF none THEN 1 ELSE 0) < QueueLimit

(* produce: write a chunk into the sink, or give up.                       *)
Pack ==
  /\ producer = "packing" /\ ~aborted /\ packed < MaxChunks /\ HasRoom
  /\ packed' = packed + 1
  /\ fifo' = fifo + 1
  /\ UNCHANGED <<producer, none, aborted, generator, taken>>
GivesUp_Never == FALSE
GivesUp == aborted
GiveUp ==
  /\ producer \in {"packing", "finally"} /\ GivesUp
  /\ producer' = "ended"
  /\ UNCHANGED <<packed, fifo, none, aborted, generator, taken>>

(* The folder is packed, or could not be read any further: None ends it.   *)
Packed ==
  /\ producer = "packing" /\ ~aborted
  /\ producer' = "finally"
  /\ UNCHANGED <<packed, fifo, none, aborted, generator, taken>>
PutEnd ==
  /\ producer = "finally" /\ ~aborted /\ HasRoom
  /\ none' = TRUE
  /\ producer' = "ended"
  /\ UNCHANGED <<packed, fifo, aborted, generator, taken>>

(* chunks: the response asks for the next one.                             *)
TakeChunk ==
  /\ generator \in {"new", "running"}
  /\ \/ /\ fifo > 0
        /\ fifo' = fifo - 1 /\ taken' = taken + 1
        /\ generator' = "running"
        /\ UNCHANGED <<none, aborted>>
     \/ /\ fifo = 0 /\ none
        /\ none' = FALSE
        /\ generator' = "finished" /\ aborted' = TRUE
        /\ UNCHANGED <<fifo, taken>>
  /\ UNCHANGED <<producer, packed>>

(* The client goes away: the generator is closed, with its finally if it   *)
(* has ever run.                                                           *)
ClientLeaves ==
  /\ generator \in {"new", "running"}
  /\ generator' = IF generator = "new" THEN "skipped" ELSE "closed"
  /\ aborted' = (generator = "running")
  /\ UNCHANGED <<producer, packed, fifo, none, taken>>

ProducerSteps == GiveUp \/ Packed \/ PutEnd
Next == Pack \/ ProducerSteps \/ TakeChunk \/ ClientLeaves

Spec == Init /\ [][Next]_archiveVars
FairSpec == Spec /\ WF_archiveVars(ProducerSteps)

-----------------------------------------------------------------------------
(* Every variable has its type.                                            *)
TypeOK ==
  /\ producer \in {"packing", "finally", "ended"}
  /\ packed \in 0..MaxChunks /\ fifo \in 0..QueueLimit
  /\ none \in BOOLEAN /\ aborted \in BOOLEAN
  /\ generator \in {"new", "running", "finished", "closed", "skipped"}
  /\ taken \in 0..MaxChunks

(* A download that ends, however it does, has to end the thread, unless    *)
(* nobody had asked it for anything; one that finishes has sent all of it. *)
DownloadOver == generator \in {"finished", "closed"}
ProducerOver == producer = "ended"
AllSent == generator = "finished" => taken = packed

(* What makes it complete: a chunk that was packed is sent or in the queue *)
(* and the None comes after the last one; nothing is packed after it.      *)
Conserved == packed = taken + fifo
InOrder == /\ none => producer = "ended"
           /\ generator = "finished" => aborted /\ fifo = 0
Inductive == TypeOK /\ Conserved /\ InOrder
=============================================================================
