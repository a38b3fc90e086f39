----------------------------- MODULE LogStream ------------------------------
(***************************************************************************)
(* One viewer of a container's log (container_logs.stream): a thread reads *)
(* the daemon's stream and puts chunks in a bounded queue, a coroutine     *)
(* takes them out and sends them, another one waits for the viewer to      *)
(* leave.  The first of the coroutines to end ends the other, and then the *)
(* stream is closed.                                                       *)
(*                                                                         *)
(* Cancelling the sender does not stop the thread it waits for: that one   *)
(* still takes the next chunk out of the queue, and drops it.              *)
(***************************************************************************)
EXTENDS Integers

CONSTANTS QueueSize   \* the queue's maxsize

LogSane == QueueSize \in Nat

VARIABLES
  printing,  \* the container runs
  stream,    \* the daemon's stream: open or closed
  pump,      \* where the thread is
  queued,    \* chunks in the queue
  last,      \* the None at its end
  sender,    \* where the sender is: a thread for it is taking, or it is sending
  watching   \* the viewer is there

logVars == <<printing, stream, pump, queued, last, sender, watching>>

Init ==
  /\ printing = TRUE
  /\ stream = "open"
  /\ pump = "reading"
  /\ queued = 0
  /\ last = FALSE
  /\ sender = "taking"
  /\ watching = TRUE

Space == queued + (IF last THEN 1 ELSE 0) < QueueSize

(* pump: the next chunk, or the end of the log or of the stream.           *)
Chunk ==
  /\ pump = "reading" /\ printing /\ stream = "open"
  /\ pump' = "putting"
  /\ UNCHANGED <<printing, stream, queued, last, sender, watching>>
StreamOver_Deaf == ~printing
StreamOver == ~printing \/ stream = "closed"
EndOfStream ==
  /\ pump = "reading" /\ StreamOver
  /\ pump' = "finally"
  /\ UNCHANGED <<printing, stream, queued, last, sender, watching>>

\* Both puts wait as long as the queue is full.
Put ==
  /\ pump = "putting" /\ Space
  /\ queued' = queued + 1
  /\ pump' = "reading"
  /\ UNCHANGED <<printing, stream, last, sender, watching>>
PutNone ==
  /\ pump = "finally" /\ Space
  /\ last' = TRUE
  /\ pump' = "ended"
  /\ UNCHANGED <<printing, stream, queued, sender, watching>>

(* to_viewer; "abandoned" is the thread of a sender that was cancelled.    *)
Take ==
  /\ sender \in {"taking", "abandoned"}
  /\ \/ /\ queued > 0
        /\ queued' = queued - 1
        /\ sender' = IF sender = "taking" THEN "sending" ELSE "gone"
        /\ UNCHANGED last
     \/ /\ queued = 0 /\ last
        /\ last' = FALSE
        /\ sender' = IF sender = "taking" THEN "done" ELSE "gone"
        /\ UNCHANGED queued
  /\ UNCHANGED <<printing, stream, pump, watching>>

\* To a viewer who has left, a send may raise.
Send ==
  /\ sender = "sending"
  /\ \/ sender' = "taking"
     \/ ~watching /\ sender' = "done"
  /\ UNCHANGED <<printing, stream, pump, queued, last, watching>>

(* The container stops; the viewer leaves.                                 *)
ContainerStops ==
  /\ printing
  /\ printing' = FALSE
  /\ UNCHANGED <<stream, pump, queued, last, sender, watching>>
ViewerLeaves ==
  /\ watching
  /\ watching' = FALSE
  /\ UNCHANGED <<printing, stream, pump, queued, last, sender>>

(* asyncio.wait, the cancellation of the other task, and logs.close.       *)
Close ==
  /\ stream = "open"
  /\ ~watching \/ sender = "done"
  /\ stream' = "closed"
  /\ sender' = CASE sender = "taking" -> "abandoned"
                 [] sender = "sending" -> "gone"
                 [] sender \notin {"taking", "sending"} -> sender
  /\ UNCHANGED <<printing, pump, queued, last, watching>>

PumpSteps == EndOfStream \/ Put \/ PutNone
LogSteps == Take \/ Send
Next == Chunk \/ PumpSteps \/ LogSteps \/ Close \/ ContainerStops \/ ViewerLeaves

Spec == Init /\ [][Next]_logVars
FairSpec == Spec /\ WF_logVars(PumpSteps) /\ WF_logVars(LogSteps) /\ WF_logVars(Close)

-----------------------------------------------------------------------------
(* Every variable has its type.                                            *)
TypeOK ==
  /\ printing \in BOOLEAN /\ watching \in BOOLEAN /\ last \in BOOLEAN
  /\ stream \in {"open", "closed"}
  /\ pump \in {"reading", "putting", "finally", "ended"}
  /\ queued \in 0..QueueSize
  /\ sender \in {"taking", "abandoned", "sending", "done", "gone"}

(* When the viewer leaves, the stream is closed, which has to end the      *)
(* thread, unless it waits to put into a full queue that nobody reads any  *)
(* more: closing the stream does not wake it there.                        *)
Abandoned == pump \in {"putting", "finally"} /\ ~Space /\ sender \in {"gone", "done"}
ViewerGone == ~watching
PumpOver == pump = "ended" \/ Abandoned
=============================================================================
