---------------------------- MODULE ArchiveStore ----------------------------
(***************************************************************************)
(* What a backup destination promises, whoever writes to it: under each    *)
(* name there is nothing or one whole archive, put there at once; a helper *)
(* that reports success has its archive there, unless it was taken away.   *)
(***************************************************************************)
CONSTANTS
  Helpers,  \* the helpers that make an archive each
  Names,    \* the names of archives in one directory
  NameOf,   \* [Helpers -> Names]
  NoOne     \* not a helper: no archive

VARIABLES
  archive,  \* whose archive is stored under each name
  verdict,  \* what each helper has reported
  taken     \* the names whose archive a delete or a power loss touched

vars == <<archive, verdict, taken>>

Init ==
  /\ archive = [n \in Names |-> NoOne]
  /\ verdict = [h \in Helpers |-> "pending"]
  /\ taken = {}

Store(h) ==
  /\ verdict[h] # "good"
  /\ archive' = [archive EXCEPT ![NameOf[h]] = h]
  /\ UNCHANGED <<verdict, taken>>

Succeed(h) ==
  /\ verdict[h] = "pending"
  /\ archive[NameOf[h]] = h \/ NameOf[h] \in taken
  /\ verdict' = [verdict EXCEPT ![h] = "good"]
  /\ UNCHANGED <<archive, taken>>

Fail(h) ==
  /\ verdict[h] = "pending"
  /\ verdict' = [verdict EXCEPT ![h] = "bad"]
  /\ UNCHANGED <<archive, taken>>

Delete(n) ==
  /\ archive' = [archive EXCEPT ![n] = NoOne]
  /\ taken' = taken \cup {n}
  /\ UNCHANGED verdict

(* The host loses power: archives may vanish or come back, none is torn,   *)
(* and a helper that has not reported yet may have died.                   *)
PowerLoss ==
  /\ archive' \in [Names -> Helpers \cup {NoOne}]
  /\ \A n \in Names : archive'[n] # NoOne => NameOf[archive'[n]] = n
  /\ taken' = Names
  /\ verdict' \in [Helpers -> {"pending", "good", "bad"}]
  /\ \A h \in Helpers :
       verdict'[h] # verdict[h] => verdict[h] = "pending" /\ verdict'[h] = "bad"

Next ==
  \/ \E h \in Helpers : Store(h) \/ Succeed(h) \/ Fail(h)
  \/ \E n \in Names : Delete(n)
  \/ PowerLoss

Spec == Init /\ [][Next]_vars
=============================================================================
