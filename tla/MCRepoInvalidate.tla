-------------------------- MODULE MCRepoInvalidate --------------------------
(* What becomes of an invalidation, with a history of those not yet served.*)
EXTENDS MCRepoStatus

VARIABLE owed  \* history: checkouts invalidated and not read since

OwedInit == Init /\ owed = {}

OwedNext ==
  \/ \E p \in Paths :
       /\ Invalidate(p)
       /\ owed' = owed \cup ({p} \cap tracked)
  \/ /\ PassSteps \/ Ageing \/ Others
     /\ owed' = (owed \cap tracked') \ (IF at = "next" THEN {current'} ELSE {})

OwedSpec == OwedInit /\ [][OwedNext]_<<vars, owed>>

(* "Look at this checkout again at the next tick - after a rebuild pulled  *)
(* it" (invalidate): a pass that begins takes up every checkout that was   *)
(* invalidated and not read since.                                         *)
NextTickLooks ==
  [][at = "sleeping" /\ at' = "next" => owed' \subseteq due']_<<vars, owed>>
=============================================================================
