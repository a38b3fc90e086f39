---------------------------- MODULE MCRepoStatus ----------------------------
(* Two checkouts of one repository.                                        *)
EXTENDS RepoStatus
CONSTANTS p1, p2, u1
MCUrlOf == [p \in Paths |-> u1]
=============================================================================
