-------------------------- MODULE MCArchiveTransfer --------------------------
(* One helper streams to another host's agent, one writes to a disk of its *)
(* own host: the same directory, under two names or under one.             *)
EXTENDS ArchiveTransfer

CONSTANTS h1, h2, n1, n2

TwoNames == [h \in Helpers |-> IF h = h1 THEN n1 ELSE n2]
OneName == [h \in Helpers |-> n1]
=============================================================================
