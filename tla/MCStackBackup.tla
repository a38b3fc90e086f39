---------------------------- MODULE MCStackBackup ----------------------------
(* Two hosts with two projects; one project of the second is not there, or *)
(* there and not readable.                                                 *)
EXTENDS StackBackup
CONSTANTS one, two, web, db
MCDisks ==
  {[h \in Hosts |-> [p \in Projects |-> IF h = two /\ p = db THEN v ELSE 1]] : v \in {0, Unseen}}
=============================================================================
