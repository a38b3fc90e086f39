----------------------------- MODULE MCNetWatch -----------------------------
(* A host whose dashboard sends one request at a time, or two.             *)
EXTENDS NetWatch
CONSTANTS c1, c2
=============================================================================
