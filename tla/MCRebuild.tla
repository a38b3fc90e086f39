------------------------------ MODULE MCRebuild ------------------------------
(* An application's checkout and the agent's own.                          *)
EXTENDS Rebuild
CONSTANTS app, agent
=============================================================================
