--------------------------- MODULE MCVolumeBackup ---------------------------
(* A host with an application container, a database and the agent itself,  *)
(* which all mount the one volume that is backed up.                       *)
EXTENDS VolumeBackup

MCContainers == 1..3
MCProtected == {3}
MCSources == {"shared"}
MCUses == [s \in Sources |-> Containers]
=============================================================================
