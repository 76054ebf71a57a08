------------------------------ MODULE MCReboot ------------------------------
(* Two programs: 1 works and saves, 2 manages the snapshots and reboots.   *)
EXTENDS Reboot

MCManifest == <<{"work", "save"}, {"passing", "name", "load", "reboot"}>>
MCOne == <<{"work", "save", "name", "load", "reboot"}>>
=============================================================================
