----------------------------- MODULE MCSnapshots -----------------------------
(* TLC's instances of Snapshots: the autosave and one snapshot of a user.      *)
EXTENDS Snapshots
=============================================================================
