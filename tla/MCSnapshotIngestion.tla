------------------------- MODULE MCSnapshotIngestion -------------------------
(* Small instances of SnapshotIngestion for TLC; the constants are given by *)
(* the configurations.                                                      *)
EXTENDS SnapshotIngestion
=============================================================================
