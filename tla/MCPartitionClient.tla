-------------------------- MODULE MCPartitionClient --------------------------
(* Small instances of PartitionClient for TLC.                             *)
EXTENDS PartitionClient

CONSTANTS new, p1, p2, f1, b1, b2
=============================================================================
