------------------------ MODULE MCStorageTransaction ------------------------
(***************************************************************************)
(* Model values for the runs of StorageTransaction.                        *)
(***************************************************************************)
EXTENDS StorageTransaction

CONSTANTS s1, s2, d1, d2
=============================================================================
