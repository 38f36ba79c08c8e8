--------------------------- MODULE MCBaseEmbedder ---------------------------
(***************************************************************************)
(* Model values for the runs of BaseEmbedder.                              *)
(***************************************************************************)
EXTENDS BaseEmbedder

CONSTANTS c1, c2, c3, x, y
=============================================================================
