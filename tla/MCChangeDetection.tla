------------------------- MODULE MCChangeDetection -------------------------
(***************************************************************************)
(* Model values and paths for the runs of ChangeDetection.                 *)
(***************************************************************************)
EXTENDS ChangeDetection

CONSTANTS f1, f2, r1, r2, a, b, elsewhere

\* The first watch path is the working directory, the second another one.
MCRootOf == [f \in Files |-> IF f = f1 THEN r1 ELSE r2]
MCKey == [f \in Files |-> f]
MCCwdKey == [f \in Files |-> IF f = f1 THEN f ELSE elsewhere]
=============================================================================
