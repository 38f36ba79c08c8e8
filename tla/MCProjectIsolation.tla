------------------------- MODULE MCProjectIsolation -------------------------
(***************************************************************************)
(* Model values for the run of ProjectIsolation.                           *)
(***************************************************************************)
EXTENDS ProjectIsolation, TLC

CONSTANTS s1, s2, q1, p, q, k1, k2

MCProject == [c \in Calls |-> IF c = s1 THEN p ELSE q]

\* The connections are alike.
Symmetry == Permutations(Connections)
=============================================================================
