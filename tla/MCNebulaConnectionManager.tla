---------------------- MODULE MCNebulaConnectionManager ----------------------
(***************************************************************************)
(* Model values for the run of NebulaConnectionManager.                    *)
(***************************************************************************)
EXTENDS NebulaConnectionManager, TLC

CONSTANTS q1, q2, q3, k1, k2, d1, h1, h2

Symmetry == Permutations(Queries) \cup Permutations(Connects)

\* Sessions nobody knows any more can only be examined or closed where a list
\* still names them: of the others nothing is left to tell states apart.
Named == Idle \cup Held \cup UNION {ToSet(drop[p]) : p \in Closers}
             \cup {conn[h] : h \in Checks} \cup UNION {ToSet(array[h]) : h \in Checks}

View == <<linkVars, pool, countVars, made, open \ lost, open \cap Named, pc, conn, need, drop, loopVars>>
=============================================================================
