-------------------------- MODULE MCLSPClientPool --------------------------
(***************************************************************************)
(* Model values and workspaces for the runs of LSPClientPool.              *)
(***************************************************************************)
EXTENDS LSPClientPool

CONSTANTS u1, u2, p1, p2, d1, w1, w2

\* The first preload fills another workspace than the second and the operations.
MCRoot == [a \in Callers |-> IF a = p1 THEN w2 ELSE w1]
=============================================================================
