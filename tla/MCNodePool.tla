---- MODULE MCNodePool ----
(***************************************************************************)
(* Values for the constants of NodePool in its runs.                       *)
(***************************************************************************)
EXTENDS NodePool, TLC

\* The pools are interchangeable (for runs without liveness properties only).
Interchangeable == Permutations(Pool)

====
