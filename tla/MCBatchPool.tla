---------------------------- MODULE MCBatchPool ----------------------------
(***************************************************************************)
(* Model-checking instances of BatchPool.                                  *)
(***************************************************************************)
EXTENDS BatchPool, TLC

\* Workers run the same code: any permutation of them is a symmetry (used in
\* the runs that check no temporal property).
WorkerSymmetry == Permutations(Workers)
=============================================================================
