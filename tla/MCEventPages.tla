---------------------------- MODULE MCEventPages ----------------------------
\* The store and its reads with a small set of writers.
EXTENDS EventPages, TLC

(* Writers are interchangeable. *)
WriterSymmetry == Permutations(Writers)
=============================================================================
