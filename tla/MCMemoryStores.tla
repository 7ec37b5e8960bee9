---------------------------- MODULE MCMemoryStores ----------------------------
(* The processes of the small instance of MemoryStores are alike. *)
EXTENDS MemoryStores, TLC

Symmetry == Permutations(Procs)
================================================================================
