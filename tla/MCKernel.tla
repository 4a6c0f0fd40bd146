------------------------------ MODULE MCKernel ------------------------------
(* Instances of the process table for TLC. *)
EXTENDS Kernel, TLC

\* Addresses of TCBs are interchangeable.
HandleSymmetry == Permutations(Handles)
=============================================================================
