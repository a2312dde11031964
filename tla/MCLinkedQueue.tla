---------------------------- MODULE MCLinkedQueue ----------------------------
(* Every sequence of pushes and pops over five task objects.               *)
EXTENDS LinkedQueue, TLC

Symmetry == Permutations(Tasks)
=============================================================================
