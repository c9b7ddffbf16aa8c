-------------------------- MODULE MCWaitingBuffer --------------------------
(* WaitingBuffer for TLC: the writers are interchangeable. *)
EXTENDS WaitingBuffer, TLC

Symmetry == Permutations(Writers) 
=============================================================================
