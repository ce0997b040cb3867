------------------------------ MODULE MCThreads ------------------------------
(* Instances of Threads for TLC.                                           *)
EXTENDS Threads, TLC

Symmetry == Permutations(Process) \cup Permutations(Client) \cup Permutations(Handler)
=============================================================================
