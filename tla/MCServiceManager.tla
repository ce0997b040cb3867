-------------------------- MODULE MCServiceManager --------------------------
(* Instances of ServiceManager for TLC: model values are interchangeable.  *)
EXTENDS ServiceManager, TLC

Symmetry == Permutations(Owner) \cup Permutations(Name) \cup Permutations(Addr)
=============================================================================
