------------------------------- MODULE MCDaemon -------------------------------
(* Instances of Daemon for TLC.                                            *)
EXTENDS Daemon, TLC

CONSTANTS a1, a2, a3, pid, c1, c2

\* Applications of two developers, one without certificate and one without package;
\* two threads of one application have the same certificate.
Signers == [a \in App |-> CASE a = a1 -> c1 [] a = a2 -> c2 [] OTHER -> NoCert]

Symmetry == Permutations(Owner) \cup Permutations(Name) \cup Permutations(Addr)
=============================================================================
