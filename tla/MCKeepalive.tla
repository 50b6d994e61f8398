---------------------------- MODULE MCKeepalive ----------------------------
(* Instances of Keepalive for TLC. *)
EXTENDS Keepalive, TLC

\* Groups are interchangeable: no definition names one.
Symmetry == Permutations(Groups)
=============================================================================
