----------------------------- MODULE MCSession -----------------------------
(* Small instances of Session for TLC. *)
EXTENDS Session, TLC

\* Callers, instances and handles are interchangeable in the safety runs.
Symmetry ==
    Permutations(Callers) \cup Permutations(Inst) \cup Permutations(Handles)
=============================================================================
