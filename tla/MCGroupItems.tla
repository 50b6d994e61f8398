---------------------------- MODULE MCGroupItems ----------------------------
(* GroupItems with the symmetry of its callers, items and handles. *)
EXTENDS GroupItems, TLC

\* Valid items are interchangeable; so are the others.
Symmetry ==
    {f @@ g @@ h @@ v : f \in Permutations(Callers), g \in Permutations(ValidIDs),
                        h \in Permutations(Handles), v \in Permutations(ItemIDs \ ValidIDs)}
=============================================================================
