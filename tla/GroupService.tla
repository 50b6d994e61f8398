---------------------------- MODULE GroupService ----------------------------
(***************************************************************************)
(* What a session promises to a program that uses groups, with nothing of  *)
(* how it is done: no requests, replies, handles, gates or transports.     *)
(* Operations enter and leave; a group made by an operation inside may be  *)
(* bound to a new identity; while it is bound it exists on the server,     *)
(* whatever is removed there; once the session has ended nobody enters and *)
(* nothing is bound; the connection goes when everyone is out, and breaks   *)
(* under those still inside only if whoever ended the session gives them up.*)
(* Session implements this (Session!ImplementsService), and, for a program *)
(* without groups, Connection does (Connection!ImplementsService).         *)
(***************************************************************************)
EXTENDS Naturals

CONSTANTS
    Users,          \* those who enter the session
    Groups,         \* the groups ever made
    MaxGroupID,     \* the largest identity
    NoGroup         \* an identity that names no group

VARIABLES
    inside,         \* the users in an operation
    bound,          \* the group each identity names
    used,           \* the identities given out so far
    alive,          \* the groups that exist on the server
    ended,          \* the session has ended
    link            \* the connection to the server: standing, broken or gone

vars == <<inside, bound, used, alive, ended, link>>

Bound == {bound[i] : i \in 1..MaxGroupID} \ {NoGroup}

Init ==
    /\ inside = {} /\ used = 0 /\ alive = {} /\ ended = FALSE /\ link = "standing"
    /\ bound = [i \in 1..MaxGroupID |-> NoGroup]

Enter(p) ==
    /\ ~ended /\ inside' = inside \cup {p}
    /\ UNCHANGED <<bound, used, alive, ended, link>>

Leave(p) ==
    /\ inside' = inside \ {p}
    /\ UNCHANGED <<bound, used, alive, ended, link>>

\* Groups that nobody can name come and go.
Appear(g) ==
    /\ alive' = alive \cup {g}
    /\ UNCHANGED <<inside, bound, used, ended, link>>

Disappear(g) ==
    /\ g \notin Bound /\ alive' = alive \ {g}
    /\ UNCHANGED <<inside, bound, used, ended, link>>

\* The operation of p returns a group under an identity never used before.
Bind(p, g) ==
    /\ p \in inside /\ ~ended /\ used < MaxGroupID
    /\ g \in alive \ Bound
    /\ used' = used + 1
    /\ bound' = [bound EXCEPT ![used + 1] = g]
    /\ inside' = inside \ {p}
    /\ UNCHANGED <<alive, ended, link>>

\* An identity stops naming its group, for ever.
Unbind(i) ==
    /\ bound' = [bound EXCEPT ![i] = NoGroup]
    /\ UNCHANGED <<inside, used, alive, ended, link>>

End ==
    /\ ended' = TRUE
    /\ UNCHANGED <<inside, bound, used, alive, link>>

\* Whoever ends the session stops waiting for those inside: from then on their
\* remote calls may fail.
Abandon ==
    /\ ended /\ link = "standing"
    /\ link' = "broken"
    /\ UNCHANGED <<inside, bound, used, alive, ended>>

\* Nobody is left inside, given up or not.
Disconnect ==
    /\ ended /\ inside = {}
    /\ link' = "gone"
    /\ UNCHANGED <<inside, bound, used, alive, ended>>

Next ==
    \/ \E p \in Users : Enter(p) \/ Leave(p) \/ \E g \in Groups : Bind(p, g)
    \/ \E g \in Groups : Appear(g) \/ Disappear(g)
    \/ \E i \in 1..MaxGroupID : Unbind(i)
    \/ End \/ Abandon \/ Disconnect

Spec == Init /\ [][Next]_vars
=============================================================================
