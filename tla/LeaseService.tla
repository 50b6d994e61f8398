---------------------------- MODULE LeaseService ----------------------------
(***************************************************************************)
(* What the object pinger promises to the groups of a session, with        *)
(* nothing of how it is done: no gate, counts, ping sets, sequence numbers *)
(* or messages.  A user is granted the lease of an object only as long as  *)
(* the keepalive has not failed and the service is open; while anybody     *)
(* leases an object the server keeps it, whatever the others lease, give   *)
(* up or fail to change; and neither a failure nor the end of the service  *)
(* is ever taken back.                                                     *)
(* Keepalive implements this (Keepalive!ImplementsLeases).                 *)
(***************************************************************************)
CONSTANTS
    Users,      \* those who lease objects
    Objects,    \* the objects of the server
    Nothing     \* what a user without a lease has

VARIABLES
    lease,      \* the object each user leases
    kept,       \* the objects the server keeps for the client
    failed,     \* the keepalive has failed
    over        \* the service has ended

vars == <<lease, kept, failed, over>>

Leased == {lease[p] : p \in Users} \ {Nothing}

Init ==
    /\ lease = [p \in Users |-> Nothing]
    /\ kept = {} /\ failed = FALSE /\ over = FALSE

\* The object is kept from now on at the latest, and nothing else is lost.
Grant(p, o) ==
    /\ ~failed /\ ~over /\ lease[p] = Nothing
    /\ lease' = [lease EXCEPT ![p] = o]
    /\ kept \subseteq kept' /\ o \in kept'
    /\ UNCHANGED <<failed, over>>

GiveUp(p) ==
    /\ lease[p] # Nothing
    /\ lease' = [lease EXCEPT ![p] = Nothing]
    /\ UNCHANGED <<kept, failed, over>>

\* Objects come, and go when nobody leases them.
Changes(objects) ==
    /\ Leased \subseteq objects
    /\ kept' = objects
    /\ UNCHANGED <<lease, failed, over>>

Fails ==
    /\ failed' = TRUE
    /\ UNCHANGED <<lease, kept, over>>

\* All leases end with the service.
Ends ==
    /\ over' = TRUE
    /\ lease' = [p \in Users |-> Nothing]
    /\ UNCHANGED <<kept, failed>>

Next ==
    \/ \E p \in Users : GiveUp(p) \/ \E o \in Objects : Grant(p, o)
    \/ \E objects \in SUBSET Objects : Changes(objects)
    \/ Fails \/ Ends

Spec == Init /\ [][Next]_vars
=============================================================================
