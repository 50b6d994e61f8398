--------------------------- MODULE SessionProofs ---------------------------
(* Theorems about Session, for every number of callers, groups and handles. *)
EXTENDS Session, TLAPS

-----------------------------------------------------------------------------
(* The inductive invariant *)

\* Where an actor has the group object it works on ...
WithGroup == {"open", "adding", "setup", "ready", "gate", "held", "call",
              "dispose", "removing"}
\* ... and where it came to it through an identity.
ByIdentity == {"lookup", "gate", "held", "call"}

\* What the program counter of an actor says about its operation.
Shape ==
    /\ \A p \in Actors :
          /\ pc[p] \in WithGroup => cur[p] \in Inst
          /\ pc[p] \in ByIdentity => target[p] \in GroupIDs /\ op[p] \in {"remove", "call"}
          /\ pc[p] = "begin" /\ op[p] \in {"remove", "call"} => target[p] \in GroupIDs
          /\ pc[p] \in {"open", "adding", "setup", "ready"} => op[p] \in {"add", "object"}
          /\ pc[p] = "held" => op[p] = "remove"
          /\ pc[p] = "call" => op[p] = "call"
          /\ pc[p] \in {"dispose", "removing"} => op[p] # "call"
    /\ \A p \in Callers : pc[p] \in WithGroup \cup {"idle", "begin", "lookup"}
    /\ pc[Closer] \notin {"begin", "open", "adding", "setup", "ready", "call"}
    /\ pc[Closer] \in {"lookup", "gate", "held", "dispose", "removing"} => op[Closer] = "remove"

\* RemoveGroup is only sent for a handle the server gave out.
HandlesKnown ==
    /\ \A m \in network : m.type = "Added" => m.handle \in Handles
    /\ \A p \in Actors : pc[p] = "removing" => handle[cur[p]] \in Handles

Creating(p) ==
    \/ pc[p] \in {"open", "adding", "setup", "ready"}
    \/ pc[p] \in {"dispose", "removing"} /\ op[p] \in {"add", "object"}

Removing(p) == pc[p] \in {"dispose", "removing"} /\ op[p] = "remove"

\* Who may touch a group object, and in which state it is while they do.
Ownership ==
    /\ \A p \in Actors : cur[p] \in Inst => kind[cur[p]] # "unused"
    /\ \A i \in GroupIDs : groups[i] # NoInst =>
          /\ kind[groups[i]] # "unused"
          /\ conns[groups[i]] = "open" /\ ~gclosed[groups[i]]
          /\ i <= nextGroupID
          /\ \A j \in GroupIDs : groups[j] = groups[i] => j = i
    /\ \A g \in Inst : kind[g] = "unused" => ~gclosed[g]
    /\ \A p \in Actors : Creating(p) =>
          /\ \A q \in Actors : cur[q] = cur[p] => q = p
          /\ \A i \in GroupIDs : groups[i] # cur[p]
          /\ ~gclosed[cur[p]]
          /\ pc[p] = "ready" => conns[cur[p]] = "open"
    /\ \A p \in Actors : pc[p] \in {"gate", "held", "call"} =>
          \A i \in GroupIDs : groups[i] = cur[p] => i = target[p]
    /\ \A p \in Actors : pc[p] = "gate" => gclosed[cur[p]] \/ conns[cur[p]] = "open"
    /\ \A p \in Actors : pc[p] \in {"held", "call"} =>
          gate[cur[p]] = p /\ ~gclosed[cur[p]] /\ conns[cur[p]] = "open"
    /\ \A p \in Actors : Removing(p) => gate[cur[p]] = p /\ gclosed[cur[p]]

\* How far Close has come.
Closing ==
    /\ pc[Closer] \notin {"idle", "marking"} => closed
    /\ pc[Closer] \notin {"idle", "marking", "drain", "done"} => groupOps = {}
    /\ teardown = "waiting" => closed
    /\ serverConn = "closed" \/ rpcCtx = "canceled" => pc[Closer] = "done"
    /\ teardown # "none" => pc[Closer] = "done"
    /\ DrainedBeforeDisconnect

IInv == TypeOK /\ Shape /\ HandlesKnown /\ Ownership /\ Closing
-----------------------------------------------------------------------------
(* Types *)

\* What every return has in common: the variables Finish assigns keep their
\* types, and the actor is left where nothing is claimed about its operation.
LEMMA FinishTypes ==
    ASSUME TypeOK, Shape, NEW p \in Actors, NEW failed \in BOOLEAN,
           Finish(p, failed), UNCHANGED <<op, target>>
    PROVE  /\ Shape'
           /\ pc' \in [Actors -> PCs]
           /\ cur' \in [Actors -> Inst \cup {NoInst}]
           /\ groupOps' \subseteq Callers
           /\ gate' \in [Inst -> Actors \cup {NoOne}]
           /\ closeErr' \in BOOLEAN
<1>1. /\ pc' \in [Actors -> PCs]
      /\ cur' \in [Actors -> Inst \cup {NoInst}]
      /\ groupOps' \subseteq Callers
      /\ gate' \in [Inst -> Actors \cup {NoOne}]
      /\ closeErr' \in BOOLEAN
  BY SessionAssumption DEF TypeOK, Finish, Goto, PCs, Actors
<1>2. Shape'
  BY SessionAssumption DEF TypeOK, Shape, Finish, Goto, Actors, PCs, WithGroup, ByIdentity
<1>3. QED
  BY <1>1, <1>2

\* An actor that is creating a group moves on, or to the disposal of the group.
LEMMA CreatorMoves ==
    ASSUME TypeOK, Shape, NEW p \in Actors, NEW l \in {"adding", "setup", "ready", "dispose"},
           pc[p] \in {"open", "adding", "setup", "ready"}, Goto(p, l),
           UNCHANGED <<op, cur, target>>
    PROVE  Shape' /\ pc' \in [Actors -> PCs]
<1>1. /\ cur[p] \in Inst
      /\ op[p] \in {"add", "object"}
      /\ p \in Callers
  BY DEF Shape, WithGroup, Actors
<1>2. Shape'
  BY <1>1, SessionAssumption DEF Goto, TypeOK, Shape, Actors, WithGroup, ByIdentity
<1>3. QED
  BY <1>2 DEF Goto, TypeOK, PCs

\* The shape of every variable and what the program counters say about the
\* operations are preserved by the steps of an operation.
LEMMA StepTypes ==
    ASSUME TypeOK, Shape, HandlesKnown, NEW p \in Actors, Step(p)
    PROVE  TypeOK' /\ Shape'
<1>1. CASE Refuse(p)
  <2>1. Finish(p, TRUE) /\ UNCHANGED <<op, target>>
    BY <1>1 DEF Refuse, FinishFrame
  <2>2. QED
    BY <1>1, <2>1, FinishTypes, SessionAssumption DEF Refuse, FinishFrame, TypeOK, Actors,
       GroupIDs, serverVars
<1>2. CASE Admit(p)
  <2>1. p \in Callers
    BY <1>2 DEF Admit, Shape, Actors
  <2>2. CASE op[p] = "remove"
    <3>1. /\ pc[p] = "begin" /\ groupOps' = groupOps \cup {p} /\ Goto(p, "lookup")
          /\ UNCHANGED <<cur, kind, op, target>>
      BY <1>2, <2>2 DEF Admit
    <3>2. TypeOK'
      BY <1>2, <2>1, <3>1 DEF Admit, Goto, TypeOK, PCs, closeVars, serverVars
    <3>3. Shape'
      BY <2>1, <2>2, <3>1, SessionAssumption
      DEF Goto, TypeOK, Shape, Actors, WithGroup, ByIdentity
    <3>4. QED
      BY <3>2, <3>3
  <2>3. CASE op[p] \in {"add", "object"}
    <3>1. PICK g \in Inst :
             /\ kind' = [kind EXCEPT ![g] = IF op[p] = "add" THEN "persistent"
                                                            ELSE "temporary"]
             /\ cur' = [cur EXCEPT ![p] = g]
             /\ Goto(p, "open")
      BY <1>2, <2>3 DEF Admit
    <3>2. TypeOK'
      BY <1>2, <2>1, <3>1 DEF Admit, Goto, TypeOK, Actors, PCs, closeVars, serverVars
    <3>3. Shape'
      BY <1>2, <2>1, <2>3, <3>1, SessionAssumption
      DEF Admit, Goto, TypeOK, Shape, Actors, PCs, WithGroup, ByIdentity, GroupIDs,
     sessionVars, groupVars, actorVars, closeVars, serverVars
    <3>4. QED
      BY <3>2, <3>3
  <2>4. QED
    BY <1>2, <2>2, <2>3 DEF Admit
<1>3. CASE SendAddGroup(p)
  <2>1. cur[p] \in Inst
    BY <1>3 DEF SendAddGroup, Shape, WithGroup
  <2>2. network' \subseteq Message
    BY <1>3, <2>1 DEF SendAddGroup, Send, AddRequest, Message, TypeOK, Actors
  <2>3. pc' \in [Actors -> PCs]
    BY <1>3 DEF SendAddGroup, Goto, TypeOK, PCs
  <2>4. TypeOK'
    BY <1>3, <2>2, <2>3 DEF SendAddGroup, TypeOK, sessionVars, groupVars, closeVars
  <2>5. Shape'
    BY <1>3, CreatorMoves DEF SendAddGroup
  <2>6. QED
    BY <2>4, <2>5
<1>4. CASE GroupAdded(p)
  <2>1. Shape' /\ pc' \in [Actors -> PCs]
    BY <1>4, CreatorMoves DEF GroupAdded
  <2>2. handle' \in [Inst -> Handles \cup {NoHandle}] /\ network' \subseteq Message
    BY <1>4 DEF GroupAdded, TypeOK, HandlesKnown
  <2>3. QED
    BY <1>4, <2>1, <2>2 DEF GroupAdded, TypeOK, sessionVars, closeVars
<1>5. CASE AddFailed(p)
  <2>1. Shape' /\ pc' \in [Actors -> PCs]
    BY <1>5, CreatorMoves DEF AddFailed
  <2>2. QED
    BY <1>5, <2>1 DEF AddFailed, TypeOK, sessionVars, groupVars, closeVars
<1>6. CASE Setup(p)
  <2>1. Shape' /\ pc' \in [Actors -> PCs]
    BY <1>6, CreatorMoves DEF Setup
  <2>2. conns' \in [Inst -> {"none", "open", "closed"}]
    BY <1>6 DEF Setup, TypeOK
  <2>3. QED
    BY <1>6, <2>1, <2>2 DEF Setup, TypeOK, sessionVars, closeVars, serverVars
<1>7. CASE Register(p)
  <2>1. Finish(p, FALSE) /\ UNCHANGED <<op, target>>
    BY <1>7 DEF Register
  <2>2. cur[p] \in Inst
    BY <1>7 DEF Register, Shape, WithGroup
  <2>3. nextGroupID' \in 0..MaxGroupID
    BY <1>7, SessionAssumption DEF Register, TypeOK
  <2>4. groups' \in [GroupIDs -> Inst \cup {NoInst}]
    BY <1>7, <2>2 DEF Register, TypeOK
  <2>5. /\ Shape'
        /\ pc' \in [Actors -> PCs]
        /\ cur' \in [Actors -> Inst \cup {NoInst}]
        /\ groupOps' \subseteq Callers
        /\ gate' \in [Inst -> Actors \cup {NoOne}]
        /\ closeErr' \in BOOLEAN
    BY <2>1, FinishTypes
  <2>6. QED
    BY <1>7, <2>3, <2>4, <2>5 DEF Register, TypeOK, serverVars
<1>8. CASE Unregistered(p)
  <2>1. Shape' /\ pc' \in [Actors -> PCs]
    BY <1>8, CreatorMoves DEF Unregistered
  <2>2. QED
    BY <1>8, <2>1 DEF Unregistered, TypeOK, sessionVars, groupVars, closeVars, serverVars
<1>9. CASE Lookup(p)
  <2>1. TypeOK'
    BY <1>9, SessionAssumption DEF Lookup, Goto, TypeOK, Shape, Actors, PCs, WithGroup,
       ByIdentity, GroupIDs,
     sessionVars, groupVars, actorVars, closeVars, serverVars
  <2>2. Shape'
    BY <1>9, SessionAssumption DEF Lookup, Goto, TypeOK, Shape, Actors, PCs, WithGroup,
       ByIdentity, GroupIDs,
     sessionVars, groupVars, actorVars, closeVars, serverVars
  <2>3. QED
    BY <2>1, <2>2
<1>10. CASE LookupFailed(p)
  <2>1. Finish(p, TRUE) /\ UNCHANGED <<op, target>>
    BY <1>10 DEF LookupFailed, FinishFrame
  <2>2. QED
    BY <1>10, <2>1, FinishTypes, SessionAssumption DEF LookupFailed, FinishFrame, TypeOK,
       Actors, GroupIDs, serverVars
<1>11. CASE Acquire(p)
  <2>1. TypeOK'
    BY <1>11, SessionAssumption DEF Acquire, Goto, TypeOK, Shape, Actors, PCs, WithGroup,
       ByIdentity, GroupIDs,
     sessionVars, groupVars, actorVars, closeVars, serverVars
  <2>2. Shape'
    BY <1>11, SessionAssumption DEF Acquire, Goto, TypeOK, Shape, Actors, PCs, WithGroup,
       ByIdentity, GroupIDs,
     sessionVars, groupVars, actorVars, closeVars, serverVars
  <2>3. QED
    BY <2>1, <2>2
<1>12. CASE AcquireFailed(p)
  <2>1. Finish(p, TRUE) /\ UNCHANGED <<op, target>>
    BY <1>12 DEF AcquireFailed, FinishFrame
  <2>2. QED
    BY <1>12, <2>1, FinishTypes, SessionAssumption DEF AcquireFailed, FinishFrame, TypeOK,
       Actors, GroupIDs, serverVars
<1>13. CASE EndCall(p)
  <2>1. Finish(p, FALSE) /\ UNCHANGED <<op, target>>
    BY <1>13 DEF EndCall, FinishFrame
  <2>2. QED
    BY <1>13, <2>1, FinishTypes, SessionAssumption DEF EndCall, FinishFrame, TypeOK, Actors,
       GroupIDs, serverVars
<1>14. CASE MarkRemoved(p)
  <2>1. TypeOK'
    BY <1>14, SessionAssumption DEF MarkRemoved, Goto, TypeOK, Shape, Actors, PCs, WithGroup,
       ByIdentity, GroupIDs,
     sessionVars, groupVars, actorVars, closeVars, serverVars
  <2>2. Shape'
    BY <1>14, SessionAssumption DEF MarkRemoved, Goto, TypeOK, Shape, Actors, PCs, WithGroup,
       ByIdentity, GroupIDs,
     sessionVars, groupVars, actorVars, closeVars, serverVars
  <2>3. QED
    BY <2>1, <2>2
<1>15. CASE Dispose(p)
  <2>1. TypeOK'
    BY <1>15, SessionAssumption DEF Dispose, Send, RemoveRequest, Message, Goto, TypeOK, Shape,
       Actors, PCs, WithGroup, ByIdentity, GroupIDs,
     sessionVars, groupVars, actorVars, closeVars, serverVars
  <2>2. Shape'
    BY <1>15, SessionAssumption DEF Dispose, Goto, TypeOK, Shape, Actors, PCs, WithGroup,
       ByIdentity, GroupIDs,
     sessionVars, groupVars, actorVars, closeVars, serverVars
  <2>3. QED
    BY <2>1, <2>2
<1>16. CASE DisposeUncreated(p)
  <2>1. Finish(p, TRUE) /\ UNCHANGED <<op, target>>
    BY <1>16 DEF DisposeUncreated, FinishFrame
  <2>2. QED
    BY <1>16, <2>1, FinishTypes, SessionAssumption DEF DisposeUncreated, FinishFrame, TypeOK,
       Actors, GroupIDs, serverVars
<1>17. CASE RemoveAcked(p)
  <2>1. PICK failed \in BOOLEAN : Finish(p, failed)
    BY <1>17 DEF RemoveAcked
  <2>2. UNCHANGED <<op, target>>
    BY <1>17 DEF RemoveAcked, FinishFrame
  <2>3. pendingRemovals' \subseteq Handles
    BY <1>17 DEF RemoveAcked, HandlesKnown, TypeOK
  <2>4. network' \subseteq Message
    BY <1>17 DEF RemoveAcked, TypeOK
  <2>5. /\ Shape'
        /\ pc' \in [Actors -> PCs]
        /\ cur' \in [Actors -> Inst \cup {NoInst}]
        /\ groupOps' \subseteq Callers
        /\ gate' \in [Inst -> Actors \cup {NoOne}]
        /\ closeErr' \in BOOLEAN
    BY <2>1, <2>2, FinishTypes
  <2>6. QED
    BY <1>17, <2>3, <2>4, <2>5 DEF RemoveAcked, FinishFrame, TypeOK
<1>18. CASE RemoveFailed(p)
  <2>1. PICK failed \in BOOLEAN : Finish(p, failed)
    BY <1>18 DEF RemoveFailed
  <2>2. UNCHANGED <<op, target>>
    BY <1>18 DEF RemoveFailed, FinishFrame
  <2>3. pendingRemovals' \subseteq Handles
    BY <1>18 DEF RemoveFailed, HandlesKnown, TypeOK
  <2>4. network' \subseteq Message
    BY <1>18 DEF RemoveFailed, TypeOK
  <2>5. /\ Shape'
        /\ pc' \in [Actors -> PCs]
        /\ cur' \in [Actors -> Inst \cup {NoInst}]
        /\ groupOps' \subseteq Callers
        /\ gate' \in [Inst -> Actors \cup {NoOne}]
        /\ closeErr' \in BOOLEAN
    BY <2>1, <2>2, FinishTypes
  <2>6. QED
    BY <1>18, <2>3, <2>4, <2>5 DEF RemoveFailed, FinishFrame, TypeOK
<1>19. QED
  BY <1>1, <1>2, <1>3, <1>4, <1>5, <1>6, <1>7, <1>8, <1>9, <1>10, <1>11, <1>12, <1>13, <1>14,
     <1>15, <1>16, <1>17, <1>18 DEF Step

LEMMA StepHandlesKnown ==
    ASSUME TypeOK, Shape, HandlesKnown, NEW p \in Actors, Step(p)
    PROVE  HandlesKnown'
<1> USE DEF HandlesKnown, TypeOK
<1>1. CASE Admit(p)
  BY <1>1 DEF Admit, Goto, closeVars, serverVars
<1>2. CASE SendAddGroup(p)
  BY <1>2 DEF SendAddGroup, Goto, Send, AddRequest, groupVars
<1>3. CASE GroupAdded(p)
  BY <1>3 DEF GroupAdded, Goto, Shape, WithGroup
<1>4. CASE AddFailed(p)
  BY <1>4 DEF AddFailed, Goto, groupVars
<1>5. CASE Setup(p)
  BY <1>5 DEF Setup, Goto, serverVars
<1>6. CASE Unregistered(p)
  BY <1>6 DEF Unregistered, Goto, groupVars, serverVars
<1>7. CASE Lookup(p)
  BY <1>7 DEF Lookup, Goto, groupVars, serverVars
<1>8. CASE Acquire(p)
  BY <1>8 DEF Acquire, Goto, serverVars
<1>9. CASE MarkRemoved(p)
  BY <1>9 DEF MarkRemoved, Goto, serverVars
<1>10. CASE Dispose(p)
  BY <1>10 DEF Dispose, Goto, Send, RemoveRequest, Shape, WithGroup
<1>11. CASE Register(p) \/ RemoveAcked(p) \/ RemoveFailed(p)
  BY <1>11 DEF Register, RemoveAcked, RemoveFailed, Finish, FinishFrame, Goto, serverVars
<1>12. CASE \/ Refuse(p) \/ LookupFailed(p) \/ AcquireFailed(p)
            \/ EndCall(p) \/ DisposeUncreated(p)
  BY <1>12 DEF Refuse, LookupFailed, AcquireFailed, EndCall, DisposeUncreated, Finish,
     FinishFrame, Goto, serverVars
<1>13. QED
  BY <1>1, <1>2, <1>3, <1>4, <1>5, <1>6, <1>7, <1>8, <1>9, <1>10, <1>11, <1>12 DEF Step

\* The same for the steps of Close.
LEMMA CloseTypes ==
    ASSUME TypeOK, Shape, HandlesKnown, Close \/ CloseStep \/ Teardown
    PROVE  TypeOK' /\ Shape' /\ HandlesKnown'
<1> USE SessionAssumption DEF Actors, Goto
<1>1. CASE Close \/ MarkClosed \/ DrainTimeout \/ Teardown
  <2>1. CASE Close
    <3>1. TypeOK'
      BY <2>1 DEF Close, TypeOK, PCs, sessionVars, groupVars, closeVars, serverVars
    <3>2. HandlesKnown'
      BY <2>1 DEF Close, HandlesKnown, sessionVars, groupVars, closeVars, serverVars
    <3>3. Shape'
      BY <2>1 DEF Close, TypeOK, Shape, WithGroup, ByIdentity, sessionVars, groupVars,
         closeVars, serverVars
    <3>4. QED
      BY <3>1, <3>2, <3>3
  <2>2. CASE MarkClosed
    <3>1. TypeOK'
      BY <2>2 DEF MarkClosed, TypeOK, PCs, groupVars, closeVars, serverVars
    <3>2. HandlesKnown'
      BY <2>2 DEF MarkClosed, HandlesKnown, groupVars, closeVars, serverVars
    <3>3. Shape'
      BY <2>2 DEF MarkClosed, TypeOK, Shape, WithGroup, ByIdentity, groupVars, closeVars,
         serverVars
    <3>4. QED
      BY <3>1, <3>2, <3>3
  <2>3. CASE DrainTimeout
    <3>1. TypeOK'
      BY <2>3 DEF DrainTimeout, TypeOK, PCs, sessionVars, groupVars, serverVars
    <3>2. HandlesKnown'
      BY <2>3 DEF DrainTimeout, HandlesKnown, sessionVars, groupVars, serverVars
    <3>3. Shape'
      BY <2>3 DEF DrainTimeout, TypeOK, Shape, WithGroup, ByIdentity, sessionVars, groupVars,
         serverVars
    <3>4. QED
      BY <3>1, <3>2, <3>3
  <2>4. CASE Teardown
    <3>1. TypeOK'
      BY <2>4 DEF Teardown, TypeOK, PCs, groupVars, actorVars, serverVars
    <3>2. HandlesKnown'
      BY <2>4 DEF Teardown, HandlesKnown, groupVars, actorVars, serverVars
    <3>3. Shape'
      BY <2>4 DEF Teardown, TypeOK, Shape, WithGroup, ByIdentity, groupVars, actorVars, serverVars
    <3>4. QED
      BY <3>1, <3>2, <3>3
  <2>5. QED
    BY <1>1, <2>1, <2>2, <2>3, <2>4
<1>2. CASE Drained
  <2>1. TypeOK' /\ HandlesKnown'
    BY <1>2 DEF Drained, TypeOK, HandlesKnown, PCs, sessionVars, groupVars, serverVars
  <2>2. Shape'
    BY <1>2 DEF Drained, TypeOK, Shape, WithGroup, ByIdentity, GroupIDs,
       sessionVars, groupVars, serverVars
  <2>3. QED
    BY <2>1, <2>2
<1>3. ASSUME NEW h \in Handles, RetryRemoval(h)
      PROVE  TypeOK' /\ Shape' /\ HandlesKnown'
  <2>1. network' \subseteq Message /\ \A m \in network' : m.type = "Added" => m.handle \in Handles
    BY <1>3 DEF RetryRemoval, Send, RemoveRequest, Message, TypeOK, HandlesKnown
  <2>2. QED
    BY <1>3, <2>1 DEF RetryRemoval, TypeOK, Shape, HandlesKnown, PCs, WithGroup, ByIdentity,
       sessionVars, groupVars
<1>4. CASE RetryReturns
  <2>1. TypeOK' /\ HandlesKnown'
    BY <1>4 DEF RetryReturns, TypeOK, HandlesKnown, PCs, sessionVars, groupVars
  <2>2. Shape'
    BY <1>4 DEF RetryReturns, TypeOK, Shape, WithGroup, ByIdentity
  <2>3. QED
    BY <2>1, <2>2
<1>5. ASSUME NEW i \in GroupIDs, SweepGroup(i)
      PROVE  TypeOK' /\ Shape' /\ HandlesKnown'
  <2>1. TypeOK' /\ HandlesKnown'
    BY <1>5 DEF SweepGroup, TypeOK, HandlesKnown, PCs, Ops, GroupIDs,
       sessionVars, groupVars, serverVars
  <2>2. Shape'
    BY <1>5 DEF SweepGroup, TypeOK, Shape, WithGroup, ByIdentity
  <2>3. QED
    BY <2>1, <2>2
<1>6. CASE ReleaseServerReference
  <2>1. TypeOK' /\ HandlesKnown'
    BY <1>6 DEF ReleaseServerReference, TypeOK, HandlesKnown, PCs, sessionVars, groupVars,
       serverVars
  <2>2. Shape'
    BY <1>6 DEF ReleaseServerReference, TypeOK, Shape, WithGroup, ByIdentity
  <2>3. QED
    BY <2>1, <2>2
<1>7. CASE Disconnect
  <2>1. TypeOK' /\ HandlesKnown'
    BY <1>7 DEF Disconnect, TypeOK, HandlesKnown, PCs, sessionVars, groupVars, serverVars
  <2>2. Shape'
    BY <1>7 DEF Disconnect, TypeOK, Shape, WithGroup, ByIdentity
  <2>3. QED
    BY <2>1, <2>2
<1>8. QED
  BY <1>1, <1>2, <1>3, <1>4, <1>5, <1>6, <1>7 DEF CloseStep

\* And for the rest of Next: a start, a cancellation and the steps of the server.
LEMMA OtherTypes ==
    ASSUME TypeOK, Shape, HandlesKnown,
           \/ \E p \in Callers, o \in Ops, i \in 0..MaxGroupID : Start(p, o, i)
           \/ \E p \in Actors : Cancel(p)
           \/ ServerStep
           \/ UNCHANGED vars
    PROVE  TypeOK' /\ Shape' /\ HandlesKnown'
<1> USE SessionAssumption DEF Actors
<1>1. ASSUME NEW p \in Callers, NEW o \in Ops, NEW i \in 0..MaxGroupID, Start(p, o, i)
      PROVE  TypeOK' /\ Shape' /\ HandlesKnown'
  <2>1. TypeOK' /\ HandlesKnown'
    BY <1>1 DEF Start, Goto, TypeOK, HandlesKnown, PCs,
       sessionVars, groupVars, closeVars, serverVars
  <2>2. o \in {"remove", "call"} => i \in GroupIDs
    BY <1>1 DEF Start, TypeOK, GroupIDs
  <2>3. Shape'
    BY <1>1, <2>2 DEF Start, Goto, TypeOK, Shape, Ops, WithGroup, ByIdentity
  <2>4. QED
    BY <2>1, <2>3
<1>2. ASSUME NEW p \in Actors, Cancel(p)
      PROVE  TypeOK' /\ Shape' /\ HandlesKnown'
  BY <1>2 DEF Cancel, TypeOK, Shape, HandlesKnown, sessionVars, groupVars, closeVars, serverVars
<1>3. CASE ServerStep
  <2>1. PICK m \in network : \/ \E h \in Handles : ServerAdds(m, h)
                             \/ ServerRemoves(m)
                             \/ ServerRejects(m)
    BY <1>3 DEF ServerStep
  <2>2. m \in Message
    BY <2>1 DEF TypeOK
  <2>3. ASSUME NEW h \in Handles, ServerAdds(m, h)
        PROVE  /\ network' \subseteq Message
               /\ \A n \in network' : n.type = "Added" => n.handle \in Handles
               /\ remote' \in [Handles -> Inst \cup {NoInst, Retired}]
    <3>1. LET reply == [m EXCEPT !.type = "Added", !.handle = h]
          IN  /\ reply \in Message /\ reply.handle \in Handles
              /\ network' \subseteq network \cup {reply}
      BY <2>2, <2>3 DEF ServerAdds, Message
    <3>2. QED
      BY <2>2, <2>3, <3>1 DEF ServerAdds, Message, TypeOK, HandlesKnown
  <2>4. ASSUME ServerRemoves(m) \/ ServerRejects(m)
        PROVE  /\ network' \subseteq Message
               /\ \A n \in network' : n.type = "Added" => n.handle \in Handles
               /\ remote' \in [Handles -> Inst \cup {NoInst, Retired}]
    BY <2>2, <2>4 DEF ServerRemoves, ServerRejects, Awaited, Message, TypeOK, HandlesKnown
  <2>5. /\ network' \subseteq Message
        /\ \A n \in network' : n.type = "Added" => n.handle \in Handles
        /\ remote' \in [Handles -> Inst \cup {NoInst, Retired}]
    BY <2>1, <2>3, <2>4
  <2>6. UNCHANGED <<refReleased, sessionVars, groupVars, actorVars, closeVars>>
    BY <2>1 DEF ServerAdds, ServerRemoves, ServerRejects
  <2>7. QED
    BY <2>5, <2>6 DEF TypeOK, Shape, HandlesKnown, sessionVars, groupVars, actorVars, closeVars
<1>4. CASE UNCHANGED vars
  BY <1>4 DEF vars, TypeOK, Shape, HandlesKnown, sessionVars, groupVars, actorVars, closeVars,
     serverVars
<1>5. QED
  BY <1>1, <1>2, <1>3, <1>4

-----------------------------------------------------------------------------
(* Ownership of the group objects *)

\* A return gives the gate back and forgets the group; on the way p may have
\* closed the transports of a group only it was disposing of.
LEMMA FinishOwnership ==
    ASSUME TypeOK, Shape, Ownership, NEW p \in Actors, NEW failed \in BOOLEAN,
           Finish(p, failed), UNCHANGED <<nextGroupID, groups, kind, gclosed, op, target>>,
           conns' \in {conns, [conns EXCEPT ![cur[p]] = "closed"]},
           conns' # conns => pc[p] = "dispose"
    PROVE  Ownership'
<1>1. \A q \in Actors : q # p => pc'[q] = pc[q] /\ cur'[q] = cur[q]
  BY DEF Finish, Goto, TypeOK
<1>2. pc'[p] \in {"idle", "sweep"} /\ cur'[p] = NoInst
  BY DEF Finish, Goto, TypeOK
<1>3. \A g \in Inst : gate[g] # p => gate'[g] = gate[g]
  BY DEF Finish
<1>4. \A g \in Inst : conns'[g] = conns[g] \/ (g = cur[p] /\ (Creating(p) \/ Removing(p)))
  BY DEF TypeOK, Shape, Creating, Removing, Ops
<1>5. \A i \in GroupIDs : groups[i] # NoInst => groups[i] \in Inst /\ conns'[groups[i]] = "open"
  BY <1>4 DEF TypeOK, Ownership, Removing, Creating
<1>6. \A q \in Actors : pc'[q] \in {"gate", "held", "call", "ready"} =>
         /\ q # p /\ cur[q] \in Inst
         /\ pc[q] \in {"held", "call", "ready"} => conns'[cur[q]] = conns[cur[q]]
         /\ pc[q] = "gate" => gclosed[cur[q]] \/ conns'[cur[q]] = conns[cur[q]]
  <2>1. SUFFICES ASSUME NEW q \in Actors, pc'[q] \in {"gate", "held", "call", "ready"}
        PROVE  /\ q # p /\ cur[q] \in Inst
               /\ pc[q] \in {"held", "call", "ready"} => conns'[cur[q]] = conns[cur[q]]
               /\ pc[q] = "gate" => gclosed[cur[q]] \/ conns'[cur[q]] = conns[cur[q]]
    OBVIOUS
  <2>2. q # p /\ pc[q] = pc'[q] /\ cur[q] \in Inst
    BY <2>1, <1>1, <1>2 DEF Shape, WithGroup
  <2>3. cur[q] = cur[p] => ~Creating(p)
    BY <2>2 DEF Ownership
  <2>4. cur[q] = cur[p] /\ Removing(p) => gate[cur[q]] = p /\ gclosed[cur[q]]
    BY DEF Ownership
  <2>5. QED
    BY <1>4, <2>2, <2>3, <2>4 DEF Ownership, Creating
<1>7. \A q \in Actors : (Creating(q)' => q # p /\ Creating(q)) /\ (Removing(q)' => q # p /\ Removing(q))
  BY <1>1, <1>2 DEF Creating, Removing
<1>8. \A q \in Actors : Removing(q)' => gate'[cur'[q]] = q /\ gclosed'[cur'[q]]
  BY <1>1, <1>3, <1>7 DEF Ownership, Shape, WithGroup, Removing
<1>9. \A q \in Actors : pc'[q] \in {"held", "call"} =>
         gate'[cur'[q]] = q /\ ~gclosed'[cur'[q]] /\ conns'[cur'[q]] = "open"
  BY <1>1, <1>3, <1>6 DEF Ownership
<1>10. \A q \in Actors : pc'[q] = "gate" =>
          /\ gclosed'[cur'[q]] \/ conns'[cur'[q]] = "open"
          /\ \A i \in GroupIDs : groups'[i] = cur'[q] => i = target'[q]
  BY <1>1, <1>6 DEF Ownership
<1>11. \A q \in Actors : Creating(q)' =>
          /\ \A r \in Actors : cur'[r] = cur'[q] => r = q
          /\ \A i \in GroupIDs : groups'[i] # cur'[q]
          /\ ~gclosed'[cur'[q]]
          /\ pc'[q] = "ready" => conns'[cur'[q]] = "open"
  <2>1. SUFFICES ASSUME NEW q \in Actors, Creating(q)'
        PROVE  /\ \A r \in Actors : cur'[r] = cur'[q] => r = q
               /\ \A i \in GroupIDs : groups'[i] # cur'[q]
               /\ ~gclosed'[cur'[q]]
               /\ pc'[q] = "ready" => conns'[cur'[q]] = "open"
    OBVIOUS
  <2>2. q # p /\ Creating(q) /\ cur'[q] = cur[q] /\ cur[q] \in Inst /\ pc'[q] = pc[q]
    BY <2>1, <1>1, <1>7 DEF Shape, Creating, WithGroup
  <2>3. \A r \in Actors : cur'[r] = cur'[q] => r = q
    BY <2>2, <1>1, <1>2, SessionAssumption DEF Ownership
  <2>4. QED
    BY <2>2, <2>3, <1>6 DEF Ownership
<1>12. \A q \in Actors : pc'[q] \in {"held", "call"} =>
          \A i \in GroupIDs : groups'[i] = cur'[q] => i = target'[q]
  BY <1>1, <1>2 DEF Ownership
<1>13. /\ \A q \in Actors : cur'[q] \in Inst => kind'[cur'[q]] # "unused"
       /\ \A i \in GroupIDs : groups'[i] # NoInst =>
             /\ kind'[groups'[i]] # "unused"
             /\ conns'[groups'[i]] = "open" /\ ~gclosed'[groups'[i]]
             /\ i <= nextGroupID'
             /\ \A j \in GroupIDs : groups'[j] = groups'[i] => j = i
       /\ \A g \in Inst : kind'[g] = "unused" => ~gclosed'[g]
  BY <1>1, <1>2, <1>5, SessionAssumption DEF Ownership
<1>14. QED
  BY <1>8, <1>9, <1>10, <1>11, <1>12, <1>13 DEF Ownership

\* A creation, or the clean-up of one, that goes on to a step without effect on the
\* group objects.
LEMMA CreationStepOwnership ==
    ASSUME TypeOK, Shape, Ownership, NEW p \in Actors,
           pc[p] \in {"open", "adding", "setup", "ready"},
           NEW l \in {"adding", "setup", "dispose"}, pc' = [pc EXCEPT ![p] = l],
           UNCHANGED <<kind, gate, gclosed, conns, op, cur, target, groups, nextGroupID>>
    PROVE  Ownership'
<1>1. /\ pc'[p] = l /\ \A q \in Actors : q # p => pc'[q] = pc[q]
  BY DEF TypeOK
<1>2. \A q \in Actors : Creating(q)' = Creating(q) /\ Removing(q)' = Removing(q)
  BY <1>1 DEF Creating, Removing, Shape
<1>3. \A q \in Actors : pc'[q] \in {"ready", "gate", "held", "call"} => pc'[q] = pc[q]
  BY <1>1
<1> HIDE DEF Creating, Removing
<1>4. QED
  BY <1>2, <1>3 DEF Ownership

LEMMA StepOwnership ==
    ASSUME TypeOK, Shape, Ownership, NEW p \in Actors, Step(p)
    PROVE  Ownership'
<1> USE SessionAssumption DEF TypeOK, Shape, Ownership, Creating, Removing, Actors, WithGroup,
       ByIdentity, GroupIDs
<1>1. CASE Admit(p)
  <2>1. CASE op[p] = "remove"
    BY <1>1, <2>1 DEF Admit, Goto
  <2>2. CASE op[p] # "remove"
    <3>1. PICK g \in Inst :
             /\ kind[g] = "unused" /\ op[p] \in {"add", "object"}
             /\ kind' = [kind EXCEPT ![g] = IF op[p] = "add" THEN "persistent"
                                                            ELSE "temporary"]
             /\ cur' = [cur EXCEPT ![p] = g]
             /\ Goto(p, "open")
      BY <1>1, <2>2 DEF Admit
    <3>2. UNCHANGED <<nextGroupID, groups, gclosed, conns, gate, op, target>>
      BY <1>1 DEF Admit
    <3>3. /\ \A q \in Actors : cur[q] # g
          /\ \A i \in GroupIDs : groups[i] # g
          /\ ~gclosed[g]
      BY <3>1
    <3>4. QED
      BY <3>1, <3>2, <3>3 DEF Goto
  <2>3. QED
    BY <2>1, <2>2
<1>2. CASE SendAddGroup(p)
  <2>1. PICK l \in {"adding", "dispose"} : pc' = [pc EXCEPT ![p] = l]
    BY <1>2 DEF SendAddGroup, Goto
  <2>2. pc[p] = "open" /\ UNCHANGED <<sessionVars, groupVars, op, cur, target>>
    BY <1>2 DEF SendAddGroup
  <2>3. QED
    BY <2>1, <2>2, CreationStepOwnership DEF sessionVars, groupVars
<1>3. CASE GroupAdded(p)
  <2>1. /\ pc[p] = "adding" /\ pc' = [pc EXCEPT ![p] = "setup"]
        /\ UNCHANGED <<sessionVars, kind, gate, gclosed, conns, op, cur, target>>
    BY <1>3 DEF GroupAdded, Goto
  <2>2. QED
    BY <2>1, CreationStepOwnership DEF sessionVars
<1>4. CASE AddFailed(p)
  <2>1. /\ pc[p] = "adding" /\ pc' = [pc EXCEPT ![p] = "dispose"]
        /\ UNCHANGED <<sessionVars, groupVars, op, cur, target>>
    BY <1>4 DEF AddFailed, Goto
  <2>2. QED
    BY <2>1, CreationStepOwnership DEF sessionVars, groupVars
<1>5. CASE Setup(p)
  <2>1. /\ pc[p] = "setup"
        /\ UNCHANGED <<sessionVars, kind, gate, gclosed, op, cur, target>>
    BY <1>5 DEF Setup
  <2>2. CASE conns' = [conns EXCEPT ![cur[p]] = "open"] /\ pc' = [pc EXCEPT ![p] = "ready"]
    BY <2>1, <2>2 DEF sessionVars
  <2>3. CASE conns' = conns /\ pc' = [pc EXCEPT ![p] = "dispose"]
    BY <2>1, <2>3, CreationStepOwnership DEF sessionVars
  <2>4. QED
    BY <1>5, <2>2, <2>3 DEF Setup, Goto
<1>6. CASE Register(p)
  BY <1>6 DEF Register, Goto, Finish, sessionVars, groupVars, closeVars, serverVars
<1>7. CASE Unregistered(p)
  <2>1. /\ pc[p] = "ready" /\ pc' = [pc EXCEPT ![p] = "dispose"]
        /\ UNCHANGED <<sessionVars, groupVars, op, cur, target>>
    BY <1>7 DEF Unregistered, Goto
  <2>2. QED
    BY <2>1, CreationStepOwnership DEF sessionVars, groupVars
<1>8. CASE Lookup(p)
  BY <1>8 DEF Lookup, Goto, sessionVars, groupVars, closeVars, serverVars
<1>9. CASE Acquire(p)
  BY <1>9 DEF Acquire, Goto, sessionVars, groupVars, closeVars, serverVars
<1>10. CASE MarkRemoved(p)
  BY <1>10 DEF MarkRemoved, Goto, sessionVars, groupVars, closeVars, serverVars
<1>11. CASE Dispose(p)
  <2>1. cur[p] \in Inst
    BY <1>11 DEF Dispose
  <2>2. Creating(p) \/ Removing(p)
    BY <1>11 DEF Dispose, Ops
  <2>3. \A i \in GroupIDs : groups[i] # cur[p]
    BY <2>1, <2>2
  <2>4. \A q \in Actors : pc[q] \in {"held", "call", "ready"} => cur[q] # cur[p]
    BY <1>11, <2>1, <2>2 DEF Dispose
  <2>5. \A q \in Actors : pc[q] = "gate" /\ cur[q] = cur[p] => gclosed[cur[q]]
    BY <1>11, <2>1, <2>2 DEF Dispose
  <2>6. /\ \A q \in Actors : q # p => pc'[q] = pc[q]
        /\ pc'[p] = "removing"
        /\ \A g \in Inst : g # cur[p] => conns'[g] = conns[g]
        /\ UNCHANGED <<kind, gate, gclosed, op, cur, target, groups, nextGroupID>>
    <3>1. /\ UNCHANGED <<kind, gate, gclosed, op, cur, target, groups, nextGroupID>>
          /\ pc' = [pc EXCEPT ![p] = "removing"]
          /\ conns' = [conns EXCEPT ![cur[p]] = "closed"]
      BY <1>11 DEF Dispose, Goto, sessionVars
    <3> HIDE DEF Shape, Ownership, Creating, Removing
    <3>2. QED
      BY <3>1, <2>1
  <2>7. \A q \in Actors : Creating(q)' = Creating(q) /\ Removing(q)' = Removing(q)
    <3>1. pc[p] = "dispose"
      BY <1>11 DEF Dispose
    <3> HIDE DEF TypeOK, Shape, Ownership
    <3>2. QED
      BY <3>1, <2>6
  <2> HIDE DEF Creating, Removing
  <2>8. \A i \in GroupIDs : groups[i] # NoInst => conns'[groups[i]] = "open"
    BY <2>3, <2>6
  <2>9. \A q \in Actors : pc'[q] \in {"held", "call", "ready"} =>
           pc'[q] = pc[q] /\ conns'[cur[q]] = conns[cur[q]]
    BY <2>4, <2>6
  <2>10. \A q \in Actors : pc'[q] = "gate" => gclosed[cur[q]] \/ conns'[cur[q]] = "open"
    BY <2>5, <2>6
  <2> HIDE DEF TypeOK, Shape
  <2>11. \A q \in Actors : Creating(q)' =>
            /\ \A r \in Actors : cur'[r] = cur'[q] => r = q
            /\ \A i \in GroupIDs : groups'[i] # cur'[q]
            /\ ~gclosed'[cur'[q]]
            /\ pc'[q] = "ready" => conns'[cur'[q]] = "open"
    BY <2>6, <2>7, <2>9
  <2>12. \A q \in Actors : Removing(q)' => gate'[cur'[q]] = q /\ gclosed'[cur'[q]]
    BY <2>6, <2>7
  <2>13. \A q \in Actors : pc'[q] \in {"gate", "held", "call"} =>
            \A i \in GroupIDs : groups'[i] = cur'[q] => i = target'[q]
    BY <2>6
  <2>14. \A q \in Actors : pc'[q] \in {"held", "call"} =>
            gate'[cur'[q]] = q /\ ~gclosed'[cur'[q]] /\ conns'[cur'[q]] = "open"
    BY <2>6, <2>9
  <2>15. QED
    BY <2>6, <2>8, <2>10, <2>11, <2>12, <2>13, <2>14
<1> HIDE DEF TypeOK, Shape, Ownership
<1>12. CASE \/ Refuse(p) \/ LookupFailed(p) \/ AcquireFailed(p) \/ EndCall(p)
            \/ RemoveAcked(p) \/ RemoveFailed(p)
  BY <1>12, FinishOwnership DEF Refuse, LookupFailed, AcquireFailed, EndCall, RemoveAcked,
     RemoveFailed, FinishFrame
<1>13. CASE DisposeUncreated(p)
  BY <1>13, FinishOwnership DEF DisposeUncreated, FinishFrame
<1>14. QED
  BY <1>1, <1>2, <1>3, <1>4, <1>5, <1>6, <1>7, <1>8, <1>9, <1>10, <1>11, <1>12, <1>13 DEF Step

LEMMA OtherOwnership ==
    ASSUME TypeOK, Shape, Ownership,
           \/ Close \/ CloseStep \/ Teardown
           \/ \E p \in Callers, o \in Ops, i \in 0..MaxGroupID : Start(p, o, i)
           \/ \E p \in Actors : Cancel(p)
           \/ ServerStep
           \/ UNCHANGED vars
    PROVE  Ownership'
<1>1. ASSUME \/ \E p \in Actors : Cancel(p)
             \/ ServerStep
             \/ Teardown
             \/ UNCHANGED vars
      PROVE  UNCHANGED <<nextGroupID, groups, groupVars, pc, op, cur, target>>
  BY <1>1 DEF Cancel, ServerStep, ServerAdds, ServerRemoves, ServerRejects, Teardown, vars,
     sessionVars, actorVars
<1>2. ASSUME Close \/ CloseStep
      PROVE  /\ UNCHANGED <<nextGroupID, groups, groupVars, cur>>
             /\ \A p \in Actors : pc[p] # pc'[p] =>
                   /\ pc[p] \in {"idle", "marking", "drain", "sweep", "retrying", "disconnect"}
                   /\ pc'[p] \in {"marking", "drain", "sweep", "retrying", "disconnect", "done",
                                  "lookup"}
             /\ \A p \in Actors : pc[p] # "sweep" => op'[p] = op[p] /\ target'[p] = target[p]
  BY <1>2 DEF Close, CloseStep, MarkClosed, Drained, DrainTimeout, RetryRemoval, RetryReturns,
     SweepGroup, ReleaseServerReference, Disconnect, Goto, TypeOK, Actors, sessionVars
<1>3. ASSUME NEW p \in Callers, NEW o \in Ops, NEW i \in 0..MaxGroupID, Start(p, o, i)
      PROVE  /\ UNCHANGED <<nextGroupID, groups, groupVars, cur>>
             /\ \A q \in Actors : pc[q] # pc'[q] =>
                   pc[q] = "idle" /\ pc'[q] \in {"lookup", "begin"}
             /\ \A q \in Actors : pc[q] # "idle" => op'[q] = op[q] /\ target'[q] = target[q]
  BY <1>3 DEF Start, Goto, TypeOK, Actors, sessionVars
<1>4. QED
  BY <1>1, <1>2, <1>3 DEF TypeOK, Ownership, Creating, Removing, groupVars

-----------------------------------------------------------------------------
(* The phases of Close *)

\* closed is never reset, admission stops with it, and what has drained stays
\* drained, so a closed transport implies that nothing is admitted.  The RPC context
\* ends only as Close returns, after draining or with an error.
LEMMA ClosingInvariant ==
    ASSUME TypeOK, Shape, Closing, [Next]_vars
    PROVE  Closing'
<1> USE DEF Closing, DrainedBeforeDisconnect, TypeOK
<1>1. ASSUME NEW p \in Actors, Admit(p)
      PROVE  Closing'
  <2>1. p # Closer
    BY <1>1 DEF Admit, Shape
  <2>2. /\ UNCHANGED <<closed, serverConn, rpcCtx, closeErr, teardown>> /\ ~closed
        /\ pc'[Closer] = pc[Closer]
    BY <1>1, <2>1 DEF Admit, Goto, closeVars, Actors
  <2>3. QED
    BY <2>2
<1>2. ASSUME NEW p \in Actors,
             \/ SendAddGroup(p) \/ GroupAdded(p) \/ AddFailed(p) \/ Setup(p) \/ Unregistered(p)
             \/ Lookup(p) \/ Acquire(p) \/ MarkRemoved(p) \/ Dispose(p)
      PROVE  Closing'
  <2>1. /\ UNCHANGED <<closed, groupOps, serverConn, rpcCtx, closeErr, teardown>>
        /\ pc'[Closer] \in {pc[Closer]} \cup WithGroup
        /\ pc'[Closer] # pc[Closer] => p = Closer /\ pc[p] \in WithGroup \cup {"lookup"}
    BY <1>2 DEF SendAddGroup, GroupAdded, AddFailed, Setup, Unregistered, Lookup, Acquire,
       MarkRemoved, Dispose, Goto, Actors, WithGroup, sessionVars, closeVars
  <2>2. QED
    BY <2>1 DEF WithGroup
<1>3. ASSUME NEW p \in Actors,
             \/ Refuse(p) \/ Register(p) \/ LookupFailed(p) \/ AcquireFailed(p) \/ EndCall(p)
             \/ DisposeUncreated(p) \/ RemoveAcked(p) \/ RemoveFailed(p)
      PROVE  Closing'
  <2>1. /\ UNCHANGED <<closed, serverConn, rpcCtx, teardown>> /\ (closeErr => closeErr')
        /\ groupOps' \subseteq groupOps
        /\ pc'[Closer] \in {pc[Closer], "sweep"}
        /\ pc'[Closer] # pc[Closer] =>
              p = Closer /\ pc[p] \in WithGroup \cup {"begin", "lookup"}
    BY <1>3 DEF Refuse, Register, LookupFailed, AcquireFailed, EndCall, DisposeUncreated,
       RemoveAcked, RemoveFailed, Finish, FinishFrame, Goto, Actors, WithGroup
  <2>2. QED
    BY <2>1 DEF WithGroup
<1>4. CASE Close \/ CloseStep \/ Teardown
  BY <1>4 DEF Close, CloseStep, MarkClosed, Drained, DrainTimeout, RetryRemoval, RetryReturns,
     SweepGroup, ReleaseServerReference, Disconnect, Teardown, Goto, Actors,
     sessionVars, closeVars, actorVars
<1>5. ASSUME NEW p \in Callers, NEW o \in Ops, NEW i \in 0..MaxGroupID, Start(p, o, i)
      PROVE  Closing'
  BY <1>5, SessionAssumption DEF Start, Goto, Actors, sessionVars, closeVars
<1>6. CASE (\E p \in Actors : Cancel(p)) \/ ServerStep \/ UNCHANGED vars
  <2>1. UNCHANGED <<pc, sessionVars, closeVars>>
    BY <1>6 DEF Cancel, ServerStep, ServerAdds, ServerRemoves, ServerRejects, vars, actorVars
  <2>2. QED
    BY <2>1 DEF sessionVars, closeVars
<1>7. QED
  BY <1>1, <1>2, <1>3, <1>4, <1>5, <1>6 DEF Next, Step, Terminated

-----------------------------------------------------------------------------
(* Theorems *)

\* It holds at the start.
LEMMA InitInvariant == Init => IInv
<1> SUFFICES ASSUME Init PROVE IInv
  OBVIOUS
<1>1. TypeOK
  <2>1. 0 \in 0..MaxGroupID
    BY SessionAssumption
  <2>2. /\ "idle" \in PCs /\ "call" \in Ops
        /\ [p \in Actors |-> 0] \in [Actors -> 0..MaxGroupID]
    BY <2>1 DEF PCs, Ops
  <2>3. QED
    BY <2>1, <2>2 DEF Init, TypeOK
<1>2. Shape /\ HandlesKnown
  BY DEF Init, Shape, HandlesKnown, Actors, WithGroup, ByIdentity
<1>3. Ownership
  BY SessionAssumption DEF Init, Ownership, Creating, Removing, Actors
<1>4. Closing
  BY DEF Init, Closing, DrainedBeforeDisconnect, Actors
<1>5. QED
  BY <1>1, <1>2, <1>3, <1>4 DEF IInv

\* Every step preserves it.
LEMMA StepInvariant == IInv /\ [Next]_vars => IInv'
<1> SUFFICES ASSUME IInv, [Next]_vars PROVE IInv'
  OBVIOUS
<1>1. Closing'
  BY ClosingInvariant DEF IInv
<1>2. CASE \E p \in Actors : Step(p)
  BY <1>1, <1>2, StepTypes, StepHandlesKnown, StepOwnership DEF IInv
<1>3. CASE \/ Close \/ CloseStep \/ Teardown
  BY <1>1, <1>3, CloseTypes, OtherOwnership DEF IInv
<1>4. CASE \/ \E p \in Callers, o \in Ops, i \in 0..MaxGroupID : Start(p, o, i)
           \/ \E p \in Actors : Cancel(p)
           \/ ServerStep
           \/ UNCHANGED vars
  BY <1>1, <1>4, OtherTypes, OtherOwnership DEF IInv
<1>5. QED
  BY <1>2, <1>3, <1>4 DEF Next, Terminated

\* Every state the session reaches has the invariant: the shape of its state,
\* the ownership of the group objects, and the phases of Close.
THEOREM Invariant == Spec => []IInv
<1>1. QED
  BY InitInvariant, StepInvariant, PTL DEF Spec

\* Type correctness of the session, server and network state.
THEOREM TypeCorrect == Spec => []TypeOK
<1>1. IInv => TypeOK
  BY DEF IInv
<1>2. QED
  BY <1>1, Invariant, PTL

\* No read, write or SetActive runs on a group whose transports were closed by a
\* concurrent Remove or Close (persistentGroup.acquire, removeGroupInternal).
THEOREM NoUseAfterDispose == Spec => []NoCallOnDisposedGroup
<1>1. IInv => NoCallOnDisposedGroup
  BY DEF IInv, Ownership, NoCallOnDisposedGroup, Actors
<1>2. QED
  BY <1>1, Invariant, PTL

\* closeContext, and the goroutine it leaves behind when its context ends first,
\* close the transport only after every admitted operation is over; the RPC context
\* ends under one only when Close gives up, and Close has reported an error by then.
THEOREM DrainFirst == Spec => []DrainedBeforeDisconnect
<1>1. IInv => DrainedBeforeDisconnect
  BY DEF IInv, Closing
<1>2. QED
  BY <1>1, Invariant, PTL

\* registerGroup binds an identity once: it is new when it is bound, and only
\* ever unbound afterwards, so a removed Group never reaches a later group.
THEOREM IdentityStable == Spec => IdentityBoundOnce
<1> DEFINE BoundOnce ==
      \A i \in GroupIDs :
         groups'[i] # groups[i] =>
             \/ groups'[i] = NoInst
             \/ groups[i] = NoInst /\ i > nextGroupID /\ i <= nextGroupID'
<1>1. IInv /\ [Next]_vars => [BoundOnce]_vars
  <2> SUFFICES ASSUME IInv, Next PROVE BoundOnce
    OBVIOUS
  <2>1. CASE \E p \in Actors : Register(p)
    <3>1. PICK p \in Actors : Register(p)
      BY <2>1
    <3>2. /\ nextGroupID \in 0..MaxGroupID /\ nextGroupID' = nextGroupID + 1
          /\ groups \in [GroupIDs -> Inst \cup {NoInst}]
          /\ \A i \in GroupIDs : groups'[i] # groups[i] => i = nextGroupID + 1
      BY <3>1 DEF Register, IInv, TypeOK
    <3>3. \A i \in GroupIDs : groups[i] # NoInst => i <= nextGroupID
      BY DEF IInv, Ownership
    <3>4. QED
      BY <3>2, <3>3, SessionAssumption DEF GroupIDs
  <2>2. CASE \E p \in Actors : MarkRemoved(p)
    BY <2>2 DEF MarkRemoved, IInv, TypeOK
  <2>3. CASE ~(\E p \in Actors : Register(p) \/ MarkRemoved(p))
    <3>1. UNCHANGED groups
      BY <2>3 DEF Next, Start, Cancel, Step, Refuse, Admit, SendAddGroup, GroupAdded, AddFailed,
         Setup, Unregistered, Lookup, LookupFailed, Acquire, AcquireFailed, EndCall, Dispose,
         DisposeUncreated, RemoveAcked, RemoveFailed, FinishFrame, Close, CloseStep, MarkClosed,
         Drained, DrainTimeout, RetryRemoval, RetryReturns, SweepGroup, ReleaseServerReference,
         Disconnect, Teardown, ServerStep, ServerAdds, ServerRemoves, ServerRejects, Terminated,
         sessionVars, vars
    <3>2. QED
      BY <3>1
  <2>4. QED
    BY <2>1, <2>2, <2>3
<1>2. QED
  BY <1>1, Invariant, PTL DEF Spec, IdentityBoundOnce

\* Once closeContext has set closed, groupOps only shrinks and no group becomes
\* registered: what Close collects afterwards is complete.
THEOREM ClosedIsFinal == Spec => NothingNewAfterClosed
<1> DEFINE NothingNew ==
      closed => /\ groupOps' \subseteq groupOps
                /\ \A i \in GroupIDs : groups'[i] \in {groups[i], NoInst}
<1>1. IInv /\ [Next]_vars => [NothingNew]_vars
  <2> SUFFICES ASSUME IInv, Next, closed PROVE NothingNew
    OBVIOUS
  <2>1. CASE \E p \in Actors : MarkRemoved(p)
    BY <2>1 DEF MarkRemoved, IInv, TypeOK
  <2>2. CASE ~(\E p \in Actors : MarkRemoved(p))
    <3>1. CASE \E p \in Actors : Step(p)
      <4>1. PICK p \in Actors : Step(p)
        BY <3>1
      <4>2. ~Admit(p) /\ ~Register(p) /\ ~MarkRemoved(p)
        BY <2>2 DEF Admit, Register, IInv, Closing
      <4>3. UNCHANGED groups /\ groupOps' \subseteq groupOps
        BY <4>1, <4>2 DEF Step, Refuse, SendAddGroup, GroupAdded, AddFailed, Setup, Unregistered,
           Lookup, LookupFailed, Acquire, AcquireFailed, EndCall, Dispose, DisposeUncreated,
           RemoveAcked, RemoveFailed, Finish, FinishFrame, sessionVars
      <4>4. QED
        BY <4>3 DEF IInv, TypeOK
    <3>2. CASE ~(\E p \in Actors : Step(p))
      <4>1. UNCHANGED <<groups, groupOps>>
        BY <3>2 DEF Next, Start, Cancel, Close, CloseStep, MarkClosed, Drained, DrainTimeout,
           RetryRemoval, RetryReturns, SweepGroup, ReleaseServerReference, Disconnect, Teardown,
           ServerStep, ServerAdds, ServerRemoves, ServerRejects, Terminated, sessionVars, vars
      <4>2. QED
        BY <4>1 DEF IInv, TypeOK
    <3>3. QED
      BY <3>1, <3>2
  <2>3. QED
    BY <2>1, <2>2
<1>2. QED
  BY <1>1, Invariant, PTL DEF Spec, NothingNewAfterClosed

-----------------------------------------------------------------------------
(* Deadlock *)

\* A gate is owned by an actor at work under it, and an operation is counted as long
\* as it is at work and no longer.
UnderGate == {"held", "call", "dispose", "removing"}

GatesOwned ==
    \A g \in Inst : gate[g] # NoOne => pc[gate[g]] \in UnderGate /\ cur[gate[g]] = g

Counted ==
    \A p \in Callers :
        p \in groupOps <=> pc[p] \in WithGroup \cup {"lookup"} /\ op[p] # "call"

WaitInv == GatesOwned /\ Counted
\* What a step of p does to the state WaitInv is about; so do the steps of Close.
OnlyOf(p) ==
    /\ \A q \in Actors \ {p} : pc'[q] = pc[q] /\ cur'[q] = cur[q] /\ op'[q] = op[q]
    /\ groupOps' \ {p} = groupOps \ {p}

\* A step that leaves the gates alone, and p under its gate if it was there.
LEMMA GatesLeft ==
    ASSUME TypeOK, GatesOwned, NEW p \in Actors, OnlyOf(p), UNCHANGED gate,
           pc[p] \in UnderGate => pc'[p] \in UnderGate /\ cur'[p] = cur[p]
    PROVE  GatesOwned'
<1> SUFFICES ASSUME NEW g \in Inst, gate'[g] # NoOne
             PROVE  pc'[gate'[g]] \in UnderGate /\ cur'[gate'[g]] = g
  BY DEF GatesOwned
<1>1. gate[g] \in Actors /\ pc[gate[g]] \in UnderGate /\ cur[gate[g]] = g
  BY DEF GatesOwned, TypeOK
<1>2. QED
  BY <1>1 DEF OnlyOf

\* A return gives back the gate it may have had, and is no longer counted.
LEMMA FinishWaits ==
    ASSUME TypeOK, WaitInv, NEW p \in Actors, NEW failed \in BOOLEAN, Finish(p, failed),
           UNCHANGED op
    PROVE  WaitInv'
<1>1. /\ \A q \in Actors \ {p} : pc'[q] = pc[q] /\ cur'[q] = cur[q] /\ op'[q] = op[q]
      /\ pc'[p] = IF p = Closer THEN "sweep" ELSE "idle"
      /\ groupOps' = groupOps \ {p}
      /\ \A g \in Inst : gate'[g] = IF gate[g] = p THEN NoOne ELSE gate[g]
  BY DEF Finish, Goto, TypeOK
<1>2. GatesOwned'
  <2> SUFFICES ASSUME NEW g \in Inst, gate'[g] # NoOne
               PROVE  pc'[gate'[g]] \in UnderGate /\ cur'[gate'[g]] = g
    BY DEF GatesOwned
  <2>1. gate'[g] = gate[g] /\ gate[g] \in Actors \ {p}
    BY <1>1 DEF TypeOK
  <2>2. QED
    BY <1>1, <2>1 DEF WaitInv, GatesOwned
<1>3. Counted'
  <2> SUFFICES ASSUME NEW q \in Callers
               PROVE  q \in groupOps' <=> pc'[q] \in WithGroup \cup {"lookup"} /\ op'[q] # "call"
    BY DEF Counted
  <2>1. CASE q = p
    BY <1>1, <2>1, SessionAssumption DEF WithGroup
  <2>2. CASE q # p
    BY <1>1, <2>2 DEF WaitInv, Counted, Actors
  <2>3. QED
    BY <2>1, <2>2
<1>4. QED
  BY <1>2, <1>3 DEF WaitInv

\* A step between the admission of p and its return leaves it counted.
LEMMA CountLeft ==
    ASSUME Counted, NEW p \in Actors, OnlyOf(p),
           p \in Callers =>
               (p \in groupOps' <=> pc'[p] \in WithGroup \cup {"lookup"} /\ op'[p] # "call")
    PROVE  Counted'
BY DEF Counted, OnlyOf, Actors

LEMMA StepWaits ==
    ASSUME IInv, WaitInv, NEW p \in Actors, Step(p)
    PROVE  WaitInv'
<1> USE DEF IInv
<1>1. CASE \/ Refuse(p) \/ Register(p) \/ LookupFailed(p) \/ AcquireFailed(p) \/ EndCall(p)
           \/ DisposeUncreated(p) \/ RemoveAcked(p) \/ RemoveFailed(p)
  <2>1. \E failed \in BOOLEAN : Finish(p, failed) /\ UNCHANGED op
    BY <1>1 DEF Refuse, Register, LookupFailed, AcquireFailed, EndCall, DisposeUncreated,
       RemoveAcked, RemoveFailed, FinishFrame
  <2>2. QED
    BY <2>1, FinishWaits
<1>2. CASE Admit(p)
  <2>1. /\ OnlyOf(p) /\ UNCHANGED gate /\ pc[p] = "begin" /\ op'[p] = op[p]
        /\ pc'[p] \in {"lookup", "open"} /\ op[p] # "call" /\ p \in groupOps'
    BY <1>2 DEF Admit, OnlyOf, Goto, TypeOK
  <2>2. GatesOwned'
    BY <2>1, GatesLeft DEF WaitInv, UnderGate
  <2>3. Counted'
    BY <2>1, CountLeft DEF WaitInv, WithGroup
  <2>4. QED
    BY <2>2, <2>3 DEF WaitInv
<1>3. CASE \/ SendAddGroup(p) \/ GroupAdded(p) \/ AddFailed(p) \/ Setup(p) \/ Unregistered(p)
           \/ Lookup(p) \/ MarkRemoved(p) \/ Dispose(p)
  <2>1. /\ OnlyOf(p) /\ UNCHANGED <<gate, groupOps, op>>
        /\ pc[p] \in WithGroup \cup {"lookup"} /\ pc'[p] \in WithGroup \cup {"lookup"}
        /\ pc[p] \in UnderGate => pc'[p] \in UnderGate /\ cur'[p] = cur[p]
    <3>1. CASE SendAddGroup(p) \/ GroupAdded(p) \/ AddFailed(p) \/ Setup(p)
      BY <1>3, <3>1 DEF SendAddGroup, GroupAdded, AddFailed, Setup, OnlyOf, Goto, TypeOK,
         WithGroup, UnderGate, sessionVars, groupVars
    <3>2. CASE Unregistered(p) \/ Lookup(p) \/ MarkRemoved(p) \/ Dispose(p)
      BY <1>3, <3>2 DEF Unregistered, Lookup, MarkRemoved, Dispose, OnlyOf, Goto, TypeOK,
         WithGroup, UnderGate, sessionVars, groupVars
    <3>3. QED
      BY <1>3, <3>1, <3>2
  <2>2. GatesOwned'
    BY <2>1, GatesLeft DEF WaitInv
  <2>3. Counted'
    BY <2>1, CountLeft DEF WaitInv, Counted
  <2>4. QED
    BY <2>2, <2>3 DEF WaitInv
<1>4. CASE Acquire(p)
  <2>1. /\ OnlyOf(p) /\ UNCHANGED <<groupOps, op, cur>> /\ pc[p] = "gate"
        /\ cur[p] \in Inst /\ gate' = [gate EXCEPT ![cur[p]] = p]
        /\ pc'[p] \in {"held", "call"}
    BY <1>4 DEF Acquire, OnlyOf, Goto, TypeOK, Shape, WithGroup, sessionVars
  <2>2. GatesOwned'
    <3> SUFFICES ASSUME NEW g \in Inst, gate'[g] # NoOne
                 PROVE  pc'[gate'[g]] \in UnderGate /\ cur'[gate'[g]] = g
      BY DEF GatesOwned
    <3>1. CASE g = cur[p]
      BY <2>1, <3>1 DEF UnderGate, TypeOK
    <3>2. CASE g # cur[p]
      <4>1. gate'[g] = gate[g] /\ gate[g] \in Actors
        BY <2>1, <3>2 DEF TypeOK
      <4>2. pc[gate[g]] \in UnderGate /\ cur[gate[g]] = g
        BY <4>1 DEF WaitInv, GatesOwned
      <4>3. gate[g] # p
        BY <2>1, <4>2 DEF UnderGate
      <4>4. QED
        BY <2>1, <4>1, <4>2, <4>3 DEF OnlyOf
    <3>3. QED
      BY <3>1, <3>2
  <2>3. Counted'
    BY <2>1, CountLeft DEF WaitInv, Counted, WithGroup
  <2>4. QED
    BY <2>2, <2>3 DEF WaitInv
<1>5. QED
  BY <1>1, <1>2, <1>3, <1>4 DEF Step

LEMMA OtherWaits ==
    ASSUME IInv, WaitInv,
           \/ \E p \in Callers, o \in Ops, i \in 0..MaxGroupID : Start(p, o, i)
           \/ \E p \in Actors : Cancel(p)
           \/ Close \/ CloseStep \/ Teardown \/ ServerStep \/ UNCHANGED vars
    PROVE  WaitInv'
<1> USE DEF IInv
<1>1. ASSUME NEW p \in Callers, NEW o \in Ops, NEW i \in 0..MaxGroupID, Start(p, o, i)
      PROVE  WaitInv'
  <2>1. /\ OnlyOf(p) /\ UNCHANGED <<gate, groupOps>> /\ pc[p] = "idle" /\ op'[p] = o
        /\ pc'[p] = IF o = "call" THEN "lookup" ELSE "begin"
    BY <1>1 DEF Start, OnlyOf, Goto, TypeOK, Actors, sessionVars, groupVars
  <2>2. p \notin groupOps
    BY <2>1 DEF WaitInv, Counted, WithGroup
  <2>3. GatesOwned'
    BY <2>1, GatesLeft DEF WaitInv, UnderGate, Actors
  <2>4. Counted'
    BY <2>1, <2>2, CountLeft DEF WaitInv, WithGroup, Actors
  <2>5. QED
    BY <2>3, <2>4 DEF WaitInv
<1>2. CASE Close \/ CloseStep
  <2>1. /\ OnlyOf(Closer) /\ UNCHANGED <<gate, groupOps>> /\ pc[Closer] \notin UnderGate
    BY <1>2 DEF Close, CloseStep, MarkClosed, Drained, DrainTimeout, RetryRemoval, RetryReturns,
       SweepGroup, ReleaseServerReference, Disconnect, OnlyOf, Goto, TypeOK, UnderGate, Actors,
       sessionVars, groupVars
  <2>2. Closer \in Actors /\ Closer \notin Callers
    BY SessionAssumption DEF Actors
  <2>3. GatesOwned'
    BY <2>1, <2>2, GatesLeft DEF WaitInv
  <2>4. Counted'
    BY <2>1, <2>2, CountLeft DEF WaitInv
  <2>5. QED
    BY <2>3, <2>4 DEF WaitInv
<1>3. CASE \/ \E p \in Actors : Cancel(p)
           \/ Teardown \/ ServerStep \/ UNCHANGED vars
  <2>1. UNCHANGED <<gate, groupOps, pc, cur, op>>
    BY <1>3 DEF Cancel, Teardown, ServerStep, ServerAdds, ServerRemoves, ServerRejects, vars,
       sessionVars, groupVars, actorVars
  <2>2. QED
    BY <2>1 DEF WaitInv, GatesOwned, Counted
<1>4. QED
  BY <1>1, <1>2, <1>3

\* Neither an owner of a gate nor an admitted operation waits for Close, and no owner
\* of a gate for another gate (acquire, disposeGroup, closeContext): for any number of
\* callers and groups there is always somebody left whose own calls only have to end.
THEOREM DeadlockFree == Spec => []NoCircularWait
<1>1. Init => WaitInv
  BY SessionAssumption DEF Init, WaitInv, GatesOwned, Counted, WithGroup, Actors
<1>2. IInv /\ WaitInv /\ [Next]_vars => WaitInv'
  BY StepWaits, OtherWaits DEF Next, Terminated
<1>3. IInv /\ WaitInv => NoCircularWait
  <2> SUFFICES ASSUME IInv, WaitInv, NEW p \in Actors, NEW q \in Actors, WaitsFor(p, q)
               PROVE  \/ Working(q)
                      \/ /\ p = Closer /\ pc[q] = "gate"
                         /\ \/ gate[cur[q]] = NoOne
                            \/ \E r \in Actors : WaitsFor(q, r) /\ Working(r)
    BY DEF NoCircularWait
  <2>1. ASSUME NEW a \in Actors, pc[a] = "gate", gate[cur[a]] # NoOne
        PROVE  gate[cur[a]] \in Actors /\ Working(gate[cur[a]])
    <3>1. cur[a] \in Inst
      BY <2>1 DEF IInv, Shape, WithGroup
    <3>2. gate[cur[a]] \in Actors /\ pc[gate[cur[a]]] \in UnderGate
      BY <2>1, <3>1 DEF IInv, TypeOK, WaitInv, GatesOwned
    <3>3. QED
      BY <3>2 DEF Working, UnderGate
  <2>2. CASE pc[p] = "gate" /\ gate[cur[p]] = q
    BY <2>1, <2>2, SessionAssumption DEF Actors
  <2>3. CASE p = Closer /\ q \in groupOps
    <3>1. pc[q] \in WithGroup \cup {"lookup"}
      BY <2>3 DEF WaitInv, Counted, IInv, TypeOK
    <3>2. CASE pc[q] # "gate"
      BY <3>1, <3>2 DEF Working, WithGroup
    <3>3. CASE pc[q] = "gate"
      BY <2>1, <2>3, <3>3 DEF WaitsFor
    <3>4. QED
      BY <3>2, <3>3
  <2>4. QED
    BY <2>2, <2>3 DEF WaitsFor
<1>4. QED
  BY <1>1, <1>2, <1>3, Invariant, PTL DEF Spec
=============================================================================
