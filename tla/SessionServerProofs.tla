------------------------ MODULE SessionServerProofs ------------------------
(***************************************************************************)
(* Theorems about Session that involve the server's group table: what the  *)
(* client holds a handle of is there, the order of Close's clean-up, and   *)
(* that the session implements GroupService.                               *)
(***************************************************************************)
EXTENDS SessionProofs

-----------------------------------------------------------------------------
(* The inductive invariant *)

\* Close has waited for the operations and is cleaning up, or has.
Sweeping == pc[Closer] \notin {"idle", "marking", "drain"} /\ teardown = "none"

\* More about where actors are: what an actor between operations, an admitted
\* operation and the owner of a found group have.
Actions ==
    /\ \A p \in Actors : pc[p] \notin WithGroup => cur[p] = NoInst
    /\ \A p \in Callers :
          pc[p] \in WithGroup \cup {"lookup"} /\ op[p] # "call" => p \in groupOps
    /\ \A p \in Actors : pc[p] \in {"gate", "held", "call"} =>
          gclosed[cur[p]] \/ groups[target[p]] = cur[p]
    /\ \A p \in Actors : pc[p] \in {"open", "adding", "setup", "ready", "dispose"} =>
          conns[cur[p]] # "closed"
    /\ \A g \in Inst : kind[g] = "unused" => conns[g] # "closed"

\* The group of g is the client's to use or remove: it knows the handle and has
\* not begun to dispose of it.
Live(g) == handle[g] # NoHandle /\ conns[g] # "closed"

\* A handle is known from the reply to AddGroup to the disposal, and all that
\* time the group is registered or in the hands of one actor.
Held ==
    /\ \A p \in Actors : pc[p] \in {"setup", "ready"} => handle[cur[p]] # NoHandle
    /\ \A i \in GroupIDs : groups[i] # NoInst => handle[groups[i]] # NoHandle
    /\ \A g \in Inst : Live(g) =>
          \/ \E i \in GroupIDs : groups[i] = g
          \/ \E p \in Actors : cur[p] = g /\ pc[p] \in {"setup", "ready", "dispose"}

\* The phases of Close, and what is left to do in each.
Phases ==
    /\ teardown # "none" => pc[Closer] = "done"
    /\ Sweeping => groupOps = {}
    /\ ~Sweeping => todoPending = {} /\ ~refReleased
    /\ refReleased => pc[Closer] \in {"disconnect", "done"}
    /\ Sweeping => \A i \in GroupIDs : groups[i] # NoInst =>
          \/ closeErr
          \/ i \in todoIDs
          \/ i = target[Closer] /\ pc[Closer] \in {"lookup", "gate", "held"}
    /\ pc[Closer] \in {"disconnect", "done"} /\ teardown = "none" =>
          closeErr \/ todoIDs = {}

\* Nothing was ever sent for g.
Unsent(g) ==
    /\ handle[g] = NoHandle
    /\ \A m \in network : m.inst # g
    /\ \A h \in Handles : remote[h] # g

\* A group is created at most once, and its creator learns the handle it got.
Creation ==
    /\ \A g \in Inst : kind[g] = "unused" => Unsent(g)
    /\ \A p \in Actors : pc[p] = "open" => Unsent(cur[p])
    /\ \A g, h \in Handles : remote[g] \in Inst /\ remote[g] = remote[h] => g = h
    /\ \A m \in network : m.type \in {"AddGroup", "Added"} =>
          /\ m.inst \in Inst /\ handle[m.inst] = NoHandle
          /\ \A n \in network :
                n.type \in {"AddGroup", "Added"} /\ n.inst = m.inst => n = m
    /\ \A m \in network : m.type = "AddGroup" => \A h \in Handles : remote[h] # m.inst
    /\ \A m \in network : m.type = "Added" =>
          /\ pc[m.by] = "adding" /\ cur[m.by] = m.inst
          /\ m.handle \in Handles /\ remote[m.handle] = m.inst
          /\ \A n \in network : n.type = "RemoveGroup" => n.handle # m.handle

\* A request to remove a group names its handle; until Close retries removals it
\* finds that group there, since only one request names it.
Removal ==
    /\ \A m \in network : m.type = "RemoveGroup" =>
          /\ m.handle \in Handles
          /\ m.inst \in Inst => handle[m.inst] = m.handle
          /\ ~Sweeping => m.inst \in Inst /\ remote[m.handle] = m.inst
    /\ \A m, n \in network :
          m.type = "RemoveGroup" /\ n.type = "RemoveGroup" /\ m.inst = n.inst /\ m.inst \in Inst
             => m = n

\* The server keeps what the client holds: the handle stands for the group, and
\* no request on its way, nor one Close will send, takes it away.
Kept ==
    \A g \in Inst : Live(g) =>
        /\ handle[g] \in Handles /\ remote[handle[g]] = g
        /\ handle[g] \notin todoPending
        /\ \A m \in network : m.type = "RemoveGroup" => m.handle # handle[g]

ServerInv == IInv /\ Actions /\ Held /\ Phases /\ Creation /\ Removal /\ Kept

-----------------------------------------------------------------------------
\* Whoever disposes of a group is the only one who still works on it.
LEMMA DisposerAlone ==
    ASSUME TypeOK, Shape, Ownership, NEW p \in Actors, pc[p] = "dispose"
    PROVE  /\ cur[p] \in Inst
           /\ \A i \in GroupIDs : groups[i] # cur[p]
           /\ \A q \in Actors :
                 pc[q] \in {"open", "adding", "setup", "ready", "dispose"} /\ cur[q] = cur[p]
                    => q = p
<1>1. cur[p] \in Inst /\ (Creating(p) \/ Removing(p))
  BY DEF TypeOK, Shape, WithGroup, Creating, Removing, Ops
<1>2. \A q \in Actors : pc[q] \in {"open", "adding", "setup", "ready", "dispose"} =>
         Creating(q) \/ (Removing(q) /\ pc[q] = "dispose")
  BY DEF TypeOK, Shape, Creating, Removing, Ops
<1>3. \A i \in GroupIDs : groups[i] # cur[p]
  BY <1>1, SessionAssumption DEF Ownership
<1>4. ASSUME NEW q \in Actors, cur[q] = cur[p],
             pc[q] \in {"open", "adding", "setup", "ready", "dispose"}
      PROVE  q = p
  <2>1. CASE Creating(p) \/ Creating(q)
    BY <1>1, <1>4, <2>1 DEF Ownership
  <2>2. CASE Removing(p) /\ Removing(q)
    BY <1>4, <2>2 DEF Ownership
  <2>3. QED
    BY <1>1, <1>2, <1>4, <2>1, <2>2
<1>5. QED
  BY <1>1, <1>3, <1>4

\* The additional claims about actors are preserved.
LEMMA ActionsKept ==
    ASSUME ServerInv, [Next]_vars
    PROVE  Actions'
<1>0. TypeOK /\ Shape /\ Ownership /\ Actions
  BY DEF ServerInv, IInv
<1>1. ASSUME NEW p \in Actors, Refuse(p)
      PROVE  Actions'
  BY <1>1, <1>0, SessionAssumption DEF Refuse, Finish, FinishFrame, serverVars, Goto, Actions,
     WithGroup
<1>2. ASSUME NEW p \in Actors, Admit(p)
      PROVE  Actions'
  BY <1>2, <1>0, SessionAssumption DEF Admit, Goto, closeVars, serverVars, Actions, TypeOK,
     WithGroup, Actors
<1>3. ASSUME NEW p \in Actors, SendAddGroup(p)
      PROVE  Actions'
  BY <1>3, <1>0, SessionAssumption DEF SendAddGroup, Goto, Send, AddRequest, sessionVars,
     groupVars, closeVars, Actions, TypeOK, WithGroup, Actors
<1>4. ASSUME NEW p \in Actors, GroupAdded(p)
      PROVE  Actions'
  BY <1>4, <1>0, SessionAssumption DEF GroupAdded, Goto, sessionVars, closeVars, Actions,
     WithGroup
<1>5. ASSUME NEW p \in Actors, AddFailed(p)
      PROVE  Actions'
  BY <1>5, <1>0, SessionAssumption DEF AddFailed, Goto, sessionVars, groupVars, closeVars,
     Actions, WithGroup
<1>6. ASSUME NEW p \in Actors, Setup(p)
      PROVE  Actions'
  BY <1>6, <1>0, SessionAssumption DEF Setup, Goto, sessionVars, closeVars, serverVars,
     Actions, TypeOK, Shape, WithGroup, Actors
<1>7. ASSUME NEW p \in Actors, Register(p)
      PROVE  Actions'
  BY <1>7, <1>0, SessionAssumption DEF Register, Finish, serverVars, Goto, Actions, TypeOK,
     Shape, Ownership, WithGroup
<1>8. ASSUME NEW p \in Actors, Unregistered(p)
      PROVE  Actions'
  BY <1>8, <1>0, SessionAssumption DEF Unregistered, Goto, sessionVars, groupVars, closeVars,
     serverVars, Actions, WithGroup
<1>9. ASSUME NEW p \in Actors, Lookup(p)
      PROVE  Actions'
  BY <1>9, <1>0, SessionAssumption DEF Lookup, Goto, sessionVars, groupVars, closeVars,
     serverVars, Actions, TypeOK, WithGroup
<1>10. ASSUME NEW p \in Actors, LookupFailed(p)
      PROVE  Actions'
  BY <1>10, <1>0, SessionAssumption DEF LookupFailed, Finish, FinishFrame, serverVars, Goto,
     Actions, TypeOK, WithGroup
<1>11. ASSUME NEW p \in Actors, Acquire(p)
      PROVE  Actions'
  BY <1>11, <1>0, SessionAssumption DEF Acquire, Goto, sessionVars, closeVars, serverVars,
     Actions, WithGroup
<1>12. ASSUME NEW p \in Actors, AcquireFailed(p)
      PROVE  Actions'
  BY <1>12, <1>0, SessionAssumption DEF AcquireFailed, Finish, FinishFrame, serverVars, Goto,
     Actions, TypeOK, WithGroup
<1>13. ASSUME NEW p \in Actors, EndCall(p)
      PROVE  Actions'
  BY <1>13, <1>0, SessionAssumption DEF EndCall, Finish, FinishFrame, serverVars, Goto,
     Actions, TypeOK, WithGroup
<1>14. ASSUME NEW p \in Actors, MarkRemoved(p)
      PROVE  Actions'
  BY <1>14, <1>0, SessionAssumption DEF MarkRemoved, Goto, closeVars, serverVars, Actions,
     TypeOK, Ownership, WithGroup
<1>15. ASSUME NEW p \in Actors, Dispose(p)
      PROVE  Actions'
  <2>1. /\ cur[p] \in Inst
        /\ \A q \in Actors :
              pc[q] \in {"open", "adding", "setup", "ready", "dispose"} /\ cur[q] = cur[p]
                 => q = p
    BY <1>15, <1>0, DisposerAlone DEF Dispose, DisposeUncreated
  <2>2. kind[cur[p]] # "unused"
    BY <2>1, <1>0 DEF Ownership
  <2>3. /\ \A q \in Actors : q # p => pc'[q] = pc[q]
        /\ pc'[p] = "removing"
        /\ \A g \in Inst : g # cur[p] => conns'[g] = conns[g]
        /\ UNCHANGED <<kind, groupOps, gclosed, op, cur, target, groups>>
    BY <1>15, <1>0 DEF Dispose, Goto, TypeOK, sessionVars
  <2>4. \A q \in Actors : pc[q] \in WithGroup => cur[q] \in Inst
    BY <1>0 DEF Shape
  <2>5. QED
    BY <1>15, <2>1, <2>2, <2>3, <2>4, <1>0 DEF Dispose, Actions, WithGroup, Actors
<1>16. ASSUME NEW p \in Actors, DisposeUncreated(p)
      PROVE  Actions'
  <2>1. /\ cur[p] \in Inst
        /\ \A q \in Actors :
              pc[q] \in {"open", "adding", "setup", "ready", "dispose"} /\ cur[q] = cur[p]
                 => q = p
    BY <1>16, <1>0, DisposerAlone DEF Dispose, DisposeUncreated
  <2>2. kind[cur[p]] # "unused"
    BY <2>1, <1>0 DEF Ownership
  <2>3. /\ \A q \in Actors : q # p => pc'[q] = pc[q] /\ cur'[q] = cur[q]
        /\ pc'[p] \in {"idle", "sweep"} /\ cur'[p] = NoInst
        /\ groupOps' = groupOps \ {p}
        /\ \A g \in Inst : g # cur[p] => conns'[g] = conns[g]
        /\ UNCHANGED <<kind, gclosed, op, target, groups>>
    BY <1>16, <1>0 DEF DisposeUncreated, Finish, FinishFrame, Goto, TypeOK
  <2>4. \A q \in Actors : pc[q] \in WithGroup => cur[q] \in Inst
    BY <1>0 DEF Shape
  <2>5. QED
    BY <1>16, <2>1, <2>2, <2>3, <2>4, <1>0 DEF DisposeUncreated, Actions, WithGroup, Actors
<1>17. ASSUME NEW p \in Actors, RemoveAcked(p)
      PROVE  Actions'
  BY <1>17, <1>0, SessionAssumption DEF RemoveAcked, Finish, FinishFrame, Removed, Goto,
     Actions, TypeOK, WithGroup
<1>18. ASSUME NEW p \in Actors, RemoveFailed(p)
      PROVE  Actions'
  BY <1>18, <1>0, SessionAssumption DEF RemoveFailed, Finish, FinishFrame, Removed, Goto,
     Actions, TypeOK, WithGroup
<1>19. CASE Close
  BY <1>19, <1>0, SessionAssumption DEF Close, Goto, sessionVars, groupVars, closeVars,
     serverVars, Actions, WithGroup
<1>20. CASE MarkClosed
  BY <1>20, <1>0, SessionAssumption DEF MarkClosed, Goto, groupVars, closeVars, serverVars,
     Actions, WithGroup
<1>21. CASE Drained
  BY <1>21, <1>0, SessionAssumption DEF Drained, Goto, sessionVars, groupVars, serverVars,
     Actions, WithGroup
<1>22. CASE DrainTimeout
  BY <1>22, <1>0, SessionAssumption DEF DrainTimeout, Goto, sessionVars, groupVars, serverVars,
     Actions, WithGroup
<1>23. CASE RetryReturns
  BY <1>23, <1>0, SessionAssumption DEF RetryReturns, Goto, Removed, sessionVars, groupVars,
     Actions, WithGroup
<1>24. CASE ReleaseServerReference
  BY <1>24, <1>0, SessionAssumption DEF ReleaseServerReference, Goto, sessionVars, groupVars,
     Actions, WithGroup
<1>25. CASE Disconnect
  BY <1>25, <1>0, SessionAssumption DEF Disconnect, Goto, groupVars, serverVars, Actions,
     WithGroup
<1>26. CASE Teardown
  BY <1>26, <1>0, SessionAssumption DEF Teardown, groupVars, actorVars, serverVars, Actions
<1>27. ASSUME NEW h \in Handles, RetryRemoval(h)
      PROVE  Actions'
  BY <1>27, <1>0, SessionAssumption DEF RetryRemoval, Goto, Send, RemoveRequest, sessionVars,
     groupVars, Actions, WithGroup
<1>28. ASSUME NEW i \in GroupIDs, SweepGroup(i)
      PROVE  Actions'
  BY <1>28, <1>0, SessionAssumption DEF SweepGroup, Goto, sessionVars, groupVars, serverVars,
     Actions, WithGroup
<1>29. ASSUME NEW p \in Callers, NEW o \in Ops, NEW i \in 0..MaxGroupID, Start(p, o, i)
      PROVE  Actions'
  BY <1>29, <1>0, SessionAssumption DEF Start, Goto, SessionClosed, sessionVars, groupVars,
     closeVars, serverVars, Actions, TypeOK, WithGroup
<1>30. ASSUME NEW p \in Actors, Cancel(p)
      PROVE  Actions'
  BY <1>30, <1>0, SessionAssumption DEF Cancel, sessionVars, groupVars, closeVars, serverVars,
     Actions
<1>31. ASSUME NEW m \in network, NEW h \in Handles, ServerAdds(m, h)
      PROVE  Actions'
  BY <1>31, <1>0, SessionAssumption DEF ServerAdds, Awaited, sessionVars, groupVars, actorVars,
     closeVars, Actions
<1>32. ASSUME NEW m \in network, ServerRemoves(m)
      PROVE  Actions'
  BY <1>32, <1>0, SessionAssumption DEF ServerRemoves, Removed, Awaited, sessionVars,
     groupVars, actorVars, closeVars, Actions
<1>33. ASSUME NEW m \in network, ServerRejects(m)
      PROVE  Actions'
  BY <1>33, <1>0, SessionAssumption DEF ServerRejects, sessionVars, groupVars, actorVars,
     closeVars, Actions
<1>34. CASE UNCHANGED vars
  BY <1>34, <1>0 DEF Actions, vars, sessionVars, groupVars, actorVars, closeVars, serverVars
<1>35. QED
  BY <1>1, <1>2, <1>3, <1>4, <1>5, <1>6, <1>7, <1>8, <1>9, <1>10, <1>11, <1>12, <1>13, <1>14,
     <1>15, <1>16, <1>17, <1>18, <1>19, <1>20, <1>21, <1>22, <1>23, <1>24, <1>25, <1>26, <1>27,
     <1>28, <1>29, <1>30, <1>31, <1>32, <1>33, <1>34 DEF Next, Step, CloseStep, ServerStep,
     Terminated

-----------------------------------------------------------------------------
\* A group whose handle the client knows is registered or in the hands of one actor.
LEMMA HeldKept ==
    ASSUME ServerInv, [Next]_vars
    PROVE  Held'
<1>0. TypeOK /\ Shape /\ HandlesKnown /\ Ownership /\ Actions /\ Held
  BY DEF ServerInv, IInv
<1>1. ASSUME NEW p \in Actors, Refuse(p)
      PROVE  Held'
  BY <1>1, <1>0, SessionAssumption DEF Refuse, Finish, FinishFrame, serverVars, Goto, Held,
     Live
<1>2. ASSUME NEW p \in Actors, Admit(p)
      PROVE  Held'
  BY <1>2, <1>0, SessionAssumption DEF Admit, Goto, closeVars, serverVars, Held, Live, TypeOK
<1>3. ASSUME NEW p \in Actors, SendAddGroup(p)
      PROVE  Held'
  BY <1>3, <1>0, SessionAssumption DEF SendAddGroup, Goto, Send, AddRequest, sessionVars,
     groupVars, closeVars, Held, Live, TypeOK
<1>4. ASSUME NEW p \in Actors, GroupAdded(p)
      PROVE  Held'
  <2>1. PICK m \in network :
           m.type = "Added" /\ handle' = [handle EXCEPT ![cur[p]] = m.handle]
    BY <1>4 DEF GroupAdded
  <2>2. m.handle \in Handles /\ m.handle # NoHandle /\ cur[p] \in Inst
    BY <1>4, <2>1, <1>0, SessionAssumption DEF GroupAdded, HandlesKnown, Shape, WithGroup
  <2>3. /\ pc[p] = "adding" /\ pc' = [pc EXCEPT ![p] = "setup"]
        /\ UNCHANGED <<conns, cur, groups>>
    BY <1>4 DEF GroupAdded, Goto, sessionVars
  <2>4. \A g \in Inst : handle'[g] = (IF g = cur[p] THEN m.handle ELSE handle[g])
    BY <2>1, <2>2, <1>0 DEF TypeOK
  <2>5. \A q \in Actors : pc'[q] = (IF q = p THEN "setup" ELSE pc[q])
    BY <2>3, <1>0 DEF TypeOK
  <2>6. \A q \in Actors : pc'[q] \in {"setup", "ready"} => handle'[cur'[q]] # NoHandle
    BY <2>2, <2>3, <2>4, <2>5, <1>0 DEF Held, Shape, WithGroup
  <2>7. \A i \in GroupIDs : groups'[i] # NoInst => handle'[groups'[i]] # NoHandle
    BY <2>2, <2>3, <2>4, <1>0 DEF Held, TypeOK
  <2>8. ASSUME NEW g \in Inst, Live(g)'
        PROVE  \/ \E i \in GroupIDs : groups'[i] = g
               \/ \E q \in Actors : cur'[q] = g /\ pc'[q] \in {"setup", "ready", "dispose"}
    <3>1. CASE g = cur[p]
      BY <3>1, <2>3, <2>5
    <3>2. CASE g # cur[p]
      <4>1. Live(g)
        BY <3>2, <2>3, <2>4, <2>8 DEF Live
      <4>2. QED
        BY <4>1, <2>3, <2>5, <1>0 DEF Held
    <3>3. QED
      BY <3>1, <3>2
  <2>9. QED
    BY <2>6, <2>7, <2>8 DEF Held
<1>5. ASSUME NEW p \in Actors, AddFailed(p)
      PROVE  Held'
  BY <1>5, <1>0, SessionAssumption DEF AddFailed, Goto, sessionVars, groupVars, closeVars,
     Held, Live
<1>6. ASSUME NEW p \in Actors, Setup(p)
      PROVE  Held'
  BY <1>6, <1>0, SessionAssumption DEF Setup, Goto, sessionVars, closeVars, serverVars, Held,
     Live, TypeOK
<1>7. ASSUME NEW p \in Actors, Register(p)
      PROVE  Held'
  <2>1. /\ pc[p] = "ready" /\ cur[p] \in Inst /\ nextGroupID + 1 \in GroupIDs
        /\ groups[nextGroupID + 1] = NoInst
    BY <1>7, <1>0, SessionAssumption DEF Register, Shape, WithGroup, TypeOK, GroupIDs, Ownership
  <2>2. /\ UNCHANGED <<handle, conns>>
        /\ \A i \in GroupIDs : groups'[i] = (IF i = nextGroupID + 1 THEN cur[p] ELSE groups[i])
    BY <1>7, <1>0 DEF Register, TypeOK
  <2>3. /\ \A q \in Actors : q # p => pc'[q] = pc[q] /\ cur'[q] = cur[q]
        /\ pc'[p] \in {"idle", "sweep"}
    BY <1>7, <1>0 DEF Register, Finish, Goto, TypeOK
  <2>4. \A q \in Actors : pc'[q] \in {"setup", "ready"} => handle'[cur'[q]] # NoHandle
    BY <2>2, <2>3, <1>0 DEF Held
  <2>5. \A i \in GroupIDs : groups'[i] # NoInst => handle'[groups'[i]] # NoHandle
    BY <2>1, <2>2, <1>0 DEF Held
  <2>6. ASSUME NEW g \in Inst, Live(g)'
        PROVE  \/ \E i \in GroupIDs : groups'[i] = g
               \/ \E q \in Actors : cur'[q] = g /\ pc'[q] \in {"setup", "ready", "dispose"}
    <3>1. CASE g = cur[p]
      BY <3>1, <2>1, <2>2
    <3>2. CASE g # cur[p]
      <4>1. Live(g)
        BY <2>2, <2>6 DEF Live
      <4>2. CASE \E i \in GroupIDs : groups[i] = g
        BY <4>2, <2>1, <2>2, SessionAssumption
      <4>3. CASE \E q \in Actors : cur[q] = g /\ pc[q] \in {"setup", "ready", "dispose"}
        BY <4>3, <3>2, <2>3
      <4>4. QED
        BY <4>1, <4>2, <4>3, <1>0 DEF Held
    <3>3. QED
      BY <3>1, <3>2
  <2>7. QED
    BY <2>4, <2>5, <2>6 DEF Held
<1>8. ASSUME NEW p \in Actors, Unregistered(p)
      PROVE  Held'
  BY <1>8, <1>0, SessionAssumption DEF Unregistered, Goto, sessionVars, groupVars, closeVars,
     serverVars, Held, Live
<1>9. ASSUME NEW p \in Actors, Lookup(p)
      PROVE  Held'
  BY <1>9, <1>0, SessionAssumption DEF Lookup, Goto, sessionVars, groupVars, closeVars,
     serverVars, Held, Live
<1>10. ASSUME NEW p \in Actors, LookupFailed(p)
      PROVE  Held'
  BY <1>10, <1>0, SessionAssumption DEF LookupFailed, Finish, FinishFrame, serverVars, Goto,
     Held, Live
<1>11. ASSUME NEW p \in Actors, Acquire(p)
      PROVE  Held'
  BY <1>11, <1>0, SessionAssumption DEF Acquire, Goto, sessionVars, closeVars, serverVars,
     Held, Live
<1>12. ASSUME NEW p \in Actors, AcquireFailed(p)
      PROVE  Held'
  BY <1>12, <1>0, SessionAssumption DEF AcquireFailed, Finish, FinishFrame, serverVars, Goto,
     Held, Live
<1>13. ASSUME NEW p \in Actors, EndCall(p)
      PROVE  Held'
  BY <1>13, <1>0, SessionAssumption DEF EndCall, Finish, FinishFrame, serverVars, Goto, Held,
     Live
<1>14. ASSUME NEW p \in Actors, MarkRemoved(p)
      PROVE  Held'
  BY <1>14, <1>0, SessionAssumption DEF MarkRemoved, Goto, closeVars, serverVars, Held, Live,
     TypeOK, Ownership, Actions
<1>15. ASSUME NEW p \in Actors, Dispose(p)
      PROVE  Held'
  BY <1>15, <1>0, SessionAssumption DEF Dispose, Goto, Send, RemoveRequest, sessionVars,
     closeVars, Held, Live, TypeOK
<1>16. ASSUME NEW p \in Actors, DisposeUncreated(p)
      PROVE  Held'
  BY <1>16, <1>0, SessionAssumption DEF DisposeUncreated, Finish, FinishFrame, serverVars,
     Goto, Held, Live
<1>17. ASSUME NEW p \in Actors, RemoveAcked(p)
      PROVE  Held'
  BY <1>17, <1>0, SessionAssumption DEF RemoveAcked, Finish, FinishFrame, Removed, Goto, Held,
     Live
<1>18. ASSUME NEW p \in Actors, RemoveFailed(p)
      PROVE  Held'
  BY <1>18, <1>0, SessionAssumption DEF RemoveFailed, Finish, FinishFrame, Removed, Goto, Held,
     Live
<1>19. CASE Close
  BY <1>19, <1>0, SessionAssumption DEF Close, Goto, sessionVars, groupVars, closeVars,
     serverVars, Held, Live
<1>20. CASE MarkClosed
  BY <1>20, <1>0, SessionAssumption DEF MarkClosed, Goto, groupVars, closeVars, serverVars,
     Held, Live
<1>21. CASE Drained
  BY <1>21, <1>0, SessionAssumption DEF Drained, Goto, sessionVars, groupVars, serverVars,
     Held, Live
<1>22. CASE DrainTimeout
  BY <1>22, <1>0, SessionAssumption DEF DrainTimeout, Goto, sessionVars, groupVars, serverVars,
     Held, Live
<1>23. CASE RetryReturns
  BY <1>23, <1>0, SessionAssumption DEF RetryReturns, Goto, Removed, sessionVars, groupVars,
     Held, Live
<1>24. CASE ReleaseServerReference
  BY <1>24, <1>0, SessionAssumption DEF ReleaseServerReference, Goto, sessionVars, groupVars,
     Held, Live
<1>25. CASE Disconnect
  BY <1>25, <1>0, SessionAssumption DEF Disconnect, Goto, groupVars, serverVars, Held, Live
<1>26. CASE Teardown
  BY <1>26, <1>0, SessionAssumption DEF Teardown, groupVars, actorVars, serverVars, Held, Live
<1>27. ASSUME NEW h \in Handles, RetryRemoval(h)
      PROVE  Held'
  BY <1>27, <1>0, SessionAssumption DEF RetryRemoval, Goto, Send, RemoveRequest, sessionVars,
     groupVars, Held, Live
<1>28. ASSUME NEW i \in GroupIDs, SweepGroup(i)
      PROVE  Held'
  BY <1>28, <1>0, SessionAssumption DEF SweepGroup, Goto, sessionVars, groupVars, serverVars,
     Held, Live
<1>29. ASSUME NEW p \in Callers, NEW o \in Ops, NEW i \in 0..MaxGroupID, Start(p, o, i)
      PROVE  Held'
  BY <1>29, <1>0, SessionAssumption DEF Start, Goto, SessionClosed, sessionVars, groupVars,
     closeVars, serverVars, Held, Live
<1>30. ASSUME NEW p \in Actors, Cancel(p)
      PROVE  Held'
  BY <1>30, <1>0, SessionAssumption DEF Cancel, sessionVars, groupVars, closeVars, serverVars,
     Held, Live
<1>31. ASSUME NEW m \in network, NEW h \in Handles, ServerAdds(m, h)
      PROVE  Held'
  BY <1>31, <1>0, SessionAssumption DEF ServerAdds, Awaited, sessionVars, groupVars, actorVars,
     closeVars, Held, Live
<1>32. ASSUME NEW m \in network, ServerRemoves(m)
      PROVE  Held'
  BY <1>32, <1>0, SessionAssumption DEF ServerRemoves, Removed, Awaited, sessionVars,
     groupVars, actorVars, closeVars, Held, Live
<1>33. ASSUME NEW m \in network, ServerRejects(m)
      PROVE  Held'
  BY <1>33, <1>0, SessionAssumption DEF ServerRejects, sessionVars, groupVars, actorVars,
     closeVars, Held, Live
<1>34. CASE UNCHANGED vars
  BY <1>34, <1>0 DEF Held, Live, Actions, vars, sessionVars, groupVars, actorVars, closeVars,
     serverVars
<1>35. QED
  BY <1>1, <1>2, <1>3, <1>4, <1>5, <1>6, <1>7, <1>8, <1>9, <1>10, <1>11, <1>12, <1>13, <1>14,
     <1>15, <1>16, <1>17, <1>18, <1>19, <1>20, <1>21, <1>22, <1>23, <1>24, <1>25, <1>26, <1>27,
     <1>28, <1>29, <1>30, <1>31, <1>32, <1>33, <1>34 DEF Next, Step, CloseStep, ServerStep,
     Terminated

-----------------------------------------------------------------------------
\* The phases of Close are preserved.
LEMMA PhasesKept ==
    ASSUME ServerInv, [Next]_vars
    PROVE  Phases'
<1>0. TypeOK /\ Shape /\ Closing /\ Actions /\ Phases
  BY DEF ServerInv, IInv
<1>1. ASSUME NEW p \in Actors, Refuse(p)
      PROVE  Phases'
  BY <1>1, <1>0, SessionAssumption DEF Refuse, Finish, FinishFrame, serverVars, Goto, Phases,
     Sweeping, TypeOK
<1>2. ASSUME NEW p \in Actors, Admit(p)
      PROVE  Phases'
  BY <1>2, <1>0, SessionAssumption DEF Admit, Goto, closeVars, serverVars, Phases, Sweeping,
     TypeOK, Closing, Actors
<1>3. ASSUME NEW p \in Actors, SendAddGroup(p)
      PROVE  Phases'
  BY <1>3, <1>0, SessionAssumption DEF SendAddGroup, Goto, Send, AddRequest, sessionVars,
     groupVars, closeVars, Phases, Sweeping, TypeOK, Actors
<1>4. ASSUME NEW p \in Actors, GroupAdded(p)
      PROVE  Phases'
  BY <1>4, <1>0, SessionAssumption DEF GroupAdded, Goto, sessionVars, closeVars, Phases,
     Sweeping
<1>5. ASSUME NEW p \in Actors, AddFailed(p)
      PROVE  Phases'
  BY <1>5, <1>0, SessionAssumption DEF AddFailed, Goto, sessionVars, groupVars, closeVars,
     Phases, Sweeping
<1>6. ASSUME NEW p \in Actors, Setup(p)
      PROVE  Phases'
  BY <1>6, <1>0, SessionAssumption DEF Setup, Goto, sessionVars, closeVars, serverVars, Phases,
     Sweeping, TypeOK, Actors
<1>7. ASSUME NEW p \in Actors, Register(p)
      PROVE  Phases'
  BY <1>7, <1>0, SessionAssumption DEF Register, Finish, serverVars, Goto, Phases, Sweeping,
     Closing
<1>8. ASSUME NEW p \in Actors, Unregistered(p)
      PROVE  Phases'
  BY <1>8, <1>0, SessionAssumption DEF Unregistered, Goto, sessionVars, groupVars, closeVars,
     serverVars, Phases, Sweeping
<1>9. ASSUME NEW p \in Actors, Lookup(p)
      PROVE  Phases'
  BY <1>9, <1>0, SessionAssumption DEF Lookup, Goto, sessionVars, groupVars, closeVars,
     serverVars, Phases, Sweeping
<1>10. ASSUME NEW p \in Actors, LookupFailed(p)
      PROVE  Phases'
  BY <1>10, <1>0, SessionAssumption DEF LookupFailed, Finish, FinishFrame, serverVars, Goto,
     Phases, Sweeping, TypeOK
<1>11. ASSUME NEW p \in Actors, Acquire(p)
      PROVE  Phases'
  BY <1>11, <1>0, SessionAssumption DEF Acquire, Goto, sessionVars, closeVars, serverVars,
     Phases, Sweeping, Shape
<1>12. ASSUME NEW p \in Actors, AcquireFailed(p)
      PROVE  Phases'
  BY <1>12, <1>0, SessionAssumption DEF AcquireFailed, Finish, FinishFrame, serverVars, Goto,
     Phases, Sweeping, TypeOK, Closing
<1>13. ASSUME NEW p \in Actors, EndCall(p)
      PROVE  Phases'
  BY <1>13, <1>0, SessionAssumption DEF EndCall, Finish, FinishFrame, serverVars, Goto, Phases,
     Sweeping, TypeOK
<1>14. ASSUME NEW p \in Actors, MarkRemoved(p)
      PROVE  Phases'
  BY <1>14, <1>0, SessionAssumption DEF MarkRemoved, Goto, closeVars, serverVars, Phases,
     Sweeping, TypeOK
<1>15. ASSUME NEW p \in Actors, Dispose(p)
      PROVE  Phases'
  BY <1>15, <1>0, SessionAssumption DEF Dispose, Goto, Send, RemoveRequest, sessionVars,
     closeVars, Phases, Sweeping
<1>16. ASSUME NEW p \in Actors, DisposeUncreated(p)
      PROVE  Phases'
  BY <1>16, <1>0, SessionAssumption DEF DisposeUncreated, Finish, FinishFrame, serverVars,
     Goto, Phases, Sweeping, TypeOK
<1>17. ASSUME NEW p \in Actors, RemoveAcked(p)
      PROVE  Phases'
  BY <1>17, <1>0, SessionAssumption DEF RemoveAcked, Finish, FinishFrame, Removed, Goto,
     Phases, Sweeping, TypeOK
<1>18. ASSUME NEW p \in Actors, RemoveFailed(p)
      PROVE  Phases'
  BY <1>18, <1>0, SessionAssumption DEF RemoveFailed, Finish, FinishFrame, Removed, Goto,
     Phases, Sweeping, TypeOK
<1>19. CASE Close
  BY <1>19, <1>0, SessionAssumption DEF Close, Goto, sessionVars, groupVars, closeVars,
     serverVars, Phases, Sweeping
<1>20. CASE MarkClosed
  BY <1>20, <1>0, SessionAssumption DEF MarkClosed, Goto, groupVars, closeVars, serverVars,
     Phases, Sweeping
<1>21. CASE Drained
  BY <1>21, <1>0, SessionAssumption DEF Drained, Goto, sessionVars, groupVars, serverVars,
     Phases, Sweeping, TypeOK, Actors
<1>22. CASE DrainTimeout
  BY <1>22, <1>0, SessionAssumption DEF DrainTimeout, Goto, sessionVars, groupVars, serverVars,
     Phases, Sweeping, TypeOK
<1>23. CASE RetryReturns
  BY <1>23, <1>0, SessionAssumption DEF RetryReturns, Goto, Removed, sessionVars, groupVars,
     Phases, Sweeping
<1>24. CASE ReleaseServerReference
  BY <1>24, <1>0, SessionAssumption DEF ReleaseServerReference, Goto, sessionVars, groupVars,
     Phases, Sweeping, TypeOK, Actors
<1>25. CASE Disconnect
  BY <1>25, <1>0, SessionAssumption DEF Disconnect, Goto, groupVars, serverVars, Phases,
     Sweeping, TypeOK, Actors
<1>26. CASE Teardown
  BY <1>26, <1>0, SessionAssumption DEF Teardown, groupVars, actorVars, serverVars, Phases,
     Sweeping
<1>27. ASSUME NEW h \in Handles, RetryRemoval(h)
      PROVE  Phases'
  BY <1>27, <1>0, SessionAssumption DEF RetryRemoval, Goto, Send, RemoveRequest, sessionVars,
     groupVars, Phases, Sweeping
<1>28. ASSUME NEW i \in GroupIDs, SweepGroup(i)
      PROVE  Phases'
  BY <1>28, <1>0, SessionAssumption DEF SweepGroup, Goto, sessionVars, groupVars, serverVars,
     Phases, Sweeping, TypeOK, Actors
<1>29. ASSUME NEW p \in Callers, NEW o \in Ops, NEW i \in 0..MaxGroupID, Start(p, o, i)
      PROVE  Phases'
  BY <1>29, <1>0, SessionAssumption DEF Start, Goto, SessionClosed, sessionVars, groupVars,
     closeVars, serverVars, Phases, Sweeping
<1>30. ASSUME NEW p \in Actors, Cancel(p)
      PROVE  Phases'
  BY <1>30, <1>0, SessionAssumption DEF Cancel, sessionVars, groupVars, closeVars, serverVars,
     Phases, Sweeping
<1>31. ASSUME NEW m \in network, NEW h \in Handles, ServerAdds(m, h)
      PROVE  Phases'
  BY <1>31, <1>0, SessionAssumption DEF ServerAdds, Awaited, sessionVars, groupVars, actorVars,
     closeVars, Phases, Sweeping
<1>32. ASSUME NEW m \in network, ServerRemoves(m)
      PROVE  Phases'
  BY <1>32, <1>0, SessionAssumption DEF ServerRemoves, Removed, Awaited, sessionVars,
     groupVars, actorVars, closeVars, Phases, Sweeping
<1>33. ASSUME NEW m \in network, ServerRejects(m)
      PROVE  Phases'
  BY <1>33, <1>0, SessionAssumption DEF ServerRejects, sessionVars, groupVars, actorVars,
     closeVars, Phases, Sweeping
<1>34. CASE UNCHANGED vars
  BY <1>34, <1>0 DEF Phases, Sweeping, Actions, vars, sessionVars, groupVars, actorVars,
     closeVars, serverVars
<1>35. QED
  BY <1>1, <1>2, <1>3, <1>4, <1>5, <1>6, <1>7, <1>8, <1>9, <1>10, <1>11, <1>12, <1>13, <1>14,
     <1>15, <1>16, <1>17, <1>18, <1>19, <1>20, <1>21, <1>22, <1>23, <1>24, <1>25, <1>26, <1>27,
     <1>28, <1>29, <1>30, <1>31, <1>32, <1>33, <1>34 DEF Next, Step, CloseStep, ServerStep,
     Terminated

-----------------------------------------------------------------------------
\* While someone creates a group Close has not finished waiting.
LEMMA CreatorNotSwept ==
    ASSUME Shape, Actions, Phases, NEW p \in Actors,
           pc[p] \in {"open", "adding", "setup", "ready"}
    PROVE  ~Sweeping /\ pc[Closer] # "sweep"
<1>1. p \in Callers /\ op[p] # "call"
  BY DEF Shape, Actors
<1>2. p \in groupOps
  BY <1>1 DEF Actions, WithGroup
<1>3. QED
  BY <1>2 DEF Phases, Sweeping

\* An answer to AddGroup is only made for a caller that is still adding.
LEMMA AwaitedAdds ==
    ASSUME TypeOK, Shape, HandlesKnown, Actions, Phases, Creation,
           NEW m \in network, m.type = "AddGroup", Awaited(m)
    PROVE  pc[m.by] = "adding" /\ ~Sweeping
<1>1. m.by \in Actors /\ m.inst \in Inst /\ handle[m.inst] = NoHandle
  BY DEF TypeOK, Message, Creation
<1>2. pc[m.by] # "removing"
  BY <1>1, SessionAssumption DEF Awaited, HandlesKnown
<1>3. pc[m.by] # "retrying"
  BY <1>1, SessionAssumption DEF Awaited, Actions, WithGroup
<1>4. pc[m.by] = "adding"
  BY <1>2, <1>3 DEF Awaited
<1>5. QED
  BY <1>1, <1>4, CreatorNotSwept

\* Creation is preserved.
LEMMA CreationKept ==
    ASSUME ServerInv, [Next]_vars
    PROVE  Creation'
<1>0. TypeOK /\ Shape /\ HandlesKnown /\ Ownership /\ Actions /\ Phases /\ Creation /\ Removal /\ Kept
  BY DEF ServerInv, IInv
<1>1. ASSUME NEW p \in Actors, Refuse(p)
      PROVE  Creation'
  BY <1>1, <1>0, SessionAssumption DEF Refuse, Finish, FinishFrame, serverVars, Goto, Creation,
     Unsent
<1>2. ASSUME NEW p \in Actors, Admit(p)
      PROVE  Creation'
  <2>1. UNCHANGED <<handle, remote, network>> /\ pc[p] = "begin"
    BY <1>2 DEF Admit, serverVars
  <2>2. \A q \in Actors : q # p => pc'[q] = pc[q] /\ cur'[q] = cur[q]
    BY <1>2, <1>0 DEF Admit, Goto, TypeOK
  <2>3. \A g \in Inst : kind'[g] = "unused" => kind[g] = "unused"
    BY <1>2, <1>0 DEF Admit, TypeOK
  <2>4. pc'[p] = "open" => cur'[p] \in Inst /\ kind[cur'[p]] = "unused"
    BY <1>2, <1>0 DEF Admit, Goto, TypeOK
  <2>5. \A m \in network : m.by \in Actors
    BY <1>0 DEF TypeOK, Message
  <2>6. \A q \in Actors : pc'[q] = "open" => Unsent(cur'[q])
    BY <2>2, <2>4, <1>0 DEF Creation
  <2>7. \A m \in network : m.type = "Added" => pc'[m.by] = "adding" /\ cur'[m.by] = m.inst
    BY <2>1, <2>2, <2>5, <1>0 DEF Creation
  <2>8. QED
    BY <2>1, <2>3, <2>6, <2>7, <1>0 DEF Creation, Unsent
<1>3. ASSUME NEW p \in Actors, SendAddGroup(p)
      PROVE  Creation'
  <2>1. /\ pc[p] = "open" /\ cur[p] \in Inst /\ Unsent(cur[p]) /\ kind[cur[p]] # "unused"
        /\ \A q \in Actors : pc[q] = "open" /\ cur[q] = cur[p] => q = p
    BY <1>3, <1>0 DEF SendAddGroup, Shape, WithGroup, Creation, Ownership, Creating
  <2>2. /\ UNCHANGED <<cur, kind, handle, remote>>
        /\ network' \subseteq network \cup {AddRequest(p)}
        /\ AddRequest(p).type = "AddGroup" /\ AddRequest(p).inst = cur[p]
        /\ \A q \in Actors : q # p => pc'[q] = pc[q]
        /\ pc'[p] \in {"adding", "dispose"}
    BY <1>3, <1>0 DEF SendAddGroup, Send, AddRequest, Goto, TypeOK, groupVars
  <2>3. \A g \in Inst : g # cur[p] /\ Unsent(g) => Unsent(g)'
    BY <2>2 DEF Unsent
  <2>4. /\ \A g \in Inst : kind'[g] = "unused" => Unsent(g)'
        /\ \A q \in Actors : pc'[q] = "open" => Unsent(cur[q])'
    <3>1. \A g \in Inst : kind'[g] = "unused" => Unsent(g)'
      BY <2>1, <2>2, <2>3, <1>0 DEF Creation
    <3>2. ASSUME NEW q \in Actors, pc'[q] = "open"
          PROVE  Unsent(cur[q])'
      <4>1. q # p /\ pc[q] = "open" /\ cur[q] \in Inst /\ cur[q] # cur[p]
        BY <3>2, <2>1, <2>2, <1>0 DEF Shape, WithGroup
      <4>2. QED
        BY <4>1, <2>2, <1>0 DEF Creation, Unsent
    <3>3. QED
      BY <3>1, <3>2
  <2>5. \A m \in network' : m.type \in {"AddGroup", "Added"} =>
          /\ m.inst \in Inst /\ handle'[m.inst] = NoHandle
          /\ \A n \in network' :
                n.type \in {"AddGroup", "Added"} /\ n.inst = m.inst => n = m
    BY <2>1, <2>2, <1>0 DEF Creation, Unsent
  <2>6. \A m \in network' : m.type = "AddGroup" => \A h \in Handles : remote'[h] # m.inst
    BY <2>1, <2>2, <1>0 DEF Creation, Unsent
  <2>7. \A m \in network' : m.type = "Added" =>
          /\ pc'[m.by] = "adding" /\ cur'[m.by] = m.inst
          /\ m.handle \in Handles /\ remote'[m.handle] = m.inst
          /\ \A n \in network' : n.type = "RemoveGroup" => n.handle # m.handle
    BY <2>1, <2>2, <1>0 DEF Creation, TypeOK, Message
  <2>8. QED
    BY <2>2, <2>4, <2>5, <2>6, <2>7, <1>0 DEF Creation
<1>4. ASSUME NEW p \in Actors, GroupAdded(p)
      PROVE  Creation'
  BY <1>4, <1>0, SessionAssumption DEF GroupAdded, Goto, sessionVars, closeVars, Creation,
     Unsent
<1>5. ASSUME NEW p \in Actors, AddFailed(p)
      PROVE  Creation'
  BY <1>5, <1>0, SessionAssumption DEF AddFailed, Goto, sessionVars, groupVars, closeVars,
     Creation, Unsent
<1>6. ASSUME NEW p \in Actors, Setup(p)
      PROVE  Creation'
  <2>1. /\ UNCHANGED <<cur, kind, handle, remote, network>>
        /\ pc[p] = "setup"
        /\ \A q \in Actors : q # p => pc'[q] = pc[q]
        /\ pc'[p] \in {"ready", "dispose"}
    BY <1>6, <1>0 DEF Setup, Goto, TypeOK, serverVars
  <2>2. \A m \in network : m.by \in Actors
    BY <1>0 DEF TypeOK, Message
  <2>3. QED
    BY <2>1, <2>2, <1>0 DEF Creation, Unsent
<1>7. ASSUME NEW p \in Actors, Register(p)
      PROVE  Creation'
  BY <1>7, <1>0, SessionAssumption DEF Register, Finish, serverVars, Goto, Creation, Unsent
<1>8. ASSUME NEW p \in Actors, Unregistered(p)
      PROVE  Creation'
  BY <1>8, <1>0, SessionAssumption DEF Unregistered, Goto, sessionVars, groupVars, closeVars,
     serverVars, Creation, Unsent
<1>9. ASSUME NEW p \in Actors, Lookup(p)
      PROVE  Creation'
  BY <1>9, <1>0, SessionAssumption DEF Lookup, Goto, sessionVars, groupVars, closeVars,
     serverVars, Creation, Unsent
<1>10. ASSUME NEW p \in Actors, LookupFailed(p)
      PROVE  Creation'
  BY <1>10, <1>0, SessionAssumption DEF LookupFailed, Finish, FinishFrame, serverVars, Goto,
     Creation, Unsent
<1>11. ASSUME NEW p \in Actors, Acquire(p)
      PROVE  Creation'
  BY <1>11, <1>0, SessionAssumption DEF Acquire, Goto, sessionVars, closeVars, serverVars,
     Creation, Unsent
<1>12. ASSUME NEW p \in Actors, AcquireFailed(p)
      PROVE  Creation'
  BY <1>12, <1>0, SessionAssumption DEF AcquireFailed, Finish, FinishFrame, serverVars, Goto,
     Creation, Unsent
<1>13. ASSUME NEW p \in Actors, EndCall(p)
      PROVE  Creation'
  BY <1>13, <1>0, SessionAssumption DEF EndCall, Finish, FinishFrame, serverVars, Goto,
     Creation, Unsent
<1>14. ASSUME NEW p \in Actors, MarkRemoved(p)
      PROVE  Creation'
  BY <1>14, <1>0, SessionAssumption DEF MarkRemoved, Goto, closeVars, serverVars, Creation,
     Unsent
<1>15. ASSUME NEW p \in Actors, Dispose(p)
      PROVE  Creation'
  <2>1. /\ cur[p] \in Inst
        /\ \A q \in Actors :
              pc[q] \in {"open", "adding", "setup", "ready", "dispose"} /\ cur[q] = cur[p]
                 => q = p
    BY <1>15, <1>0, DisposerAlone DEF Dispose, DisposeUncreated
  <2>2. kind[cur[p]] # "unused"
    BY <2>1, <1>0 DEF Ownership
  <2>3. /\ handle[cur[p]] \in Handles /\ remote[handle[cur[p]]] = cur[p]
        /\ pc[p] = "dispose"
    BY <1>15, <2>1, <1>0 DEF Dispose, Kept, Live, Actions
  <2>4. /\ UNCHANGED <<cur, kind, handle, remote>>
        /\ network' \subseteq network \cup {RemoveRequest(p, handle[cur[p]])}
        /\ RemoveRequest(p, handle[cur[p]]).type = "RemoveGroup"
        /\ RemoveRequest(p, handle[cur[p]]).inst = cur[p]
        /\ RemoveRequest(p, handle[cur[p]]).handle = handle[cur[p]]
        /\ \A q \in Actors : q # p => pc'[q] = pc[q]
        /\ pc'[p] = "removing"
    BY <1>15, <1>0 DEF Dispose, Send, RemoveRequest, Goto, TypeOK
  <2>5. /\ \A g \in Inst : kind'[g] = "unused" => Unsent(g)'
        /\ \A q \in Actors : pc'[q] = "open" => Unsent(cur[q])'
    <3>1. \A g \in Inst : kind'[g] = "unused" => Unsent(g)'
      BY <2>1, <2>2, <2>4, <1>0 DEF Creation, Unsent
    <3>2. ASSUME NEW q \in Actors, pc'[q] = "open"
          PROVE  Unsent(cur[q])'
      <4>1. q # p /\ pc[q] = "open" /\ cur[q] \in Inst /\ cur[q] # cur[p]
        BY <3>2, <2>1, <2>4, <1>0 DEF Shape, WithGroup
      <4>2. QED
        BY <4>1, <2>4, <1>0 DEF Creation, Unsent
    <3>3. QED
      BY <3>1, <3>2
  <2>6. \A m \in network' : m.type \in {"AddGroup", "Added"} => m \in network
    BY <2>4
  <2>7. \A m \in network' : m.type = "Added" =>
          /\ pc'[m.by] = "adding" /\ cur'[m.by] = m.inst
          /\ m.handle # handle[cur[p]]
    BY <2>3, <2>4, <2>6, <1>0, SessionAssumption DEF Creation, TypeOK, Message
  <2>8. QED
    BY <2>4, <2>5, <2>6, <2>7, <1>0 DEF Creation
<1>16. ASSUME NEW p \in Actors, DisposeUncreated(p)
      PROVE  Creation'
  BY <1>16, <1>0, SessionAssumption DEF DisposeUncreated, Finish, FinishFrame, serverVars,
     Goto, Creation, Unsent
<1>17. ASSUME NEW p \in Actors, RemoveAcked(p)
      PROVE  Creation'
  BY <1>17, <1>0, SessionAssumption DEF RemoveAcked, Finish, FinishFrame, Removed, Goto,
     Creation, Unsent
<1>18. ASSUME NEW p \in Actors, RemoveFailed(p)
      PROVE  Creation'
  BY <1>18, <1>0, SessionAssumption DEF RemoveFailed, Finish, FinishFrame, Removed, Goto,
     Creation, Unsent
<1>19. CASE Close
  BY <1>19, <1>0, SessionAssumption DEF Close, Goto, sessionVars, groupVars, closeVars,
     serverVars, Creation, Unsent
<1>20. CASE MarkClosed
  BY <1>20, <1>0, SessionAssumption DEF MarkClosed, Goto, groupVars, closeVars, serverVars,
     Creation, Unsent
<1>21. CASE Drained
  BY <1>21, <1>0, SessionAssumption DEF Drained, Goto, sessionVars, groupVars, serverVars,
     Creation, Unsent
<1>22. CASE DrainTimeout
  BY <1>22, <1>0, SessionAssumption DEF DrainTimeout, Goto, sessionVars, groupVars, serverVars,
     Creation, Unsent
<1>23. CASE RetryReturns
  BY <1>23, <1>0, SessionAssumption DEF RetryReturns, Goto, Removed, sessionVars, groupVars,
     Creation, Unsent
<1>24. CASE ReleaseServerReference
  BY <1>24, <1>0, SessionAssumption DEF ReleaseServerReference, Goto, sessionVars, groupVars,
     Creation, Unsent
<1>25. CASE Disconnect
  BY <1>25, <1>0, SessionAssumption DEF Disconnect, Goto, groupVars, serverVars, Creation,
     Unsent
<1>26. CASE Teardown
  BY <1>26, <1>0, SessionAssumption DEF Teardown, groupVars, actorVars, serverVars, Creation,
     Unsent
<1>27. ASSUME NEW h \in Handles, RetryRemoval(h)
      PROVE  Creation'
  <2>1. /\ UNCHANGED <<cur, kind, handle, remote>> /\ pc[Closer] = "sweep"
        /\ cur[Closer] = NoInst
        /\ network' \subseteq network \cup {RemoveRequest(Closer, h)}
        /\ RemoveRequest(Closer, h).type = "RemoveGroup"
        /\ RemoveRequest(Closer, h).inst = NoInst
        /\ \A q \in Actors : q # Closer => pc'[q] = pc[q]
        /\ pc'[Closer] = "retrying"
    BY <1>27, <1>0 DEF RetryRemoval, Send, RemoveRequest, Goto, TypeOK, Actors, WithGroup,
       Actions,
       groupVars
  <2>2. \A m \in network' : m.type # "Added"
    BY <2>1, <1>0, CreatorNotSwept DEF Creation, TypeOK, Message
  <2>3. \A g \in Inst : Unsent(g) => Unsent(g)'
    BY <2>1, SessionAssumption DEF Unsent
  <2>4. \A q \in Actors : pc'[q] = "open" => Unsent(cur[q])'
    <3>1. ASSUME NEW q \in Actors, pc'[q] = "open"
          PROVE  Unsent(cur[q])'
      <4>1. pc[q] = "open" /\ cur[q] \in Inst
        BY <3>1, <2>1, <1>0 DEF Shape, WithGroup
      <4>2. QED
        BY <4>1, <2>1, <1>0, SessionAssumption DEF Creation, Unsent
    <3>2. QED
      BY <3>1
  <2>5. QED
    BY <2>1, <2>2, <2>3, <2>4, <1>0 DEF Creation
<1>28. ASSUME NEW i \in GroupIDs, SweepGroup(i)
      PROVE  Creation'
  BY <1>28, <1>0, SessionAssumption DEF SweepGroup, Goto, sessionVars, groupVars, serverVars,
     Creation, Unsent
<1>29. ASSUME NEW p \in Callers, NEW o \in Ops, NEW i \in 0..MaxGroupID, Start(p, o, i)
      PROVE  Creation'
  BY <1>29, <1>0, SessionAssumption DEF Start, Goto, SessionClosed, sessionVars, groupVars,
     closeVars, serverVars, Creation, Unsent
<1>30. ASSUME NEW p \in Actors, Cancel(p)
      PROVE  Creation'
  BY <1>30, <1>0, SessionAssumption DEF Cancel, sessionVars, groupVars, closeVars, serverVars,
     Creation, Unsent
<1>31. ASSUME NEW m \in network, NEW h \in Handles, ServerAdds(m, h)
      PROVE  Creation'
  <2> DEFINE reply == [m EXCEPT !.type = "Added", !.handle = h]
  <2>1. /\ m \in Message /\ m.type = "AddGroup" /\ m.inst \in Inst
        /\ remote[h] = NoInst
        /\ \A n \in network : n.type \in {"AddGroup", "Added"} /\ n.inst = m.inst => n = m
        /\ handle[m.inst] = NoHandle /\ \A k \in Handles : remote[k] # m.inst
    BY <1>31, <1>0 DEF ServerAdds, Creation, TypeOK
  <2>2. /\ reply.type = "Added" /\ reply.inst = m.inst /\ reply.by = m.by /\ reply.handle = h
        /\ UNCHANGED <<pc, cur, kind, handle>>
        /\ \A k \in Handles : remote'[k] = (IF k = h THEN m.inst ELSE remote[k])
        /\ network' \subseteq (network \ {m}) \cup {reply}
    BY <1>31, <2>1, <1>0 DEF ServerAdds, Message, TypeOK, groupVars, actorVars
  <2>3. reply \in network' => pc[m.by] = "adding" /\ cur[m.by] = m.inst /\ ~Sweeping
    <3>1. CASE Awaited(m)
      BY <3>1, <2>1, <1>0, AwaitedAdds DEF Awaited
    <3>2. CASE ~Awaited(m)
      <4>1. network' = network \ {m}
        BY <3>2, <1>31 DEF ServerAdds
      <4>2. reply \notin network'
        BY <4>1, <2>1, <2>2
      <4>3. QED
        BY <4>2
    <3>3. QED
      BY <3>1, <3>2
  <2>4. reply \in network' => \A n \in network : n.type = "RemoveGroup" => n.handle # h
    BY <2>1, <2>3, <1>0, SessionAssumption DEF Removal
  <2> HIDE DEF reply
  <2>5. \A g \in Inst : Unsent(g) => Unsent(g)'
    <3>1. \A g \in Inst : Unsent(g) => g # m.inst
      BY DEF Unsent
    <3>2. QED
      BY <3>1, <2>2 DEF Unsent
  <2>6. \A q \in Actors : pc'[q] = "open" => Unsent(cur[q])'
    <3>1. ASSUME NEW q \in Actors, pc'[q] = "open"
          PROVE  Unsent(cur[q])'
      <4>1. pc[q] = "open" /\ cur[q] \in Inst
        BY <3>1, <2>2, <1>0 DEF Shape, WithGroup
      <4>2. QED
        BY <4>1, <2>1, <2>2, <1>0 DEF Creation, Unsent
    <3>2. QED
      BY <3>1
  <2>7. \A a, b \in Handles : remote'[a] \in Inst /\ remote'[a] = remote'[b] => a = b
    BY <2>1, <2>2, <1>0 DEF Creation
  <2>8. \A n \in network' : n.type \in {"AddGroup", "Added"} =>
          /\ n.inst \in Inst /\ handle'[n.inst] = NoHandle
          /\ \A o \in network' : o.type \in {"AddGroup", "Added"} /\ o.inst = n.inst => o = n
    BY <2>1, <2>2, <1>0 DEF Creation
  <2>9. \A n \in network' : n.type = "AddGroup" => \A k \in Handles : remote'[k] # n.inst
    BY <2>1, <2>2, <1>0 DEF Creation
  <2>10. ASSUME NEW n \in network', n.type = "Added"
         PROVE  /\ pc'[n.by] = "adding" /\ cur'[n.by] = n.inst
                /\ n.handle \in Handles /\ remote'[n.handle] = n.inst
                /\ \A o \in network' : o.type = "RemoveGroup" => o.handle # n.handle
    <3>1. CASE n = reply
      BY <3>1, <2>2, <2>3, <2>4
    <3>2. CASE n # reply
      <4>1. n \in network /\ n.handle # h
        BY <3>2, <2>1, <2>2, <2>10, <1>0, SessionAssumption DEF Creation
      <4>2. QED
        BY <4>1, <2>2, <2>10, <1>0 DEF Creation
    <3>3. QED
      BY <3>1, <3>2
  <2>11. QED
    BY <2>2, <2>5, <2>6, <2>7, <2>8, <2>9, <2>10, <1>0 DEF Creation
<1>32. ASSUME NEW m \in network, ServerRemoves(m)
      PROVE  Creation'
  <2> DEFINE reply == [m EXCEPT !.type = "Removed"]
  <2>1. /\ m \in Message /\ m.type = "RemoveGroup" /\ m.handle \in Handles
        /\ reply.type = "Removed" /\ reply.inst = m.inst
        /\ UNCHANGED <<pc, cur, kind, handle>>
        /\ \A k \in Handles : remote'[k] = remote[k] \/ remote'[k] \notin Inst
        /\ \A k \in Handles : k # m.handle => remote'[k] = remote[k]
        /\ network' \subseteq network \cup {reply}
    BY <1>32, <1>0, SessionAssumption
    DEF ServerRemoves, Removal, Message, TypeOK, groupVars, actorVars
  <2> HIDE DEF reply
  <2>2. \A g \in Inst : Unsent(g) => Unsent(g)'
    BY <2>1 DEF Unsent
  <2>3. \A q \in Actors : pc'[q] = "open" => Unsent(cur[q])'
    <3>1. ASSUME NEW q \in Actors, pc'[q] = "open"
          PROVE  Unsent(cur[q])'
      <4>1. pc[q] = "open" /\ cur[q] \in Inst
        BY <3>1, <2>1, <1>0 DEF Shape, WithGroup
      <4>2. QED
        BY <4>1, <2>1, <1>0 DEF Creation, Unsent
    <3>2. QED
      BY <3>1
  <2>4. \A n \in network' : n.type \in {"AddGroup", "Added", "RemoveGroup"} => n \in network
    BY <2>1
  <2>5. /\ \A a, b \in Handles : remote'[a] \in Inst /\ remote'[a] = remote'[b] => a = b
        /\ \A n \in network' : n.type \in {"AddGroup", "Added"} =>
             /\ n.inst \in Inst /\ handle'[n.inst] = NoHandle
             /\ \A o \in network' : o.type \in {"AddGroup", "Added"} /\ o.inst = n.inst => o = n
        /\ \A n \in network' : n.type = "AddGroup" => \A k \in Handles : remote'[k] # n.inst
    BY <2>1, <2>4, <1>0 DEF Creation
  <2>6. \A n \in network' : n.type = "Added" =>
          /\ pc'[n.by] = "adding" /\ cur'[n.by] = n.inst
          /\ n.handle \in Handles /\ remote'[n.handle] = n.inst
          /\ \A o \in network' : o.type = "RemoveGroup" => o.handle # n.handle
    BY <2>1, <2>4, <1>0 DEF Creation
  <2>7. QED
    BY <2>1, <2>2, <2>3, <2>5, <2>6, <1>0 DEF Creation
<1>33. ASSUME NEW m \in network, ServerRejects(m)
      PROVE  Creation'
  BY <1>33, <1>0, SessionAssumption DEF ServerRejects, sessionVars, groupVars, actorVars,
     closeVars, Creation, Unsent
<1>34. CASE UNCHANGED vars
  BY <1>34, <1>0 DEF Creation, Unsent, Actions, vars, sessionVars, groupVars, actorVars,
     closeVars, serverVars
<1>35. QED
  BY <1>1, <1>2, <1>3, <1>4, <1>5, <1>6, <1>7, <1>8, <1>9, <1>10, <1>11, <1>12, <1>13, <1>14,
     <1>15, <1>16, <1>17, <1>18, <1>19, <1>20, <1>21, <1>22, <1>23, <1>24, <1>25, <1>26, <1>27,
     <1>28, <1>29, <1>30, <1>31, <1>32, <1>33, <1>34 DEF Next, Step, CloseStep, ServerStep,
     Terminated

-----------------------------------------------------------------------------
\* Removal is preserved.
LEMMA RemovalKept ==
    ASSUME ServerInv, [Next]_vars
    PROVE  Removal'
<1>0. TypeOK /\ Shape /\ HandlesKnown /\ Ownership /\ Actions /\ Held /\ Phases /\ Creation /\ Removal /\ Kept
  BY DEF ServerInv, IInv
<1>1. ASSUME NEW p \in Actors, Refuse(p)
      PROVE  Removal'
  BY <1>1, <1>0, SessionAssumption DEF Refuse, Finish, FinishFrame, serverVars, Goto, Removal,
     Sweeping
<1>2. ASSUME NEW p \in Actors, Admit(p)
      PROVE  Removal'
  BY <1>2, <1>0, SessionAssumption DEF Admit, Goto, closeVars, serverVars, Removal, Sweeping,
     TypeOK, Actors
<1>3. ASSUME NEW p \in Actors, SendAddGroup(p)
      PROVE  Removal'
  BY <1>3, <1>0, SessionAssumption DEF SendAddGroup, Goto, Send, AddRequest, sessionVars,
     groupVars, closeVars, Removal, Sweeping, TypeOK, Actors
<1>4. ASSUME NEW p \in Actors, GroupAdded(p)
      PROVE  Removal'
  BY <1>4, <1>0, SessionAssumption DEF GroupAdded, Goto, sessionVars, closeVars, Removal,
     Sweeping, Creation
<1>5. ASSUME NEW p \in Actors, AddFailed(p)
      PROVE  Removal'
  BY <1>5, <1>0, SessionAssumption DEF AddFailed, Goto, sessionVars, groupVars, closeVars,
     Removal, Sweeping
<1>6. ASSUME NEW p \in Actors, Setup(p)
      PROVE  Removal'
  BY <1>6, <1>0, SessionAssumption DEF Setup, Goto, sessionVars, closeVars, serverVars,
     Removal, Sweeping, TypeOK, Actors
<1>7. ASSUME NEW p \in Actors, Register(p)
      PROVE  Removal'
  BY <1>7, <1>0, SessionAssumption DEF Register, Finish, serverVars, Goto, Removal, Sweeping
<1>8. ASSUME NEW p \in Actors, Unregistered(p)
      PROVE  Removal'
  BY <1>8, <1>0, SessionAssumption DEF Unregistered, Goto, sessionVars, groupVars, closeVars,
     serverVars, Removal, Sweeping
<1>9. ASSUME NEW p \in Actors, Lookup(p)
      PROVE  Removal'
  BY <1>9, <1>0, SessionAssumption DEF Lookup, Goto, sessionVars, groupVars, closeVars,
     serverVars, Removal, Sweeping
<1>10. ASSUME NEW p \in Actors, LookupFailed(p)
      PROVE  Removal'
  BY <1>10, <1>0, SessionAssumption DEF LookupFailed, Finish, FinishFrame, serverVars, Goto,
     Removal, Sweeping
<1>11. ASSUME NEW p \in Actors, Acquire(p)
      PROVE  Removal'
  BY <1>11, <1>0, SessionAssumption DEF Acquire, Goto, sessionVars, closeVars, serverVars,
     Removal, Sweeping
<1>12. ASSUME NEW p \in Actors, AcquireFailed(p)
      PROVE  Removal'
  BY <1>12, <1>0, SessionAssumption DEF AcquireFailed, Finish, FinishFrame, serverVars, Goto,
     Removal, Sweeping
<1>13. ASSUME NEW p \in Actors, EndCall(p)
      PROVE  Removal'
  BY <1>13, <1>0, SessionAssumption DEF EndCall, Finish, FinishFrame, serverVars, Goto,
     Removal, Sweeping
<1>14. ASSUME NEW p \in Actors, MarkRemoved(p)
      PROVE  Removal'
  BY <1>14, <1>0, SessionAssumption DEF MarkRemoved, Goto, closeVars, serverVars, Removal,
     Sweeping
<1>15. ASSUME NEW p \in Actors, Dispose(p)
      PROVE  Removal'
  BY <1>15, <1>0, SessionAssumption DEF Dispose, Goto, Send, RemoveRequest, sessionVars,
     closeVars, Removal, Sweeping, Shape, WithGroup, Actions, Kept, Live
<1>16. ASSUME NEW p \in Actors, DisposeUncreated(p)
      PROVE  Removal'
  BY <1>16, <1>0, SessionAssumption DEF DisposeUncreated, Finish, FinishFrame, serverVars,
     Goto, Removal, Sweeping
<1>17. ASSUME NEW p \in Actors, RemoveAcked(p)
      PROVE  Removal'
  BY <1>17, <1>0, SessionAssumption DEF RemoveAcked, Finish, FinishFrame, Removed, Goto,
     Removal, Sweeping
<1>18. ASSUME NEW p \in Actors, RemoveFailed(p)
      PROVE  Removal'
  BY <1>18, <1>0, SessionAssumption DEF RemoveFailed, Finish, FinishFrame, Removed, Goto,
     Removal, Sweeping
<1>19. CASE Close
  BY <1>19, <1>0, SessionAssumption DEF Close, Goto, sessionVars, groupVars, closeVars,
     serverVars, Removal, Sweeping
<1>20. CASE MarkClosed
  BY <1>20, <1>0, SessionAssumption DEF MarkClosed, Goto, groupVars, closeVars, serverVars,
     Removal, Sweeping
<1>21. CASE Drained
  BY <1>21, <1>0, SessionAssumption DEF Drained, Goto, sessionVars, groupVars, serverVars,
     Removal, Sweeping
<1>22. CASE DrainTimeout
  BY <1>22, <1>0, SessionAssumption DEF DrainTimeout, Goto, sessionVars, groupVars, serverVars,
     Removal, Sweeping
<1>23. CASE RetryReturns
  BY <1>23, <1>0, SessionAssumption DEF RetryReturns, Goto, Removed, sessionVars, groupVars,
     Removal, Sweeping
<1>24. CASE ReleaseServerReference
  BY <1>24, <1>0, SessionAssumption DEF ReleaseServerReference, Goto, sessionVars, groupVars,
     Removal, Sweeping
<1>25. CASE Disconnect
  BY <1>25, <1>0, SessionAssumption DEF Disconnect, Goto, groupVars, serverVars, Removal,
     Sweeping
<1>26. CASE Teardown
  BY <1>26, <1>0, SessionAssumption DEF Teardown, groupVars, actorVars, serverVars, Removal,
     Sweeping
<1>27. ASSUME NEW h \in Handles, RetryRemoval(h)
      PROVE  Removal'
  <2>1. /\ UNCHANGED <<handle, remote, teardown>> /\ pc[Closer] = "sweep" /\ teardown = "none"
        /\ network' \subseteq network \cup {RemoveRequest(Closer, h)}
        /\ RemoveRequest(Closer, h).inst = NoInst
        /\ RemoveRequest(Closer, h).handle = h
        /\ pc'[Closer] = "retrying"
    BY <1>27, <1>0 DEF RetryRemoval, Send, RemoveRequest, Goto, TypeOK, Actors, WithGroup,
       Actions,
       Phases, groupVars
  <2>2. Sweeping'
    BY <2>1 DEF Sweeping
  <2>3. QED
    BY <2>1, <2>2, <1>0, SessionAssumption DEF Removal
<1>28. ASSUME NEW i \in GroupIDs, SweepGroup(i)
      PROVE  Removal'
  BY <1>28, <1>0, SessionAssumption DEF SweepGroup, Goto, sessionVars, groupVars, serverVars,
     Removal, Sweeping
<1>29. ASSUME NEW p \in Callers, NEW o \in Ops, NEW i \in 0..MaxGroupID, Start(p, o, i)
      PROVE  Removal'
  BY <1>29, <1>0, SessionAssumption DEF Start, Goto, SessionClosed, sessionVars, groupVars,
     closeVars, serverVars, Removal, Sweeping
<1>30. ASSUME NEW p \in Actors, Cancel(p)
      PROVE  Removal'
  BY <1>30, <1>0, SessionAssumption DEF Cancel, sessionVars, groupVars, closeVars, serverVars,
     Removal, Sweeping
<1>31. ASSUME NEW m \in network, NEW h \in Handles, ServerAdds(m, h)
      PROVE  Removal'
  <2> DEFINE reply == [m EXCEPT !.type = "Added", !.handle = h]
  <2>1. /\ reply.type = "Added" /\ remote[h] = NoInst
        /\ UNCHANGED <<pc, handle, teardown>>
        /\ \A k \in Handles : k # h => remote'[k] = remote[k]
        /\ network' \subseteq network \cup {reply}
    <3>1. m \in Message
      BY <1>0 DEF TypeOK
    <3>2. QED
      BY <1>31, <3>1, <1>0 DEF ServerAdds, Message, TypeOK, groupVars, actorVars, closeVars
  <2> HIDE DEF reply
  <2>2. \A n \in network' : n.type = "RemoveGroup" => n \in network
    BY <2>1
  <2>3. \A n \in network' : n.type = "RemoveGroup" /\ ~Sweeping => n.handle # h
    BY <2>1, <2>2, <1>0, SessionAssumption DEF Removal
  <2>4. QED
    BY <2>1, <2>2, <2>3, <1>0 DEF Removal, Sweeping
<1>32. ASSUME NEW m \in network, ServerRemoves(m)
      PROVE  Removal'
  <2> DEFINE reply == [m EXCEPT !.type = "Removed"]
  <2>1. /\ m.type = "RemoveGroup" /\ reply.type = "Removed"
        /\ UNCHANGED <<pc, handle, teardown>>
        /\ \A k \in Handles : k # m.handle => remote'[k] = remote[k]
        /\ network' \subseteq (network \ {m}) \cup {reply}
    <3>1. m \in Message
      BY <1>0 DEF TypeOK
    <3>2. QED
      BY <1>32, <3>1, <1>0 DEF ServerRemoves, Message, TypeOK, groupVars, actorVars, closeVars
  <2> HIDE DEF reply
  <2>2. \A n \in network' : n.type = "RemoveGroup" => n \in network /\ n # m
    BY <2>1
  <2>3. \A n \in network' : n.type = "RemoveGroup" /\ ~Sweeping => n.handle # m.handle
    BY <2>1, <2>2, <1>0 DEF Removal
  <2>4. QED
    BY <2>1, <2>2, <2>3, <1>0 DEF Removal, Sweeping
<1>33. ASSUME NEW m \in network, ServerRejects(m)
      PROVE  Removal'
  BY <1>33, <1>0, SessionAssumption DEF ServerRejects, sessionVars, groupVars, actorVars,
     closeVars, Removal, Sweeping
<1>34. CASE UNCHANGED vars
  BY <1>34, <1>0 DEF Removal, Sweeping, Actions, Kept, Live, Creation, vars, sessionVars,
     groupVars, actorVars, closeVars, serverVars
<1>35. QED
  BY <1>1, <1>2, <1>3, <1>4, <1>5, <1>6, <1>7, <1>8, <1>9, <1>10, <1>11, <1>12, <1>13, <1>14,
     <1>15, <1>16, <1>17, <1>18, <1>19, <1>20, <1>21, <1>22, <1>23, <1>24, <1>25, <1>26, <1>27,
     <1>28, <1>29, <1>30, <1>31, <1>32, <1>33, <1>34 DEF Next, Step, CloseStep, ServerStep,
     Terminated

-----------------------------------------------------------------------------
\* The server keeps what the client holds.
LEMMA KeptKept ==
    ASSUME ServerInv, [Next]_vars
    PROVE  Kept'
<1>0. TypeOK /\ Shape /\ HandlesKnown /\ Ownership /\ Actions /\ Held /\ Phases /\ Creation /\ Removal /\ Kept
  BY DEF ServerInv, IInv
<1>1. ASSUME NEW p \in Actors, Refuse(p)
      PROVE  Kept'
  BY <1>1, <1>0, SessionAssumption DEF Refuse, Finish, FinishFrame, serverVars, Goto, Kept,
     Live
<1>2. ASSUME NEW p \in Actors, Admit(p)
      PROVE  Kept'
  BY <1>2, <1>0, SessionAssumption DEF Admit, Goto, closeVars, serverVars, Kept, Live
<1>3. ASSUME NEW p \in Actors, SendAddGroup(p)
      PROVE  Kept'
  BY <1>3, <1>0, SessionAssumption DEF SendAddGroup, Goto, Send, AddRequest, sessionVars,
     groupVars, closeVars, Kept, Live
<1>4. ASSUME NEW p \in Actors, GroupAdded(p)
      PROVE  Kept'
  <2>1. PICK m \in network :
           /\ m.type = "Added" /\ m.by = p /\ m.inst = cur[p]
           /\ handle' = [handle EXCEPT ![cur[p]] = m.handle]
           /\ network' = network \ {m}
    BY <1>4 DEF GroupAdded
  <2>2. /\ m.handle \in Handles /\ remote[m.handle] = cur[p] /\ cur[p] \in Inst
        /\ \A n \in network : n.type = "RemoveGroup" => n.handle # m.handle
    BY <2>1, <1>0 DEF Creation
  <2>3. todoPending = {}
    BY <1>4, <1>0, CreatorNotSwept DEF GroupAdded, Phases
  <2>4. /\ \A g \in Inst : handle'[g] = (IF g = cur[p] THEN m.handle ELSE handle[g])
        /\ UNCHANGED <<conns, remote, todoPending>>
    BY <1>4, <2>1, <1>0 DEF GroupAdded, TypeOK, closeVars
  <2>5. QED
    BY <2>1, <2>2, <2>3, <2>4, <1>0 DEF Kept, Live
<1>5. ASSUME NEW p \in Actors, AddFailed(p)
      PROVE  Kept'
  BY <1>5, <1>0, SessionAssumption DEF AddFailed, Goto, sessionVars, groupVars, closeVars,
     Kept, Live
<1>6. ASSUME NEW p \in Actors, Setup(p)
      PROVE  Kept'
  BY <1>6, <1>0, SessionAssumption DEF Setup, Goto, sessionVars, closeVars, serverVars, Kept,
     Live, TypeOK, Actions
<1>7. ASSUME NEW p \in Actors, Register(p)
      PROVE  Kept'
  BY <1>7, <1>0, SessionAssumption DEF Register, Finish, serverVars, Goto, Kept, Live
<1>8. ASSUME NEW p \in Actors, Unregistered(p)
      PROVE  Kept'
  BY <1>8, <1>0, SessionAssumption DEF Unregistered, Goto, sessionVars, groupVars, closeVars,
     serverVars, Kept, Live
<1>9. ASSUME NEW p \in Actors, Lookup(p)
      PROVE  Kept'
  BY <1>9, <1>0, SessionAssumption DEF Lookup, Goto, sessionVars, groupVars, closeVars,
     serverVars, Kept, Live
<1>10. ASSUME NEW p \in Actors, LookupFailed(p)
      PROVE  Kept'
  BY <1>10, <1>0, SessionAssumption DEF LookupFailed, Finish, FinishFrame, serverVars, Goto,
     Kept, Live
<1>11. ASSUME NEW p \in Actors, Acquire(p)
      PROVE  Kept'
  BY <1>11, <1>0, SessionAssumption DEF Acquire, Goto, sessionVars, closeVars, serverVars,
     Kept, Live
<1>12. ASSUME NEW p \in Actors, AcquireFailed(p)
      PROVE  Kept'
  BY <1>12, <1>0, SessionAssumption DEF AcquireFailed, Finish, FinishFrame, serverVars, Goto,
     Kept, Live
<1>13. ASSUME NEW p \in Actors, EndCall(p)
      PROVE  Kept'
  BY <1>13, <1>0, SessionAssumption DEF EndCall, Finish, FinishFrame, serverVars, Goto, Kept,
     Live
<1>14. ASSUME NEW p \in Actors, MarkRemoved(p)
      PROVE  Kept'
  BY <1>14, <1>0, SessionAssumption DEF MarkRemoved, Goto, closeVars, serverVars, Kept, Live
<1>15. ASSUME NEW p \in Actors, Dispose(p)
      PROVE  Kept'
  BY <1>15, <1>0, SessionAssumption DEF Dispose, Goto, Send, RemoveRequest, sessionVars,
     closeVars, Kept, Live, TypeOK, Shape, WithGroup, Actions
<1>16. ASSUME NEW p \in Actors, DisposeUncreated(p)
      PROVE  Kept'
  BY <1>16, <1>0, SessionAssumption DEF DisposeUncreated, Finish, FinishFrame, serverVars,
     Goto, Kept, Live
<1>17. ASSUME NEW p \in Actors, RemoveAcked(p)
      PROVE  Kept'
  BY <1>17, <1>0, SessionAssumption DEF RemoveAcked, Finish, FinishFrame, Removed, Goto, Kept,
     Live
<1>18. ASSUME NEW p \in Actors, RemoveFailed(p)
      PROVE  Kept'
  BY <1>18, <1>0, SessionAssumption DEF RemoveFailed, Finish, FinishFrame, Removed, Goto, Kept,
     Live
<1>19. CASE Close
  BY <1>19, <1>0, SessionAssumption DEF Close, Goto, sessionVars, groupVars, closeVars,
     serverVars, Kept, Live
<1>20. CASE MarkClosed
  BY <1>20, <1>0, SessionAssumption DEF MarkClosed, Goto, groupVars, closeVars, serverVars,
     Kept, Live
<1>21. CASE Drained
  <2>1. /\ UNCHANGED <<handle, conns, remote, network>>
        /\ \A i \in GroupIDs : groups[i] # NoInst => handle[groups[i]] \notin todoPending'
        /\ pc[Closer] = "drain" /\ groupOps = {}
    BY <1>21 DEF Drained, groupVars, serverVars
  <2>2. \A p \in Actors : pc[p] \notin {"setup", "ready", "dispose"}
    BY <2>1, <1>0 DEF Actions, Shape, Actors, WithGroup
  <2>3. \A g \in Inst : Live(g) => handle[g] \notin todoPending'
    BY <2>1, <2>2, <1>0, SessionAssumption DEF Held
  <2>4. QED
    BY <2>1, <2>3, <1>0 DEF Kept, Live
<1>22. CASE DrainTimeout
  BY <1>22, <1>0, SessionAssumption DEF DrainTimeout, Goto, sessionVars, groupVars, serverVars,
     Kept, Live
<1>23. CASE RetryReturns
  BY <1>23, <1>0, SessionAssumption DEF RetryReturns, Goto, Removed, sessionVars, groupVars,
     Kept, Live
<1>24. CASE ReleaseServerReference
  BY <1>24, <1>0, SessionAssumption DEF ReleaseServerReference, Goto, sessionVars, groupVars,
     Kept, Live
<1>25. CASE Disconnect
  BY <1>25, <1>0, SessionAssumption DEF Disconnect, Goto, groupVars, serverVars, Kept, Live
<1>26. CASE Teardown
  BY <1>26, <1>0, SessionAssumption DEF Teardown, groupVars, actorVars, serverVars, Kept, Live
<1>27. ASSUME NEW h \in Handles, RetryRemoval(h)
      PROVE  Kept'
  BY <1>27, <1>0, SessionAssumption DEF RetryRemoval, Goto, Send, RemoveRequest, sessionVars,
     groupVars, Kept, Live
<1>28. ASSUME NEW i \in GroupIDs, SweepGroup(i)
      PROVE  Kept'
  BY <1>28, <1>0, SessionAssumption DEF SweepGroup, Goto, sessionVars, groupVars, serverVars,
     Kept, Live
<1>29. ASSUME NEW p \in Callers, NEW o \in Ops, NEW i \in 0..MaxGroupID, Start(p, o, i)
      PROVE  Kept'
  BY <1>29, <1>0, SessionAssumption DEF Start, Goto, SessionClosed, sessionVars, groupVars,
     closeVars, serverVars, Kept, Live
<1>30. ASSUME NEW p \in Actors, Cancel(p)
      PROVE  Kept'
  BY <1>30, <1>0, SessionAssumption DEF Cancel, sessionVars, groupVars, closeVars, serverVars,
     Kept, Live
<1>31. ASSUME NEW m \in network, NEW h \in Handles, ServerAdds(m, h)
      PROVE  Kept'
  <2> DEFINE reply == [m EXCEPT !.type = "Added", !.handle = h]
  <2>1. /\ reply.type = "Added" /\ remote[h] = NoInst
        /\ UNCHANGED <<conns, handle, todoPending>>
        /\ \A k \in Handles : k # h => remote'[k] = remote[k]
        /\ network' \subseteq network \cup {reply}
    <3>1. m \in Message
      BY <1>0 DEF TypeOK
    <3>2. QED
      BY <1>31, <3>1, <1>0 DEF ServerAdds, Message, TypeOK, groupVars, closeVars
  <2> HIDE DEF reply
  <2>2. QED
    BY <2>1, <1>0, SessionAssumption DEF Kept, Live
<1>32. ASSUME NEW m \in network, ServerRemoves(m)
      PROVE  Kept'
  <2> DEFINE reply == [m EXCEPT !.type = "Removed"]
  <2>1. /\ m.type = "RemoveGroup" /\ reply.type = "Removed"
        /\ UNCHANGED <<conns, handle, todoPending>>
        /\ \A k \in Handles : k # m.handle => remote'[k] = remote[k]
        /\ network' \subseteq network \cup {reply}
    <3>1. m \in Message
      BY <1>0 DEF TypeOK
    <3>2. QED
      BY <1>32, <3>1, <1>0 DEF ServerRemoves, Message, TypeOK, groupVars, closeVars
  <2> HIDE DEF reply
  <2>2. QED
    BY <2>1, <1>0 DEF Kept, Live
<1>33. ASSUME NEW m \in network, ServerRejects(m)
      PROVE  Kept'
  BY <1>33, <1>0, SessionAssumption DEF ServerRejects, sessionVars, groupVars, actorVars,
     closeVars, Kept, Live
<1>34. CASE UNCHANGED vars
  BY <1>34, <1>0 DEF Kept, Live, Actions, Creation, vars, sessionVars, groupVars, actorVars,
     closeVars, serverVars
<1>35. QED
  BY <1>1, <1>2, <1>3, <1>4, <1>5, <1>6, <1>7, <1>8, <1>9, <1>10, <1>11, <1>12, <1>13, <1>14,
     <1>15, <1>16, <1>17, <1>18, <1>19, <1>20, <1>21, <1>22, <1>23, <1>24, <1>25, <1>26, <1>27,
     <1>28, <1>29, <1>30, <1>31, <1>32, <1>33, <1>34 DEF Next, Step, CloseStep, ServerStep,
     Terminated

-----------------------------------------------------------------------------
(* Theorems *)

\* The invariant holds at first.
LEMMA InitServerInv == Init => ServerInv
<1> SUFFICES ASSUME Init PROVE ServerInv
  OBVIOUS
<1>1. IInv
  BY InitInvariant
<1>2. Actions /\ Held /\ Phases
  BY SessionAssumption DEF Init, Actions, Held, Live, Phases, Sweeping, WithGroup, Actors
<1>3. Creation /\ Removal /\ Kept
  BY SessionAssumption DEF Init, Creation, Unsent, Removal, Kept, Live, Actors
<1>4. QED
  BY <1>1, <1>2, <1>3 DEF ServerInv

\* Every step keeps it.
LEMMA StepServerInv == ServerInv /\ [Next]_vars => ServerInv'
<1> SUFFICES ASSUME ServerInv, [Next]_vars PROVE ServerInv'
  OBVIOUS
<1>1. IInv'
  BY StepInvariant DEF ServerInv
<1>2. QED
  BY <1>1, ActionsKept, HeldKept, PhasesKept, CreationKept, RemovalKept, KeptKept DEF ServerInv

\* Every state has the invariant about the server's table.
THEOREM ServerInvariant == Spec => []ServerInv
  BY InitServerInv, StepServerInv, PTL DEF Spec

\* A registered group is the one the server has under its handle: reissued
\* handles, late removals and the retries of Close included.
THEOREM GroupsStay == Spec => []RegisteredGroupExists
<1>1. ServerInv => RegisteredGroupExists
  <2> SUFFICES ASSUME ServerInv, NEW i \in GroupIDs, groups[i] # NoInst
               PROVE  remote[handle[groups[i]]] = groups[i]
    BY DEF RegisteredGroupExists
  <2>1. groups[i] \in Inst /\ Live(groups[i])
    BY DEF ServerInv, IInv, TypeOK, Ownership, Held, Live
  <2>2. QED
    BY <2>1 DEF ServerInv, Kept
<1>2. QED
  BY <1>1, ServerInvariant, PTL

\* releaseServerReference comes after the removal of every group, or Close has
\* an error to report.
THEOREM ReferenceLast == Spec => []ReferenceReleasedLast
<1>1. ServerInv => ReferenceReleasedLast
  BY DEF ServerInv, Phases, Sweeping, ReferenceReleasedLast
<1>2. QED
  BY <1>1, ServerInvariant, PTL

\* The server loses a group only after the client has begun to dispose of it, or
\* when the client never learnt its handle.
THEOREM OnlyGivenUp == Spec => OnlyGivenUpGroupsRemoved
<1> DEFINE GivenUp ==
      \A h \in Handles :
         (remote[h] \in Inst /\ remote'[h] # remote[h]) =>
             \/ conns[remote[h]] = "closed"
             \/ handle[remote[h]] = NoHandle
<1>1. ServerInv /\ [Next]_vars => [GivenUp]_vars
  <2> SUFFICES ASSUME ServerInv, Next PROVE GivenUp
    OBVIOUS
  <2>1. CASE \E m \in network : \E h \in Handles : ServerAdds(m, h)
    BY <2>1, SessionAssumption DEF ServerAdds, ServerInv, IInv, TypeOK
  <2>2. CASE \E m \in network : ServerRemoves(m)
    <3>1. PICK m \in network : ServerRemoves(m)
      BY <2>2
    <3>2. \A h \in Handles : remote'[h] # remote[h] => h = m.handle
      BY <3>1 DEF ServerRemoves, ServerInv, IInv, TypeOK
    <3>3. \A h \in Handles : remote[h] \in Inst /\ Live(remote[h]) => m.handle # h
      BY <3>1 DEF ServerRemoves, ServerInv, Kept, Creation
    <3>4. QED
      BY <3>2, <3>3 DEF Live
  <2>3. CASE ~\E m \in network : ServerRemoves(m) \/ \E h \in Handles : ServerAdds(m, h)
    <3>1. UNCHANGED remote
      BY <2>3 DEF Next, Start, Cancel, Step, Refuse, Admit, SendAddGroup, GroupAdded, AddFailed,
         Setup, Register, Unregistered, Lookup, LookupFailed, Acquire, AcquireFailed, EndCall,
         MarkRemoved, Dispose, DisposeUncreated, RemoveAcked, RemoveFailed, FinishFrame, Close,
         CloseStep, MarkClosed, Drained, DrainTimeout, RetryRemoval, RetryReturns, SweepGroup,
         ReleaseServerReference, Disconnect, Teardown, ServerStep, ServerRejects, Terminated,
         serverVars, vars
    <3>2. QED
      BY <3>1
  <2>4. QED
    BY <2>1, <2>2, <2>3
<1>2. QED
  BY <1>1, ServerInvariant, PTL DEF Spec, OnlyGivenUpGroupsRemoved

-----------------------------------------------------------------------------
(* The refinement *)

Alive == {remote[h] : h \in Handles} \cap Inst

\* What the abstract state is made of; every other change is a stutter.
mapped == <<groupOps, groups, nextGroupID, remote, closed, serverConn, rpcCtx>>

LEMMA Stutter == ASSUME UNCHANGED mapped PROVE UNCHANGED Service!vars
  BY DEF mapped, Service!vars

\* A return leaves the abstract session; for the closer it is a stutter.
LEMMA FinishLeaves ==
    ASSUME ServerInv, NEW p \in Actors, groupOps' = groupOps \ {p},
           UNCHANGED <<groups, nextGroupID, remote, closed, serverConn, rpcCtx>>
    PROVE  [Service!Next]_(Service!vars)
<1>1. CASE p \in Callers
  <2>1. Service!Leave(p)
    BY DEF Service!Leave
  <2>2. QED
    BY <1>1, <2>1 DEF Service!Next
<1>2. CASE p \notin Callers
  <2>1. groupOps' = groupOps
    BY <1>2 DEF ServerInv, IInv, TypeOK
  <2>2. QED
    BY <2>1, Stutter DEF mapped
<1>3. QED
  BY <1>1, <1>2

\* registerGroup binds a group the server has to a new identity.
LEMMA RegisterBinds ==
    ASSUME ServerInv, NEW p \in Actors, Register(p)
    PROVE  Service!Next
<1>1. TypeOK /\ Shape /\ Ownership /\ Actions /\ Held /\ Kept
  BY DEF ServerInv, IInv
<1>2. p \in Callers /\ cur[p] \in Inst
  BY <1>1 DEF Register, Shape, WithGroup, Actors
<1>3. p \in groupOps
  BY <1>1, <1>2 DEF Register, Actions, WithGroup
<1>4. Live(cur[p])
  BY <1>1, <1>2 DEF Register, Held, Ownership, Creating, Live
<1>5. cur[p] \in Alive
  BY <1>1, <1>2, <1>4 DEF Kept, Alive
<1>6. \A i \in GroupIDs : groups[i] # cur[p]
  BY <1>1 DEF Register, Ownership, Creating
<1>7. cur[p] \notin Service!Bound
  BY <1>6 DEF Service!Bound, GroupIDs
<1>8. /\ ~closed /\ nextGroupID < MaxGroupID /\ nextGroupID' = nextGroupID + 1
      /\ groups' = [groups EXCEPT ![nextGroupID + 1] = cur[p]]
      /\ groupOps' = groupOps \ {p}
      /\ UNCHANGED <<remote, closed, serverConn, rpcCtx>>
  BY DEF Register, Finish, serverVars
<1>9. Service!Bind(p, cur[p])
  BY <1>3, <1>5, <1>7, <1>8 DEF Service!Bind, Alive
<1>10. QED
  BY <1>2, <1>9 DEF Service!Next

\* A request that is executed removes a group that no identity names.
LEMMA RemovalDisappears ==
    ASSUME ServerInv, NEW m \in network, ServerRemoves(m)
    PROVE  Service!Next
<1>1. TypeOK /\ Ownership /\ Held /\ Creation /\ Removal /\ Kept
  BY DEF ServerInv, IInv
<1>2. /\ m.type = "RemoveGroup" /\ m.handle \in Handles /\ remote[m.handle] \in Inst
      /\ UNCHANGED <<groupOps, groups, nextGroupID, closed, serverConn, rpcCtx>>
  BY <1>1 DEF ServerRemoves, Removal, sessionVars
<1>3. \A h \in Handles : remote'[h] = (IF h = m.handle THEN (IF ReuseHandles THEN NoInst ELSE Retired)
                                                       ELSE remote[h])
  BY <1>1 DEF ServerRemoves, TypeOK
<1>4. \A h \in Handles : remote[h] = remote[m.handle] => h = m.handle
  BY <1>1, <1>2 DEF Creation
<1>5. Alive' = Alive \ {remote[m.handle]}
  <2>1. \A g : g \in Alive' <=> g \in Inst /\ \E h \in Handles : g = remote'[h]
    BY DEF Alive
  <2>2. \A g : g \in Alive <=> g \in Inst /\ \E h \in Handles : g = remote[h]
    BY DEF Alive
  <2>3. \A g : g \in Alive' => g \in Alive /\ g # remote[m.handle]
    BY <2>1, <2>2, <1>2, <1>3, <1>4, SessionAssumption
  <2>4. \A g : g \in Alive /\ g # remote[m.handle] => g \in Alive'
    BY <2>1, <2>2, <1>3
  <2>5. QED
    BY <2>3, <2>4
<1>6. \A i \in GroupIDs : groups[i] # remote[m.handle]
  <2>1. SUFFICES ASSUME NEW i \in GroupIDs, groups[i] = remote[m.handle] PROVE FALSE
    OBVIOUS
  <2>2. groups[i] \in Inst /\ groups[i] # NoInst
    BY <1>2, <2>1, SessionAssumption
  <2>3. Live(groups[i])
    BY <1>1, <2>2 DEF Ownership, Held, Live
  <2>4. handle[groups[i]] = m.handle
    BY <1>1, <1>4, <2>1, <2>2, <2>3 DEF Kept
  <2>5. QED
    BY <1>1, <1>2, <2>2, <2>3, <2>4 DEF Kept
<1>7. remote[m.handle] \notin Service!Bound
  BY <1>6 DEF Service!Bound, GroupIDs
<1>8. PICK g \in Inst : g = remote[m.handle]
  BY <1>2
<1>9. Service!Disappear(g)
  BY <1>2, <1>5, <1>7, <1>8 DEF Service!Disappear, Alive
<1>10. QED
  BY <1>9 DEF Service!Next

\* A request to create a group that is executed lets it appear.
LEMMA AdditionAppears ==
    ASSUME ServerInv, NEW m \in network, NEW h \in Handles, ServerAdds(m, h)
    PROVE  Service!Next
<1>1. TypeOK /\ Creation
  BY DEF ServerInv, IInv
<1>2. /\ m.inst \in Inst /\ remote[h] = NoInst
      /\ UNCHANGED <<groupOps, groups, nextGroupID, closed, serverConn, rpcCtx>>
  BY <1>1 DEF ServerAdds, Creation, sessionVars
<1>3. \A k \in Handles : remote'[k] = (IF k = h THEN m.inst ELSE remote[k])
  BY <1>1 DEF ServerAdds, TypeOK
<1>4. Alive' = Alive \cup {m.inst}
  <2>1. \A g : g \in Alive' <=> g \in Inst /\ \E k \in Handles : g = remote'[k]
    BY DEF Alive
  <2>2. \A g : g \in Alive <=> g \in Inst /\ \E k \in Handles : g = remote[k]
    BY DEF Alive
  <2>3. \A g : g \in Alive' => g \in Alive \/ g = m.inst
    BY <2>1, <2>2, <1>3
  <2>4. \A g : g \in Alive \/ g = m.inst => g \in Alive'
    BY <2>1, <2>2, <1>2, <1>3, SessionAssumption
  <2>5. QED
    BY <2>3, <2>4
<1>5. Service!Appear(m.inst)
  BY <1>2, <1>4 DEF Service!Appear, Alive
<1>6. QED
  BY <1>2, <1>5 DEF Service!Next

\* Every step of the session is a step of the abstract one, or a stutter.
LEMMA ServiceStep == ServerInv /\ [Next]_vars => [Service!Next]_(Service!vars)
<1> SUFFICES ASSUME ServerInv, [Next]_vars PROVE [Service!Next]_(Service!vars)
  OBVIOUS
<1>1. ASSUME NEW p \in Actors, Admit(p)
      PROVE  Service!Next
  <2>1. p \in Callers
    BY <1>1 DEF Admit, ServerInv, IInv, Shape, Actors
  <2>2. Service!Enter(p)
    BY <1>1 DEF Admit, Service!Enter, serverVars
  <2>3. QED
    BY <2>1, <2>2 DEF Service!Next
<1>2. ASSUME NEW p \in Actors,
             \/ Refuse(p) \/ LookupFailed(p) \/ AcquireFailed(p) \/ EndCall(p)
             \/ DisposeUncreated(p) \/ RemoveAcked(p) \/ RemoveFailed(p)
      PROVE  [Service!Next]_(Service!vars)
  <2>1. /\ groupOps' = groupOps \ {p}
        /\ UNCHANGED <<groups, nextGroupID, remote, closed, serverConn, rpcCtx>>
    BY <1>2 DEF Refuse, LookupFailed, AcquireFailed, EndCall, DisposeUncreated, RemoveAcked,
       RemoveFailed, Finish, FinishFrame, serverVars
  <2>2. QED
    BY <2>1, FinishLeaves
<1>3. ASSUME NEW p \in Actors, MarkRemoved(p)
      PROVE  Service!Next
  <2>1. target[p] \in GroupIDs
    BY <1>3 DEF MarkRemoved, ServerInv, IInv, Shape, ByIdentity
  <2>2. Service!Unbind(target[p])
    BY <1>3 DEF MarkRemoved, Service!Unbind, serverVars
  <2>3. QED
    BY <2>1, <2>2 DEF Service!Next, GroupIDs
<1>4. CASE MarkClosed
  <2>1. Service!End
    BY <1>4 DEF MarkClosed, Service!End, serverVars
  <2>2. QED
    BY <2>1 DEF Service!Next
<1>5. CASE Disconnect \/ Teardown
  <2>1. closed /\ groupOps = {}
    BY <1>5 DEF Disconnect, Teardown, ServerInv, IInv, Closing
  <2>2. /\ serverConn' = "closed"
        /\ UNCHANGED <<groups, nextGroupID, remote, closed, groupOps>>
    BY <1>5 DEF Disconnect, Teardown, serverVars
  <2>3. Service!Disconnect
    BY <2>1, <2>2 DEF Service!Disconnect
  <2>4. QED
    BY <2>3 DEF Service!Next
<1>6. CASE DrainTimeout
  <2>1. closed /\ serverConn = "open" /\ rpcCtx = "live"
    BY <1>6 DEF DrainTimeout, ServerInv, IInv, TypeOK, Closing
  <2>2. /\ rpcCtx' = "canceled"
        /\ UNCHANGED <<groups, nextGroupID, remote, closed, groupOps, serverConn>>
    BY <1>6 DEF DrainTimeout, serverVars
  <2>3. Service!Abandon
    BY <2>1, <2>2 DEF Service!Abandon
  <2>4. QED
    BY <2>3 DEF Service!Next
<1>7. ASSUME NEW p \in Actors,
             \/ SendAddGroup(p) \/ GroupAdded(p) \/ AddFailed(p) \/ Setup(p) \/ Unregistered(p)
             \/ Lookup(p) \/ Acquire(p) \/ Dispose(p) \/ Cancel(p)
      PROVE  UNCHANGED mapped
  BY <1>7 DEF SendAddGroup, GroupAdded, AddFailed, Setup, Unregistered, Lookup, Acquire, Dispose,
     Cancel, sessionVars, serverVars, mapped
<1>8. CASE \/ \E p \in Callers, o \in Ops, i \in 0..MaxGroupID : Start(p, o, i)
           \/ Close \/ Drained \/ RetryReturns \/ ReleaseServerReference
           \/ \E h \in Handles : RetryRemoval(h)
           \/ \E i \in GroupIDs : SweepGroup(i)
           \/ \E m \in network : ServerRejects(m)
           \/ UNCHANGED vars
  <2>1. UNCHANGED mapped
    BY <1>8 DEF Start, Close, Drained, RetryReturns, ReleaseServerReference,
       RetryRemoval, SweepGroup, ServerRejects, vars, sessionVars, serverVars, mapped
  <2>2. QED
    BY <2>1, Stutter
<1>9. QED
  BY <1>1, <1>2, <1>3, <1>4, <1>5, <1>6, <1>7, <1>8, RegisterBinds, RemovalDisappears, AdditionAppears,
     Stutter DEF Next, Step, CloseStep, ServerStep, Terminated

\* Session implements GroupService: to a program that uses it, a group exists from
\* its registration to its removal, and there are no requests, replies or handles.
THEOREM Refinement == Spec => ImplementsService
<1>1. Init => Service!Init
  <2> SUFFICES ASSUME Init PROVE Service!Init
    OBVIOUS
  <2>1. {remote[h] : h \in Handles} \cap Inst = {}
    BY SessionAssumption DEF Init
  <2>2. QED
    BY <2>1 DEF Init, Service!Init, GroupIDs
<1>2. QED
  BY <1>1, ServiceStep, ServerInvariant, PTL DEF Spec, ImplementsService, Service!Spec

=============================================================================
