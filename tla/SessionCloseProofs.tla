------------------------- MODULE SessionCloseProofs -------------------------
(***************************************************************************)
(* What Close has cleaned up when it returns nil, on a server that never   *)
(* reissues the handle of a removed group, or for a program that uses the  *)
(* session from one goroutine.  Where handles are reissued and callers run *)
(* concurrently the property is false: the run Session_race shows how.     *)
(***************************************************************************)
EXTENDS SessionServerProofs

-----------------------------------------------------------------------------
(* The inductive invariant *)

\* Handles are never reissued, or nobody is there to create a group while an
\* acknowledged removal is on its way to its caller.
HandlesUnshared == ReuseHandles = FALSE \/ \A p, q \in Callers : p = q

\* The caller of an acknowledged removal still waits for it, or it is one of
\* Close, which then is past the operations.
Pending ==
    \A m \in network : m.type = "Removed" =>
        IF m.by = Closer
        THEN Sweeping
        ELSE pc[m.by] = "removing" /\ cur[m.by] = m.inst /\ handle[m.inst] = m.handle

\* An acknowledged removal has been executed, and the client knows no group that
\* has the handle now.
Confirmed ==
    \A m \in network : m.type = "Removed" =>
        /\ m.handle \in Handles
        /\ \A g \in Inst : remote[m.handle] = g => handle[g] = NoHandle
        /\ ReuseHandles = FALSE => remote[m.handle] = Retired

\* The server has a group under no handle but the one the client knows.
Named ==
    \A g \in Inst, h \in Handles :
        remote[h] = g /\ handle[g] # NoHandle => handle[g] = h

\* The groups whose failed removal is not recorded are temporary ones.
Temporaries ==
    \A p \in Actors : Creating(p) /\ op[p] = "object" => kind[cur[p]] = "temporary"

\* What Close has done when it goes on to disconnect, or returns nil.
Results ==
    /\ teardown # "none" => closeErr
    /\ pc[Closer] = "disconnect" => todoPending = {} /\ (closeErr \/ refReleased)
    /\ pc[Closer] = "done" => closeErr \/ (todoPending = {} /\ refReleased)

\* A persistent group the client has disposed of, whose removal was not executed.
Orphan(g) ==
    /\ kind[g] # "temporary" /\ conns[g] = "closed"
    /\ handle[g] # NoHandle /\ remote[handle[g]] = g

\* An orphan is being removed, or is on record for Close, or Close is about to
\* retry it, is retrying it, or has an error to report.
Accounted ==
    \A g \in Inst : Orphan(g) =>
        \/ \E p \in Actors : pc[p] = "removing" /\ cur[p] = g
        \/ ~Sweeping /\ handle[g] \in pendingRemovals
        \/ /\ Sweeping
           /\ \/ closeErr
              \/ handle[g] \in todoPending
              \/ pc[Closer] = "retrying" /\ retrying = handle[g]

CleanInv == ServerInv /\ Pending /\ Confirmed /\ Named /\ Temporaries /\ Results /\ Accounted

-----------------------------------------------------------------------------
\* All steps but the server's leave its table as it is and deliver nothing.
LEMMA ClientSteps ==
    ASSUME TypeOK, [Next]_vars,
           ~\E m \in network : ServerRemoves(m) \/ \E h \in Handles : ServerAdds(m, h)
    PROVE  /\ UNCHANGED remote
           /\ \A m \in network' : m \in network \/ m.type # "Removed"
<1>1. CASE UNCHANGED vars
  BY <1>1 DEF vars, serverVars
<1>2. ASSUME NEW p \in Actors, Step(p)
      PROVE  UNCHANGED remote /\ \A m \in network' : m \in network \/ m.type # "Removed"
  <2>1. CASE SendAddGroup(p) \/ Dispose(p)
    BY <2>1 DEF SendAddGroup, Dispose, Send, AddRequest, RemoveRequest
  <2>2. CASE ~(SendAddGroup(p) \/ Dispose(p))
    BY <1>2, <2>2 DEF Step, Refuse, Admit, GroupAdded, AddFailed, Setup, Register, Unregistered,
       Lookup, LookupFailed, Acquire, AcquireFailed, EndCall, MarkRemoved, DisposeUncreated,
       RemoveAcked, RemoveFailed, serverVars
  <2>3. QED
    BY <2>1, <2>2
<1>3. CASE Close \/ CloseStep \/ Teardown
  <2>1. ASSUME NEW h \in Handles, RetryRemoval(h)
        PROVE  UNCHANGED remote /\ \A m \in network' : m \in network \/ m.type # "Removed"
    BY <2>1 DEF RetryRemoval, Send, RemoveRequest
  <2>2. CASE RetryReturns
    BY <2>2 DEF RetryReturns
  <2>3. CASE ~RetryReturns /\ ~\E h \in Handles : RetryRemoval(h)
    <3>1. UNCHANGED <<remote, network>>
      BY <1>3, <2>3 DEF Close, CloseStep, Teardown, MarkClosed, Drained, DrainTimeout,
         SweepGroup, ReleaseServerReference, Disconnect, serverVars
    <3>2. QED
      BY <3>1
  <2>4. QED
    BY <2>1, <2>2, <2>3
<1>4. ASSUME NEW p \in Actors, Cancel(p) \/ \E o \in Ops, i \in 0..MaxGroupID : Start(p, o, i)
      PROVE  UNCHANGED serverVars
  BY <1>4 DEF Cancel, Start
<1>5. CASE ServerStep
  BY <1>5 DEF ServerStep, ServerRejects
<1>6. QED
  BY <1>1, <1>2, <1>3, <1>4, <1>5 DEF Next, Terminated, Actors, serverVars

\* A handle is learnt nowhere else.
LEMMA OnlyGroupAdded ==
    ASSUME [Next]_vars, ~\E p \in Actors : GroupAdded(p)
    PROVE  UNCHANGED handle
<1>1. ASSUME NEW p \in Actors, Step(p)
      PROVE  UNCHANGED handle
  BY <1>1 DEF Step, Refuse, Admit, SendAddGroup, AddFailed, Setup, Register,
     Unregistered, Lookup, LookupFailed, Acquire, AcquireFailed, EndCall, MarkRemoved,
     Dispose, DisposeUncreated, RemoveAcked, RemoveFailed, FinishFrame, groupVars
<1>2. CASE Close \/ CloseStep \/ Teardown
  BY <1>2 DEF Close, CloseStep, MarkClosed, Drained, DrainTimeout, RetryRemoval,
     RetryReturns, SweepGroup, ReleaseServerReference, Disconnect, Teardown, groupVars
<1>3. CASE ServerStep \/ \E p \in Actors : Cancel(p)
  BY <1>3 DEF ServerStep, ServerAdds, ServerRemoves, ServerRejects, Cancel, groupVars
<1>4. CASE \E p \in Callers, o \in Ops, i \in 0..MaxGroupID : Start(p, o, i)
  BY <1>4 DEF Start, groupVars
<1>5. QED
  BY <1>1, <1>2, <1>3, <1>4 DEF Next, Terminated, vars, groupVars

\* A caller does not go on before it has the reply, or has given it up.
LEMMA PendingKept ==
    ASSUME CleanInv, [Next]_vars
    PROVE  Pending'
<1>0. /\ TypeOK /\ Shape /\ Actions /\ Phases /\ Removal /\ Creation /\ Kept
      /\ Pending /\ Confirmed
  BY DEF CleanInv, ServerInv, IInv
<1>1. ASSUME NEW p \in Actors, Refuse(p)
      PROVE  Pending'
  BY <1>1, <1>0, SessionAssumption DEF Refuse, Finish, FinishFrame, serverVars, Goto,
     Pending, Sweeping, TypeOK, Message
<1>2. ASSUME NEW p \in Actors, Admit(p)
      PROVE  Pending'
  BY <1>2, <1>0, SessionAssumption DEF Admit, Goto, closeVars, serverVars,
     Pending, Sweeping, TypeOK, Message
<1>3. ASSUME NEW p \in Actors, SendAddGroup(p)
      PROVE  Pending'
  BY <1>3, <1>0, SessionAssumption DEF SendAddGroup, Goto, Send, AddRequest, sessionVars,
     groupVars, closeVars, Pending, Sweeping, TypeOK, Message
<1>4. ASSUME NEW p \in Actors, GroupAdded(p)
      PROVE  Pending'
  <2>1. PICK a \in network : /\ a.type = "Added" /\ a.inst = cur[p]
                             /\ handle' = [handle EXCEPT ![cur[p]] = a.handle]
                             /\ network' = network \ {a}
    BY <1>4 DEF GroupAdded
  <2>2. handle[cur[p]] = NoHandle
    BY <2>1, <1>0 DEF Creation
  <2>3. /\ UNCHANGED <<cur, teardown>>
        /\ pc[p] = "adding" /\ p # Closer
        /\ \A q \in Actors : q = p \/ pc'[q] = pc[q]
    BY <1>4, <1>0 DEF GroupAdded, Goto, TypeOK, Shape, closeVars
  <2>4. Sweeping' <=> Sweeping
    BY <2>3 DEF Sweeping, Actors
  <2>5. SUFFICES ASSUME NEW m \in network, m.type = "Removed"
                 PROVE  IF m.by = Closer
                        THEN Sweeping
                        ELSE pc'[m.by] = "removing" /\ cur[m.by] = m.inst
                             /\ handle'[m.inst] = m.handle
    BY <2>1, <2>3, <2>4 DEF Pending
  <2>6. m.by \in Actors /\ m.handle # NoHandle
    BY <2>5, <1>0, SessionAssumption DEF TypeOK, Message, Confirmed
  <2>7. m.by # Closer => handle'[m.inst] = handle[m.inst]
    BY <2>1, <2>2, <2>5, <2>6, <1>0 DEF Pending, TypeOK
  <2>8. QED
    BY <2>3, <2>5, <2>6, <2>7, <1>0 DEF Pending
<1>5. ASSUME NEW p \in Actors, AddFailed(p)
      PROVE  Pending'
  BY <1>5, <1>0, SessionAssumption DEF AddFailed, Goto, sessionVars, groupVars, closeVars,
     Pending, Sweeping, TypeOK, Message
<1>6. ASSUME NEW p \in Actors, Setup(p)
      PROVE  Pending'
  BY <1>6, <1>0, SessionAssumption DEF Setup, Goto, sessionVars, closeVars, serverVars,
     Pending, Sweeping, TypeOK, Message
<1>7. ASSUME NEW p \in Actors, Register(p)
      PROVE  Pending'
  BY <1>7, <1>0, SessionAssumption DEF Register, Finish, serverVars, Goto,
     Pending, Sweeping, TypeOK, Message
<1>8. ASSUME NEW p \in Actors, Unregistered(p)
      PROVE  Pending'
  BY <1>8, <1>0, SessionAssumption DEF Unregistered, Goto, sessionVars, groupVars, closeVars,
     serverVars, Pending, Sweeping, TypeOK, Message
<1>9. ASSUME NEW p \in Actors, Lookup(p)
      PROVE  Pending'
  BY <1>9, <1>0, SessionAssumption DEF Lookup, Goto, sessionVars, groupVars, closeVars,
     serverVars, Pending, Sweeping, TypeOK, Message
<1>10. ASSUME NEW p \in Actors, LookupFailed(p)
      PROVE  Pending'
  BY <1>10, <1>0, SessionAssumption DEF LookupFailed, Finish, FinishFrame, serverVars, Goto,
     Pending, Sweeping, TypeOK, Message
<1>11. ASSUME NEW p \in Actors, Acquire(p)
      PROVE  Pending'
  BY <1>11, <1>0, SessionAssumption DEF Acquire, Goto, sessionVars, closeVars, serverVars,
     Pending, Sweeping, TypeOK, Message
<1>12. ASSUME NEW p \in Actors, AcquireFailed(p)
      PROVE  Pending'
  BY <1>12, <1>0, SessionAssumption DEF AcquireFailed, Finish, FinishFrame, serverVars, Goto,
     Pending, Sweeping, TypeOK, Message
<1>13. ASSUME NEW p \in Actors, EndCall(p)
      PROVE  Pending'
  BY <1>13, <1>0, SessionAssumption DEF EndCall, Finish, FinishFrame, serverVars, Goto,
     Pending, Sweeping, TypeOK, Message
<1>14. ASSUME NEW p \in Actors, MarkRemoved(p)
      PROVE  Pending'
  BY <1>14, <1>0, SessionAssumption DEF MarkRemoved, Goto, closeVars, serverVars,
     Pending, Sweeping, TypeOK, Message
<1>15. ASSUME NEW p \in Actors, Dispose(p)
      PROVE  Pending'
  BY <1>15, <1>0, SessionAssumption DEF Dispose, Goto, Send, RemoveRequest, sessionVars,
     closeVars, Pending, Sweeping, TypeOK, Message
<1>16. ASSUME NEW p \in Actors, DisposeUncreated(p)
      PROVE  Pending'
  BY <1>16, <1>0, SessionAssumption DEF DisposeUncreated, Finish, FinishFrame, serverVars,
     Goto, Pending, Sweeping, TypeOK, Message
<1>17. ASSUME NEW p \in Actors, RemoveAcked(p)
      PROVE  Pending'
  BY <1>17, <1>0, SessionAssumption DEF RemoveAcked, Finish, FinishFrame, Removed, Goto,
     Pending, Sweeping, TypeOK, Message
<1>18. ASSUME NEW p \in Actors, RemoveFailed(p)
      PROVE  Pending'
  BY <1>18, <1>0, SessionAssumption DEF RemoveFailed, Finish, FinishFrame, Removed, Goto,
     Pending, Sweeping, TypeOK, Message
<1>19. CASE Close
  BY <1>19, <1>0, SessionAssumption DEF Close, Goto, sessionVars, groupVars, closeVars,
     serverVars, Pending, Sweeping, TypeOK, Message
<1>20. CASE MarkClosed
  BY <1>20, <1>0, SessionAssumption DEF MarkClosed, Goto, groupVars, closeVars, serverVars,
     Pending, Sweeping, TypeOK, Message
<1>21. CASE Drained
  BY <1>21, <1>0, SessionAssumption DEF Drained, Goto, sessionVars, groupVars, serverVars,
     Pending, Sweeping, TypeOK, Message
<1>22. CASE DrainTimeout
  BY <1>22, <1>0, SessionAssumption DEF DrainTimeout, Goto, sessionVars, groupVars, serverVars,
     Pending, Sweeping, TypeOK, Message
<1>23. CASE RetryReturns
  BY <1>23, <1>0, SessionAssumption DEF RetryReturns, Goto, Removed, sessionVars, groupVars,
     Pending, Sweeping, TypeOK, Message
<1>24. CASE ReleaseServerReference
  BY <1>24, <1>0, SessionAssumption DEF ReleaseServerReference, Goto, sessionVars, groupVars,
     Pending, Sweeping, TypeOK, Message
<1>25. CASE Disconnect
  BY <1>25, <1>0, SessionAssumption DEF Disconnect, Goto, groupVars, serverVars,
     Pending, Sweeping, TypeOK, Message
<1>26. CASE Teardown
  BY <1>26, <1>0, SessionAssumption DEF Teardown, groupVars, actorVars, serverVars,
     Pending, Sweeping, TypeOK, Message
<1>27. ASSUME NEW h \in Handles, RetryRemoval(h)
      PROVE  Pending'
  BY <1>27, <1>0, SessionAssumption DEF RetryRemoval, Goto, Send, RemoveRequest, sessionVars,
     groupVars, Pending, Sweeping, TypeOK, Message
<1>28. ASSUME NEW i \in GroupIDs, SweepGroup(i)
      PROVE  Pending'
  BY <1>28, <1>0, SessionAssumption DEF SweepGroup, Goto, sessionVars, groupVars, serverVars,
     Pending, Sweeping, TypeOK, Message
<1>29. ASSUME NEW p \in Callers, NEW o \in Ops, NEW i \in 0..MaxGroupID, Start(p, o, i)
      PROVE  Pending'
  BY <1>29, <1>0, SessionAssumption DEF Start, Goto, SessionClosed, sessionVars, groupVars,
     closeVars, serverVars, Pending, Sweeping, TypeOK, Message
<1>30. ASSUME NEW p \in Actors, Cancel(p)
      PROVE  Pending'
  BY <1>30, <1>0, SessionAssumption DEF Cancel, sessionVars, groupVars, closeVars, serverVars,
     Pending, Sweeping, TypeOK, Message
<1>31. ASSUME NEW m \in network, NEW h \in Handles, ServerAdds(m, h)
      PROVE  Pending'
  <2>1. UNCHANGED <<pc, cur, handle, teardown>> /\ m \in Message
    BY <1>31, <1>0 DEF ServerAdds, TypeOK, groupVars, actorVars, closeVars
  <2>2. \A n \in network' : n \in network \/ n.type = "Added"
    BY <1>31, <2>1 DEF ServerAdds, Message
  <2>3. QED
    BY <2>1, <2>2, <1>0 DEF Pending, Sweeping
<1>32. ASSUME NEW m \in network, ServerRemoves(m)
      PROVE  Pending'
  <2>1. UNCHANGED <<pc, cur, handle, teardown>>
    BY <1>32 DEF ServerRemoves, groupVars, actorVars, closeVars
  <2>2. m \in Message /\ m.type = "RemoveGroup"
    BY <1>32, <1>0 DEF ServerRemoves, TypeOK
  <2>3. CASE ~Awaited(m)
    BY <1>32, <2>1, <2>3, <1>0 DEF ServerRemoves, Pending, Sweeping
  <2>4. CASE Awaited(m)
    <3> DEFINE reply == [m EXCEPT !.type = "Removed"]
    <3>1. network' = (network \ {m}) \cup {reply}
      BY <1>32, <2>4 DEF ServerRemoves
    <3>2. reply.by = m.by /\ reply.inst = m.inst /\ reply.handle = m.handle
      BY <2>2 DEF Message
    <3>3. m.by = Closer => Sweeping
      BY <2>4, <1>0 DEF Awaited, Sweeping, Phases
    <3>4. m.by # Closer => /\ m.by \in Callers /\ pc[m.by] \in {"adding", "removing"}
                           /\ cur[m.by] = m.inst /\ m.inst \in Inst
      BY <2>2, <2>4, <1>0 DEF Awaited, Shape, Message, Actors, WithGroup
    <3>5. m.by # Closer => handle[m.inst] = m.handle /\ m.handle # NoHandle
      BY <2>2, <3>4, <1>0, SessionAssumption DEF Removal
    <3>6. m.by # Closer => pc[m.by] # "adding"
      BY <2>2, <3>4, <3>5, <1>0 DEF Actions, Kept, Live, Actors
    <3> HIDE DEF reply
    <3>7. Sweeping' <=> Sweeping
      BY <2>1 DEF Sweeping
    <3>8. QED
      BY <2>1, <3>1, <3>2, <3>3, <3>4, <3>5, <3>6, <3>7, <1>0 DEF Pending
  <2>5. QED
    BY <2>3, <2>4
<1>33. ASSUME NEW m \in network, ServerRejects(m)
      PROVE  Pending'
  BY <1>33, <1>0, SessionAssumption DEF ServerRejects, sessionVars, groupVars, actorVars,
     closeVars, Pending, Sweeping, TypeOK, Message
<1>34. CASE UNCHANGED vars
  BY <1>34, <1>0 DEF Pending, Sweeping, TypeOK, Message, vars, sessionVars,
     groupVars, actorVars, closeVars,
     serverVars
<1>35. QED
  BY <1>1, <1>2, <1>3, <1>4, <1>5, <1>6, <1>7, <1>8, <1>9, <1>10, <1>11, <1>12, <1>13, <1>14,
     <1>15, <1>16, <1>17, <1>18, <1>19, <1>20, <1>21, <1>22, <1>23, <1>24, <1>25, <1>26, <1>27,
     <1>28, <1>29, <1>30, <1>31, <1>32, <1>33, <1>34 DEF Next, Step, CloseStep, ServerStep,
     Terminated

\* The handle of a confirmed removal is not learnt again while it is on its way.
LEMMA ConfirmedKept ==
    ASSUME CleanInv, [Next]_vars, HandlesUnshared
    PROVE  Confirmed'
<1>0. /\ TypeOK /\ Shape /\ Actions /\ Phases /\ Creation /\ Removal /\ Pending /\ Confirmed
      /\ Closer \notin Callers
  BY SessionAssumption DEF CleanInv, ServerInv, IInv
<1>1. ASSUME NEW m \in network, NEW h \in Handles, ServerAdds(m, h)
      PROVE  Confirmed'
  <2>1. m \in Message /\ m.inst \in Inst /\ handle[m.inst] = NoHandle
    BY <1>1, <1>0 DEF TypeOK, Creation, ServerAdds
  <2>2. \A n \in network' : n \in network \/ n.type = "Added"
    BY <1>1, <2>1 DEF ServerAdds, Message
  <2>3. /\ \A k \in Handles : remote'[k] = (IF k = h THEN m.inst ELSE remote[k])
        /\ remote[h] # Retired /\ handle' = handle
    BY <1>1, <1>0, SessionAssumption DEF ServerAdds, TypeOK, groupVars
  <2>4. QED
    BY <2>1, <2>2, <2>3, <1>0 DEF Confirmed
<1>2. ASSUME NEW m \in network, ServerRemoves(m)
      PROVE  Confirmed'
  <2>1. m \in Message /\ m.handle \in Handles
    BY <1>2, <1>0 DEF TypeOK, ServerRemoves, Removal
  <2>2. \A n \in network' : n \in network \/ n.handle = m.handle
    BY <1>2, <2>1 DEF ServerRemoves, Message
  <2>3. /\ \A k \in Handles : k = m.handle \/ remote'[k] = remote[k]
        /\ remote'[m.handle] = (IF ReuseHandles THEN NoInst ELSE Retired)
        /\ handle' = handle
    BY <1>2, <2>1, <1>0 DEF ServerRemoves, TypeOK, groupVars
  <2>4. QED
    BY <2>1, <2>2, <2>3, <1>0, SessionAssumption DEF Confirmed
<1>3. ASSUME NEW p \in Actors, GroupAdded(p)
      PROVE  Confirmed'
  <2>1. PICK a \in network : /\ a.type = "Added" /\ a.inst = cur[p]
                             /\ handle' = [handle EXCEPT ![cur[p]] = a.handle]
                             /\ network' = network \ {a}
    BY <1>3 DEF GroupAdded
  <2>2. pc[p] = "adding" /\ p \in Callers /\ cur[p] \in Inst /\ UNCHANGED remote
    BY <1>3, <1>0 DEF GroupAdded, Shape, WithGroup, Actors
  <2>3. ~Sweeping
    BY <2>2, <1>0, CreatorNotSwept
  <2>4. SUFFICES ASSUME NEW m \in network, m.type = "Removed", NEW g \in Inst,
                        remote[m.handle] = g
                 PROVE  handle'[g] = NoHandle
    BY <2>1, <2>2, <1>0 DEF Confirmed
  <2>5. handle[g] = NoHandle
    BY <2>4, <1>0 DEF Confirmed
  <2>6. ReuseHandles # FALSE
    BY <2>4, <1>0, SessionAssumption DEF Confirmed
  <2>7. m.by = Closer \/ m.by = p
    BY <2>2, <2>6, <1>0 DEF HandlesUnshared, TypeOK, Message, Actors
  <2>8. FALSE
    BY <2>2, <2>3, <2>4, <2>7, <1>0 DEF Pending
  <2>9. QED
    BY <2>8
<1>4. CASE ~(\E m \in network : ServerRemoves(m) \/ \E h \in Handles : ServerAdds(m, h))
           /\ ~\E p \in Actors : GroupAdded(p)
  BY <1>4, <1>0, ClientSteps, OnlyGroupAdded DEF Confirmed
<1>5. QED
  BY <1>1, <1>2, <1>3, <1>4

\* A handle is learnt from the reply that names the group's only handle.
LEMMA NamedKept ==
    ASSUME CleanInv, [Next]_vars
    PROVE  Named'
<1>0. TypeOK /\ Creation /\ Named
  BY DEF CleanInv, ServerInv, IInv
<1>1. ASSUME NEW m \in network, NEW h \in Handles, ServerAdds(m, h)
      PROVE  Named'
  BY <1>1, <1>0, SessionAssumption DEF ServerAdds, groupVars, TypeOK, Creation, Named
<1>2. ASSUME NEW m \in network, ServerRemoves(m)
      PROVE  Named'
  BY <1>2, <1>0, SessionAssumption DEF ServerRemoves, groupVars, TypeOK, Named
<1>3. ASSUME NEW p \in Actors, GroupAdded(p)
      PROVE  Named'
  BY <1>3, <1>0 DEF GroupAdded, TypeOK, Creation, Named
<1>4. CASE UNCHANGED <<handle, remote>>
  BY <1>4, <1>0 DEF Named
<1>5. CASE (~\E m \in network : ServerRemoves(m) \/ \E h \in Handles : ServerAdds(m, h))
            /\ ~\E p \in Actors : GroupAdded(p)
  <2>1. UNCHANGED remote
    BY <1>5, <1>0, ClientSteps
  <2>2. UNCHANGED handle
    BY <1>5, OnlyGroupAdded
  <2>3. QED
    BY <2>1, <2>2, <1>4
<1>6. QED
  BY <1>1, <1>2, <1>3, <1>5

-----------------------------------------------------------------------------
\* The group of a single-item call is made temporary when the call is admitted.
LEMMA TemporariesKept ==
    ASSUME CleanInv, [Next]_vars
    PROVE  Temporaries'
<1>0. TypeOK /\ Shape /\ Ownership /\ Creation /\ Temporaries
  BY DEF CleanInv, ServerInv, IInv
<1>1. ASSUME NEW p \in Actors, Refuse(p)
      PROVE  Temporaries'
  BY <1>1, <1>0, SessionAssumption DEF Refuse, Finish, FinishFrame, serverVars, Goto,
     Temporaries, Creating
<1>2. ASSUME NEW p \in Actors, Admit(p)
      PROVE  Temporaries'
  BY <1>2, <1>0, SessionAssumption DEF Admit, Goto, closeVars, serverVars, Temporaries,
     Creating, TypeOK, Shape, Actors
<1>3. ASSUME NEW p \in Actors, SendAddGroup(p)
      PROVE  Temporaries'
  BY <1>3, <1>0, SessionAssumption DEF SendAddGroup, Goto, Send, AddRequest, sessionVars,
     groupVars, closeVars, Temporaries, Creating, TypeOK
<1>4. ASSUME NEW p \in Actors, GroupAdded(p)
      PROVE  Temporaries'
  BY <1>4, <1>0, SessionAssumption DEF GroupAdded, Goto, sessionVars, closeVars, Temporaries,
     Creating
<1>5. ASSUME NEW p \in Actors, AddFailed(p)
      PROVE  Temporaries'
  BY <1>5, <1>0, SessionAssumption DEF AddFailed, Goto, sessionVars, groupVars, closeVars,
     Temporaries, Creating
<1>6. ASSUME NEW p \in Actors, Setup(p)
      PROVE  Temporaries'
  BY <1>6, <1>0, SessionAssumption DEF Setup, Goto, sessionVars, closeVars, serverVars,
     Temporaries, Creating, TypeOK
<1>7. ASSUME NEW p \in Actors, Register(p)
      PROVE  Temporaries'
  BY <1>7, <1>0, SessionAssumption DEF Register, Finish, serverVars, Goto, Temporaries,
     Creating
<1>8. ASSUME NEW p \in Actors, Unregistered(p)
      PROVE  Temporaries'
  BY <1>8, <1>0, SessionAssumption DEF Unregistered, Goto, sessionVars, groupVars, closeVars,
     serverVars, Temporaries, Creating
<1>9. ASSUME NEW p \in Actors, Lookup(p)
      PROVE  Temporaries'
  BY <1>9, <1>0, SessionAssumption DEF Lookup, Goto, sessionVars, groupVars, closeVars,
     serverVars, Temporaries, Creating
<1>10. ASSUME NEW p \in Actors, LookupFailed(p)
      PROVE  Temporaries'
  BY <1>10, <1>0, SessionAssumption DEF LookupFailed, Finish, FinishFrame, serverVars, Goto,
     Temporaries, Creating
<1>11. ASSUME NEW p \in Actors, Acquire(p)
      PROVE  Temporaries'
  BY <1>11, <1>0, SessionAssumption DEF Acquire, Goto, sessionVars, closeVars, serverVars,
     Temporaries, Creating
<1>12. ASSUME NEW p \in Actors, AcquireFailed(p)
      PROVE  Temporaries'
  BY <1>12, <1>0, SessionAssumption DEF AcquireFailed, Finish, FinishFrame, serverVars, Goto,
     Temporaries, Creating
<1>13. ASSUME NEW p \in Actors, EndCall(p)
      PROVE  Temporaries'
  BY <1>13, <1>0, SessionAssumption DEF EndCall, Finish, FinishFrame, serverVars, Goto,
     Temporaries, Creating
<1>14. ASSUME NEW p \in Actors, MarkRemoved(p)
      PROVE  Temporaries'
  BY <1>14, <1>0, SessionAssumption DEF MarkRemoved, Goto, closeVars, serverVars, Temporaries,
     Creating, Shape
<1>15. ASSUME NEW p \in Actors, Dispose(p)
      PROVE  Temporaries'
  BY <1>15, <1>0, SessionAssumption DEF Dispose, Goto, Send, RemoveRequest, sessionVars,
     closeVars, Temporaries, Creating
<1>16. ASSUME NEW p \in Actors, DisposeUncreated(p)
      PROVE  Temporaries'
  BY <1>16, <1>0, SessionAssumption DEF DisposeUncreated, Finish, FinishFrame, serverVars,
     Goto, Temporaries, Creating, TypeOK
<1>17. ASSUME NEW p \in Actors, RemoveAcked(p)
      PROVE  Temporaries'
  BY <1>17, <1>0, SessionAssumption DEF RemoveAcked, Finish, FinishFrame, Removed, Goto,
     Temporaries, Creating, TypeOK
<1>18. ASSUME NEW p \in Actors, RemoveFailed(p)
      PROVE  Temporaries'
  BY <1>18, <1>0, SessionAssumption DEF RemoveFailed, Finish, FinishFrame, Removed, Goto,
     Temporaries, Creating, TypeOK
<1>19. CASE Close
  BY <1>19, <1>0, SessionAssumption DEF Close, Goto, sessionVars, groupVars, closeVars,
     serverVars, Temporaries, Creating
<1>20. CASE MarkClosed
  BY <1>20, <1>0, SessionAssumption DEF MarkClosed, Goto, groupVars, closeVars, serverVars,
     Temporaries, Creating
<1>21. CASE Drained
  BY <1>21, <1>0, SessionAssumption DEF Drained, Goto, sessionVars, groupVars, serverVars,
     Temporaries, Creating
<1>22. CASE DrainTimeout
  BY <1>22, <1>0, SessionAssumption DEF DrainTimeout, Goto, sessionVars, groupVars, serverVars,
     Temporaries, Creating
<1>23. CASE RetryReturns
  BY <1>23, <1>0, SessionAssumption DEF RetryReturns, Goto, Removed, sessionVars, groupVars,
     Temporaries, Creating
<1>24. CASE ReleaseServerReference
  BY <1>24, <1>0, SessionAssumption DEF ReleaseServerReference, Goto, sessionVars, groupVars,
     Temporaries, Creating
<1>25. CASE Disconnect
  BY <1>25, <1>0, SessionAssumption DEF Disconnect, Goto, groupVars, serverVars, Temporaries,
     Creating
<1>26. CASE Teardown
  BY <1>26, <1>0, SessionAssumption DEF Teardown, groupVars, actorVars, serverVars,
     Temporaries, Creating
<1>27. ASSUME NEW h \in Handles, RetryRemoval(h)
      PROVE  Temporaries'
  BY <1>27, <1>0, SessionAssumption DEF RetryRemoval, Goto, Send, RemoveRequest, sessionVars,
     groupVars, Temporaries, Creating
<1>28. ASSUME NEW i \in GroupIDs, SweepGroup(i)
      PROVE  Temporaries'
  BY <1>28, <1>0, SessionAssumption DEF SweepGroup, Goto, sessionVars, groupVars, serverVars,
     Temporaries, Creating
<1>29. ASSUME NEW p \in Callers, NEW o \in Ops, NEW i \in 0..MaxGroupID, Start(p, o, i)
      PROVE  Temporaries'
  BY <1>29, <1>0, SessionAssumption DEF Start, Goto, SessionClosed, sessionVars, groupVars,
     closeVars, serverVars, Temporaries, Creating
<1>30. ASSUME NEW p \in Actors, Cancel(p)
      PROVE  Temporaries'
  BY <1>30, <1>0, SessionAssumption DEF Cancel, sessionVars, groupVars, closeVars, serverVars,
     Temporaries, Creating
<1>31. ASSUME NEW m \in network, NEW h \in Handles, ServerAdds(m, h)
      PROVE  Temporaries'
  BY <1>31, <1>0, SessionAssumption DEF ServerAdds, Awaited, sessionVars, groupVars, actorVars,
     closeVars, Temporaries, Creating
<1>32. ASSUME NEW m \in network, ServerRemoves(m)
      PROVE  Temporaries'
  BY <1>32, <1>0, SessionAssumption DEF ServerRemoves, Removed, Awaited, sessionVars,
     groupVars, actorVars, closeVars, Temporaries, Creating
<1>33. ASSUME NEW m \in network, ServerRejects(m)
      PROVE  Temporaries'
  BY <1>33, <1>0, SessionAssumption DEF ServerRejects, sessionVars, groupVars, actorVars,
     closeVars, Temporaries, Creating
<1>34. CASE UNCHANGED vars
  BY <1>34, <1>0 DEF Temporaries, Creating, vars, sessionVars, groupVars, actorVars, closeVars,
     serverVars
<1>35. QED
  BY <1>1, <1>2, <1>3, <1>4, <1>5, <1>6, <1>7, <1>8, <1>9, <1>10, <1>11, <1>12, <1>13, <1>14,
     <1>15, <1>16, <1>17, <1>18, <1>19, <1>20, <1>21, <1>22, <1>23, <1>24, <1>25, <1>26, <1>27,
     <1>28, <1>29, <1>30, <1>31, <1>32, <1>33, <1>34 DEF Next, Step, CloseStep, ServerStep,
     Terminated

-----------------------------------------------------------------------------
\* Close does not go on to disconnect before its retries are done, and what fails
\* is remembered.
LEMMA ResultsKept ==
    ASSUME CleanInv, [Next]_vars
    PROVE  Results'
<1>0. TypeOK /\ Shape /\ Phases /\ Results
  BY DEF CleanInv, ServerInv, IInv
<1>1. ASSUME NEW p \in Actors, Refuse(p)
      PROVE  Results'
  BY <1>1, <1>0, SessionAssumption DEF Refuse, Finish, FinishFrame, serverVars, Goto, Results,
     TypeOK
<1>2. ASSUME NEW p \in Actors, Admit(p)
      PROVE  Results'
  BY <1>2, <1>0, SessionAssumption DEF Admit, Goto, closeVars, serverVars, Results, TypeOK,
     Actors
<1>3. ASSUME NEW p \in Actors, SendAddGroup(p)
      PROVE  Results'
  BY <1>3, <1>0, SessionAssumption DEF SendAddGroup, Goto, Send, AddRequest, sessionVars,
     groupVars, closeVars, Results, TypeOK, Actors
<1>4. ASSUME NEW p \in Actors, GroupAdded(p)
      PROVE  Results'
  BY <1>4, <1>0, SessionAssumption DEF GroupAdded, Goto, sessionVars, closeVars, Results
<1>5. ASSUME NEW p \in Actors, AddFailed(p)
      PROVE  Results'
  BY <1>5, <1>0, SessionAssumption DEF AddFailed, Goto, sessionVars, groupVars, closeVars,
     Results
<1>6. ASSUME NEW p \in Actors, Setup(p)
      PROVE  Results'
  BY <1>6, <1>0, SessionAssumption DEF Setup, Goto, sessionVars, closeVars, serverVars,
     Results, TypeOK, Actors
<1>7. ASSUME NEW p \in Actors, Register(p)
      PROVE  Results'
  BY <1>7, <1>0, SessionAssumption DEF Register, Finish, serverVars, Goto, Results, TypeOK
<1>8. ASSUME NEW p \in Actors, Unregistered(p)
      PROVE  Results'
  BY <1>8, <1>0, SessionAssumption DEF Unregistered, Goto, sessionVars, groupVars, closeVars,
     serverVars, Results
<1>9. ASSUME NEW p \in Actors, Lookup(p)
      PROVE  Results'
  BY <1>9, <1>0, SessionAssumption DEF Lookup, Goto, sessionVars, groupVars, closeVars,
     serverVars, Results
<1>10. ASSUME NEW p \in Actors, LookupFailed(p)
      PROVE  Results'
  BY <1>10, <1>0, SessionAssumption DEF LookupFailed, Finish, FinishFrame, serverVars, Goto,
     Results, TypeOK
<1>11. ASSUME NEW p \in Actors, Acquire(p)
      PROVE  Results'
  BY <1>11, <1>0, SessionAssumption DEF Acquire, Goto, sessionVars, closeVars, serverVars,
     Results
<1>12. ASSUME NEW p \in Actors, AcquireFailed(p)
      PROVE  Results'
  BY <1>12, <1>0, SessionAssumption DEF AcquireFailed, Finish, FinishFrame, serverVars, Goto,
     Results, TypeOK
<1>13. ASSUME NEW p \in Actors, EndCall(p)
      PROVE  Results'
  BY <1>13, <1>0, SessionAssumption DEF EndCall, Finish, FinishFrame, serverVars, Goto,
     Results, TypeOK
<1>14. ASSUME NEW p \in Actors, MarkRemoved(p)
      PROVE  Results'
  BY <1>14, <1>0, SessionAssumption DEF MarkRemoved, Goto, closeVars, serverVars, Results
<1>15. ASSUME NEW p \in Actors, Dispose(p)
      PROVE  Results'
  BY <1>15, <1>0, SessionAssumption DEF Dispose, Goto, Send, RemoveRequest, sessionVars,
     closeVars, Results
<1>16. ASSUME NEW p \in Actors, DisposeUncreated(p)
      PROVE  Results'
  BY <1>16, <1>0, SessionAssumption DEF DisposeUncreated, Finish, FinishFrame, serverVars,
     Goto, Results, TypeOK
<1>17. ASSUME NEW p \in Actors, RemoveAcked(p)
      PROVE  Results'
  BY <1>17, <1>0, SessionAssumption DEF RemoveAcked, Finish, FinishFrame, Removed, Goto,
     Results, TypeOK
<1>18. ASSUME NEW p \in Actors, RemoveFailed(p)
      PROVE  Results'
  BY <1>18, <1>0, SessionAssumption DEF RemoveFailed, Finish, FinishFrame, Removed, Goto,
     Results, TypeOK
<1>19. CASE Close
  BY <1>19, <1>0, SessionAssumption DEF Close, Goto, sessionVars, groupVars, closeVars,
     serverVars, Results
<1>20. CASE MarkClosed
  BY <1>20, <1>0, SessionAssumption DEF MarkClosed, Goto, groupVars, closeVars, serverVars,
     Results
<1>21. CASE Drained
  BY <1>21, <1>0, SessionAssumption DEF Drained, Goto, sessionVars, groupVars, serverVars,
     Results
<1>22. CASE DrainTimeout
  BY <1>22, <1>0, SessionAssumption DEF DrainTimeout, Goto, sessionVars, groupVars, serverVars,
     Results
<1>23. CASE RetryReturns
  BY <1>23, <1>0, SessionAssumption DEF RetryReturns, Goto, Removed, sessionVars, groupVars,
     Results
<1>24. CASE ReleaseServerReference
  BY <1>24, <1>0, SessionAssumption DEF ReleaseServerReference, Goto, sessionVars, groupVars,
     Results
<1>25. CASE Disconnect
  BY <1>25, <1>0, SessionAssumption DEF Disconnect, Goto, groupVars, serverVars, Results
<1>26. CASE Teardown
  BY <1>26, <1>0, SessionAssumption DEF Teardown, groupVars, actorVars, serverVars, Results
<1>27. ASSUME NEW h \in Handles, RetryRemoval(h)
      PROVE  Results'
  BY <1>27, <1>0, SessionAssumption DEF RetryRemoval, Goto, Send, RemoveRequest, sessionVars,
     groupVars, Results
<1>28. ASSUME NEW i \in GroupIDs, SweepGroup(i)
      PROVE  Results'
  BY <1>28, <1>0, SessionAssumption DEF SweepGroup, Goto, sessionVars, groupVars, serverVars,
     Results
<1>29. ASSUME NEW p \in Callers, NEW o \in Ops, NEW i \in 0..MaxGroupID, Start(p, o, i)
      PROVE  Results'
  BY <1>29, <1>0, SessionAssumption DEF Start, Goto, SessionClosed, sessionVars, groupVars,
     closeVars, serverVars, Results
<1>30. ASSUME NEW p \in Actors, Cancel(p)
      PROVE  Results'
  BY <1>30, <1>0, SessionAssumption DEF Cancel, sessionVars, groupVars, closeVars, serverVars,
     Results
<1>31. ASSUME NEW m \in network, NEW h \in Handles, ServerAdds(m, h)
      PROVE  Results'
  BY <1>31, <1>0, SessionAssumption DEF ServerAdds, Awaited, sessionVars, groupVars, actorVars,
     closeVars, Results
<1>32. ASSUME NEW m \in network, ServerRemoves(m)
      PROVE  Results'
  BY <1>32, <1>0, SessionAssumption DEF ServerRemoves, Removed, Awaited, sessionVars,
     groupVars, actorVars, closeVars, Results
<1>33. ASSUME NEW m \in network, ServerRejects(m)
      PROVE  Results'
  BY <1>33, <1>0, SessionAssumption DEF ServerRejects, sessionVars, groupVars, actorVars,
     closeVars, Results
<1>34. CASE UNCHANGED vars
  BY <1>34, <1>0 DEF Results, vars, sessionVars, groupVars, actorVars, closeVars, serverVars
<1>35. QED
  BY <1>1, <1>2, <1>3, <1>4, <1>5, <1>6, <1>7, <1>8, <1>9, <1>10, <1>11, <1>12, <1>13, <1>14,
     <1>15, <1>16, <1>17, <1>18, <1>19, <1>20, <1>21, <1>22, <1>23, <1>24, <1>25, <1>26, <1>27,
     <1>28, <1>29, <1>30, <1>31, <1>32, <1>33, <1>34 DEF Next, Step, CloseStep, ServerStep,
     Terminated

-----------------------------------------------------------------------------
\* No orphan is lost sight of.
LEMMA AccountedKept ==
    ASSUME CleanInv, [Next]_vars
    PROVE  Accounted'
<1>0. /\ TypeOK /\ Shape /\ HandlesKnown /\ Ownership /\ Actions /\ Held /\ Phases
      /\ Creation /\ Kept /\ Confirmed /\ Temporaries /\ Results /\ Accounted
  BY DEF CleanInv, ServerInv, IInv
<1>1. ASSUME NEW p \in Actors, Refuse(p)
      PROVE  Accounted'
  BY <1>1, <1>0, SessionAssumption DEF Refuse, Finish, FinishFrame, serverVars, Goto,
     Accounted, Orphan, Sweeping, TypeOK
<1>2. ASSUME NEW p \in Actors, Admit(p)
      PROVE  Accounted'
  BY <1>2, <1>0, SessionAssumption DEF Admit, Goto, closeVars, serverVars, Accounted, Orphan,
     Sweeping, TypeOK, Actors
<1>3. ASSUME NEW p \in Actors, SendAddGroup(p)
      PROVE  Accounted'
  BY <1>3, <1>0, SessionAssumption DEF SendAddGroup, Goto, Send, AddRequest, sessionVars,
     groupVars, closeVars, Accounted, Orphan, Sweeping, TypeOK, Actors
<1>4. ASSUME NEW p \in Actors, GroupAdded(p)
      PROVE  Accounted'
  <2>1. \A g \in Inst : g = cur[p] \/ handle'[g] = handle[g]
    BY <1>4, <1>0 DEF GroupAdded, TypeOK
  <2>2. conns'[cur[p]] # "closed"
    BY <1>4, <1>0 DEF GroupAdded, Actions
  <2>3. /\ UNCHANGED <<kind, conns, remote, pendingRemovals, teardown, closeErr, todoPending,
                      retrying, cur>>
        /\ \A q \in Actors : q = p \/ pc'[q] = pc[q]
        /\ pc[p] = "adding" /\ p # Closer
    BY <1>4, <1>0 DEF GroupAdded, Goto, TypeOK, Shape, sessionVars, closeVars
  <2>4. \A g \in Inst : Orphan(g)' => Orphan(g)
    BY <2>1, <2>2, <2>3 DEF Orphan
  <2>5. Closer \in Actors
    BY DEF Actors
  <2>6. QED
    BY <2>1, <2>2, <2>3, <2>4, <2>5, <1>0 DEF Accounted, Sweeping, Orphan
<1>5. ASSUME NEW p \in Actors, AddFailed(p)
      PROVE  Accounted'
  BY <1>5, <1>0, SessionAssumption DEF AddFailed, Goto, sessionVars, groupVars, closeVars,
     Accounted, Orphan, Sweeping
<1>6. ASSUME NEW p \in Actors, Setup(p)
      PROVE  Accounted'
  BY <1>6, <1>0, SessionAssumption DEF Setup, Goto, sessionVars, closeVars, serverVars,
     Accounted, Orphan, Sweeping, TypeOK, Actors
<1>7. ASSUME NEW p \in Actors, Register(p)
      PROVE  Accounted'
  BY <1>7, <1>0, SessionAssumption DEF Register, Finish, serverVars, Goto, Accounted, Orphan,
     Sweeping, TypeOK
<1>8. ASSUME NEW p \in Actors, Unregistered(p)
      PROVE  Accounted'
  BY <1>8, <1>0, SessionAssumption DEF Unregistered, Goto, sessionVars, groupVars, closeVars,
     serverVars, Accounted, Orphan, Sweeping
<1>9. ASSUME NEW p \in Actors, Lookup(p)
      PROVE  Accounted'
  BY <1>9, <1>0, SessionAssumption DEF Lookup, Goto, sessionVars, groupVars, closeVars,
     serverVars, Accounted, Orphan, Sweeping
<1>10. ASSUME NEW p \in Actors, LookupFailed(p)
      PROVE  Accounted'
  BY <1>10, <1>0, SessionAssumption DEF LookupFailed, Finish, FinishFrame, serverVars, Goto,
     Accounted, Orphan, Sweeping, TypeOK
<1>11. ASSUME NEW p \in Actors, Acquire(p)
      PROVE  Accounted'
  BY <1>11, <1>0, SessionAssumption DEF Acquire, Goto, sessionVars, closeVars, serverVars,
     Accounted, Orphan, Sweeping
<1>12. ASSUME NEW p \in Actors, AcquireFailed(p)
      PROVE  Accounted'
  BY <1>12, <1>0, SessionAssumption DEF AcquireFailed, Finish, FinishFrame, serverVars, Goto,
     Accounted, Orphan, Sweeping, TypeOK
<1>13. ASSUME NEW p \in Actors, EndCall(p)
      PROVE  Accounted'
  BY <1>13, <1>0, SessionAssumption DEF EndCall, Finish, FinishFrame, serverVars, Goto,
     Accounted, Orphan, Sweeping, TypeOK
<1>14. ASSUME NEW p \in Actors, MarkRemoved(p)
      PROVE  Accounted'
  BY <1>14, <1>0, SessionAssumption DEF MarkRemoved, Goto, closeVars, serverVars, Accounted,
     Orphan, Sweeping
<1>15. ASSUME NEW p \in Actors, Dispose(p)
      PROVE  Accounted'
  BY <1>15, <1>0, SessionAssumption DEF Dispose, Goto, Send, RemoveRequest, sessionVars,
     closeVars, Accounted, Orphan, Sweeping, TypeOK
<1>16. ASSUME NEW p \in Actors, DisposeUncreated(p)
      PROVE  Accounted'
  BY <1>16, <1>0, SessionAssumption DEF DisposeUncreated, Finish, FinishFrame, serverVars,
     Goto, Accounted, Orphan, Sweeping, TypeOK
<1>17. ASSUME NEW p \in Actors, RemoveAcked(p)
      PROVE  Accounted'
  <2> DEFINE h == handle[cur[p]]
  <2>1. /\ UNCHANGED <<kind, conns, remote, handle, teardown, todoPending, retrying>>
        /\ pc[p] = "removing" /\ cur[p] \in Inst
        /\ \A q \in Actors : q = p \/ (pc'[q] = pc[q] /\ cur'[q] = cur[q])
        /\ p = Closer => pc'[p] = "sweep"
        /\ closeErr => closeErr'
    BY <1>17, <1>0 DEF RemoveAcked, Finish, FinishFrame, Goto, TypeOK, Shape, WithGroup
  <2>2. Closer \in Actors /\ (Sweeping' <=> Sweeping)
    BY <2>1, <1>0 DEF Sweeping, Phases, Actors
  <2>3. \A g \in Inst : Orphan(g)' = Orphan(g)
    BY <2>1 DEF Orphan
  <2>4. \A g \in Inst : remote[h] = g => handle[g] = NoHandle
    BY <1>17, <1>0 DEF RemoveAcked, Removed, Confirmed
  <2>5. \A g \in Inst : Orphan(g) => handle[g] # h /\ g # cur[p]
    BY <2>4 DEF Orphan
  <2>6. \A k \in pendingRemovals : k = h \/ k \in pendingRemovals'
    BY <1>17 DEF RemoveAcked
  <2> HIDE DEF h
  <2>7. SUFFICES ASSUME NEW g \in Inst, Orphan(g)
                 PROVE  \/ \E q \in Actors : pc'[q] = "removing" /\ cur'[q] = g
                        \/ ~Sweeping' /\ handle'[g] \in pendingRemovals'
                        \/ /\ Sweeping'
                           /\ \/ closeErr'
                              \/ handle'[g] \in todoPending'
                              \/ pc'[Closer] = "retrying" /\ retrying' = handle'[g]
    BY <2>3 DEF Accounted
  <2>8. CASE \E q \in Actors : pc[q] = "removing" /\ cur[q] = g
    BY <2>8, <2>7, <2>1, <2>5
  <2>9. CASE ~Sweeping /\ handle[g] \in pendingRemovals
    BY <2>9, <2>7, <2>1, <2>2, <2>5, <2>6
  <2>10. CASE /\ Sweeping
               /\ \/ closeErr
                  \/ handle[g] \in todoPending
                  \/ pc[Closer] = "retrying" /\ retrying = handle[g]
    BY <2>10, <2>1, <2>2
  <2>11. QED
    BY <2>7, <2>8, <2>9, <2>10, <1>0 DEF Accounted
<1>18. ASSUME NEW p \in Actors, RemoveFailed(p)
      PROVE  Accounted'
  <2> DEFINE h == handle[cur[p]]
  <2>1. /\ UNCHANGED <<kind, conns, remote, handle, teardown, todoPending, retrying>>
        /\ pc[p] = "removing" /\ cur[p] \in Inst
        /\ \A q \in Actors : q = p \/ (pc'[q] = pc[q] /\ cur'[q] = cur[q])
        /\ p = Closer => pc'[p] = "sweep"
        /\ closeErr => closeErr'
    BY <1>18, <1>0 DEF RemoveFailed, Finish, FinishFrame, Goto, TypeOK, Shape, WithGroup
  <2>2. Closer \in Actors /\ (Sweeping' <=> Sweeping)
    BY <2>1, <1>0 DEF Sweeping, Phases, Actors
  <2>3. \A g \in Inst : Orphan(g)' = Orphan(g)
    BY <2>1 DEF Orphan
  <2>4. \/ kind[cur[p]] = "temporary"
        \/ p = Closer /\ closeErr'
        \/ ~Sweeping /\ h \in pendingRemovals'
    <3>1. CASE op[p] = "object"
      BY <2>1, <3>1, <1>0 DEF Temporaries, Creating
    <3>2. CASE p = Closer
      BY <1>18, <3>2 DEF RemoveFailed, Finish
    <3>3. CASE op[p] # "object" /\ p # Closer
      <4>1. p \in groupOps
        BY <2>1, <3>3, <1>0 DEF Actions, Shape, Actors, WithGroup
      <4>2. h \in pendingRemovals'
        BY <1>18, <3>3 DEF RemoveFailed
      <4>3. QED
        BY <4>1, <4>2, <1>0 DEF Phases
    <3>4. QED
      BY <3>1, <3>2, <3>3
  <2>5. pendingRemovals \subseteq pendingRemovals'
    BY <1>18 DEF RemoveFailed
  <2>6. p = Closer => Sweeping
    BY <2>1, <1>0 DEF Sweeping, Phases
  <2>7. SUFFICES ASSUME NEW g \in Inst, Orphan(g)
                 PROVE  \/ \E q \in Actors : pc'[q] = "removing" /\ cur'[q] = g
                        \/ ~Sweeping' /\ handle'[g] \in pendingRemovals'
                        \/ /\ Sweeping'
                           /\ \/ closeErr'
                              \/ handle'[g] \in todoPending'
                              \/ pc'[Closer] = "retrying" /\ retrying' = handle'[g]
    BY <2>3 DEF Accounted
  <2>8. CASE g = cur[p]
    BY <2>8, <2>7, <2>1, <2>2, <2>4, <2>6 DEF Orphan
  <2>9. CASE g # cur[p] /\ \E q \in Actors : pc[q] = "removing" /\ cur[q] = g
    BY <2>9, <2>1
  <2>10. CASE ~Sweeping /\ handle[g] \in pendingRemovals
    BY <2>10, <2>1, <2>2, <2>5
  <2>11. CASE /\ Sweeping
               /\ \/ closeErr
                  \/ handle[g] \in todoPending
                  \/ pc[Closer] = "retrying" /\ retrying = handle[g]
    BY <2>11, <2>1, <2>2
  <2>12. QED
    BY <2>7, <2>8, <2>9, <2>10, <2>11, <1>0 DEF Accounted
<1>19. CASE Close
  BY <1>19, <1>0, SessionAssumption DEF Close, Goto, sessionVars, groupVars, closeVars,
     serverVars, Accounted, Orphan, Sweeping
<1>20. CASE MarkClosed
  BY <1>20, <1>0, SessionAssumption DEF MarkClosed, Goto, groupVars, closeVars, serverVars,
     Accounted, Orphan, Sweeping
<1>21. CASE Drained
  <2> DEFINE live == {i \in GroupIDs : groups[i] # NoInst}
  <2>1. /\ UNCHANGED <<kind, conns, remote, handle, cur, pendingRemovals, teardown>>
        /\ pc[Closer] = "drain" /\ groupOps = {} /\ pc'[Closer] = "sweep"
        /\ todoPending' = pendingRemovals \ {handle[groups[i]] : i \in live}
    BY <1>21, <1>0 DEF Drained, Goto, TypeOK, Actors, sessionVars, groupVars, serverVars
  <2>2. ~Sweeping /\ Sweeping'
    BY <2>1, <1>0 DEF Sweeping, Phases
  <2>3. \A p \in Actors : pc[p] # "removing"
    BY <2>1, <1>0 DEF Actions, Shape, Actors, WithGroup
  <2>4. ASSUME NEW g \in Inst, Orphan(g)
        PROVE  handle[g] \in todoPending'
    <3>1. handle[g] \in pendingRemovals
      BY <2>2, <2>3, <2>4, <1>0 DEF Accounted
    <3>2. ASSUME NEW i \in live PROVE handle[groups[i]] # handle[g]
      <4>1. groups[i] \in Inst /\ Live(groups[i])
        BY <1>0 DEF TypeOK, Ownership, Held, Live
      <4>2. remote[handle[groups[i]]] = groups[i]
        BY <4>1, <1>0 DEF Kept
      <4>3. QED
        BY <4>1, <4>2, <2>4 DEF Orphan, Live
    <3>3. QED
      BY <2>1, <3>1, <3>2
  <2>5. \A g \in Inst : Orphan(g)' => Orphan(g)
    BY <2>1 DEF Orphan
  <2>6. QED
    BY <2>1, <2>2, <2>4, <2>5 DEF Accounted
<1>22. CASE DrainTimeout
  BY <1>22, <1>0, SessionAssumption DEF DrainTimeout, Goto, sessionVars, groupVars, serverVars,
     Accounted, Orphan, Sweeping
<1>23. CASE RetryReturns
  <2>1. /\ UNCHANGED <<kind, conns, remote, handle, cur, pendingRemovals, teardown, todoPending>>
        /\ pc[Closer] = "retrying" /\ pc'[Closer] = "sweep"
        /\ \A q \in Actors : q = Closer \/ pc'[q] = pc[q]
        /\ closeErr => closeErr'
    BY <1>23, <1>0 DEF RetryReturns, Goto, TypeOK, Actors, sessionVars, groupVars
  <2>2. Sweeping /\ Sweeping' /\ Closer \in Actors
    BY <2>1, <1>0 DEF Sweeping, Phases, Actors
  <2>3. closeErr' \/ \A g \in Inst : remote[retrying] = g => handle[g] = NoHandle
    BY <1>23, <1>0 DEF RetryReturns, Removed, Confirmed
  <2>4. \A g \in Inst : Orphan(g)' => Orphan(g) /\ (handle[g] = retrying => closeErr')
    BY <2>1, <2>3 DEF Orphan
  <2>5. QED
    BY <2>1, <2>2, <2>3, <2>4, <1>0 DEF Accounted
<1>24. CASE ReleaseServerReference
  BY <1>24, <1>0, SessionAssumption DEF ReleaseServerReference, Goto, sessionVars, groupVars,
     Accounted, Orphan, Sweeping
<1>25. CASE Disconnect
  BY <1>25, <1>0, SessionAssumption DEF Disconnect, Goto, groupVars, serverVars, Accounted,
     Orphan, Sweeping, TypeOK, Actors
<1>26. CASE Teardown
  BY <1>26, <1>0, SessionAssumption DEF Teardown, groupVars, actorVars, serverVars, Accounted,
     Orphan, Sweeping
<1>27. ASSUME NEW h \in Handles, RetryRemoval(h)
      PROVE  Accounted'
  BY <1>27, <1>0, SessionAssumption DEF RetryRemoval, Goto, Send, RemoveRequest, sessionVars,
     groupVars, Accounted, Orphan, Sweeping, TypeOK, Actors
<1>28. ASSUME NEW i \in GroupIDs, SweepGroup(i)
      PROVE  Accounted'
  BY <1>28, <1>0, SessionAssumption DEF SweepGroup, Goto, sessionVars, groupVars, serverVars,
     Accounted, Orphan, Sweeping
<1>29. ASSUME NEW p \in Callers, NEW o \in Ops, NEW i \in 0..MaxGroupID, Start(p, o, i)
      PROVE  Accounted'
  BY <1>29, <1>0, SessionAssumption DEF Start, Goto, SessionClosed, sessionVars, groupVars,
     closeVars, serverVars, Accounted, Orphan, Sweeping
<1>30. ASSUME NEW p \in Actors, Cancel(p)
      PROVE  Accounted'
  BY <1>30, <1>0, SessionAssumption DEF Cancel, sessionVars, groupVars, closeVars, serverVars,
     Accounted, Orphan, Sweeping
<1>31. ASSUME NEW m \in network, NEW h \in Handles, ServerAdds(m, h)
      PROVE  Accounted'
  <2>1. /\ UNCHANGED <<kind, conns, handle, cur, pc, pendingRemovals, teardown, todoPending,
                      closeErr, retrying>>
        /\ handle[m.inst] = NoHandle
        /\ \A k \in Handles : k = h \/ remote'[k] = remote[k]
        /\ remote'[h] = m.inst
    BY <1>31, <1>0 DEF ServerAdds, TypeOK, Creation, sessionVars, groupVars, actorVars, closeVars
  <2>2. \A g \in Inst : Orphan(g)' => Orphan(g)
    BY <2>1, <1>0 DEF Orphan, TypeOK
  <2>3. QED
    BY <2>1, <2>2, <1>0 DEF Accounted, Sweeping
<1>32. ASSUME NEW m \in network, ServerRemoves(m)
      PROVE  Accounted'
  BY <1>32, <1>0, SessionAssumption DEF ServerRemoves, Removed, Awaited, sessionVars,
     groupVars, actorVars, closeVars, Accounted, Orphan, Sweeping
<1>33. ASSUME NEW m \in network, ServerRejects(m)
      PROVE  Accounted'
  BY <1>33, <1>0, SessionAssumption DEF ServerRejects, sessionVars, groupVars, actorVars,
     closeVars, Accounted, Orphan, Sweeping
<1>34. CASE UNCHANGED vars
  BY <1>34, <1>0 DEF Accounted, Orphan, Sweeping, vars, sessionVars, groupVars, actorVars,
     closeVars, serverVars
<1>35. QED
  BY <1>1, <1>2, <1>3, <1>4, <1>5, <1>6, <1>7, <1>8, <1>9, <1>10, <1>11, <1>12, <1>13, <1>14,
     <1>15, <1>16, <1>17, <1>18, <1>19, <1>20, <1>21, <1>22, <1>23, <1>24, <1>25, <1>26, <1>27,
     <1>28, <1>29, <1>30, <1>31, <1>32, <1>33, <1>34 DEF Next, Step, CloseStep, ServerStep,
     Terminated

-----------------------------------------------------------------------------
(* Theorem *)

\* On a server that does not reissue handles, or with a single caller beside
\* Close, Close returns nil only when it has released the reference and no
\* persistent group the client knew is left: admitted operations, failed
\* creations, failed removals and retries included.
THEOREM CloseCleans == HandlesUnshared => (Spec => []CloseNilMeansClean)
<1> SUFFICES ASSUME HandlesUnshared PROVE Spec => []CloseNilMeansClean
  OBVIOUS
<1>1. Init => CleanInv
  <2> SUFFICES ASSUME Init PROVE CleanInv
    OBVIOUS
  <2>1. ServerInv
    BY InitServerInv
  <2>2. Pending /\ Confirmed /\ Named /\ Temporaries /\ Results /\ Accounted
    BY SessionAssumption DEF Init, Pending, Confirmed, Named, Temporaries, Creating, Results,
       Accounted, Orphan, Actors
  <2>3. QED
    BY <2>1, <2>2 DEF CleanInv
<1>2. CleanInv /\ [Next]_vars => CleanInv'
  <2> SUFFICES ASSUME CleanInv, [Next]_vars PROVE CleanInv'
    OBVIOUS
  <2>1. ServerInv'
    BY StepServerInv DEF CleanInv
  <2>2. QED
    BY <2>1, PendingKept, ConfirmedKept, NamedKept, TemporariesKept, ResultsKept, AccountedKept
       DEF CleanInv
<1>3. CleanInv => CloseNilMeansClean
  <2> SUFFICES ASSUME CleanInv, pc[Closer] = "done", ~closeErr
               PROVE  /\ refReleased
                      /\ \A h \in Handles :
                            remote[h] \in Inst => \/ kind[remote[h]] = "temporary"
                                                  \/ handle[remote[h]] = NoHandle
    BY DEF CloseNilMeansClean
  <2>0. TypeOK /\ Shape /\ Actions /\ Held /\ Phases /\ Named /\ Results /\ Accounted
    BY DEF CleanInv, ServerInv, IInv
  <2>1. refReleased /\ todoPending = {} /\ teardown = "none" /\ Sweeping /\ groupOps = {}
    BY <2>0 DEF Results, Phases, Sweeping
  <2>2. \A p \in Actors : pc[p] \notin {"setup", "ready", "dispose", "removing"}
    BY <2>0, <2>1 DEF Actions, Shape, Actors, WithGroup
  <2>3. \A i \in GroupIDs : groups[i] = NoInst
    BY <2>0, <2>1 DEF Phases
  <2>4. ASSUME NEW h \in Handles, remote[h] \in Inst, handle[remote[h]] # NoHandle
        PROVE  kind[remote[h]] = "temporary"
    <3>1. handle[remote[h]] = h
      BY <2>0, <2>4 DEF Named
    <3>2. conns[remote[h]] = "closed"
      BY <2>0, <2>2, <2>3, <2>4, SessionAssumption DEF Held, Live
    <3>3. ~Orphan(remote[h])
      BY <2>0, <2>1, <2>2, <2>4 DEF Accounted
    <3>4. QED
      BY <3>1, <3>2, <3>3, <2>4 DEF Orphan
  <2>5. QED
    BY <2>1, <2>4
<1>4. QED
  BY <1>1, <1>2, <1>3, PTL DEF Spec
=============================================================================
