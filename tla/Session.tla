------------------------------ MODULE Session ------------------------------
(***************************************************************************)
(* A DCOM session (dcomConn): persistent groups and the temporary groups   *)
(* of single-item calls are created, used and removed by concurrent        *)
(* callers while one more actor closes the session (Server.Close and       *)
(* closeContext).  The OPC server is part of the state: it executes        *)
(* AddGroup and RemoveGroup requests in its own time, its replies can be   *)
(* lost, and it hands the handle of a removed group to a later one.        *)
(*                                                                         *)
(* An Inst is one persistentGroup value of the client together with the    *)
(* server-side group made for it.  What is not here: the ping set          *)
(* (module Keepalive), and the items of a group and the outcome of a write *)
(* batch (module GroupItems); an operation under the gate is one RPC here. *)
(***************************************************************************)
EXTENDS Naturals, FiniteSets

CONSTANTS
    Callers,        \* goroutines using the session
    Closer,         \* the goroutine that runs Server.Close
    Inst,           \* group instances: bounds how many AddGroup calls are sent
    Handles,        \* server group handles
    MaxGroupID,     \* math.MaxInt: where registerGroup refuses an identity
    ReuseHandles,   \* may the server reissue the handle of a removed group?
    NoInst, NoHandle, NoOne, Retired

ASSUME SessionAssumption ==
    /\ Closer \notin Callers
    /\ NoInst \notin Inst
    /\ Retired \notin Inst \cup {NoInst}
    /\ NoHandle \notin Handles
    /\ NoOne \notin Callers \cup {Closer}
    /\ MaxGroupID \in Nat \ {0}
    /\ ReuseHandles \in BOOLEAN

VARIABLES
    \* the session object, dcomConn
    closed, groupOps, nextGroupID, groups, pendingRemovals, serverConn, rpcCtx,
    \* the group objects, persistentGroup
    kind, handle, gate, gclosed, conns,
    \* the goroutines
    pc, op, cur, target, canceled,
    \* the goroutine in closeContext and the one it may leave behind
    todoPending, todoIDs, retrying, closeErr, teardown,
    \* the OPC server and the transport to it
    remote, network, refReleased

sessionVars == <<closed, groupOps, nextGroupID, groups, pendingRemovals, serverConn,
                 rpcCtx>>
groupVars   == <<kind, handle, gate, gclosed, conns>>
actorVars   == <<pc, op, cur, target, canceled>>
closeVars   == <<todoPending, todoIDs, retrying, closeErr, teardown>>
serverVars  == <<remote, network, refReleased>>
vars == <<sessionVars, groupVars, actorVars, closeVars, serverVars>>

Actors   == Callers \cup {Closer}
GroupIDs == 1..MaxGroupID
Ops      == {"add", "object", "remove", "call"}
PCs      == {"idle", "begin", "open", "adding", "setup", "ready",
             "lookup", "gate", "held", "call", "dispose", "removing",
             "marking", "drain", "sweep", "retrying", "disconnect", "done"}
Message  == [type   : {"AddGroup", "Added", "RemoveGroup", "Removed"},
             by     : Actors,
             inst   : Inst \cup {NoInst},
             handle : Handles \cup {NoHandle}]

\* One type invariant: the shape of every variable.
TypeOK ==
    /\ closed \in BOOLEAN
    /\ groupOps \subseteq Callers
    /\ nextGroupID \in 0..MaxGroupID
    /\ groups \in [GroupIDs -> Inst \cup {NoInst}]
    /\ pendingRemovals \subseteq Handles
    /\ serverConn \in {"open", "closed"}
    /\ rpcCtx \in {"live", "canceled"}
    /\ kind \in [Inst -> {"unused", "persistent", "temporary"}]
    /\ handle \in [Inst -> Handles \cup {NoHandle}]
    /\ gate \in [Inst -> Actors \cup {NoOne}]
    /\ gclosed \in [Inst -> BOOLEAN]
    /\ conns \in [Inst -> {"none", "open", "closed"}]
    /\ pc \in [Actors -> PCs]
    /\ op \in [Actors -> Ops]
    /\ cur \in [Actors -> Inst \cup {NoInst}]
    /\ target \in [Actors -> 0..MaxGroupID]
    /\ canceled \subseteq Actors
    /\ todoPending \subseteq Handles
    /\ todoIDs \subseteq GroupIDs
    /\ retrying \in Handles \cup {NoHandle}
    /\ closeErr \in BOOLEAN
    /\ teardown \in {"none", "waiting", "done"}
    /\ remote \in [Handles -> Inst \cup {NoInst, Retired}]
    /\ network \subseteq Message
    /\ refReleased \in BOOLEAN

Init ==
    /\ closed = FALSE /\ groupOps = {} /\ nextGroupID = 0
    /\ groups = [i \in GroupIDs |-> NoInst]
    /\ pendingRemovals = {} /\ serverConn = "open" /\ rpcCtx = "live"
    /\ kind = [g \in Inst |-> "unused"]
    /\ handle = [g \in Inst |-> NoHandle]
    /\ gate = [g \in Inst |-> NoOne]
    /\ gclosed = [g \in Inst |-> FALSE]
    /\ conns = [g \in Inst |-> "none"]
    /\ pc = [p \in Actors |-> "idle"]
    /\ op = [p \in Actors |-> "call"]
    /\ cur = [p \in Actors |-> NoInst]
    /\ target = [p \in Actors |-> 0]
    /\ canceled = {}
    /\ todoPending = {} /\ todoIDs = {} /\ retrying = NoHandle
    /\ closeErr = FALSE /\ teardown = "none"
    /\ remote = [h \in Handles |-> NoInst]
    /\ network = {} /\ refReleased = FALSE

-----------------------------------------------------------------------------
(* Helpers *)

\* Server.closed: set by the first Close before anything else.
SessionClosed == pc[Closer] # "idle"

Goto(p, l) == pc' = [pc EXCEPT ![p] = l]

\* Mutant: a return path without groupOps.Done.
FinishWithoutDone(p, failed) ==
    /\ Goto(p, IF p = Closer THEN "sweep" ELSE "idle")
    /\ cur' = [cur EXCEPT ![p] = NoInst]
    /\ gate' = [g \in Inst |-> IF gate[g] = p THEN NoOne ELSE gate[g]]
    /\ closeErr' = (closeErr \/ (p = Closer /\ failed))
    /\ UNCHANGED groupOps

\* The operation of p returns: groupOps.Done and gate release are deferred, so
\* they happen on every return.  The closer goes on with its next clean-up.
Finish(p, failed) ==
    /\ Goto(p, IF p = Closer THEN "sweep" ELSE "idle")
    /\ cur' = [cur EXCEPT ![p] = NoInst]
    /\ groupOps' = groupOps \ {p}
    /\ gate' = [g \in Inst |-> IF gate[g] = p THEN NoOne ELSE gate[g]]
    /\ closeErr' = (closeErr \/ (p = Closer /\ failed))

FinishFrame == <<closed, nextGroupID, groups, serverConn, rpcCtx, kind, handle,
                 gclosed, op, target, canceled, todoPending, todoIDs, retrying, teardown>>

AddRequest(p) ==
    [type |-> "AddGroup", by |-> p, inst |-> cur[p], handle |-> NoHandle]
RemoveRequest(p, h) ==
    [type |-> "RemoveGroup", by |-> p, inst |-> cur[p], handle |-> h]
Removed(p, h) ==
    [type |-> "Removed", by |-> p, inst |-> cur[p], handle |-> h]

\* invokeDCOM on the server's transport.  The request leaves, or the call fails
\* before it does: its context is over, or the transport is.  While the transport
\* follows a context that has ended (rpcCtx), either may still be the case.
Send(m) == network' \in {network \cup {m}, network}

\* Is the sender of request m still waiting for the reply?
Awaited(m) ==
    /\ cur[m.by] = m.inst
    /\ pc[m.by] \in {"adding", "removing", "retrying"}

-----------------------------------------------------------------------------
(* Starting an operation *)

\* Server.operationContext and operationError, Group.*: a new context, and
\* ErrClosed once Server.closed is set.  i is the identity of a Group value the
\* program was given, by now possibly removed.
Start(p, o, i) ==
    /\ pc[p] = "idle" /\ ~SessionClosed
    /\ i \in IF o \in {"remove", "call"} THEN 1..nextGroupID ELSE {0}
    /\ op' = [op EXCEPT ![p] = o]
    /\ target' = [target EXCEPT ![p] = i]
    /\ canceled' = canceled \ {p}
    /\ Goto(p, IF o = "call" THEN "lookup" ELSE "begin")
    /\ UNCHANGED <<cur, sessionVars, groupVars, closeVars, serverVars>>

\* The operation context of p ends: its own deadline or cancel, or the
\* AfterFunc of Server.cancel; for the closer, the context given to Close.
Cancel(p) ==
    /\ pc[p] \notin {"idle", "done"} /\ p \notin canceled
    /\ canceled' = canceled \cup {p}
    /\ UNCHANGED <<pc, op, cur, target, sessionVars, groupVars, closeVars, serverVars>>

\* Early returns before admission: ErrClosed, a canceled context, a latched
\* keepalive error or an invalid argument.
Refuse(p) ==
    /\ pc[p] = "begin"
    /\ Finish(p, TRUE)
    /\ UNCHANGED <<pendingRemovals, conns, serverVars, FinishFrame>>

\* groupOps.Add under groupsMu, with closed read in the same critical section.
\* A creation also makes its group object, not yet known to anyone else.
Admit(p) ==
    /\ pc[p] = "begin" /\ ~closed
    /\ groupOps' = groupOps \cup {p}
    /\ \/ /\ op[p] = "remove"
          /\ Goto(p, "lookup")
          /\ UNCHANGED <<cur, kind>>
       \/ \E g \in Inst :
             /\ op[p] \in {"add", "object"} /\ kind[g] = "unused"
             /\ kind' = [kind EXCEPT ![g] = IF op[p] = "add" THEN "persistent"
                                                             ELSE "temporary"]
             /\ cur' = [cur EXCEPT ![p] = g]
             /\ Goto(p, "open")
    /\ UNCHANGED <<closed, nextGroupID, groups, pendingRemovals, serverConn,
                   rpcCtx, handle, gate, gclosed, conns, op, target, canceled,
                   closeVars, serverVars>>

-----------------------------------------------------------------------------
(* Creating a group: openPersistentGroup, withSingleItem *)

\* The transport for IRemUnknown is bound, for as long as the session's RPC
\* context lives, and AddGroup sent; or either fails and the deferred clean-up
\* runs with nothing created.
SendAddGroup(p) ==
    /\ pc[p] = "open"
    /\ \/ rpcCtx = "live" /\ Goto(p, "adding") /\ Send(AddRequest(p))
       \/ Goto(p, "dispose") /\ UNCHANGED network
    /\ UNCHANGED <<op, cur, target, canceled, sessionVars, groupVars, closeVars,
                   remote, refReleased>>

\* The AddGroup reply: the only place where the client learns a server handle.
GroupAdded(p) ==
    /\ pc[p] = "adding"
    /\ \E m \in network :
          /\ m.type = "Added" /\ m.by = p /\ m.inst = cur[p]
          /\ handle' = [handle EXCEPT ![cur[p]] = m.handle]
          /\ network' = network \ {m}
    /\ Goto(p, "setup")
    /\ UNCHANGED <<kind, gate, gclosed, conns, op, cur, target, canceled,
                   sessionVars, closeVars, remote, refReleased>>

\* The call failed.  The request may have been executed, or be executed later.
AddFailed(p) ==
    /\ pc[p] = "adding"
    /\ network' = {m \in network : ~(m.type = "Added" /\ m.by = p)}
    /\ Goto(p, "dispose")
    /\ UNCHANGED <<op, cur, target, canceled, sessionVars, groupVars, closeVars,
                   remote, refReleased>>

\* The reference, the interfaces, three more transports and the ping set; each
\* of these steps can fail and none touches state another actor can see.
Setup(p) ==
    /\ pc[p] = "setup"
    /\ \/ /\ p \notin canceled /\ rpcCtx = "live"
          /\ conns' = [conns EXCEPT ![cur[p]] = "open"]
          /\ Goto(p, "ready")
       \/ Goto(p, "dispose") /\ UNCHANGED conns
    /\ UNCHANGED <<kind, handle, gate, gclosed, op, cur, target, canceled,
                   sessionVars, closeVars, serverVars>>

\* Mutant: registerGroup gives out the first free identity again.
RegisterFirstFree(p) ==
    /\ pc[p] = "ready" /\ op[p] = "add" /\ p \notin canceled
    /\ ~closed /\ nextGroupID < MaxGroupID
    /\ nextGroupID' = nextGroupID + 1
    /\ LET free == CHOOSE i \in GroupIDs :
                      groups[i] = NoInst /\ \A j \in 1..(i - 1) : groups[j] # NoInst
       IN  groups' = [groups EXCEPT ![free] = cur[p]]
    /\ Finish(p, FALSE)
    /\ UNCHANGED <<closed, pendingRemovals, serverConn, rpcCtx, kind, handle,
                   gclosed, conns, op, target, canceled, todoPending, todoIDs, retrying,
                   teardown, serverVars>>

\* Mutant: registerGroup does not look at closed.
RegisterAlways(p) ==
    /\ pc[p] = "ready" /\ op[p] = "add" /\ p \notin canceled
    /\ nextGroupID < MaxGroupID
    /\ nextGroupID' = nextGroupID + 1
    /\ groups' = [groups EXCEPT ![nextGroupID + 1] = cur[p]]
    /\ Finish(p, FALSE)
    /\ UNCHANGED <<closed, pendingRemovals, serverConn, rpcCtx, kind, handle,
                   gclosed, conns, op, target, canceled, todoPending, todoIDs, retrying,
                   teardown, serverVars>>

\* registerGroup: a new identity for the group, unless the session was closed
\* in the meantime or the identities are used up.
Register(p) ==
    /\ pc[p] = "ready" /\ op[p] = "add" /\ p \notin canceled
    /\ ~closed /\ nextGroupID < MaxGroupID
    /\ nextGroupID' = nextGroupID + 1
    /\ groups' = [groups EXCEPT ![nextGroupID + 1] = cur[p]]
    /\ Finish(p, FALSE)
    /\ UNCHANGED <<closed, pendingRemovals, serverConn, rpcCtx, kind, handle,
                   gclosed, conns, op, target, canceled, todoPending, todoIDs, retrying,
                   teardown, serverVars>>

\* Mutant: addGroup returns the error of registerGroup and keeps the group.
UnregisteredKept(p) ==
    /\ pc[p] = "ready"
    /\ op[p] = "add" => p \in canceled \/ closed \/ nextGroupID = MaxGroupID
    /\ \/ /\ op[p] = "add" /\ Finish(p, TRUE)
          /\ UNCHANGED <<pendingRemovals, conns, serverVars, FinishFrame>>
       \/ /\ op[p] = "object" /\ Goto(p, "dispose")
          /\ UNCHANGED <<op, cur, target, canceled, sessionVars, groupVars, closeVars,
                         serverVars>>

\* addGroup could not register the group, or the single-item call is over:
\* either way the group just made is disposed of.
Unregistered(p) ==
    /\ pc[p] = "ready"
    /\ op[p] = "add" => p \in canceled \/ closed \/ nextGroupID = MaxGroupID
    /\ Goto(p, "dispose")
    /\ UNCHANGED <<op, cur, target, canceled, sessionVars, groupVars, closeVars,
                   serverVars>>

-----------------------------------------------------------------------------
(* Using and removing a registered group *)

\* getGroup: the group object behind an identity, read under groupsMu and used
\* after it is unlocked.
Lookup(p) ==
    /\ pc[p] = "lookup" /\ groups[target[p]] # NoInst
    /\ cur' = [cur EXCEPT ![p] = groups[target[p]]]
    /\ Goto(p, "gate")
    /\ UNCHANGED <<op, target, canceled, sessionVars, groupVars, closeVars, serverVars>>

LookupFailed(p) ==
    /\ pc[p] = "lookup" /\ groups[target[p]] = NoInst
    /\ Finish(p, TRUE)
    /\ UNCHANGED <<pendingRemovals, conns, serverVars, FinishFrame>>

\* Mutant: acquire without the second look at g.closed.
AcquireUnchecked(p) ==
    LET g == cur[p] IN
    /\ pc[p] = "gate" /\ gate[g] = NoOne /\ p \notin canceled
    /\ gate' = [gate EXCEPT ![g] = p]
    /\ Goto(p, IF op[p] = "call" THEN "call" ELSE "held")
    /\ UNCHANGED <<kind, handle, gclosed, conns, op, cur, target, canceled,
                   sessionVars, closeVars, serverVars>>

\* persistentGroup.acquire: the gate, then the context again, then g.closed.
Acquire(p) ==
    LET g == cur[p] IN
    /\ pc[p] = "gate" /\ gate[g] = NoOne
    /\ p \notin canceled /\ ~gclosed[g]
    /\ gate' = [gate EXCEPT ![g] = p]
    /\ Goto(p, IF op[p] = "call" THEN "call" ELSE "held")
    /\ UNCHANGED <<kind, handle, gclosed, conns, op, cur, target, canceled,
                   sessionVars, closeVars, serverVars>>

\* Mutant: acquire takes the gate before it looks at its context.
AcquireBlocks(p) ==
    /\ pc[p] = "gate" /\ gate[cur[p]] = NoOne
    /\ p \in canceled \/ gclosed[cur[p]]
    /\ Finish(p, TRUE)
    /\ UNCHANGED <<pendingRemovals, conns, serverVars, FinishFrame>>

\* It gives up: the context is over, or the group was removed while p waited.
AcquireFailed(p) ==
    /\ pc[p] = "gate"
    /\ p \in canceled \/ (gate[cur[p]] = NoOne /\ gclosed[cur[p]])
    /\ Finish(p, TRUE)
    /\ UNCHANGED <<pendingRemovals, conns, serverVars, FinishFrame>>

\* The RPC of an item operation, a read, a write or SetActive returns.
EndCall(p) ==
    /\ pc[p] = "call"
    /\ Finish(p, FALSE)
    /\ UNCHANGED <<pendingRemovals, conns, serverVars, FinishFrame>>

\* removeGroupInternal with the gate held.
MarkRemoved(p) ==
    /\ pc[p] = "held"
    /\ gclosed' = [gclosed EXCEPT ![cur[p]] = TRUE]
    /\ groups' = [groups EXCEPT ![target[p]] = NoInst]
    /\ Goto(p, "dispose")
    /\ UNCHANGED <<closed, groupOps, nextGroupID, pendingRemovals, serverConn,
                   rpcCtx, kind, handle, gate, conns, op, cur, target, canceled,
                   closeVars, serverVars>>

\* disposeGroup: transports closed, references released, and RemoveGroup sent
\* if a group was created on the server.
Dispose(p) ==
    LET g == cur[p] IN
    /\ pc[p] = "dispose" /\ handle[g] # NoHandle
    /\ conns' = [conns EXCEPT ![g] = "closed"]
    /\ Send(RemoveRequest(p, handle[g]))
    /\ Goto(p, "removing")
    /\ UNCHANGED <<kind, handle, gate, gclosed, op, cur, target, canceled,
                   sessionVars, closeVars, remote, refReleased>>

DisposeUncreated(p) ==
    /\ pc[p] = "dispose" /\ handle[cur[p]] = NoHandle
    /\ conns' = [conns EXCEPT ![cur[p]] = "closed"]
    /\ Finish(p, TRUE)
    /\ UNCHANGED <<pendingRemovals, serverVars, FinishFrame>>

\* RemoveGroup was acknowledged.  The rest of disposeGroup may still fail.
RemoveAcked(p) ==
    LET h == handle[cur[p]] IN
    /\ pc[p] = "removing" /\ Removed(p, h) \in network
    /\ network' = network \ {Removed(p, h)}
    /\ pendingRemovals' = IF op[p] = "object" THEN pendingRemovals
                                              ELSE pendingRemovals \ {h}
    /\ \E failed \in BOOLEAN : Finish(p, failed)
    /\ UNCHANGED <<conns, remote, refReleased, FinishFrame>>

\* Mutant: a removal without acknowledgement is forgotten.
RemoveForgotten(p) ==
    /\ pc[p] = "removing"
    /\ network' = network \ {Removed(p, handle[cur[p]])}
    /\ Finish(p, TRUE)
    /\ UNCHANGED <<pendingRemovals, conns, remote, refReleased, FinishFrame>>

\* No acknowledgement: the handle is kept for Close, unless the group belonged
\* to a single-item call, which only returns the error.
RemoveFailed(p) ==
    LET h == handle[cur[p]] IN
    /\ pc[p] = "removing"
    /\ network' = network \ {Removed(p, h)}
    /\ pendingRemovals' = IF op[p] = "object" THEN pendingRemovals
                                              ELSE pendingRemovals \cup {h}
    /\ Finish(p, TRUE)
    /\ UNCHANGED <<conns, remote, refReleased, FinishFrame>>

-----------------------------------------------------------------------------
(* Server.Close and closeContext *)

\* Server.Close: Server.closed is set and the lifetime context canceled.
Close ==
    /\ pc[Closer] = "idle"
    /\ Goto(Closer, "marking")
    /\ UNCHANGED <<op, cur, target, canceled, sessionVars, groupVars, closeVars, serverVars>>

\* Mutant: the RPC context ends when closeContext begins.
MarkClosedCanceling ==
    /\ pc[Closer] = "marking"
    /\ closed' = TRUE
    /\ rpcCtx' = "canceled"
    /\ Goto(Closer, "drain")
    /\ UNCHANGED <<groupOps, nextGroupID, groups, pendingRemovals, serverConn,
                   op, cur, target, canceled, groupVars, closeVars, serverVars>>

\* closeContext sets closed under groupsMu, then waits for admitted operations.
MarkClosed ==
    /\ pc[Closer] = "marking"
    /\ closed' = TRUE
    /\ Goto(Closer, "drain")
    /\ UNCHANGED <<groupOps, nextGroupID, groups, pendingRemovals, serverConn, rpcCtx,
                   op, cur, target, canceled, groupVars, closeVars, serverVars>>

\* Mutant: every handle in pendingRemovals is retried.
DrainedUnfiltered ==
    /\ pc[Closer] = "drain" /\ groupOps = {}
    /\ todoIDs' = {i \in GroupIDs : groups[i] # NoInst}
    /\ todoPending' = pendingRemovals
    /\ Goto(Closer, "sweep")
    /\ UNCHANGED <<op, cur, target, canceled, retrying, closeErr, teardown,
                   sessionVars, groupVars, serverVars>>

\* Mutant: the handles are read before the operations are done.
DrainedEarly ==
    LET live == {i \in GroupIDs : groups[i] # NoInst} IN
    /\ pc[Closer] = "drain"
    /\ todoIDs' = live
    /\ todoPending' = pendingRemovals \ {handle[groups[i]] : i \in live}
    /\ Goto(Closer, "sweep")
    /\ UNCHANGED <<op, cur, target, canceled, retrying, closeErr, teardown,
                   sessionVars, groupVars, serverVars>>

\* They are done: what is registered and what is left to retry, less the handles
\* that a registered group owns by now.
Drained ==
    LET live == {i \in GroupIDs : groups[i] # NoInst} IN
    /\ pc[Closer] = "drain" /\ groupOps = {}
    /\ todoIDs' = live
    /\ todoPending' = pendingRemovals \ {handle[groups[i]] : i \in live}
    /\ Goto(Closer, "sweep")
    /\ UNCHANGED <<op, cur, target, canceled, retrying, closeErr, teardown,
                   sessionVars, groupVars, serverVars>>

\* The context of Close ends first: Close returns its error, and with it ends
\* the RPC context (the deferred rpcCancel), by which the transports of the
\* operations still inside live.  A goroutine keeps waiting for them, to stop the
\* pings and close the transport only.
DrainTimeout ==
    /\ pc[Closer] = "drain" /\ Closer \in canceled
    /\ closeErr' = TRUE
    /\ teardown' = "waiting"
    /\ rpcCtx' = "canceled"
    /\ Goto(Closer, "done")
    /\ UNCHANGED <<closed, groupOps, nextGroupID, groups, pendingRemovals, serverConn,
                   op, cur, target, canceled, todoPending, todoIDs, retrying,
                   groupVars, serverVars>>

\* Mutant: the goroutine left behind does not wait.
TeardownEarly ==
    /\ teardown = "waiting"
    /\ teardown' = "done"
    /\ serverConn' = "closed"
    /\ UNCHANGED <<closed, groupOps, nextGroupID, groups, pendingRemovals, rpcCtx,
                   todoPending, todoIDs, retrying, closeErr,
                   groupVars, actorVars, serverVars>>

Teardown ==
    /\ teardown = "waiting" /\ groupOps = {}
    /\ teardown' = "done"
    /\ serverConn' = "closed"
    /\ UNCHANGED <<closed, groupOps, nextGroupID, groups, pendingRemovals, rpcCtx,
                   todoPending, todoIDs, retrying, closeErr,
                   groupVars, actorVars, serverVars>>

\* removeRemoteGroup for a handle whose removal was not acknowledged.
RetryRemoval(h) ==
    /\ pc[Closer] = "sweep" /\ h \in todoPending
    /\ todoPending' = todoPending \ {h}
    /\ retrying' = h
    /\ Send(RemoveRequest(Closer, h))
    /\ Goto(Closer, "retrying")
    /\ UNCHANGED <<op, cur, target, canceled, todoIDs, closeErr, teardown,
                   sessionVars, groupVars, remote, refReleased>>

\* Mutant: a retried removal is retried until it is acknowledged.
RetryUntilAcked ==
    LET m == Removed(Closer, retrying) IN
    /\ pc[Closer] = "retrying"
    /\ \/ m \in network /\ UNCHANGED <<closeErr, todoPending>>
       \/ closeErr' = TRUE /\ todoPending' = todoPending \cup {retrying}
    /\ network' = network \ {m}
    /\ retrying' = NoHandle
    /\ Goto(Closer, "sweep")
    /\ UNCHANGED <<op, cur, target, canceled, todoIDs, teardown,
                   sessionVars, groupVars, remote, refReleased>>

\* The retry failed or was acknowledged; either way it was the last one.
RetryReturns ==
    LET m == Removed(Closer, retrying) IN
    /\ pc[Closer] = "retrying"
    /\ \/ m \in network /\ UNCHANGED closeErr
       \/ closeErr' = TRUE
    /\ network' = network \ {m}
    /\ retrying' = NoHandle
    /\ Goto(Closer, "sweep")
    /\ UNCHANGED <<op, cur, target, canceled, todoPending, todoIDs, teardown,
                   sessionVars, groupVars, remote, refReleased>>

\* removeGroupInternal for the next registered group: it goes on with Lookup.
SweepGroup(i) ==
    /\ pc[Closer] = "sweep" /\ todoPending = {} /\ i \in todoIDs
    /\ todoIDs' = todoIDs \ {i}
    /\ op' = [op EXCEPT ![Closer] = "remove"]
    /\ target' = [target EXCEPT ![Closer] = i]
    /\ Goto(Closer, "lookup")
    /\ UNCHANGED <<cur, canceled, todoPending, retrying, closeErr, teardown,
                   sessionVars, groupVars, serverVars>>

\* Mutant: the server reference goes before the registered groups.
ReleaseReferenceFirst ==
    /\ pc[Closer] = "sweep" /\ todoPending = {}
    /\ \/ refReleased' = TRUE /\ UNCHANGED closeErr
       \/ refReleased' \in BOOLEAN /\ closeErr' = TRUE
    /\ Goto(Closer, "disconnect")
    /\ UNCHANGED <<op, cur, target, canceled, todoPending, todoIDs, retrying, teardown,
                   sessionVars, groupVars, remote, network>>

\* releaseServerReference: one RemRelease, sent or not, never sent again.
ReleaseServerReference ==
    /\ pc[Closer] = "sweep" /\ todoPending = {} /\ todoIDs = {}
    /\ \/ refReleased' = TRUE /\ UNCHANGED closeErr
       \/ refReleased' \in BOOLEAN /\ closeErr' = TRUE
    /\ Goto(Closer, "disconnect")
    /\ UNCHANGED <<op, cur, target, canceled, todoPending, todoIDs, retrying, teardown,
                   sessionVars, groupVars, remote, network>>

\* stopKeepalive and serverConn.Close; Close returns what failed, if anything,
\* and the RPC context ends.
Disconnect ==
    /\ pc[Closer] = "disconnect"
    /\ serverConn' = "closed"
    /\ rpcCtx' = "canceled"
    /\ closeErr' \in {closeErr, TRUE}
    /\ Goto(Closer, "done")
    /\ UNCHANGED <<closed, groupOps, nextGroupID, groups, pendingRemovals,
                   op, cur, target, canceled, todoPending, todoIDs, retrying,
                   teardown, groupVars, serverVars>>

-----------------------------------------------------------------------------
(* The OPC server, as the code and its tests assume it to behave *)

\* AddGroup is executed, perhaps after its caller gave up.
ServerAdds(m, h) ==
    /\ m.type = "AddGroup" /\ remote[h] = NoInst
    /\ remote' = [remote EXCEPT ![h] = m.inst]
    /\ network' = (network \ {m}) \cup
         (IF Awaited(m) THEN {[m EXCEPT !.type = "Added", !.handle = h]} ELSE {})
    /\ UNCHANGED <<refReleased, sessionVars, groupVars, actorVars, closeVars>>

\* RemoveGroup is executed on whatever group has the handle now.
ServerRemoves(m) ==
    /\ m.type = "RemoveGroup" /\ remote[m.handle] \in Inst
    /\ remote' = [remote EXCEPT ![m.handle] = IF ReuseHandles THEN NoInst ELSE Retired]
    /\ network' = (network \ {m}) \cup
         (IF Awaited(m) THEN {[m EXCEPT !.type = "Removed"]} ELSE {})
    /\ UNCHANGED <<refReleased, sessionVars, groupVars, actorVars, closeVars>>

\* A request is lost, or refused (an unknown handle, a failing HRESULT): in both
\* cases the call fails and the server is as it was.
ServerRejects(m) ==
    /\ m.type \in {"AddGroup", "RemoveGroup"}
    /\ network' = network \ {m}
    /\ UNCHANGED <<remote, refReleased, sessionVars, groupVars, actorVars, closeVars>>

-----------------------------------------------------------------------------
(* The specification *)

\* The steps of an operation, for a caller or for the closer inside it.
Step(p) ==
    \/ Refuse(p) \/ Admit(p)
    \/ SendAddGroup(p) \/ GroupAdded(p) \/ AddFailed(p) \/ Setup(p)
    \/ Register(p) \/ Unregistered(p)
    \/ Lookup(p) \/ LookupFailed(p) \/ Acquire(p) \/ AcquireFailed(p)
    \/ EndCall(p) \/ MarkRemoved(p)
    \/ Dispose(p) \/ DisposeUncreated(p) \/ RemoveAcked(p) \/ RemoveFailed(p)

CloseStep ==
    \/ MarkClosed \/ Drained \/ DrainTimeout
    \/ \E h \in Handles : RetryRemoval(h)
    \/ RetryReturns
    \/ \E i \in GroupIDs : SweepGroup(i)
    \/ ReleaseServerReference \/ Disconnect

ServerStep ==
    \E m \in network :
        \/ \E h \in Handles : ServerAdds(m, h)
        \/ ServerRemoves(m)
        \/ ServerRejects(m)

\* Everything has returned and nobody may start anything: the session is over.
Terminated ==
    /\ pc[Closer] = "done" /\ teardown # "waiting"
    /\ \A p \in Callers : pc[p] = "idle"
    /\ UNCHANGED vars

Next ==
    \/ \E p \in Callers, o \in Ops, i \in 0..MaxGroupID : Start(p, o, i)
    \/ \E p \in Actors : Cancel(p) \/ Step(p)
    \/ Close \/ CloseStep \/ Teardown
    \/ ServerStep
    \/ Terminated

Spec == Init /\ [][Next]_vars

\* Where an actor waits for the network and nothing but its context is sure to
\* end the wait.
Waits(p) ==
    \/ pc[p] \in {"open", "adding", "setup", "call", "dispose", "removing",
                  "retrying", "disconnect"}
    \/ pc[p] = "ready" /\ op[p] = "object"

\* The clean-up of a failed creation and of a single-item call runs under a
\* context of its own that ends after ten seconds (cleanupContext).
Expired(p) ==
    \/ p \in canceled
    \/ pc[p] \in {"dispose", "removing"} /\ op[p] \in {"add", "object"}

\* Goroutines run; the AfterFunc of a closed session cancels every operation
\* context; the context given to Close has a deadline; and a call returns once
\* its context is over.  Nothing is assumed of the server.
Fairness ==
    /\ \A p \in Callers : WF_vars(SessionClosed /\ Cancel(p))
    /\ WF_vars(Cancel(Closer))
    /\ \A p \in Actors : WF_vars((Waits(p) => Expired(p)) /\ Step(p))
    /\ WF_vars((Waits(Closer) => Expired(Closer)) /\ CloseStep)
    /\ WF_vars(Teardown)

FairSpec == Spec /\ Fairness

-----------------------------------------------------------------------------
(* Safety *)

\* A read, write or SetActive never runs on a group whose disposal has closed its
\* transports, although it found the group (getGroup) before it had the gate and a
\* concurrent Remove or Close may have come first (acquire reads g.closed again).
NoCallOnDisposedGroup ==
    \A p \in Callers : pc[p] = "call" => conns[cur[p]] = "open"

\* A group the program can still reach is the one the server keeps under its
\* handle: no removal meant for an earlier holder of that handle, sent late,
\* executed late or retried by Close, has taken it away.
RegisteredGroupExists ==
    \A i \in GroupIDs :
        groups[i] # NoInst => remote[handle[groups[i]]] = groups[i]

\* The server transport is closed only after the last admitted operation, whether
\* Close waited for them or gave up.  The context by which it and the transports of
\* these operations live ends earlier in one case only: Close gave up with operations
\* inside, whose clean-up may fail from then on, and then it has reported an error.
DrainedBeforeDisconnect ==
    /\ serverConn = "closed" => groupOps = {} /\ closed
    /\ rpcCtx = "canceled" => groupOps = {} \/ (pc[Closer] = "done" /\ closeErr)

\* The activated server reference goes last: when it has been released, every
\* group still registered is one whose removal failed and is reported.
ReferenceReleasedLast ==
    refReleased => groupOps = {} /\ (closeErr \/ \A i \in GroupIDs : groups[i] = NoInst)

\* Close returning nil means that it has cleaned up: the reference is released
\* and no persistent group whose creation the server confirmed is left there.
CloseNilMeansClean ==
    pc[Closer] = "done" /\ ~closeErr =>
        /\ refReleased
        /\ \A h \in Handles :
              remote[h] \in Inst => \/ kind[remote[h]] = "temporary"
                                    \/ handle[remote[h]] = NoHandle

\* An identity names one group forever: it is bound once, when it is new, and
\* afterwards only unbound, so a removed Group never reaches a later group.
IdentityBoundOnce ==
    [][\A i \in GroupIDs :
          groups'[i] # groups[i] =>
              \/ groups'[i] = NoInst
              \/ groups[i] = NoInst /\ i > nextGroupID /\ i <= nextGroupID']_vars

\* After closeContext has set closed, nothing is admitted and no group becomes
\* registered, so the list Close works from cannot go stale.
NothingNewAfterClosed ==
    [][closed => /\ groupOps' \subseteq groupOps
                 /\ \A i \in GroupIDs : groups'[i] \in {groups[i], NoInst}]_vars

\* A group disappears from the server only when it was given up: its own
\* disposal has begun, or its creation failed without the client learning its
\* handle.
OnlyGivenUpGroupsRemoved ==
    [][\A h \in Handles :
          (remote[h] \in Inst /\ remote'[h] # remote[h]) =>
              \/ conns[remote[h]] = "closed"
              \/ handle[remote[h]] = NoHandle]_vars

-----------------------------------------------------------------------------
(* The abstract session *)

Service == INSTANCE GroupService WITH
    Users <- Callers, Groups <- Inst, NoGroup <- NoInst,
    inside <- groupOps, bound <- groups, used <- nextGroupID,
    alive <- {remote[h] : h \in Handles} \cap Inst,
    ended <- closed,
    link <- IF serverConn = "closed" THEN "gone"
            ELSE IF rpcCtx = "canceled" THEN "broken" ELSE "standing"

\* The session is the abstract one: with every request late, lost or executed
\* after its caller gave up, and every handle reissued, operations, identities
\* and groups behave as if there were neither requests nor handles.
ImplementsService == Service!Spec

-----------------------------------------------------------------------------
(* Liveness, under FairSpec *)

\* Close returns, whatever the server and the other goroutines are doing.
CloseReturns == SessionClosed ~> pc[Closer] = "done"

\* An operation whose context has ended returns, and once the session is closed
\* every operation does: also those that wait for a server that never answers, and
\* those at the gate of a group whose owner waits for it with a context of its own.
OperationsReturn ==
    \A p \in Callers : (p \in canceled ~> pc[p] = "idle")
                     /\ (SessionClosed ~> pc[p] = "idle")

\* The transport is always closed in the end, also when Close itself gave up.
TransportClosedEventually == SessionClosed ~> serverConn = "closed"
-----------------------------------------------------------------------------
(* Waiting *)

\* Who p waits for: the owner of the gate it is at, or, in closeContext and in the
\* goroutine it may leave behind, the operations that were admitted.
WaitsFor(p, q) ==
    \/ pc[p] = "gate" /\ gate[cur[p]] = q
    \/ p = Closer /\ (pc[p] = "drain" \/ teardown = "waiting") /\ q \in groupOps

\* Who can go on as soon as its own calls return.
Working(p) == pc[p] \notin {"idle", "gate", "drain", "done"}

\* Nobody waits in a circle: whoever waits for another waits for one that works or
\* goes to a gate that is free, or for one that waits at a gate whose owner works.
NoCircularWait ==
    \A p, q \in Actors : WaitsFor(p, q) =>
        \/ Working(q)
        \/ /\ p = Closer /\ pc[q] = "gate"
           /\ \/ gate[cur[q]] = NoOne
              \/ \E r \in Actors : WaitsFor(q, r) /\ Working(r)
=============================================================================
