# Verification of gopcda

gopcda is an OPC DA 2 client in Go. A `Server` is a DCOM session: it activates the
OPC server, keeps its objects alive with DCOM pings, and creates *groups* on it,
through which items are read and written. Everything in the library may be called
from several goroutines and every call takes a context that can end at any time.
The modules here model the protocol the library follows and the server it assumes;
TLC checks them on small instances and TLAPS proves every safety property and every
refinement they check for all.

## The system

| Component | Source | State | Operations |
| --- | --- | --- | --- |
| Session, groups | `group_dcom.go`, `rpc.go`, `keepalive.go`, `server.go`, `group.go` | `closed`, `groupOps`, `groups`, `nextGroupID`, `pendingRemovals`; per group the gate, `closed`, its handle and transports | AddGroup, Remove, any operation under the gate, Close |
| Keepalive | `keepalive.go` | ping set, sequence number, reference count per object, latched error | add, release, ping, close |
| Items and batches | `batch.go`, `remove.go` | registered items, client handles | AddItems, RemoveItems, Read, Write |
| Server facade, setup | `server.go`, `dcom.go`, `progid.go`, `opcda.go` (configuration) | the lifetime context, `closed`, `closeDone`, `closeErr`; per activated object its RPC context, connection and reference | Connect, ResolveProgID, Close, the context of an operation |
| Single-item calls | `read.go`, `write.go`, `rpc.go` | a temporary group, its transports and references, for the time of a call | ReadItem, WriteItem |
| Browse, properties | `browse.go`, `properties.go` | temporary objects, likewise | BrowseItemIDs, ItemProperties |
| Values | `array.go`, `value.go`, `scalar.go`, `date.go` | none | conversions to and from VARIANT |
| Wire codecs | `*_wire.go` | none | NDR encoding |
| Texts | `errors.go`, `quality.go` | none | status, quality and error texts |
| Command line | `cmd/opcda` | none | one command, polling |

How they interact. Callers share one `dcomConn`. Its `groupsMu` protects the tables;
`groupOps`, a wait group, counts the operations Close has to wait for (creation,
removal and object operations, not the operations on a group). A group's *gate* is a
channel of capacity one that serialises the operations on it and whose owner reads
`g.closed` again, because the group was looked up before. The server identifies a
group by a *handle* it may reissue; the library gives each group an identity of its
own. Removal releases the references and calls RemoveGroup; a removal that was not
acknowledged is remembered in `pendingRemovals` for Close to retry.

What is hard. Replies are lost and requests executed after their caller gave up;
handles are reused while a removal is in doubt; contexts end between any two steps;
Close races with creation, removal and calls in progress and has a deadline itself;
creation can fail after any of a dozen steps and must give back what it has; a
reference must not be released twice; a write must never be reported as not attempted
when it may have been executed. `context.AfterFunc`, with which cancellation is forwarded
from one context to another, runs in a goroutine of its own and may run after the
forwarding was meant to stop.

What makes each part correct. A session: a registered group exists on the server and is
not used after its disposal, nothing is admitted or registered after `closed`, the
server transport is not closed under an admitted operation, Close cleans up or says that
it did not. The pinger: a
retained object is pinged, an uncertain update is an error. A group: each entry of a
batch is told the truth. A single call: what it obtained is given back or reported,
and its error does not lie about a write. A connection: a failed Connect closes its
connections and gives back the objects that `activateDCOM` returned, a successful one does
not depend on Connect's context, all callers of Close learn the same. Values: what is written is what is read.

## Modules

`Session.tla` models the session. An actor is a goroutine: a caller, or the one that
runs Close. `pc` says where it is; an action is the code between two points at which
another goroutine, or the server, can observe a difference. Where a run of calls
touches only state no other actor can see (binding transports, querying interfaces,
releasing references of a group that is not yet or no longer in `groups`), it is one
action that can succeed or fail. `closed`, `groupOps`, `nextGroupID`, `groups` and
`pendingRemovals` are the fields of `dcomConn`; `handle`, `gate`, `gclosed` and `conns`
those of `persistentGroup`, indexed by instance; `kind` tells the group of AddGroup
from the temporary one of a single-item call. `canceled` holds the actors whose
context has ended. `todoPending` and `todoIDs` are the lists closeContext collects.
`rpcCtx` is the context by which the session's transports live, those of the admitted
operations' clean-up included. `closeContext` cancels it as it returns: after draining, or
when it gives up (`DrainTimeout`), with operations inside. From then on no transport is
bound and a request may fail before it is sent; the requests that remain possible are those
of a transport that has not noticed yet.

The server is `remote`, the group each handle stands for, and `network`, the requests
and replies on their way. A request is sent or fails before it is sent; it is executed
once, late, or never; its reply is consumed or given up on. No RPC is executed twice.
Both `ReuseHandles` settings are checked.

`Keepalive.tla` models the object pinger of one session. `gate`, `set`, `sequence`,
`objects` and `err` are the fields of `objectPinger`, `conn` its transport. Three kinds
of goroutine use it: a *Group*, the set-up (`retainObject`) and disposal
(`releaseObject`) of one persistent group in whichever goroutine they run; *Owner*, that
of `startKeepalive` and later `stopKeepalive`; and *Loop*, that of `run`. `op` is the
call a goroutine is in (`add`, `delete`, `clear` for `close`), `oid` the object it is
about, `pc` how far it is; a call waits for the gate, holds it, dispatches a ComplexPing
(`change`) and returns. `Stop` is enabled only when no group is in a call, because
`closeContext` stops the pinger after it has drained `groupOps`; Session checks that
drain. The object exporter is `remote` (the objects of each set), `allocated`, `seen` (the
last sequence number it executed) and `network`. A ComplexPing is answered, lost,
executed with the reply lost, or executed after its caller gave up. A group whose
reference asks for no pings (`SORF_NOPING`) never calls the pinger, so it is no Group.
The ping period and the lifetime of a lease are not modelled: a SimplePing succeeds or
fails.

`LeaseService.tla` is what the pinger promises the groups, without gate, counts, sets,
sequence numbers or messages: a user is granted the lease of an object only while the
keepalive has not failed and the service is open, a leased object stays on the server
whatever the others do, and neither a failure nor the end is taken back.
`Keepalive!ImplementsLeases` is the claim that Keepalive implements it. A goroutine has a
lease from the moment its `add` is done until it sends the request that may end it (`Holds`), what the
server keeps is the set that is pinged, `err` is the failure, and the service is over
when `close` begins to clear the set.

Session and Keepalive meet in `retainObject` and `releaseObject`, which Session treats as
steps that can fail, and in `Stop`.

`GroupItems.tla` models the items of one group. `items` and `nextClientHandle` are the
fields of `persistentGroup`; `gate` is its gate, held from the first step of a call to
its return. A call of caller p has an operation `op`, its list `ids`, the positions still
to be sent `todo`, and `out`, what it would report for each position if it returned now:
`out` stands for the maps and slices the functions build (`out`, `positions`, `known`,
`pending`). `Chunk` is the next batch. `Send` sends it, `Added`, `Removed` and `Accessed`
process an answer, `CallFailed` and `GiveUp` end the call, `Return` gives the gate back.
`Exhausted` is the client handle reaching `math.MaxUint32`, for which `MaxClient`
stands, in the middle of a batch; the handles given to the refused batch are not given
back. `Unhealthy` is a call that finds the pinger's error. A call that does not get the
gate changes nothing and has no step. Values are left out: a read or a write of an item
succeeds or is refused. The order in which `write` sorts its map is any order of a list
without duplicates; `Group.Read` takes the items by client handle.

The server is `table` (its items by handle) and `network`. Three assumptions are made of
it: a call with a failure HRESULT as a whole has had no effect; a handle that stands for
no item is refused; and the handles of removed items may be given out again. An answer
without its arrays (`malformed`) may come from a call that was executed. A request can be
lost, answered in vain, or executed after its caller gave up. `fate`, `before` and
`doubt` are history: what became of each entry of a call, the order of registration, and
whether a removal was left unconfirmed. After that the validity of the registrations is
not claimed: `docs/usage.md:64` asks the user to close the group or the session.

`Connection.tla` models the beginning and the end of a session. `pc` is the next step of
Connect and `role` the object it activates: first OPCEnum, if a ProgID has to be
resolved, then the server. Each has an RPC context (`rpc`), the AfterFunc that forwards
Connect's context to it (`forward`), an endpoint mapper connection (`epm`), an object
connection (`conn`) and a reference the other side counts (`ref`); the actions from
`Parse` to `Initialized` are `activateDCOM`, `Abort` its deferred calls. When the Server
is published, the callers of `Server.Close` are in `phase`: one runs closeContext
(`closing` is how far), the others wait for `closeDone` or their own context. `op` is an
operation of the session between `operationContext` and the function that it returns.
`opKind` says which: one that `beginObjectOperation` admits and `groupOps` counts, or
`GetServerStatus` (`OpStatus`), which looks at `Server.closed` only. Close waits for the
first; a GetServerStatus may still be running when it returns nil, with its context ended.
Setting up the pinger and removing the groups are one step each, taken apart in
`Keepalive` and `Session`.

`ObjectCalls.tla` follows one ReadItem, WriteItem, BrowseItemIDs or ItemProperties from
its start to its return. All four do the same: they are admitted, bind a transport for
IRemUnknown whose lifetime is the session's and not the caller's (`bindCleanupTransport`),
work along a plan (`Plan`; `After` is the step that follows another) and unwind in
reverse. `Obtain` and `ObtainFails` are the remote calls that give a reference, `Decode`
and `Bind` those that read it and connect to it. `conns`, `refs`, `group` and `acked` are
local variables of the functions, `held`, `exists`, `stored`, `applied` and `left` what is
true on the server. The environment is the caller's context, a Close by somebody else and
the server. A Close that gives up waiting (`session` is then "abandoned") cancels the
lifetime of the transports under the call; otherwise that happens only when no call is
admitted.

`Values.tla` has the conversions that could lose something, as operators: dates
(`dateAutomation`, `automationDate`), the element count of an array from its bounds
(`arrayCount`, in unsigned words), and the nesting of VARIANTs, which the writer, the
reader and the wire count in three ways (`writeVariantDepth`, `scalarValueDepth`,
`WireNesting`). ObjectCalls uses them: what a write stores is what `writeVariant` makes of
its input, what a read returns is what `scalarValue` makes of what is stored.

`GroupService.tla` is what a program relies on, with neither requests nor handles:
operations enter and leave, a new identity is bound to a group that exists, a bound group
does not disappear, and after the end nobody enters and nothing is bound. The link to the
server stands as long as anybody is inside, with one exception: after the end it may be
abandoned (`Abandon`), and is then broken for those inside until they are out and it is
gone. `Session!ImplementsService` is the claim that Session implements
it, with `groupOps` for those inside, `groups` for the bindings, the server's table for
what exists, `closed` for the end, and `rpcCtx` and `serverConn` for the link.
`Connection!ImplementsService` is
the same claim of Connection, where no groups are: one operation while it is counted, the
admission that closeContext closes, and the RPC context and the connection once a caller
has the Server. So the two modules that each have a part of closeContext agree on what a
program sees of it.

How the modules fit. `gate` of `GroupItems` and of `Session` is the same channel: Session
shows that it is not held on a disposed group, with one RPC in the place of the calls
that `GroupItems` takes apart. The temporary group of a single-item call is in Session,
where it competes with others for handles and is waited for by Close, and in ObjectCalls,
where its steps are. closeContext is in Session with its groups and in Connection with
its callers: Connection assumes of the group part that it may fail and that it ends with
its context, which Session's `CloseReturns` and `OperationsReturn` show.

`SessionProofs.tla`, `SessionServerProofs.tla`, `SessionCloseProofs.tla`,
`KeepaliveProofs.tla`, `GroupItemsProofs.tla`, `ConnectionProofs.tla`,
`ObjectCallsProofs.tla` and `ValuesProofs.tla` hold the theorems. `MCSession.tla`,
`MCKeepalive.tla` and `MCGroupItems.tla` have the symmetry TLC uses, `MCConnection.tla`
the callers and `MCObjectCalls.tla` the values.

Each module also has some operators marked *Mutant*: a variant of the definition that
follows with a plausible mistake in it. They are used by no specification. Putting one
in the place of the original makes TLC find a violation of the property `PROJECT.json`
names with it, so no property holds for want of the interesting behaviour.

## Runs

| Run | Bounds | Shows |
| --- | --- | --- |
| `Session_distinct` | 2 callers, Close, 2 groups, handles never reissued | `NoCallOnDisposedGroup`, `DrainedBeforeDisconnect`, `ReferenceReleasedLast`, `CloseNilMeansClean`, `NoCircularWait` |
| `Session_reuse` | 2 callers, Close, 2 groups, 1 handle, reissued | `RegisteredGroupExists`, `IdentityBoundOnce`, `NothingNewAfterClosed`, `OnlyGivenUpGroupsRemoved`, `ImplementsService` |
| `Session_sequential` | 1 caller, Close, 3 groups, 2 handles reissued, 2 identities | `CloseNilMeansClean` |
| `Session_live` | 2 callers, Close, 1 group | `CloseReturns`, `OperationsReturn`, `TransportClosedEventually` |
| `Session_race` | 2 callers, Close, 2 groups, 1 handle, reissued | a violation of `CloseNilMeansClean` |
| `Keepalive_safety` | 3 groups, 2 objects, 2 ping sets, 3 sequence numbers, 2 users | `RetainedIsPinged`, `HealthySetIsExact`, `SequenceInStep`, `UncertainIsFailure`, `StopLeavesNothing` |
| `Keepalive_live` | 2 groups, 2 objects, 2 ping sets, 2 sequence numbers, 1 user | `StopReturns`, `CanceledReturns`, `ImplementsLeases` |
| `Keepalive_uncertain` | 1 group, 2 objects, 1 ping set | a violation of `CloseReleasesPingSets` |
| `GroupItems_batches` | 1 caller, 3 items, 3 handles, 3 client handles, lists of 3, batches of 2 | `RegistrationOrder`, `AddOutcomesTrue`, `RemoveOutcomesTrue`, `WriteOutcomesTrue` |
| `GroupItems_callers` | 2 callers, 2 valid items and an invalid one, 2 handles, 3 client handles, lists of 2, batches of 1, 1 late request | `RegistrationsValid`, `ClientHandlesUnique`, `ReadOutcomesTrue` |
| `ObjectCalls_temporary` | 1 call of each kind, 3 ItemIDs in batches of 2, 2 properties, values as below | `CleanupTransportLives`, `GivenBack`, `WriteErrorTruthful`, `BrowseWhole`, `ValuesKept`, `CanceledReturns` |
| `Connection_sessions` | 2 activations, 3 callers of Close, 1 operation | `ConnectCleansUp`, `ServerAlive`, `CloseAgreement`, `CloseReturns`, `ImplementsService` |

Why these bounds are enough. `Inst` bounds how many AddGroup requests are sent; calls,
removals and look-ups are unbounded. Two callers and the closer give every pair of the
three kinds of operation that can race, on the same group and on two groups. A handle
is reused as soon as there are two instances and one handle. Three instances are needed
where a handle is reused twice, or for a third registration to meet the limit of
identities (`MaxGroupID` stands for `math.MaxInt`), and that run has one caller. The
safety runs use the symmetry of callers, instances and handles; the liveness run does
not.

In Keepalive the groups retain and release again and again, so every order of the
three groups on the server's object and on another one occurs. `MaxUsers` bounds the
count at which one more group is created: a release that gives up at the gate leaves its
count behind, so the counts of the code have no bound of their own. Two sets are
needed for an addition that was lost and created a set the client does not know of; three
sequence numbers (for 65536) so that the number wraps and a stale one still differs from
the current one. The symmetry is that of the groups; the liveness run uses none.

In GroupItems, lists of three in batches of two have a full batch, a short one, a
duplicate in the same batch and one in the next; three client handles make them run out
in a second batch and in a second call. The second run has what needs time and another
caller: a handle that is freed and reissued, a request that is executed during a later
call (`MaxLate` bounds those on their way), a read between two calls of another caller.
`MaxList` bounds the lists callers pass; the number of calls is not bounded. The
symmetry is that of callers, valid items and handles.

In ObjectCalls three ItemIDs in batches of two give a full batch, a last one of one or no
item, and repetitions; one call is enough because what others do to it is its
environment, every remote call can be refused, lost or executed in vain, and no two calls
share a temporary object. The values lie on both sides of every boundary: a day of three
milliseconds of two units each, so that rounding moves into the next day, with every time
of day on the first and last days (`FirstDay`, `MaxDay`), on the days around the epoch
and just outside the years; arrays of up to two dimensions with counts up to 8
(`MaxCount`), `Word` 64 and `MaxElements` 4, so that 8 * 8 wraps to 0, and lower bounds at the largest int32
(`MaxInt`); chains one longer than the three VARIANTs that may be nested (`MaxNesting`).
In Connection three callers of Close give one that runs it, one that is told its result
and one that gives up; no call is repeated, so the states are finite without a bound.

Fairness (`Session!Fairness`). Goroutines run; the AfterFunc registered on the session's
lifetime context cancels the operations after Close; the context given to Close ends
at some time (`Server.Close` asks for a timeout); a clean-up context ends after ten
seconds; and a call whose context has ended returns. Nothing is assumed of the server
or the network, so a call whose context never ends may hang as long as the session is
open.

`Keepalive!Fairness`. Goroutines run, the owner's context ends (start and stop both have
a deadline), the goroutine's own calls end after ten seconds, and any other call in
flight returns once its context has ended. `LoopExit` has strong fairness: `run` selects
between a tick and its ended context, both may be ready, and Go's select chooses at
random, so it does not choose the tick for ever. Nothing is assumed of the exporter.

`ObjectCalls!Fairness`. The goroutine runs, an AfterFunc whose context has ended is
started, clean-up ends (its contexts have a deadline), a remote call returns once the
operation's context has ended, and a dial once that of its transport has. The last is why
`ForwardCancels` matters: while the transport is being bound, only that forwarding lets a
canceled call return.

`Connection!Fairness`. Goroutines run, an operation returns once its context has ended,
the RPCs of Close return once the context given to Close has, and a waiting caller is
woken. Nothing is assumed of the contexts themselves: `CloseReturns` says that a caller
whose context ends is answered, and that after Close no operation goes on running, waited
for or not, because Close cancels the lifetime first.

## Findings

`Session_race` shows a removal record being lost. Caller 1 removes group A with handle
h; the server executes it and gives h to a new group B of caller 2, before caller 1 has
processed the acknowledgement. B is removed, or fails in its set-up; its RemoveGroup
fails and h is recorded in `pendingRemovals`. Then caller 1 goes on in `disposeGroup`
and deletes h (`group_dcom.go:308`): the record is B's. Close has nothing to retry and
returns nil while B is still on the server. The record is keyed by handle only, and it
takes handle reuse and two removals in flight together, which is why
`Session_distinct` and `Session_sequential` hold.

`Keepalive_uncertain` shows `Server.Close` reporting success with an object left in a
ping set. The addition of a group's object is executed but its reply is lost: `change`
latches the error (`keepalive.go:271`) and does not record the object, nor the set if
it was the first. `close` deletes what `objects` names, which is not that object, and
returns no error. The comment on `Close` (`server.go:116`) says that it releases the ping
sets and reports clean-up errors. The exporter drops the set when its pings stop, so what
remains is bounded in time; the model has no time.

## Proofs

`SessionProofs.tla` proves, for all sets of callers, instances and handles and any
`MaxGroupID`, under `SessionAssumption` (the special values are distinct from the
ordinary ones):

- `Invariant`: `Spec => []IInv`, the inductive invariant
- `TypeCorrect`: `Spec => []TypeOK`
- `NoUseAfterDispose`: `Spec => []NoCallOnDisposedGroup`
- `DrainFirst`: `Spec => []DrainedBeforeDisconnect`
- `IdentityStable`: `Spec => IdentityBoundOnce`
- `ClosedIsFinal`: `Spec => NothingNewAfterClosed`
- `DeadlockFree`: `Spec => []NoCircularWait`

`IInv` has five parts. `TypeOK`; `Shape`, what a program counter says about the
operation and group of its actor, without which not even the types are preserved
(`groups[target[p]]` needs a target in range); `HandlesKnown`, that RemoveGroup is only
sent with a handle the server gave out; `Ownership`; and `Closing`, the phases of
Close. `Ownership` is the heart: a group being created is known to its creator only;
a registered group has open transports and one identity; whoever disposes of a
registered group holds its gate and has set `gclosed`; a caller waiting at the gate has
a group that is open or marked closed. `Closing` says that the transport is closed only
when nobody is inside, and that the RPC context ends as Close returns, drained or with an
error. The clause about callers at a gate is why `acquire` must read
`g.closed` after it has the gate, and it carries `NoCallOnDisposedGroup` over the steps
of the others. The proofs go one lemma per layer and one step per action.

`NoCircularWait` is the safety half of `CloseReturns` and `OperationsReturn`, proved for any
number of callers and groups where the liveness run has two callers and one group. An
actor waits for another at a gate, and closeContext, or the goroutine it leaves behind,
waits for the operations in `groupOps`. `WaitInv` says that the owner of a gate is at work
under it (`GatesOwned`) and that `groupOps` counts exactly the creations, removals and
object operations in progress (`Counted`); so a wait leads to someone whose own calls only
have to return, in two steps at most.

`KeepaliveProofs.tla` proves, for any finite set of groups, any objects and ping sets, any
width of the sequence number and any `MaxUsers`, under `KeepaliveAssumption`:

- `Invariant`: `Spec => []IInv`, the inductive invariant
- `TypeCorrect`: `Spec => []TypeOK`
- `RetainedStaysPinged`: `Spec => []RetainedIsPinged`
- `UncertainLatched`: `Spec => []UncertainIsFailure`
- `HealthyIsExact`: `Spec => []HealthySetIsExact`
- `HealthySequence`: `Spec => []SequenceInStep`
- `StopIsClean`: `Spec => []StopLeavesNothing`
- `DeadlockFree`: `Spec => []NoCircularWait` (defined in the proofs)
- `LeaseRefinement`: `Spec => ImplementsLeases`

None of these invariants is inductive. The argument of `RetainedIsPinged` is a count: `Counted`
says that an object has at least as many recorded users as there are goroutines holding
it (the cardinality of a set, hence the finite groups), so a deletion, which is sent at
the count one, is sent by the only holder; `HeldUndeleted` says that no deletion still
on its way names a held object, which is where a late request could do harm;
`AloneAtTheGate` combines the two. For the healthy properties, `Messages` and
`Quiet` say that a request nobody waits for implies the error, so that on a healthy
pinger the network holds at most the message of the call in progress; `InCall` relates
the exporter's sets to the objects before and after that one message, and `SetKnown` says
that the client knows the only set that was allocated. `Shape` says what a program
counter implies about the operation and the gate. `DeadlockFree` needs `LoopOwns` besides:
the goroutine has the gate for its ping only. `stopKeepalive` joins that goroutine without
a context, and no group has the gate by then.

The refinement sorts the steps by what they do to the leases (`Effect`): a step moves the
set, latches an error, ends one lease, begins one, or ends all. `EffectRefines` shows each
of these to be a step of the abstract service, or none. A step of the exporter only
moves the set, and what is leased is still in it because of `HeldUndeleted` in the state
after the step. A group begins a lease when its `add` returns (`LoopEffect`, `UseEffect`
and the others follow the code's parts), never on a failed pinger, since each way to
success looks at the error first.

`GroupItemsProofs.tla` proves, for any callers, items and handles, any `MaxClient`, any
length of lists and any size of batches, under `GroupItemsAssumption`, every property of
the module:

- `Invariant`: `Spec => []IInv`, the inductive invariant
- `TypeCorrect`, `RegistrationsCorrect`, `ClientHandlesCorrect`, `OrderCorrect`
- `AddOutcomesCorrect`, `RemoveOutcomesCorrect`, `ReadOutcomesCorrect`,
  `WriteOutcomesCorrect`

The outcome properties speak of a call that returns. `Outcome` extends each to every
moment of the call: what is still in `todo` has the outcome it was given at the start,
what is done has a true one. `Contents` relates an answer to what the server did,
and `Fated` says that an entry is sent exactly when its batch is, and that only a
removal in doubt can misdirect it. That last claim needs `Valid`: a registered item
agrees with the server's table, or the answer to its removal is on its way
(`Removing`); it is kept because the server frees only the handle that was named, and
because a removal that nobody waits for puts the group in doubt. `Numbered` says that
the requests on their way carry client handles that neither the table nor another request
has; `Ordered` that those of the call in progress follow all that are registered, in
the order of the batch (`Ranks` is the lemma about cardinalities behind it). `Waited`
makes the message of the call in progress the only one anybody waits for.

`SessionServerProofs.tla` relates the client's tables to the server's, under the same
`SessionAssumption`, for handles that are reissued and handles that are not:

- `ServerInvariant`: `Spec => []ServerInv`
- `GroupsStay`: `Spec => []RegisteredGroupExists`
- `ReferenceLast`: `Spec => []ReferenceReleasedLast`
- `OnlyGivenUp`: `Spec => OnlyGivenUpGroupsRemoved`
- `Refinement`: `Spec => ImplementsService`

`ServerInv` adds six parts to `IInv`. The heart is `Kept`: while the client holds the handle
of a group it has not begun to dispose of (`Live`), that handle stands for that group, no
request on its way names it and no retry of Close will. A request to remove is sent for
the handle of a group being disposed of, and `Removal` says that until Close retries
removals there is one request at most for a group and that the server has not forgotten
the group before it executes it; so a handle is not free while a request names it, and a
late request never meets a new holder. `Drained` takes the handles of registered groups
out of the retries, and by then (`Phases`) no operation is left that could register one.
`Creation` says that a group is made at most once and that its creator learns the handle
it got; `Held` that a live group is registered or in the hands of one actor; `Actions`
adds to `Shape`. The refinement follows: removals take away groups that are not bound,
`Register` binds one that exists, and every other step maps to an entry, a departure, a
group that comes or goes unnamed, or a stutter.

`SessionCloseProofs.tla` proves `CloseCleans`: `Spec => []CloseNilMeansClean` if
`HandlesUnshared`, that is, if the server never reissues a handle (`Session_distinct`) or
if there is at most one caller (`Session_sequential`), for any number of groups and
handles. The premise is needed: without it `Session_race` is the counterexample. What it
gives is `Confirmed`: when a removal has been acknowledged, the client has no group, and
gets none, under the handle that is about to be deleted from the records, so the deletion
in `disposeGroup` is harmless. With distinct handles that is so because the handle is
retired; with one caller because the goroutine that would create the next group is still
waiting for the acknowledgement (`Pending`), or Close is past all operations. `Accounted`
carries the rest of the proof: a persistent group that was disposed of and is still on the server is
being removed by some actor, or on record, or, once Close is cleaning up, to be retried,
being retried, or the reason of an error. `Named` says that the server has a group under
no other handle than the client knows, `Temporaries` that only the groups of single-item
calls go unrecorded, `Results` what Close has done when it goes on.

`ConnectionProofs.tla` proves, for any callers of Close, under `ConnectionAssumption`:
`Invariant`, `TypeCorrect`, `FailedConnectCleansUp` (`ConnectCleansUp`), `PublishedAlive`
(`ServerAlive`) and `ClosersAgree` (`CloseAgreement`). Its `IInv` follows Connect: `Turns`
says that OPCEnum is given back before the server is begun, `Progress` what each object
has at each step, `Contexts` that an RPC context which ended early implies that
Connect's context has ended and that nothing is left to forward once the object is
published. The last is why the second look at the context in `Connect` is needed:
`stopInit` does not stop a function that has started. `ClosersAnswered` and
`CloserProgress` do the same for the callers of Close. `AdmissionRefinement` is
`Spec => ImplementsService`: all of Connect is invisible (`SetupInvisible`), a counted
operation enters and leaves and a GetServerStatus is not seen (`OperationRefines`), the end
of the admission is the end of the session, the connection goes in `CloseShut` after
`Drained`, and `GiveUp` is `Abandon`, after which it goes in `Teardown`, which waits for the
operation itself (`ClosingRefines`). `Late` says that until one of these the RPC context is
live and the connection open.

`ObjectCallsProofs.tla` proves, for any inputs, ItemIDs, properties and size of batches,
under `ObjectCallsAssumption`: `Invariant`, `TypeCorrect`, `CleanupPossible`
(`CleanupTransportLives`), `AllGivenBack` (`GivenBack`), `WriteOutcomeTold`
(`WriteErrorTruthful`), `BrowseComplete` (`BrowseWhole`) and `WrittenValueKept`
(`ValuesKept`). `Transport` is the part about
the AfterFunc: once the binding stands, forwarding has been stopped and had not begun.
`Ownership` says that as long as nothing has failed the call knows all that it holds,
`Outcome` what its error says of a write at every moment, `Browsing` that what was not
seen is still to be enumerated. `WrittenValueKept` has a second invariant, `VInv`: what
was executed is what `writeVariant` made of a valid input (`Written`), and what a read
returns is what `scalarValue` made of what is stored (`ReadBack`); the theorems of Values
do the rest.

`ValuesProofs.tla` proves what the conversions keep, for every value of the constants
under `ValuesAssumption`:

- `DateRoundTrip`: `automationDate` returns the rounded instant for every DATE
  `dateAutomation` makes; `DateStable`: a DATE that was read is written and read again as
  the same instant. `DateSplit` is the lemma about days before the epoch, whose time of
  day counts backwards.
- `ArrayCountExact`: a count that `arrayCount` returns is the product of the counts of all
  dimensions. The assumption is `MaxElements * MaxCount < Word`, which holds in the code
  (2^20 * (2^32 - 1) < 2^64): as the product is compared with the limit after every
  dimension, the next multiplication cannot wrap.
- `ValueRoundTrip`: what `writeVariant` accepts, a date, an array or a chain of nested
  VARIANTs, `scalarValue` accepts, and it means the same. For chains `ReaderShallower`
  shows that the reader never counts more levels than the writer did.
- `ReadValueSound`: what `scalarValue` accepts, whoever wrote it, is within the bounds of
  its type.

The counts are recursive functions over the dimensions and the elements, and their
theorems need induction over data. The library's induction theorems take an operator as a
parameter and cannot be used with the provers at hand; `Induct` states induction for a set
instead and is proved from the well-foundedness of the naturals, `Along` for an initial
interval, and `Iterate` that a function given by its first value and its steps exists,
without which the recursive definitions would say nothing.

The types of all components are proved (`TypeCorrect`)
and no run checks them.

Only model-checked: all liveness (`CloseReturns`, `OperationsReturn`,
`TransportClosedEventually`, `StopReturns`, `CanceledReturns`), which is outside what TLAPS
handles here. Every invariant, action property and refinement that a passing run checks is
also a theorem.

## Plan

Done, in this order: `Session`, `Keepalive`, `GroupItems` with their proofs; `GroupService`
and the refinement; `Connection`; `ObjectCalls` and `Values` with the pure algorithms; the
proofs about the server's table and about Close; `LeaseService` and the refinements of
Keepalive and Connection; the proofs about values.

What could follow: an abstract specification of the items of a group, as LeaseService is one
of the pinger, and GroupItems shown to implement it; scalars whose conversion has cases of its own (CURRENCY and DECIMAL,
the ranges of the integer types), and the poll loop of the command-line tool.

## Not modelled

- The byte layouts of the NDR codecs. They have no state; what the protocol depends on,
  whether a reply is usable and how deep VARIANTs are nested, is in GroupItems,
  ObjectCalls and Values.
- Scalars whose value is the same bits on both sides, strings and decimals.
- Quality, status and error texts: tables. The errors that tell the outcome of a write
  are modelled, their wording is not.
- The command-line tool: argument parsing, one call of the library, printing.
- GetServerStatus has no module: one RPC without state. Connection has it as the kind of
  operation that is neither counted nor waited for.
- Time: the ping period, the lifetime of a lease at the exporter, the length of a timeout.
  A deadline is a context that may end at any moment.

One behaviour is modelled and no property speaks about it. When a step of `activateDCOM`
fails after RemoteActivation was executed, the connections are closed but the reference
is not released: there is no object yet whose closeContext would do it. No document
promises otherwise, and the exporter drops a reference that is never pinged.
`ConnectCleansUp` therefore speaks of the objects `activateDCOM` has returned.
