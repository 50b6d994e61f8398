----------------------------- MODULE ObjectCalls -----------------------------
(***************************************************************************)
(* The calls that build a temporary object and give it back: ReadItem      *)
(* (read.go), WriteItem (write.go), BrowseItemIDs (browse.go) and          *)
(* ItemProperties (properties.go).  Each binds a transport for IRemUnknown *)
(* whose lifetime is the session's, so that what was obtained can be       *)
(* released after the caller's context has ended (bindCleanupTransport,    *)
(* rpc.go), then works along a fixed plan, and unwinds.                    *)
(*                                                                         *)
(* One call is followed from its start to its return, with the caller's    *)
(* context, the session's Close and the server as its environment.  Every  *)
(* remote call may be refused, fail before it was executed, or be executed *)
(* with its reply lost or unusable.                                        *)
(***************************************************************************)
EXTENDS Values

CONSTANTS
  Kinds,      \* the calls considered, of read, write, browse and properties
  Inputs,     \* what WriteItem is given: records [kind, value]
  StoredData, \* what the item may hold at first: records [kind, wire]
  Items,      \* the ItemIDs of the server's address space
  Batch,      \* ItemIDs asked of IEnumString::Next at once (500)
  Properties, \* the property IDs an item may have
  None        \* no value

ASSUME ObjectCallsAssumption ==
  /\ Kinds \subseteq {"read", "write", "browse", "properties"}
  /\ Batch \in Nat \ {0} /\ IsFiniteSet(Items)
  /\ \A x \in Inputs : x.kind \in ValueKinds /\ x.value \in Writable(x.kind)
  /\ \A x \in StoredData : x.kind \in ValueKinds /\ x.wire \in Readable(x.kind)

VARIABLES
  kind,       \* the call
  input,      \* the value of WriteItem
  pc,         \* what the call does next
  ctx,        \* the operation's context: live or ended
  session,    \* open, closed (no admission), down (its lifetime canceled)
  forward,    \* the AfterFunc that forwards ctx to the transport while binding
  transport,  \* the context of the IRemUnknown transport
  conns,      \* the bound interface connections, oldest first
  refs,       \* the references the call will release
  group,      \* the temporary group is known to exist
  errs,       \* what the returned error joins; {} is nil
  acked,      \* the local variable acknowledged of writeItem
  seen,       \* the ItemIDs collected
  result,     \* what the call returns besides the error
  held,       \* the references the server counts for this call
  exists,     \* the temporary group exists on the server
  stored,     \* the VARIANT the item holds
  applied,    \* the write was executed
  left        \* the ItemIDs not enumerated yet

callVars == <<kind, input>>
contextVars == <<ctx, session, forward, transport>>
localVars == <<conns, refs, group, acked, seen>>
serverVars == <<held, exists, stored, applied, left>>
vars == <<callVars, pc, contextVars, localVars, errs, result, serverVars>>

\* The steps between the binding of IRemUnknown and the unwinding.
Plan ==
  [read |-> <<"addGroup", "groupReference", "bindItem", "addItem", "querySync",
              "bindSync", "read">>,
   write |-> <<"addGroup", "groupReference", "bindItem", "addItem", "querySync",
               "bindSync", "write">>,
   browse |-> <<"queryBrowse", "bindBrowse", "browse", "enumReference", "bindEnum",
                "next">>,
   properties |-> <<"queryProperties", "exporter", "bindProperties", "available",
                    "values">>]

PlanOf(k) == {Plan[k][i] : i \in DOMAIN Plan[k]}

\* What follows the step s of the call k: the last one is followed by unwinding.
After(k, s) ==
  LET i == CHOOSE j \in DOMAIN Plan[k] : Plan[k][j] = s
  IN IF i = Len(Plan[k]) THEN "unwind" ELSE Plan[k][i + 1]

Init ==
  /\ kind \in Kinds
  /\ input \in IF kind = "write" THEN Inputs ELSE {None}
  /\ stored \in IF kind = "read" THEN StoredData ELSE {None}
  /\ pc = "begin" /\ ctx \in {"live", "ended"} /\ session = "open"
  /\ forward = "none" /\ transport = "none" /\ conns = <<>> /\ refs = {}
  /\ group = FALSE /\ errs = {} /\ acked = FALSE /\ seen = {} /\ result = None
  /\ held = {} /\ exists = FALSE /\ applied = FALSE /\ left = Items

\* The reference each step obtains, the interface each bind step connects to.
Grant == [addGroup |-> "item", querySync |-> "sync", queryBrowse |-> "browse",
          browse |-> "enum", queryProperties |-> "properties"]
Binds == [bindItem |-> "item", bindSync |-> "sync", bindBrowse |-> "browse",
          bindEnum |-> "enum", bindProperties |-> "properties"]

-----------------------------------------------------------------------------
(* The environment, as long as the call has not returned.                  *)

\* The caller's deadline or cancellation, or Server.Close through
\* operationContext.
CtxEnds ==
  /\ ctx = "live" /\ pc # "returned"
  /\ ctx' = "ended"
  /\ UNCHANGED <<callVars, pc, session, forward, transport, localVars, errs, result,
                 serverVars>>

\* closeContext closes admission; the lifetime of the session's RPCs is
\* canceled when the calls are drained, or when Close gives up waiting.
SessionCloses ==
  /\ session = "open" /\ pc # "returned"
  /\ session' = "closed"
  /\ UNCHANGED <<callVars, pc, ctx, forward, transport, localVars, errs, result,
                 serverVars>>

\* beginObjectOperation has been passed and groupOps.Done not yet called.
Admitted == pc \notin {"begin", "returned"}

Lifetime(s) == /\ session' = s
               /\ transport' = IF transport = "live" THEN "canceled" ELSE transport
               /\ UNCHANGED <<callVars, pc, ctx, forward, localVars, errs, result, serverVars>>

SessionDown == session = "closed" /\ pc = "begin" /\ Lifetime("down")
SessionGivesUp == session = "closed" /\ Admitted /\ Lifetime("abandoned")

\* context.AfterFunc runs its function in a goroutine of its own.
ForwardStarts ==
  /\ forward = "armed" /\ ctx = "ended"
  /\ forward' = "running"
  /\ UNCHANGED <<callVars, pc, ctx, session, transport, localVars, errs, result,
                 serverVars>>

ForwardCancels ==
  /\ forward = "running"
  /\ forward' = "done" /\ transport' = "canceled"
  /\ UNCHANGED <<callVars, pc, ctx, session, localVars, errs, result, serverVars>>

-----------------------------------------------------------------------------
(* The call up to the binding of IRemUnknown.                              *)

Goto(s) == pc' = s
Fail(e, s) == errs' = errs \cup {e} /\ Goto(s)

\* WriteItem converts its value before anything else.
Valid == kind = "write" => writeVariant(input).ok

\* The value is validated first; then the operation's context, the admission,
\* with a latched error of the pinger, and the context once more.
Refuse ==
  /\ pc = "begin"
  /\ \/ ~Valid /\ Fail("value", "returned")
     \/ Valid /\ session # "open" /\ Fail("closed", "returned")
     \/ Valid /\ Fail("keepalive", "returned")
     \/ Valid /\ ctx = "ended" /\ Fail("context", "returned")
  /\ UNCHANGED <<callVars, contextVars, localVars, result, serverVars>>

Admit ==
  /\ pc = "begin" /\ session = "open" /\ ctx = "live"
  /\ Valid
  /\ Goto("arm")
  /\ UNCHANGED <<callVars, contextVars, localVars, errs, result, serverVars>>

\* The activation omitted IRemUnknown, or the context has ended.
ArmRefused ==
  /\ pc = "arm"
  /\ \/ ctx = "ended" /\ Fail("context", "leave")
     \/ Fail("activation", "leave")
  /\ UNCHANGED <<callVars, contextVars, localVars, result, serverVars>>

\* Mutant: the binding does not follow the operation's context.
ArmUnforwarded ==
  /\ pc = "arm" /\ ctx = "live"
  /\ Goto("bindRemote")
  /\ forward' = "stopped"
  /\ transport' = IF session = "abandoned" THEN "canceled" ELSE "live"
  /\ UNCHANGED <<callVars, ctx, session, localVars, errs, result, serverVars>>

\* bindCleanupTransport: the transport follows the session's lifetime, and the
\* operation's context as long as the binding lasts.
Arm ==
  /\ pc = "arm" /\ ctx = "live"
  /\ Goto("bindRemote")
  /\ forward' = "armed"
  /\ transport' = IF session = "abandoned" THEN "canceled" ELSE "live"
  /\ UNCHANGED <<callVars, ctx, session, localVars, errs, result, serverVars>>

\* bind returns a connection or an error; a canceled dial may still succeed.
BindRemote ==
  /\ pc = "bindRemote"
  /\ \/ conns' = <<"remote">> /\ UNCHANGED errs
     \/ errs' = errs \cup {"bind"} /\ UNCHANGED conns
  /\ Goto("stopBind")
  /\ UNCHANGED <<callVars, contextVars, refs, group, acked, seen, result, serverVars>>

\* stopBind has no effect on a function that has started.
StopBind ==
  /\ pc = "stopBind"
  /\ forward' = IF forward = "armed" THEN "stopped" ELSE forward
  /\ Goto("checkBind")
  /\ UNCHANGED <<callVars, ctx, session, transport, localVars, errs, result, serverVars>>

\* Mutant: only the transport's context is looked at.
BindStandsUnjoined == errs = {} /\ transport = "live"

\* errors.Join(ctx.Err(), transportCtx.Err()) decides whether the binding stands.
BindStands == errs = {} /\ ctx = "live" /\ transport = "live"

CheckBind ==
  /\ pc = "checkBind"
  /\ \/ /\ BindStands /\ Goto(Plan[kind][1])
        /\ UNCHANGED <<errs, conns, transport>>
     \/ /\ BindStands /\ Fail("bind", "unwind")  \* NewRemoteUnknownClient
        /\ UNCHANGED <<conns, transport>>
     \/ /\ ~BindStands /\ Fail("bind", "leave")
        /\ conns' = <<>> /\ transport' = "canceled"
  /\ UNCHANGED <<callVars, ctx, session, forward, refs, group, acked, seen, result,
                 serverVars>>

-----------------------------------------------------------------------------
(* The steps of the plans.                                                 *)

\* The remote calls of a step run on a live transport; those of the interface
\* connections need only the operation's context, which the callee observes.
OnRemote(s) == s \in {"querySync", "queryBrowse", "queryProperties"}
CanAnswer(s) == OnRemote(s) => transport = "live"

\* Mutant: the reference of IOPCSyncIO is not appended to the list.
RememberedLess(s) == IF s \in {"addGroup", "browse", "querySync"} THEN {} ELSE {Grant[s]}

\* A step that obtains a reference.  It is remembered for the release at once,
\* except those of AddGroup and of the enumerator, which must be decoded first.
Remembered(s) == IF s \in {"addGroup", "browse"} THEN {} ELSE {Grant[s]}

Obtain ==
  /\ pc \in DOMAIN Grant /\ CanAnswer(pc)
  /\ held' = held \cup {Grant[pc]}
  /\ exists' = (exists \/ pc = "addGroup")
  /\ refs' = refs \cup Remembered(pc)
  /\ group' = (group \/ pc = "addGroup")
  /\ Goto(After(kind, pc))
  /\ UNCHANGED <<callVars, contextVars, conns, acked, seen, errs, result, stored, applied,
                 left>>

\* Refused, not executed, or executed with the reply lost or unusable.
ObtainFails ==
  /\ pc \in DOMAIN Grant
  /\ \/ UNCHANGED <<held, exists>>
     \/ held' = held \cup {Grant[pc]} /\ exists' = (exists \/ pc = "addGroup")
  /\ Fail("call", "unwind")
  /\ UNCHANGED <<callVars, contextVars, localVars, result, stored, applied, left>>

\* decodeStandardReference, and the check of the object exporter: a reference
\* that is malformed or of another exporter is not appended.
Decode ==
  /\ pc \in {"groupReference", "enumReference", "exporter"}
  /\ \/ /\ Goto(After(kind, pc)) /\ UNCHANGED errs
        /\ refs' = CASE pc = "groupReference" -> refs \cup {"item"}
                     [] pc = "enumReference" -> refs \cup {"enum"}
                     [] pc = "exporter" -> refs
     \/ Fail("reference", "unwind") /\ UNCHANGED refs
  /\ UNCHANGED <<callVars, contextVars, conns, group, acked, seen, result, serverVars>>

\* bindObjectInterface.
Bind ==
  /\ pc \in DOMAIN Binds
  /\ \/ conns' = Append(conns, Binds[pc]) /\ Goto(After(kind, pc)) /\ UNCHANGED errs
     \/ Fail("bind", "unwind") /\ UNCHANGED conns
  /\ UNCHANGED <<callVars, contextVars, refs, group, acked, seen, result, serverVars>>

\* AddItems in the temporary group: the group owns the item.
AddItem ==
  /\ pc = "addItem"
  /\ \/ Goto(After(kind, pc)) /\ UNCHANGED errs
     \/ Fail("call", "unwind")
  /\ UNCHANGED <<callVars, contextVars, localVars, result, serverVars>>

\* IOPCSyncIO.Read: a VARIANT that cannot be converted is an error.
Read ==
  /\ pc = "read"
  /\ LET v == scalarValue(stored.kind, stored.wire) IN
     \/ v.ok /\ result' = v.value /\ UNCHANGED errs
     \/ ~v.ok /\ errs' = errs \cup {"value"} /\ UNCHANGED result
     \/ errs' = errs \cup {"call"} /\ UNCHANGED result
  /\ Goto("unwind")
  /\ UNCHANGED <<callVars, contextVars, localVars, serverVars>>

\* The server executes a write.
Execute == /\ stored' = [kind |-> input.kind, wire |-> writeVariant(input).wire]
           /\ applied' = TRUE

\* IOPCSyncIO.Write acknowledged.
WriteAcknowledged ==
  /\ pc = "write"
  /\ Execute
  /\ acked' = TRUE
  /\ Goto("unwind")
  /\ UNCHANGED <<callVars, contextVars, conns, refs, group, seen, errs, result, held,
                 exists, left>>

\* Mutant: the error of a lost reply is returned as it is.
UncertainPlain == "call"

\* The server answers with a failing HRESULT, of the call or of the item.
WriteRefused ==
  /\ pc = "write"
  /\ Fail("call", "unwind")
  /\ UNCHANGED <<callVars, contextVars, localVars, result, serverVars>>

\* unknownWrite.
Uncertain == "unknown"

\* Invoke failed, or the item's HRESULT is missing: executed or not.
WriteUncertain ==
  /\ pc = "write"
  /\ \/ Execute
     \/ UNCHANGED <<stored, applied>>
  /\ Fail(Uncertain, "unwind")
  /\ UNCHANGED <<callVars, contextVars, localVars, result, held, exists, left>>

\* collectItemIDs looks at the context before every call.
NextCheck ==
  /\ pc = "next"
  /\ IF ctx = "live" THEN Goto("reply") /\ UNCHANGED errs ELSE Fail("context", "unwind")
  /\ UNCHANGED <<callVars, contextVars, localVars, result, serverVars>>

\* IEnumString::Next.  The server repeats items as it likes, but S_OK carries a
\* full batch, and S_FALSE fewer items, the last ones among them.
Batches == {b \in SUBSET Items : Cardinality(b) <= Batch}

FullBatch ==
  /\ pc = "reply"
  /\ \E b \in Batches : /\ Cardinality(b) = Batch
                        /\ left' = left \ b
                        /\ seen' = seen \cup b
  /\ Goto("next")
  /\ UNCHANGED <<callVars, contextVars, conns, refs, group, acked, errs, result, held,
                 exists, stored, applied>>

\* Mutant: S_FALSE ends the loop before its items are added.
CollectedLess(b) == seen

\* S_FALSE still carries the final partial batch.
Collected(b) == seen \cup b

LastBatch ==
  /\ pc = "reply"
  /\ \E b \in Batches : /\ Cardinality(b) < Batch /\ left \subseteq b
                        /\ result' = Collected(b)
  /\ left' = {}
  /\ Goto("unwind")
  /\ UNCHANGED <<callVars, contextVars, localVars, errs, held, exists, stored, applied>>

\* The call failed, or its reply is inconsistent: no items at S_OK, a partial
\* batch at S_OK, a full one at S_FALSE, an empty ItemID.
NextFails ==
  /\ pc = "reply"
  /\ \E b \in Batches : left' = left \ b
  /\ Fail("call", "unwind")
  /\ UNCHANGED <<callVars, contextVars, localVars, result, held, exists, stored, applied>>

\* QueryAvailableProperties: without properties there is nothing more to ask.
Available ==
  /\ pc = "available"
  /\ \/ \E ids \in SUBSET Properties :
          /\ seen' = ids
          /\ IF ids = {} THEN result' = {} /\ Goto("unwind")
             ELSE UNCHANGED result /\ Goto("values")
          /\ UNCHANGED errs
     \/ Fail("call", "unwind") /\ UNCHANGED <<seen, result>>
  /\ UNCHANGED <<callVars, contextVars, conns, refs, group, acked, serverVars>>

\* GetItemProperties: a value or an error for each of them.
PropertyValues ==
  /\ pc = "values"
  /\ \/ \E v \in [seen -> {"value", "error"}] : result' = v /\ UNCHANGED errs
     \/ errs' = errs \cup {"call"} /\ UNCHANGED result
  /\ Goto("unwind")
  /\ UNCHANGED <<callVars, contextVars, localVars, serverVars>>

-----------------------------------------------------------------------------
(* The unwinding, in the reverse order of the deferred calls.  Clean-up     *)
(* runs under contexts of its own, bounded by a timeout.                    *)

\* closeRPC of an interface connection, the last one first.
CloseConn ==
  /\ pc = "unwind" /\ Len(conns) > 1
  /\ conns' = Front(conns)
  /\ errs' \in {errs, errs \cup {"close"}}
  /\ UNCHANGED <<callVars, pc, contextVars, refs, group, acked, seen, result, serverVars>>

ReleaseNothing ==
  /\ pc = "unwind" /\ Len(conns) = 1 /\ refs = {}
  /\ Goto("remove")
  /\ UNCHANGED <<callVars, contextVars, localVars, errs, result, serverVars>>

\* RemoteRelease of everything obtained, in one call.
Release ==
  /\ pc = "unwind" /\ Len(conns) = 1 /\ refs # {} /\ transport = "live"
  /\ held' = held \ refs
  /\ Goto("remove")
  /\ UNCHANGED <<callVars, contextVars, localVars, errs, result, exists, stored, applied,
                 left>>

ReleaseFails ==
  /\ pc = "unwind" /\ Len(conns) = 1 /\ refs # {}
  /\ held' \in {held, held \ refs}
  /\ Fail("release", "remove")
  /\ UNCHANGED <<callVars, contextVars, localVars, result, exists, stored, applied, left>>

\* RemoveGroup, once AddGroup was answered.
RemoveGroup ==
  /\ pc = "remove"
  /\ \/ ~group /\ UNCHANGED <<exists, errs>>
     \/ group /\ exists' = FALSE /\ UNCHANGED errs
     \/ group /\ exists' \in {exists, FALSE} /\ errs' = errs \cup {"remove"}
  /\ Goto("closeRemote")
  /\ UNCHANGED <<callVars, contextVars, localVars, result, held, stored, applied, left>>

CloseRemote ==
  /\ pc = "closeRemote"
  /\ conns' = <<>>
  /\ errs' \in {errs, errs \cup {"close"}}
  /\ Goto("leave")
  /\ UNCHANGED <<callVars, contextVars, refs, group, acked, seen, result, serverVars>>

\* cancelRemote and groupOps.Done; the caller gets no result with an error, and
\* WriteItem marks an error that follows the acknowledgement.
Leave ==
  /\ pc = "leave"
  /\ Goto("returned")
  /\ transport' = IF transport = "live" THEN "canceled" ELSE transport
  /\ errs' = IF acked /\ errs # {} THEN errs \cup {"acknowledged"} ELSE errs
  /\ result' = IF errs = {} THEN result ELSE None
  /\ UNCHANGED <<callVars, ctx, session, forward, localVars, serverVars>>

-----------------------------------------------------------------------------
Environment == CtxEnds \/ SessionCloses \/ SessionDown \/ SessionGivesUp
Forwarding == ForwardStarts \/ ForwardCancels
Start == Refuse \/ Admit \/ ArmRefused \/ Arm
Binding == StopBind \/ CheckBind
Steps == \/ Obtain \/ ObtainFails \/ Decode \/ Bind \/ AddItem \/ Read
         \/ WriteAcknowledged \/ WriteRefused \/ WriteUncertain
         \/ NextCheck \/ FullBatch \/ LastBatch \/ NextFails
         \/ Available \/ PropertyValues
Unwind == \/ CloseConn \/ ReleaseNothing \/ Release \/ ReleaseFails \/ RemoveGroup
          \/ CloseRemote \/ Leave
Returned == pc = "returned" /\ UNCHANGED vars

Next == \/ Environment \/ Forwarding \/ Start \/ BindRemote \/ Binding \/ Steps \/ Unwind
        \/ Returned

\* Local steps and bounded clean-up happen; a remote call of the plan ends once
\* the operation's context has ended, and a dial once the transport's has.
Fairness ==
  /\ WF_vars(Forwarding) /\ WF_vars(Start) /\ WF_vars(Binding) /\ WF_vars(Unwind)
  /\ WF_vars(ctx = "ended" /\ Steps)
  /\ WF_vars(transport = "canceled" /\ BindRemote)

Spec == Init /\ [][Next]_vars /\ Fairness

-----------------------------------------------------------------------------
\* Every variable holds what the code can put there.
Pcs == {"begin", "arm", "bindRemote", "stopBind", "checkBind", "reply", "unwind", "remove",
        "closeRemote", "leave", "returned"} \cup UNION {PlanOf(k) : k \in Kinds}

Interfaces == {"item", "sync", "browse", "enum", "properties"}

ErrorTags == {"value", "closed", "keepalive", "activation", "context", "bind", "call",
              "reference", "unknown", "close", "release", "remove", "acknowledged"}

TypeOK ==
  /\ kind \in Kinds /\ pc \in Pcs
  /\ ctx \in {"live", "ended"} /\ session \in {"open", "closed", "abandoned", "down"}
  /\ forward \in {"none", "armed", "running", "stopped", "done"}
  /\ transport \in {"none", "live", "canceled"}
  /\ conns \in Seq(Interfaces \cup {"remote"})
  /\ refs \subseteq Interfaces /\ held \subseteq Interfaces
  /\ group \in BOOLEAN /\ exists \in BOOLEAN /\ acked \in BOOLEAN /\ applied \in BOOLEAN
  /\ errs \subseteq ErrorTags /\ seen \subseteq Items \cup Properties
  /\ left \subseteq Items

\* The IRemUnknown transport is bound and not yet closed.
Bound == pc \in {"unwind", "remove", "closeRemote", "reply"} \cup PlanOf(kind)

\* As long as a call has a bound IRemUnknown transport, that transport is alive,
\* whatever happened to the operation's context while or after it was bound: a
\* canceled call can still release what it obtained.  Only a Close that gave up
\* waiting for the call takes it away.
CleanupTransportLives == Bound => transport = "live" \/ session = "abandoned"

\* What a call obtained is given back.  Without an error nothing is left behind
\* on the server, neither a reference nor the temporary group; and whatever step
\* failed, what the call knew it had obtained is released, or the returned error
\* reports that the clean-up failed.
GivenBack ==
  pc = "returned" =>
    /\ errs = {} => held = {} /\ ~exists
    /\ refs \cap held # {} => "release" \in errs
    /\ group /\ exists => "remove" \in errs

\* WriteItem tells the caller what happened to the write: nil is an executed,
\* acknowledged write; an executed write that was not acknowledged is reported
\* as unknown; an acknowledged one with a failed clean-up as acknowledged; any
\* other error means that it was not executed.
WriteErrorTruthful ==
  pc = "returned" /\ kind = "write" =>
    /\ errs = {} => applied /\ acked
    /\ applied /\ ~acked => "unknown" \in errs
    /\ "acknowledged" \in errs <=> acked /\ errs # {}
    /\ errs # {} /\ applied => errs \cap {"unknown", "acknowledged"} # {}

\* The list of BrowseItemIDs is never partial: with a nil error it holds every
\* ItemID of the server, whatever batches and repetitions they came in.
BrowseWhole == pc = "returned" /\ kind = "browse" /\ errs = {} => result = Items

\* What a write was given is what a later read of the item returns: every value
\* the writer accepts is one the reader accepts, with the same meaning.  And a
\* value that is read is within the bounds of its type.
ValuesKept ==
  /\ applied => LET v == scalarValue(stored.kind, stored.wire)
                IN v.ok /\ v.value = Meaning(input)
  /\ pc = "returned" /\ kind = "read" /\ errs = {} => Sound(stored.kind, result)

\* A call whose context has ended returns, with everything it bound closed.
CanceledReturns == ctx = "ended" ~> pc = "returned" /\ conns = <<>>
=============================================================================
