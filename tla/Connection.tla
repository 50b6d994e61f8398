----------------------------- MODULE Connection -----------------------------
(***************************************************************************)
(* Setting up and closing a session: Connect (server.go), the resolution   *)
(* of a ProgID through OPCEnum (progid.go), the activation of a server     *)
(* (activateDCOM, dcom.go), and the callers of Server.Close and of one     *)
(* operation once the Server is published: one that the connection admits  *)
(* and counts (beginObjectOperation), or GetServerStatus, which it does    *)
(* neither.                                                                *)
(*                                                                         *)
(* Connect activates up to two objects, OPCEnum and the server, each with  *)
(* an endpoint mapper connection, an object connection, a context for its  *)
(* RPCs and a reference counted by the remote side.  The caller's context  *)
(* may end at any time; every remote call may fail, with or without having *)
(* been executed.  What closeContext does to groups is in Session, what    *)
(* startKeepalive and stopKeepalive do is in Keepalive.                    *)
(***************************************************************************)
EXTENDS Naturals

CONSTANTS
  Closers,  \* the callers of Server.Close
  NoOne     \* not a caller

ASSUME ConnectionAssumption == NoOne \notin Closers

VARIABLES
  pc,        \* what Connect does next
  role,      \* the object being activated: resolver (OPCEnum) or server
  ctx,       \* the context of Connect
  errs,      \* what Connect's error joins
  rpc,       \* the context of each object's RPCs (rpcCtx)
  forward,   \* the AfterFunc that forwards ctx to rpc during the activation
  epm,       \* each activation's endpoint mapper connection
  conn,      \* each object's connection (serverConn)
  ref,       \* the remote side counts a reference for us
  returned,  \* activateDCOM has returned the object

  closer,    \* the caller that runs closeContext
  phase,     \* where each caller of Close is
  waitCtx,   \* the context of each caller of Close
  answer,    \* what each caller of Close was told
  closing,   \* progress of closeContext
  failed,    \* closeContext has met an error
  closeErr,  \* Server.closeErr
  teardown,  \* the goroutine that finishes an abandoned Close
  lifetime,  \* Server.ctx
  op,        \* an operation of the session
  opKind,    \* counted by the connection, or GetServerStatus
  opCtx,     \* its context
  opForward  \* the AfterFunc that forwards lifetime to opCtx

setupVars == <<pc, role, ctx, errs, forward, epm, returned>>
objectVars == <<rpc, conn, ref>>
closeVars == <<closer, phase, waitCtx, answer, closing, failed, closeErr, teardown>>
opVars == <<lifetime, op, opKind, opCtx, opForward>>
vars == <<setupVars, objectVars, closeVars, opVars>>

Roles == {"resolver", "server"}

Init ==
  /\ pc = "begin" /\ role = "resolver" /\ ctx \in {"live", "ended"} /\ errs = {}
  /\ rpc = [r \in Roles |-> "none"] /\ forward = [r \in Roles |-> "none"]
  /\ epm = [r \in Roles |-> "none"] /\ conn = [r \in Roles |-> "none"]
  /\ ref = [r \in Roles |-> FALSE] /\ returned = [r \in Roles |-> FALSE]
  /\ closer = NoOne /\ phase = [c \in Closers |-> "idle"]
  /\ waitCtx = [c \in Closers |-> "live"] /\ answer = [c \in Closers |-> "none"]
  /\ closing = "none" /\ failed = FALSE /\ closeErr = "none" /\ teardown = "none"
  /\ lifetime = "none" /\ op = "idle" /\ opKind = "counted" /\ opCtx = "none"
  /\ opForward = "none"

Goto(s) == pc' = s
Fail(e, s) == errs' = errs \cup {e} /\ Goto(s)
Put(f, v) == [f EXCEPT ![role] = v]

-----------------------------------------------------------------------------
(* The contexts.                                                           *)

\* Connect's context ends, during Connect or after it.
CtxEnds ==
  /\ ctx = "live"
  /\ ctx' = "ended"
  /\ UNCHANGED <<pc, role, errs, forward, epm, returned, objectVars, closeVars, opVars>>

\* context.AfterFunc(ctx, rpcCancel) runs in a goroutine of its own.
ForwardStarts ==
  /\ ctx = "ended"
  /\ \E r \in Roles : forward[r] = "armed" /\ forward' = [forward EXCEPT ![r] = "running"]
  /\ UNCHANGED <<pc, role, ctx, errs, epm, returned, objectVars, closeVars, opVars>>

ForwardCancels ==
  /\ \E r \in Roles : /\ forward[r] = "running"
                      /\ forward' = [forward EXCEPT ![r] = "done"]
                      /\ rpc' = [rpc EXCEPT ![r] = "canceled"]
  /\ UNCHANGED <<pc, role, ctx, errs, epm, returned, conn, ref, closeVars, opVars>>

-----------------------------------------------------------------------------
(* Connect, dialDCOM and ResolveProgID up to the activation.               *)

\* With a CLSID the server is activated at once, with a ProgID OPCEnum first.
Begin ==
  /\ pc = "begin" /\ ctx = "live"
  /\ \/ role' = "server" /\ Goto("parse") /\ UNCHANGED errs
     \/ role' = "resolver" /\ Goto("resolve") /\ UNCHANGED errs
     \/ UNCHANGED role /\ Fail("config", "failed")
  /\ UNCHANGED <<ctx, forward, epm, returned, objectVars, closeVars, opVars>>

BeginCanceled ==
  /\ pc = "begin" /\ ctx = "ended"
  /\ Fail("context", "failed")
  /\ UNCHANGED <<role, ctx, forward, epm, returned, objectVars, closeVars, opVars>>

\* resolveProgID looks at the context and at the ProgID.
Resolve ==
  /\ pc = "resolve"
  /\ \/ ctx = "live" /\ Goto("parse") /\ UNCHANGED errs
     \/ ctx = "live" /\ Fail("config", "failed")
     \/ ctx = "ended" /\ Fail("context", "failed")
  /\ UNCHANGED <<role, ctx, forward, epm, returned, objectVars, closeVars, opVars>>

-----------------------------------------------------------------------------
(* activateDCOM, once for each role.                                       *)

\* parseGUID; then a context without the caller's cancellation, to which the
\* cancellation is forwarded as long as the activation lasts.
Parse ==
  /\ pc = "parse"
  /\ \/ /\ Goto("dialEpm") /\ rpc' = Put(rpc, "live") /\ forward' = Put(forward, "armed")
        /\ UNCHANGED errs
     \/ role = "server" /\ Fail("config", "failed") /\ UNCHANGED <<rpc, forward>>
  /\ UNCHANGED <<role, ctx, epm, returned, conn, ref, closeVars, opVars>>

DialEpm ==
  /\ pc = "dialEpm"
  /\ \/ epm' = Put(epm, "open") /\ Goto("bindActivation") /\ UNCHANGED errs
     \/ UNCHANGED epm /\ Fail("dial", "abort")
  /\ UNCHANGED <<role, ctx, forward, returned, objectVars, closeVars, opVars>>

BindActivation ==
  /\ pc = "bindActivation"
  /\ \/ Goto("activate") /\ UNCHANGED errs
     \/ Fail("bind", "abort")
  /\ UNCHANGED <<role, ctx, forward, epm, returned, objectVars, closeVars, opVars>>

\* RemoteActivation: the remote side counts a reference, whether or not we
\* receive it.
Activate ==
  /\ pc = "activate"
  /\ \/ ref' = Put(ref, TRUE) /\ Goto("decode") /\ UNCHANGED errs
     \/ ref' = Put(ref, TRUE) /\ Fail("activate", "abort")
     \/ UNCHANGED ref /\ Fail("activate", "abort")
  /\ UNCHANGED <<role, ctx, forward, epm, returned, rpc, conn, closeVars, opVars>>

\* The interface data and its result, decodeStandardReference, extractTCPPort.
Decode ==
  /\ pc = "decode"
  /\ \/ Goto("dialServer") /\ UNCHANGED errs
     \/ Fail("reply", "abort")
  /\ UNCHANGED <<role, ctx, forward, epm, returned, objectVars, closeVars, opVars>>

DialServer ==
  /\ pc = "dialServer"
  /\ \/ conn' = Put(conn, "open") /\ Goto("bindServer") /\ UNCHANGED errs
     \/ UNCHANGED conn /\ Fail("dial", "abort")
  /\ UNCHANGED <<role, ctx, forward, epm, returned, rpc, ref, closeVars, opVars>>

\* A failed Bind closes the connection it was tried on.
BindServer ==
  /\ pc = "bindServer"
  /\ \/ UNCHANGED conn /\ Goto("closeEpm") /\ UNCHANGED errs
     \/ conn' = Put(conn, "closed") /\ Fail("bind", "abort")
  /\ UNCHANGED <<role, ctx, forward, epm, returned, rpc, ref, closeVars, opVars>>

\* epmClosed is set before the attempt; an error closes the bound connection.
CloseEpm ==
  /\ pc = "closeEpm"
  /\ epm' = Put(epm, "closed")
  /\ \/ UNCHANGED conn /\ Goto("initialized") /\ UNCHANGED errs
     \/ conn' = Put(conn, "closed") /\ Fail("close", "abort")
  /\ UNCHANGED <<role, ctx, forward, returned, rpc, ref, closeVars, opVars>>

\* Mutant: the forwarding of the caller's context is not stopped.
StopInitForgotten(f) == f

\* stopInit has no effect on a function that has started.
StopInit(f) == IF f = "armed" THEN "stopped" ELSE f

\* The deferred calls of a failed activation: the endpoint mapper connection is
\* closed unless it was, forwarding stops, the RPC context is canceled.
Abort ==
  /\ pc = "abort"
  /\ epm' = Put(epm, IF epm[role] = "open" THEN "closed" ELSE epm[role])
  /\ forward' = Put(forward, StopInit(forward[role]))
  /\ rpc' = Put(rpc, "canceled")
  /\ Goto("failed")
  /\ UNCHANGED <<role, ctx, errs, returned, conn, ref, closeVars, opVars>>

Initialized ==
  /\ pc = "initialized"
  /\ forward' = Put(forward, StopInit(forward[role]))
  /\ returned' = Put(returned, TRUE)
  /\ Goto(IF role = "resolver" THEN "lookup" ELSE "keepalive")
  /\ UNCHANGED <<role, ctx, errs, epm, objectVars, closeVars, opVars>>

-----------------------------------------------------------------------------
(* The rest of ResolveProgID and of Connect.                               *)

\* lookupProgID; closeResolver follows in any case.
Lookup ==
  /\ pc = "lookup"
  /\ \/ UNCHANGED errs
     \/ errs' = errs \cup {"lookup"}
  /\ Goto("release")
  /\ UNCHANGED <<role, ctx, forward, epm, returned, objectVars, closeVars, opVars>>

\* startKeepalive binds under the caller's context and looks at it again before
\* it publishes the pinger; an error closes the object.
StartKeepalive ==
  /\ pc = "keepalive"
  /\ \/ ctx = "live" /\ Goto("check") /\ UNCHANGED errs
     \/ Fail("keepalive", "release")
  /\ UNCHANGED <<role, ctx, forward, epm, returned, objectVars, closeVars, opVars>>

\* Mutant: a canceled Connect returns without closing the connection.
CheckUnclosed ==
  /\ pc = "check"
  /\ \/ ctx = "live" /\ Goto("published") /\ lifetime' = "live" /\ UNCHANGED errs
     \/ ctx = "ended" /\ Fail("context", "failed") /\ UNCHANGED lifetime
  /\ UNCHANGED <<role, ctx, forward, epm, returned, objectVars, closeVars, op, opKind,
                 opCtx, opForward>>

\* connect looks at the context once more; then the Server has a lifetime of its
\* own.
Check ==
  /\ pc = "check"
  /\ \/ ctx = "live" /\ Goto("published") /\ lifetime' = "live" /\ UNCHANGED errs
     \/ ctx = "ended" /\ Fail("context", "release") /\ UNCHANGED lifetime
  /\ UNCHANGED <<role, ctx, forward, epm, returned, objectVars, closeVars, op, opKind,
                 opCtx, opForward>>

\* closeContext of an object that is not published: its reference is released,
\* over a connection that lives as long as its RPC context,
Release ==
  /\ pc = "release"
  /\ \/ rpc[role] = "live" /\ ref' = Put(ref, FALSE) /\ UNCHANGED errs
     \/ ref' \in {ref, Put(ref, FALSE)} /\ errs' = errs \cup {"release"}
  /\ Goto("shut")
  /\ UNCHANGED <<role, ctx, forward, epm, returned, rpc, conn, closeVars, opVars>>

\* then the pinger is stopped and the connection closed, and rpcCancel runs.
Shut ==
  /\ pc = "shut"
  /\ errs' \in {errs, errs \cup {"close"}}
  /\ conn' = Put(conn, "closed") /\ rpc' = Put(rpc, "canceled")
  /\ IF role = "resolver" /\ errs' = {}
     THEN role' = "server" /\ Goto("parse")
     ELSE UNCHANGED role /\ Goto("failed")
  /\ UNCHANGED <<ctx, forward, epm, returned, ref, closeVars, opVars>>

-----------------------------------------------------------------------------
(* An operation of the published Server.                                   *)

\* Between beginObjectOperation and groupOps.Done.
Admitted == op = "running" /\ opKind = "counted"

\* operationContext: the operation's context ends with the session's.
OpBegin ==
  /\ pc = "published" /\ op = "idle"
  /\ opKind' \in {"counted", "status"}
  /\ op' = "linked" /\ opForward' = "armed" /\ opCtx' = lifetime
  /\ UNCHANGED <<setupVars, objectVars, closeVars, lifetime>>

\* The function operationContext returns: it stops forwarding and cancels.
OpDone(s) == /\ op' = s
             /\ opForward' = IF opForward = "armed" THEN "stopped" ELSE opForward
             /\ opCtx' = "canceled"

\* operationError.
OpChecked ==
  /\ op = "linked"
  /\ IF closer = NoOne /\ opCtx = "live"
     THEN op' = "checked" /\ UNCHANGED <<opCtx, opForward>>
     ELSE OpDone("refused")
  /\ UNCHANGED <<setupVars, objectVars, closeVars, lifetime, opKind>>

\* Mutant: an operation that has looked at the closed flag is admitted.
OpAdmittedAlways ==
  /\ op = "checked" /\ opKind = "counted"
  /\ op' = "running"
  /\ UNCHANGED <<setupVars, objectVars, closeVars, lifetime, opKind, opCtx, opForward>>

\* beginObjectOperation: the connection admits and counts an operation until
\* closeContext has begun, unless the pinger has latched an error.
OpAdmitted ==
  /\ op = "checked" /\ opKind = "counted"
  /\ \/ /\ closing \in {"none", "cancel", "admission"}
        /\ op' = "running" /\ UNCHANGED <<opCtx, opForward>>
     \/ OpDone("refused")
  /\ UNCHANGED <<setupVars, objectVars, closeVars, lifetime, opKind>>

\* getServerStatus asks for the latched error only: it is not counted, and runs
\* whether or not closeContext has begun.
OpStatus ==
  /\ op = "checked" /\ opKind = "status"
  /\ \/ op' = "running" /\ UNCHANGED <<opCtx, opForward>>
     \/ OpDone("refused")
  /\ UNCHANGED <<setupVars, objectVars, closeVars, lifetime, opKind>>

OpCanceled ==
  /\ opForward = "armed" /\ lifetime = "canceled"
  /\ opForward' = "done" /\ opCtx' = "canceled"
  /\ UNCHANGED <<setupVars, objectVars, closeVars, lifetime, op, opKind>>

\* The operation returns: its remote objects, if it had any, are given back
\* (ObjectCalls, Session), and then the deferred calls run.
OpReturns ==
  /\ op = "running" /\ OpDone("returned")
  /\ UNCHANGED <<setupVars, objectVars, closeVars, lifetime, opKind>>

-----------------------------------------------------------------------------
(* Server.Close.                                                           *)

\* The first caller marks the server closed and ends its lifetime; the others
\* wait for it.
Close(c) ==
  /\ pc = "published" /\ phase[c] = "idle"
  /\ IF closer = NoOne
     THEN /\ closer' = c /\ closing' = "cancel"
          /\ phase' = [phase EXCEPT ![c] = "closing"]
     ELSE phase' = [phase EXCEPT ![c] = "waiting"] /\ UNCHANGED <<closer, closing>>
  /\ UNCHANGED <<setupVars, objectVars, waitCtx, answer, failed, closeErr, teardown, opVars>>

\* s.cancel; then closeContext closes the admission.
CancelLifetime ==
  /\ closing = "cancel"
  /\ lifetime' = "canceled" /\ closing' = "admission"
  /\ UNCHANGED <<setupVars, objectVars, closer, phase, waitCtx, answer, failed, closeErr,
                 teardown, op, opKind, opCtx, opForward>>

CloseAdmission ==
  /\ closing = "admission"
  /\ closing' = "drain"
  /\ UNCHANGED <<setupVars, objectVars, closer, phase, waitCtx, answer, failed, closeErr,
                 teardown, opVars>>

\* The context of a caller of Close ends.
WaitCtxEnds ==
  /\ \E c \in Closers : /\ waitCtx[c] = "live" /\ phase[c] \in {"closing", "waiting"}
                        /\ waitCtx' = [waitCtx EXCEPT ![c] = "ended"]
  /\ UNCHANGED <<setupVars, objectVars, closer, phase, answer, closing, failed, closeErr,
                 teardown, opVars>>

\* closeContext waits for the operations it has admitted,
Drained ==
  /\ closing = "drain" /\ ~Admitted
  /\ closing' = "release"
  /\ UNCHANGED <<setupVars, objectVars, closer, phase, waitCtx, answer, failed, closeErr,
                 teardown, opVars>>

\* or gives up with its context, cancels the RPCs and leaves the connection to a
\* goroutine that goes on waiting;
GiveUp ==
  /\ closing = "drain" /\ waitCtx[closer] = "ended"
  /\ closing' = "finish" /\ failed' = TRUE
  /\ teardown' = "waiting"
  /\ rpc' = [rpc EXCEPT !["server"] = "canceled"]
  /\ UNCHANGED <<setupVars, conn, ref, closer, phase, waitCtx, answer, closeErr, opVars>>

Teardown ==
  /\ teardown = "waiting" /\ ~Admitted
  /\ teardown' = "done"
  /\ conn' = [conn EXCEPT !["server"] = "closed"]
  /\ UNCHANGED <<setupVars, rpc, ref, closer, phase, waitCtx, answer, closing, failed,
                 closeErr, opVars>>

\* then it removes the groups and releases the server's reference, under the
\* caller's context,
CloseRelease ==
  /\ closing = "release"
  /\ \/ /\ rpc["server"] = "live" /\ ref' = [ref EXCEPT !["server"] = FALSE]
        /\ UNCHANGED failed
     \/ ref' \in {ref, [ref EXCEPT !["server"] = FALSE]} /\ failed' = TRUE
  /\ closing' = "shut"
  /\ UNCHANGED <<setupVars, rpc, conn, closer, phase, waitCtx, answer, closeErr, teardown,
                 opVars>>

\* and stops the pinger, closes the connection, and cancels the RPC context.
CloseShut ==
  /\ closing = "shut"
  /\ failed' \in {failed, TRUE}
  /\ conn' = [conn EXCEPT !["server"] = "closed"]
  /\ rpc' = [rpc EXCEPT !["server"] = "canceled"]
  /\ closing' = "finish"
  /\ UNCHANGED <<setupVars, ref, closer, phase, waitCtx, answer, closeErr, teardown, opVars>>

Result == IF failed THEN "error" ELSE "nil"

\* Mutant: closeErr is not kept for the later callers.
KeptForgotten == "nil"

\* closeErr is stored before closeDone is closed.
Kept == Result

Finish ==
  /\ closing = "finish"
  /\ closing' = "done"
  /\ closeErr' = Kept
  /\ phase' = [phase EXCEPT ![closer] = "done"]
  /\ answer' = [answer EXCEPT ![closer] = Result]
  /\ UNCHANGED <<setupVars, objectVars, closer, waitCtx, failed, teardown, opVars>>

\* A later caller gets the result of the first, or its own context's error.
WaiterTold(c) ==
  /\ phase[c] = "waiting" /\ closing = "done"
  /\ phase' = [phase EXCEPT ![c] = "done"]
  /\ answer' = [answer EXCEPT ![c] = closeErr]
  /\ UNCHANGED <<setupVars, objectVars, closer, waitCtx, closing, failed, closeErr, teardown,
                 opVars>>

\* Mutant: a later caller waits for the first whatever its context does.
WaiterStays(c) == FALSE /\ c \in Closers /\ UNCHANGED vars

WaiterGivesUp(c) ==
  /\ phase[c] = "waiting" /\ waitCtx[c] = "ended"
  /\ phase' = [phase EXCEPT ![c] = "done"]
  /\ answer' = [answer EXCEPT ![c] = "context"]
  /\ UNCHANGED <<setupVars, objectVars, closer, waitCtx, closing, failed, closeErr, teardown,
                 opVars>>

-----------------------------------------------------------------------------
Forwarding == ForwardStarts \/ ForwardCancels
Entry == Begin \/ BeginCanceled \/ Resolve
Activation == \/ Parse \/ DialEpm \/ BindActivation \/ Activate \/ Decode \/ DialServer
              \/ BindServer \/ CloseEpm \/ Abort \/ Initialized
Completion == Lookup \/ StartKeepalive \/ Check \/ Release \/ Shut
Operation == OpBegin \/ OpChecked \/ OpAdmitted \/ OpStatus \/ OpCanceled \/ OpReturns
Closing == \/ CancelLifetime \/ CloseAdmission \/ Drained \/ GiveUp \/ Teardown
           \/ CloseRelease \/ CloseShut \/ Finish

\* Connect has failed, or every caller of Close has its answer.
Ended == /\ pc = "failed" \/ \A c \in Closers : phase[c] = "done"
         /\ UNCHANGED vars

Next == \/ CtxEnds \/ Forwarding \/ Entry \/ Activation \/ Completion \/ Operation
        \/ WaitCtxEnds \/ Closing \/ Ended
        \/ \E c \in Closers : Close(c) \/ WaiterTold(c) \/ WaiterGivesUp(c)

\* Local steps happen; an RPC of Close ends with the context it was given, an
\* operation once its context has ended; waiting callers are woken.
Fairness ==
  /\ WF_vars(CancelLifetime) /\ WF_vars(CloseAdmission) /\ WF_vars(GiveUp)
  /\ WF_vars(Drained) /\ WF_vars(Finish) /\ WF_vars(Teardown)
  /\ WF_vars(OpChecked) /\ WF_vars(OpAdmitted) /\ WF_vars(OpStatus) /\ WF_vars(OpCanceled)
  /\ WF_vars(opCtx = "canceled" /\ OpReturns)
  /\ WF_vars(closer # NoOne /\ waitCtx[closer] = "ended" /\ (CloseRelease \/ CloseShut))
  /\ \A c \in Closers : WF_vars(WaiterTold(c)) /\ WF_vars(WaiterGivesUp(c))

Spec == Init /\ [][Next]_vars /\ Fairness

-----------------------------------------------------------------------------
\* Every variable holds what the code can put there.
Pcs == {"begin", "resolve", "parse", "dialEpm", "bindActivation", "activate", "decode",
        "dialServer", "bindServer", "closeEpm", "abort", "initialized", "lookup",
        "keepalive", "check", "release", "shut", "published", "failed"}

ErrorTags == {"config", "context", "dial", "bind", "activate", "reply", "close", "lookup",
              "keepalive", "release"}

TypeOK ==
  /\ pc \in Pcs /\ role \in Roles /\ ctx \in {"live", "ended"} /\ errs \subseteq ErrorTags
  /\ rpc \in [Roles -> {"none", "live", "canceled"}]
  /\ forward \in [Roles -> {"none", "armed", "running", "stopped", "done"}]
  /\ epm \in [Roles -> {"none", "open", "closed"}]
  /\ conn \in [Roles -> {"none", "open", "closed"}]
  /\ ref \in [Roles -> BOOLEAN] /\ returned \in [Roles -> BOOLEAN]
  /\ closer \in Closers \cup {NoOne}
  /\ phase \in [Closers -> {"idle", "closing", "waiting", "done"}]
  /\ waitCtx \in [Closers -> {"live", "ended"}]
  /\ answer \in [Closers -> {"none", "nil", "error", "context"}]
  /\ closing \in {"none", "cancel", "admission", "drain", "release", "shut", "finish", "done"}
  /\ failed \in BOOLEAN /\ closeErr \in {"none", "nil", "error"}
  /\ teardown \in {"none", "waiting", "done"}
  /\ lifetime \in {"none", "live", "canceled"}
  /\ op \in {"idle", "linked", "checked", "running", "refused", "returned"}
  /\ opKind \in {"counted", "status"}
  /\ opCtx \in {"none", "live", "canceled"}
  /\ opForward \in {"none", "armed", "stopped", "done"}

\* Nothing of the object is open on our side.
Gone(r) == epm[r] # "open" /\ conn[r] # "open" /\ rpc[r] # "live"

\* A Connect that fails, at whatever step and whenever its context ends, leaves
\* no connection and no RPC context behind, of the server or of OPCEnum.  The
\* reference of an object that activateDCOM had returned is given back, or the
\* error of Connect says that the release failed; of one whose activation failed
\* after RemoteActivation nothing is said here, and the code does not release it.
\* A Connect that succeeds has given everything of OPCEnum back.
ConnectCleansUp ==
  /\ pc = "failed" => /\ \A r \in Roles : Gone(r)
                      /\ \A r \in Roles : returned[r] /\ ref[r] => "release" \in errs
  /\ pc = "published" => Gone("resolver") /\ ~ref["resolver"]

\* A published Server works until it is closed: whenever Connect's context ends,
\* before or after Connect returns, the session's RPC context stays alive, its
\* connection open and its reference counted.
ServerAlive ==
  pc = "published" /\ closer = NoOne =>
    rpc["server"] = "live" /\ conn["server"] = "open" /\ ref["server"]

\* Every caller of Close learns the same: the first caller's result, or that its
\* own context ended; and nil means that the session is closed and given back,
\* and that no operation it had admitted is still running (a GetServerStatus may
\* be: Close ends its context and does not wait for it).
CloseAgreement ==
  \A c \in Closers : phase[c] = "done" =>
    /\ answer[c] # "context" => answer[c] = answer[closer] /\ answer[c] = Result
    /\ answer[c] = "nil" => Gone("server") /\ ~ref["server"] /\ ~Admitted

-----------------------------------------------------------------------------
(* The abstract session *)

Service == INSTANCE GroupService WITH
  Users <- {"op"}, Groups <- {}, MaxGroupID <- 0, NoGroup <- NoOne,
  inside <- IF Admitted THEN {"op"} ELSE {},
  bound <- [i \in 1..0 |-> NoOne], used <- 0, alive <- {},
  ended <- closing \notin {"none", "cancel", "admission"},
  link <- IF pc # "published" THEN "standing"
          ELSE IF conn["server"] = "closed" THEN "gone"
          ELSE IF rpc["server"] = "canceled" THEN "broken" ELSE "standing"

\* What admits operations and ends the connection here is what Session refines there:
\* an admitted operation enters until the admission is closed; once a caller has the
\* Server, its RPC context ends under an operation only if Close gives up, and the
\* connection is closed with nobody admitted inside, although operations look at the
\* closed flag early and contexts end meanwhile.  A GetServerStatus is never inside.
ImplementsService == Service!Spec

\* A caller of Close returns once its context has ended, whatever the others do;
\* and after Close no operation goes on running, whether Close waits for it or not.
CloseReturns ==
  /\ \A c \in Closers : waitCtx[c] = "ended" ~> phase[c] = "done"
  /\ closer # NoOne ~> [](op # "running")
=============================================================================
