-------------------------- MODULE ConnectionProofs --------------------------
(***************************************************************************)
(* Theorems about Connection, for any callers of Close.                    *)
(***************************************************************************)
EXTENDS Connection, TLAPS

-----------------------------------------------------------------------------
(* The inductive invariant.                                                *)

\* Nothing of an object has been asked for.
Fresh(r) == /\ rpc[r] = "none" /\ forward[r] = "none" /\ epm[r] = "none"
            /\ conn[r] = "none" /\ ~ref[r] /\ ~returned[r]

\* The resolver comes first and is given back before the server is begun.
Turns ==
  /\ role = "resolver" => Fresh("server")
  /\ role = "server" => Gone("resolver") /\ ~ref["resolver"]
  /\ pc \in {"begin", "resolve", "lookup"} => role = "resolver"
  /\ pc \in {"keepalive", "check", "published"} => role = "server"

\* What an object has at each step of its activation and release.
Progress ==
  /\ pc \in {"begin", "resolve", "parse"} => Fresh(role)
  /\ pc = "dialEpm" => epm[role] # "open"
  /\ pc \in {"dialEpm", "bindActivation", "activate", "decode", "dialServer", "abort"} =>
       conn[role] # "open"
  /\ pc \in {"bindServer", "closeEpm", "initialized", "lookup", "keepalive", "check"} =>
       conn[role] = "open"
  /\ pc \in {"decode", "dialServer", "bindServer", "closeEpm", "initialized", "lookup",
             "keepalive", "check"} => ref[role]
  /\ pc \in {"initialized", "lookup", "keepalive", "check", "release", "shut",
             "published"} => epm[role] # "open"
  /\ pc \in {"dialEpm", "bindActivation", "activate", "decode", "dialServer", "bindServer",
             "closeEpm", "abort", "initialized"} => ~returned[role]
  /\ pc = "shut" => (ref[role] => "release" \in errs)

\* An RPC context ends before its object is closed only if Connect's has; after
\* the activation nothing is left to be forwarded.
Contexts ==
  /\ \A r \in Roles : forward[r] \in {"running", "done"} => ctx = "ended"
  /\ pc \in {"dialEpm", "bindActivation", "activate", "decode", "dialServer", "bindServer",
             "closeEpm", "initialized", "keepalive", "check"} =>
       rpc[role] = "live" \/ ctx = "ended"
  /\ pc \in {"dialEpm", "bindActivation", "activate", "decode", "dialServer", "bindServer",
             "closeEpm", "initialized"} => forward[role] # "none"
  /\ pc \in {"keepalive", "check"} => forward[role] \in {"running", "stopped", "done"}
  /\ pc = "published" => forward["server"] = "stopped"

SetupInv == Turns /\ Progress /\ Contexts /\ ConnectCleansUp

\* The closer runs closeContext, the others wait or have been told its result.
ClosersAnswered ==
  /\ pc # "published" => closer = NoOne
  /\ closing = "none" <=> closer = NoOne
  /\ closer = NoOne => \A c \in Closers : phase[c] = "idle"
  /\ closer # NoOne => phase[closer] = IF closing = "done" THEN "done" ELSE "closing"
  /\ closing = "done" => closeErr = Result /\ answer[closer] = Result
  /\ \A c \in Closers : phase[c] = "done" /\ answer[c] # "context" =>
       closing = "done" /\ answer[c] = Result

\* What the closer has done.
CloserProgress ==
  /\ teardown # "none" => closer # NoOne /\ failed
  /\ closing \in {"release", "shut"} => ~Admitted
  /\ closing = "shut" /\ ~failed => ~ref["server"]
  /\ closing \in {"finish", "done"} /\ ~failed =>
       conn["server"] # "open" /\ rpc["server"] # "live" /\ ~ref["server"] /\ ~Admitted

IInv == TypeOK /\ SetupInv /\ ServerAlive /\ ClosersAnswered /\ CloserProgress

-----------------------------------------------------------------------------
(* The initial states.                                                     *)

LEMMA InitIInv == Init => IInv
<1> SUFFICES ASSUME Init PROVE IInv
  OBVIOUS
<1>1. TypeOK
  BY DEF Init, TypeOK, Pcs, Roles
<1>2. SetupInv
  BY DEF Init, SetupInv, Turns, Progress, Contexts, ConnectCleansUp, Fresh, Roles
<1>3. ServerAlive
  BY DEF Init, ServerAlive
<1>4. ClosersAnswered
  BY DEF Init, ClosersAnswered
<1>5. CloserProgress
  BY DEF Init, CloserProgress
<1>6. QED
  BY <1>1, <1>2, <1>3, <1>4, <1>5 DEF IInv

-----------------------------------------------------------------------------
(* Types.                                                                  *)

LEMMA ServerRole == "server" \in Roles /\ "resolver" \in Roles
BY DEF Roles

LEMMA TypeForwarding == TypeOK /\ (CtxEnds \/ Forwarding \/ Entry) => TypeOK'
<1> SUFFICES ASSUME TypeOK, CtxEnds \/ Forwarding \/ Entry PROVE TypeOK'
  OBVIOUS
<1> USE DEF setupVars, objectVars, closeVars, opVars
<1>0. errs \subseteq ErrorTags
  BY DEF TypeOK
<1>1. CASE CtxEnds
  BY <1>1 DEF TypeOK, CtxEnds
<1>2. CASE ForwardStarts
  BY <1>2 DEF TypeOK, ForwardStarts
<1>3. CASE ForwardCancels
  BY <1>3 DEF TypeOK, ForwardCancels
<1>4. CASE Begin
  <2>1. pc' \in Pcs
    BY <1>4 DEF Begin, Goto, Fail, Pcs
  <2>2. errs' \subseteq ErrorTags
    BY <1>0, <1>4 DEF Begin, Fail, ErrorTags
  <2>3. QED
    BY <1>4, <2>1, <2>2 DEF TypeOK, Begin, Roles
<1>5. CASE BeginCanceled
  <2>1. pc' \in Pcs
    BY <1>5 DEF BeginCanceled, Goto, Fail, Pcs
  <2>2. errs' \subseteq ErrorTags
    BY <1>0, <1>5 DEF BeginCanceled, Fail, ErrorTags
  <2>3. QED
    BY <1>5, <2>1, <2>2 DEF TypeOK, BeginCanceled
<1>6. CASE Resolve
  <2>1. pc' \in Pcs
    BY <1>6 DEF Resolve, Goto, Fail, Pcs
  <2>2. errs' \subseteq ErrorTags
    BY <1>0, <1>6 DEF Resolve, Fail, ErrorTags
  <2>3. QED
    BY <1>6, <2>1, <2>2 DEF TypeOK, Resolve
<1>7. QED
  BY <1>1, <1>2, <1>3, <1>4, <1>5, <1>6 DEF Forwarding, Entry

LEMMA TypeActivation == TypeOK /\ Activation => TypeOK'
<1> SUFFICES ASSUME TypeOK, Activation PROVE TypeOK'
  OBVIOUS
<1> USE DEF setupVars, objectVars, closeVars, opVars
<1>0. errs \subseteq ErrorTags
  BY DEF TypeOK
<1>1. CASE Parse
  <2>1. pc' \in Pcs
    BY <1>1 DEF Parse, Goto, Fail, Pcs
  <2>2. errs' \subseteq ErrorTags
    BY <1>0, <1>1 DEF Parse, Fail, ErrorTags
  <2>3. QED
    BY <1>1, <2>1, <2>2 DEF TypeOK, Parse, Put
<1>2. CASE DialEpm
  <2>1. pc' \in Pcs
    BY <1>2 DEF DialEpm, Goto, Fail, Pcs
  <2>2. errs' \subseteq ErrorTags
    BY <1>0, <1>2 DEF DialEpm, Fail, ErrorTags
  <2>3. QED
    BY <1>2, <2>1, <2>2 DEF TypeOK, DialEpm, Put
<1>3. CASE BindActivation
  <2>1. pc' \in Pcs
    BY <1>3 DEF BindActivation, Goto, Fail, Pcs
  <2>2. errs' \subseteq ErrorTags
    BY <1>0, <1>3 DEF BindActivation, Fail, ErrorTags
  <2>3. QED
    BY <1>3, <2>1, <2>2 DEF TypeOK, BindActivation
<1>4. CASE Activate
  <2>1. pc' \in Pcs
    BY <1>4 DEF Activate, Goto, Fail, Pcs
  <2>2. errs' \subseteq ErrorTags
    BY <1>0, <1>4 DEF Activate, Fail, ErrorTags
  <2>3. ref' \in [Roles -> BOOLEAN]
    BY <1>4 DEF TypeOK, Activate, Put
  <2>4. QED
    BY <1>4, <2>1, <2>2, <2>3 DEF TypeOK, Activate
<1>5. CASE Decode
  <2>1. pc' \in Pcs
    BY <1>5 DEF Decode, Goto, Fail, Pcs
  <2>2. errs' \subseteq ErrorTags
    BY <1>0, <1>5 DEF Decode, Fail, ErrorTags
  <2>3. QED
    BY <1>5, <2>1, <2>2 DEF TypeOK, Decode
<1>6. CASE DialServer
  <2>1. pc' \in Pcs
    BY <1>6 DEF DialServer, Goto, Fail, Pcs
  <2>2. errs' \subseteq ErrorTags
    BY <1>0, <1>6 DEF DialServer, Fail, ErrorTags
  <2>3. QED
    BY <1>6, <2>1, <2>2 DEF TypeOK, DialServer, Put
<1>7. CASE BindServer
  <2>1. pc' \in Pcs
    BY <1>7 DEF BindServer, Goto, Fail, Pcs
  <2>2. errs' \subseteq ErrorTags
    BY <1>0, <1>7 DEF BindServer, Fail, ErrorTags
  <2>3. QED
    BY <1>7, <2>1, <2>2 DEF TypeOK, BindServer, Put
<1>8. CASE CloseEpm
  <2>1. pc' \in Pcs
    BY <1>8 DEF CloseEpm, Goto, Fail, Pcs
  <2>2. errs' \subseteq ErrorTags
    BY <1>0, <1>8 DEF CloseEpm, Fail, ErrorTags
  <2>3. QED
    BY <1>8, <2>1, <2>2 DEF TypeOK, CloseEpm, Put
<1>9. CASE Abort
  <2>1. pc' \in Pcs
    BY <1>9 DEF Abort, Goto, Fail, Pcs
  <2>2. errs' \subseteq ErrorTags
    BY <1>0, <1>9 DEF Abort, Fail, ErrorTags
  <2>3. QED
    BY <1>9, <2>1, <2>2 DEF TypeOK, Abort, Put, StopInit
<1>10. CASE Initialized
  <2>1. pc' \in Pcs
    BY <1>10 DEF Initialized, Goto, Fail, Pcs
  <2>2. errs' \subseteq ErrorTags
    BY <1>0, <1>10 DEF Initialized, Fail, ErrorTags
  <2>3. QED
    BY <1>10, <2>1, <2>2 DEF TypeOK, Initialized, Put, StopInit
<1>11. QED
  BY <1>1, <1>2, <1>3, <1>4, <1>5, <1>6, <1>7, <1>8, <1>9, <1>10 DEF Activation

LEMMA TypeCompletion == TypeOK /\ Completion => TypeOK'
<1> SUFFICES ASSUME TypeOK, Completion PROVE TypeOK'
  OBVIOUS
<1> USE DEF setupVars, objectVars, closeVars, opVars
<1>0. errs \subseteq ErrorTags
  BY DEF TypeOK
<1>1. CASE Lookup
  <2>1. pc' \in Pcs
    BY <1>1 DEF Lookup, Goto, Fail, Pcs
  <2>2. errs' \subseteq ErrorTags
    BY <1>0, <1>1 DEF Lookup, Fail, ErrorTags
  <2>3. QED
    BY <1>1, <2>1, <2>2 DEF TypeOK, Lookup
<1>2. CASE StartKeepalive
  <2>1. pc' \in Pcs
    BY <1>2 DEF StartKeepalive, Goto, Fail, Pcs
  <2>2. errs' \subseteq ErrorTags
    BY <1>0, <1>2 DEF StartKeepalive, Fail, ErrorTags
  <2>3. QED
    BY <1>2, <2>1, <2>2 DEF TypeOK, StartKeepalive
<1>3. CASE Check
  <2>1. pc' \in Pcs
    BY <1>3 DEF Check, Goto, Fail, Pcs
  <2>2. errs' \subseteq ErrorTags
    BY <1>0, <1>3 DEF Check, Fail, ErrorTags
  <2>3. QED
    BY <1>3, <2>1, <2>2 DEF TypeOK, Check
<1>4. CASE Release
  <2>1. pc' \in Pcs
    BY <1>4 DEF Release, Goto, Pcs
  <2>2. errs' = errs \/ errs' = errs \cup {"release"}
    BY <1>4 DEF Release
  <2>3. errs' \subseteq ErrorTags
    BY <1>0, <2>2 DEF ErrorTags
  <2>4. PICK b \in {ref, Put(ref, FALSE)} : ref' = b
    BY <1>4 DEF Release
  <2>5. ref' \in [Roles -> BOOLEAN]
    BY <2>4 DEF TypeOK, Put
  <2>6. QED
    BY <1>4, <2>1, <2>3, <2>5 DEF TypeOK, Release
<1>5. CASE Shut
  <2>1. pc' \in Pcs
    BY <1>5 DEF Shut, Goto, Fail, Pcs
  <2>2. errs' \subseteq ErrorTags
    BY <1>0, <1>5 DEF Shut, Fail, ErrorTags
  <2>3. QED
    BY <1>5, <2>1, <2>2 DEF TypeOK, Shut, Put, Roles
<1>6. QED
  BY <1>1, <1>2, <1>3, <1>4, <1>5 DEF Completion

LEMMA TypeOperation == TypeOK /\ Operation => TypeOK'
<1> SUFFICES ASSUME TypeOK, Operation PROVE TypeOK'
  OBVIOUS
<1> USE DEF TypeOK, setupVars, objectVars, closeVars, opVars, OpDone
<1>1. CASE OpBegin
  BY <1>1 DEF OpBegin
<1>2. CASE OpChecked
  BY <1>2 DEF OpChecked
<1>3. CASE OpAdmitted
  BY <1>3 DEF OpAdmitted
<1>4. CASE OpCanceled
  BY <1>4 DEF OpCanceled
<1>5. CASE OpReturns
  BY <1>5 DEF OpReturns
<1>6. CASE OpStatus
  BY <1>6 DEF OpStatus
<1>7. QED
  BY <1>1, <1>2, <1>3, <1>4, <1>5, <1>6 DEF Operation

LEMMA TypeClosing ==
  TypeOK /\ (Closing \/ WaitCtxEnds \/ \E c \in Closers : Close(c) \/ WaiterTold(c) \/ WaiterGivesUp(c))
    => TypeOK'
<1> SUFFICES ASSUME TypeOK,
                    Closing \/ WaitCtxEnds \/ \E c \in Closers : Close(c) \/ WaiterTold(c) \/ WaiterGivesUp(c)
             PROVE  TypeOK'
  OBVIOUS
<1> USE DEF TypeOK, setupVars, objectVars, closeVars, opVars
<1>1. CASE CancelLifetime
  BY <1>1 DEF CancelLifetime
<1>2. CASE CloseAdmission
  BY <1>2 DEF CloseAdmission
<1>3. CASE Drained
  BY <1>3 DEF Drained
<1>4. CASE GiveUp
  <2>1. rpc' \in [Roles -> {"none", "live", "canceled"}]
    BY <1>4, ServerRole DEF GiveUp
  <2>2. QED
    BY <1>4, <2>1 DEF GiveUp
<1>5. CASE Teardown
  <2>1. conn' \in [Roles -> {"none", "open", "closed"}]
    BY <1>5, ServerRole DEF Teardown
  <2>2. QED
    BY <1>5, <2>1 DEF Teardown
<1>6. CASE CloseRelease
  <2>1. ref' \in [Roles -> BOOLEAN]
    BY <1>6, ServerRole DEF CloseRelease
  <2>2. failed' \in BOOLEAN
    BY <1>6, ServerRole DEF CloseRelease
  <2>3. QED
    BY <1>6, <2>1, <2>2 DEF CloseRelease
<1>7. CASE CloseShut
  <2>1. rpc' \in [Roles -> {"none", "live", "canceled"}]
    BY <1>7, ServerRole DEF CloseShut
  <2>2. conn' \in [Roles -> {"none", "open", "closed"}]
    BY <1>7, ServerRole DEF CloseShut
  <2>3. failed' \in BOOLEAN
    BY <1>7, ServerRole DEF CloseShut
  <2>4. QED
    BY <1>7, <2>1, <2>2, <2>3 DEF CloseShut
<1>8. CASE Finish
  <2>1. closeErr' \in {"nil", "error"}
    BY <1>8, ServerRole DEF Finish, Kept, Result
  <2>2. answer' \in [Closers -> {"none", "nil", "error", "context"}]
    BY <1>8, ServerRole DEF Finish, Kept, Result
  <2>3. phase' \in [Closers -> {"idle", "closing", "waiting", "done"}]
    BY <1>8, ServerRole DEF Finish, Kept, Result
  <2>4. QED
    BY <1>8, <2>1, <2>2, <2>3 DEF Finish
<1>9. CASE WaitCtxEnds
  BY <1>9 DEF WaitCtxEnds
<1>10. CASE \E c \in Closers : Close(c)
  BY <1>10 DEF Close
<1>11. CASE \E c \in Closers : WaiterTold(c)
  BY <1>11 DEF WaiterTold
<1>12. CASE \E c \in Closers : WaiterGivesUp(c)
  BY <1>12 DEF WaiterGivesUp
<1>13. QED
  BY <1>1, <1>2, <1>3, <1>4, <1>5, <1>6, <1>7, <1>8, <1>9, <1>10, <1>11, <1>12 DEF Closing

LEMMA TypeStep == TypeOK /\ [Next]_vars => TypeOK'
<1> SUFFICES ASSUME TypeOK, [Next]_vars PROVE TypeOK'
  OBVIOUS
<1>1. CASE UNCHANGED vars
  BY <1>1 DEF TypeOK, vars, setupVars, objectVars, closeVars, opVars
<1>2. CASE Ended
  BY <1>2 DEF Ended, TypeOK, vars, setupVars, objectVars, closeVars, opVars
<1>3. QED
  BY <1>1, <1>2, TypeForwarding, TypeActivation, TypeCompletion, TypeOperation, TypeClosing DEF
     Next
-----------------------------------------------------------------------------
(* Connect.                                                                *)

\* The steps up to the activation, and the contexts.
LEMMA SetupEntry ==
  TypeOK /\ SetupInv /\ (CtxEnds \/ Forwarding \/ Entry) => SetupInv'
<1> SUFFICES ASSUME TypeOK, SetupInv, CtxEnds \/ Forwarding \/ Entry PROVE SetupInv'
  OBVIOUS
<1>0. Turns /\ Progress /\ Contexts /\ ConnectCleansUp
  BY DEF SetupInv
<1>1. CASE CtxEnds
  <2>1. Turns'
    BY <1>0, <1>1 DEF CtxEnds, TypeOK, Roles, Goto, Fail, Put, objectVars, Turns, Fresh, Gone,
       ConnectCleansUp, Progress, Contexts
  <2>2. Progress'
    BY <1>0, <1>1 DEF CtxEnds, TypeOK, Roles, Goto, Fail, Put, objectVars, Turns, Progress, Fresh
  <2>3. Contexts'
    BY <1>0, <1>1 DEF CtxEnds, TypeOK, Roles, Goto, Fail, Put, objectVars, Turns, Progress,
       Contexts, Fresh
  <2>4. ConnectCleansUp'
    BY <1>0, <1>1 DEF CtxEnds, TypeOK, Roles, Goto, Fail, Put, objectVars, Turns, Progress,
       Contexts, ConnectCleansUp, Fresh, Gone
  <2>5. QED
    BY <2>1, <2>2, <2>3, <2>4 DEF SetupInv
<1>2. CASE ForwardStarts
  <2>1. Turns'
    BY <1>0, <1>2 DEF ForwardStarts, TypeOK, Roles, Goto, Fail, Put, objectVars, Turns, Fresh,
       Gone, ConnectCleansUp, Progress, Contexts
  <2>2. Progress'
    BY <1>0, <1>2 DEF ForwardStarts, TypeOK, Roles, Goto, Fail, Put, objectVars, Turns,
       Progress, Fresh
  <2>3. Contexts'
    BY <1>0, <1>2 DEF ForwardStarts, TypeOK, Roles, Goto, Fail, Put, objectVars, Turns,
       Progress, Contexts, Fresh
  <2>4. ConnectCleansUp'
    BY <1>0, <1>2 DEF ForwardStarts, TypeOK, Roles, Goto, Fail, Put, objectVars, Turns,
       Progress, Contexts, ConnectCleansUp, Fresh, Gone
  <2>5. QED
    BY <2>1, <2>2, <2>3, <2>4 DEF SetupInv
<1>3. CASE ForwardCancels
  <2>1. Turns'
    BY <1>0, <1>3 DEF ForwardCancels, TypeOK, Roles, Goto, Fail, Put, objectVars, Turns, Fresh,
       Gone, ConnectCleansUp, Progress, Contexts
  <2>2. Progress'
    BY <1>0, <1>3 DEF ForwardCancels, TypeOK, Roles, Goto, Fail, Put, objectVars, Turns,
       Progress, Fresh
  <2>3. Contexts'
    BY <1>0, <1>3 DEF ForwardCancels, TypeOK, Roles, Goto, Fail, Put, objectVars, Turns,
       Progress, Contexts, Fresh
  <2>4. ConnectCleansUp'
    BY <1>0, <1>3 DEF ForwardCancels, TypeOK, Roles, Goto, Fail, Put, objectVars, Turns,
       Progress, Contexts, ConnectCleansUp, Fresh, Gone
  <2>5. QED
    BY <2>1, <2>2, <2>3, <2>4 DEF SetupInv
<1>4. CASE Begin
  <2>1. Turns'
    BY <1>0, <1>4 DEF Begin, TypeOK, Roles, Goto, Fail, Put, objectVars, Turns, Fresh, Gone,
       ConnectCleansUp, Progress, Contexts
  <2>2. Progress'
    BY <1>0, <1>4 DEF Begin, TypeOK, Roles, Goto, Fail, Put, objectVars, Turns, Progress, Fresh
  <2>3. Contexts'
    BY <1>0, <1>4 DEF Begin, TypeOK, Roles, Goto, Fail, Put, objectVars, Turns, Progress,
       Contexts, Fresh
  <2>4. ConnectCleansUp'
    BY <1>0, <1>4 DEF Begin, TypeOK, Roles, Goto, Fail, Put, objectVars, Turns, Progress,
       Contexts, ConnectCleansUp, Fresh, Gone
  <2>5. QED
    BY <2>1, <2>2, <2>3, <2>4 DEF SetupInv
<1>5. CASE BeginCanceled
  <2>1. Turns'
    BY <1>0, <1>5 DEF BeginCanceled, TypeOK, Roles, Goto, Fail, Put, objectVars, Turns, Fresh,
       Gone, ConnectCleansUp, Progress, Contexts
  <2>2. Progress'
    BY <1>0, <1>5 DEF BeginCanceled, TypeOK, Roles, Goto, Fail, Put, objectVars, Turns,
       Progress, Fresh
  <2>3. Contexts'
    BY <1>0, <1>5 DEF BeginCanceled, TypeOK, Roles, Goto, Fail, Put, objectVars, Turns,
       Progress, Contexts, Fresh
  <2>4. ConnectCleansUp'
    BY <1>0, <1>5 DEF BeginCanceled, TypeOK, Roles, Goto, Fail, Put, objectVars, Turns,
       Progress, Contexts, ConnectCleansUp, Fresh, Gone
  <2>5. QED
    BY <2>1, <2>2, <2>3, <2>4 DEF SetupInv
<1>6. CASE Resolve
  <2>1. Turns'
    BY <1>0, <1>6 DEF Resolve, TypeOK, Roles, Goto, Fail, Put, objectVars, Turns, Fresh, Gone,
       ConnectCleansUp, Progress, Contexts
  <2>2. Progress'
    BY <1>0, <1>6 DEF Resolve, TypeOK, Roles, Goto, Fail, Put, objectVars, Turns, Progress, Fresh
  <2>3. Contexts'
    BY <1>0, <1>6 DEF Resolve, TypeOK, Roles, Goto, Fail, Put, objectVars, Turns, Progress,
       Contexts, Fresh
  <2>4. ConnectCleansUp'
    BY <1>0, <1>6 DEF Resolve, TypeOK, Roles, Goto, Fail, Put, objectVars, Turns, Progress,
       Contexts, ConnectCleansUp, Fresh, Gone
  <2>5. QED
    BY <2>1, <2>2, <2>3, <2>4 DEF SetupInv
<1>7. QED
  BY <1>1, <1>2, <1>3, <1>4, <1>5, <1>6 DEF Forwarding, Entry

\* The steps of one activation.
LEMMA SetupActivation ==
  TypeOK /\ SetupInv /\ (Activation) => SetupInv'
<1> SUFFICES ASSUME TypeOK, SetupInv, Activation PROVE SetupInv'
  OBVIOUS
<1>0. Turns /\ Progress /\ Contexts /\ ConnectCleansUp
  BY DEF SetupInv
<1>1. CASE Parse
  <2>1. Turns'
    BY <1>0, <1>1 DEF Parse, TypeOK, Roles, Goto, Fail, Put, objectVars, Turns, Fresh, Gone,
       ConnectCleansUp, Progress, Contexts
  <2>2. Progress'
    BY <1>0, <1>1 DEF Parse, TypeOK, Roles, Goto, Fail, Put, objectVars, Turns, Progress, Fresh
  <2>3. Contexts'
    BY <1>0, <1>1 DEF Parse, TypeOK, Roles, Goto, Fail, Put, objectVars, Turns, Progress,
       Contexts, Fresh
  <2>4. ConnectCleansUp'
    BY <1>0, <1>1 DEF Parse, TypeOK, Roles, Goto, Fail, Put, objectVars, Turns, Progress,
       Contexts, ConnectCleansUp, Fresh, Gone
  <2>5. QED
    BY <2>1, <2>2, <2>3, <2>4 DEF SetupInv
<1>2. CASE DialEpm
  <2>1. Turns'
    BY <1>0, <1>2 DEF DialEpm, TypeOK, Roles, Goto, Fail, Put, objectVars, Turns, Fresh, Gone,
       ConnectCleansUp, Progress, Contexts
  <2>2. Progress'
    BY <1>0, <1>2 DEF DialEpm, TypeOK, Roles, Goto, Fail, Put, objectVars, Turns, Progress, Fresh
  <2>3. Contexts'
    BY <1>0, <1>2 DEF DialEpm, TypeOK, Roles, Goto, Fail, Put, objectVars, Turns, Progress,
       Contexts, Fresh
  <2>4. ConnectCleansUp'
    BY <1>0, <1>2 DEF DialEpm, TypeOK, Roles, Goto, Fail, Put, objectVars, Turns, Progress,
       Contexts, ConnectCleansUp, Fresh, Gone
  <2>5. QED
    BY <2>1, <2>2, <2>3, <2>4 DEF SetupInv
<1>3. CASE BindActivation
  <2>1. Turns'
    BY <1>0, <1>3 DEF BindActivation, TypeOK, Roles, Goto, Fail, Put, objectVars, Turns, Fresh,
       Gone, ConnectCleansUp, Progress, Contexts
  <2>2. Progress'
    BY <1>0, <1>3 DEF BindActivation, TypeOK, Roles, Goto, Fail, Put, objectVars, Turns,
       Progress, Fresh
  <2>3. Contexts'
    BY <1>0, <1>3 DEF BindActivation, TypeOK, Roles, Goto, Fail, Put, objectVars, Turns,
       Progress, Contexts, Fresh
  <2>4. ConnectCleansUp'
    BY <1>0, <1>3 DEF BindActivation, TypeOK, Roles, Goto, Fail, Put, objectVars, Turns,
       Progress, Contexts, ConnectCleansUp, Fresh, Gone
  <2>5. QED
    BY <2>1, <2>2, <2>3, <2>4 DEF SetupInv
<1>4. CASE Activate
  <2>1. Turns'
    BY <1>0, <1>4 DEF Activate, TypeOK, Roles, Goto, Fail, Put, objectVars, Turns, Fresh, Gone,
       ConnectCleansUp, Progress, Contexts
  <2>2. Progress'
    BY <1>0, <1>4 DEF Activate, TypeOK, Roles, Goto, Fail, Put, objectVars, Turns, Progress, Fresh
  <2>3. Contexts'
    BY <1>0, <1>4 DEF Activate, TypeOK, Roles, Goto, Fail, Put, objectVars, Turns, Progress,
       Contexts, Fresh
  <2>4. ConnectCleansUp'
    BY <1>0, <1>4 DEF Activate, TypeOK, Roles, Goto, Fail, Put, objectVars, Turns, Progress,
       Contexts, ConnectCleansUp, Fresh, Gone
  <2>5. QED
    BY <2>1, <2>2, <2>3, <2>4 DEF SetupInv
<1>5. CASE Decode
  <2>1. Turns'
    BY <1>0, <1>5 DEF Decode, TypeOK, Roles, Goto, Fail, Put, objectVars, Turns, Fresh, Gone,
       ConnectCleansUp, Progress, Contexts
  <2>2. Progress'
    BY <1>0, <1>5 DEF Decode, TypeOK, Roles, Goto, Fail, Put, objectVars, Turns, Progress, Fresh
  <2>3. Contexts'
    BY <1>0, <1>5 DEF Decode, TypeOK, Roles, Goto, Fail, Put, objectVars, Turns, Progress,
       Contexts, Fresh
  <2>4. ConnectCleansUp'
    BY <1>0, <1>5 DEF Decode, TypeOK, Roles, Goto, Fail, Put, objectVars, Turns, Progress,
       Contexts, ConnectCleansUp, Fresh, Gone
  <2>5. QED
    BY <2>1, <2>2, <2>3, <2>4 DEF SetupInv
<1>6. CASE DialServer
  <2>1. Turns'
    BY <1>0, <1>6 DEF DialServer, TypeOK, Roles, Goto, Fail, Put, objectVars, Turns, Fresh,
       Gone, ConnectCleansUp, Progress, Contexts
  <2>2. Progress'
    BY <1>0, <1>6 DEF DialServer, TypeOK, Roles, Goto, Fail, Put, objectVars, Turns, Progress,
       Fresh
  <2>3. Contexts'
    BY <1>0, <1>6 DEF DialServer, TypeOK, Roles, Goto, Fail, Put, objectVars, Turns, Progress,
       Contexts, Fresh
  <2>4. ConnectCleansUp'
    BY <1>0, <1>6 DEF DialServer, TypeOK, Roles, Goto, Fail, Put, objectVars, Turns, Progress,
       Contexts, ConnectCleansUp, Fresh, Gone
  <2>5. QED
    BY <2>1, <2>2, <2>3, <2>4 DEF SetupInv
<1>7. CASE BindServer
  <2>1. Turns'
    BY <1>0, <1>7 DEF BindServer, TypeOK, Roles, Goto, Fail, Put, objectVars, Turns, Fresh,
       Gone, ConnectCleansUp, Progress, Contexts
  <2>2. Progress'
    BY <1>0, <1>7 DEF BindServer, TypeOK, Roles, Goto, Fail, Put, objectVars, Turns, Progress,
       Fresh
  <2>3. Contexts'
    BY <1>0, <1>7 DEF BindServer, TypeOK, Roles, Goto, Fail, Put, objectVars, Turns, Progress,
       Contexts, Fresh
  <2>4. ConnectCleansUp'
    BY <1>0, <1>7 DEF BindServer, TypeOK, Roles, Goto, Fail, Put, objectVars, Turns, Progress,
       Contexts, ConnectCleansUp, Fresh, Gone
  <2>5. QED
    BY <2>1, <2>2, <2>3, <2>4 DEF SetupInv
<1>8. CASE CloseEpm
  <2>1. Turns'
    BY <1>0, <1>8 DEF CloseEpm, TypeOK, Roles, Goto, Fail, Put, objectVars, Turns, Fresh, Gone,
       ConnectCleansUp, Progress, Contexts
  <2>2. Progress'
    BY <1>0, <1>8 DEF CloseEpm, TypeOK, Roles, Goto, Fail, Put, objectVars, Turns, Progress, Fresh
  <2>3. Contexts'
    BY <1>0, <1>8 DEF CloseEpm, TypeOK, Roles, Goto, Fail, Put, objectVars, Turns, Progress,
       Contexts, Fresh
  <2>4. ConnectCleansUp'
    BY <1>0, <1>8 DEF CloseEpm, TypeOK, Roles, Goto, Fail, Put, objectVars, Turns, Progress,
       Contexts, ConnectCleansUp, Fresh, Gone
  <2>5. QED
    BY <2>1, <2>2, <2>3, <2>4 DEF SetupInv
<1>9. CASE Abort
  <2>1. Turns'
    BY <1>0, <1>9 DEF Abort, TypeOK, Roles, Goto, Fail, Put, objectVars, Turns, Fresh, Gone,
       ConnectCleansUp, Progress, Contexts, StopInit
  <2>2. Progress'
    BY <1>0, <1>9 DEF Abort, TypeOK, Roles, Goto, Fail, Put, objectVars, Turns, Progress, Fresh,
       StopInit
  <2>3. Contexts'
    BY <1>0, <1>9 DEF Abort, TypeOK, Roles, Goto, Fail, Put, objectVars, Turns, Progress,
       Contexts, Fresh, StopInit
  <2>4. ConnectCleansUp'
    BY <1>0, <1>9 DEF Abort, TypeOK, Roles, Goto, Fail, Put, objectVars, Turns, Progress,
       Contexts, ConnectCleansUp, Fresh, Gone, StopInit
  <2>5. QED
    BY <2>1, <2>2, <2>3, <2>4 DEF SetupInv
<1>10. CASE Initialized
  <2>1. Turns'
    BY <1>0, <1>10 DEF Initialized, TypeOK, Roles, Goto, Fail, Put, objectVars, Turns, Fresh,
       Gone, ConnectCleansUp, Progress, Contexts, StopInit
  <2>2. Progress'
    BY <1>0, <1>10 DEF Initialized, TypeOK, Roles, Goto, Fail, Put, objectVars, Turns, Progress,
       Fresh, StopInit
  <2>3. Contexts'
    BY <1>0, <1>10 DEF Initialized, TypeOK, Roles, Goto, Fail, Put, objectVars, Turns, Progress,
       Contexts, Fresh, StopInit
  <2>4. ConnectCleansUp'
    BY <1>0, <1>10 DEF Initialized, TypeOK, Roles, Goto, Fail, Put, objectVars, Turns, Progress,
       Contexts, ConnectCleansUp, Fresh, Gone, StopInit
  <2>5. QED
    BY <2>1, <2>2, <2>3, <2>4 DEF SetupInv
<1>11. QED
  BY <1>1, <1>2, <1>3, <1>4, <1>5, <1>6, <1>7, <1>8, <1>9, <1>10 DEF Activation

\* The resolver is given back; the server is published or given back.
LEMMA SetupCompletion ==
  TypeOK /\ SetupInv /\ (Completion) => SetupInv'
<1> SUFFICES ASSUME TypeOK, SetupInv, Completion PROVE SetupInv'
  OBVIOUS
<1>0. Turns /\ Progress /\ Contexts /\ ConnectCleansUp
  BY DEF SetupInv
<1>1. CASE Lookup
  <2>1. Turns'
    BY <1>0, <1>1 DEF Lookup, TypeOK, Roles, Goto, Fail, Put, objectVars, Turns, Fresh, Gone,
       ConnectCleansUp, Progress, Contexts
  <2>2. Progress'
    BY <1>0, <1>1 DEF Lookup, TypeOK, Roles, Goto, Fail, Put, objectVars, Turns, Progress, Fresh
  <2>3. Contexts'
    BY <1>0, <1>1 DEF Lookup, TypeOK, Roles, Goto, Fail, Put, objectVars, Turns, Progress,
       Contexts, Fresh
  <2>4. ConnectCleansUp'
    BY <1>0, <1>1 DEF Lookup, TypeOK, Roles, Goto, Fail, Put, objectVars, Turns, Progress,
       Contexts, ConnectCleansUp, Fresh, Gone
  <2>5. QED
    BY <2>1, <2>2, <2>3, <2>4 DEF SetupInv
<1>2. CASE StartKeepalive
  <2>1. Turns'
    BY <1>0, <1>2 DEF StartKeepalive, TypeOK, Roles, Goto, Fail, Put, objectVars, Turns, Fresh,
       Gone, ConnectCleansUp, Progress, Contexts
  <2>2. Progress'
    BY <1>0, <1>2 DEF StartKeepalive, TypeOK, Roles, Goto, Fail, Put, objectVars, Turns,
       Progress, Fresh
  <2>3. Contexts'
    BY <1>0, <1>2 DEF StartKeepalive, TypeOK, Roles, Goto, Fail, Put, objectVars, Turns,
       Progress, Contexts, Fresh
  <2>4. ConnectCleansUp'
    BY <1>0, <1>2 DEF StartKeepalive, TypeOK, Roles, Goto, Fail, Put, objectVars, Turns,
       Progress, Contexts, ConnectCleansUp, Fresh, Gone
  <2>5. QED
    BY <2>1, <2>2, <2>3, <2>4 DEF SetupInv
<1>3. CASE Check
  <2>1. Turns'
    BY <1>0, <1>3 DEF Check, TypeOK, Roles, Goto, Fail, Put, objectVars, Turns, Fresh, Gone,
       ConnectCleansUp, Progress, Contexts
  <2>2. Progress'
    BY <1>0, <1>3 DEF Check, TypeOK, Roles, Goto, Fail, Put, objectVars, Turns, Progress, Fresh
  <2>3. Contexts'
    BY <1>0, <1>3 DEF Check, TypeOK, Roles, Goto, Fail, Put, objectVars, Turns, Progress,
       Contexts, Fresh
  <2>4. ConnectCleansUp'
    BY <1>0, <1>3 DEF Check, TypeOK, Roles, Goto, Fail, Put, objectVars, Turns, Progress,
       Contexts, ConnectCleansUp, Fresh, Gone
  <2>5. QED
    BY <2>1, <2>2, <2>3, <2>4 DEF SetupInv
<1>4. CASE Release
  <2>1. Turns'
    BY <1>0, <1>4 DEF Release, TypeOK, Roles, Goto, Fail, Put, objectVars, Turns, Fresh, Gone,
       ConnectCleansUp, Progress, Contexts
  <2>2. Progress'
    BY <1>0, <1>4 DEF Release, TypeOK, Roles, Goto, Fail, Put, objectVars, Turns, Progress, Fresh
  <2>3. Contexts'
    BY <1>0, <1>4 DEF Release, TypeOK, Roles, Goto, Fail, Put, objectVars, Turns, Progress,
       Contexts, Fresh
  <2>4. ConnectCleansUp'
    BY <1>0, <1>4 DEF Release, TypeOK, Roles, Goto, Fail, Put, objectVars, Turns, Progress,
       Contexts, ConnectCleansUp, Fresh, Gone
  <2>5. QED
    BY <2>1, <2>2, <2>3, <2>4 DEF SetupInv
<1>5. CASE Shut
  <2>1. Turns'
    BY <1>0, <1>5 DEF Shut, TypeOK, Roles, Goto, Fail, Put, objectVars, Turns, Fresh, Gone,
       ConnectCleansUp, Progress, Contexts
  <2>2. Progress'
    BY <1>0, <1>5 DEF Shut, TypeOK, Roles, Goto, Fail, Put, objectVars, Turns, Progress, Fresh
  <2>3. Contexts'
    BY <1>0, <1>5 DEF Shut, TypeOK, Roles, Goto, Fail, Put, objectVars, Turns, Progress,
       Contexts, Fresh
  <2>4. ConnectCleansUp'
    BY <1>0, <1>5 DEF Shut, TypeOK, Roles, Goto, Fail, Put, objectVars, Turns, Progress,
       Contexts, ConnectCleansUp, Fresh, Gone
  <2>5. QED
    BY <2>1, <2>2, <2>3, <2>4 DEF SetupInv
<1>6. QED
  BY <1>1, <1>2, <1>3, <1>4, <1>5 DEF Completion

-----------------------------------------------------------------------------
(* The published Server.                                                   *)

\* Closing steps are taken only of a published Server, whose set-up is over.
LEMMA SetupClosed ==
  ASSUME TypeOK, SetupInv, pc = "published", UNCHANGED setupVars,
         rpc'["resolver"] = rpc["resolver"], conn'["resolver"] = conn["resolver"],
         ref'["resolver"] = ref["resolver"]
  PROVE  SetupInv'
<1>1. /\ role = "server" /\ Turns /\ Progress /\ Contexts /\ ConnectCleansUp
      /\ pc' = "published" /\ role' = "server" /\ ctx' = ctx
      /\ forward' = forward /\ epm' = epm
  BY DEF SetupInv, Turns, setupVars
<1>2. Turns'
  BY <1>1 DEF Turns, Gone
<1>3. Progress'
  BY <1>1 DEF Progress
<1>4. Contexts'
  BY <1>1 DEF Contexts
<1>5. ConnectCleansUp'
  BY <1>1 DEF ConnectCleansUp, Gone, Turns
<1>6. QED
  BY <1>2, <1>3, <1>4, <1>5 DEF SetupInv

\* Steps of others leave the set-up as it is.
LEMMA SetupUnchanged ==
  ASSUME SetupInv, UNCHANGED <<setupVars, objectVars>>
  PROVE  SetupInv'
BY DEF SetupInv, Turns, Progress, Contexts, ConnectCleansUp, Fresh, Gone, setupVars, objectVars

CloseSteps ==
  Closing \/ WaitCtxEnds \/ \E c \in Closers : Close(c) \/ WaiterTold(c) \/ WaiterGivesUp(c)

LEMMA SetupClosing ==
  TypeOK /\ SetupInv /\ ClosersAnswered /\ CloserProgress /\ (CloseSteps \/ Operation) => SetupInv'
<1> SUFFICES ASSUME TypeOK, SetupInv, ClosersAnswered, CloserProgress, CloseSteps \/ Operation
             PROVE  SetupInv'
  OBVIOUS
<1>1. CASE GiveUp
  <2>1. pc = "published"
    BY <1>1 DEF GiveUp, ClosersAnswered
  <2>2. QED
    BY <1>1, <2>1, SetupClosed DEF GiveUp, TypeOK, Roles
<1>2. CASE Teardown
  <2>1. pc = "published"
    BY <1>2 DEF Teardown, ClosersAnswered, CloserProgress
  <2>2. QED
    BY <1>2, <2>1, SetupClosed DEF Teardown, TypeOK, Roles
<1>3. CASE CloseRelease
  <2>1. pc = "published"
    BY <1>3 DEF CloseRelease, ClosersAnswered
  <2>2. QED
    BY <1>3, <2>1, SetupClosed DEF CloseRelease, TypeOK, Roles
<1>4. CASE CloseShut
  <2>1. pc = "published"
    BY <1>4 DEF CloseShut, ClosersAnswered
  <2>2. QED
    BY <1>4, <2>1, SetupClosed DEF CloseShut, TypeOK, Roles
<1>5. CASE CancelLifetime \/ CloseAdmission \/ Drained \/ Finish \/ WaitCtxEnds
  BY <1>5, SetupUnchanged DEF CancelLifetime, CloseAdmission, Drained, Finish, WaitCtxEnds
<1>6. CASE \E c \in Closers : Close(c) \/ WaiterTold(c) \/ WaiterGivesUp(c)
  BY <1>6, SetupUnchanged DEF Close, WaiterTold, WaiterGivesUp
<1>7. CASE Operation
  BY <1>7, SetupUnchanged DEF Operation, OpBegin, OpChecked, OpAdmitted, OpStatus, OpCanceled, OpReturns
<1>8. QED
  BY <1>1, <1>2, <1>3, <1>4, <1>5, <1>6, <1>7 DEF CloseSteps, Closing

\* The callers of Close, and what the closer has done so far.
LEMMA ClosingSteps ==
  TypeOK /\ SetupInv /\ ServerAlive /\ ClosersAnswered /\ CloserProgress /\ CloseSteps
    => ServerAlive' /\ ClosersAnswered' /\ CloserProgress'
<1> SUFFICES ASSUME TypeOK, SetupInv, ServerAlive, ClosersAnswered, CloserProgress, CloseSteps
             PROVE  ServerAlive' /\ ClosersAnswered' /\ CloserProgress'
  OBVIOUS
<1>0. closer # NoOne => pc = "published" /\ closer \in Closers
  BY ConnectionAssumption DEF ClosersAnswered, TypeOK
<1>1. CASE CancelLifetime
  <2>1. ServerAlive'
    BY <1>0, <1>1, ConnectionAssumption DEF CancelLifetime, TypeOK, Roles, setupVars,
       objectVars, opVars, ServerAlive, ClosersAnswered, CloserProgress
  <2>2. ClosersAnswered'
    BY <1>0, <1>1, ConnectionAssumption DEF CancelLifetime, TypeOK, Roles, setupVars,
       objectVars, opVars, ClosersAnswered, Result, Kept
  <2>3. CloserProgress'
    BY <1>0, <1>1, ConnectionAssumption DEF CancelLifetime, TypeOK, Roles, setupVars,
       objectVars, opVars, ClosersAnswered, CloserProgress, Admitted, Turns, SetupInv
  <2>4. QED
    BY <2>1, <2>2, <2>3
<1>2. CASE CloseAdmission
  <2>1. ServerAlive'
    BY <1>0, <1>2, ConnectionAssumption DEF CloseAdmission, TypeOK, Roles, setupVars,
       objectVars, opVars, ServerAlive, ClosersAnswered, CloserProgress
  <2>2. ClosersAnswered'
    BY <1>0, <1>2, ConnectionAssumption DEF CloseAdmission, TypeOK, Roles, setupVars,
       objectVars, opVars, ClosersAnswered, Result, Kept
  <2>3. CloserProgress'
    BY <1>0, <1>2, ConnectionAssumption DEF CloseAdmission, TypeOK, Roles, setupVars,
       objectVars, opVars, ClosersAnswered, CloserProgress, Admitted, Turns, SetupInv
  <2>4. QED
    BY <2>1, <2>2, <2>3
<1>3. CASE Drained
  <2>1. ServerAlive'
    BY <1>0, <1>3, ConnectionAssumption DEF Drained, TypeOK, Roles, setupVars, objectVars,
       opVars, ServerAlive, ClosersAnswered, CloserProgress
  <2>2. ClosersAnswered'
    BY <1>0, <1>3, ConnectionAssumption DEF Drained, TypeOK, Roles, setupVars, objectVars,
       opVars, ClosersAnswered, Result, Kept
  <2>3. CloserProgress'
    BY <1>0, <1>3, ConnectionAssumption DEF Drained, TypeOK, Roles, setupVars, objectVars,
       opVars, ClosersAnswered, CloserProgress, Admitted, Turns, SetupInv
  <2>4. QED
    BY <2>1, <2>2, <2>3
<1>4. CASE GiveUp
  <2>1. ServerAlive'
    BY <1>0, <1>4, ConnectionAssumption DEF GiveUp, TypeOK, Roles, setupVars, objectVars,
       opVars, ServerAlive, ClosersAnswered, CloserProgress
  <2>2. ClosersAnswered'
    BY <1>0, <1>4, ConnectionAssumption DEF GiveUp, TypeOK, Roles, setupVars, objectVars,
       opVars, ClosersAnswered, Result, Kept
  <2>3. CloserProgress'
    BY <1>0, <1>4, ConnectionAssumption DEF GiveUp, TypeOK, Roles, setupVars, objectVars,
       opVars, ClosersAnswered, CloserProgress, Admitted, Turns, SetupInv
  <2>4. QED
    BY <2>1, <2>2, <2>3
<1>5. CASE Teardown
  <2>1. ServerAlive'
    BY <1>0, <1>5, ConnectionAssumption DEF Teardown, TypeOK, Roles, setupVars, objectVars,
       opVars, ServerAlive, ClosersAnswered, CloserProgress
  <2>2. ClosersAnswered'
    BY <1>0, <1>5, ConnectionAssumption DEF Teardown, TypeOK, Roles, setupVars, objectVars,
       opVars, ClosersAnswered, Result, Kept
  <2>3. CloserProgress'
    BY <1>0, <1>5, ConnectionAssumption DEF Teardown, TypeOK, Roles, setupVars, objectVars,
       opVars, ClosersAnswered, CloserProgress, Admitted, Turns, SetupInv
  <2>4. QED
    BY <2>1, <2>2, <2>3
<1>6. CASE CloseRelease
  <2>1. ServerAlive'
    BY <1>0, <1>6, ConnectionAssumption DEF CloseRelease, TypeOK, Roles, setupVars, objectVars,
       opVars, ServerAlive, ClosersAnswered, CloserProgress
  <2>2. ClosersAnswered'
    BY <1>0, <1>6, ConnectionAssumption DEF CloseRelease, TypeOK, Roles, setupVars, objectVars,
       opVars, ClosersAnswered, Result, Kept
  <2>3. CloserProgress'
    BY <1>0, <1>6, ConnectionAssumption DEF CloseRelease, TypeOK, Roles, setupVars, objectVars,
       opVars, ClosersAnswered, CloserProgress, Admitted, Turns, SetupInv
  <2>4. QED
    BY <2>1, <2>2, <2>3
<1>7. CASE CloseShut
  <2>1. ServerAlive'
    BY <1>0, <1>7, ConnectionAssumption DEF CloseShut, TypeOK, Roles, setupVars, objectVars,
       opVars, ServerAlive, ClosersAnswered, CloserProgress
  <2>2. ClosersAnswered'
    BY <1>0, <1>7, ConnectionAssumption DEF CloseShut, TypeOK, Roles, setupVars, objectVars,
       opVars, ClosersAnswered, Result, Kept
  <2>3. CloserProgress'
    BY <1>0, <1>7, ConnectionAssumption DEF CloseShut, TypeOK, Roles, setupVars, objectVars,
       opVars, ClosersAnswered, CloserProgress, Admitted, Turns, SetupInv
  <2>4. QED
    BY <2>1, <2>2, <2>3
<1>8. CASE Finish
  <2>1. ServerAlive'
    BY <1>0, <1>8, ConnectionAssumption DEF Finish, TypeOK, Roles, setupVars, objectVars,
       opVars, ServerAlive, ClosersAnswered, CloserProgress
  <2>2. ClosersAnswered'
    BY <1>0, <1>8, ConnectionAssumption DEF Finish, TypeOK, Roles, setupVars, objectVars,
       opVars, ClosersAnswered, Result, Kept
  <2>3. CloserProgress'
    BY <1>0, <1>8, ConnectionAssumption DEF Finish, TypeOK, Roles, setupVars, objectVars,
       opVars, ClosersAnswered, CloserProgress, Admitted, Turns, SetupInv
  <2>4. QED
    BY <2>1, <2>2, <2>3
<1>9. CASE WaitCtxEnds
  <2>1. ServerAlive'
    BY <1>0, <1>9, ConnectionAssumption DEF WaitCtxEnds, TypeOK, Roles, setupVars, objectVars,
       opVars, ServerAlive, ClosersAnswered, CloserProgress
  <2>2. ClosersAnswered'
    BY <1>0, <1>9, ConnectionAssumption DEF WaitCtxEnds, TypeOK, Roles, setupVars, objectVars,
       opVars, ClosersAnswered, Result, Kept
  <2>3. CloserProgress'
    BY <1>0, <1>9, ConnectionAssumption DEF WaitCtxEnds, TypeOK, Roles, setupVars, objectVars,
       opVars, ClosersAnswered, CloserProgress, Admitted, Turns, SetupInv
  <2>4. QED
    BY <2>1, <2>2, <2>3
<1>10. CASE \E c \in Closers : Close(c)
  <2>1. PICK c \in Closers : Close(c)
    BY <1>10
  <2>2. ServerAlive'
    BY <1>0, <2>1, ConnectionAssumption DEF Close, TypeOK, Roles, setupVars, objectVars, opVars,
       ServerAlive, ClosersAnswered
  <2>3. ClosersAnswered'
    BY <1>0, <2>1, ConnectionAssumption DEF Close, TypeOK, Roles, setupVars, objectVars, opVars,
       ClosersAnswered, Result
  <2>4. CloserProgress'
    BY <1>0, <2>1, ConnectionAssumption DEF Close, TypeOK, Roles, setupVars, objectVars, opVars,
       ClosersAnswered, CloserProgress, Admitted
  <2>5. QED
    BY <2>2, <2>3, <2>4
<1>11. CASE \E c \in Closers : WaiterTold(c)
  <2>1. PICK c \in Closers : WaiterTold(c)
    BY <1>11
  <2>2. ServerAlive'
    BY <1>0, <2>1, ConnectionAssumption DEF WaiterTold, TypeOK, Roles, setupVars, objectVars,
       opVars, ServerAlive, ClosersAnswered
  <2>3. ClosersAnswered'
    BY <1>0, <2>1, ConnectionAssumption DEF WaiterTold, TypeOK, Roles, setupVars, objectVars,
       opVars, ClosersAnswered, Result
  <2>4. CloserProgress'
    BY <1>0, <2>1, ConnectionAssumption DEF WaiterTold, TypeOK, Roles, setupVars, objectVars,
       opVars, ClosersAnswered, CloserProgress, Admitted
  <2>5. QED
    BY <2>2, <2>3, <2>4
<1>12. CASE \E c \in Closers : WaiterGivesUp(c)
  <2>1. PICK c \in Closers : WaiterGivesUp(c)
    BY <1>12
  <2>2. ServerAlive'
    BY <1>0, <2>1, ConnectionAssumption DEF WaiterGivesUp, TypeOK, Roles, setupVars, objectVars,
       opVars, ServerAlive, ClosersAnswered
  <2>3. ClosersAnswered'
    BY <1>0, <2>1, ConnectionAssumption DEF WaiterGivesUp, TypeOK, Roles, setupVars, objectVars,
       opVars, ClosersAnswered, Result
  <2>4. CloserProgress'
    BY <1>0, <2>1, ConnectionAssumption DEF WaiterGivesUp, TypeOK, Roles, setupVars, objectVars,
       opVars, ClosersAnswered, CloserProgress, Admitted
  <2>5. QED
    BY <2>2, <2>3, <2>4
<1>13. QED
  BY <1>1, <1>2, <1>3, <1>4, <1>5, <1>6, <1>7, <1>8, <1>9, <1>10, <1>11, <1>12 DEF CloseSteps,
     Closing

LEMMA OperationSteps ==
  TypeOK /\ ServerAlive /\ ClosersAnswered /\ CloserProgress /\ Operation
    => ServerAlive' /\ ClosersAnswered' /\ CloserProgress'
<1> SUFFICES ASSUME TypeOK, ServerAlive, ClosersAnswered, CloserProgress, Operation
             PROVE  ServerAlive' /\ ClosersAnswered' /\ CloserProgress'
  OBVIOUS
<1>1. UNCHANGED <<setupVars, objectVars, closeVars>>
  BY DEF Operation, OpBegin, OpChecked, OpAdmitted, OpStatus, OpCanceled, OpReturns
<1>2. ServerAlive' /\ ClosersAnswered'
  BY <1>1 DEF ServerAlive, ClosersAnswered, Result, setupVars, objectVars, closeVars
<1>3. closing \in {"release", "shut", "finish", "done"} /\ ~Admitted => ~Admitted'
  BY DEF Operation, OpBegin, OpChecked, OpAdmitted, OpStatus, OpCanceled, OpReturns, OpDone, Admitted
<1>4. CloserProgress'
  BY <1>1, <1>3 DEF CloserProgress, objectVars, closeVars
<1>5. QED
  BY <1>2, <1>4

\* Until it is published nobody closes the session, and then it is alive.
LEMMA SetupSteps ==
  TypeOK /\ SetupInv /\ ServerAlive /\ ClosersAnswered /\ CloserProgress
    /\ (CtxEnds \/ Forwarding \/ Entry \/ Activation \/ Completion)
    => ServerAlive' /\ ClosersAnswered' /\ CloserProgress'
<1> SUFFICES ASSUME TypeOK, SetupInv, ServerAlive, ClosersAnswered, CloserProgress,
                    CtxEnds \/ Forwarding \/ Entry \/ Activation \/ Completion
             PROVE  ServerAlive' /\ ClosersAnswered' /\ CloserProgress'
  OBVIOUS
<1>0. Turns /\ Progress /\ Contexts
  BY DEF SetupInv
<1>1. CASE CtxEnds \/ ForwardStarts
  BY <1>1 DEF CtxEnds, ForwardStarts, ServerAlive, ClosersAnswered, CloserProgress, Result,
     Admitted,
     objectVars, closeVars, opVars
<1>2. CASE ForwardCancels
  <2>1. PICK r \in Roles : /\ forward[r] = "running"
                           /\ rpc' = [rpc EXCEPT ![r] = "canceled"]
    BY <1>2 DEF ForwardCancels
  <2>2. UNCHANGED <<pc, conn, ref, closeVars, opVars>>
    BY <1>2 DEF ForwardCancels
  <2>3. pc = "published" => r # "server"
    BY <2>1, <1>0 DEF Contexts
  <2>4. rpc'["server"] # "live" \/ rpc'["server"] = rpc["server"]
    BY <2>1 DEF TypeOK, Roles
  <2>5. pc = "published" => rpc'["server"] = rpc["server"]
    BY <2>1, <2>3 DEF TypeOK, Roles
  <2>6. QED
    BY <2>2, <2>4, <2>5 DEF ServerAlive, ClosersAnswered, CloserProgress, Result, Admitted,
       closeVars, opVars
<1>3. CASE Check
  <2>1. ServerAlive'
    BY <1>0, <1>3 DEF Check, ServerAlive, Goto, Fail, Turns, Progress, Contexts, objectVars,
       TypeOK, Roles
  <2>2. closing' = "none" /\ closer' = NoOne /\ closing = "none" /\ closer = NoOne
    BY <1>3 DEF Check, ClosersAnswered, closeVars
  <2>3. ClosersAnswered' /\ CloserProgress'
    BY <1>3, <2>2 DEF Check, ClosersAnswered, CloserProgress, closeVars, Result
  <2>4. QED
    BY <2>1, <2>3
<1>4. CASE Entry \/ Activation \/ Lookup \/ StartKeepalive \/ Release \/ Shut
  <2>1. pc # "published" /\ pc' # "published" /\ UNCHANGED closeVars
    BY <1>4 DEF Entry, Begin, BeginCanceled, Resolve, Activation, Parse, DialEpm,
       BindActivation, Activate, Decode, DialServer, BindServer, CloseEpm, Abort,
       Initialized, Lookup, StartKeepalive, Release, Shut, Goto, Fail
  <2>2. closing = "none" /\ closer = NoOne
    BY <2>1 DEF ClosersAnswered
  <2>3. QED
    BY <2>1, <2>2 DEF ServerAlive, ClosersAnswered, CloserProgress, closeVars, Result
<1>5. QED
  BY <1>1, <1>2, <1>3, <1>4 DEF Forwarding, Completion

-----------------------------------------------------------------------------
(* The theorems.                                                           *)

\* The inductive invariant holds.
THEOREM Invariant == Spec => []IInv
<1>1. IInv /\ [Next]_vars => IInv'
  <2> SUFFICES ASSUME IInv, [Next]_vars PROVE IInv'
    OBVIOUS
  <2>1. TypeOK /\ SetupInv /\ ServerAlive /\ ClosersAnswered /\ CloserProgress
    BY DEF IInv
  <2>2. TypeOK'
    BY <2>1, TypeStep
  <2>3. CASE UNCHANGED vars \/ Ended
    BY <2>1, <2>2, <2>3, SetupUnchanged DEF Ended, IInv, ServerAlive, ClosersAnswered,
       CloserProgress, Result,
       Admitted, vars, setupVars, objectVars, closeVars, opVars
  <2>4. CASE CtxEnds \/ Forwarding \/ Entry \/ Activation \/ Completion
    BY <2>1, <2>2, <2>4, SetupEntry, SetupActivation, SetupCompletion, SetupSteps DEF IInv
  <2>5. CASE Operation
    BY <2>1, <2>2, <2>5, SetupClosing, OperationSteps DEF IInv
  <2>6. CASE CloseSteps
    BY <2>1, <2>2, <2>6, SetupClosing, ClosingSteps DEF IInv
  <2>7. QED
    BY <2>3, <2>4, <2>5, <2>6 DEF Next, CloseSteps
<1>2. QED
  BY InitIInv, <1>1, PTL DEF Spec

\* Every variable keeps its type, for any number of callers of Close.
THEOREM TypeCorrect == Spec => []TypeOK
<1>1. IInv => TypeOK
  BY DEF IInv
<1>2. QED
  BY <1>1, Invariant, PTL

\* A Connect that fails closes what it opened and gives back the objects that
\* activateDCOM returned to it.
THEOREM FailedConnectCleansUp == Spec => []ConnectCleansUp
<1>1. IInv => ConnectCleansUp
  BY DEF IInv, SetupInv
<1>2. QED
  BY <1>1, Invariant, PTL

\* A published Server does not depend on the context of Connect.
THEOREM PublishedAlive == Spec => []ServerAlive
<1>1. IInv => ServerAlive
  BY DEF IInv
<1>2. QED
  BY <1>1, Invariant, PTL

\* All callers of Close agree, and nil means that the session is given back with no
\* admitted operation in it.
THEOREM ClosersAgree == Spec => []CloseAgreement
<1>1. IInv => CloseAgreement
  <2> SUFFICES ASSUME IInv, NEW c \in Closers, phase[c] = "done"
               PROVE  /\ answer[c] # "context" => answer[c] = answer[closer] /\ answer[c] = Result
                      /\ answer[c] = "nil" => Gone("server") /\ ~ref["server"] /\ ~Admitted
    BY DEF CloseAgreement
  <2>1. answer[c] # "context" => closing = "done" /\ answer[c] = Result /\ answer[closer] = Result
    BY DEF IInv, ClosersAnswered
  <2>2. answer[c] = "nil" => closing = "done" /\ ~failed
    BY <2>1 DEF Result
  <2>3. closing = "done" => pc = "published"
    BY DEF IInv, ClosersAnswered
  <2>4. answer[c] = "nil" => Gone("server") /\ ~ref["server"] /\ ~Admitted
    BY <2>2, <2>3 DEF IInv, CloserProgress, SetupInv, Progress, Turns, Gone
  <2>5. QED
    BY <2>1, <2>4
<1>2. QED
  BY <1>1, Invariant, PTL

-----------------------------------------------------------------------------
(* The refinement.                                                         *)

\* Only a Close that gave up leaves a goroutine behind, and it answers at once; and
\* until Close gives up or shuts the connection, connection and RPC context stand.
Late ==
  /\ teardown # "none" => closing \in {"finish", "done"}
  /\ pc = "published" /\ closing \notin {"finish", "done"} =>
       rpc["server"] = "live" /\ conn["server"] = "open"

LEMMA LateStep == IInv /\ IInv' /\ Late /\ [Next]_vars => Late'
<1> SUFFICES ASSUME IInv, IInv', Late, [Next]_vars PROVE Late'
  OBVIOUS
<1>1. closer = NoOne => teardown = "none" /\ closing = "none"
  BY DEF IInv, CloserProgress, ClosersAnswered
<1>2. CASE UNCHANGED <<teardown, closing, pc, rpc, conn>>
  BY <1>2 DEF Late
<1>3. ASSUME NEW c \in Closers, Close(c)
      PROVE  Late'
  BY <1>1, <1>3 DEF Close, Late, setupVars, objectVars
<1>4. CASE Closing
  BY <1>4 DEF Closing, CancelLifetime, CloseAdmission, Drained, GiveUp, Teardown, CloseRelease,
     CloseShut, Finish, Late, setupVars, objectVars
<1>5. CASE ForwardCancels
  <2>1. pc = "published" => rpc'["server"] = rpc["server"]
    BY <1>5 DEF ForwardCancels, IInv, SetupInv, Contexts, TypeOK
  <2>2. UNCHANGED <<teardown, closing, pc, conn>>
    BY <1>5 DEF ForwardCancels, closeVars
  <2>3. QED
    BY <2>1, <2>2 DEF Late
<1>6. CASE Entry \/ Activation \/ Completion
  <2>1. pc # "published" /\ UNCHANGED <<teardown, closing, closer>>
    BY <1>6 DEF Entry, Begin, BeginCanceled, Resolve, Activation, Parse, DialEpm,
       BindActivation, Activate, Decode, DialServer, BindServer, CloseEpm, Abort, Initialized,
       Completion, Lookup, StartKeepalive, Check, Release, Shut, closeVars
  <2>2. closer' = NoOne
    BY <2>1 DEF IInv, ClosersAnswered
  <2>3. QED
    BY <1>1, <2>1, <2>2 DEF Late, IInv, ServerAlive
<1>7. CASE \/ CtxEnds \/ ForwardStarts \/ Operation
           \/ WaitCtxEnds \/ Ended \/ UNCHANGED vars
           \/ \E c \in Closers : WaiterTold(c) \/ WaiterGivesUp(c)
  <2>1. UNCHANGED <<teardown, closing, pc, rpc, conn>>
    BY <1>7 DEF CtxEnds, ForwardStarts, Operation, OpBegin, OpChecked, OpAdmitted, OpStatus,
       OpCanceled, OpReturns, WaitCtxEnds, Ended, WaiterTold, WaiterGivesUp, vars, setupVars,
       objectVars, closeVars
  <2>2. QED
    BY <2>1, <1>2
<1>8. QED
  BY <1>3, <1>4, <1>5, <1>6, <1>7 DEF Next, Forwarding

\* The three things a step can change in the abstract session.
Shutting == closing \notin {"none", "cancel", "admission"}
Link == IF pc # "published" THEN "standing"
        ELSE IF conn["server"] = "closed" THEN "gone"
        ELSE IF rpc["server"] = "canceled" THEN "broken" ELSE "standing"

LEMMA ServiceStutters ==
  ASSUME UNCHANGED <<Admitted, Shutting, Link>>
  PROVE  UNCHANGED Service!vars
BY DEF Service!vars, Shutting, Link

\* Connect is invisible: to the abstract session the connection stands all the while.
LEMMA SetupInvisible ==
  ASSUME IInv, IInv', CtxEnds \/ Forwarding \/ Entry \/ Activation \/ Completion
  PROVE  UNCHANGED <<Admitted, Shutting, Link>>
<1>1. UNCHANGED <<op, opKind, closing, closer>>
  BY DEF CtxEnds, Forwarding, ForwardStarts, ForwardCancels, Entry, Begin, BeginCanceled,
     Resolve, Activation, Parse, DialEpm, BindActivation, Activate, Decode, DialServer,
     BindServer, CloseEpm, Abort, Initialized, Completion, Lookup, StartKeepalive, Check,
     Release, Shut, closeVars, opVars
<1>2. CASE CtxEnds \/ Forwarding
  <2>1. UNCHANGED <<pc, conn>>
    BY <1>2 DEF CtxEnds, Forwarding, ForwardStarts, ForwardCancels, objectVars
  <2>2. pc = "published" => rpc'["server"] = rpc["server"]
    <3>1. CASE ForwardCancels
      BY <3>1 DEF ForwardCancels, IInv, SetupInv, Contexts, TypeOK
    <3>2. CASE CtxEnds \/ ForwardStarts
      BY <3>2 DEF CtxEnds, ForwardStarts, objectVars
    <3>3. QED
      BY <1>2, <3>1, <3>2 DEF Forwarding
  <2>3. UNCHANGED Link
    BY <2>1, <2>2 DEF Link
  <2>4. QED
    BY <1>1, <2>3 DEF Admitted, Shutting
<1>3. CASE Entry \/ Activation \/ Completion
  <2>1. pc # "published"
    BY <1>3 DEF Entry, Begin, BeginCanceled, Resolve, Activation, Parse, DialEpm,
       BindActivation, Activate, Decode, DialServer, BindServer, CloseEpm, Abort, Initialized,
       Completion, Lookup, StartKeepalive, Check, Release, Shut
  <2>2. closer' = NoOne
    BY <1>1, <2>1 DEF IInv, ClosersAnswered
  <2>3. Link = "standing" /\ Link' = "standing"
    BY <2>1, <2>2 DEF Link, IInv, ServerAlive
  <2>4. QED
    BY <1>1, <2>3 DEF Admitted, Shutting
<1>4. QED
  BY <1>2, <1>3

\* Counted operations enter while the admission is open, and leave at any time; a
\* GetServerStatus is not seen.
LEMMA OperationRefines ==
  ASSUME Operation
  PROVE  [Service!Next]_(Service!vars)
<1>1. UNCHANGED <<Shutting, Link>>
  BY DEF Operation, OpBegin, OpChecked, OpAdmitted, OpStatus, OpCanceled, OpReturns, Shutting,
     Link, setupVars, objectVars, closeVars
<1>2. CASE OpBegin \/ OpChecked \/ OpCanceled \/ OpStatus \/ (OpAdmitted /\ op' # "running")
  <2>1. UNCHANGED Admitted
    BY <1>2 DEF OpBegin, OpChecked, OpCanceled, OpStatus, OpAdmitted, OpDone, Admitted
  <2>2. QED
    BY <1>1, <2>1, ServiceStutters
<1>3. CASE OpAdmitted /\ op' = "running"
  <2>1. ~Shutting /\ ~Admitted /\ Admitted'
    BY <1>3 DEF OpAdmitted, OpDone, Shutting, Admitted
  <2>2. Service!Enter("op")
    BY <1>1, <2>1 DEF Service!Enter, Shutting, Link
  <2>3. QED
    BY <2>2 DEF Service!Next
<1>4. CASE OpReturns /\ opKind = "counted"
  <2>1. Admitted /\ ~Admitted'
    BY <1>4 DEF OpReturns, OpDone, Admitted
  <2>2. Service!Leave("op")
    BY <1>1, <2>1 DEF Service!Leave, Shutting, Link
  <2>3. QED
    BY <2>2 DEF Service!Next
<1>5. CASE OpReturns /\ opKind # "counted"
  <2>1. UNCHANGED Admitted
    BY <1>5 DEF OpReturns, OpDone, Admitted
  <2>2. QED
    BY <1>1, <2>1, ServiceStutters
<1>6. QED
  BY <1>2, <1>3, <1>4, <1>5 DEF Operation

\* Closing ends the abstract session, gives up those inside, and ends its connection
\* with nobody inside.
LEMMA ClosingRefines ==
  ASSUME IInv, Late, Closing
  PROVE  [Service!Next]_(Service!vars)
<1>1. UNCHANGED <<Admitted, pc>>
  BY DEF Closing, CancelLifetime, CloseAdmission, Drained, GiveUp, Teardown, CloseRelease,
     CloseShut, Finish, Admitted, setupVars, opVars
<1>2. CASE CancelLifetime \/ Drained \/ CloseRelease \/ Finish
  <2>1. UNCHANGED <<Shutting, Link>>
    BY <1>1, <1>2 DEF CancelLifetime, Drained, CloseRelease, Finish, Shutting, Link, objectVars
  <2>2. QED
    BY <1>1, <2>1, ServiceStutters
<1>3. CASE CloseAdmission
  <2>1. Shutting' /\ UNCHANGED Link
    BY <1>1, <1>3 DEF CloseAdmission, Shutting, Link, objectVars
  <2>2. Service!End
    BY <1>1, <2>1 DEF Service!End, Shutting, Link
  <2>3. QED
    BY <2>2 DEF Service!Next
<1>4. CASE GiveUp
  <2>1. Shutting /\ UNCHANGED Shutting
    BY <1>4 DEF GiveUp, Shutting
  <2>2. pc = "published"
    BY <1>4 DEF GiveUp, IInv, ClosersAnswered
  <2>3. conn["server"] = "open" /\ rpc["server"] = "live" /\ UNCHANGED conn
    BY <1>4, <2>2 DEF GiveUp, Late
  <2>4. rpc'["server"] = "canceled"
    BY <1>4 DEF GiveUp, IInv, TypeOK, Roles
  <2>5. Link = "standing" /\ Link' = "broken"
    BY <1>1, <2>2, <2>3, <2>4 DEF Link
  <2>6. Service!Abandon
    BY <1>1, <2>1, <2>5 DEF Service!Abandon, Shutting, Link
  <2>7. QED
    BY <2>6 DEF Service!Next
<1>5. CASE Teardown \/ CloseShut
  <2>1. Shutting /\ UNCHANGED Shutting /\ ~Admitted
    BY <1>5 DEF Teardown, CloseShut, Late, IInv, CloserProgress, Shutting
  <2>2. conn'["server"] = "closed"
    BY <1>5 DEF Teardown, CloseShut, IInv, TypeOK, Roles
  <2>3. pc = "published"
    BY <1>5 DEF Teardown, CloseShut, Late, IInv, ClosersAnswered
  <2>4. Link' = "gone"
    BY <1>1, <2>2, <2>3 DEF Link
  <2>5. Service!Disconnect
    BY <1>1, <2>1, <2>4 DEF Service!Disconnect, Shutting, Link
  <2>6. QED
    BY <2>5 DEF Service!Next
<1>6. QED
  BY <1>2, <1>3, <1>4, <1>5 DEF Closing

\* The callers of Close see only what the closer does.
LEMMA CallersInvisible ==
  ASSUME IInv,
         \/ WaitCtxEnds \/ Ended \/ UNCHANGED vars
         \/ \E c \in Closers : Close(c) \/ WaiterTold(c) \/ WaiterGivesUp(c)
  PROVE  UNCHANGED <<Admitted, Shutting, Link>>
<1>1. UNCHANGED <<op, opKind, pc, conn, rpc>>
  BY DEF WaitCtxEnds, Ended, vars, Close, WaiterTold, WaiterGivesUp, setupVars, objectVars,
     closeVars, opVars
<1>2. UNCHANGED Shutting
  BY DEF WaitCtxEnds, Ended, vars, Close, WaiterTold, WaiterGivesUp, closeVars, Shutting, IInv,
     ClosersAnswered
<1>3. QED
  BY <1>1, <1>2 DEF Admitted, Link

\* Connection implements the same abstract session as Session does: the operations it
\* counts enter while its admission is open, its RPC context ends under one only when
\* Close has given up, and its connection is closed with none of them inside.
THEOREM AdmissionRefinement == Spec => ImplementsService
<1>1. Init => Service!Init /\ Late
  <2> SUFFICES ASSUME Init PROVE Service!Init /\ Late
    OBVIOUS
  <2>1. ~Admitted /\ ~Shutting /\ Link = "standing" /\ Late
    BY DEF Init, Admitted, Shutting, Link, Late
  <2>2. QED
    BY <2>1 DEF Service!Init, Shutting, Link
<1>2. IInv /\ IInv' /\ Late /\ [Next]_vars => [Service!Next]_(Service!vars)
  <2> SUFFICES ASSUME IInv, IInv', Late, [Next]_vars
               PROVE  [Service!Next]_(Service!vars)
    OBVIOUS
  <2>1. CASE CtxEnds \/ Forwarding \/ Entry \/ Activation \/ Completion
    BY <2>1, SetupInvisible, ServiceStutters
  <2>2. CASE Operation
    BY <2>2, OperationRefines
  <2>3. CASE Closing
    BY <2>3, ClosingRefines
  <2>4. CASE \/ WaitCtxEnds \/ Ended \/ UNCHANGED vars
             \/ \E c \in Closers : Close(c) \/ WaiterTold(c) \/ WaiterGivesUp(c)
    BY <2>4, CallersInvisible, ServiceStutters
  <2>5. QED
    BY <2>1, <2>2, <2>3, <2>4 DEF Next
<1>3. QED
  BY <1>1, <1>2, LateStep, Invariant, PTL DEF Spec, ImplementsService, Service!Spec
=============================================================================
