----------------------------- MODULE Keepalive -----------------------------
(***************************************************************************)
(* The object pinger of a session (objectPinger): the groups and the       *)
(* activated server are kept alive by a ping set on the server's object    *)
(* exporter.  The client counts the users of each object and changes the   *)
(* set (ComplexPing) when a count leaves or reaches zero; a goroutine      *)
(* pings the set (SimplePing); stopKeepalive ends both.                    *)
(*                                                                         *)
(* A Group is a persistent group whose set-up retains its object and whose *)
(* disposal releases it, in whichever goroutine they run.  Owner is the    *)
(* goroutine of startKeepalive and later of stopKeepalive, Loop the one of *)
(* run.  A ComplexPing can be lost, executed after it was given up, or     *)
(* executed with its reply lost.                                           *)
(***************************************************************************)
EXTENDS Naturals, FiniteSets

CONSTANTS
    Groups,         \* persistent groups that need pings
    Owner, Loop,    \* the goroutines of start/stop and of run
    NoOne,          \* the gate is free
    Oids,           \* object identifiers
    ServerOid,      \* dcomConn.serverOID
    NoOid,          \* the zero OID of an incomplete reference
    SetIDs,         \* ping sets the exporter can hand out; 0 stands for none
    SequenceWidth,  \* 65536: SequenceNum is a uint16
    MaxUsers        \* bound: no group is created on an object with more users

ASSUME KeepaliveAssumption ==
    /\ IsFiniteSet(Groups)
    /\ Owner \notin Groups /\ Loop \notin Groups \cup {Owner}
    /\ NoOne \notin Groups \cup {Owner, Loop}
    /\ ServerOid \in Oids /\ NoOid \notin Oids
    /\ SetIDs \subseteq Nat \ {0}
    /\ SequenceWidth \in Nat \ {0}
    /\ MaxUsers \in Nat

VARIABLES
    \* objectPinger
    gate, set, sequence, objects, err, conn,
    \* the goroutines
    pc, op, oid, canceled, closeErr,
    \* the object exporter and the calls on their way
    remote, allocated, seen, network

pingerVars == <<gate, set, sequence, objects, err, conn>>
actorVars  == <<pc, op, oid, canceled, closeErr>>
serverVars == <<remote, allocated, seen, network>>
vars == <<pingerVars, actorVars, serverVars>>

NoSet   == 0
Changers == Groups \cup {Owner}
Actors  == Changers \cup {Loop}
PCs     == {"bind", "started", "live", "join", "closed",
            "idle", "acquire", "held", "change", "retained", "ping", "done"}
Message == [type     : {"ComplexPing", "Changed"},
            by       : Changers,
            setID    : SetIDs \cup {NoSet},
            sequence : 0..(SequenceWidth - 1),
            add      : SUBSET Oids,
            delete   : SUBSET Oids]

TypeOK ==
    /\ gate \in Actors \cup {NoOne}
    /\ set \in SetIDs \cup {NoSet}
    /\ sequence \in 0..(SequenceWidth - 1)
    /\ objects \in [Oids -> Nat]
    /\ err \in BOOLEAN
    /\ conn \in {"none", "open", "closed"}
    /\ pc \in [Actors -> PCs]
    /\ op \in [Changers -> {"none", "add", "delete", "clear"}]
    /\ oid \in [Changers -> Oids \cup {NoOid}]
    /\ canceled \subseteq Changers
    /\ closeErr \in BOOLEAN
    /\ remote \in [SetIDs -> SUBSET Oids]
    /\ allocated \subseteq SetIDs
    /\ seen \in 0..(SequenceWidth - 1)
    /\ network \subseteq Message

Init ==
    /\ gate = NoOne /\ set = NoSet /\ sequence = 0
    /\ objects = [o \in Oids |-> 0]
    /\ err = FALSE /\ conn = "none"
    /\ pc = [p \in Actors |-> IF p = Owner THEN "bind" ELSE "idle"]
    /\ op = [p \in Changers |-> "none"]
    /\ oid = [p \in Changers |-> IF p = Owner THEN ServerOid ELSE NoOid]
    /\ canceled = {} /\ closeErr = FALSE
    /\ remote = [s \in SetIDs |-> {}]
    /\ allocated = {} /\ seen = 0 /\ network = {}

-----------------------------------------------------------------------------
(* Helpers *)

\* The pinger is published (dcomConn.pinger) and its goroutine runs.
Published == pc[Owner] = "live"

\* Mutant: close waits for the goroutine before it cancels its context.
LoopRunsOn == pc[Owner] \in {"live", "join"}

\* The context of the goroutine, which close cancels first of all.
LoopAlive == pc[Owner] = "live"

Retained == {o \in Oids : objects[o] > 0}

\* Where an actor goes when its call of the pinger returns.
After(p, ok) ==
    CASE op[p] = "clear"              -> "closed"
      [] op[p] = "add" /\ p = Owner   -> IF ok THEN "started" ELSE "acquire"
      [] op[p] = "add" /\ p # Owner   -> IF ok THEN "retained" ELSE "idle"
      [] OTHER                        -> "idle"

\* add, releaseObject or close returns.  The gate is released on every path.  A
\* startKeepalive that failed goes on to close what it has, and close always
\* closes the transport.
Return(p, ok) ==
    /\ pc' = [pc EXCEPT ![p] = After(p, ok)]
    /\ op' = [op EXCEPT ![p] = CASE p = Owner /\ ~ok          -> "clear"
                                 [] After(p, ok) = "idle"     -> "none"
                                 [] OTHER                     -> @]
    /\ oid' = IF After(p, ok) = "idle" THEN [oid EXCEPT ![p] = NoOid] ELSE oid
    /\ gate' = IF gate = p THEN NoOne ELSE gate
    /\ canceled' = canceled \ {p}
    /\ conn' = IF op[p] = "clear" THEN "closed" ELSE conn
    /\ closeErr' = (closeErr \/ (op[p] = "clear" /\ ~ok))

\* The ComplexPing that the operation of p needs, if it needs one.
ToAdd(p)    == IF op[p] = "add" THEN {oid[p]} ELSE {}
ToDelete(p) == CASE op[p] = "delete" -> {oid[p]}
                 [] op[p] = "clear"  -> Retained
                 [] OTHER            -> {}

\* Mutant: a release deletes the object whoever else uses it.
NeedsChangeAlways(p) ==
    \/ op[p] = "add" /\ oid[p] \in Oids /\ ~err /\ objects[oid[p]] = 0
    \/ op[p] = "delete" /\ objects[oid[p]] >= 1
    \/ op[p] = "clear" /\ Retained # {}

NeedsChange(p) ==
    \/ op[p] = "add" /\ oid[p] \in Oids /\ ~err /\ objects[oid[p]] = 0
    \/ op[p] = "delete" /\ objects[oid[p]] = 1
    \/ op[p] = "clear" /\ Retained # {}

-----------------------------------------------------------------------------
(* Starting: startKeepalive runs once, before the session is published *)

\* Binding fails, or binds and then fails to make a client, or the server asks for
\* no pings (SORF_NOPING), or its object has to be added first.
Bind ==
    /\ pc[Owner] = "bind"
    /\ \E next \in {"closed", "started", "acquire"}, o \in {"none", "add", "clear"} :
          /\ <<next, o>> \in {<<"closed", "none">>, <<"started", "none">>,
                              <<"acquire", "add">>, <<"acquire", "clear">>}
          /\ pc' = [pc EXCEPT ![Owner] = next]
          /\ op' = [op EXCEPT ![Owner] = o]
          /\ conn' = IF next = "closed" THEN "none" ELSE "open"
    /\ UNCHANGED <<gate, set, sequence, objects, err, oid, canceled, closeErr,
                   serverVars>>

\* Mutant: a start that is canceled leaves its server object in the set.
PublishForgets ==
    /\ pc[Owner] = "started"
    /\ IF Owner \in canceled
         THEN pc' = [pc EXCEPT ![Owner] = "closed"] /\ conn' = "closed"
         ELSE pc' = [pc EXCEPT ![Owner] = "live"] /\ UNCHANGED conn
    /\ canceled' = canceled \ {Owner}
    /\ UNCHANGED <<op, oid, closeErr, gate, set, sequence, objects, err, serverVars>>

\* The pinger is published and its goroutine starts, unless the context of
\* startKeepalive has ended; then it is closed again under a context of its own.
Publish ==
    /\ pc[Owner] = "started"
    /\ IF Owner \in canceled
         THEN /\ pc' = [pc EXCEPT ![Owner] = "acquire"]
              /\ op' = [op EXCEPT ![Owner] = "clear"]
         ELSE /\ pc' = [pc EXCEPT ![Owner] = "live"]
              /\ UNCHANGED op
    /\ canceled' = canceled \ {Owner}
    /\ UNCHANGED <<oid, closeErr, pingerVars, serverVars>>

-----------------------------------------------------------------------------
(* Retaining and releasing *)

\* A group was created: retainObject for its object.
Retain(g, o) ==
    /\ pc[g] = "idle" /\ Published
    /\ o \in Oids => objects[o] <= MaxUsers
    /\ pc' = [pc EXCEPT ![g] = "acquire"]
    /\ op' = [op EXCEPT ![g] = "add"]
    /\ oid' = [oid EXCEPT ![g] = o]
    /\ UNCHANGED <<canceled, closeErr, pingerVars, serverVars>>

\* A group is disposed of, once: releaseObject.
Release(g) ==
    /\ pc[g] = "retained" /\ Published
    /\ pc' = [pc EXCEPT ![g] = "acquire"]
    /\ op' = [op EXCEPT ![g] = "delete"]
    /\ UNCHANGED <<oid, canceled, closeErr, pingerVars, serverVars>>

\* The context of the call ends.
Cancel(p) ==
    /\ pc[p] \in {"acquire", "held", "change", "started", "join"}
    /\ p \notin canceled
    /\ canceled' = canceled \cup {p}
    /\ UNCHANGED <<pc, op, oid, closeErr, pingerVars, serverVars>>

Acquire(p) ==
    /\ pc[p] = "acquire" /\ p \notin canceled /\ gate = NoOne
    /\ gate' = p
    /\ pc' = [pc EXCEPT ![p] = "held"]
    /\ UNCHANGED <<set, sequence, objects, err, conn, op, oid, canceled, closeErr,
                   serverVars>>

\* Mutant: the gate is a mutex, so a waiting call cannot give up.
AcquireBlocks(p) ==
    /\ pc[p] = "acquire" /\ p \in canceled /\ gate = NoOne
    /\ Return(p, FALSE)
    /\ UNCHANGED <<set, sequence, objects, err, serverVars>>

\* The context ended before the gate was free; close still closes the transport.
AcquireFailed(p) ==
    /\ pc[p] = "acquire" /\ p \in canceled
    /\ Return(p, FALSE)
    /\ UNCHANGED <<set, sequence, objects, err, serverVars>>

\* add refuses a missing OID, and every object once an error is latched.
Refuse(p) ==
    /\ pc[p] = "held" /\ op[p] = "add"
    /\ oid[p] = NoOid \/ err
    /\ Return(p, FALSE)
    /\ UNCHANGED <<set, sequence, objects, err, serverVars>>

\* Mutant: add looks at the health only when it has to change the set.
ShareUnchecked(p) ==
    /\ pc[p] = "held" /\ op[p] = "add" /\ oid[p] \in Oids
    /\ objects[oid[p]] > 0
    /\ objects' = [objects EXCEPT ![oid[p]] = @ + 1]
    /\ Return(p, TRUE)
    /\ UNCHANGED <<set, sequence, err, serverVars>>

\* One more user of an object that is in the set.
Share(p) ==
    /\ pc[p] = "held" /\ op[p] = "add" /\ oid[p] \in Oids /\ ~err
    /\ objects[oid[p]] > 0
    /\ objects' = [objects EXCEPT ![oid[p]] = @ + 1]
    /\ Return(p, TRUE)
    /\ UNCHANGED <<set, sequence, err, serverVars>>

\* One user of an object less, and others remain.
Unshare(p) ==
    /\ pc[p] = "held" /\ op[p] = "delete" /\ objects[oid[p]] > 1
    /\ objects' = [objects EXCEPT ![oid[p]] = @ - 1]
    /\ Return(p, TRUE)
    /\ UNCHANGED <<set, sequence, err, serverVars>>

\* Nothing to delete from the set.
NothingToDelete(p) ==
    /\ pc[p] = "held"
    /\ \/ op[p] = "delete" /\ objects[oid[p]] = 0
       \/ op[p] = "clear" /\ Retained = {}
    /\ Return(p, TRUE)
    /\ UNCHANGED <<set, sequence, objects, err, serverVars>>

\* Mutant: the sequence number is taken before the context is looked at.
ChangeCanceledLate(p) ==
    /\ pc[p] = "held" /\ NeedsChange(p) /\ p \in canceled
    /\ sequence' = (sequence + 1) % SequenceWidth
    /\ Return(p, FALSE)
    /\ UNCHANGED <<set, objects, err, serverVars>>

\* The context ended before the dispatch: nothing has happened, nothing is in doubt.
ChangeCanceled(p) ==
    /\ pc[p] = "held" /\ NeedsChange(p) /\ p \in canceled
    /\ Return(p, FALSE)
    /\ UNCHANGED <<set, sequence, objects, err, serverVars>>

\* The ComplexPing is dispatched.
Change(p) ==
    /\ pc[p] = "held" /\ NeedsChange(p) /\ p \notin canceled
    /\ sequence' = (sequence + 1) % SequenceWidth
    /\ network' = network \cup
         {[type |-> "ComplexPing", by |-> p, setID |-> set, sequence |-> sequence',
           add |-> ToAdd(p), delete |-> ToDelete(p)]}
    /\ pc' = [pc EXCEPT ![p] = "change"]
    /\ UNCHANGED <<gate, set, objects, err, conn, op, oid, canceled, closeErr,
                   remote, allocated, seen>>

\* The reply names the set, and the count follows the set.
Changed(p, m) ==
    /\ pc[p] = "change" /\ m \in network /\ m.type = "Changed" /\ m.by = p
    /\ network' = network \ {m}
    /\ set' = m.setID
    /\ objects' = [o \in Oids |-> CASE o \in ToAdd(p)                     -> 1
                                    [] op[p] = "delete" /\ o = oid[p]     -> 0
                                    [] OTHER                              -> objects[o]]
    /\ Return(p, TRUE)
    /\ UNCHANGED <<sequence, err, remote, allocated, seen>>

\* Mutant: a context that ends is taken for "nothing happened".
ChangeFailedQuietly(p) ==
    /\ pc[p] = "change"
    /\ network' = {m \in network : ~(m.type = "Changed" /\ m.by = p)}
    /\ err' = (err \/ p \notin canceled)
    /\ Return(p, FALSE)
    /\ UNCHANGED <<set, sequence, objects, remote, allocated, seen>>

\* No reply, or an error: whether the set was changed is not known.
ChangeFailed(p) ==
    /\ pc[p] = "change"
    /\ network' = {m \in network : ~(m.type = "Changed" /\ m.by = p)}
    /\ err' = TRUE
    /\ Return(p, FALSE)
    /\ UNCHANGED <<set, sequence, objects, remote, allocated, seen>>

-----------------------------------------------------------------------------
(* The goroutine: run *)

LoopGoes(l) ==
    /\ pc' = [pc EXCEPT ![Loop] = l]
    /\ UNCHANGED <<set, sequence, objects, conn, op, oid, canceled, closeErr,
                   serverVars>>

\* The ticker fires; select may prefer it to a context that has ended.
Tick ==
    /\ pc[Loop] = "idle" /\ pc[Owner] \in {"live", "join"}
    /\ LoopGoes("acquire") /\ UNCHANGED <<gate, err>>

\* It has the gate: it pings the set if there is one.
LoopAcquire ==
    /\ pc[Loop] = "acquire" /\ gate = NoOne /\ LoopAlive
    /\ IF set = NoSet
         THEN LoopGoes("idle") /\ UNCHANGED gate
         ELSE LoopGoes("ping") /\ gate' = Loop
    /\ UNCHANGED err

\* Ten seconds have passed, or the context of the goroutine has ended.
LoopGivesUp ==
    /\ pc[Loop] = "acquire"
    /\ LoopGoes("idle") /\ UNCHANGED <<gate, err>>

\* Mutant: a ping that succeeds takes the error back.
PingedRecovers(failed) ==
    /\ pc[Loop] = "ping"
    /\ LoopGoes("idle") /\ gate' = NoOne
    /\ err' = (failed /\ (err \/ LoopAlive))

\* The SimplePing succeeds, or fails: an error unless the goroutine is being ended.
Pinged(failed) ==
    /\ pc[Loop] = "ping"
    /\ LoopGoes("idle") /\ gate' = NoOne
    /\ err' = (err \/ (failed /\ LoopAlive))

LoopExit ==
    /\ pc[Loop] = "idle" /\ pc[Owner] = "join" /\ ~LoopAlive
    /\ LoopGoes("done") /\ UNCHANGED <<gate, err>>

-----------------------------------------------------------------------------
(* Stopping: stopKeepalive and close *)

\* closeContext (or the goroutine it leaves behind) calls stopKeepalive when no
\* operation is admitted any more.  Groups it has not disposed of stay retained.
Stop ==
    /\ pc[Owner] = "live"
    /\ \A g \in Groups : pc[g] \in {"idle", "retained"}
    /\ pc' = [pc EXCEPT ![Owner] = "join"]
    /\ UNCHANGED <<op, oid, canceled, closeErr, pingerVars, serverVars>>

\* The goroutine has ended; then the set is cleared, for which the gate is needed.
Join ==
    /\ pc[Owner] = "join" /\ pc[Loop] = "done"
    /\ pc' = [pc EXCEPT ![Owner] = "acquire"]
    /\ op' = [op EXCEPT ![Owner] = "clear"]
    /\ UNCHANGED <<oid, canceled, closeErr, pingerVars, serverVars>>

-----------------------------------------------------------------------------
(* The object exporter, as the code and its tests assume it to behave *)

\* A ComplexPing without a set makes one; its reply goes to a call that still waits.
ServerChanges(m, s) ==
    /\ m \in network /\ m.type = "ComplexPing"
    /\ IF m.setID = NoSet THEN s \notin allocated ELSE s = m.setID
    /\ allocated' = allocated \cup {s}
    /\ remote' = [remote EXCEPT ![s] = (@ \cup m.add) \ m.delete]
    /\ seen' = m.sequence
    /\ network' = (network \ {m}) \cup
         (IF pc[m.by] = "change" THEN {[m EXCEPT !.type = "Changed", !.setID = s]}
                                 ELSE {})
    /\ UNCHANGED <<pingerVars, actorVars>>

-----------------------------------------------------------------------------
(* The specification *)

Step(p) ==
    \/ Acquire(p) \/ AcquireFailed(p)
    \/ Refuse(p) \/ Share(p) \/ Unshare(p) \/ NothingToDelete(p)
    \/ ChangeCanceled(p) \/ Change(p)
    \/ \E m \in network : Changed(p, m)
    \/ ChangeFailed(p)

LoopStep == LoopAcquire \/ LoopGivesUp \/ Pinged(TRUE) \/ Pinged(FALSE)

\* The pinger is closed and nothing more happens here.
Terminated == pc[Owner] = "closed" /\ UNCHANGED vars

Next ==
    \/ Bind \/ Publish \/ Stop \/ Join
    \/ \E g \in Groups, o \in Oids \cup {NoOid} : Retain(g, o)
    \/ \E g \in Groups : Release(g)
    \/ \E p \in Changers : Cancel(p) \/ Step(p)
    \/ Tick \/ LoopStep \/ LoopExit
    \/ \E m \in network, s \in SetIDs : ServerChanges(m, s)
    \/ Terminated

Spec == Init /\ [][Next]_vars

\* Goroutines run, and the select of run does not pass over an ended context for
\* ever.  A call returns once its context has ended: the goroutine's own calls have
\* ten seconds each, and the context of a start or stop has an end.  Nothing is
\* assumed of the exporter, nor that a group's context ever ends.
Fairness ==
    /\ \A p \in Changers : WF_vars((pc[p] = "change" => p \in canceled) /\ Step(p))
    /\ WF_vars(Cancel(Owner))
    /\ WF_vars(Bind) /\ WF_vars(Publish) /\ WF_vars(Join)
    /\ WF_vars(LoopStep) /\ SF_vars(LoopExit)

FairSpec == Spec /\ Fairness

-----------------------------------------------------------------------------
(* Safety *)

\* p has retained its object and has not yet sent the request that may end that.
Holds(p) ==
    \/ pc[p] = "retained"
    \/ op[p] = "delete" /\ pc[p] \in {"acquire", "held"}
    \/ p = Owner /\ op[p] = "add" /\ pc[p] \in {"started", "live", "join"}

\* stopKeepalive has sent the deletion of everything, or is over.
Clearing == op[Owner] = "clear" /\ pc[Owner] \in {"change", "closed"}

\* A group whose set-up succeeded stays in the server's ping set until its own
\* disposal (or the pinger's close), whatever the other groups do and whatever
\* fails: also when another user of the same object was released with an unknown
\* outcome, or gave up and its request is executed late.
RetainedIsPinged ==
    ~Clearing =>
        \A p \in Changers : Holds(p) => set \in SetIDs /\ oid[p] \in remote[set]

\* As long as no failure is reported the exporter's sets hold exactly the objects
\* the client counts: canceled calls have left nothing behind on either side.
HealthySetIsExact ==
    ~err /\ pc[Owner] # "closed" /\ (\A p \in Changers : pc[p] # "change") =>
        UNION {remote[s] : s \in SetIDs} = Retained

\* As long as no failure is reported the exporter has seen the last sequence number
\* the client used: a call canceled before its dispatch uses none up.
SequenceInStep ==
    ~err /\ (\A p \in Changers : pc[p] # "change") => seen = sequence

\* An update whose outcome is uncertain is treated as a keepalive failure, for good.
UncertainIsFailure ==
    \A m \in network : pc[m.by] = "change" \/ err

\* A start that fails, and a stop that reports no error on a healthy pinger, leave
\* no object in any set of the exporter.
StopLeavesNothing ==
    pc[Owner] = "closed" /\ ~closeErr /\ ~err => \A s \in SetIDs : remote[s] = {}

\* What the comment on Server.Close says: it releases ping sets and reports cleanup
\* errors.  So when the stop of a published pinger closes the transport and reports
\* nothing, the sets are empty.  It fails: an addition whose reply was lost is not
\* among the objects that close deletes.
CloseReleasesPingSets ==
    [][conn = "open" /\ conn' = "closed" /\ pc[Loop] = "done" /\ ~closeErr' =>
          \A s \in SetIDs : remote'[s] = {}]_vars

-----------------------------------------------------------------------------
(* The abstract pinger *)

Leases == INSTANCE LeaseService WITH
    Users <- Changers, Objects <- Oids, Nothing <- NoOid,
    lease <- [p \in Changers |-> IF Holds(p) /\ ~Clearing THEN oid[p] ELSE NoOid],
    kept <- IF set = NoSet THEN {} ELSE remote[set],
    failed <- err, over <- Clearing

\* The pinger is the abstract one: with every request late, lost or executed after
\* its caller gave up, an object is retained only while the keepalive has not failed,
\* and then stays in the set that is pinged until its own users give it up.
ImplementsLeases == Leases!Spec

-----------------------------------------------------------------------------
(* Liveness, under FairSpec *)

\* stopKeepalive ends and closes the transport, although it waits for the goroutine
\* without a context and for a gate others may hold.
StopReturns == pc[Owner] = "join" ~> pc[Owner] = "closed" /\ conn = "closed"

\* A retain or release whose context has ended returns, also when the gate is held
\* by a call that nobody answers.
CanceledReturns ==
    \A g \in Groups : g \in canceled ~> pc[g] \in {"idle", "retained"}
=============================================================================
