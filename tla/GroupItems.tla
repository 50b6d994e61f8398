----------------------------- MODULE GroupItems -----------------------------
(***************************************************************************)
(* The items of one group: AddItems, RemoveItems, Read, ReadItems and      *)
(* Write.  A call holds the gate of the group through its last RPC, splits *)
(* its list into batches, and reports an outcome for each entry of the     *)
(* list.  A request can be lost, executed with its reply lost, or executed *)
(* after its caller gave up, and the server may reissue the handle of an   *)
(* item that it has removed.                                               *)
(*                                                                         *)
(* A call that does not get the gate (its context ends, the group is       *)
(* closed) changes nothing and takes no step here: see Session for the     *)
(* gate itself.                                                            *)
(***************************************************************************)
EXTENDS Naturals, FiniteSets

CONSTANTS
    Callers,      \* goroutines that use the group
    NoOne,        \* the gate is free; a request whose caller has given up
    ItemIDs,
    ValidIDs,     \* those that validateItemID accepts
    NoItem,       \* what a free handle stands for
    Handles,      \* item handles of the server
    NoHandle,
    MaxClient,    \* math.MaxUint32, the last client handle
    BatchSize,    \* maxBatchItems
    MaxList,      \* bound: the longest list a caller passes
    MaxLate       \* bound: requests on their way that nobody waits for

ASSUME GroupItemsAssumption ==
    /\ NoOne \notin Callers /\ NoItem \notin ItemIDs /\ NoHandle \notin Handles
    /\ ValidIDs \subseteq ItemIDs
    /\ MaxClient \in Nat /\ BatchSize \in Nat \ {0}
    /\ MaxList \in Nat /\ MaxLate \in Nat

VARIABLES
    \* persistentGroup
    gate, items, nextClientHandle,
    \* the call of each caller
    pc, op, ids, todo, out,
    \* the server's items and the calls on their way
    table, network,
    \* history: what became of each entry of a call; the order of registration;
    \* whether a removal was left unconfirmed
    fate, before, doubt

groupVars   == <<gate, items, nextClientHandle>>
callVars    == <<pc, op, ids, todo, out>>
serverVars  == <<table, network>>
historyVars == <<fate, before, doubt>>
vars == <<groupVars, callVars, serverVars, historyVars>>

Positions    == 1..MaxList
Clients      == 0..MaxClient
Unregistered == [handle |-> NoHandle, client |-> 0]
Free         == [id |-> NoItem, client |-> 0]
Ops          == {"add", "remove", "read", "write"}
Outcomes     == {"ok", "refused", "notAdded", "unconfirmed", "notRegistered",
                 "notObserved", "notAttempted", "unknown"}
Fates        == {"unsent", "sent", "executed", "misdirected", "refused"}
ListOf(S)    == UNION {[1..n -> S] : n \in 0..MaxList}
Lists        == ListOf(ItemIDs)
Slot         == [id     : ItemIDs,     \* what the caller means: only AddItems sends it
                 handle : Handles \cup {NoHandle},
                 client : Clients,
                 good   : BOOLEAN]     \* in a reply: the HRESULT of the item

IsMessage(m) ==
    /\ m = [type |-> m.type, op |-> m.op, by |-> m.by, slots |-> m.slots,
            status |-> m.status]
    /\ m.type \in {"request", "reply"} /\ m.op \in Ops /\ m.by \in Callers \cup {NoOne}
    /\ DOMAIN m.slots \subseteq Positions /\ m.slots \in [DOMAIN m.slots -> Slot]
    /\ m.status \in {"ok", "failed", "malformed"}

TypeOK ==
    /\ gate \in Callers \cup {NoOne}
    /\ items \in [ItemIDs -> [handle : Handles \cup {NoHandle}, client : Clients]]
    /\ nextClientHandle \in Clients
    /\ pc \in [Callers -> {"idle", "work", "sent", "return"}]
    /\ op \in [Callers -> Ops \cup {"none"}]
    /\ ids \in [Callers -> Lists]
    /\ todo \in [Callers -> SUBSET Positions]
    /\ out \in [Callers -> ListOf(Outcomes)]
    /\ table \in [Handles -> [id : ItemIDs \cup {NoItem}, client : Clients]]
    /\ \A m \in network : IsMessage(m)
    /\ fate \in [Callers -> ListOf(Fates)]
    /\ before \subseteq ItemIDs \X ItemIDs
    /\ doubt \in BOOLEAN

Init ==
    /\ gate = NoOne
    /\ items = [id \in ItemIDs |-> Unregistered]
    /\ nextClientHandle = 0
    /\ pc = [p \in Callers |-> "idle"]
    /\ op = [p \in Callers |-> "none"]
    /\ ids = [p \in Callers |-> <<>>]
    /\ todo = [p \in Callers |-> {}]
    /\ out = [p \in Callers |-> <<>>]
    /\ table = [h \in Handles |-> Free]
    /\ network = {}
    /\ fate = [p \in Callers |-> <<>>]
    /\ before = {} /\ doubt = FALSE

-----------------------------------------------------------------------------
(* Helpers *)

Registered == {id \in ItemIDs : items[id] # Unregistered}

\* The places in l at which an item occurs for the first time.
Firsts(l) == {i \in DOMAIN l : \A j \in DOMAIN l : j < i => l[j] # l[i]}

\* l is the list of the registered items, in the order of their client handles.
ByClient(l) ==
    /\ {l[i] : i \in DOMAIN l} = Registered
    /\ \A i, j \in DOMAIN l : i < j => items[l[i]].client < items[l[j]].client

\* The batch to be sent next: the first of the entries to do.
Chunk(p) == {i \in todo[p] : Cardinality({j \in todo[p] : j <= i}) <= BatchSize}

\* Mutant: the next client handle is the number of registered items and one.
ClientOfCount(p, i) ==
    Cardinality(Registered) + Cardinality({j \in Chunk(p) : j <= i})

\* Mutant: a batch gets its client handles from the last entry to the first.
ClientOfBackwards(p, i) ==
    nextClientHandle + Cardinality({j \in Chunk(p) : j >= i})

\* The client handle that AddItems gives to entry i of the batch.
ClientOf(p, i) == nextClientHandle + Cardinality({j \in Chunk(p) : j <= i})

\* There are client handles for the whole batch.
Fits(p) == nextClientHandle + Cardinality(Chunk(p)) <= MaxClient

Named(m)   == {m.slots[i].id : i \in DOMAIN m.slots}
Granted(m) == {m.slots[i].id : i \in {j \in DOMAIN m.slots : m.slots[j].good}}
At(m, id)  == CHOOSE i \in DOMAIN m.slots : m.slots[i].id = id

-----------------------------------------------------------------------------
(* Calls: each holds the gate from here to Return *)

\* Mutant: a read only looks at the group, so it does without the gate.
EnterUngated(p, o, l, do, outcomes) ==
    /\ pc[p] = "idle" /\ (gate = NoOne \/ o = "read")
    /\ gate' = IF o = "read" THEN gate ELSE p
    /\ pc' = [pc EXCEPT ![p] = "work"]
    /\ op' = [op EXCEPT ![p] = o]
    /\ ids' = [ids EXCEPT ![p] = l]
    /\ todo' = [todo EXCEPT ![p] = do]
    /\ out' = [out EXCEPT ![p] = outcomes]
    /\ fate' = [fate EXCEPT ![p] = [i \in DOMAIN l |-> "unsent"]]
    /\ UNCHANGED <<items, nextClientHandle, serverVars, before, doubt>>

\* p gets the gate for operation o on the list l.
Enter(p, o, l, do, outcomes) ==
    /\ pc[p] = "idle" /\ gate = NoOne
    /\ gate' = p
    /\ pc' = [pc EXCEPT ![p] = "work"]
    /\ op' = [op EXCEPT ![p] = o]
    /\ ids' = [ids EXCEPT ![p] = l]
    /\ todo' = [todo EXCEPT ![p] = do]
    /\ out' = [out EXCEPT ![p] = outcomes]
    /\ fate' = [fate EXCEPT ![p] = [i \in DOMAIN l |-> "unsent"]]
    /\ UNCHANGED <<items, nextClientHandle, serverVars, before, doubt>>

\* Valid items that are not registered are to be sent, each once.
AddItems(p, l) ==
    Enter(p, "add", l,
          {i \in Firsts(l) : l[i] \in ValidIDs \ Registered},
          [i \in DOMAIN l |-> CASE l[i] \notin ValidIDs   -> "refused"
                                [] l[i] \in Registered    -> "ok"
                                [] OTHER                  -> "notAdded"])

\* Registered items are to be removed, each once; others are removed already.
RemoveItems(p, l) ==
    Enter(p, "remove", l,
          {i \in Firsts(l) : l[i] \in Registered},
          [i \in DOMAIN l |-> "ok"])

\* Every entry for a registered item is read, duplicates too.
ReadItems(p, l) ==
    Enter(p, "read", l,
          {i \in DOMAIN l : l[i] \in Registered},
          [i \in DOMAIN l |-> IF l[i] \in Registered THEN "notObserved"
                                                     ELSE "notRegistered"])

\* Group.Read: all items of the group.
ReadGroup(p, l) == ByClient(l) /\ ReadItems(p, l)

\* The values come in a map, so l has no duplicates; bad are the entries whose value
\* has no Variant.
Write(p, l, bad) ==
    /\ Firsts(l) = DOMAIN l
    /\ Enter(p, "write", l,
             {i \in DOMAIN l \ bad : l[i] \in Registered},
             [i \in DOMAIN l |-> "notAttempted"])

\* The gate is there, but a keepalive failure is latched: nothing is sent.
Unhealthy(p, o, l) ==
    /\ pc[p] = "idle" /\ gate = NoOne
    /\ o = "write" => Firsts(l) = DOMAIN l
    /\ gate' = p
    /\ pc' = [pc EXCEPT ![p] = "return"]
    /\ op' = [op EXCEPT ![p] = o]
    /\ LET entries == IF o \in {"write", "remove"} THEN l ELSE <<>> IN
          /\ ids' = [ids EXCEPT ![p] = entries]
          /\ out' = [out EXCEPT ![p] =
                [i \in DOMAIN entries |->
                    IF o = "write" THEN "notAttempted" ELSE "unconfirmed"]]
          /\ fate' = [fate EXCEPT ![p] = [i \in DOMAIN entries |-> "unsent"]]
    /\ UNCHANGED <<items, nextClientHandle, todo, serverVars, before, doubt>>

\* The next batch is sent.
Send(p) ==
    /\ pc[p] = "work" /\ todo[p] # {}
    /\ op[p] = "add" => Fits(p)
    /\ nextClientHandle' =
          nextClientHandle + IF op[p] = "add" THEN Cardinality(Chunk(p)) ELSE 0
    /\ network' = network \cup
          {[type |-> "request", op |-> op[p], by |-> p, status |-> "ok",
            slots |-> [i \in Chunk(p) |->
                [id     |-> ids[p][i],
                 handle |-> items[ids[p][i]].handle,
                 client |-> IF op[p] = "add" THEN ClientOf(p, i) ELSE 0,
                 good   |-> FALSE]]]}
    /\ pc' = [pc EXCEPT ![p] = "sent"]
    /\ fate' = [fate EXCEPT ![p] =
          [i \in DOMAIN fate[p] |-> IF i \in Chunk(p) THEN "sent" ELSE fate[p][i]]]
    /\ UNCHANGED <<gate, items, op, ids, todo, out, table, before, doubt>>

\* The client handles run out in the middle of a batch; those left are used up.
Exhausted(p) ==
    /\ pc[p] = "work" /\ todo[p] # {} /\ op[p] = "add" /\ ~Fits(p)
    /\ nextClientHandle' = MaxClient
    /\ pc' = [pc EXCEPT ![p] = "return"]
    /\ UNCHANGED <<gate, items, op, ids, todo, out, serverVars, historyVars>>

\* The entries of the batch are done, with the outcomes given.
Done(p, m, outcomes) ==
    /\ pc[p] = "sent" /\ m \in network
    /\ m.type = "reply" /\ m.by = p /\ m.status = "ok"
    /\ network' = network \ {m}
    /\ pc' = [pc EXCEPT ![p] = "work"]
    /\ todo' = [todo EXCEPT ![p] = @ \ DOMAIN m.slots]
    /\ out' = [out EXCEPT ![p] = outcomes]
    /\ UNCHANGED <<gate, nextClientHandle, op, ids, table, fate, doubt>>

\* The outcome of an entry whose item is in the batch, at whatever place.
ItemOutcome(p, m, i) ==
    IF ids[p][i] \notin Named(m) THEN out[p][i]
    ELSE IF ids[p][i] \in Granted(m) THEN "ok" ELSE "refused"

\* Mutant: only the entry that was sent gets the outcome, not its duplicates.
AddedOnce(p, m) ==
    /\ op[p] = "add"
    /\ Done(p, m, [i \in DOMAIN out[p] |->
                      IF i \in DOMAIN m.slots THEN ItemOutcome(p, m, i) ELSE out[p][i]])
    /\ items' = [id \in ItemIDs |->
          IF id \in Granted(m) THEN [handle |-> m.slots[At(m, id)].handle,
                                     client |-> m.slots[At(m, id)].client]
                               ELSE items[id]]
    /\ before' = before \cup (Registered \X Granted(m)) \cup
          {pair \in Granted(m) \X Granted(m) : At(m, pair[1]) < At(m, pair[2])}

\* The items that the server accepted are registered.
Added(p, m) ==
    /\ op[p] = "add"
    /\ Done(p, m, [i \in DOMAIN out[p] |-> ItemOutcome(p, m, i)])
    /\ items' = [id \in ItemIDs |->
          IF id \in Granted(m) THEN [handle |-> m.slots[At(m, id)].handle,
                                     client |-> m.slots[At(m, id)].client]
                               ELSE items[id]]
    /\ before' = before \cup (Registered \X Granted(m)) \cup
          {pair \in Granted(m) \X Granted(m) : At(m, pair[1]) < At(m, pair[2])}

\* Mutant: the outcome is reported but the item stays in the table.
RemovedKeeps(p, m) ==
    /\ op[p] = "remove"
    /\ Done(p, m, [i \in DOMAIN out[p] |-> ItemOutcome(p, m, i)])
    /\ UNCHANGED <<items, before>>

\* The items that the server removed are no longer registered.
Removed(p, m) ==
    /\ op[p] = "remove"
    /\ Done(p, m, [i \in DOMAIN out[p] |-> ItemOutcome(p, m, i)])
    /\ items' = [id \in ItemIDs |-> IF id \in Granted(m) THEN Unregistered ELSE items[id]]
    /\ before' =
          {pair \in before : pair[1] \notin Granted(m) /\ pair[2] \notin Granted(m)}

\* Values, or results of writes, at the places of the batch.
Accessed(p, m) ==
    /\ op[p] \in {"read", "write"}
    /\ Done(p, m, [i \in DOMAIN out[p] |->
                      IF i \notin DOMAIN m.slots THEN out[p][i]
                      ELSE IF m.slots[i].good THEN "ok" ELSE "refused"])
    /\ UNCHANGED <<items, before>>

\* Mutant: a write that timed out is taken for one that was not sent.
OnErrorOptimistic(p, known) ==
    [i \in DOMAIN out[p] |->
        CASE op[p] = "write" /\ i \in Chunk(p) -> IF known THEN "refused" ELSE "notAttempted"
          [] op[p] = "remove" /\ ids[p][i] \in {ids[p][j] : j \in todo[p]} -> "unconfirmed"
          [] OTHER -> out[p][i]]

\* Mutant: only the batch that failed is reported, not the ones that follow.
OnErrorOfBatch(p, known) ==
    [i \in DOMAIN out[p] |->
        CASE op[p] = "write" /\ i \in Chunk(p) -> IF known THEN "refused" ELSE "unknown"
          [] op[p] = "remove" /\ ids[p][i] \in {ids[p][j] : j \in Chunk(p)} -> "unconfirmed"
          [] OTHER -> out[p][i]]

\* The outcomes when a call fails: known tells whether the server refused it.  A write
\* reports the batch, RemoveItems also what it has not come to.
OnError(p, known) ==
    [i \in DOMAIN out[p] |->
        CASE op[p] = "write" /\ i \in Chunk(p) -> IF known THEN "refused" ELSE "unknown"
          [] op[p] = "remove" /\ ids[p][i] \in {ids[p][j] : j \in todo[p]} -> "unconfirmed"
          [] OTHER -> out[p][i]]

\* The call as a whole has a failure HRESULT, or result arrays are missing.
CallFailed(p, m) ==
    /\ pc[p] = "sent" /\ m \in network
    /\ m.type = "reply" /\ m.by = p /\ m.status # "ok"
    /\ network' = network \ {m}
    /\ pc' = [pc EXCEPT ![p] = "return"]
    /\ out' = [out EXCEPT ![p] = OnError(p, m.status = "failed")]
    /\ doubt' = (doubt \/ (op[p] = "remove" /\ m.status = "malformed"))
    /\ UNCHANGED <<groupVars, op, ids, todo, table, fate, before>>

\* No answer: the request was lost, or not even sent, or its reply was lost, or it is
\* still on its way and will be executed after the call has returned.
GiveUp(p) ==
    /\ pc[p] = "sent"
    /\ \E late \in SUBSET {m \in network : m.by = p /\ m.type = "request"} :
          /\ late # {} => Cardinality({m \in network : m.by = NoOne}) < MaxLate
          /\ network' = {m \in network : m.by # p} \cup
                        {[m EXCEPT !.by = NoOne] : m \in late}
    /\ pc' = [pc EXCEPT ![p] = "return"]
    /\ out' = [out EXCEPT ![p] = OnError(p, FALSE)]
    /\ doubt' = (doubt \/ op[p] = "remove")
    /\ UNCHANGED <<groupVars, op, ids, todo, table, fate, before>>

\* The call returns, without an error if everything was done.
Returning(p) == pc[p] = "return" \/ (pc[p] = "work" /\ todo[p] = {})

Return(p) ==
    /\ Returning(p)
    /\ gate' = IF gate = p THEN NoOne ELSE gate
    /\ pc' = [pc EXCEPT ![p] = "idle"]
    /\ op' = [op EXCEPT ![p] = "none"]
    /\ ids' = [ids EXCEPT ![p] = <<>>]
    /\ todo' = [todo EXCEPT ![p] = {}]
    /\ out' = [out EXCEPT ![p] = <<>>]
    /\ fate' = [fate EXCEPT ![p] = <<>>]
    /\ UNCHANGED <<items, nextClientHandle, serverVars, before, doubt>>

-----------------------------------------------------------------------------
(* The server, as the code assumes it to behave *)

\* The request is executed; its reply goes to a caller that still waits.
Reply(m, slots, status, fates) ==
    /\ network' = (network \ {m}) \cup
          (IF m.by = NoOne THEN {}
           ELSE {[type |-> "reply", op |-> m.op, by |-> m.by, slots |-> slots,
                  status |-> status]})
    /\ fate' = IF m.by = NoOne THEN fate
               ELSE [fate EXCEPT ![m.by] = [i \in DOMAIN fate[m.by] |->
                        IF i \in DOMAIN slots THEN fates[i] ELSE fate[m.by][i]]]
    /\ UNCHANGED <<groupVars, callVars, before, doubt>>

Requested(m, ops) == m \in network /\ m.type = "request" /\ m.op \in ops

\* Each accepted item gets a free handle.
ServerAdds(m, status) ==
    /\ Requested(m, {"add"})
    /\ \E good \in SUBSET DOMAIN m.slots :
       \E grant \in [good -> {h \in Handles : table[h] = Free}] :
          /\ \A i, j \in good : grant[i] = grant[j] => i = j
          /\ table' = [h \in Handles |->
                IF \E i \in good : grant[i] = h
                THEN LET i == CHOOSE i \in good : grant[i] = h
                     IN  [id |-> m.slots[i].id, client |-> m.slots[i].client]
                ELSE table[h]]
          /\ Reply(m, [i \in DOMAIN m.slots |->
                          IF i \in good THEN [m.slots[i] EXCEPT !.good = TRUE,
                                                                !.handle = grant[i]]
                                        ELSE m.slots[i]],
                   status,
                   [i \in DOMAIN m.slots |-> IF i \in good THEN "executed" ELSE "refused"])

\* Handles in use are removed, read or written, or the item is refused; a handle that
\* is not in use is always refused.
ServerServes(m, status) ==
    /\ Requested(m, {"remove", "read", "write"})
    /\ \E good \in SUBSET {i \in DOMAIN m.slots : table[m.slots[i].handle] # Free} :
          /\ table' = [h \in Handles |->
                IF m.op = "remove" /\ \E i \in good : m.slots[i].handle = h
                THEN Free ELSE table[h]]
          /\ Reply(m, [i \in DOMAIN m.slots |-> [m.slots[i] EXCEPT !.good = i \in good]],
                   status,
                   [i \in DOMAIN m.slots |->
                      IF i \notin good THEN "refused"
                      ELSE IF table[m.slots[i].handle].id = m.slots[i].id THEN "executed"
                      ELSE "misdirected"])

\* A request that fails as a whole has no effect.
ServerFails(m) ==
    /\ Requested(m, Ops)
    /\ Reply(m, m.slots, "failed", [i \in DOMAIN m.slots |-> "refused"])
    /\ UNCHANGED table

-----------------------------------------------------------------------------
(* The specification *)

Step(p) ==
    \/ \E l \in Lists \ {<<>>} : AddItems(p, l) \/ RemoveItems(p, l) \/ ReadItems(p, l)
    \/ \E l \in Lists \ {<<>>} : \E bad \in SUBSET DOMAIN l : Write(p, l, bad)
    \/ \E l \in Lists \ {<<>>}, o \in Ops : Unhealthy(p, o, l)
    \/ \E l \in Lists : ReadGroup(p, l)
    \/ Send(p) \/ Exhausted(p) \/ GiveUp(p) \/ Return(p)
    \/ \E m \in network : Added(p, m) \/ Removed(p, m) \/ Accessed(p, m) \/ CallFailed(p, m)

ServerStep ==
    \E m \in network :
        \/ ServerFails(m)
        \/ \E status \in {"ok", "malformed"} : ServerAdds(m, status) \/ ServerServes(m, status)

Next == (\E p \in Callers : Step(p)) \/ ServerStep

Spec == Init /\ [][Next]_vars

-----------------------------------------------------------------------------
(* Properties *)

\* As long as every removal was confirmed or refused, a registered item is the one the
\* server knows under its handle, with its client handle, however the server reissues
\* handles and whatever else was lost.
RegistrationsValid ==
    ~doubt => \A id \in Registered :
        \/ table[items[id].handle] = [id |-> id, client |-> items[id].client]
        \/ \E p \in Callers : \E i \in Chunk(p) :
              pc[p] = "sent" /\ op[p] = "remove" /\ ids[p][i] = id

\* The server never has two items of the group under one client handle, also when
\* items that the client does not know of were registered by a late AddItems.
ClientHandlesUnique ==
    \A h, k \in Handles :
        table[h] # Free /\ table[k] # Free /\ table[h].client = table[k].client => h = k

\* The order of client handles, in which Group.Read reports, is that of registration.
RegistrationOrder ==
    \A a, b \in Registered :
        <<a, b>> \in before <=> items[a].client < items[b].client

\* AddItems reports success for exactly the registered items: duplicates, items
\* registered earlier and items of the batches before one that failed are included.
AddOutcomesTrue ==
    \A p \in Callers : Returning(p) /\ op[p] = "add" =>
        \A i \in DOMAIN out[p] : out[p][i] = "ok" <=> ids[p][i] \in Registered

\* What RemoveItems reports as removed is not registered (any more), and unless an
\* earlier removal is in doubt the server executed the removal of that very item; what
\* it reports refused is still registered, and so is what it reports unconfirmed when it
\* failed with something left to remove.  (A call with nothing left, such as one that is
\* refused at its start because of the pinger's error, reports its items unconfirmed
\* whether they are registered or not.)
RemoveOutcomesTrue ==
    \A p \in Callers : Returning(p) /\ op[p] = "remove" =>
        \A i \in DOMAIN out[p] :
            /\ out[p][i] = "ok" =>
                  /\ ids[p][i] \notin Registered
                  /\ doubt \/ fate[p][i] \in {"unsent", "executed"}
            /\ out[p][i] = "refused" => ids[p][i] \in Registered
            /\ out[p][i] = "unconfirmed" =>
                  /\ pc[p] = "return"
                  /\ todo[p] # {} => ids[p][i] \in Registered

\* What is reported as read was read, of the item at this place of the list; what is
\* not observed is left out only with an error.
ReadOutcomesTrue ==
    \A p \in Callers : Returning(p) /\ op[p] = "read" =>
        \A i \in DOMAIN out[p] :
            /\ out[p][i] = "ok" => fate[p][i] = "executed" \/ (doubt /\ fate[p][i] = "misdirected")
            /\ out[p][i] = "refused" => fate[p][i] = "refused"
            /\ out[p][i] = "notRegistered" <=> ids[p][i] \notin Registered
            /\ out[p][i] = "notObserved" => pc[p] = "return"

\* A write that is acknowledged was executed on the item that was named; one that is
\* refused was not executed; one that is reported not attempted was never sent, and
\* one that was not sent is reported so.
WriteOutcomesTrue ==
    \A p \in Callers : Returning(p) /\ op[p] = "write" =>
        \A i \in DOMAIN out[p] :
            /\ out[p][i] = "ok" => fate[p][i] = "executed" \/ (doubt /\ fate[p][i] = "misdirected")
            /\ out[p][i] = "refused" => fate[p][i] = "refused"
            /\ out[p][i] = "notAttempted" <=> fate[p][i] = "unsent"
=============================================================================
