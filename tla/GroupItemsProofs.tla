-------------------------- MODULE GroupItemsProofs --------------------------
(* Theorems about GroupItems, for every number of items, handles and callers, and *)
(* every size of batches and lists.                                               *)
EXTENDS GroupItems, FiniteSetTheorems, WellFoundedInduction, TLAPS

-----------------------------------------------------------------------------
(* The inductive invariant *)

\* The call is not over yet: what is in todo is still to be reported.
Active(p) == pc[p] \in {"work", "sent"}

TodoIDs(p) == {ids[p][i] : i \in todo[p]}

\* The gate belongs to the only call there is.
Gated == \A p \in Callers : pc[p] # "idle" <=> gate = p

\* The lists of a call belong together, and what is to be done can be done.
Calls == \A p \in Callers :
    /\ pc[p] = "idle" => todo[p] = {} /\ DOMAIN out[p] = {} /\ DOMAIN fate[p] = {}
    /\ pc[p] # "idle" =>
          /\ op[p] \in Ops
          /\ DOMAIN out[p] = DOMAIN ids[p] /\ DOMAIN fate[p] = DOMAIN ids[p]
          /\ todo[p] \subseteq DOMAIN ids[p]
          /\ op[p] \in {"add", "remove"} => todo[p] \subseteq Firsts(ids[p])
    /\ Active(p) => \A i \in todo[p] :
          IF op[p] = "add" THEN ids[p][i] \in ValidIDs \ Registered
                           ELSE ids[p][i] \in Registered

\* A message is that of the call in progress, and there is one; or it is a request whose
\* caller has given up.
Waited == \A m \in network :
    /\ m.by = NoOne => m.type = "request"
    /\ m.by # NoOne =>
          /\ pc[m.by] = "sent" /\ m.op = op[m.by] /\ DOMAIN m.slots = Chunk(m.by)
          /\ \A i \in DOMAIN m.slots : m.slots[i].id = ids[m.by][i]
          /\ \A n \in network : n.by = m.by => n = m

\* What a request asks for, and what a reply says about the fate of its entries.
Contents == \A m \in network : \A i \in DOMAIN m.slots :
    /\ m.type = "request" =>
          /\ ~m.slots[i].good
          /\ m.op # "add" => m.slots[i].handle \in Handles
          /\ m.op # "add" /\ m.by # NoOne =>
                m.slots[i].handle = items[m.slots[i].id].handle
    /\ m.type = "reply" =>
          /\ m.slots[i].good => fate[m.by][i] \in {"executed", "misdirected"}
          /\ ~m.slots[i].good /\ m.status # "malformed" => fate[m.by][i] = "refused"
          /\ m.status = "failed" => ~m.slots[i].good
          /\ m.slots[i].good => m.slots[i].handle \in Handles

\* An entry is sent with its batch, and only a removal in doubt misdirects it.
Fated == \A p \in Callers : \A i \in DOMAIN fate[p] :
    /\ fate[p][i] = "misdirected" => doubt
    /\ Active(p) /\ i \in todo[p] =>
          (fate[p][i] = "unsent" <=> ~(pc[p] = "sent" /\ i \in Chunk(p)))
    /\ op[p] = "remove" /\ i \notin Firsts(ids[p]) => fate[p][i] = "unsent"

AddTrue(p, i) == out[p][i] = "ok" <=> ids[p][i] \in Registered

RemoveTrue(p, i) ==
    /\ out[p][i] = "ok" =>
          /\ ids[p][i] \notin Registered
          /\ doubt \/ fate[p][i] \in {"unsent", "executed"}
    /\ out[p][i] = "refused" => ids[p][i] \in Registered
    /\ out[p][i] = "unconfirmed" =>
          pc[p] = "return" /\ (todo[p] # {} => ids[p][i] \in Registered)

ReadTrue(p, i) ==
    /\ out[p][i] = "ok" => fate[p][i] = "executed" \/ (doubt /\ fate[p][i] = "misdirected")
    /\ out[p][i] = "refused" => fate[p][i] = "refused"
    /\ out[p][i] = "notRegistered" <=> ids[p][i] \notin Registered
    /\ out[p][i] = "notObserved" => pc[p] = "return"

WriteTrue(p, i) ==
    /\ out[p][i] = "ok" => fate[p][i] = "executed" \/ (doubt /\ fate[p][i] = "misdirected")
    /\ out[p][i] = "refused" => fate[p][i] = "refused"
    /\ out[p][i] = "notAttempted" <=> fate[p][i] = "unsent"

\* The outcomes are true of the entries that are done, at every moment of a call.
Outcome(p, i) ==
    /\ op[p] = "add" => AddTrue(p, i)
    /\ op[p] = "remove" =>
          IF Active(p) /\ ids[p][i] \in TodoIDs(p) THEN out[p][i] = "ok" ELSE RemoveTrue(p, i)
    /\ op[p] = "read" =>
          IF Active(p) /\ i \in todo[p] THEN out[p][i] = "notObserved" ELSE ReadTrue(p, i)
    /\ op[p] = "write" =>
          IF Active(p) /\ i \in todo[p] THEN out[p][i] = "notAttempted" ELSE WriteTrue(p, i)

OutcomesTrue == \A p \in Callers : \A i \in DOMAIN out[p] : Outcome(p, i)

\* The registration of an item and the server's table agree, unless its removal has
\* been executed and the reply is on its way.
Agrees(id) == table[items[id].handle] = [id |-> id, client |-> items[id].client]

Removing(id) == \E m \in network :
    /\ m.type = "reply" /\ m.op = "remove" /\ m.by # NoOne
    /\ \E i \in DOMAIN m.slots : m.slots[i].id = id /\ m.slots[i].good

Valid ==
    /\ Registered \subseteq ValidIDs
    /\ \A id \in Registered : items[id].handle \in Handles
    /\ \A m \in network : m.by = NoOne /\ m.op = "remove" => doubt
    /\ ~doubt => \A id \in Registered : Agrees(id) \/ Removing(id)
    /\ ~doubt => \A m \in network : m.type = "reply" /\ m.op = "add" =>
          \A i \in DOMAIN m.slots : m.slots[i].good =>
              table[m.slots[i].handle] = [id |-> m.slots[i].id, client |-> m.slots[i].client]

\* Client handles are used up in order, each of them once.
Unused(m) ==
    /\ \A h \in Handles : table[h] # Free =>
          \A i \in DOMAIN m.slots : table[h].client # m.slots[i].client
    /\ \A i, j \in DOMAIN m.slots : m.slots[i].client = m.slots[j].client => i = j

AddRequests == {m \in network : m.type = "request" /\ m.op = "add"}

Numbered ==
    /\ ClientHandlesUnique
    /\ \A h \in Handles : table[h].client <= nextClientHandle
    /\ \A m \in AddRequests : Unused(m)
    /\ \A m, n \in AddRequests : m # n =>
          \A i \in DOMAIN m.slots, j \in DOMAIN n.slots :
              m.slots[i].client # n.slots[j].client
    /\ \A m \in network : m.op = "add" =>
          \A i \in DOMAIN m.slots : m.slots[i].client <= nextClientHandle

\* The items of an AddItems in progress come after all that are registered.
Ordered ==
    /\ \A id \in ItemIDs : items[id].client <= nextClientHandle
    /\ before \subseteq Registered \X Registered
    /\ RegistrationOrder
    /\ \A m \in network : m.op = "add" /\ m.by # NoOne =>
          \A i \in DOMAIN m.slots :
              /\ \A id \in Registered : items[id].client < m.slots[i].client
              /\ \A j \in DOMAIN m.slots : i < j => m.slots[i].client < m.slots[j].client

IInv == /\ TypeOK /\ Gated /\ Calls /\ Waited /\ Contents /\ Fated
        /\ OutcomesTrue /\ Valid /\ Numbered /\ Ordered

-----------------------------------------------------------------------------
(* Lists and batches *)

LEMMA ListDomain ==
    ASSUME NEW S, NEW f \in ListOf(S)
    PROVE  /\ \E n \in 0..MaxList : DOMAIN f = 1..n
           /\ DOMAIN f \subseteq Positions
           /\ \A i \in DOMAIN f : f[i] \in S
<1>1. PICK n \in 0..MaxList : f \in [1..n -> S]
  BY DEF ListOf
<1>. QED
  BY <1>1, GroupItemsAssumption DEF Positions

LEMMA ListRange ==
    ASSUME NEW S, NEW f, NEW n \in 0..MaxList, f \in [1..n -> S]
    PROVE  f \in ListOf(S)
<1>1. [1..n -> S] \in {[1..k -> S] : k \in 0..MaxList}
  OBVIOUS
<1>. QED
  BY <1>1 DEF ListOf

LEMMA FinitePositions == \A S \in SUBSET Positions : IsFiniteSet(S) /\ Cardinality(S) \in Nat
<1>1. IsFiniteSet(Positions)
  <2>1. 1 \in Int /\ MaxList \in Int
    BY GroupItemsAssumption
  <2>. QED
    BY <2>1, FS_Interval DEF Positions
<1>. QED
  BY <1>1, FS_Subset, FS_CardinalityType

\* The rank of an entry in its batch.
LEMMA Ranks ==
    ASSUME NEW S \in SUBSET Positions, NEW i \in S
    PROVE  /\ Cardinality({j \in S : j <= i}) \in 1..Cardinality(S)
           /\ \A k \in S : i < k =>
                 Cardinality({j \in S : j <= i}) < Cardinality({j \in S : j <= k})
<1>. DEFINE Below(k) == {j \in S : j <= k}
<1>1. \A k \in S : /\ Below(k) \subseteq S /\ IsFiniteSet(Below(k))
                   /\ Cardinality(Below(k)) \in Nat /\ Cardinality(Below(k)) <= Cardinality(S)
  BY FinitePositions, FS_Subset
<1>2. Cardinality(Below(i)) # 0
  <2>1. i \in Below(i)
    BY DEF Positions
  <2>. QED
    BY <2>1, <1>1, FS_EmptySet
<1>3. ASSUME NEW k \in S, i < k
      PROVE  Cardinality(Below(i)) < Cardinality(Below(k))
  <2>0. \A j \in S : j \in Int
    BY DEF Positions
  <2>1. Below(i) \subseteq Below(k) /\ k \in Below(k) /\ k \notin Below(i)
    BY <1>3, <2>0
  <2>2. Cardinality(Below(i)) <= Cardinality(Below(k))
        /\ (Cardinality(Below(i)) = Cardinality(Below(k)) => Below(i) = Below(k))
    BY <2>1, <1>1, FS_Subset
  <2>. QED
    BY <2>1, <2>2, <1>1
<1>4. Cardinality(Below(i)) \in 1..Cardinality(S)
  BY <1>1, <1>2, FinitePositions
<1>. QED
  BY <1>3, <1>4

\* An item that occurs in a list has a first occurrence.
LEMMA FirstOccurrence ==
    ASSUME NEW l \in Lists, NEW i \in DOMAIN l
    PROVE  \E j \in Firsts(l) : l[j] = l[i]
<1>. DEFINE S == {k \in DOMAIN l : l[k] = l[i]}
<1>1. S \subseteq Nat /\ S # {}
  BY ListDomain DEF Lists, Positions
<1>. DEFINE Less == OpToRel(<, Nat)
<1>2. \A a, b \in Nat : a < b => <<a, b>> \in Less
  BY DEF OpToRel
<1>3. IsWellFoundedOn(Less, Nat)
  BY NatLessThanWellFounded
<1>. HIDE DEF Less, S
<1>4. PICK j \in S : \A k \in S : <<k, j>> \notin Less
  BY <1>1, <1>3, WFMin
<1>5. l[j] = l[i] /\ j \in DOMAIN l
  BY DEF S
<1>6. \A k \in DOMAIN l : k < j => l[k] # l[j]
  <2>. SUFFICES ASSUME NEW k \in DOMAIN l, k < j, l[k] = l[j]
                PROVE  FALSE
    OBVIOUS
  <2>1. k \in S
    BY <1>5 DEF S
  <2>. QED
    BY <2>1, <1>1, <1>2, <1>4
<1>. QED
  BY <1>5, <1>6 DEF Firsts

LEMMA BatchSubset == \A p : Chunk(p) \subseteq todo[p]
  BY DEF Chunk

-----------------------------------------------------------------------------
(* One call at a time *)

\* While p is in a call nobody else is, and every message is p's or nobody's.
LEMMA Alone ==
    ASSUME TypeOK, Gated, Waited, NEW p \in Callers, pc[p] # "idle"
    PROVE  /\ gate = p
           /\ \A q \in Callers : q # p => pc[q] = "idle"
           /\ \A m \in network : m.by = NoOne \/ m.by = p
  BY GroupItemsAssumption DEF TypeOK, IsMessage, Gated, Waited

\* While the gate is free every message is nobody's.
LEMMA Nobody ==
    ASSUME TypeOK, Gated, Waited, gate = NoOne
    PROVE  /\ \A q \in Callers : pc[q] = "idle"
           /\ \A m \in network : m.by = NoOne
  BY GroupItemsAssumption DEF TypeOK, IsMessage, Gated, Waited

\* A call that nobody answers any more can be forgotten by what speaks of messages.
LEMMA NothingWaited ==
    ASSUME TypeOK, Gated, Waited, gate = NoOne
    PROVE  /\ \A m \in network : m.by = NoOne /\ m.type = "request"
           /\ \A id : ~Removing(id)
  BY Nobody DEF Waited, Removing

-----------------------------------------------------------------------------
(* The beginning of a call *)

\* What the operations say when they enter.
Sound(o, l, do, outcomes) ==
    /\ do \subseteq DOMAIN l
    /\ o \in {"add", "remove"} => do \subseteq Firsts(l)
    /\ \A i \in do : IF o = "add" THEN l[i] \in ValidIDs \ Registered
                                  ELSE l[i] \in Registered
    /\ outcomes \in ListOf(Outcomes) /\ DOMAIN outcomes = DOMAIN l
    /\ \A i \in DOMAIN l :
          /\ o = "add" => (outcomes[i] = "ok" <=> l[i] \in Registered)
          /\ o = "remove" =>
                outcomes[i] = "ok" /\ (l[i] \in Registered => \E j \in do : l[j] = l[i])
          /\ o = "read" => IF i \in do THEN outcomes[i] = "notObserved"
                           ELSE outcomes[i] = "notRegistered" /\ l[i] \notin Registered
          /\ o = "write" => outcomes[i] = "notAttempted"

LEMMA EnterStep ==
    ASSUME IInv, NEW p \in Callers, NEW o \in Ops, NEW l \in Lists, NEW do, NEW outcomes,
           Sound(o, l, do, outcomes), Enter(p, o, l, do, outcomes)
    PROVE  IInv'
<1>. USE DEF IInv
<1>1. /\ \A q \in Callers : pc[q] = "idle"
      /\ \A m \in network : m.by = NoOne /\ m.type = "request"
  BY Nobody, NothingWaited DEF Enter
<1>2. /\ pc'[p] = "work" /\ op'[p] = o /\ ids'[p] = l /\ todo'[p] = do
      /\ out'[p] = outcomes /\ fate'[p] = [i \in DOMAIN l |-> "unsent"] /\ gate' = p
      /\ \A q \in Callers : q # p =>
            /\ pc'[q] = "idle" /\ todo'[q] = todo[q]
            /\ out'[q] = out[q] /\ fate'[q] = fate[q]
      /\ UNCHANGED <<items, nextClientHandle, table, network, before, doubt>>
  BY <1>1 DEF TypeOK, Enter, serverVars
<1>3. Registered' = Registered
  BY <1>2 DEF Registered
<1>4. TypeOK'
  <2>1. PICK n \in 0..MaxList : DOMAIN l = 1..n
    BY ListDomain DEF Lists
  <2>2. [i \in DOMAIN l |-> "unsent"] \in ListOf(Fates)
    BY <2>1, ListRange DEF Fates
  <2>3. do \in SUBSET Positions
    BY ListDomain DEF Sound, Lists
  <2>. QED
    BY <2>2, <2>3 DEF TypeOK, Enter, Sound, IsMessage, serverVars
<1>5. Gated'
  BY <1>1, <1>2, GroupItemsAssumption DEF Gated
<1>6. Calls'
  BY <1>1, <1>2, <1>3 DEF Calls, Sound, Active, Firsts
<1>7. Waited'
  BY <1>1, <1>2, <1>3 DEF Waited
<1>8. Contents'
  BY <1>1, <1>2 DEF Contents
<1>9. Fated'
  <2>. SUFFICES ASSUME NEW q \in Callers, NEW i \in DOMAIN fate'[q]
                PROVE  /\ fate'[q][i] = "misdirected" => doubt'
                       /\ Active(q)' /\ i \in todo'[q] =>
                            (fate'[q][i] = "unsent" <=> ~(pc'[q] = "sent" /\ i \in Chunk(q)'))
                       /\ op'[q] = "remove" /\ i \notin Firsts(ids'[q]) =>
                            fate'[q][i] = "unsent"
    BY DEF Fated
  <2>1. CASE q = p
    BY <2>1, <1>2
  <2>2. CASE q # p
    <3>1. fate'[q] = fate[q] /\ op'[q] = op[q] /\ ids'[q] = ids[q] /\ ~Active(q)'
      BY <2>2, <1>2 DEF Enter, TypeOK, Active
    <3>. QED
      BY <3>1, <1>2 DEF Fated
  <2>. QED
    BY <2>1, <2>2
<1>10. OutcomesTrue'
  <2>. SUFFICES ASSUME NEW q \in Callers, NEW i \in DOMAIN out'[q]
                PROVE  Outcome(q, i)'
    BY DEF OutcomesTrue
  <2>1. q = p
    BY <1>1, <1>2 DEF Enter, TypeOK, Calls
  <2>2. i \in DOMAIN l
    BY <2>1, <1>2 DEF Sound
  <2>3. Active(p)' /\ TodoIDs(p)' = {l[j] : j \in do}
    BY <1>2 DEF Active, TodoIDs
  <2>4. CASE o = "remove"
    <3>1. l[i] \in {l[j] : j \in do} \/ l[i] \notin Registered
      BY <2>2, <2>4 DEF Sound
    <3>. QED
      BY <2>1, <2>2, <2>3, <2>4, <3>1, <1>2, <1>3 DEF Sound, Outcome, RemoveTrue
  <2>5. CASE o # "remove"
    BY <2>1, <2>2, <2>3, <2>5, <1>2, <1>3
    DEF Sound, Outcome, AddTrue, ReadTrue, WriteTrue, Ops
  <2>. QED
    BY <2>4, <2>5
<1>11. Valid'
  BY <1>2, <1>3 DEF Valid, Agrees, Removing
<1>12. Numbered'
  BY <1>2 DEF Numbered, ClientHandlesUnique, Unused, AddRequests
<1>13. Ordered'
  BY <1>2, <1>3 DEF Ordered, RegistrationOrder
<1>. QED
  BY <1>4, <1>5, <1>6, <1>7, <1>8, <1>9, <1>10, <1>11, <1>12, <1>13

\* Each of the operations enters with a sound list.
LEMMA EnteringSteps ==
    ASSUME IInv, NEW p \in Callers, NEW l \in Lists, NEW bad,
           \/ AddItems(p, l) \/ RemoveItems(p, l) \/ ReadItems(p, l) \/ ReadGroup(p, l)
           \/ Write(p, l, bad)
    PROVE  IInv'
<1>0. PICK n \in 0..MaxList : l \in [1..n -> ItemIDs]
  BY DEF Lists, ListOf
<1>1. CASE AddItems(p, l)
  <2>. DEFINE do == {i \in Firsts(l) : l[i] \in ValidIDs \ Registered}
              outcomes == [i \in DOMAIN l |-> CASE l[i] \notin ValidIDs -> "refused"
                                                [] l[i] \in Registered  -> "ok"
                                                [] OTHER                -> "notAdded"]
  <2>1. outcomes \in [1..n -> Outcomes]
    BY <1>0 DEF Outcomes
  <2>2. outcomes \in ListOf(Outcomes)
    BY <2>1, ListRange
  <2>3. Registered \subseteq ValidIDs
    BY DEF IInv, Valid
  <2>4. Sound("add", l, do, outcomes)
    BY <1>0, <2>2, <2>3 DEF Sound, Firsts
  <2>5. PICK d, f : d = do /\ f = outcomes
    OBVIOUS
  <2>6. Enter(p, "add", l, d, f) /\ Sound("add", l, d, f)
    BY <1>1, <2>4, <2>5 DEF AddItems
  <2>. QED
    BY <2>6, EnterStep DEF Ops
<1>2. CASE RemoveItems(p, l)
  <2>. DEFINE do == {i \in Firsts(l) : l[i] \in Registered}
              outcomes == [i \in DOMAIN l |-> "ok"]
  <2>1. outcomes \in [1..n -> Outcomes]
    BY <1>0 DEF Outcomes
  <2>2. outcomes \in ListOf(Outcomes)
    BY <2>1, ListRange
  <2>3. ASSUME NEW i \in DOMAIN l, l[i] \in Registered
        PROVE  \E j \in do : l[j] = l[i]
    BY <2>3, FirstOccurrence
  <2>4. Sound("remove", l, do, outcomes)
    BY <1>0, <2>2, <2>3 DEF Sound, Firsts
  <2>5. PICK d, f : d = do /\ f = outcomes
    OBVIOUS
  <2>6. Enter(p, "remove", l, d, f) /\ Sound("remove", l, d, f)
    BY <1>2, <2>4, <2>5 DEF RemoveItems
  <2>. QED
    BY <2>6, EnterStep DEF Ops
<1>3. CASE ReadItems(p, l) \/ ReadGroup(p, l)
  <2>. DEFINE do == {i \in DOMAIN l : l[i] \in Registered}
              outcomes == [i \in DOMAIN l |->
                              IF l[i] \in Registered THEN "notObserved" ELSE "notRegistered"]
  <2>1. outcomes \in [1..n -> Outcomes]
    BY <1>0 DEF Outcomes
  <2>2. outcomes \in ListOf(Outcomes)
    BY <2>1, ListRange
  <2>4. Sound("read", l, do, outcomes)
    BY <1>0, <2>2 DEF Sound
  <2>5. PICK d, f : d = do /\ f = outcomes
    OBVIOUS
  <2>6. Enter(p, "read", l, d, f) /\ Sound("read", l, d, f)
    BY <1>3, <2>4, <2>5 DEF ReadItems, ReadGroup
  <2>. QED
    BY <2>6, EnterStep DEF Ops
<1>4. CASE Write(p, l, bad)
  <2>. DEFINE do == {i \in DOMAIN l \ bad : l[i] \in Registered}
              outcomes == [i \in DOMAIN l |-> "notAttempted"]
  <2>1. outcomes \in [1..n -> Outcomes]
    BY <1>0 DEF Outcomes
  <2>2. outcomes \in ListOf(Outcomes)
    BY <2>1, ListRange
  <2>4. Sound("write", l, do, outcomes)
    BY <1>0, <2>2 DEF Sound
  <2>5. PICK d, f : d = do /\ f = outcomes
    OBVIOUS
  <2>6. Enter(p, "write", l, d, f) /\ Sound("write", l, d, f)
    BY <1>4, <2>4, <2>5 DEF Write
  <2>. QED
    BY <2>6, EnterStep DEF Ops
<1>. QED
  BY <1>1, <1>2, <1>3, <1>4

\* A call that is refused at once has sent nothing.
LEMMA UnhealthyStep ==
    ASSUME IInv, NEW p \in Callers, NEW o \in Ops, NEW l \in Lists, Unhealthy(p, o, l)
    PROVE  IInv'
<1>. USE DEF IInv
<1>. DEFINE e == IF o \in {"write", "remove"} THEN l ELSE <<>>
<1>1. /\ \A q \in Callers : pc[q] = "idle"
      /\ \A m \in network : m.by = NoOne /\ m.type = "request"
  BY Nobody, NothingWaited DEF Unhealthy
<1>2. /\ pc'[p] = "return" /\ op'[p] = o /\ ids'[p] = e /\ todo'[p] = {}
      /\ out'[p] = [i \in DOMAIN e |-> IF o = "write" THEN "notAttempted" ELSE "unconfirmed"]
      /\ fate'[p] = [i \in DOMAIN e |-> "unsent"] /\ gate' = p
      /\ \A q \in Callers : q # p =>
            /\ pc'[q] = "idle" /\ todo'[q] = todo[q]
            /\ out'[q] = out[q] /\ fate'[q] = fate[q]
      /\ UNCHANGED <<items, nextClientHandle, table, network, before, doubt, todo>>
  BY <1>1 DEF TypeOK, Unhealthy, serverVars, Calls
<1>3. Registered' = Registered
  BY <1>2 DEF Registered
<1>4. PICK n \in 0..MaxList : DOMAIN e = 1..n /\ e \in [1..n -> ItemIDs]
  <2>1. CASE o \in {"write", "remove"}
    BY <2>1 DEF Lists, ListOf
  <2>2. CASE o \notin {"write", "remove"}
    <3>1. 0 \in 0..MaxList /\ <<>> \in [1..0 -> ItemIDs] /\ DOMAIN <<>> = 1..0
      BY GroupItemsAssumption
    <3>. QED
      BY <2>2, <3>1
  <2>. QED
    BY <2>1, <2>2
<1>5. TypeOK'
  <2>1. fate'[p] \in ListOf(Fates) /\ out'[p] \in ListOf(Outcomes) /\ e \in Lists
    <3>1. fate'[p] \in [1..n -> Fates] /\ out'[p] \in [1..n -> Outcomes]
      BY <1>2, <1>4 DEF Fates, Outcomes
    <3>. QED
      BY <3>1, <1>4, ListRange DEF Lists
  <2>. HIDE DEF e
  <2>2. /\ fate' \in [Callers -> ListOf(Fates)] /\ out' \in [Callers -> ListOf(Outcomes)]
        /\ ids' \in [Callers -> Lists]
    BY <2>1, <1>2 DEF TypeOK, Unhealthy, e
  <2>. QED
    BY <2>2, <1>2 DEF TypeOK, Unhealthy, IsMessage
<1>. HIDE DEF e
<1>6. Gated'
  BY <1>1, <1>2, GroupItemsAssumption DEF Gated
<1>7. Calls'
  BY <1>1, <1>2, <1>3, <1>4 DEF Calls, Active
<1>8. Waited' /\ Contents'
  BY <1>1, <1>2 DEF Waited, Contents
<1>9. Fated'
  <2>. SUFFICES ASSUME NEW q \in Callers, NEW i \in DOMAIN fate'[q]
                PROVE  fate'[q][i] = "unsent" /\ ~Active(q)'
    BY DEF Fated
  <2>1. q = p
    BY <1>1, <1>2 DEF Calls
  <2>. QED
    BY <2>1, <1>2 DEF Active
<1>10. OutcomesTrue'
  <2>. SUFFICES ASSUME NEW q \in Callers, NEW i \in DOMAIN out'[q]
                PROVE  Outcome(q, i)'
    BY DEF OutcomesTrue
  <2>1. q = p
    BY <1>1, <1>2 DEF Calls
  <2>2. o \in {"write", "remove"}
    BY <2>1, <1>2, <1>4 DEF e
  <2>3. ~Active(p)'
    BY <1>2 DEF Active
  <2>. QED
    BY <2>1, <2>2, <2>3, <1>2 DEF Outcome, RemoveTrue, WriteTrue
<1>11. Valid'
  BY <1>2, <1>3 DEF Valid, Agrees, Removing
<1>12. Numbered' /\ Ordered'
  BY <1>2, <1>3 DEF Numbered, ClientHandlesUnique, Unused, AddRequests, Ordered,
                    RegistrationOrder
<1>. QED
  BY <1>5, <1>6, <1>7, <1>8, <1>9, <1>10, <1>11, <1>12

-----------------------------------------------------------------------------
(* Sending a batch *)

\* What is done and what is being done is told apart by the batch.
LEMMA SendStep ==
    ASSUME IInv, NEW p \in Callers, Send(p)
    PROVE  IInv'
<1>. USE DEF IInv
<1>. DEFINE slots == [i \in Chunk(p) |->
                [id     |-> ids[p][i],
                 handle |-> items[ids[p][i]].handle,
                 client |-> IF op[p] = "add" THEN ClientOf(p, i) ELSE 0,
                 good   |-> FALSE]]
            req == [type |-> "request", op |-> op[p], by |-> p, status |-> "ok",
                    slots |-> slots]
<1>1. /\ pc[p] = "work" /\ gate = p
      /\ \A q \in Callers : q # p => pc[q] = "idle"
      /\ \A m \in network : m.by = NoOne /\ m.type = "request"
      /\ p # NoOne
  BY Alone, GroupItemsAssumption DEF Send, Waited
<1>2. /\ pc' = [pc EXCEPT ![p] = "sent"]
      /\ network' = network \cup {req}
      /\ fate' = [fate EXCEPT ![p] =
            [i \in DOMAIN fate[p] |-> IF i \in Chunk(p) THEN "sent" ELSE fate[p][i]]]
      /\ UNCHANGED <<gate, items, op, ids, todo, out, table, before, doubt>>
  BY DEF Send
<1>3. Registered' = Registered /\ \A q : Chunk(q)' = Chunk(q)
  BY <1>2 DEF Registered, Chunk
<1>4. /\ Chunk(p) \subseteq todo[p] /\ todo[p] \subseteq DOMAIN ids[p]
      /\ op[p] \in Ops /\ DOMAIN ids[p] \subseteq Positions
      /\ DOMAIN fate[p] = DOMAIN ids[p] /\ DOMAIN out[p] = DOMAIN ids[p]
      /\ \A i \in DOMAIN ids[p] : ids[p][i] \in ItemIDs
  BY <1>1, BatchSubset, ListDomain DEF Calls, TypeOK, Lists
<1>5. \A i \in Chunk(p) : op[p] # "add" => items[ids[p][i]].handle \in Handles
  BY <1>1, <1>4 DEF Calls, Active, Valid
<1>6. nextClientHandle \in Nat /\ Cardinality(Chunk(p)) \in Nat
  BY <1>4, FinitePositions, GroupItemsAssumption DEF TypeOK, Clients
<1>7. /\ nextClientHandle' \in Clients /\ nextClientHandle <= nextClientHandle'
      /\ op[p] = "add" => nextClientHandle' = nextClientHandle + Cardinality(Chunk(p))
  BY <1>6, GroupItemsAssumption DEF Send, Fits, Clients, TypeOK
<1>8. ASSUME op[p] = "add", NEW i \in Chunk(p)
      PROVE  /\ slots[i].client \in Clients /\ slots[i].client <= nextClientHandle'
             /\ nextClientHandle < slots[i].client
             /\ \A j \in Chunk(p) : i < j => slots[i].client < slots[j].client
  <2>. DEFINE rank(k) == Cardinality({j \in Chunk(p) : j <= k})
  <2>1. Chunk(p) \in SUBSET Positions
    BY <1>4
  <2>2. \A k \in Chunk(p) : rank(k) \in 1..Cardinality(Chunk(p))
    BY <2>1, Ranks
  <2>3. \A j \in Chunk(p) : i < j => rank(i) < rank(j)
    BY <2>1, Ranks
  <2>4. \A k \in Chunk(p) : slots[k].client = nextClientHandle + rank(k)
    BY <1>8 DEF ClientOf
  <2>. HIDE DEF slots, rank
  <2>. QED
    BY <2>2, <2>3, <2>4, <1>6, <1>7, <1>8, GroupItemsAssumption DEF Clients
<1>9. /\ DOMAIN slots = Chunk(p)
      /\ \A i \in Chunk(p) :
            /\ slots[i].id = ids[p][i] /\ ~slots[i].good
            /\ slots[i].handle = items[ids[p][i]].handle
      /\ req.type = "request" /\ req.op = op[p] /\ req.by = p /\ req.slots = slots
  OBVIOUS
<1>10. IsMessage(req)
  <2>1. \A i \in Chunk(p) : slots[i] \in Slot
    <3>. TAKE i \in Chunk(p)
    <3>1. items[ids[p][i]].handle \in Handles \cup {NoHandle}
      BY <1>4 DEF TypeOK
    <3>2. (IF op[p] = "add" THEN ClientOf(p, i) ELSE 0) \in Clients
      <4>1. CASE op[p] = "add"
        <5>1. slots[i].client \in Clients
          BY <4>1, <1>8
        <5>2. slots[i].client = ClientOf(p, i)
          BY <4>1
        <5>. QED
          BY <4>1, <5>1, <5>2
      <4>2. CASE op[p] # "add"
        BY <4>2, GroupItemsAssumption DEF Clients
      <4>. QED
        BY <4>1, <4>2
    <3>3. slots[i] = [id |-> ids[p][i], handle |-> items[ids[p][i]].handle,
                      client |-> IF op[p] = "add" THEN ClientOf(p, i) ELSE 0, good |-> FALSE]
      OBVIOUS
    <3>4. ids[p][i] \in ItemIDs
      BY <1>4
    <3>. HIDE DEF slots
    <3>. QED
      BY <3>1, <3>2, <3>3, <3>4 DEF Slot
  <2>2. slots \in [Chunk(p) -> Slot]
    BY <2>1
  <2>. HIDE DEF slots
  <2>. QED
    BY <2>2, <1>4, <1>9 DEF IsMessage
<1>. HIDE DEF req, slots
<1>11. TypeOK'
  <2>1. fate'[p] \in ListOf(Fates)
    <3>1. PICK n \in 0..MaxList : fate[p] \in [1..n -> Fates]
      BY DEF TypeOK, ListOf
    <3>2. fate'[p] \in [1..n -> Fates]
      BY <3>1, <1>2 DEF Fates, TypeOK
    <3>. QED
      BY <3>2, ListRange
  <2>2. fate' \in [Callers -> ListOf(Fates)]
    BY <2>1, <1>2 DEF TypeOK
  <2>3. \A m \in network' : IsMessage(m)'
    BY <1>2, <1>10 DEF TypeOK, IsMessage
  <2>. QED
    BY <1>2, <1>7, <2>2, <2>3 DEF TypeOK
<1>12. /\ pc'[p] = "sent" /\ \A q \in Callers : q # p => pc'[q] = "idle"
       /\ \A q \in Callers : q # p => fate'[q] = fate[q]
       /\ DOMAIN fate'[p] = DOMAIN fate[p]
       /\ \A i \in DOMAIN fate[p] :
             fate'[p][i] = IF i \in Chunk(p) THEN "sent" ELSE fate[p][i]
  BY <1>1, <1>2 DEF TypeOK
<1>13. Gated'
  BY <1>1, <1>2, <1>12 DEF Gated
<1>14. Calls'
  BY <1>1, <1>2, <1>3, <1>12 DEF Calls, Active
<1>15. Waited'
  BY <1>1, <1>2, <1>3, <1>9, <1>12 DEF Waited
<1>16. Contents'
  BY <1>1, <1>2, <1>4, <1>5, <1>9 DEF Contents
<1>17. Fated'
  <2>. SUFFICES ASSUME NEW q \in Callers, NEW i \in DOMAIN fate'[q]
                PROVE  /\ fate'[q][i] = "misdirected" => doubt'
                       /\ Active(q)' /\ i \in todo'[q] =>
                            (fate'[q][i] = "unsent" <=> ~(pc'[q] = "sent" /\ i \in Chunk(q)'))
                       /\ op'[q] = "remove" /\ i \notin Firsts(ids'[q]) =>
                            fate'[q][i] = "unsent"
    BY DEF Fated
  <2>1. CASE q = p
    <3>1. op[p] = "remove" => Chunk(p) \subseteq Firsts(ids[p])
      BY <1>1, <1>4 DEF Calls
    <3>. QED
      BY <2>1, <3>1, <1>1, <1>2, <1>3, <1>12 DEF Fated, Active
  <2>2. CASE q # p
    BY <2>2, <1>1, <1>12 DEF Calls
  <2>. QED
    BY <2>1, <2>2
<1>18. OutcomesTrue'
  <2>. SUFFICES ASSUME NEW q \in Callers, NEW i \in DOMAIN out'[q]
                PROVE  Outcome(q, i)'
    BY DEF OutcomesTrue
  <2>1. q = p /\ i \in DOMAIN out[p] /\ i \in DOMAIN fate[p]
    BY <1>1, <1>2, <1>4 DEF Calls
  <2>2. Outcome(p, i)
    BY <2>1 DEF OutcomesTrue
  <2>3. Active(p) /\ Active(p)' /\ TodoIDs(p)' = TodoIDs(p)
    BY <1>1, <1>2, <1>12 DEF Active, TodoIDs
  <2>4. i \notin todo[p] => fate'[p][i] = fate[p][i]
    BY <2>1, <1>4, <1>12
  <2>5. i \in todo[p] => ids[p][i] \in TodoIDs(p)
    BY DEF TodoIDs
  <2>. QED
    BY <2>1, <2>2, <2>3, <2>4, <2>5, <1>1, <1>2, <1>3, <1>12
    DEF Outcome, AddTrue, RemoveTrue, ReadTrue, WriteTrue
<1>19. Valid'
  BY <1>1, <1>2, <1>3, <1>9 DEF Valid, Agrees, Removing
<1>20. Numbered'
  <2>1. \A m \in AddRequests' : m \in AddRequests \/ (m = req /\ op[p] = "add")
    BY <1>2, <1>9 DEF AddRequests
  <2>2. /\ \A h \in Handles : table[h].client \in Nat /\ table[h].client <= nextClientHandle
        /\ \A m \in network : \A i \in DOMAIN m.slots : m.slots[i].client \in Nat
        /\ \A m \in AddRequests : \A i \in DOMAIN m.slots :
              m.slots[i].client <= nextClientHandle
    BY DEF TypeOK, IsMessage, Slot, Clients, Numbered, AddRequests
  <2>3. nextClientHandle \in Nat /\ nextClientHandle' \in Nat
    BY <1>6, <1>7 DEF Clients
  <2>4. /\ \A h \in Handles : table[h].client <= nextClientHandle'
        /\ \A m \in network' : m.op = "add" =>
              \A i \in DOMAIN m.slots : m.slots[i].client <= nextClientHandle'
    BY <2>2, <2>3, <1>2, <1>7, <1>8, <1>9 DEF Numbered
  <2>5. op[p] = "add" => \A i \in Chunk(p) :
            slots[i].client \in Nat /\ nextClientHandle < slots[i].client
    BY <1>8 DEF Clients
  <2>6. \A m \in AddRequests' : Unused(m)'
    <3>1. ASSUME op[p] = "add", NEW m, m = req
          PROVE  Unused(m)'
      <4>1. \A i, j \in Chunk(p) : slots[i].client = slots[j].client => i = j
        <5>. TAKE i, j \in Chunk(p)
        <5>1. i \in Nat /\ j \in Nat
          BY <1>4 DEF Positions
        <5>2. slots[i].client \in Nat /\ slots[j].client \in Nat
          BY <3>1, <2>5
        <5>3. i < j => slots[i].client < slots[j].client
          BY <3>1, <1>8
        <5>4. j < i => slots[j].client < slots[i].client
          BY <3>1, <1>8
        <5>. QED
          BY <5>1, <5>2, <5>3, <5>4
      <4>2. \A h \in Handles, i \in Chunk(p) : table[h].client # slots[i].client
        BY <3>1, <2>2, <2>3, <2>5
      <4>. QED
        BY <3>1, <4>1, <4>2, <1>2, <1>9 DEF Unused
    <3>. QED
      BY <2>1, <3>1, <1>2 DEF Numbered, Unused
  <2>7. \A m, n \in AddRequests' : m # n =>
          \A i \in DOMAIN m.slots, j \in DOMAIN n.slots :
              m.slots[i].client # n.slots[j].client
    BY <2>1, <2>2, <2>3, <2>5, <1>9 DEF Numbered, AddRequests
  <2>. QED
    BY <2>4, <2>6, <2>7, <1>2 DEF Numbered, ClientHandlesUnique
<1>21. Ordered'
  <2>1. \A id \in ItemIDs : items[id].client \in Nat /\ items[id].client <= nextClientHandle
    BY DEF Ordered, TypeOK, Clients
  <2>2. nextClientHandle \in Nat /\ nextClientHandle' \in Nat
    BY <1>6, <1>7 DEF Clients
  <2>3. op[p] = "add" => \A i \in Chunk(p) :
            slots[i].client \in Nat /\ nextClientHandle < slots[i].client
    BY <1>8 DEF Clients
  <2>4. \A id \in ItemIDs : items'[id].client <= nextClientHandle'
    BY <2>1, <2>2, <1>2, <1>7
  <2>5. \A m \in network' : m.op = "add" /\ m.by # NoOne =>
          \A i \in DOMAIN m.slots :
              /\ \A id \in Registered' : items'[id].client < m.slots[i].client
              /\ \A j \in DOMAIN m.slots : i < j => m.slots[i].client < m.slots[j].client
    BY <2>1, <2>2, <2>3, <1>1, <1>2, <1>3, <1>8, <1>9 DEF Registered
  <2>. QED
    BY <2>4, <2>5, <1>2, <1>3 DEF Ordered, RegistrationOrder
<1>. QED
  BY <1>11, <1>13, <1>14, <1>15, <1>16, <1>17, <1>18, <1>19, <1>20, <1>21

\* The client handles run out: the call is over, with what was done before.
LEMMA ExhaustedStep ==
    ASSUME IInv, NEW p \in Callers, Exhausted(p)
    PROVE  IInv'
<1>. USE DEF IInv
<1>1. /\ pc[p] = "work" /\ gate = p /\ op[p] = "add"
      /\ \A q \in Callers : q # p => pc[q] = "idle"
      /\ \A m \in network : m.by = NoOne /\ m.type = "request"
  BY Alone, GroupItemsAssumption DEF Exhausted, Waited
<1>2. /\ pc' = [pc EXCEPT ![p] = "return"] /\ nextClientHandle' = MaxClient
      /\ UNCHANGED <<gate, items, op, ids, todo, out, table, network, fate, before, doubt>>
  BY DEF Exhausted, serverVars, historyVars
<1>3. pc'[p] = "return" /\ \A q \in Callers : q # p => pc'[q] = "idle"
  BY <1>1, <1>2 DEF TypeOK
<1>4. Registered' = Registered /\ \A q : ids'[q] = ids[q]
  BY <1>2 DEF Registered
<1>5. /\ nextClientHandle \in Nat /\ MaxClient \in Nat /\ nextClientHandle <= MaxClient
      /\ MaxClient \in Clients
  BY GroupItemsAssumption DEF TypeOK, Clients
<1>6. TypeOK'
  BY <1>2, <1>5 DEF TypeOK, IsMessage
<1>7. Gated'
  BY <1>1, <1>2, <1>3 DEF Gated
<1>8. Calls'
  BY <1>1, <1>2, <1>3, <1>4 DEF Calls, Active
<1>9. Waited' /\ Contents'
  BY <1>1, <1>2 DEF Waited, Contents
<1>10. Fated'
  BY <1>1, <1>2, <1>3 DEF Fated, Active
<1>11. OutcomesTrue'
  BY <1>1, <1>2, <1>3, <1>4 DEF OutcomesTrue, Outcome, AddTrue, Calls
<1>12. Valid'
  BY <1>2, <1>4 DEF Valid, Agrees, Removing
<1>13. Numbered'
  <2>1. /\ \A h \in Handles : table[h].client \in Nat /\ table[h].client <= nextClientHandle
        /\ \A m \in network : m.op = "add" => \A i \in DOMAIN m.slots :
              m.slots[i].client \in Nat /\ m.slots[i].client <= nextClientHandle
    BY DEF TypeOK, IsMessage, Slot, Clients, Numbered
  <2>. QED
    BY <2>1, <1>2, <1>5 DEF Numbered, ClientHandlesUnique, Unused, AddRequests
<1>14. Ordered'
  <2>1. \A id \in ItemIDs : items[id].client \in Nat /\ items[id].client <= nextClientHandle
    BY DEF Ordered, TypeOK, Clients
  <2>. QED
    BY <2>1, <1>2, <1>4, <1>5 DEF Ordered, RegistrationOrder
<1>. QED
  BY <1>6, <1>7, <1>8, <1>9, <1>10, <1>11, <1>12, <1>13, <1>14

-----------------------------------------------------------------------------
(* A batch is answered *)

LEMMA FirstsDiffer ==
    ASSUME NEW l \in Lists, NEW i \in Firsts(l), NEW j \in Firsts(l), l[i] = l[j]
    PROVE  i = j
<1>1. i \in Nat /\ j \in Nat
  BY ListDomain DEF Firsts, Lists, Positions
<1>. QED
  BY <1>1 DEF Firsts

\* The answer is that of the batch, and the only message that anybody waits for.
LEMMA Answered ==
    ASSUME IInv, NEW p \in Callers, NEW m \in network, pc[p] = "sent", m.by = p,
           m.type = "reply"
    PROVE  /\ gate = p /\ p # NoOne /\ \A q \in Callers : q # p => pc[q] = "idle"
           /\ DOMAIN m.slots = Chunk(p) /\ m.op = op[p] /\ op[p] \in Ops
           /\ Chunk(p) \subseteq todo[p] /\ todo[p] \subseteq DOMAIN ids[p]
           /\ \A i \in Chunk(p) : m.slots[i].id = ids[p][i]
           /\ DOMAIN out[p] = DOMAIN ids[p] /\ DOMAIN fate[p] = DOMAIN ids[p]
           /\ DOMAIN ids[p] \subseteq Positions /\ ids[p] \in Lists
           /\ \A i \in DOMAIN ids[p] : ids[p][i] \in ItemIDs
           /\ \A n \in network \ {m} : n.by = NoOne /\ n.type = "request"
<1>. USE DEF IInv
<1>1. gate = p /\ p # NoOne /\ \A q \in Callers : q # p => pc[q] = "idle"
  BY Alone, GroupItemsAssumption
<1>2. DOMAIN m.slots = Chunk(p) /\ m.op = op[p] /\ \A i \in Chunk(p) : m.slots[i].id = ids[p][i]
  BY <1>1 DEF Waited
<1>3. \A n \in network \ {m} : n.by = NoOne /\ n.type = "request"
  BY <1>1, Alone DEF Waited
<1>4. /\ op[p] \in Ops /\ todo[p] \subseteq DOMAIN ids[p]
      /\ DOMAIN out[p] = DOMAIN ids[p] /\ DOMAIN fate[p] = DOMAIN ids[p]
  BY <1>1 DEF Calls
<1>5. /\ DOMAIN ids[p] \subseteq Positions /\ ids[p] \in Lists
      /\ \A i \in DOMAIN ids[p] : ids[p][i] \in ItemIDs
  BY ListDomain DEF TypeOK, Lists
<1>. QED
  BY <1>1, <1>2, <1>3, <1>4, <1>5, BatchSubset

\* The new values of p's call.
LEMMA DoneValues ==
    ASSUME IInv, NEW p \in Callers, NEW m, NEW f, Done(p, m, f)
    PROVE  /\ pc'[p] = "work" /\ todo'[p] = todo[p] \ Chunk(p) /\ out'[p] = f
           /\ \A q \in Callers : q # p =>
                 pc'[q] = "idle" /\ todo'[q] = todo[q] /\ out'[q] = out[q]
           /\ \A n \in network' : n.by = NoOne /\ n.type = "request"
  BY Answered DEF Done, IInv, TypeOK

\* What an answered batch leaves of the invariant, whatever it does to the table.
LEMMA DoneFrame ==
    ASSUME IInv, NEW p \in Callers, NEW m, NEW f \in ListOf(Outcomes), Done(p, m, f),
           DOMAIN f = DOMAIN out[p],
           items' \in [ItemIDs -> [handle : Handles \cup {NoHandle}, client : Clients]],
           before' \subseteq ItemIDs \X ItemIDs,
           \A i \in todo[p] \ Chunk(p) : ids[p][i] \in Registered' <=> ids[p][i] \in Registered
    PROVE  TypeOK' /\ Gated' /\ Calls' /\ Waited' /\ Contents' /\ Fated'
<1>. USE DEF IInv
<1>1. /\ gate = p /\ op[p] \in Ops
      /\ Chunk(p) \subseteq todo[p] /\ todo[p] \subseteq DOMAIN ids[p]
      /\ DOMAIN out[p] = DOMAIN ids[p] /\ DOMAIN fate[p] = DOMAIN ids[p]
      /\ DOMAIN ids[p] \subseteq Positions /\ pc[p] = "sent"
  BY Answered DEF Done
<1>2. /\ pc' = [pc EXCEPT ![p] = "work"] /\ network' \subseteq network
      /\ todo' = [todo EXCEPT ![p] = todo[p] \ Chunk(p)] /\ out' = [out EXCEPT ![p] = f]
      /\ UNCHANGED <<gate, nextClientHandle, op, ids, table, fate, doubt>>
  BY Answered DEF Done
<1>3. /\ pc'[p] = "work" /\ todo'[p] = todo[p] \ Chunk(p) /\ out'[p] = f
      /\ \A q \in Callers : q # p =>
            pc'[q] = "idle" /\ pc[q] = "idle" /\ todo'[q] = todo[q] /\ out'[q] = out[q]
      /\ \A n \in network' : n.by = NoOne /\ n.type = "request"
  BY DoneValues, <1>1, Alone
<1>4. TypeOK'
  <2>1. todo[p] \in SUBSET Positions /\ todo[p] \ Chunk(p) \in SUBSET Positions
    BY <1>1
  <2>. QED
    BY <1>2, <2>1 DEF TypeOK, IsMessage
<1>5. Gated'
  BY <1>1, <1>2, <1>3 DEF Gated
<1>6. Calls'
  <2>1. \A q \in Callers : pc'[q] = "idle" =>
            todo'[q] = {} /\ DOMAIN out'[q] = {} /\ DOMAIN fate'[q] = {}
    BY <1>2, <1>3 DEF Calls
  <2>2. \A q \in Callers : pc'[q] # "idle" =>
          /\ op'[q] \in Ops
          /\ DOMAIN out'[q] = DOMAIN ids'[q] /\ DOMAIN fate'[q] = DOMAIN ids'[q]
          /\ todo'[q] \subseteq DOMAIN ids'[q]
          /\ op'[q] \in {"add", "remove"} => todo'[q] \subseteq Firsts(ids'[q])
    BY <1>1, <1>2, <1>3 DEF Calls
  <2>3. \A q \in Callers : Active(q)' => \A i \in todo'[q] :
          IF op'[q] = "add" THEN ids'[q][i] \in ValidIDs \ Registered'
                            ELSE ids'[q][i] \in Registered'
    BY <1>1, <1>2, <1>3 DEF Calls, Active
  <2>. QED
    BY <2>1, <2>2, <2>3 DEF Calls
<1>7. Waited' /\ Contents'
  BY <1>2, <1>3 DEF Waited, Contents
<1>8. Fated'
  <2>. SUFFICES ASSUME NEW q \in Callers, NEW i \in DOMAIN fate'[q]
                PROVE  /\ fate'[q][i] = "misdirected" => doubt'
                       /\ Active(q)' /\ i \in todo'[q] =>
                            (fate'[q][i] = "unsent" <=> ~(pc'[q] = "sent" /\ i \in Chunk(q)'))
                       /\ op'[q] = "remove" /\ i \notin Firsts(ids'[q]) =>
                            fate'[q][i] = "unsent"
    BY DEF Fated
  <2>1. q = p
    BY <1>2, <1>3 DEF Calls
  <2>. QED
    BY <2>1, <1>1, <1>2, <1>3 DEF Fated, Active
<1>. QED
  BY <1>4, <1>5, <1>6, <1>7, <1>8

\* What it leaves of the numbers.
LEMMA DoneNumbered ==
    ASSUME IInv, NEW p \in Callers, NEW m, NEW f, Done(p, m, f)
    PROVE  Numbered'
  BY DEF IInv, Done, Numbered, ClientHandlesUnique, Unused, AddRequests

\* Values read, or writes acknowledged, are those of the entry.
LEMMA AccessedStep ==
    ASSUME IInv, NEW p \in Callers, NEW m \in network, Accessed(p, m)
    PROVE  IInv'
<1>. USE DEF IInv
<1>. DEFINE g == [i \in DOMAIN out[p] |-> IF i \notin DOMAIN m.slots THEN out[p][i]
                             ELSE IF m.slots[i].good THEN "ok" ELSE "refused"]
<1>1. PICK f : f = g
  OBVIOUS
<1>2. Done(p, m, f) /\ UNCHANGED <<items, before>> /\ op[p] \in {"read", "write"}
  BY <1>1 DEF Accessed
<1>3. /\ pc[p] = "sent" /\ m.type = "reply" /\ m.by = p /\ m.status = "ok"
      /\ UNCHANGED <<gate, nextClientHandle, op, ids, table, fate, doubt>>
  BY <1>2 DEF Done
<1>4. /\ p # NoOne /\ DOMAIN m.slots = Chunk(p)
      /\ Chunk(p) \subseteq todo[p] /\ todo[p] \subseteq DOMAIN ids[p]
      /\ DOMAIN out[p] = DOMAIN ids[p] /\ DOMAIN fate[p] = DOMAIN ids[p]
      /\ \A n \in network \ {m} : n.by = NoOne /\ n.type = "request"
  BY <1>3, Answered
<1>5. f \in ListOf(Outcomes) /\ DOMAIN f = DOMAIN out[p]
  <2>0. out[p] \in ListOf(Outcomes)
    BY DEF TypeOK
  <2>1. PICK n \in 0..MaxList : out[p] \in [1..n -> Outcomes]
    BY <2>0 DEF ListOf
  <2>2. f \in [1..n -> Outcomes]
    BY <1>1, <2>1 DEF Outcomes
  <2>. QED
    BY <2>1, <2>2, ListRange
<1>6. \A i \in DOMAIN out[p] : f[i] = IF i \notin Chunk(p) THEN out[p][i]
                                      ELSE IF m.slots[i].good THEN "ok" ELSE "refused"
  BY <1>1, <1>4
<1>. HIDE DEF g
<1>7. Registered' = Registered
  BY <1>2 DEF Registered
<1>8. TypeOK' /\ Gated' /\ Calls' /\ Waited' /\ Contents' /\ Fated'
  <2>1. /\ items' \in [ItemIDs -> [handle : Handles \cup {NoHandle}, client : Clients]]
        /\ before' \subseteq ItemIDs \X ItemIDs
    BY <1>2 DEF TypeOK
  <2>. QED
    BY <2>1, <1>2, <1>5, <1>7, DoneFrame
<1>9. /\ pc'[p] = "work" /\ todo'[p] = todo[p] \ Chunk(p) /\ out'[p] = f
      /\ \A q \in Callers : q # p => pc'[q] = "idle"
      /\ \A n \in network' : n.by = NoOne /\ n.type = "request"
  BY <1>2, DoneValues
<1>10. OutcomesTrue'
  <2>. SUFFICES ASSUME NEW q \in Callers, NEW i \in DOMAIN out'[q]
                PROVE  Outcome(q, i)'
    BY DEF OutcomesTrue
  <2>1. q = p
    BY <1>8, <1>9 DEF Calls
  <2>2. i \in DOMAIN out[p] /\ i \in DOMAIN fate[p]
    BY <2>1, <1>4, <1>5, <1>9
  <2>3. Outcome(p, i)
    BY <2>2 DEF OutcomesTrue
  <2>4. Active(p) /\ Active(p)'
    BY <1>3, <1>9 DEF Active
  <2>5. i \in todo'[p] <=> i \in todo[p] /\ i \notin Chunk(p)
    BY <1>9
  <2>6. CASE i \notin Chunk(p)
    <3>1. out'[p][i] = out[p][i] /\ (i \in todo'[p] <=> i \in todo[p])
      BY <2>2, <2>5, <2>6, <1>6, <1>9
    <3>. QED
      BY <2>1, <2>3, <2>4, <3>1, <1>2, <1>3, <1>7, <1>9 DEF Outcome, ReadTrue, WriteTrue
  <2>7. CASE i \in Chunk(p)
    <3>1. /\ out'[p][i] = (IF m.slots[i].good THEN "ok" ELSE "refused")
          /\ i \in todo[p] /\ i \notin todo'[p]
      BY <2>2, <2>5, <2>7, <1>4, <1>6, <1>9
    <3>2. /\ m.slots[i].good => fate[p][i] \in {"executed", "misdirected"}
          /\ ~m.slots[i].good => fate[p][i] = "refused"
      BY <2>7, <1>3, <1>4 DEF Contents
    <3>3. /\ fate[p][i] = "misdirected" => doubt
          /\ fate[p][i] # "unsent"
      BY <2>2, <2>4, <2>7, <3>1, <1>3 DEF Fated
    <3>4. ids[p][i] \in Registered
      BY <3>1, <2>4, <1>2 DEF Calls
    <3>. QED
      BY <2>1, <2>4, <3>1, <3>2, <3>3, <3>4, <1>2, <1>3, <1>7, <1>9
      DEF Outcome, ReadTrue, WriteTrue
  <2>. QED
    BY <2>6, <2>7
<1>11. Valid'
  <2>1. \A id : ~Removing(id)
    BY <1>2, <1>3, <1>4, Answered DEF Removing
  <2>2. network' \subseteq network
    BY <1>2 DEF Done
  <2>. QED
    BY <2>1, <2>2, <1>2, <1>3, <1>7, <1>9 DEF Valid, Agrees
<1>12. Numbered'
  BY <1>2, DoneNumbered
<1>13. Ordered'
  BY <1>2, <1>3, <1>7, <1>9 DEF Ordered, RegistrationOrder
<1>. QED
  BY <1>8, <1>10, <1>11, <1>12, <1>13

\* The outcomes of AddItems and RemoveItems, which look at the whole list.
LEMMA ItemOutcomes ==
    ASSUME IInv, NEW p \in Callers, NEW m, NEW f, m \in network, m.type = "reply", m.by = p,
           pc[p] = "sent", f = [i \in DOMAIN out[p] |-> ItemOutcome(p, m, i)]
    PROVE  f \in ListOf(Outcomes) /\ DOMAIN f = DOMAIN out[p]
<1>1. out[p] \in ListOf(Outcomes)
  BY DEF IInv, TypeOK
<1>2. PICK n \in 0..MaxList : out[p] \in [1..n -> Outcomes]
  BY <1>1 DEF ListOf
<1>3. f \in [1..n -> Outcomes]
  BY <1>2 DEF Outcomes, ItemOutcome
<1>. QED
  BY <1>2, <1>3, ListRange

\* An item of the batch is at one place of it only, and at none of what is left to do.
LEMMA BatchItems ==
    ASSUME IInv, NEW p \in Callers, NEW m, m \in network, m.type = "reply", m.by = p,
           pc[p] = "sent", op[p] \in {"add", "remove"}
    PROVE  /\ Named(m) = {ids[p][i] : i \in Chunk(p)}
           /\ Granted(m) \subseteq Named(m) /\ Granted(m) \subseteq ItemIDs
           /\ \A i \in todo[p] \ Chunk(p) : ids[p][i] \notin Named(m)
           /\ \A i \in Chunk(p) : ids[p][i] \in Granted(m) <=> m.slots[i].good
           /\ \A id \in Granted(m) : /\ At(m, id) \in Chunk(p) /\ ids[p][At(m, id)] = id
                                     /\ m.slots[At(m, id)].good
           /\ TodoIDs(p) = {ids[p][i] : i \in todo[p] \ Chunk(p)} \cup Named(m)
<1>1. /\ DOMAIN m.slots = Chunk(p) /\ Chunk(p) \subseteq todo[p]
      /\ \A i \in Chunk(p) : m.slots[i].id = ids[p][i]
      /\ ids[p] \in Lists /\ todo[p] \subseteq DOMAIN ids[p]
      /\ \A i \in DOMAIN ids[p] : ids[p][i] \in ItemIDs
  BY Answered
<1>2. todo[p] \subseteq Firsts(ids[p])
  BY DEF IInv, Calls
<1>3. \A i, j \in todo[p] : ids[p][i] = ids[p][j] => i = j
  BY <1>1, <1>2, FirstsDiffer
<1>4. Named(m) = {ids[p][i] : i \in Chunk(p)}
  BY <1>1 DEF Named
<1>5. Granted(m) \subseteq Named(m) /\ Granted(m) \subseteq ItemIDs
  BY <1>1 DEF Named, Granted
<1>6. \A i \in todo[p] \ Chunk(p) : ids[p][i] \notin Named(m)
  BY <1>1, <1>3, <1>4
<1>7. \A i \in Chunk(p) : ids[p][i] \in Granted(m) <=> m.slots[i].good
  BY <1>1, <1>3 DEF Granted
<1>8. ASSUME NEW id \in Granted(m)
      PROVE  /\ At(m, id) \in Chunk(p) /\ ids[p][At(m, id)] = id
             /\ m.slots[At(m, id)].good
  <2>1. \E i \in DOMAIN m.slots : m.slots[i].id = id
    BY DEF Granted
  <2>2. At(m, id) \in DOMAIN m.slots /\ m.slots[At(m, id)].id = id
    BY <2>1 DEF At
  <2>. QED
    BY <2>2, <1>1, <1>7
<1>9. TodoIDs(p) = {ids[p][i] : i \in todo[p] \ Chunk(p)} \cup Named(m)
  BY <1>1, <1>4 DEF TodoIDs
<1>. QED
  BY <1>4, <1>5, <1>6, <1>7, <1>8, <1>9

LEMMA RemovedStep ==
    ASSUME IInv, NEW p \in Callers, NEW m \in network, Removed(p, m)
    PROVE  IInv'
<1>. USE DEF IInv
<1>1. PICK f : f = [i \in DOMAIN out[p] |-> ItemOutcome(p, m, i)]
  OBVIOUS
<1>2. /\ Done(p, m, f) /\ op[p] = "remove"
      /\ items' = [id \in ItemIDs |-> IF id \in Granted(m) THEN Unregistered ELSE items[id]]
      /\ before' = {pair \in before : pair[1] \notin Granted(m) /\ pair[2] \notin Granted(m)}
  BY <1>1 DEF Removed
<1>3. /\ pc[p] = "sent" /\ m.type = "reply" /\ m.by = p /\ m.status = "ok"
      /\ UNCHANGED <<gate, nextClientHandle, op, ids, table, fate, doubt>>
      /\ network' = network \ {m}
  BY <1>2 DEF Done
<1>4. /\ p # NoOne /\ DOMAIN m.slots = Chunk(p) /\ m.op = "remove"
      /\ Chunk(p) \subseteq todo[p] /\ todo[p] \subseteq DOMAIN ids[p]
      /\ DOMAIN out[p] = DOMAIN ids[p] /\ DOMAIN fate[p] = DOMAIN ids[p]
      /\ \A n \in network \ {m} : n.by = NoOne /\ n.type = "request"
      /\ \A i \in DOMAIN ids[p] : ids[p][i] \in ItemIDs
      /\ \A i \in Chunk(p) : m.slots[i].id = ids[p][i]
  BY <1>2, <1>3, Answered
<1>5. f \in ListOf(Outcomes) /\ DOMAIN f = DOMAIN out[p]
  BY <1>1, <1>3, ItemOutcomes
<1>6. /\ Named(m) = {ids[p][i] : i \in Chunk(p)}
      /\ Granted(m) \subseteq Named(m) /\ Granted(m) \subseteq ItemIDs
      /\ \A i \in todo[p] \ Chunk(p) : ids[p][i] \notin Named(m)
      /\ \A i \in Chunk(p) : ids[p][i] \in Granted(m) <=> m.slots[i].good
      /\ TodoIDs(p) = {ids[p][i] : i \in todo[p] \ Chunk(p)} \cup Named(m)
  BY <1>2, <1>3, BatchItems
<1>7. /\ Registered' = Registered \ Granted(m)
      /\ \A id \in Registered' : items'[id] = items[id]
  BY <1>2 DEF Registered
<1>8. TypeOK' /\ Gated' /\ Calls' /\ Waited' /\ Contents' /\ Fated'
  <2>1. /\ items' \in [ItemIDs -> [handle : Handles \cup {NoHandle}, client : Clients]]
        /\ before' \subseteq ItemIDs \X ItemIDs
    BY <1>2, GroupItemsAssumption DEF TypeOK, Unregistered, Clients
  <2>2. \A i \in todo[p] \ Chunk(p) : ids[p][i] \in Registered' <=> ids[p][i] \in Registered
    BY <1>6, <1>7
  <2>. QED
    BY <2>1, <2>2, <1>2, <1>5, DoneFrame
<1>9. /\ pc'[p] = "work" /\ todo'[p] = todo[p] \ Chunk(p) /\ out'[p] = f
      /\ \A q \in Callers : q # p => pc'[q] = "idle"
      /\ \A n \in network' : n.by = NoOne /\ n.type = "request"
  BY <1>2, DoneValues
<1>10. OutcomesTrue'
  <2>. SUFFICES ASSUME NEW q \in Callers, NEW i \in DOMAIN out'[q]
                PROVE  Outcome(q, i)'
    BY DEF OutcomesTrue
  <2>1. q = p
    BY <1>8, <1>9 DEF Calls
  <2>2. i \in DOMAIN out[p] /\ i \in DOMAIN fate[p] /\ i \in DOMAIN ids[p]
    BY <2>1, <1>4, <1>5, <1>9
  <2>3. Outcome(p, i)
    BY <2>2 DEF OutcomesTrue
  <2>4. Active(p) /\ Active(p)' /\ pc[p] # "return"
    BY <1>3, <1>9 DEF Active
  <2>5. TodoIDs(p)' = {ids[p][j] : j \in todo[p] \ Chunk(p)}
    BY <1>3, <1>9 DEF TodoIDs
  <2>6. f[i] = IF ids[p][i] \notin Named(m) THEN out[p][i]
               ELSE IF ids[p][i] \in Granted(m) THEN "ok" ELSE "refused"
    BY <2>2, <1>1 DEF ItemOutcome
  <2>7. CASE ids[p][i] \notin Named(m)
    <3>1. out'[p][i] = out[p][i] /\ (ids[p][i] \in TodoIDs(p)' <=> ids[p][i] \in TodoIDs(p))
      BY <2>5, <2>6, <2>7, <1>6, <1>9
    <3>2. ids[p][i] \in Registered' <=> ids[p][i] \in Registered
      BY <2>7, <1>6, <1>7
    <3>. QED
      BY <2>1, <2>3, <2>4, <3>1, <3>2, <1>2, <1>3, <1>9 DEF Outcome, RemoveTrue
  <2>8. CASE ids[p][i] \in Named(m)
    <3>1. PICK k \in Chunk(p) : ids[p][i] = ids[p][k]
      BY <2>8, <1>6
    <3>2. ids[p][i] \notin TodoIDs(p)'
      BY <2>5, <2>8, <1>6
    <3>3. k \in todo[p] /\ ids[p][k] \in Registered
      BY <2>4, <1>2, <1>4 DEF Calls
    <3>4. CASE ids[p][i] \in Granted(m)
      <4>1. out'[p][i] = "ok" /\ ids[p][i] \notin Registered'
        BY <2>6, <2>8, <3>4, <1>7, <1>9
      <4>2. doubt \/ fate[p][i] \in {"unsent", "executed"}
        <5>1. CASE i = k
          BY <5>1, <2>2, <3>1, <3>4, <1>3, <1>4, <1>6 DEF Contents, Fated
        <5>2. CASE i # k
          <6>1. k \in Firsts(ids[p]) /\ ids[p] \in Lists
            BY <3>3, <1>2, <1>3 DEF Calls, TypeOK
          <6>2. i \notin Firsts(ids[p])
            BY <6>1, <5>2, <3>1, FirstsDiffer
          <6>. QED
            BY <6>2, <2>2, <1>2 DEF Fated
        <5>. QED
          BY <5>1, <5>2
      <4>. QED
        BY <2>1, <2>4, <3>2, <4>1, <4>2, <1>2, <1>3 DEF Outcome, RemoveTrue
    <3>5. CASE ids[p][i] \notin Granted(m)
      <4>1. out'[p][i] = "refused" /\ ids[p][i] \in Registered'
        BY <2>6, <2>8, <3>1, <3>3, <3>5, <1>7, <1>9
      <4>. QED
        BY <2>1, <2>4, <3>2, <4>1, <1>2, <1>3 DEF Outcome, RemoveTrue
    <3>. QED
      BY <3>4, <3>5
  <2>. QED
    BY <2>7, <2>8
<1>11. Valid'
  <2>1. \A id \in Registered' : ~Removing(id)
    <3>. SUFFICES ASSUME NEW id \in Registered', Removing(id)
                  PROVE  FALSE
      OBVIOUS
    <3>1. PICK i \in DOMAIN m.slots : m.slots[i].id = id /\ m.slots[i].good
      BY <1>4 DEF Removing
    <3>2. id \in Granted(m)
      BY <3>1 DEF Granted
    <3>. QED
      BY <3>2, <1>7
  <2>. QED
    BY <2>1, <1>3, <1>7, <1>9 DEF Valid, Agrees
<1>12. Numbered'
  BY <1>2, DoneNumbered
<1>13. Ordered'
  <2>1. \A id \in ItemIDs : items'[id].client <= nextClientHandle'
    BY <1>2, <1>3, GroupItemsAssumption DEF Ordered, Unregistered, TypeOK, Clients
  <2>2. before' \subseteq Registered' \X Registered'
    BY <1>2, <1>7 DEF Ordered
  <2>3. RegistrationOrder'
    <3>. SUFFICES ASSUME NEW a \in Registered', NEW b \in Registered'
                  PROVE  <<a, b>> \in before' <=> items'[a].client < items'[b].client
      BY DEF RegistrationOrder
    <3>1. <<a, b>> \in before' <=> <<a, b>> \in before
      BY <1>2, <1>7
    <3>. QED
      BY <3>1, <1>7 DEF Ordered, RegistrationOrder
  <2>. QED
    BY <2>1, <2>2, <2>3, <1>9 DEF Ordered
<1>. QED
  BY <1>8, <1>10, <1>11, <1>12, <1>13

LEMMA AddedStep ==
    ASSUME IInv, NEW p \in Callers, NEW m \in network, Added(p, m)
    PROVE  IInv'
<1>. USE DEF IInv
<1>1. PICK f : f = [i \in DOMAIN out[p] |-> ItemOutcome(p, m, i)]
  OBVIOUS
<1>2. /\ Done(p, m, f) /\ op[p] = "add"
      /\ items' = [id \in ItemIDs |->
            IF id \in Granted(m) THEN [handle |-> m.slots[At(m, id)].handle,
                                       client |-> m.slots[At(m, id)].client]
                                 ELSE items[id]]
      /\ before' = before \cup (Registered \X Granted(m)) \cup
            {pair \in Granted(m) \X Granted(m) : At(m, pair[1]) < At(m, pair[2])}
  BY <1>1 DEF Added
<1>3. /\ pc[p] = "sent" /\ m.type = "reply" /\ m.by = p /\ m.status = "ok"
      /\ UNCHANGED <<gate, nextClientHandle, op, ids, table, fate, doubt>>
      /\ network' = network \ {m}
  BY <1>2 DEF Done
<1>4. /\ p # NoOne /\ DOMAIN m.slots = Chunk(p) /\ m.op = "add"
      /\ Chunk(p) \subseteq todo[p] /\ todo[p] \subseteq DOMAIN ids[p]
      /\ DOMAIN out[p] = DOMAIN ids[p] /\ DOMAIN fate[p] = DOMAIN ids[p]
      /\ DOMAIN ids[p] \subseteq Positions
      /\ \A n \in network \ {m} : n.by = NoOne /\ n.type = "request"
      /\ \A i \in Chunk(p) : m.slots[i].id = ids[p][i]
  BY <1>2, <1>3, Answered
<1>5. f \in ListOf(Outcomes) /\ DOMAIN f = DOMAIN out[p]
  BY <1>1, <1>3, ItemOutcomes
<1>6. /\ Named(m) = {ids[p][i] : i \in Chunk(p)}
      /\ Granted(m) \subseteq Named(m) /\ Granted(m) \subseteq ItemIDs
      /\ \A i \in todo[p] \ Chunk(p) : ids[p][i] \notin Named(m)
      /\ \A id \in Granted(m) : /\ At(m, id) \in Chunk(p) /\ ids[p][At(m, id)] = id
                                /\ m.slots[At(m, id)].good
  BY <1>2, <1>3, BatchItems
<1>7. /\ \A i \in todo[p] : ids[p][i] \in ValidIDs \ Registered
      /\ Granted(m) \subseteq ValidIDs \ Registered
      /\ Named(m) \cap Registered = {}
  <2>1. \A i \in todo[p] : ids[p][i] \in ValidIDs \ Registered
    BY <1>2, <1>3 DEF Calls, Active
  <2>. QED
    BY <2>1, <1>4, <1>6
<1>8. \A id \in Granted(m) : /\ items'[id].handle = m.slots[At(m, id)].handle
                             /\ items'[id].client = m.slots[At(m, id)].client
                             /\ m.slots[At(m, id)].handle \in Handles
                             /\ m.slots[At(m, id)].client \in Clients
                             /\ items'[id] = [handle |-> items'[id].handle,
                                              client |-> items'[id].client]
  BY <1>2, <1>3, <1>4, <1>6 DEF Contents, TypeOK, IsMessage, Slot
<1>9. \A id \in ItemIDs \ Granted(m) : items'[id] = items[id]
  BY <1>2
<1>10. Registered' = Registered \cup Granted(m)
  <2>1. \A id \in Granted(m) : items'[id] # Unregistered
    BY <1>8, GroupItemsAssumption DEF Unregistered
  <2>. QED
    BY <2>1, <1>6, <1>7, <1>9 DEF Registered
<1>11. TypeOK' /\ Gated' /\ Calls' /\ Waited' /\ Contents' /\ Fated'
  <2>1. items' \in [ItemIDs -> [handle : Handles \cup {NoHandle}, client : Clients]]
    <3>1. \A id \in ItemIDs : items'[id] \in [handle : Handles \cup {NoHandle}, client : Clients]
      <4>. TAKE id \in ItemIDs
      <4>1. CASE id \in Granted(m)
        <5>1. PICK h, c : h = items'[id].handle /\ c = items'[id].client
          OBVIOUS
        <5>2. h \in Handles /\ c \in Clients /\ items'[id] = [handle |-> h, client |-> c]
          BY <4>1, <5>1, <1>8
        <5>. QED
          BY <5>2
      <4>2. CASE id \notin Granted(m)
        BY <4>2, <1>9 DEF TypeOK
      <4>. QED
        BY <4>1, <4>2
    <3>2. items' = [id \in ItemIDs |-> items'[id]]
      BY <1>2
    <3>. QED
      BY <3>1, <3>2
  <2>2. before' \subseteq ItemIDs \X ItemIDs
    BY <1>2, <1>6 DEF TypeOK, Registered
  <2>3. \A i \in todo[p] \ Chunk(p) : ids[p][i] \in Registered' <=> ids[p][i] \in Registered
    BY <1>6, <1>10
  <2>. QED
    BY <2>1, <2>2, <2>3, <1>2, <1>5, DoneFrame
<1>12. /\ pc'[p] = "work" /\ todo'[p] = todo[p] \ Chunk(p) /\ out'[p] = f
       /\ \A q \in Callers : q # p => pc'[q] = "idle"
       /\ \A n \in network' : n.by = NoOne /\ n.type = "request"
  BY <1>2, DoneValues
<1>13. OutcomesTrue'
  <2>. SUFFICES ASSUME NEW q \in Callers, NEW i \in DOMAIN out'[q]
                PROVE  Outcome(q, i)'
    BY DEF OutcomesTrue
  <2>1. q = p
    BY <1>11, <1>12 DEF Calls
  <2>2. i \in DOMAIN out[p]
    BY <2>1, <1>5, <1>12
  <2>3. out[p][i] = "ok" <=> ids[p][i] \in Registered
    BY <2>2, <1>2 DEF OutcomesTrue, Outcome, AddTrue
  <2>4. f[i] = IF ids[p][i] \notin Named(m) THEN out[p][i]
               ELSE IF ids[p][i] \in Granted(m) THEN "ok" ELSE "refused"
    BY <2>2, <1>1 DEF ItemOutcome
  <2>5. f[i] = "ok" <=> ids[p][i] \in Registered'
    BY <2>3, <2>4, <1>6, <1>7, <1>10
  <2>. QED
    BY <2>1, <2>5, <1>2, <1>3, <1>12 DEF Outcome, AddTrue
<1>14. Valid'
  <2>1. Registered' \subseteq ValidIDs /\ \A id \in Registered' : items'[id].handle \in Handles
    BY <1>7, <1>8, <1>9, <1>10 DEF Valid, Registered
  <2>2. ASSUME ~doubt, NEW id \in Registered'
        PROVE  Agrees(id)'
    <3>1. CASE id \in Granted(m)
      <4>1. /\ m.slots[At(m, id)].id = id
            /\ table[m.slots[At(m, id)].handle]
                  = [id |-> id, client |-> m.slots[At(m, id)].client]
        BY <2>2, <3>1, <1>3, <1>4, <1>6 DEF Valid
      <4>. QED
        BY <3>1, <4>1, <1>3, <1>8 DEF Agrees
    <3>2. CASE id \notin Granted(m)
      <4>1. id \in Registered /\ items'[id] = items[id]
        BY <3>2, <1>9, <1>10 DEF Registered
      <4>2. ~Removing(id)
        BY <1>3, <1>4 DEF Removing
      <4>. QED
        BY <4>1, <4>2, <2>2, <1>3 DEF Valid, Agrees
    <3>. QED
      BY <3>1, <3>2
  <2>. QED
    BY <2>1, <2>2, <1>3, <1>12 DEF Valid
<1>15. Numbered'
  BY <1>2, DoneNumbered
<1>16. Ordered'
  <2>1. \A id \in ItemIDs : items'[id].client <= nextClientHandle'
    <3>1. \A i \in Chunk(p) : m.slots[i].client <= nextClientHandle
      BY <1>4 DEF Numbered
    <3>2. \A id \in Granted(m) : items'[id].client <= nextClientHandle
      BY <3>1, <1>6, <1>8
    <3>3. \A id \in ItemIDs \ Granted(m) : items'[id].client <= nextClientHandle
      BY <1>9 DEF Ordered
    <3>. QED
      BY <3>2, <3>3, <1>3
  <2>2. before' \subseteq Registered' \X Registered'
    BY <1>2, <1>10 DEF Ordered
  <2>3. \A i, j \in Chunk(p) : i \in Nat /\ j \in Nat
    BY <1>4 DEF Positions
  <2>4. \A i \in Chunk(p) : /\ \A id \in Registered : items[id].client < m.slots[i].client
                            /\ \A j \in Chunk(p) : i < j => m.slots[i].client < m.slots[j].client
    BY <1>3, <1>4 DEF Ordered
  <2>5. RegistrationOrder'
    <3>. SUFFICES ASSUME NEW a \in Registered', NEW b \in Registered'
                  PROVE  <<a, b>> \in before' <=> items'[a].client < items'[b].client
      BY DEF RegistrationOrder
    <3>1. /\ \A id \in Registered : items'[id] = items[id] /\ items[id].client \in Nat
          /\ \A id \in Granted(m) : items'[id].client \in Nat
      <4>1. \A id \in ItemIDs : items[id].client \in Nat
        BY DEF TypeOK, Clients
      <4>2. \A id \in Granted(m) : items'[id].client \in Nat
        <5>1. Clients \subseteq Nat
          BY DEF Clients
        <5>. QED
          BY <5>1, <1>8
      <4>. QED
        BY <4>1, <4>2, <1>7, <1>9 DEF Registered
    <3>2. CASE a \in Registered /\ b \in Registered
      <4>1. <<a, b>> \in before' <=> <<a, b>> \in before
        BY <3>2, <1>2, <1>7
      <4>. QED
        BY <3>1, <3>2, <4>1 DEF Ordered, RegistrationOrder
    <3>3. CASE a \in Registered /\ b \in Granted(m)
      BY <3>1, <3>3, <2>4, <1>2, <1>6, <1>8
    <3>4. CASE a \in Granted(m) /\ b \in Registered
      <4>1. <<a, b>> \notin before'
        BY <3>4, <1>2, <1>7 DEF Ordered
      <4>2. items'[b].client < items'[a].client
        BY <3>1, <3>4, <2>4, <1>6, <1>8
      <4>. QED
        BY <3>1, <3>4, <4>1, <4>2
    <3>5. CASE a \in Granted(m) /\ b \in Granted(m)
      <4>1. <<a, b>> \in before' <=> At(m, a) < At(m, b)
        BY <3>5, <1>2, <1>7 DEF Ordered
      <4>2. PICK i \in Chunk(p), j \in Chunk(p) : i = At(m, a) /\ j = At(m, b)
        BY <3>5, <1>6
      <4>3. /\ items'[a].client = m.slots[i].client /\ items'[b].client = m.slots[j].client
            /\ m.slots[i].client \in Nat /\ m.slots[j].client \in Nat
        BY <3>1, <3>5, <4>2, <1>8
      <4>4. /\ i < j => m.slots[i].client < m.slots[j].client
            /\ j < i => m.slots[j].client < m.slots[i].client
        BY <2>4
      <4>. QED
        BY <4>1, <4>2, <4>3, <4>4, <2>3
    <3>. QED
      BY <3>2, <3>3, <3>4, <3>5, <1>10
  <2>. QED
    BY <2>1, <2>2, <2>5, <1>12 DEF Ordered
<1>. QED
  BY <1>11, <1>13, <1>14, <1>15, <1>16

-----------------------------------------------------------------------------
(* A call fails, and a call returns *)

\* The outcomes of a call that fails are true, whether or not the server refused it.
LEMMA FailureFrame ==
    ASSUME IInv, NEW p \in Callers, NEW known \in BOOLEAN, pc[p] = "sent",
           known => \A i \in Chunk(p) : fate[p][i] = "refused",
           pc' = [pc EXCEPT ![p] = "return"],
           out' = [out EXCEPT ![p] = OnError(p, known)],
           UNCHANGED <<groupVars, op, ids, todo, table, fate, before>>,
           doubt' \in BOOLEAN, doubt => doubt'
    PROVE  /\ Gated' /\ Calls' /\ Fated' /\ OutcomesTrue'
           /\ Registered' = Registered /\ UNCHANGED <<gate, items, nextClientHandle>>
           /\ pc' \in [Callers -> {"idle", "work", "sent", "return"}]
           /\ out' \in [Callers -> ListOf(Outcomes)]
           /\ \A q \in Callers : pc'[q] # "sent"
<1>. USE DEF IInv
<1>1. /\ gate = p /\ \A q \in Callers : q # p => pc[q] = "idle"
      /\ op[p] \in Ops /\ Chunk(p) \subseteq todo[p] /\ todo[p] \subseteq DOMAIN ids[p]
      /\ DOMAIN out[p] = DOMAIN ids[p] /\ DOMAIN fate[p] = DOMAIN ids[p]
  BY Alone, BatchSubset DEF Calls
<1>2. UNCHANGED <<gate, items, nextClientHandle, op, ids, todo, table, fate, before>>
  BY DEF groupVars
<1>3. PICK f : f = OnError(p, known)
  OBVIOUS
<1>4. /\ DOMAIN f = DOMAIN out[p]
      /\ \A i \in DOMAIN out[p] : f[i] =
            IF op[p] = "write" /\ i \in Chunk(p) THEN IF known THEN "refused" ELSE "unknown"
            ELSE IF op[p] = "remove" /\ ids[p][i] \in TodoIDs(p) THEN "unconfirmed"
            ELSE out[p][i]
  BY <1>3 DEF OnError, TodoIDs
<1>5. /\ pc'[p] = "return" /\ out'[p] = f
      /\ \A q \in Callers : q # p => pc'[q] = "idle" /\ out'[q] = out[q]
  BY <1>1, <1>3 DEF TypeOK
<1>6. Registered' = Registered
  BY <1>2 DEF Registered
<1>7. out' \in [Callers -> ListOf(Outcomes)]
  <2>1. out[p] \in ListOf(Outcomes)
    BY DEF TypeOK
  <2>2. PICK n \in 0..MaxList : out[p] \in [1..n -> Outcomes]
    BY <2>1 DEF ListOf
  <2>3. f = [i \in DOMAIN out[p] |-> f[i]]
    BY <1>3 DEF OnError
  <2>4. \A i \in DOMAIN out[p] : f[i] \in Outcomes
    BY <2>2, <1>4 DEF Outcomes
  <2>5. f \in [1..n -> Outcomes]
    BY <2>2, <2>3, <2>4
  <2>6. f \in ListOf(Outcomes)
    BY <2>5, ListRange
  <2>. QED
    BY <2>6, <1>3 DEF TypeOK
<1>8. Gated'
  BY <1>1, <1>2, <1>5 DEF Gated
<1>9. Calls'
  BY <1>1, <1>2, <1>4, <1>5, <1>6 DEF Calls, Active
<1>10. Fated'
  <2>. SUFFICES ASSUME NEW q \in Callers, NEW i \in DOMAIN fate[q]
                PROVE  /\ fate[q][i] = "misdirected" => doubt'
                       /\ ~Active(q)'
                       /\ op[q] = "remove" /\ i \notin Firsts(ids[q]) =>
                            fate[q][i] = "unsent"
    BY <1>2 DEF Fated
  <2>1. ~Active(q)'
    BY <1>5 DEF Active
  <2>. QED
    BY <2>1 DEF Fated
<1>11. OutcomesTrue'
  <2>. SUFFICES ASSUME NEW q \in Callers, NEW i \in DOMAIN out'[q]
                PROVE  Outcome(q, i)'
    BY DEF OutcomesTrue
  <2>1. q = p
    BY <1>5, <1>9 DEF Calls
  <2>2. i \in DOMAIN out[p] /\ i \in DOMAIN fate[p]
    BY <2>1, <1>1, <1>4, <1>5
  <2>3. Outcome(p, i)
    BY <2>2 DEF OutcomesTrue
  <2>4. Active(p) /\ ~Active(p)' /\ pc[p] # "return"
    BY <1>5 DEF Active
  <2>5. out'[p][i] = f[i]
    BY <1>5
  <2>6. CASE op[p] = "add"
    BY <2>1, <2>2, <2>3, <2>5, <2>6, <1>2, <1>4, <1>6 DEF Outcome, AddTrue
  <2>7. CASE op[p] = "remove"
    <3>1. CASE ids[p][i] \in TodoIDs(p)
      <4>1. out'[p][i] = "unconfirmed"
        BY <2>2, <2>5, <2>7, <3>1, <1>4
      <4>2. ids[p][i] \in Registered
        BY <2>4, <2>7, <3>1 DEF TodoIDs, Calls
      <4>. QED
        BY <2>1, <2>4, <2>7, <4>1, <4>2, <1>2, <1>5, <1>6 DEF Outcome, RemoveTrue
    <3>2. CASE ids[p][i] \notin TodoIDs(p)
      <4>1. out'[p][i] = out[p][i] /\ RemoveTrue(p, i)
        BY <2>2, <2>3, <2>5, <2>7, <3>2, <1>4 DEF Outcome
      <4>. QED
        BY <2>1, <2>4, <2>7, <4>1, <1>2, <1>5, <1>6 DEF Outcome, RemoveTrue
    <3>. QED
      BY <3>1, <3>2
  <2>8. CASE op[p] = "read"
    <3>1. out'[p][i] = out[p][i]
      BY <2>2, <2>5, <2>8, <1>4
    <3>2. i \in todo[p] => ids[p][i] \in Registered
      BY <2>4, <2>8 DEF Calls
    <3>. QED
      BY <2>1, <2>3, <2>4, <2>8, <3>1, <3>2, <1>2, <1>5, <1>6 DEF Outcome, ReadTrue
  <2>9. CASE op[p] = "write"
    <3>1. CASE i \in Chunk(p)
      <4>1. out'[p][i] = IF known THEN "refused" ELSE "unknown"
        BY <2>2, <2>5, <2>9, <3>1, <1>4
      <4>2. fate[p][i] # "unsent"
        BY <2>2, <2>4, <3>1, <1>1 DEF Fated
      <4>. QED
        BY <2>1, <2>4, <2>9, <3>1, <4>1, <4>2, <1>2, <1>5 DEF Outcome, WriteTrue
    <3>2. CASE i \notin Chunk(p)
      <4>1. out'[p][i] = out[p][i]
        BY <2>2, <2>5, <2>9, <3>2, <1>4
      <4>2. i \in todo[p] => fate[p][i] = "unsent"
        BY <2>2, <2>4, <3>2 DEF Fated
      <4>. QED
        BY <2>1, <2>3, <2>4, <2>9, <4>1, <4>2, <1>2, <1>5 DEF Outcome, WriteTrue
    <3>. QED
      BY <3>1, <3>2
  <2>. QED
    BY <2>6, <2>7, <2>8, <2>9, <1>1 DEF Ops
<1>12. \A q \in Callers : pc'[q] # "sent"
  BY <1>5
<1>13. pc' \in [Callers -> {"idle", "work", "sent", "return"}]
  BY DEF TypeOK
<1>. QED
  BY <1>2, <1>6, <1>7, <1>8, <1>9, <1>10, <1>11, <1>12, <1>13

LEMMA CallFailedStep ==
    ASSUME IInv, NEW p \in Callers, NEW m \in network, CallFailed(p, m)
    PROVE  IInv'
<1>. USE DEF IInv
<1>1. /\ pc[p] = "sent" /\ m.type = "reply" /\ m.by = p /\ m.status # "ok"
      /\ network' = network \ {m}
      /\ doubt' = (doubt \/ (op[p] = "remove" /\ m.status = "malformed"))
      /\ UNCHANGED <<groupVars, op, ids, todo, table, fate, before>>
      /\ pc' = [pc EXCEPT ![p] = "return"]
      /\ out' = [out EXCEPT ![p] = OnError(p, m.status = "failed")]
  BY DEF CallFailed
<1>2. /\ p # NoOne /\ DOMAIN m.slots = Chunk(p) /\ m.op = op[p]
      /\ \A n \in network \ {m} : n.by = NoOne /\ n.type = "request"
  BY <1>1, Answered
<1>3. doubt \in BOOLEAN /\ m.status \in {"failed", "malformed"}
  BY <1>1 DEF TypeOK, IsMessage
<1>4. /\ Gated' /\ Calls' /\ Fated' /\ OutcomesTrue'
      /\ Registered' = Registered /\ UNCHANGED <<gate, items, nextClientHandle>>
      /\ pc' \in [Callers -> {"idle", "work", "sent", "return"}]
      /\ out' \in [Callers -> ListOf(Outcomes)]
  <2>1. m.status = "failed" => \A i \in Chunk(p) : fate[p][i] = "refused"
    BY <1>1, <1>2 DEF Contents
  <2>2. (m.status = "failed") \in BOOLEAN /\ doubt' \in BOOLEAN /\ (doubt => doubt')
    BY <1>1, <1>3
  <2>3. PICK known \in BOOLEAN : known = (m.status = "failed")
    BY <2>2
  <2>. QED
    BY <1>1, <2>1, <2>2, <2>3, FailureFrame
<1>5. TypeOK'
  BY <1>1, <1>3, <1>4 DEF TypeOK, IsMessage
<1>6. Waited' /\ Contents'
  BY <1>1, <1>2 DEF Waited, Contents
<1>7. Valid'
  <2>1. ~doubt' => \A id : ~Removing(id)
    <3>. SUFFICES ASSUME ~doubt', NEW id, Removing(id)
                  PROVE  FALSE
      OBVIOUS
    <3>1. m.op = "remove" /\ \E i \in DOMAIN m.slots : m.slots[i].good
      BY <1>2 DEF Removing
    <3>2. m.status = "failed"
      BY <3>1, <1>1, <1>2, <1>3
    <3>. QED
      BY <3>1, <3>2, <1>1 DEF Contents
  <2>. QED
    BY <2>1, <1>1, <1>2, <1>4 DEF Valid, Agrees
<1>8. Numbered'
  BY <1>1, <1>4 DEF Numbered, ClientHandlesUnique, Unused, AddRequests
<1>9. Ordered'
  BY <1>1, <1>2, <1>4 DEF Ordered, RegistrationOrder
<1>. QED
  BY <1>4, <1>5, <1>6, <1>7, <1>8, <1>9

LEMMA GiveUpStep ==
    ASSUME IInv, NEW p \in Callers, GiveUp(p)
    PROVE  IInv'
<1>. USE DEF IInv
<1>1. PICK late \in SUBSET {m \in network : m.by = p /\ m.type = "request"} :
          network' = {m \in network : m.by # p} \cup {[m EXCEPT !.by = NoOne] : m \in late}
  BY DEF GiveUp
<1>2. /\ pc[p] = "sent" /\ doubt' = (doubt \/ op[p] = "remove")
      /\ UNCHANGED <<groupVars, op, ids, todo, table, fate, before>>
      /\ pc' = [pc EXCEPT ![p] = "return"] /\ out' = [out EXCEPT ![p] = OnError(p, FALSE)]
  BY DEF GiveUp
<1>3. /\ p # NoOne /\ \A m \in network : m.by = NoOne \/ m.by = p
      /\ \A m, n \in network : m.by = p /\ n.by = p => m = n /\ m.op = op[p]
  BY <1>2, Alone, GroupItemsAssumption DEF Waited
<1>4. \A r \in network' : \E n \in network :
          /\ n.type = "request" /\ r.type = "request" /\ r.by = NoOne
          /\ r.op = n.op /\ r.slots = n.slots /\ r.status = n.status
          /\ r = [type |-> r.type, op |-> r.op, by |-> r.by, slots |-> r.slots,
                  status |-> r.status]
          /\ n.by = NoOne => r = n
          /\ n.by = p => r = [n EXCEPT !.by = NoOne] /\ n.op = op[p]
  <2>. SUFFICES ASSUME NEW r \in network'
                PROVE  \E n \in network :
          /\ n.type = "request" /\ r.type = "request" /\ r.by = NoOne
          /\ r.op = n.op /\ r.slots = n.slots /\ r.status = n.status
          /\ r = [type |-> r.type, op |-> r.op, by |-> r.by, slots |-> r.slots,
                  status |-> r.status]
          /\ n.by = NoOne => r = n
          /\ n.by = p => r = [n EXCEPT !.by = NoOne] /\ n.op = op[p]
    OBVIOUS
  <2>1. CASE r \in network /\ r.by # p
    BY <2>1, <1>3 DEF Waited, TypeOK, IsMessage
  <2>2. CASE \E m \in late : r = [m EXCEPT !.by = NoOne]
    <3>1. PICK m \in late : r = [m EXCEPT !.by = NoOne]
      BY <2>2
    <3>2. m \in network /\ m.by = p /\ m.type = "request"
      OBVIOUS
    <3>3. m = [type |-> m.type, op |-> m.op, by |-> m.by, slots |-> m.slots,
               status |-> m.status]
      BY <3>2 DEF TypeOK, IsMessage
    <3>4. r = [type |-> m.type, op |-> m.op, by |-> NoOne, slots |-> m.slots,
               status |-> m.status]
      BY <3>1, <3>3
    <3>. QED
      BY <3>1, <3>2, <3>4, <1>3
  <2>. QED
    BY <2>1, <2>2, <1>1
<1>5. /\ Gated' /\ Calls' /\ Fated' /\ OutcomesTrue'
      /\ Registered' = Registered /\ UNCHANGED <<gate, items, nextClientHandle>>
      /\ pc' \in [Callers -> {"idle", "work", "sent", "return"}]
      /\ out' \in [Callers -> ListOf(Outcomes)]
  <2>1. doubt' \in BOOLEAN /\ (doubt => doubt')
    BY <1>2 DEF TypeOK
  <2>2. FALSE \in BOOLEAN /\ (FALSE => \A i \in Chunk(p) : fate[p][i] = "refused")
    OBVIOUS
  <2>. QED
    BY <1>2, <2>1, <2>2, FailureFrame
<1>6. TypeOK'
  <2>1. ASSUME NEW r \in network'
        PROVE  IsMessage(r)
    <3>1. PICK n \in network :
             /\ n.type = "request" /\ r.type = "request" /\ r.by = NoOne
             /\ r.op = n.op /\ r.slots = n.slots /\ r.status = n.status
             /\ r = [type |-> r.type, op |-> r.op, by |-> r.by, slots |-> r.slots,
                     status |-> r.status]
      BY <1>4
    <3>2. IsMessage(n)
      BY DEF TypeOK
    <3>. QED
      BY <3>1, <3>2 DEF IsMessage
  <2>2. doubt' \in BOOLEAN
    BY <1>2 DEF TypeOK
  <2>. QED
    BY <2>1, <2>2, <1>2, <1>5 DEF TypeOK, IsMessage
<1>7. Waited'
  BY <1>4 DEF Waited
<1>8. Contents'
  BY <1>4 DEF Contents
<1>9. Valid'
  <2>1. ~doubt' => \A id : ~Removing(id)
    BY <1>2, <1>3 DEF Removing
  <2>2. ASSUME NEW r \in network', r.op = "remove"
        PROVE  doubt'
    <3>1. PICK n \in network : /\ r.op = n.op
                               /\ n.by = p => n.op = op[p]
      BY <1>4
    <3>2. CASE n.by = p
      BY <3>1, <3>2, <2>2, <1>2
    <3>3. CASE n.by = NoOne
      BY <3>1, <3>3, <2>2, <1>2 DEF Valid
    <3>. QED
      BY <3>2, <3>3, <1>3
  <2>3. \A r \in network' : r.type = "request"
    BY <1>4
  <2>. QED
    BY <2>1, <2>2, <2>3, <1>2, <1>5 DEF Valid, Agrees
<1>10. Numbered'
  <2>1. \A r \in AddRequests' : \E n \in AddRequests :
            r.slots = n.slots /\ (n.by = NoOne => r = n)
            /\ (n.by = p => r = [n EXCEPT !.by = NoOne])
    BY <1>4 DEF AddRequests
  <2>2. \A r \in AddRequests' : Unused(r)'
    BY <2>1, <1>2 DEF Numbered, Unused
  <2>3. ASSUME NEW r \in AddRequests', NEW s \in AddRequests', r # s
        PROVE  \A i \in DOMAIN r.slots, j \in DOMAIN s.slots :
                  r.slots[i].client # s.slots[j].client
    <3>1. PICK m \in AddRequests : /\ r.slots = m.slots /\ (m.by = NoOne => r = m)
                                   /\ (m.by = p => r = [m EXCEPT !.by = NoOne])
      BY <2>1
    <3>2. PICK n \in AddRequests : /\ s.slots = n.slots /\ (n.by = NoOne => s = n)
                                   /\ (n.by = p => s = [n EXCEPT !.by = NoOne])
      BY <2>1
    <3>3. m # n
      BY <2>3, <3>1, <3>2, <1>3 DEF AddRequests
    <3>. QED
      BY <3>1, <3>2, <3>3 DEF Numbered
  <2>4. \A r \in network' : r.op = "add" =>
            \A i \in DOMAIN r.slots : r.slots[i].client <= nextClientHandle
    BY <1>4 DEF Numbered
  <2>. QED
    BY <2>2, <2>3, <2>4, <1>2, <1>5 DEF Numbered, ClientHandlesUnique
<1>11. Ordered'
  BY <1>2, <1>4, <1>5 DEF Ordered, RegistrationOrder
<1>. QED
  BY <1>5, <1>6, <1>7, <1>8, <1>9, <1>10, <1>11

LEMMA ReturnStep ==
    ASSUME IInv, NEW p \in Callers, Return(p)
    PROVE  IInv'
<1>. USE DEF IInv
<1>1. /\ pc[p] \in {"return", "work"} /\ gate = p
      /\ \A q \in Callers : q # p => pc[q] = "idle"
      /\ \A m \in network : m.by = NoOne /\ m.type = "request"
  BY Alone DEF Return, Returning, Waited
<1>2. /\ gate' = NoOne /\ pc'[p] = "idle" /\ todo'[p] = {} /\ out'[p] = <<>>
      /\ fate'[p] = <<>>
      /\ \A q \in Callers : q # p =>
            /\ pc'[q] = "idle" /\ todo'[q] = todo[q] /\ out'[q] = out[q]
            /\ fate'[q] = fate[q]
      /\ UNCHANGED <<items, nextClientHandle, table, network, before, doubt>>
  BY <1>1 DEF Return, TypeOK, serverVars
<1>3. Registered' = Registered
  BY <1>2 DEF Registered
<1>4. DOMAIN <<>> = {}
  OBVIOUS
<1>5. TypeOK'
  <2>1. \A S : <<>> \in ListOf(S)
    <3>1. 0 \in 0..MaxList /\ \A S : <<>> \in [1..0 -> S]
      BY GroupItemsAssumption
    <3>. QED
      BY <3>1 DEF ListOf
  <2>2. <<>> \in Lists /\ <<>> \in ListOf(Outcomes) /\ <<>> \in ListOf(Fates)
    BY <2>1 DEF Lists
  <2>. QED
    BY <2>2, <1>2 DEF TypeOK, Return, IsMessage
<1>6. Gated'
  BY <1>1, <1>2, GroupItemsAssumption DEF Gated
<1>7. Calls'
  BY <1>1, <1>2, <1>3, <1>4 DEF Calls, Active
<1>8. Waited' /\ Contents'
  BY <1>1, <1>2 DEF Waited, Contents
<1>9. Fated' /\ OutcomesTrue'
  <2>1. \A q \in Callers : DOMAIN fate'[q] = {} /\ DOMAIN out'[q] = {}
    BY <1>2, <1>7 DEF Calls
  <2>. QED
    BY <2>1 DEF Fated, OutcomesTrue
<1>10. Valid'
  BY <1>2, <1>3 DEF Valid, Agrees, Removing
<1>11. Numbered' /\ Ordered'
  BY <1>2, <1>3 DEF Numbered, ClientHandlesUnique, Unused, AddRequests, Ordered,
                    RegistrationOrder
<1>. QED
  BY <1>5, <1>6, <1>7, <1>8, <1>9, <1>10, <1>11

-----------------------------------------------------------------------------
(* The server answers *)

\* What all answers have in common.
Truthful(m, slots, status, fates) ==
    /\ slots \in [DOMAIN m.slots -> Slot] /\ status \in {"ok", "failed", "malformed"}
    /\ \A i \in DOMAIN m.slots :
          /\ slots[i].id = m.slots[i].id /\ slots[i].client = m.slots[i].client
          /\ slots[i].good => /\ fates[i] \in {"executed", "misdirected"}
                              /\ slots[i].handle \in Handles
                              /\ status # "failed"
          /\ ~slots[i].good => fates[i] = "refused"
          /\ m.by # NoOne => (fates[i] = "misdirected" => doubt)

\* The caller of a request waits for the batch, and for nothing else.
LEMMA Asked ==
    ASSUME IInv, NEW m \in network, m.type = "request", m.by # NoOne
    PROVE  /\ m.by \in Callers /\ pc[m.by] = "sent" /\ m.op = op[m.by]
           /\ DOMAIN m.slots = Chunk(m.by) /\ Chunk(m.by) \subseteq todo[m.by]
           /\ todo[m.by] \subseteq DOMAIN ids[m.by]
           /\ DOMAIN fate[m.by] = DOMAIN ids[m.by] /\ DOMAIN out[m.by] = DOMAIN ids[m.by]
           /\ \A i \in DOMAIN m.slots : m.slots[i].id = ids[m.by][i]
           /\ \A n \in network \ {m} : n.by = NoOne /\ n.type = "request"
           /\ \A id : ~Removing(id)
<1>. USE DEF IInv
<1>1. PICK p : p = m.by
  OBVIOUS
<1>2. p \in Callers /\ pc[p] = "sent"
  BY <1>1 DEF TypeOK, IsMessage, Waited
<1>3. \A n \in network \ {m} : n.by = NoOne /\ n.type = "request"
  BY <1>1, <1>2, Alone DEF Waited
<1>4. \A id : ~Removing(id)
  BY <1>3 DEF Removing
<1>5. /\ todo[p] \subseteq DOMAIN ids[p]
      /\ DOMAIN fate[p] = DOMAIN ids[p] /\ DOMAIN out[p] = DOMAIN ids[p]
  BY <1>2 DEF Calls
<1>6. /\ m.op = op[p] /\ DOMAIN m.slots = Chunk(p)
      /\ \A i \in DOMAIN m.slots : m.slots[i].id = ids[p][i]
  BY <1>1 DEF Waited
<1>. QED
  BY <1>1, <1>2, <1>3, <1>4, <1>5, <1>6, BatchSubset

\* The messages after an answer.
LEMMA Messages ==
    ASSUME IInv, NEW m \in network, m.type = "request", NEW slots, NEW status, NEW fates,
           Reply(m, slots, status, fates), Truthful(m, slots, status, fates)
    PROVE  /\ m.by = NoOne => network' = network \ {m}
           /\ m.by # NoOne => \E r :
                 /\ network' = (network \ {m}) \cup {r} /\ IsMessage(r)
                 /\ r.type = "reply" /\ r.op = m.op /\ r.by = m.by /\ r.slots = slots
                 /\ r.status = status
<1>. DEFINE r == [type |-> "reply", op |-> m.op, by |-> m.by, slots |-> slots,
                  status |-> status]
<1>1. IsMessage(m)
  BY DEF IInv, TypeOK
<1>2. r = [type |-> "reply", op |-> m.op, by |-> m.by, slots |-> slots, status |-> status]
  OBVIOUS
<1>3. network' = (network \ {m}) \cup (IF m.by = NoOne THEN {} ELSE {r})
  BY DEF Reply
<1>. HIDE DEF r
<1>4. DOMAIN slots = DOMAIN m.slots /\ slots \in [DOMAIN slots -> Slot]
  BY DEF Truthful
<1>5. IsMessage(r)
  BY <1>1, <1>2, <1>4 DEF IsMessage, Truthful
<1>. QED
  BY <1>2, <1>3, <1>5

\* What an answer leaves of the invariant, whatever it does to the server's table.
LEMMA ReplyFrame ==
    ASSUME IInv, NEW m \in network, m.type = "request", NEW slots, NEW status, NEW fates,
           Reply(m, slots, status, fates), Truthful(m, slots, status, fates),
           table' \in [Handles -> [id : ItemIDs \cup {NoItem}, client : Clients]]
    PROVE  /\ TypeOK' /\ Gated' /\ Calls' /\ Waited' /\ Contents' /\ Fated'
           /\ OutcomesTrue' /\ Ordered'
           /\ Registered' = Registered /\ UNCHANGED <<items, nextClientHandle, doubt>>
<1>. USE DEF IInv
<1>1. UNCHANGED <<gate, items, nextClientHandle, pc, op, ids, todo, out, before, doubt>>
  BY DEF Reply, groupVars, callVars
<1>2. Registered' = Registered /\ \A q : Chunk(q)' = Chunk(q) /\ TodoIDs(q)' = TodoIDs(q)
  BY <1>1 DEF Registered, Chunk, TodoIDs
<1>3. DOMAIN slots = DOMAIN m.slots /\ IsMessage(m)
  BY DEF Truthful, TypeOK
<1>4. \A n \in network' : n \in network \/
          /\ m.by # NoOne /\ IsMessage(n)
          /\ n.type = "reply" /\ n.op = m.op /\ n.by = m.by /\ n.slots = slots
          /\ n.status = status
  BY Messages
<1>5. /\ m.by = NoOne => fate' = fate
      /\ m.by # NoOne => fate' = [fate EXCEPT ![m.by] = [i \in DOMAIN fate[m.by] |->
                            IF i \in DOMAIN m.slots THEN fates[i] ELSE fate[m.by][i]]]
  BY <1>3 DEF Reply
<1>6. /\ \A q \in Callers : q # m.by => fate'[q] = fate[q]
      /\ m.by # NoOne =>
            /\ DOMAIN fate'[m.by] = DOMAIN fate[m.by]
            /\ \A i \in DOMAIN fate[m.by] :
                  fate'[m.by][i] = IF i \in DOMAIN m.slots THEN fates[i] ELSE fate[m.by][i]
      /\ m.by = NoOne => fate' = fate
  BY <1>5, Asked DEF TypeOK
<1>7. \A i \in DOMAIN m.slots : fates[i] \in {"executed", "misdirected", "refused"}
  BY DEF Truthful
<1>8. TypeOK'
  <2>1. fate' \in [Callers -> ListOf(Fates)]
    <3>1. CASE m.by = NoOne
      BY <3>1, <1>6 DEF TypeOK
    <3>2. CASE m.by # NoOne
      <4>1. fate[m.by] \in ListOf(Fates) /\ m.by \in Callers
        BY <3>2, Asked DEF TypeOK
      <4>2. PICK n \in 0..MaxList : fate[m.by] \in [1..n -> Fates]
        BY <4>1 DEF ListOf
      <4>3. [i \in DOMAIN fate[m.by] |->
                IF i \in DOMAIN m.slots THEN fates[i] ELSE fate[m.by][i]] \in [1..n -> Fates]
        BY <4>2, <1>7 DEF Fates
      <4>4. [i \in DOMAIN fate[m.by] |->
                IF i \in DOMAIN m.slots THEN fates[i] ELSE fate[m.by][i]] \in ListOf(Fates)
        BY <4>3, ListRange
      <4>. QED
        BY <3>2, <4>1, <4>4, <1>5 DEF TypeOK
    <3>. QED
      BY <3>1, <3>2
  <2>2. \A n \in network' : IsMessage(n)
    BY <1>4 DEF TypeOK
  <2>. QED
    BY <2>1, <2>2, <1>1 DEF TypeOK, IsMessage
<1>9. Gated'
  BY <1>1 DEF Gated
<1>10. Calls'
  <2>1. \A q \in Callers : DOMAIN fate'[q] = DOMAIN fate[q]
    BY <1>6, Asked
  <2>. QED
    BY <2>1, <1>1, <1>2 DEF Calls, Active
<1>11. Waited'
  <2>1. CASE m.by = NoOne
    BY <2>1, <1>1, <1>2, Messages DEF Waited
  <2>2. CASE m.by # NoOne
    <3>1. PICK r : /\ network' = (network \ {m}) \cup {r}
                   /\ r.type = "reply" /\ r.op = m.op /\ r.by = m.by /\ r.slots = slots
      BY <2>2, Messages
    <3>2. \A n \in network \ {m} : n.by = NoOne /\ n.type = "request"
      BY <2>2, Asked
    <3>3. /\ pc[m.by] = "sent" /\ m.op = op[m.by] /\ DOMAIN slots = Chunk(m.by)
          /\ \A i \in DOMAIN slots : slots[i].id = ids[m.by][i]
      BY <2>2, <1>3, Asked DEF Truthful
    <3>. QED
      BY <2>2, <3>1, <3>2, <3>3, <1>1, <1>2 DEF Waited
  <2>. QED
    BY <2>1, <2>2
<1>12. Contents'
  <2>1. CASE m.by = NoOne
    <3>1. network' \subseteq network /\ fate' = fate
      BY <2>1, <1>6, Messages
    <3>. QED
      BY <3>1, <1>1 DEF Contents
  <2>2. CASE m.by # NoOne
    <3>1. PICK r : /\ network' = (network \ {m}) \cup {r}
                   /\ r.type = "reply" /\ r.by = m.by /\ r.slots = slots /\ r.status = status
      BY <2>2, Messages
    <3>2. \A n \in network \ {m} : n.by = NoOne /\ n.type = "request"
      BY <2>2, Asked
    <3>3. \A i \in DOMAIN slots : fate'[m.by][i] = fates[i]
      BY <2>2, <1>3, <1>6, Asked
    <3>4. \A i \in DOMAIN r.slots :
              /\ r.slots[i].good => fate'[r.by][i] \in {"executed", "misdirected"}
              /\ ~r.slots[i].good => fate'[r.by][i] = "refused"
              /\ r.status = "failed" => ~r.slots[i].good
              /\ r.slots[i].good => r.slots[i].handle \in Handles
      BY <3>1, <3>3, <1>3 DEF Truthful
    <3>. QED
      BY <3>1, <3>2, <3>4, <1>1 DEF Contents
  <2>. QED
    BY <2>1, <2>2
<1>13. Fated'
  <2>. SUFFICES ASSUME NEW q \in Callers, NEW i \in DOMAIN fate'[q]
                PROVE  /\ fate'[q][i] = "misdirected" => doubt
                       /\ Active(q) /\ i \in todo[q] =>
                            (fate'[q][i] = "unsent" <=> ~(pc[q] = "sent" /\ i \in Chunk(q)))
                       /\ op[q] = "remove" /\ i \notin Firsts(ids[q]) =>
                            fate'[q][i] = "unsent"
    BY <1>1, <1>2 DEF Fated, Active
  <2>1. CASE fate'[q][i] = fate[q][i]
    <3>1. i \in DOMAIN fate[q]
      BY <1>6, Asked
    <3>. QED
      BY <2>1, <3>1 DEF Fated
  <2>2. CASE fate'[q][i] # fate[q][i]
    <3>1. /\ q = m.by /\ m.by # NoOne /\ i \in DOMAIN m.slots
          /\ fate'[q][i] = fates[i]
      BY <2>2, <1>6
    <3>2. /\ pc[q] = "sent" /\ i \in Chunk(q) /\ i \in todo[q]
          /\ fates[i] # "unsent" /\ (fates[i] = "misdirected" => doubt)
      BY <3>1, <1>7, Asked DEF Truthful
    <3>3. op[q] = "remove" => i \in Firsts(ids[q])
      BY <3>2 DEF Calls
    <3>. QED
      BY <3>1, <3>2, <3>3
  <2>. QED
    BY <2>1, <2>2
<1>14. OutcomesTrue'
  <2>. SUFFICES ASSUME NEW q \in Callers, NEW i \in DOMAIN out[q]
                PROVE  Outcome(q, i)'
    BY <1>1 DEF OutcomesTrue
  <2>1. Outcome(q, i)
    BY DEF OutcomesTrue
  <2>2. Active(q)' <=> Active(q)
    BY <1>1 DEF Active
  <2>3. CASE fate'[q][i] = fate[q][i]
    BY <2>1, <2>2, <2>3, <1>1, <1>2 DEF Outcome, AddTrue, RemoveTrue, ReadTrue, WriteTrue
  <2>4. CASE fate'[q][i] # fate[q][i]
    <3>1. q = m.by /\ m.by # NoOne /\ i \in DOMAIN m.slots
      <4>1. q = m.by /\ m.by # NoOne
        BY <2>4, <1>6
      <4>2. i \in DOMAIN fate[q]
        BY <4>1, Asked
      <4>. QED
        BY <2>4, <4>1, <4>2, <1>6
    <3>2. Active(q) /\ i \in todo[q]
      BY <3>1, Asked DEF Active
    <3>3. ids[q][i] \in TodoIDs(q)
      BY <3>2 DEF TodoIDs
    <3>. QED
      BY <2>1, <2>2, <3>2, <3>3, <1>1, <1>2 DEF Outcome, AddTrue
  <2>. QED
    BY <2>3, <2>4
<1>15. Ordered'
  <2>1. \A n \in network' : n.op = "add" /\ n.by # NoOne =>
          \A i \in DOMAIN n.slots :
              /\ \A id \in Registered : items[id].client < n.slots[i].client
              /\ \A j \in DOMAIN n.slots : i < j => n.slots[i].client < n.slots[j].client
    <3>. TAKE n \in network'
    <3>1. CASE n \in network
      BY <3>1 DEF Ordered
    <3>2. CASE n.op = m.op /\ n.by = m.by /\ n.slots = slots
      <4>1. m.op = "add" /\ m.by # NoOne => \A i \in DOMAIN m.slots :
                /\ \A id \in Registered : items[id].client < m.slots[i].client
                /\ \A j \in DOMAIN m.slots : i < j => m.slots[i].client < m.slots[j].client
        BY DEF Ordered
      <4>2. \A i \in DOMAIN m.slots : slots[i].client = m.slots[i].client
        BY DEF Truthful
      <4>. QED
        BY <3>2, <4>1, <4>2, <1>3
    <3>. QED
      BY <3>1, <3>2, <1>4
  <2>. QED
    BY <2>1, <1>1, <1>2 DEF Ordered, RegistrationOrder
<1>. QED
  BY <1>1, <1>2, <1>8, <1>9, <1>10, <1>11, <1>12, <1>13, <1>14, <1>15

LEMMA ServerFailsStep ==
    ASSUME IInv, NEW m \in network, ServerFails(m)
    PROVE  IInv'
<1>. USE DEF IInv
<1>1. PICK fates : fates = [i \in DOMAIN m.slots |-> "refused"]
  OBVIOUS
<1>2. m.type = "request" /\ table' = table /\ Reply(m, m.slots, "failed", fates)
  BY <1>1 DEF ServerFails, Requested
<1>3. Truthful(m, m.slots, "failed", fates)
  BY <1>1, <1>2 DEF Truthful, Contents, TypeOK, IsMessage
<1>4. table' \in [Handles -> [id : ItemIDs \cup {NoItem}, client : Clients]]
  BY <1>2 DEF TypeOK
<1>5. /\ TypeOK' /\ Gated' /\ Calls' /\ Waited' /\ Contents' /\ Fated'
      /\ OutcomesTrue' /\ Ordered'
      /\ Registered' = Registered /\ UNCHANGED <<items, nextClientHandle, doubt>>
  BY <1>2, <1>3, <1>4, ReplyFrame
<1>6. \A n \in network' : n \in network \/
          (n.type = "reply" /\ n.op = m.op /\ n.by = m.by /\ n.by # NoOne /\ n.slots = m.slots)
  BY <1>2, <1>3, Messages
<1>7. \A i \in DOMAIN m.slots : ~m.slots[i].good
  BY <1>2 DEF Contents
<1>8. \A n \in network : n # m => n \in network'
  BY <1>2 DEF Reply
<1>9. Valid'
  <2>1. \A id : Removing(id) => Removing(id)'
    BY <1>2, <1>8 DEF Removing
  <2>. QED
    BY <2>1, <1>2, <1>5, <1>6, <1>7 DEF Valid, Agrees
<1>10. Numbered'
  <2>1. AddRequests' \subseteq AddRequests
    BY <1>6 DEF AddRequests
  <2>. QED
    BY <2>1, <1>2, <1>5, <1>6 DEF Numbered, ClientHandlesUnique, Unused
<1>. QED
  BY <1>5, <1>9, <1>10

LEMMA ServerServesStep ==
    ASSUME IInv, NEW m \in network, NEW status \in {"ok", "malformed"}, ServerServes(m, status)
    PROVE  IInv'
<1>. USE DEF IInv
<1>1. PICK good \in SUBSET {i \in DOMAIN m.slots : table[m.slots[i].handle] # Free} :
          /\ table' = [h \in Handles |->
                IF m.op = "remove" /\ \E i \in good : m.slots[i].handle = h
                THEN Free ELSE table[h]]
          /\ Reply(m, [i \in DOMAIN m.slots |-> [m.slots[i] EXCEPT !.good = i \in good]],
                   status,
                   [i \in DOMAIN m.slots |->
                      IF i \notin good THEN "refused"
                      ELSE IF table[m.slots[i].handle].id = m.slots[i].id THEN "executed"
                      ELSE "misdirected"])
  BY DEF ServerServes
<1>2. PICK slots : slots = [i \in DOMAIN m.slots |-> [m.slots[i] EXCEPT !.good = i \in good]]
  OBVIOUS
<1>3. PICK fates : fates = [i \in DOMAIN m.slots |->
                      IF i \notin good THEN "refused"
                      ELSE IF table[m.slots[i].handle].id = m.slots[i].id THEN "executed"
                      ELSE "misdirected"]
  OBVIOUS
<1>4. /\ m.type = "request" /\ m.op \in {"remove", "read", "write"}
      /\ Reply(m, slots, status, fates)
  BY <1>1, <1>2, <1>3 DEF ServerServes, Requested
<1>5. /\ DOMAIN slots = DOMAIN m.slots /\ m.slots \in [DOMAIN m.slots -> Slot]
      /\ \A i \in DOMAIN m.slots :
            /\ slots[i] \in Slot /\ slots[i].id = m.slots[i].id
            /\ slots[i].client = m.slots[i].client
            /\ slots[i].handle = m.slots[i].handle
            /\ slots[i].good <=> i \in good
  <2>1. m.slots \in [DOMAIN m.slots -> Slot]
    BY DEF TypeOK, IsMessage
  <2>2. ASSUME NEW i \in DOMAIN m.slots
        PROVE  /\ slots[i] \in Slot /\ slots[i].id = m.slots[i].id
               /\ slots[i].client = m.slots[i].client
               /\ slots[i].handle = m.slots[i].handle
               /\ slots[i].good <=> i \in good
    <3>1. m.slots[i] \in Slot
      BY <2>1
    <3>0. (i \in good) \in BOOLEAN
      OBVIOUS
    <3>2. PICK b \in BOOLEAN : b = (i \in good)
      BY <3>0
    <3>3. slots[i] = [m.slots[i] EXCEPT !.good = b]
      BY <3>2, <1>2
    <3>. QED
      BY <3>1, <3>2, <3>3 DEF Slot
  <2>. QED
    BY <2>1, <2>2, <1>2
<1>6. m.by = NoOne /\ m.op = "remove" => doubt
  BY DEF Valid
<1>7. ASSUME m.by # NoOne, NEW i \in DOMAIN m.slots
      PROVE  /\ m.slots[i].id \in Registered
             /\ m.slots[i].handle = items[m.slots[i].id].handle
             /\ ~doubt => Agrees(m.slots[i].id)
  <2>1. PICK p \in Callers : p = m.by
    BY <1>4, <1>7, Asked
  <2>2. pc[p] = "sent" /\ op[p] # "add" /\ i \in todo[p] /\ m.slots[i].id = ids[p][i]
    BY <2>1, <1>4, <1>7, Asked
  <2>3. m.slots[i].id \in Registered
    BY <2>2 DEF Calls, Active
  <2>. QED
    BY <2>3, <1>4, <1>7, Asked DEF Contents, Valid
<1>8. Truthful(m, slots, status, fates)
  <2>1. slots \in [DOMAIN m.slots -> Slot]
    BY <1>2, <1>5
  <2>2. ASSUME NEW i \in DOMAIN m.slots
        PROVE  /\ slots[i].good => fates[i] \in {"executed", "misdirected"}
               /\ ~slots[i].good => fates[i] = "refused"
               /\ slots[i].handle \in Handles
               /\ m.by # NoOne => (fates[i] = "misdirected" => doubt)
    <3>1. fates[i] = IF i \notin good THEN "refused"
                     ELSE IF table[m.slots[i].handle].id = m.slots[i].id THEN "executed"
                     ELSE "misdirected"
      BY <1>3
    <3>2. slots[i].handle \in Handles
      BY <1>4, <1>5 DEF Contents
    <3>3. ASSUME m.by # NoOne, ~doubt
          PROVE  table[m.slots[i].handle].id = m.slots[i].id
      <4>1. m.slots[i].handle = items[m.slots[i].id].handle /\ Agrees(m.slots[i].id)
        BY <3>3, <1>7
      <4>. QED
        BY <4>1 DEF Agrees
    <3>. QED
      BY <3>1, <3>2, <3>3, <1>5
  <2>. QED
    BY <2>1, <2>2, <1>5 DEF Truthful
<1>9. table' \in [Handles -> [id : ItemIDs \cup {NoItem}, client : Clients]]
  <2>1. Free \in [id : ItemIDs \cup {NoItem}, client : Clients]
    BY GroupItemsAssumption DEF Free, Clients
  <2>. QED
    BY <2>1, <1>1 DEF TypeOK
<1>10. /\ TypeOK' /\ Gated' /\ Calls' /\ Waited' /\ Contents' /\ Fated'
       /\ OutcomesTrue' /\ Ordered'
       /\ Registered' = Registered /\ UNCHANGED <<items, nextClientHandle, doubt>>
  BY <1>4, <1>8, <1>9, ReplyFrame
<1>11. /\ \A n \in network' : n \in network \/
             (/\ n.type = "reply" /\ n.op = m.op /\ n.by = m.by /\ n.by # NoOne
              /\ n.slots = slots)
       /\ \A n \in network : n # m => n \in network'
       /\ m.by # NoOne => \E r \in network' : /\ r.type = "reply" /\ r.op = m.op
                                              /\ r.by = m.by /\ r.slots = slots
  <2>1. \A n \in network : n # m => n \in network'
    BY <1>4 DEF Reply
  <2>. QED
    BY <2>1, <1>4, <1>8, Messages
<1>12. \A h \in Handles : table'[h] = table[h] \/
           (m.op = "remove" /\ table'[h] = Free /\ \E i \in good : m.slots[i].handle = h)
  BY <1>1
<1>13. Valid'
  <2>1. \A id : Removing(id) => Removing(id)'
    BY <1>4, <1>11 DEF Removing
  <2>2. ASSUME ~doubt, NEW id \in Registered
        PROVE  Agrees(id)' \/ Removing(id)'
    <3>1. CASE Removing(id)
      BY <3>1, <2>1
    <3>2. CASE Agrees(id) /\ table'[items[id].handle] = table[items[id].handle]
      BY <3>2, <1>10 DEF Agrees
    <3>3. CASE Agrees(id) /\ table'[items[id].handle] # table[items[id].handle]
      <4>1. PICK i \in good : m.slots[i].handle = items[id].handle /\ m.op = "remove"
        BY <3>3, <1>12 DEF Valid
      <4>2. m.by # NoOne
        BY <4>1, <2>2, <1>6
      <4>3. m.slots[i].id = id
        <5>1. /\ m.slots[i].handle = items[m.slots[i].id].handle
              /\ Agrees(m.slots[i].id)
          BY <4>2, <2>2, <1>7
        <5>2. table[m.slots[i].handle].id = m.slots[i].id
          BY <5>1 DEF Agrees
        <5>3. table[items[id].handle].id = id
          BY <3>3 DEF Agrees
        <5>. QED
          BY <4>1, <5>2, <5>3
      <4>4. Removing(id)'
        BY <4>1, <4>2, <4>3, <1>5, <1>11 DEF Removing
      <4>. QED
        BY <4>4
    <3>. QED
      BY <3>1, <3>2, <3>3, <2>2 DEF Valid
  <2>3. ASSUME ~doubt, NEW n \in network', n.type = "reply", n.op = "add",
               NEW i \in DOMAIN n.slots, n.slots[i].good
        PROVE  table'[n.slots[i].handle] = [id |-> n.slots[i].id, client |-> n.slots[i].client]
    <3>1. n \in network
      BY <2>3, <1>4, <1>11
    <3>2. n.by # NoOne /\ n # m
      BY <2>3, <3>1, <1>4 DEF Waited
    <3>3. m.by = NoOne
      BY <2>3, <3>1, <3>2, <1>4, Asked
    <3>4. table'[n.slots[i].handle] = table[n.slots[i].handle]
      BY <3>1, <3>3, <2>3, <1>6, <1>12 DEF Contents
    <3>. QED
      BY <3>1, <3>4, <2>3 DEF Valid
  <2>4. \A n \in network' : n.by = NoOne /\ n.op = "remove" => doubt
    BY <1>11 DEF Valid
  <2>5. /\ Registered' \subseteq ValidIDs
        /\ \A id \in Registered' : items'[id].handle \in Handles
    BY <1>10 DEF Valid
  <2>. QED
    BY <2>2, <2>3, <2>4, <2>5, <1>10 DEF Valid
<1>14. Numbered'
  <2>1. AddRequests' \subseteq AddRequests
    BY <1>11 DEF AddRequests
  <2>2. \A h \in Handles : table'[h] # Free => table'[h] = table[h]
    BY <1>12
  <2>3. ClientHandlesUnique'
    BY <2>2 DEF Numbered, ClientHandlesUnique
  <2>4. \A h \in Handles : table'[h].client <= nextClientHandle
    BY <1>12, GroupItemsAssumption DEF Numbered, Free, TypeOK, Clients
  <2>5. \A n \in AddRequests' : Unused(n)'
    BY <2>1, <2>2 DEF Numbered, Unused
  <2>6. \A n \in network' : n.op = "add" =>
            \A i \in DOMAIN n.slots : n.slots[i].client <= nextClientHandle
    BY <1>4, <1>11 DEF Numbered
  <2>. QED
    BY <2>1, <2>3, <2>4, <2>5, <2>6, <1>10 DEF Numbered
<1>. QED
  BY <1>10, <1>13, <1>14

LEMMA ServerAddsStep ==
    ASSUME IInv, NEW m \in network, NEW status \in {"ok", "malformed"}, ServerAdds(m, status)
    PROVE  IInv'
<1>. USE DEF IInv
<1>1. PICK good, grant :
          /\ good \in SUBSET DOMAIN m.slots
          /\ grant \in [good -> {h \in Handles : table[h] = Free}]
          /\ \A i, j \in good : grant[i] = grant[j] => i = j
          /\ table' = [h \in Handles |->
                IF \E i \in good : grant[i] = h
                THEN LET i == CHOOSE i \in good : grant[i] = h
                     IN  [id |-> m.slots[i].id, client |-> m.slots[i].client]
                ELSE table[h]]
          /\ Reply(m, [i \in DOMAIN m.slots |->
                          IF i \in good THEN [m.slots[i] EXCEPT !.good = TRUE,
                                                                !.handle = grant[i]]
                                        ELSE m.slots[i]],
                   status,
                   [i \in DOMAIN m.slots |-> IF i \in good THEN "executed" ELSE "refused"])
  BY ZenonT(60) DEF ServerAdds
\* What is granted is free, and granted once.
<1>0. /\ \A i \in good : /\ i \in DOMAIN m.slots /\ grant[i] \in Handles
                         /\ table[grant[i]] = Free
      /\ \A i, j \in good : grant[i] = grant[j] => i = j
  BY <1>1
<1>2. PICK slots : slots = [i \in DOMAIN m.slots |->
                          IF i \in good THEN [m.slots[i] EXCEPT !.good = TRUE,
                                                                !.handle = grant[i]]
                                        ELSE m.slots[i]]
  OBVIOUS
<1>3. PICK fates : fates = [i \in DOMAIN m.slots |->
                               IF i \in good THEN "executed" ELSE "refused"]
  OBVIOUS
<1>4. m.type = "request" /\ m.op = "add" /\ Reply(m, slots, status, fates)
  BY <1>1, <1>2, <1>3 DEF ServerAdds, Requested
<1>5. m.slots \in [DOMAIN m.slots -> Slot]
  BY DEF TypeOK, IsMessage
<1>6. /\ DOMAIN slots = DOMAIN m.slots
      /\ \A i \in DOMAIN m.slots :
            /\ slots[i] \in Slot /\ slots[i].id = m.slots[i].id
            /\ slots[i].client = m.slots[i].client
            /\ slots[i].good <=> i \in good
            /\ i \in good => slots[i].handle = grant[i]
  <2>1. ASSUME NEW i \in DOMAIN m.slots
        PROVE  /\ slots[i] \in Slot /\ slots[i].id = m.slots[i].id
               /\ slots[i].client = m.slots[i].client
               /\ slots[i].good <=> i \in good
               /\ i \in good => slots[i].handle = grant[i]
    <3>1. m.slots[i] \in Slot /\ ~m.slots[i].good
      <4>1. m.slots[i] \in Slot
        BY <1>5
      <4>2. ~m.slots[i].good
        BY <1>4 DEF Contents
      <4>. QED
        BY <4>1, <4>2
    <3>2. CASE i \in good
      <4>1. PICK h \in Handles : h = grant[i]
        BY <3>2, <1>0
      <4>2. slots[i] = [m.slots[i] EXCEPT !.good = TRUE, !.handle = h]
        BY <3>2, <4>1, <1>2
      <4>. QED
        BY <3>1, <3>2, <4>1, <4>2 DEF Slot
    <3>3. CASE i \notin good
      BY <3>1, <3>3, <1>2
    <3>. QED
      BY <3>2, <3>3
  <2>. QED
    BY <2>1, <1>2
<1>7. Truthful(m, slots, status, fates)
  <2>1. slots \in [DOMAIN m.slots -> Slot]
    BY <1>2, <1>6
  <2>2. \A i \in DOMAIN m.slots : fates[i] = IF i \in good THEN "executed" ELSE "refused"
    BY <1>3
  <2>3. status \in {"ok", "failed", "malformed"} /\ (status = "failed" => good = {})
    BY <1>1
  <2>4. \A i \in DOMAIN m.slots :
           /\ slots[i].id = m.slots[i].id /\ slots[i].client = m.slots[i].client
           /\ slots[i].good => fates[i] = "executed" /\ slots[i].handle \in Handles
                              /\ status # "failed"
           /\ ~slots[i].good => fates[i] = "refused"
    BY <2>2, <2>3, <1>0, <1>6
  <2>. QED
    BY <2>1, <2>3, <2>4 DEF Truthful
\* The table has what was granted, and what it had.
<1>8. /\ \A i \in good : /\ grant[i] \in Handles /\ table[grant[i]] = Free
                         /\ table'[grant[i]] = [id |-> m.slots[i].id,
                                                client |-> m.slots[i].client]
      /\ \A h \in Handles : table'[h] = table[h] \/ \E i \in good : h = grant[i]
  <2>1. ASSUME NEW i \in good
        PROVE  /\ grant[i] \in Handles /\ table[grant[i]] = Free
               /\ table'[grant[i]] = [id |-> m.slots[i].id, client |-> m.slots[i].client]
    <3>1. PICK h \in Handles : h = grant[i] /\ table[h] = Free
      BY <1>0
    <3>2. PICK k : k = CHOOSE j \in good : grant[j] = h
      OBVIOUS
    <3>3. k = i
      BY <3>1, <3>2, <1>1
    <3>4. table'[h] = [id |-> m.slots[k].id, client |-> m.slots[k].client]
      BY <3>1, <3>2, <1>1
    <3>. QED
      BY <3>1, <3>3, <3>4
  <2>2. \A h \in Handles : table'[h] = table[h] \/ \E i \in good : h = grant[i]
    BY <1>1
  <2>. QED
    BY <2>1, <2>2
<1>9. table' \in [Handles -> [id : ItemIDs \cup {NoItem}, client : Clients]]
  <2>1. \A h \in Handles : table'[h] \in [id : ItemIDs \cup {NoItem}, client : Clients]
    <3>. TAKE h \in Handles
    <3>1. CASE table'[h] = table[h]
      BY <3>1 DEF TypeOK
    <3>2. CASE \E i \in good : h = grant[i]
      <4>1. PICK i \in good : h = grant[i]
        BY <3>2
      <4>2. m.slots[i].id \in ItemIDs /\ m.slots[i].client \in Clients
        BY <1>5, <1>0 DEF Slot
      <4>3. table'[h] = [id |-> m.slots[i].id, client |-> m.slots[i].client]
        BY <4>1, <1>8
      <4>. QED
        BY <4>2, <4>3
    <3>. QED
      BY <3>1, <3>2, <1>8
  <2>2. table' = [h \in Handles |-> table'[h]]
    BY <1>1
  <2>. QED
    BY <2>1, <2>2
<1>10. /\ TypeOK' /\ Gated' /\ Calls' /\ Waited' /\ Contents' /\ Fated'
       /\ OutcomesTrue' /\ Ordered'
       /\ Registered' = Registered /\ UNCHANGED <<items, nextClientHandle, doubt>>
  BY <1>4, <1>7, <1>9, ReplyFrame
<1>11. /\ \A n \in network' : n \in network \/
             (/\ n.type = "reply" /\ n.op = m.op /\ n.by = m.by /\ n.by # NoOne
              /\ n.slots = slots)
       /\ \A n \in network : n # m => n \in network'
       /\ m \notin network'
  <2>1. \A n \in network : n # m => n \in network'
    BY <1>4 DEF Reply
  <2>. QED
    BY <2>1, <1>4, <1>7, Messages
<1>12. \A h \in Handles : table[h] # Free => table'[h] = table[h]
  BY <1>8, <1>0
<1>13. Valid'
  <2>1. \A id : Removing(id) => Removing(id)'
    BY <1>4, <1>11 DEF Removing
  <2>2. ASSUME NEW id \in ItemIDs, NEW h \in Handles, NEW c, table[h] = [id |-> id, client |-> c]
        PROVE  table'[h] = table[h]
    BY <2>2, <1>12, GroupItemsAssumption DEF Free
  <2>3. \A id \in Registered : Agrees(id) => Agrees(id)'
    BY <2>2, <1>10 DEF Agrees, Valid, Registered
  <2>4. ASSUME ~doubt, NEW n \in network', n.type = "reply", n.op = "add",
               NEW i \in DOMAIN n.slots, n.slots[i].good
        PROVE  table'[n.slots[i].handle] = [id |-> n.slots[i].id, client |-> n.slots[i].client]
    <3>1. CASE n \in network
      <4>1. n.slots[i].handle \in Handles /\ n.slots[i].id \in ItemIDs
        BY <3>1, <2>4 DEF Contents, TypeOK, IsMessage, Slot
      <4>. QED
        BY <3>1, <4>1, <2>2, <2>4 DEF Valid
    <3>2. CASE n.slots = slots
      BY <3>2, <2>4, <1>6, <1>8
    <3>. QED
      BY <3>1, <3>2, <1>11
  <2>5. \A n \in network' : n.by = NoOne /\ n.op = "remove" => doubt
    BY <1>11 DEF Valid
  <2>6. /\ Registered' \subseteq ValidIDs
        /\ \A id \in Registered' : items'[id].handle \in Handles
    BY <1>10 DEF Valid
  <2>. QED
    BY <2>1, <2>3, <2>4, <2>5, <2>6, <1>10 DEF Valid
<1>14. Numbered'
  <2>1. AddRequests' \subseteq AddRequests \ {m} /\ m \in AddRequests
    BY <1>4, <1>11 DEF AddRequests
  <2>2. Unused(m)
    BY <2>1 DEF Numbered
  <2>3. \A i \in good : /\ table'[grant[i]].client = m.slots[i].client
                        /\ i \in DOMAIN m.slots
    <3>. TAKE i \in good
    <3>1. PICK e : e = table'[grant[i]]
      OBVIOUS
    <3>2. e = [id |-> m.slots[i].id, client |-> m.slots[i].client]
      BY <3>1, <1>8
    <3>. QED
      BY <3>1, <3>2, <1>0
  <2>4. ClientHandlesUnique'
    <3>. SUFFICES ASSUME NEW h \in Handles, NEW k \in Handles, table'[h] # Free,
                         table'[k] # Free, table'[h].client = table'[k].client
                  PROVE  h = k
      BY DEF ClientHandlesUnique
    <3>1. CASE table'[h] = table[h] /\ table'[k] = table[k]
      BY <3>1 DEF Numbered, ClientHandlesUnique
    <3>2. CASE (\E i \in good : h = grant[i]) /\ table'[k] = table[k]
      BY <3>2, <2>2, <2>3 DEF Unused
    <3>3. CASE table'[h] = table[h] /\ (\E i \in good : k = grant[i])
      BY <3>3, <2>2, <2>3 DEF Unused
    <3>4. CASE (\E i \in good : h = grant[i]) /\ (\E i \in good : k = grant[i])
      BY <3>4, <2>2, <2>3 DEF Unused
    <3>. QED
      BY <3>1, <3>2, <3>3, <3>4, <1>8
  <2>5. \A h \in Handles : table'[h].client <= nextClientHandle
    BY <2>3, <1>4, <1>8 DEF Numbered
  <2>6. \A n \in AddRequests' : Unused(n)'
    <3>. SUFFICES ASSUME NEW n \in AddRequests'
                  PROVE  /\ \A h \in Handles : table'[h] # Free =>
                               \A i \in DOMAIN n.slots : table'[h].client # n.slots[i].client
                         /\ \A i, j \in DOMAIN n.slots :
                               n.slots[i].client = n.slots[j].client => i = j
      BY DEF Unused
    <3>1. Unused(n) /\ n # m /\ n \in AddRequests
      BY <2>1 DEF Numbered
    <3>2. \A i \in DOMAIN m.slots, j \in DOMAIN n.slots :
              m.slots[i].client # n.slots[j].client
      BY <3>1, <2>1 DEF Numbered
    <3>. QED
      BY <3>1, <3>2, <2>3, <1>8 DEF Unused
  <2>7. \A n \in network' : n.op = "add" =>
            \A i \in DOMAIN n.slots : n.slots[i].client <= nextClientHandle
    BY <1>4, <1>6, <1>11 DEF Numbered
  <2>. QED
    BY <2>1, <2>4, <2>5, <2>6, <2>7, <1>10 DEF Numbered
<1>. QED
  BY <1>10, <1>13, <1>14

-----------------------------------------------------------------------------
(* The theorems *)

LEMMA InitialInvariant ==
    ASSUME Init
    PROVE  IInv
<1>1. DOMAIN <<>> = {} /\ \A S : <<>> \in ListOf(S)
  <2>1. 0 \in 0..MaxList /\ \A S : <<>> \in [1..0 -> S]
    BY GroupItemsAssumption
  <2>. QED
    BY <2>1 DEF ListOf
<1>2. Unregistered \in [handle : Handles \cup {NoHandle}, client : Clients]
      /\ Free \in [id : ItemIDs \cup {NoItem}, client : Clients]
      /\ 0 \in Clients
  BY GroupItemsAssumption DEF Unregistered, Free, Clients
<1>3. <<>> \in Lists /\ <<>> \in ListOf(Outcomes) /\ <<>> \in ListOf(Fates)
  BY <1>1 DEF Lists
<1>4. Registered = {}
  BY DEF Init, Registered
<1>5. TypeOK
  BY <1>2, <1>3 DEF Init, TypeOK
<1>6. Gated /\ Calls /\ Waited /\ Contents
  BY <1>1, GroupItemsAssumption DEF Init, Gated, Calls, Waited, Contents, Active
<1>7. Fated /\ OutcomesTrue
  BY <1>1 DEF Init, Fated, OutcomesTrue
<1>8. Valid
  BY <1>4 DEF Init, Valid
<1>9. Numbered
  BY DEF Init, Numbered, ClientHandlesUnique, AddRequests, Free
<1>10. Ordered
  BY <1>4 DEF Init, Ordered, RegistrationOrder, Unregistered
<1>. QED
  BY <1>5, <1>6, <1>7, <1>8, <1>9, <1>10 DEF IInv

LEMMA InvariantStep ==
    ASSUME IInv, [Next]_vars
    PROVE  IInv'
<1>1. CASE UNCHANGED vars
  <2>. USE <1>1 DEF vars, groupVars, callVars, serverVars, historyVars, IInv
  <2>1. TypeOK' /\ Gated'
    BY DEF TypeOK, IsMessage, Gated
  <2>2. Registered' = Registered /\ \A q : Chunk(q)' = Chunk(q) /\ TodoIDs(q)' = TodoIDs(q)
    BY DEF Registered, Chunk, TodoIDs
  <2>3. Calls' /\ Waited' /\ Contents' /\ Fated'
    BY <2>2 DEF Calls, Active, Waited, Contents, Fated
  <2>4. OutcomesTrue'
    BY <2>2 DEF OutcomesTrue, Outcome, Active, AddTrue, RemoveTrue, ReadTrue, WriteTrue
  <2>5. Valid'
    BY <2>2 DEF Valid, Agrees, Removing
  <2>6. Numbered' /\ Ordered'
    BY <2>2 DEF Numbered, ClientHandlesUnique, Unused, AddRequests, Ordered, RegistrationOrder
  <2>. QED
    BY <2>1, <2>3, <2>4, <2>5, <2>6
<1>2. ASSUME NEW p \in Callers, Step(p)
      PROVE  IInv'
  <2>1. CASE \E l \in Lists \ {<<>>} : AddItems(p, l) \/ RemoveItems(p, l) \/ ReadItems(p, l)
    BY <2>1, EnteringSteps
  <2>2. CASE \E l \in Lists \ {<<>>} : \E bad \in SUBSET DOMAIN l : Write(p, l, bad)
    BY <2>2, EnteringSteps
  <2>3. CASE \E l \in Lists \ {<<>>}, o \in Ops : Unhealthy(p, o, l)
    BY <2>3, UnhealthyStep
  <2>4. CASE \E l \in Lists : ReadGroup(p, l)
    BY <2>4, EnteringSteps
  <2>5. CASE Send(p)
    BY <2>5, SendStep
  <2>6. CASE Exhausted(p)
    BY <2>6, ExhaustedStep
  <2>7. CASE GiveUp(p)
    BY <2>7, GiveUpStep
  <2>8. CASE Return(p)
    BY <2>8, ReturnStep
  <2>9. CASE \E m \in network : \/ Added(p, m) \/ Removed(p, m) \/ Accessed(p, m)
                                \/ CallFailed(p, m)
    BY <2>9, AddedStep, RemovedStep, AccessedStep, CallFailedStep
  <2>. QED
    BY <1>2, <2>1, <2>2, <2>3, <2>4, <2>5, <2>6, <2>7, <2>8, <2>9 DEF Step
<1>3. CASE ServerStep
  BY <1>3, ServerFailsStep, ServerAddsStep, ServerServesStep DEF ServerStep
<1>. QED
  BY <1>1, <1>2, <1>3 DEF Next

\* The inductive invariant: outcomes are true at every moment of a call, and a message
\* and the tables of both sides agree.
THEOREM Invariant == Spec => []IInv
  BY InitialInvariant, InvariantStep, PTL DEF Spec

\* Every variable has its type.
THEOREM TypeCorrect == Spec => []TypeOK
<1>1. IInv => TypeOK
  BY DEF IInv
<1>. QED
  BY <1>1, Invariant, PTL

\* Unless a removal was left unconfirmed, a registered item has the handle and the client
\* handle that the server knows it by, for every reuse of handles.
THEOREM RegistrationsCorrect == Spec => []RegistrationsValid
<1>1. ASSUME IInv
      PROVE  RegistrationsValid
  <2>. USE <1>1 DEF IInv
  <2>. SUFFICES ASSUME ~doubt, NEW id \in Registered, Removing(id)
                PROVE  \E p \in Callers : \E i \in Chunk(p) :
                          pc[p] = "sent" /\ op[p] = "remove" /\ ids[p][i] = id
    BY DEF RegistrationsValid, Valid, Agrees
  <2>1. PICK m \in network : /\ m.type = "reply" /\ m.op = "remove" /\ m.by # NoOne
                             /\ \E i \in DOMAIN m.slots : m.slots[i].id = id
    BY DEF Removing
  <2>2. m.by \in Callers
    BY <2>1 DEF TypeOK, IsMessage
  <2>. QED
    BY <2>1, <2>2 DEF Waited
<1>. QED
  BY <1>1, Invariant, PTL

\* No client handle is ever given to two items that the server has, late requests included.
THEOREM ClientHandlesCorrect == Spec => []ClientHandlesUnique
<1>1. IInv => ClientHandlesUnique
  BY DEF IInv, Numbered
<1>. QED
  BY <1>1, Invariant, PTL

\* Group.Read reports in the order of registration.
THEOREM OrderCorrect == Spec => []RegistrationOrder
<1>1. IInv => RegistrationOrder
  BY DEF IInv, Ordered
<1>. QED
  BY <1>1, Invariant, PTL

\* A call that returns reports what it did.
LEMMA Returned ==
    ASSUME IInv, NEW p \in Callers, Returning(p), NEW i \in DOMAIN out[p]
    PROVE  /\ op[p] = "add" => AddTrue(p, i)
           /\ op[p] = "remove" => RemoveTrue(p, i)
           /\ op[p] = "read" => ReadTrue(p, i)
           /\ op[p] = "write" => WriteTrue(p, i)
<1>1. Outcome(p, i)
  BY DEF IInv, OutcomesTrue
<1>2. Active(p) => todo[p] = {} /\ TodoIDs(p) = {}
  BY DEF Returning, Active, TodoIDs
<1>. QED
  BY <1>1, <1>2 DEF Outcome

\* AddItems reports success for exactly the items that are registered.
THEOREM AddOutcomesCorrect == Spec => []AddOutcomesTrue
<1>1. IInv => AddOutcomesTrue
  BY Returned DEF AddOutcomesTrue, AddTrue
<1>. QED
  BY <1>1, Invariant, PTL

\* RemoveItems reports what is removed, and what is not.
THEOREM RemoveOutcomesCorrect == Spec => []RemoveOutcomesTrue
<1>1. IInv => RemoveOutcomesTrue
  BY Returned DEF RemoveOutcomesTrue, RemoveTrue
<1>. QED
  BY <1>1, Invariant, PTL

\* What is reported as read was read, of the item at its place.
THEOREM ReadOutcomesCorrect == Spec => []ReadOutcomesTrue
<1>1. IInv => ReadOutcomesTrue
  BY Returned DEF ReadOutcomesTrue, ReadTrue
<1>. QED
  BY <1>1, Invariant, PTL

\* Write tells executed, refused and unsent apart, for batches of every size.
THEOREM WriteOutcomesCorrect == Spec => []WriteOutcomesTrue
<1>1. IInv => WriteOutcomesTrue
  BY Returned DEF WriteOutcomesTrue, WriteTrue
<1>. QED
  BY <1>1, Invariant, PTL
=============================================================================
