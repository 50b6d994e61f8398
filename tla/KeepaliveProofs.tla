-------------------------- MODULE KeepaliveProofs --------------------------
(* Theorems about Keepalive, for every number of groups, objects and sets. *)
EXTENDS Keepalive, FiniteSetTheorems, TLAPS

-----------------------------------------------------------------------------
(* The inductive invariant *)

Busy == {"acquire", "held", "change"}

\* What a program counter says about the operation of its actor, and the gate.
Shape ==
    /\ \A g \in Groups :
          /\ pc[g] \in Busy \cup {"idle", "retained"}
          /\ pc[g] \in Busy => op[g] \in {"add", "delete"} /\ pc[Owner] = "live"
          /\ pc[g] = "idle" => op[g] = "none"
          /\ pc[g] = "retained" => op[g] = "add"
          /\ pc[g] = "retained" \/ op[g] = "delete" => oid[g] \in Oids
    /\ pc[Owner] \in Busy \cup {"bind", "started", "live", "join", "closed"}
    /\ pc[Owner] \in Busy => op[Owner] \in {"add", "clear"}
    /\ pc[Owner] \in {"bind", "started", "live", "join"} => op[Owner] \in {"none", "add"}
    /\ oid[Owner] = ServerOid
    /\ \A p \in Changers : pc[p] \in {"held", "change"} <=> gate = p
    /\ pc[Loop] = "ping" => gate = Loop
    /\ \A p \in Changers :
          pc[p] = "change" /\ op[p] = "add" =>
              ~err /\ oid[p] \in Oids /\ objects[oid[p]] = 0
    /\ \A p \in Changers :
          pc[p] = "change" /\ op[p] = "delete" => objects[oid[p]] = 1

\* An actor counts as a user of its object until its release has succeeded.
Uses(p) ==
    \/ Holds(p)
    \/ op[p] = "delete" /\ pc[p] = "change"

Users(o) == {p \in Changers : Uses(p) /\ oid[p] = o}

\* The pinger never counts fewer users than there are.  It may count more: a release
\* that failed has not been counted off.
Counted == \A o \in Oids : Cardinality(Users(o)) <= objects[o]

\* No request on its way deletes an object that somebody holds.
HeldUndeleted ==
    ~Clearing => \A p \in Changers : Holds(p) =>
        /\ set \in SetIDs /\ oid[p] \in remote[set]
        /\ \A m \in network : m.type = "ComplexPing" => oid[p] \notin m.delete

\* A message is that of the call in progress, about the client's set; or its call was
\* given up, an error is latched and the group has no object any more.
Messages ==
    \A m \in network : m.by \in Groups =>
        \/ /\ pc[m.by] = "change"
           /\ m.type = "ComplexPing" => m.setID = set
           /\ m.type = "Changed" => m.setID \in SetIDs /\ set \in {NoSet, m.setID}
        \/ err /\ ~Uses(m.by)

\* The exporter's sets as the client imagines them: its own one holds O.
Exact(s, O) == \A t \in SetIDs : remote[t] = IF t = s THEN O ELSE {}

\* A healthy pinger knows where it is: nothing is on its way but the message of the
\* call in progress.
Quiet ==
    (~err /\ \A p \in Changers : pc[p] # "change") =>
        /\ network = {} /\ seen = sequence
        /\ pc[Owner] # "closed" => Exact(set, Retained)
        /\ pc[Owner] = "closed" /\ ~closeErr => Exact(NoSet, {})

InCallOf(p) == \E m \in network :
    /\ network = {m} /\ m.by = p /\ m.sequence = sequence
    /\ m.add = ToAdd(p) /\ m.delete = ToDelete(p)
    /\ m.type = "ComplexPing" => m.setID = set /\ Exact(set, Retained)
    /\ m.type = "Changed" =>
          /\ m.setID \in SetIDs /\ set \in {NoSet, m.setID} /\ seen = sequence
          /\ Exact(m.setID, (Retained \cup m.add) \ m.delete)

InCall == ~err => \A p \in Changers : pc[p] = "change" => InCallOf(p)

\* A set that is known has been handed out, and without one nothing is retained.
SetKnown ==
    /\ set \in SetIDs => set \in allocated
    /\ set = NoSet => Retained = {}
    /\ pc[Owner] = "bind" => Retained = {}
    /\ \A m \in network : m.type = "Changed" => m.setID \in allocated

IInv == /\ TypeOK /\ Shape /\ Counted /\ HeldUndeleted /\ Messages
        /\ Quiet /\ InCall /\ SetKnown
-----------------------------------------------------------------------------
(* Counting users *)

LEMMA FiniteUsers ==
    ASSUME NEW o
    PROVE  IsFiniteSet(Users(o)) /\ Cardinality(Users(o)) \in Nat
<1>1. IsFiniteSet(Changers)
  BY KeepaliveAssumption, FS_AddElement DEF Changers
<1>2. Users(o) \in SUBSET Changers
  BY DEF Users
<1>. QED
  BY <1>1, <1>2, FS_Subset, FS_CardinalityType

\* A count of one means one user.
LEMMA SoleUser ==
    ASSUME NEW o, NEW p, NEW q, p \in Users(o), q \in Users(o),
           Cardinality(Users(o)) <= 1
    PROVE  q = p
<1>1. IsFiniteSet(Users(o)) /\ IsFiniteSet(Users(o) \ {p})
  BY FiniteUsers, FS_RemoveElement
<1>2. Cardinality(Users(o) \ {p}) = Cardinality(Users(o)) - 1
  BY <1>1, FS_RemoveElement
<1>3. Cardinality(Users(o) \ {p}) \in Nat /\ Cardinality(Users(o)) \in Nat
  BY <1>1, FS_CardinalityType
<1>4. Users(o) \ {p} = {}
  BY <1>1, <1>2, <1>3, FS_EmptySet
<1>. QED
  BY <1>4

\* A count of zero means no user.
LEMMA NoUser ==
    ASSUME NEW o, Cardinality(Users(o)) <= 0
    PROVE  Users(o) = {}
  BY FiniteUsers, FS_EmptySet

\* Steps that add no user and count nobody off keep the count.
LEMMA CountKept ==
    ASSUME TypeOK, TypeOK', Counted,
           \A o \in Oids : Users(o)' \subseteq Users(o) /\ objects'[o] >= objects[o]
    PROVE  Counted'
<1>. SUFFICES ASSUME NEW o \in Oids
              PROVE  Cardinality(Users(o)') <= objects'[o]
  BY DEF Counted
<1>1. Cardinality(Users(o)') <= Cardinality(Users(o)) /\ Cardinality(Users(o)') \in Nat
  BY FiniteUsers, FS_Subset, FS_CardinalityType
<1>2. Cardinality(Users(o)) <= objects[o] /\ Cardinality(Users(o)) \in Nat
  BY FiniteUsers DEF Counted
<1>. QED
  BY <1>1, <1>2 DEF TypeOK

\* One user more is counted once.
LEMMA CountUp ==
    ASSUME TypeOK, TypeOK', Counted, NEW p, NEW x \in Oids,
           \A o \in Oids \ {x} :
               Users(o)' \subseteq Users(o) /\ objects'[o] >= objects[o],
           Users(x)' \subseteq Users(x) \cup {p},
           objects'[x] = objects[x] + 1
    PROVE  Counted'
<1>. SUFFICES ASSUME NEW o \in Oids
              PROVE  Cardinality(Users(o)') <= objects'[o]
  BY DEF Counted
<1>0. IsFiniteSet(Users(o)) /\ IsFiniteSet(Users(o) \cup {p})
  BY FiniteUsers, FS_AddElement
<1>1. Cardinality(Users(o)) <= objects[o] /\ Cardinality(Users(o)) \in Nat
  BY FiniteUsers DEF Counted
<1>2. CASE o # x
  <2>1. Cardinality(Users(o)') <= Cardinality(Users(o)) /\ Cardinality(Users(o)') \in Nat
    BY <1>0, <1>2, FS_Subset, FS_CardinalityType
  <2>. QED
    BY <1>1, <1>2, <2>1 DEF TypeOK
<1>3. CASE o = x
  <2>1. Cardinality(Users(o)') <= Cardinality(Users(o) \cup {p})
        /\ Cardinality(Users(o)') \in Nat
    BY <1>0, <1>3, FS_Subset, FS_CardinalityType
  <2>2. /\ Cardinality(Users(o) \cup {p}) <= Cardinality(Users(o)) + 1
        /\ Cardinality(Users(o) \cup {p}) \in Nat
    <3>1. Cardinality(Users(o) \cup {p}) =
             IF p \in Users(o) THEN Cardinality(Users(o)) ELSE Cardinality(Users(o)) + 1
      BY <1>0, FS_AddElement
    <3>. QED
      BY <3>1, <1>1
  <2>. QED
    BY <1>1, <1>3, <2>1, <2>2 DEF TypeOK
<1>. QED
  BY <1>2, <1>3

\* One user less is counted off once.
LEMMA CountDown ==
    ASSUME TypeOK, TypeOK', Counted, NEW p, NEW x \in Oids,
           p \in Users(x),
           \A o \in Oids \ {x} :
               Users(o)' \subseteq Users(o) /\ objects'[o] >= objects[o],
           Users(x)' \subseteq Users(x) \ {p},
           objects'[x] = objects[x] - 1
    PROVE  Counted'
<1>. SUFFICES ASSUME NEW o \in Oids
              PROVE  Cardinality(Users(o)') <= objects'[o]
  BY DEF Counted
<1>0. IsFiniteSet(Users(o)) /\ IsFiniteSet(Users(o) \ {p})
  BY FiniteUsers, FS_RemoveElement
<1>1. Cardinality(Users(o)) <= objects[o] /\ Cardinality(Users(o)) \in Nat
  BY FiniteUsers DEF Counted
<1>2. CASE o # x
  <2>1. Cardinality(Users(o)') <= Cardinality(Users(o)) /\ Cardinality(Users(o)') \in Nat
    BY <1>0, <1>2, FS_Subset, FS_CardinalityType
  <2>. QED
    BY <1>1, <1>2, <2>1 DEF TypeOK
<1>3. CASE o = x
  <2>1. Cardinality(Users(o)') <= Cardinality(Users(o) \ {p})
        /\ Cardinality(Users(o)') \in Nat
    BY <1>0, <1>3, FS_Subset, FS_CardinalityType
  <2>2. Cardinality(Users(o) \ {p}) = Cardinality(Users(o)) - 1
        /\ Cardinality(Users(o) \ {p}) \in Nat
    BY <1>0, <1>3, FS_RemoveElement, FS_CardinalityType
  <2>. QED
    BY <1>1, <1>3, <2>1, <2>2 DEF TypeOK
<1>. QED
  BY <1>2, <1>3
-----------------------------------------------------------------------------
(* The invariant holds at first and is preserved *)

LEMMA InitialInvariant == Init => IInv
<1>. SUFFICES ASSUME Init PROVE IInv
  OBVIOUS
<1>. USE KeepaliveAssumption
<1>1. TypeOK
  <2>1. pc \in [Actors -> PCs] /\ oid \in [Changers -> Oids \cup {NoOid}]
    BY DEF Init, Changers, Actors, PCs
  <2>2. sequence \in 0..(SequenceWidth - 1) /\ seen \in 0..(SequenceWidth - 1)
    BY DEF Init
  <2>. QED
    BY <2>1, <2>2 DEF Init, TypeOK
<1>2. Shape
  BY DEF Init, Shape, NoSet, Changers, Actors, PCs, Busy
<1>3. Counted
  <2>1. \A o \in Oids : Users(o) = {} /\ objects[o] = 0
    BY DEF Init, Users, Uses, Holds, Changers, Actors
  <2>. QED
    BY <2>1, FS_EmptySet DEF Counted
<1>4. HeldUndeleted /\ Messages
  BY DEF Init, HeldUndeleted, Messages, Holds, Changers, Actors
<1>5. Quiet /\ InCall /\ SetKnown
  BY DEF Init, Quiet, InCall, SetKnown, Exact, Retained, Changers, Actors, NoSet
<1>. QED
  BY <1>1, <1>2, <1>3, <1>4, <1>5 DEF IInv

\* What a step must leave alone for the parts about the exporter to survive it.
StillInStep ==
    /\ UNCHANGED <<set, sequence, remote, allocated, seen, network>>
    /\ err => err'
    /\ Retained' = Retained
    /\ \A p \in Changers : pc'[p] = "change" <=> pc[p] = "change"
    /\ \A p \in Changers : pc[p] = "change" => op'[p] = op[p] /\ oid'[p] = oid[p]
    /\ \A p \in Changers : Uses(p)' => Uses(p) \/ network = {}
    /\ \A p \in Changers : Holds(p)' =>
          /\ oid'[p] = oid[p]
          /\ \/ Holds(p)
             \/ network = {} /\ set \in SetIDs /\ oid[p] \in remote[set]
    /\ Clearing => Clearing'
    /\ pc'[Owner] = "bind" => pc[Owner] = "bind"
    /\ pc[Owner] = "closed" => pc'[Owner] = "closed" /\ closeErr' = closeErr
    /\ pc'[Owner] = "closed" =>
          pc[Owner] = "closed" \/ closeErr' \/ Retained = {}

\* Steps that bring no user and change no count.
NobodyNew ==
    /\ UNCHANGED objects
    /\ \A p \in Changers : Uses(p)' => Uses(p) /\ oid'[p] = oid[p]

LEMMA NobodyNewKeepsCount ==
    ASSUME IInv, TypeOK', NobodyNew
    PROVE  Counted'
<1>0. TypeOK /\ Counted
  BY DEF IInv
<1>1. \A o \in Oids : Users(o)' \subseteq Users(o) /\ objects'[o] >= objects[o]
  BY <1>0 DEF Users, TypeOK, NobodyNew
<1>. QED
  BY <1>0, <1>1, CountKept

LEMMA InStepKept ==
    ASSUME IInv, StillInStep
    PROVE  HeldUndeleted' /\ Messages' /\ Quiet' /\ InCall' /\ SetKnown'
<1>0. /\ TypeOK /\ Counted /\ HeldUndeleted /\ Messages /\ Quiet /\ InCall /\ SetKnown
  BY DEF IInv
<1>2. HeldUndeleted' /\ Messages'
  <2>1. HeldUndeleted'
    BY <1>0 DEF HeldUndeleted, StillInStep
  <2>2. \A m \in network : m.by \in Groups => m.by \in Changers
    BY DEF Changers
  <2>3. Messages'
    BY <1>0, <2>2 DEF Messages, StillInStep
  <2>. QED
    BY <2>1, <2>3
<1>3. \A s, O : Exact(s, O)' <=> Exact(s, O)
  BY DEF Exact, StillInStep
<1>4. Quiet'
  <2>1. Retained = {} /\ Exact(set, Retained) => Exact(NoSet, {})
    BY KeepaliveAssumption DEF Exact, NoSet
  <2>. QED
    BY <1>0, <1>3, <2>1 DEF Quiet, StillInStep
<1>5. InCall'
  <2>. SUFFICES ASSUME ~err', NEW p \in Changers, pc'[p] = "change"
                PROVE  InCallOf(p)'
    BY DEF InCall
  <2>1. ToAdd(p)' = ToAdd(p) /\ ToDelete(p)' = ToDelete(p) /\ InCallOf(p)
    BY <1>0, <1>3 DEF ToAdd, ToDelete, StillInStep, InCall
  <2>. QED
    BY <1>3, <2>1 DEF InCallOf, StillInStep
<1>6. SetKnown'
  BY <1>0, <1>3 DEF SetKnown, StillInStep
<1>. QED
  BY <1>2, <1>4, <1>5, <1>6

\* What most steps leave alone: everything but where the actors are.
Calm ==
    /\ UNCHANGED <<set, sequence, objects, remote, allocated, seen, network>>
    /\ err => err'
    /\ \A p \in Changers : pc'[p] = "change" <=> pc[p] = "change"
    /\ \A p \in Changers : pc[p] = "change" => op'[p] = op[p] /\ oid'[p] = oid[p]
    /\ \A p \in Changers : Uses(p)' => Uses(p) /\ oid'[p] = oid[p]
    /\ \A p \in Changers : Holds(p)' => Holds(p)
    /\ Clearing => Clearing'
    /\ pc'[Owner] = "bind" => pc[Owner] = "bind"
    /\ pc[Owner] = "closed" => pc'[Owner] = "closed" /\ closeErr' = closeErr
    /\ pc'[Owner] = "closed" =>
          pc[Owner] = "closed" \/ closeErr' \/ Retained = {}

LEMMA CalmSteps ==
    ASSUME IInv, TypeOK', Shape', Calm
    PROVE  IInv'
<1>1. NobodyNew
  BY DEF Calm, NobodyNew
<1>2. Retained' = Retained
  BY DEF Calm, Retained
<1>3. \A p \in Changers : Holds(p)' => Holds(p) /\ oid'[p] = oid[p]
  BY DEF Calm, Uses
<1>4. \A p \in Changers : Uses(p)' => Uses(p)
  BY DEF Calm
<1>5. StillInStep
  <2>. HIDE DEF Uses, Holds, Clearing, Retained
  <2>. QED
    BY <1>2, <1>3, <1>4 DEF Calm, StillInStep
<1>. QED
  BY <1>1, <1>5, InStepKept, NobodyNewKeepsCount DEF IInv

\* Steps that touch neither the set, nor the counts, nor the network.
LEMMA ControlSteps ==
    ASSUME IInv,
           \/ Bind \/ Publish \/ Stop \/ Join
           \/ \E g \in Groups, o \in Oids \cup {NoOid} : Retain(g, o)
           \/ \E g \in Groups : Release(g)
           \/ \E p \in Changers : Cancel(p)
    PROVE  IInv'
<1>. USE KeepaliveAssumption DEF Changers, Actors
<1>0. TypeOK /\ Shape /\ SetKnown
  BY DEF IInv
<1>1. TypeOK' /\ Shape' /\ Calm
  <2>. USE <1>0 DEF TypeOK, Shape, Busy, PCs, pingerVars, serverVars,
       Calm, Uses, Holds, Clearing, Published
  <2>1. CASE Bind
    <3>1. PICK next \in {"closed", "started", "acquire"}, o \in {"none", "add", "clear"} :
            /\ next = "closed" \/ next = "started" => o = "none"
            /\ next = "acquire" => o # "none"
            /\ pc' = [pc EXCEPT ![Owner] = next]
            /\ op' = [op EXCEPT ![Owner] = o]
            /\ conn' = IF next = "closed" THEN "none" ELSE "open"
      BY <2>1 DEF Bind
    <3>2. TypeOK'
      BY <2>1, <3>1 DEF Bind
    <3>3. Shape'
      BY <2>1, <3>1 DEF Bind
    <3>4. Calm
      BY <2>1, <3>1 DEF Bind, SetKnown
    <3>. QED
      BY <3>2, <3>3, <3>4
  <2>2. CASE Publish
    BY <2>2 DEF Publish
  <2>3. CASE Stop
    BY <2>3 DEF Stop
  <2>4. CASE Join
    BY <2>4 DEF Join
  <2>5. ASSUME NEW g \in Groups, NEW o \in Oids \cup {NoOid}, Retain(g, o)
        PROVE  TypeOK' /\ Shape' /\ Calm
    BY <2>5 DEF Retain
  <2>6. ASSUME NEW g \in Groups, Release(g)
        PROVE  TypeOK' /\ Shape' /\ Calm
    BY <2>6 DEF Release
  <2>7. ASSUME NEW p \in Changers, Cancel(p)
        PROVE  TypeOK' /\ Shape' /\ Calm
    BY <2>7 DEF Cancel
  <2>. QED
    BY <2>1, <2>2, <2>3, <2>4, <2>5, <2>6, <2>7
<1>. QED
  BY <1>1, CalmSteps

\* The goroutine: at most it latches an error.
LEMMA LoopSteps ==
    ASSUME IInv, Tick \/ LoopStep \/ LoopExit
    PROVE  IInv'
<1>. USE KeepaliveAssumption DEF Changers, Actors
<1>0. TypeOK /\ Shape
  BY DEF IInv
<1>1. /\ \A p \in Changers : pc'[p] = pc[p]
      /\ pc' \in [Actors -> PCs]
      /\ UNCHANGED <<set, sequence, objects, conn, op, oid, canceled, closeErr,
                     remote, allocated, seen, network>>
      /\ \/ gate' = gate /\ (pc'[Loop] = "ping" => pc[Loop] = "ping")
         \/ gate = NoOne /\ gate' = Loop
         \/ gate = Loop /\ gate' = NoOne /\ pc'[Loop] = "idle"
      /\ err' \in BOOLEAN /\ (err => err') /\ (err' => err \/ gate = Loop)
  <2>. USE <1>0 DEF TypeOK, Shape, PCs, LoopGoes, serverVars
  <2>1. CASE Tick
    BY <2>1 DEF Tick
  <2>2. CASE LoopAcquire
    BY <2>2 DEF LoopAcquire
  <2>3. CASE LoopGivesUp
    BY <2>3 DEF LoopGivesUp
  <2>4. ASSUME NEW failed \in BOOLEAN, Pinged(failed)
        PROVE  <1>1!:
    BY <2>4 DEF Pinged
  <2>5. CASE LoopExit
    BY <2>5 DEF LoopExit
  <2>. QED
    BY <2>1, <2>2, <2>3, <2>4, <2>5 DEF LoopStep
<1>2. TypeOK'
  BY <1>0, <1>1 DEF TypeOK
<1>3. Shape'
  BY <1>0, <1>1 DEF TypeOK, Shape, Busy
<1>4. Calm
  BY <1>0, <1>1 DEF TypeOK, Shape, Busy, Calm, Uses, Holds, Clearing
<1>. QED
  BY <1>2, <1>3, <1>4, CalmSteps

\* Waiting for the gate, and the returns that change nothing.
LEMMA WaitingSteps ==
    ASSUME IInv, NEW p \in Changers,
           \/ Acquire(p) \/ AcquireFailed(p) \/ Refuse(p)
           \/ NothingToDelete(p) \/ ChangeCanceled(p)
    PROVE  IInv'
<1>. USE KeepaliveAssumption DEF Changers, Actors
<1>0. TypeOK /\ Shape
  BY DEF IInv
<1>1. CASE Acquire(p)
  <2>1. TypeOK' /\ Shape' /\ Calm
    BY <1>0, <1>1 DEF Acquire, TypeOK, Shape, Busy, PCs, serverVars,
       Calm, Uses, Holds, Clearing
  <2>. QED
    BY <2>1, CalmSteps
<1>2. ASSUME NEW ok \in BOOLEAN, Return(p, ok), pc[p] \in {"acquire", "held"},
             UNCHANGED <<set, sequence, objects, err, serverVars>>,
             ok => op[p] # "add" /\ (op[p] = "clear" => Retained = {})
      PROVE  IInv'
  <2>1. /\ After(p, ok) \in {"closed", "acquire", "idle"}
        /\ p = Owner => After(p, ok) \in {"closed", "acquire"}
        /\ p # Owner => After(p, ok) = "idle"
        /\ After(p, ok) = "acquire" => op[p] = "add" /\ ~ok
        /\ After(p, ok) = "closed" => op[p] = "clear"
    BY <1>0, <1>2 DEF After, TypeOK, Shape, Busy
  <2>. HIDE DEF After
  <2>. USE <1>0, <1>2, <2>1 DEF Return, TypeOK, Shape, Busy, PCs, serverVars
  <2>2. TypeOK'
    OBVIOUS
  <2>3. Shape'
    OBVIOUS
  <2>4. Calm
    BY DEF Calm, Uses, Holds, Clearing
  <2>. QED
    BY <2>2, <2>3, <2>4, CalmSteps
<1>3. CASE AcquireFailed(p)
  BY <1>2, <1>3 DEF AcquireFailed
<1>4. CASE Refuse(p)
  BY <1>2, <1>4 DEF Refuse
<1>5. CASE NothingToDelete(p)
  BY <1>2, <1>5 DEF NothingToDelete
<1>6. CASE ChangeCanceled(p)
  BY <1>2, <1>6 DEF ChangeCanceled
<1>. QED
  BY <1>1, <1>3, <1>4, <1>5, <1>6

\* Whoever holds the gate is alone, and on a healthy pinger knows everything.
LEMMA AloneAtTheGate ==
    ASSUME IInv, NEW p \in Changers, pc[p] = "held"
    PROVE  /\ gate = p /\ pc[Owner] # "closed"
           /\ \A q \in Changers : pc[q] # "change" /\ (pc[q] = "held" => q = p)
           /\ ~err => network = {} /\ seen = sequence /\ Exact(set, Retained)
           /\ ~err /\ Retained # {} =>
                 set \in SetIDs /\ \A o \in Retained : o \in remote[set]
<1>0. TypeOK /\ Shape /\ Quiet /\ SetKnown
  BY DEF IInv
<1>1. gate = p /\ pc[Owner] # "closed"
  BY <1>0, KeepaliveAssumption DEF Shape, Busy, Changers
<1>2. \A q \in Changers : pc[q] # "change" /\ (pc[q] = "held" => q = p)
  BY <1>0, <1>1 DEF Shape
<1>3. ~err => network = {} /\ seen = sequence /\ Exact(set, Retained)
  BY <1>0, <1>1, <1>2 DEF Quiet
<1>4. Retained # {} => set \in SetIDs
  BY <1>0 DEF SetKnown, TypeOK
<1>. QED
  BY <1>1, <1>2, <1>3, <1>4 DEF Exact

LEMMA ShareStep ==
    ASSUME IInv, NEW p \in Changers, Share(p)
    PROVE  IInv'
<1>. USE KeepaliveAssumption
<1>0. TypeOK /\ Shape /\ Counted
  BY DEF IInv
<1>1. /\ pc[p] = "held" /\ op[p] = "add" /\ ~err /\ oid[p] \in Oids
      /\ objects' = [objects EXCEPT ![oid[p]] = @ + 1] /\ objects[oid[p]] > 0
      /\ UNCHANGED <<set, sequence, err, remote, allocated, seen, network>>
      /\ pc' = [pc EXCEPT ![p] = IF p = Owner THEN "started" ELSE "retained"]
      /\ gate' = IF gate = p THEN NoOne ELSE gate
      /\ canceled' = canceled \ {p}
      /\ UNCHANGED <<op, oid, conn, closeErr>>
  BY <1>0 DEF Share, Return, After, serverVars, TypeOK, Changers
<1>2. /\ gate = p /\ \A q \in Changers : pc[q] # "change"
      /\ network = {} /\ set \in SetIDs /\ oid[p] \in remote[set]
  BY <1>1, AloneAtTheGate DEF Retained
<1>3. TypeOK'
  BY <1>0, <1>1 DEF TypeOK, Changers, Actors, PCs
<1>4. Shape'
  BY <1>0, <1>1, <1>2 DEF TypeOK, Shape, Busy, Changers, Actors
<1>5. Retained' = Retained
  BY <1>0, <1>1 DEF Retained, TypeOK
<1>6. \A q \in Changers \ {p} : (Uses(q)' <=> Uses(q)) /\ (Holds(q)' <=> Holds(q))
  BY <1>0, <1>1 DEF Uses, Holds, TypeOK, Changers, Actors
<1>7. StillInStep
  <2>1. \A q \in Changers : pc'[q] # "change"
    BY <1>0, <1>1, <1>2 DEF TypeOK, Changers, Actors
  <2>2. Clearing => Clearing'
    BY <1>0, <1>1, AloneAtTheGate DEF Clearing, TypeOK, Changers, Actors
  <2>3. pc'[Owner] # "bind" /\ (pc'[Owner] = "closed" <=> pc[Owner] = "closed")
    BY <1>0, <1>1, AloneAtTheGate DEF TypeOK, Shape, Busy, Changers, Actors
  <2>. QED
    BY <1>1, <1>2, <1>5, <1>6, <2>1, <2>2, <2>3 DEF StillInStep
<1>8. Counted'
  <2>1. \A o \in Oids \ {oid[p]} : Users(o)' \subseteq Users(o) /\ objects'[o] >= objects[o]
    BY <1>0, <1>1, <1>6 DEF Users, TypeOK
  <2>2. \A x \in Oids : x = oid[p] => Users(x)' \subseteq Users(x) \cup {p}
    BY <1>1, <1>6 DEF Users
  <2>3. objects'[oid[p]] = objects[oid[p]] + 1
    BY <1>0, <1>1 DEF TypeOK
  <2>. QED
    BY <1>0, <1>1, <1>3, <2>1, <2>2, <2>3, CountUp
<1>. QED
  BY <1>3, <1>4, <1>7, <1>8, InStepKept DEF IInv

LEMMA UnshareStep ==
    ASSUME IInv, NEW p \in Changers, Unshare(p)
    PROVE  IInv'
<1>. USE KeepaliveAssumption
<1>0. TypeOK /\ Shape /\ Counted
  BY DEF IInv
<1>1. /\ pc[p] = "held" /\ op[p] = "delete" /\ p \in Groups /\ oid[p] \in Oids
      /\ objects' = [objects EXCEPT ![oid[p]] = @ - 1] /\ objects[oid[p]] > 1
      /\ UNCHANGED <<set, sequence, err, remote, allocated, seen, network>>
      /\ pc' = [pc EXCEPT ![p] = "idle"]
      /\ op' = [op EXCEPT ![p] = "none"] /\ oid' = [oid EXCEPT ![p] = NoOid]
      /\ gate' = IF gate = p THEN NoOne ELSE gate
      /\ canceled' = canceled \ {p}
      /\ UNCHANGED <<conn, closeErr>>
  BY <1>0 DEF Unshare, Return, After, serverVars, TypeOK, Shape, Busy, Changers
<1>2. gate = p /\ \A q \in Changers : pc[q] # "change"
  BY <1>1, AloneAtTheGate
<1>3. TypeOK'
  BY <1>0, <1>1 DEF TypeOK, Changers, Actors, PCs
<1>4. Shape'
  BY <1>0, <1>1, <1>2 DEF TypeOK, Shape, Busy, Changers, Actors
<1>5. Retained' = Retained
  BY <1>0, <1>1 DEF Retained, TypeOK
<1>6. /\ \A q \in Changers \ {p} : (Uses(q)' <=> Uses(q)) /\ (Holds(q)' <=> Holds(q))
      /\ \A q \in Changers \ {p} : oid'[q] = oid[q]
      /\ ~Uses(p)' /\ ~Holds(p)' /\ Uses(p)
  BY <1>0, <1>1 DEF Uses, Holds, TypeOK, Changers, Actors
<1>7. StillInStep
  <2>1. \A q \in Changers : pc'[q] # "change"
    BY <1>0, <1>1, <1>2 DEF TypeOK, Changers, Actors
  <2>2. Clearing => Clearing'
    BY <1>0, <1>1, AloneAtTheGate DEF Clearing, TypeOK, Changers, Actors
  <2>3. pc'[Owner] = pc[Owner]
    BY <1>0, <1>1 DEF TypeOK, Changers, Actors
  <2>. QED
    BY <1>1, <1>2, <1>5, <1>6, <2>1, <2>2, <2>3 DEF StillInStep
<1>8. Counted'
  <2>1. \A o \in Oids \ {oid[p]} : Users(o)' \subseteq Users(o) /\ objects'[o] >= objects[o]
    BY <1>0, <1>1, <1>6 DEF Users, TypeOK
  <2>2. \A x \in Oids : x = oid[p] => Users(x)' \subseteq Users(x) \ {p} /\ p \in Users(x)
    BY <1>1, <1>6 DEF Users
  <2>3. objects'[oid[p]] = objects[oid[p]] - 1
    BY <1>0, <1>1 DEF TypeOK
  <2>. QED
    BY <1>0, <1>1, <1>3, <2>1, <2>2, <2>3, CountDown
<1>. QED
  BY <1>3, <1>4, <1>7, <1>8, InStepKept DEF IInv

\* The dispatch: what is deleted had no user but the one that gives it up.
LEMMA ChangeStep ==
    ASSUME IInv, NEW p \in Changers, Change(p)
    PROVE  IInv'
<1>. USE KeepaliveAssumption
<1>0. TypeOK /\ Shape /\ Counted /\ HeldUndeleted /\ Messages /\ SetKnown
  BY DEF IInv
<1>. DEFINE m == [type |-> "ComplexPing", by |-> p, setID |-> set,
                  sequence |-> sequence', add |-> ToAdd(p), delete |-> ToDelete(p)]
<1>1. /\ pc[p] = "held" /\ NeedsChange(p)
      /\ sequence' = (sequence + 1) % SequenceWidth
      /\ network' = network \cup {m}
      /\ pc' = [pc EXCEPT ![p] = "change"]
      /\ UNCHANGED <<gate, set, objects, err, conn, op, oid, canceled, closeErr,
                     remote, allocated, seen>>
  BY DEF Change
<1>2. /\ gate = p /\ pc[Owner] # "closed"
      /\ \A q \in Changers : pc[q] # "change"
      /\ ~err => network = {} /\ Exact(set, Retained)
  BY <1>1, AloneAtTheGate
<1>3. /\ op[p] \in {"add", "delete", "clear"}
      /\ op[p] = "add" => oid[p] \in Oids /\ ~err /\ objects[oid[p]] = 0
      /\ op[p] = "delete" => p \in Groups /\ oid[p] \in Oids /\ objects[oid[p]] = 1
      /\ op[p] = "clear" => p = Owner
  BY <1>0, <1>1 DEF Shape, Busy, NeedsChange, Changers
<1>4. /\ m.type = "ComplexPing" /\ m.by = p /\ m.setID = set /\ m.sequence = sequence'
      /\ m.add = ToAdd(p) /\ m.delete = ToDelete(p)
      /\ ToAdd(p) \subseteq Oids /\ ToDelete(p) \subseteq Oids
  BY <1>3 DEF ToAdd, ToDelete, Retained
<1>5. sequence' \in 0..(SequenceWidth - 1)
  BY <1>0, <1>1 DEF TypeOK
<1>6. m \in Message
  BY <1>0, <1>4, <1>5 DEF Message, TypeOK
<1>. HIDE DEF m
<1>7. TypeOK'
  BY <1>0, <1>1, <1>5, <1>6 DEF TypeOK, Changers, Actors, PCs
<1>8. Shape'
  BY <1>0, <1>1, <1>2, <1>3 DEF TypeOK, Shape, Busy, Changers, Actors
<1>9. /\ \A q \in Changers : Uses(q)' => Uses(q)
      /\ \A q \in Changers \ {p} : Holds(q)' => Holds(q)
      /\ ~Holds(p)' /\ (op[p] = "delete" => Uses(p))
      /\ Clearing => Clearing'
  BY <1>0, <1>1, <1>3 DEF Uses, Holds, Clearing, TypeOK, Changers, Actors
<1>10. NobodyNew
  BY <1>1, <1>9 DEF NobodyNew
<1>11. HeldUndeleted'
  <2>. SUFFICES ASSUME ~Clearing', NEW q \in Changers, Holds(q)'
                PROVE  /\ set' \in SetIDs /\ oid'[q] \in remote'[set']
                       /\ \A n \in network' :
                             n.type = "ComplexPing" => oid'[q] \notin n.delete
    BY DEF HeldUndeleted
  <2>1. q # p /\ Holds(q)
    BY <1>9
  <2>2. /\ set \in SetIDs /\ oid[q] \in remote[set]
        /\ \A n \in network : n.type = "ComplexPing" => oid[q] \notin n.delete
    BY <1>0, <1>9, <2>1 DEF HeldUndeleted
  <2>3. oid[q] \notin m.delete
    <3>1. CASE op[p] = "add"
      BY <1>4, <3>1 DEF ToDelete
    <3>2. CASE op[p] = "delete"
      <4>. SUFFICES ASSUME oid[q] = oid[p] PROVE FALSE
        BY <1>4, <3>2 DEF ToDelete
      <4>1. p \in Users(oid[p]) /\ q \in Users(oid[p])
        BY <1>9, <2>1, <3>2 DEF Users, Uses
      <4>2. Cardinality(Users(oid[p])) <= 1
        BY <1>0, <1>3, <3>2 DEF Counted
      <4>. QED
        BY <2>1, <4>1, <4>2, SoleUser
    <3>3. CASE op[p] = "clear"
      BY <1>0, <1>1, <1>3, <3>3 DEF Clearing, TypeOK, Changers, Actors
    <3>. QED
      BY <1>3, <3>1, <3>2, <3>3
  <2>. QED
    BY <1>1, <2>2, <2>3
<1>12. Messages'
  <2>1. \A n \in network : n.by \in Groups => err /\ ~Uses(n.by) /\ n.by \in Changers
    BY <1>0, <1>2 DEF Messages, Changers
  <2>2. m.by \in Groups => pc'[m.by] = "change"
    BY <1>0, <1>1, <1>4 DEF TypeOK, Changers, Actors
  <2>. QED
    BY <1>1, <1>4, <1>9, <2>1, <2>2 DEF Messages
<1>13. Quiet'
  BY <1>0, <1>1 DEF Quiet, TypeOK, Changers, Actors
<1>14. InCall'
  <2>. SUFFICES ASSUME ~err', NEW q \in Changers, pc'[q] = "change"
                PROVE  InCallOf(q)'
    BY DEF InCall
  <2>1. q = p
    BY <1>0, <1>1, <1>2 DEF TypeOK, Changers, Actors
  <2>2. network' = {m} /\ Exact(set, Retained)
    BY <1>1, <1>2
  <2>3. ToAdd(p)' = ToAdd(p) /\ ToDelete(p)' = ToDelete(p)
    BY <1>1 DEF ToAdd, ToDelete, Retained
  <2>4. Exact(set, Retained)'
    BY <1>1, <2>2 DEF Exact, Retained
  <2>. QED
    BY <1>1, <1>4, <2>1, <2>2, <2>3, <2>4 DEF InCallOf
<1>15. SetKnown'
  BY <1>0, <1>1, <1>4 DEF SetKnown, Retained, TypeOK, Changers, Actors
<1>. QED
  BY <1>7, <1>8, <1>10, <1>11, <1>12, <1>13, <1>14, <1>15, NobodyNewKeepsCount DEF IInv

\* A call given up leaves an error, and its actor without the object.
LEMMA ChangeFailedStep ==
    ASSUME IInv, NEW p \in Changers, ChangeFailed(p)
    PROVE  IInv'
<1>. USE KeepaliveAssumption
<1>0. TypeOK /\ Shape /\ Counted /\ HeldUndeleted /\ Messages /\ SetKnown
  BY DEF IInv
<1>1. /\ pc[p] = "change" /\ network' \subseteq network /\ err' = TRUE
      /\ UNCHANGED <<set, sequence, objects, remote, allocated, seen>>
      /\ Return(p, FALSE)
  BY DEF ChangeFailed
<1>2. gate = p /\ \A q \in Changers : pc[q] = "change" => q = p
  BY <1>0, <1>1 DEF Shape
<1>3. /\ After(p, FALSE) \in {"closed", "acquire", "idle"}
      /\ p = Owner => After(p, FALSE) \in {"closed", "acquire"}
      /\ p # Owner => After(p, FALSE) = "idle"
      /\ After(p, FALSE) = "acquire" => op[p] = "add"
      /\ After(p, FALSE) = "closed" <=> op[p] = "clear"
  BY <1>0, <1>1 DEF After, TypeOK, Shape, Busy, Changers
<1>4. /\ pc' = [pc EXCEPT ![p] = After(p, FALSE)]
      /\ op' = [op EXCEPT ![p] = IF p = Owner THEN "clear" ELSE "none"]
      /\ oid' = IF p = Owner THEN oid ELSE [oid EXCEPT ![p] = NoOid]
      /\ gate' = NoOne /\ canceled' = canceled \ {p}
      /\ conn' \in {"closed", conn} /\ closeErr' \in BOOLEAN
  BY <1>0, <1>1, <1>2, <1>3 DEF Return, TypeOK
<1>5. TypeOK'
  BY <1>0, <1>1, <1>3, <1>4 DEF TypeOK, Changers, Actors, PCs
<1>6. Shape'
  BY <1>0, <1>1, <1>2, <1>3, <1>4 DEF TypeOK, Shape, Busy, Changers, Actors
<1>7. /\ \A q \in Changers \ {p} : (Uses(q)' => Uses(q)) /\ (Holds(q)' => Holds(q))
      /\ \A q \in Changers \ {p} : oid'[q] = oid[q] /\ pc'[q] # "change"
      /\ ~Uses(p)' /\ ~Holds(p)' /\ pc'[p] # "change"
      /\ Clearing => Clearing'
  BY <1>0, <1>1, <1>2, <1>3, <1>4 DEF Uses, Holds, Clearing, TypeOK, Shape, Changers, Actors
<1>8. NobodyNew
  BY <1>1, <1>7 DEF NobodyNew
<1>9. HeldUndeleted'
  BY <1>0, <1>1, <1>7 DEF HeldUndeleted
<1>10. Messages'
  <2>1. \A m \in network' : m.by \in Groups => m.by \in Changers
    BY DEF Changers
  <2>2. \A m \in network' : m.by \in Groups => ~Uses(m.by)'
    BY <1>0, <1>1, <1>2, <1>7, <2>1 DEF Messages
  <2>. QED
    BY <1>1, <2>2 DEF Messages
<1>11. Quiet' /\ InCall'
  BY <1>1 DEF Quiet, InCall
<1>12. SetKnown'
  BY <1>0, <1>1, <1>3, <1>4 DEF SetKnown, Retained, TypeOK, Changers, Actors
<1>. QED
  BY <1>5, <1>6, <1>8, <1>9, <1>10, <1>11, <1>12, NobodyNewKeepsCount DEF IInv

\* The reply: the client's set and counts catch up with the exporter.
LEMMA ChangedStep ==
    ASSUME IInv, NEW p \in Changers, NEW m \in network, Changed(p, m)
    PROVE  IInv'
<1>. USE KeepaliveAssumption
<1>0. /\ TypeOK /\ Shape /\ Counted /\ HeldUndeleted /\ Messages
      /\ Quiet /\ InCall /\ SetKnown
  BY DEF IInv
<1>1. /\ pc[p] = "change" /\ m.type = "Changed" /\ m.by = p
      /\ network' = network \ {m} /\ set' = m.setID
      /\ UNCHANGED <<sequence, err, remote, allocated, seen>>
      /\ Return(p, TRUE)
  BY DEF Changed
<1>2. gate = p /\ \A q \in Changers : pc[q] = "change" => q = p
  BY <1>0, <1>1 DEF Shape
<1>3. /\ op[p] \in {"add", "delete", "clear"}
      /\ op[p] = "add" => oid[p] \in Oids /\ ~err /\ objects[oid[p]] = 0
      /\ op[p] = "delete" => p \in Groups /\ oid[p] \in Oids /\ objects[oid[p]] = 1
      /\ op[p] = "clear" => p = Owner
  BY <1>0, <1>1 DEF Shape, Busy, Changers
<1>4. objects' = CASE op[p] = "add"    -> [objects EXCEPT ![oid[p]] = 1]
                   [] op[p] = "delete" -> [objects EXCEPT ![oid[p]] = 0]
                   [] op[p] = "clear"  -> objects
  <2>1. objects' = [o \in Oids |-> CASE o \in ToAdd(p)                 -> 1
                                    [] op[p] = "delete" /\ o = oid[p] -> 0
                                    [] OTHER                          -> objects[o]]
    BY DEF Changed
  <2>. QED
    BY <1>0, <1>3, <2>1 DEF ToAdd, TypeOK
<1>5. m \in Message /\ m.setID \in SetIDs /\ m.setID \in allocated
  BY <1>0, <1>1 DEF SetKnown, TypeOK
<1>9. ~err => /\ network = {m} /\ seen = sequence /\ set \in {NoSet, m.setID}
               /\ m.add = ToAdd(p) /\ m.delete = ToDelete(p)
               /\ Exact(m.setID, (Retained \cup m.add) \ m.delete)
  <2>1. ~err => InCallOf(p)
    BY <1>0, <1>1 DEF InCall
  <2>2. \A n \in network : network = {n} => n = m
    OBVIOUS
  <2>. QED
    BY <1>1, <2>1, <2>2 DEF InCallOf
<1>6. CASE p = Owner /\ op[p] = "clear"
  <2>1. /\ pc' = [pc EXCEPT ![p] = "closed"] /\ UNCHANGED <<op, oid, objects>>
        /\ gate' = NoOne /\ canceled' = canceled \ {p} /\ conn' = "closed"
        /\ closeErr' = closeErr
    BY <1>0, <1>1, <1>2, <1>4, <1>6 DEF Return, After, TypeOK, Changers
  <2>2. TypeOK'
    BY <1>0, <1>1, <1>5, <2>1 DEF TypeOK, Changers, Actors, PCs
  <2>3. Shape'
    BY <1>0, <1>1, <1>2, <1>6, <2>1 DEF TypeOK, Shape, Busy, Changers, Actors
  <2>4. /\ \A q \in Changers : Uses(q)' => Uses(q)
        /\ \A q \in Changers : pc'[q] # "change"
        /\ Clearing' /\ pc'[Owner] = "closed"
    BY <1>0, <1>1, <1>2, <1>6, <2>1 DEF Uses, Holds, Clearing, TypeOK, Shape, Changers, Actors
  <2>5. NobodyNew
    BY <2>1, <2>4 DEF NobodyNew
  <2>6. HeldUndeleted' /\ InCall'
    BY <2>4 DEF HeldUndeleted, InCall
  <2>7. Messages'
    <3>1. \A n \in network : n.by \in Groups => n.by \in Changers /\ n.by # p
      BY <1>6 DEF Changers
    <3>2. \A n \in network : n.by \in Groups => err /\ ~Uses(n.by)
      BY <1>0, <1>2, <3>1 DEF Messages
    <3>. QED
      BY <1>1, <2>4, <3>1, <3>2 DEF Messages
  <2>8. Quiet'
    <3>. SUFFICES ASSUME ~err
                  PROVE  network' = {} /\ seen = sequence /\ Exact(NoSet, {})
      BY <1>1, <2>4 DEF Quiet, Exact
    <3>1. /\ network = {m} /\ seen = sequence /\ m.delete = Retained /\ m.add = {}
          /\ Exact(m.setID, (Retained \cup m.add) \ m.delete)
      BY <1>6, <1>9 DEF ToDelete, ToAdd
    <3>. QED
      BY <1>1, <3>1 DEF Exact
  <2>9. SetKnown'
    BY <1>0, <1>1, <1>5, <2>4 DEF SetKnown, NoSet
  <2>. QED
    BY <2>2, <2>3, <2>5, <2>6, <2>7, <2>8, <2>9, NobodyNewKeepsCount DEF IInv
<1>7. CASE op[p] = "delete"
  <2>0. p \in Groups /\ p # Owner
    BY <1>3, <1>7
  <2>1. /\ pc' = [pc EXCEPT ![p] = "idle"] /\ op' = [op EXCEPT ![p] = "none"]
        /\ oid' = [oid EXCEPT ![p] = NoOid] /\ gate' = NoOne
        /\ canceled' = canceled \ {p} /\ UNCHANGED <<conn, closeErr>>
        /\ objects' = [objects EXCEPT ![oid[p]] = 0]
    BY <1>0, <1>1, <1>2, <1>4, <1>7, <2>0 DEF Return, After, TypeOK, Changers
  <2>2. TypeOK'
    BY <1>0, <1>1, <1>3, <1>5, <1>7, <2>1 DEF TypeOK, Changers, Actors, PCs
  <2>3. Shape'
    BY <1>0, <1>1, <1>2, <2>0, <2>1 DEF TypeOK, Shape, Busy, Changers, Actors
  <2>4. /\ \A q \in Changers \ {p} : (Uses(q)' <=> Uses(q)) /\ (Holds(q)' <=> Holds(q))
        /\ \A q \in Changers \ {p} : oid'[q] = oid[q]
        /\ \A q \in Changers : pc'[q] # "change"
        /\ ~Uses(p)' /\ ~Holds(p)' /\ Uses(p)
        /\ (Clearing => Clearing') /\ pc'[Owner] = "live" /\ pc[Owner] = "live"
    BY <1>0, <1>1, <1>2, <1>7, <2>0, <2>1
       DEF Uses, Holds, Clearing, TypeOK, Shape, Busy, Changers, Actors
  <2>5. set' = set
    BY <1>0, <1>1, <1>3, <1>7, <2>0 DEF Messages, SetKnown, Retained, Uses
  <2>6. Counted'
    <3>1. \A x \in Oids \ {oid[p]} : Users(x)' \subseteq Users(x) /\ objects'[x] >= objects[x]
      BY <1>0, <1>3, <2>1, <2>4 DEF Users, TypeOK
    <3>2. \A x \in Oids : x = oid[p] => Users(x)' \subseteq Users(x) \ {p} /\ p \in Users(x)
      BY <1>1, <2>4 DEF Users
    <3>3. objects'[oid[p]] = objects[oid[p]] - 1
      BY <1>0, <1>3, <1>7, <2>1 DEF TypeOK
    <3>. QED
      BY <1>0, <1>3, <1>7, <2>2, <3>1, <3>2, <3>3, CountDown
  <2>7. HeldUndeleted'
    BY <1>0, <1>1, <2>4, <2>5 DEF HeldUndeleted
  <2>8. Messages'
    <3>1. \A n \in network : n.by \in Groups => n.by \in Changers
      BY DEF Changers
    <3>2. \A n \in network \ {m} : n.by \in Groups => err
      BY <1>9
    <3>3. \A n \in network : n.by \in Groups /\ n.by # p => ~Uses(n.by)
      BY <1>0, <1>2, <3>1 DEF Messages
    <3>. QED
      BY <1>1, <2>4, <3>1, <3>2, <3>3 DEF Messages
  <2>9. Quiet' /\ InCall'
    <3>1. InCall'
      BY <2>4 DEF InCall
    <3>. SUFFICES ASSUME ~err
                  PROVE  network' = {} /\ seen = sequence /\ Exact(set, Retained)'
      BY <1>1, <2>4, <2>5, <3>1 DEF Quiet
    <3>2. /\ network = {m} /\ seen = sequence /\ m.delete = {oid[p]} /\ m.add = {}
          /\ Exact(m.setID, (Retained \cup m.add) \ m.delete)
      BY <1>7, <1>9 DEF ToDelete, ToAdd
    <3>3. Retained' = Retained \ {oid[p]}
      BY <1>0, <1>3, <1>7, <2>1 DEF Retained, TypeOK
    <3>4. Exact(m.setID, Retained')
      BY <3>2, <3>3
    <3>. QED
      BY <1>1, <3>2, <3>4 DEF Exact
  <2>10. SetKnown'
    BY <1>0, <1>1, <1>5, <2>4 DEF SetKnown, NoSet
  <2>. QED
    BY <2>2, <2>3, <2>6, <2>7, <2>8, <2>9, <2>10 DEF IInv
<1>8. CASE op[p] = "add"
  <2>1. /\ pc' = [pc EXCEPT ![p] = IF p = Owner THEN "started" ELSE "retained"]
        /\ gate' = NoOne
        /\ canceled' = canceled \ {p} /\ UNCHANGED <<op, oid, conn, closeErr>>
        /\ objects' = [objects EXCEPT ![oid[p]] = 1]
    BY <1>0, <1>1, <1>2, <1>4, <1>8 DEF Return, After, TypeOK, Changers
  <2>2. TypeOK'
    BY <1>0, <1>1, <1>3, <1>5, <1>8, <2>1 DEF TypeOK, Changers, Actors, PCs
  <2>3. Shape'
    BY <1>0, <1>1, <1>2, <1>3, <1>8, <2>1 DEF TypeOK, Shape, Busy, Changers, Actors
  <2>4. /\ \A q \in Changers \ {p} : (Uses(q)' <=> Uses(q)) /\ (Holds(q)' <=> Holds(q))
        /\ \A q \in Changers : pc'[q] # "change"
        /\ pc'[Owner] # "closed" /\ pc'[Owner] # "bind"
    BY <1>0, <1>1, <1>2, <1>8, <2>1
       DEF Uses, Holds, TypeOK, Shape, Busy, Changers, Actors
  <2>5. /\ network = {m} /\ seen = sequence /\ m.delete = {} /\ m.add = {oid[p]} /\ ~err
        /\ set \in {NoSet, m.setID}
        /\ Exact(m.setID, (Retained \cup m.add) \ m.delete)
    BY <1>3, <1>8, <1>9 DEF ToDelete, ToAdd
  <2>6. Retained' = Retained \cup {oid[p]}
    BY <1>0, <1>3, <1>8, <2>1 DEF Retained, TypeOK
  <2>7. network' = {} /\ Exact(m.setID, Retained')
    BY <1>1, <2>5, <2>6
  <2>8. Exact(set, Retained)' /\ \A o \in Retained' : o \in remote[m.setID]
    BY <1>1, <1>5, <2>7 DEF Exact
  <2>9. Counted'
    <3>1. \A x \in Oids \ {oid[p]} : Users(x)' \subseteq Users(x) /\ objects'[x] >= objects[x]
      BY <1>0, <1>3, <2>1, <2>4 DEF Users, TypeOK
    <3>2. \A x \in Oids : x = oid[p] => Users(x)' \subseteq Users(x) \cup {p}
      BY <2>1, <2>4 DEF Users
    <3>3. objects'[oid[p]] = objects[oid[p]] + 1
      BY <1>0, <1>3, <1>8, <2>1 DEF TypeOK
    <3>. QED
      BY <1>0, <1>3, <1>8, <2>2, <3>1, <3>2, <3>3, CountUp
  <2>10. HeldUndeleted'
    <3>. SUFFICES ASSUME ~Clearing', NEW q \in Changers, Holds(q)'
                  PROVE  m.setID \in SetIDs /\ oid[q] \in remote[m.setID]
      BY <1>1, <2>1, <2>7 DEF HeldUndeleted
    <3>1. CASE q = p
      BY <1>5, <2>6, <2>8, <3>1
    <3>2. CASE q # p
      <4>1. Holds(q) /\ ~Clearing
        BY <1>0, <1>1, <1>2, <1>8, <2>4, <3>2 DEF Clearing, Shape, Changers
      <4>. QED
        BY <1>0, <1>5, <2>5, <4>1 DEF HeldUndeleted, NoSet
    <3>. QED
      BY <3>1, <3>2
  <2>11. Messages' /\ InCall'
    BY <2>4, <2>7 DEF Messages, InCall
  <2>12. Quiet'
    BY <1>1, <2>4, <2>5, <2>7, <2>8 DEF Quiet
  <2>13. SetKnown'
    BY <1>0, <1>1, <1>5, <2>4 DEF SetKnown, NoSet
  <2>. QED
    BY <2>2, <2>3, <2>9, <2>10, <2>11, <2>12, <2>13 DEF IInv
<1>. QED
  BY <1>3, <1>6, <1>7, <1>8

\* The exporter executes a request, early, late or after it was given up.
LEMMA ServerStep ==
    ASSUME IInv, NEW m \in network, NEW s \in SetIDs, ServerChanges(m, s)
    PROVE  IInv'
<1>. USE KeepaliveAssumption
<1>0. /\ TypeOK /\ Shape /\ Counted /\ HeldUndeleted /\ Messages
      /\ Quiet /\ InCall /\ SetKnown
  BY DEF IInv
<1>. DEFINE r == [m EXCEPT !.type = "Changed", !.setID = s]
<1>1. /\ m.type = "ComplexPing"
      /\ m.setID = NoSet => s \notin allocated
      /\ m.setID # NoSet => s = m.setID
      /\ allocated' = allocated \cup {s}
      /\ remote' = [remote EXCEPT ![s] = (@ \cup m.add) \ m.delete]
      /\ seen' = m.sequence
      /\ network' = (network \ {m}) \cup (IF pc[m.by] = "change" THEN {r} ELSE {})
      /\ UNCHANGED <<gate, set, sequence, objects, err, conn>>
      /\ UNCHANGED <<pc, op, oid, canceled, closeErr>>
  BY DEF ServerChanges, pingerVars, actorVars
<1>2. /\ m \in Message /\ m.by \in Changers /\ m.add \subseteq Oids /\ m.delete \subseteq Oids
      /\ m.sequence \in 0..(SequenceWidth - 1)
  BY <1>0 DEF TypeOK, Message
<1>3. /\ r \in Message /\ r.type = "Changed" /\ r.setID = s /\ r.by = m.by
      /\ r.add = m.add /\ r.delete = m.delete /\ r.sequence = m.sequence
  BY <1>2 DEF Message
<1>. HIDE DEF r
<1>4. TypeOK'
  BY <1>0, <1>1, <1>2, <1>3 DEF TypeOK
<1>5. Shape'
  BY <1>0, <1>1 DEF Shape
<1>6. /\ \A q : (Uses(q)' <=> Uses(q)) /\ (Holds(q)' <=> Holds(q))
      /\ (Clearing' <=> Clearing) /\ Retained' = Retained
  BY <1>1 DEF Uses, Holds, Clearing, Retained
<1>7. NobodyNew
  BY <1>1, <1>6 DEF NobodyNew
<1>8. HeldUndeleted'
  <2>. SUFFICES ASSUME ~Clearing, NEW q \in Changers, Holds(q)
                PROVE  /\ set \in SetIDs /\ oid[q] \in remote'[set]
                       /\ \A n \in network' :
                             n.type = "ComplexPing" => oid[q] \notin n.delete
    BY <1>1, <1>6 DEF HeldUndeleted
  <2>1. /\ set \in SetIDs /\ oid[q] \in remote[set]
        /\ \A n \in network : n.type = "ComplexPing" => oid[q] \notin n.delete
    BY <1>0 DEF HeldUndeleted
  <2>. QED
    BY <1>0, <1>1, <1>3, <2>1 DEF TypeOK
<1>9. Messages'
  <2>. SUFFICES ASSUME NEW n \in network', n.by \in Groups
                PROVE  \/ /\ pc[n.by] = "change"
                          /\ n.type = "ComplexPing" => n.setID = set
                          /\ n.type = "Changed" => n.setID \in SetIDs /\ set \in {NoSet, n.setID}
                       \/ err /\ ~Uses(n.by)
    BY <1>1, <1>6 DEF Messages
  <2>1. CASE n \in network
    BY <1>0, <2>1 DEF Messages
  <2>2. CASE n = r /\ pc[m.by] = "change"
    BY <1>0, <1>1, <1>3, <2>2 DEF Messages
  <2>. QED
    BY <1>1, <2>1, <2>2
<1>10. Quiet'
  <2>. SUFFICES ASSUME ~err, \A q \in Changers : pc[q] # "change"
                PROVE  FALSE
    BY <1>1 DEF Quiet
  <2>. QED
    BY <1>0 DEF Quiet
<1>11. InCall'
  <2>. SUFFICES ASSUME ~err, NEW q \in Changers, pc[q] = "change"
                PROVE  InCallOf(q)'
    BY <1>1 DEF InCall
  <2>1. InCallOf(q)
    BY <1>0 DEF InCall
  <2>2. /\ network = {m} /\ m.by = q /\ m.sequence = sequence
        /\ m.add = ToAdd(q) /\ m.delete = ToDelete(q)
        /\ m.setID = set /\ Exact(set, Retained)
    <3>1. \A n \in network : network = {n} => n = m
      OBVIOUS
    <3>. QED
      BY <1>1, <2>1, <3>1 DEF InCallOf
  <2>3. network' = {r}
    BY <1>1, <2>2
  <2>4. ToAdd(q)' = ToAdd(q) /\ ToDelete(q)' = ToDelete(q)
    BY <1>1, <1>6 DEF ToAdd, ToDelete
  <2>5. set \in {NoSet, s}
    BY <1>1, <2>2
  <2>6. remote[s] = Retained
    <3>1. CASE set = NoSet
      BY <1>0, <2>2, <3>1 DEF SetKnown, Exact, NoSet
    <3>2. CASE set = s
      BY <2>2, <3>2 DEF Exact
    <3>. QED
      BY <2>5, <3>1, <3>2
  <2>7. \A t \in SetIDs \ {s} : remote[t] = {}
    BY <1>0, <2>2, <2>5 DEF Exact, SetKnown
  <2>8. Exact(s, (Retained \cup m.add) \ m.delete)'
    BY <1>0, <1>1, <1>6, <2>6, <2>7 DEF Exact, TypeOK
  <2>9. Exact(r.setID, (Retained \cup r.add) \ r.delete)'
    BY <1>3, <2>8
  <2>. QED
    BY <1>1, <1>3, <2>2, <2>3, <2>4, <2>5, <2>9 DEF InCallOf
<1>12. SetKnown'
  BY <1>0, <1>1, <1>3, <1>6 DEF SetKnown
<1>. QED
  BY <1>4, <1>5, <1>7, <1>8, <1>9, <1>10, <1>11, <1>12, NobodyNewKeepsCount DEF IInv

-----------------------------------------------------------------------------
(* Theorems *)

\* The invariant is inductive.
THEOREM Invariant == Spec => []IInv
<1>1. Init => IInv
  BY InitialInvariant
<1>2. IInv /\ [Next]_vars => IInv'
  <2>. SUFFICES ASSUME IInv, [Next]_vars PROVE IInv'
    OBVIOUS
  <2>1. ASSUME NEW p \in Changers, Step(p) PROVE IInv'
    BY <2>1, WaitingSteps, ShareStep, UnshareStep, ChangeStep, ChangedStep,
       ChangeFailedStep DEF Step
  <2>2. ASSUME NEW m \in network, NEW s \in SetIDs, ServerChanges(m, s) PROVE IInv'
    BY <2>2, ServerStep
  <2>3. CASE UNCHANGED vars
    <3>1. UNCHANGED <<gate, set, sequence, objects, err, conn, pc, op, oid, canceled,
                      closeErr, remote, allocated, seen, network>>
      BY <2>3 DEF vars, pingerVars, actorVars, serverVars
    <3>2. TypeOK'
      BY <3>1 DEF IInv, TypeOK
    <3>3. Shape'
      BY <3>1 DEF IInv, Shape
    <3>4. Calm
      BY <3>1 DEF Calm, Uses, Holds, Clearing
    <3>. QED
      BY <3>2, <3>3, <3>4, CalmSteps
  <2>. QED
    BY <2>1, <2>2, <2>3, ControlSteps, LoopSteps DEF Next, Terminated
<1>. QED
  BY <1>1, <1>2, PTL DEF Spec

\* Every variable keeps its type: the sequence number stays within sixteen bits.
THEOREM TypeCorrect == Spec => []TypeOK
<1>1. IInv => TypeOK
  BY DEF IInv
<1>. QED
  BY <1>1, Invariant, PTL

\* Whatever fails, an object that is retained and not yet given up is in the ping set
\* the client keeps alive.
THEOREM RetainedStaysPinged == Spec => []RetainedIsPinged
<1>1. IInv => RetainedIsPinged
  BY DEF IInv, HeldUndeleted, RetainedIsPinged
<1>. QED
  BY <1>1, Invariant, PTL

\* An update whose outcome is not known has latched an error.
THEOREM UncertainLatched == Spec => []UncertainIsFailure
<1>1. IInv => UncertainIsFailure
  <2>. SUFFICES ASSUME IInv, ~err, NEW m \in network
                PROVE  pc[m.by] = "change"
    BY DEF UncertainIsFailure
  <2>1. Quiet /\ InCall
    BY DEF IInv
  <2>2. PICK p \in Changers : pc[p] = "change"
    BY <2>1 DEF Quiet
  <2>3. InCallOf(p)
    BY <2>1, <2>2 DEF InCall
  <2>4. m.by = p
    BY <2>3 DEF InCallOf
  <2>. QED
    BY <2>2, <2>4
<1>. QED
  BY <1>1, Invariant, PTL

\* While no error is latched the exporter's sets and the client's counts agree.
THEOREM HealthyIsExact == Spec => []HealthySetIsExact
<1>1. IInv => HealthySetIsExact
  <2>. SUFFICES ASSUME IInv, ~err, pc[Owner] # "closed",
                       \A p \in Changers : pc[p] # "change"
                PROVE  UNION {remote[s] : s \in SetIDs} = Retained
    BY DEF HealthySetIsExact
  <2>1. Exact(set, Retained) /\ (set = NoSet => Retained = {}) /\ TypeOK
    BY DEF IInv, Quiet, SetKnown
  <2>2. CASE set = NoSet
    <3>1. \A s \in SetIDs : remote[s] = {}
      BY <2>1, <2>2 DEF Exact
    <3>. QED
      BY <2>1, <2>2, <3>1
  <2>3. CASE set \in SetIDs
    <3>1. remote[set] = Retained /\ \A s \in SetIDs : remote[s] \subseteq Retained
      BY <2>1, <2>3 DEF Exact
    <3>. QED
      BY <2>3, <3>1
  <2>. QED
    BY <2>1, <2>2, <2>3 DEF TypeOK
<1>. QED
  BY <1>1, Invariant, PTL

\* While no error is latched the two sides agree on the sequence number.
THEOREM HealthySequence == Spec => []SequenceInStep
<1>1. IInv => SequenceInStep
  BY DEF IInv, Quiet, SequenceInStep
<1>. QED
  BY <1>1, Invariant, PTL

\* A failed start and a clean stop of a healthy pinger leave the exporter empty.
THEOREM StopIsClean == Spec => []StopLeavesNothing
<1>1. IInv => StopLeavesNothing
  <2>. SUFFICES ASSUME IInv, pc[Owner] = "closed", ~closeErr, ~err
                PROVE  \A s \in SetIDs : remote[s] = {}
    BY DEF StopLeavesNothing
  <2>1. \A p \in Changers : pc[p] # "change"
    BY DEF IInv, Shape, Busy, Changers
  <2>. QED
    BY <2>1 DEF IInv, Quiet, Exact
<1>. QED
  BY <1>1, Invariant, PTL

-----------------------------------------------------------------------------
(* The refinement *)

\* What p has leased in the abstract service.
Has(p) == Holds(p) /\ ~Clearing

Same(p) == (Has(p)' <=> Has(p)) /\ (Has(p) => oid'[p] = oid[p])

\* What a step can do to the leases: no more than move the set ...
Moves ==
    /\ \A p \in Changers : Same(p)
    /\ UNCHANGED <<err, Clearing>>

\* ... or latch an error, ...
Latches ==
    /\ \A p \in Changers : Same(p)
    /\ err' = TRUE /\ UNCHANGED <<Clearing, set, remote>>

\* ... or end one lease, ...
Loses(p) ==
    /\ Has(p) /\ ~Has(p)'
    /\ \A q \in Changers \ {p} : Same(q)
    /\ UNCHANGED <<err, Clearing, set, remote>>

\* ... or begin one, ...
Gains(p) ==
    /\ ~Has(p) /\ Has(p)'
    /\ \A q \in Changers \ {p} : Same(q)
    /\ ~err /\ ~Clearing /\ UNCHANGED <<err, Clearing, remote>>
    /\ set \in {NoSet, set'}

\* ... or end them all.
Finishes ==
    /\ ~Clearing /\ Clearing'
    /\ UNCHANGED <<err, set, remote>>

Effect == Moves \/ Latches \/ Finishes \/ \E p \in Changers : Loses(p) \/ Gains(p)

\* Each of these is a step of the abstract service, or none.
LEMMA EffectRefines ==
    ASSUME IInv, IInv', Effect
    PROVE  [Leases!Next]_(Leases!vars)
<1> DEFINE lease == [p \in Changers |-> IF Holds(p) /\ ~Clearing THEN oid[p] ELSE NoOid]
           kept == IF set = NoSet THEN {} ELSE remote[set]
<1>1. /\ \A p \in Changers : lease[p] = (IF Has(p) THEN oid[p] ELSE NoOid)
      /\ \A p \in Changers : lease'[p] = (IF Has(p)' THEN oid'[p] ELSE NoOid)
  BY DEF Has
<1>2. /\ \A p \in Changers : Has(p) => oid[p] \in Oids /\ oid[p] \in kept
      /\ \A p \in Changers : Has(p)' => oid'[p] \in Oids /\ oid'[p] \in kept'
      /\ kept \subseteq Oids /\ kept' \subseteq Oids
  BY KeepaliveAssumption DEF IInv, HeldUndeleted, Has, TypeOK, NoSet
<1>3. \A p \in Changers : Same(p) => lease'[p] = lease[p]
  BY <1>1 DEF Same
<1>4. /\ \A p \in Changers : lease[p] # NoOid <=> Has(p)
      /\ \A p \in Changers : lease'[p] # NoOid <=> Has(p)'
  BY <1>1, <1>2, KeepaliveAssumption
<1>5. CASE Moves
  <2>1. lease' = lease
    BY <1>3, <1>5 DEF Moves
  <2>2. {lease[p] : p \in Changers} \ {NoOid} \subseteq kept'
    BY <1>1, <1>2, <2>1
  <2>3. Leases!Changes(kept')
    BY <1>5, <2>1, <2>2 DEF Moves, Leases!Changes, Leases!Leased
  <2>. QED
    BY <1>2, <2>3 DEF Leases!Next
<1>6. CASE Latches
  <2>1. lease' = lease
    BY <1>3, <1>6 DEF Latches
  <2>2. Leases!Fails
    BY <1>6, <2>1 DEF Latches, Leases!Fails
  <2>. QED
    BY <2>2 DEF Leases!Next
<1>7. CASE Finishes
  <2>1. lease' = [p \in Changers |-> NoOid]
    BY <1>7 DEF Finishes
  <2>2. Leases!Ends
    BY <1>7, <2>1 DEF Finishes, Leases!Ends
  <2>. QED
    BY <2>2 DEF Leases!Next
<1>8. ASSUME NEW p \in Changers, Loses(p)
      PROVE  Leases!Next
  <2>1. lease[p] # NoOid /\ lease'[p] = NoOid
    BY <1>4, <1>8 DEF Loses
  <2>2. lease' = [lease EXCEPT ![p] = NoOid]
    BY <1>3, <1>8, <2>1 DEF Loses
  <2>3. Leases!GiveUp(p)
    BY <1>8, <2>1, <2>2 DEF Loses, Leases!GiveUp
  <2>. QED
    BY <2>3 DEF Leases!Next
<1>9. ASSUME NEW p \in Changers, Gains(p)
      PROVE  Leases!Next
  <2>0. PICK o \in Oids : o = oid'[p] /\ o \in kept'
    BY <1>2, <1>9 DEF Gains
  <2>1. lease[p] = NoOid /\ lease'[p] = o
    BY <1>1, <1>9, <2>0 DEF Gains
  <2>2. lease' = [lease EXCEPT ![p] = o]
    BY <1>3, <1>9, <2>1 DEF Gains
  <2>3. kept \subseteq kept'
    BY <1>9 DEF Gains
  <2>4. Leases!Grant(p, o)
    BY <1>9, <2>0, <2>1, <2>2, <2>3 DEF Gains, Leases!Grant
  <2>. QED
    BY <2>4 DEF Leases!Next
<1>. QED
  BY <1>5, <1>6, <1>7, <1>8, <1>9 DEF Effect

\* Starting, stopping, entering and waiting change no lease but the owner's own.
LEMMA ControlEffect ==
    ASSUME IInv,
           \/ Bind \/ Publish \/ Stop \/ Join
           \/ \E g \in Groups, o \in Oids \cup {NoOid} : Retain(g, o)
           \/ \E g \in Groups : Release(g)
           \/ \E p \in Changers : Cancel(p) \/ Acquire(p)
           \/ UNCHANGED vars
    PROVE  Effect
<1>. USE KeepaliveAssumption DEF Changers, Actors
<1>0. TypeOK /\ Shape
  BY DEF IInv
<1>. USE <1>0 DEF TypeOK, Shape, Busy, Has, Same, Holds, Clearing, pingerVars, serverVars
<1>1. CASE Bind
  BY <1>1 DEF Bind, Effect, Moves
<1>2. CASE Publish
  <2>1. CASE Owner \in canceled /\ op[Owner] = "add"
    BY <1>2, <2>1 DEF Publish, Effect, Loses
  <2>2. CASE ~(Owner \in canceled /\ op[Owner] = "add")
    BY <1>2, <2>2 DEF Publish, Effect, Moves
  <2>. QED
    BY <2>1, <2>2
<1>3. CASE Stop
  BY <1>3 DEF Stop, Effect, Moves
<1>4. CASE Join
  <2>1. CASE op[Owner] = "add"
    BY <1>4, <2>1 DEF Join, Effect, Loses
  <2>2. CASE op[Owner] # "add"
    BY <1>4, <2>2 DEF Join, Effect, Moves
  <2>. QED
    BY <2>1, <2>2
<1>5. ASSUME NEW g \in Groups, NEW o \in Oids \cup {NoOid}, Retain(g, o)
      PROVE  Effect
  BY <1>5 DEF Retain, Effect, Moves, Published
<1>6. ASSUME NEW g \in Groups, Release(g)
      PROVE  Effect
  BY <1>6 DEF Release, Effect, Moves, Published
<1>7. ASSUME NEW p \in Changers, Cancel(p)
      PROVE  Effect
  BY <1>7 DEF Cancel, Effect, Moves
<1>8. ASSUME NEW p \in Changers, Acquire(p)
      PROVE  Effect
  BY <1>8 DEF Acquire, Effect, Moves
<1>9. CASE UNCHANGED vars
  BY <1>9 DEF vars, actorVars, Effect, Moves
<1>. QED
  BY <1>1, <1>2, <1>3, <1>4, <1>5, <1>6, <1>7, <1>8, <1>9

\* The goroutine changes no lease.
LEMMA LoopEffect ==
    ASSUME IInv, Tick \/ LoopStep \/ LoopExit
    PROVE  Effect
<1>. USE KeepaliveAssumption
<1>1. /\ \A p \in Changers : pc'[p] = pc[p]
      /\ UNCHANGED <<op, oid, set, remote>>
      /\ err' \in BOOLEAN /\ (err => err')
  BY DEF IInv, TypeOK, Changers, Actors, Tick, LoopStep, LoopExit, LoopAcquire, LoopGivesUp,
     Pinged, LoopGoes, serverVars
<1>2. (\A p \in Changers : Same(p)) /\ UNCHANGED Clearing
  BY <1>1 DEF Has, Same, Holds, Clearing, Changers
<1>3. err' = err \/ err' = TRUE
  BY <1>1 DEF IInv, TypeOK
<1>. QED
  BY <1>1, <1>2, <1>3 DEF Effect, Moves, Latches

\* A call that returns without having changed the set ends a lease if it was to end
\* it, ends all if it was to clear the set, and begins none.
LEMMA ReturnEffect ==
    ASSUME IInv, NEW p \in Changers, NEW ok \in BOOLEAN, Return(p, ok),
           pc[p] \in {"acquire", "held"}, ok => op[p] # "add",
           UNCHANGED <<set, err, remote>>
    PROVE  Effect
<1>. USE KeepaliveAssumption DEF Changers, Actors
<1>0. TypeOK /\ Shape
  BY DEF IInv
<1>1. /\ op[p] = "clear" => After(p, ok) = "closed" /\ p = Owner
      /\ op[p] = "delete" => After(p, ok) = "idle" /\ p \in Groups
      /\ op[p] = "add" => After(p, ok) = (IF p = Owner THEN "acquire" ELSE "idle") /\ ~ok
      /\ op[p] \in {"clear", "delete", "add"}
  BY <1>0 DEF After, TypeOK, Shape, Busy
<1>2. /\ pc' = [pc EXCEPT ![p] = After(p, ok)]
      /\ op' = [op EXCEPT ![p] = IF p = Owner /\ ~ok THEN "clear"
                                 ELSE IF After(p, ok) = "idle" THEN "none" ELSE op[p]]
      /\ \A q \in Changers \ {p} : oid'[q] = oid[q]
  <2>. HIDE DEF After
  <2>. QED
    BY <1>0, <1>1 DEF Return, TypeOK
<1>. HIDE DEF After
<1>. USE <1>0, <1>1, <1>2 DEF TypeOK, Shape, Busy, Has, Same, Holds, Clearing
<1>3. CASE op[p] = "clear"
  BY <1>3 DEF Effect, Finishes
<1>4. CASE op[p] = "delete"
  <2>1. Loses(p)
    BY <1>4 DEF Loses
  <2>. QED
    BY <2>1 DEF Effect
<1>5. CASE op[p] = "add"
  BY <1>5 DEF Effect, Moves
<1>. QED
  BY <1>1, <1>3, <1>4, <1>5

\* Sharing begins a lease, unsharing ends one, and a dispatched change ends what it
\* deletes.
LEMMA UseEffect ==
    ASSUME IInv, NEW p \in Changers, Share(p) \/ Unshare(p) \/ Change(p)
    PROVE  Effect
<1>. USE KeepaliveAssumption DEF Changers, Actors
<1>0. TypeOK /\ Shape
  BY DEF IInv
<1>. USE <1>0 DEF TypeOK, Shape, Busy, Has, Same, Holds, Clearing, serverVars
<1>1. CASE Share(p)
  <2>1. Gains(p)
    BY <1>1 DEF Share, Return, After, Gains
  <2>. QED
    BY <2>1 DEF Effect
<1>2. CASE Unshare(p)
  BY <1>2, ReturnEffect DEF Unshare
<1>3. CASE Change(p)
  <2>1. CASE op[p] = "delete"
    <3>1. Loses(p)
      BY <1>3, <2>1 DEF Change, Loses
    <3>. QED
      BY <3>1 DEF Effect
  <2>2. CASE op[p] = "clear"
    BY <1>3, <2>2 DEF Change, Effect, Finishes
  <2>3. CASE op[p] = "add"
    BY <1>3, <2>3 DEF Change, Effect, Moves
  <2>. QED
    BY <1>3, <2>1, <2>2, <2>3 DEF Change, NeedsChange
<1>. QED
  BY <1>1, <1>2, <1>3

\* An answered addition begins a lease on an object that is in the set by now.
LEMMA ChangedEffect ==
    ASSUME IInv, NEW p \in Changers, NEW m \in network, Changed(p, m)
    PROVE  Effect
<1>. USE KeepaliveAssumption DEF Changers, Actors
<1>0. TypeOK /\ Shape
  BY DEF IInv
<1>1. /\ pc[p] = "change" /\ m.type = "Changed" /\ m.by = p /\ set' = m.setID
      /\ UNCHANGED <<err, remote>> /\ Return(p, TRUE)
  BY DEF Changed
<1>2. CASE op[p] = "add"
  <2>1. ~err
    BY <1>0, <1>1, <1>2 DEF Shape
  <2>2. InCallOf(p)
    BY <1>1, <2>1 DEF IInv, InCall
  <2>3. set \in {NoSet, set'}
    BY <1>1, <2>2 DEF InCallOf
  <2>4. Gains(p)
    BY <1>0, <1>1, <1>2, <2>1, <2>3 DEF Gains, Return, After, TypeOK, Shape, Busy, Has, Same,
       Holds, Clearing
  <2>. QED
    BY <2>4 DEF Effect
<1>3. CASE op[p] \in {"delete", "clear"}
  BY <1>0, <1>1, <1>3 DEF Effect, Moves, Return, After, TypeOK, Shape, Busy, Has, Same,
     Holds, Clearing
<1>. QED
  BY <1>0, <1>1, <1>2, <1>3 DEF Shape, Busy

\* A call that failed latches an error, and leases nothing.
LEMMA FailedEffect ==
    ASSUME IInv, NEW p \in Changers, ChangeFailed(p)
    PROVE  Effect
<1>. USE KeepaliveAssumption DEF Changers, Actors
<1>0. TypeOK /\ Shape
  BY DEF IInv
<1>1. Latches
  BY <1>0 DEF ChangeFailed, Latches, Return, After, TypeOK, Shape, Busy, Has, Same, Holds,
     Clearing
<1>. QED
  BY <1>1 DEF Effect

LEMMA LeaseStep == IInv /\ IInv' /\ [Next]_vars => [Leases!Next]_(Leases!vars)
<1>. SUFFICES ASSUME IInv, IInv', [Next]_vars PROVE Effect
  BY EffectRefines
<1>1. ASSUME NEW p \in Changers, Step(p)
      PROVE  Effect
  <2>1. CASE AcquireFailed(p) \/ Refuse(p) \/ NothingToDelete(p) \/ ChangeCanceled(p)
    <3>1. PICK ok \in BOOLEAN : Return(p, ok) /\ (ok => NothingToDelete(p))
      BY <2>1 DEF AcquireFailed, Refuse, NothingToDelete, ChangeCanceled
    <3>2. /\ pc[p] \in {"acquire", "held"} /\ UNCHANGED <<set, err, remote>>
          /\ NothingToDelete(p) => op[p] # "add"
      BY <2>1 DEF AcquireFailed, Refuse, NothingToDelete, ChangeCanceled, serverVars
    <3>. QED
      BY <3>1, <3>2, ReturnEffect
  <2>2. CASE Acquire(p)
    BY <2>2, ControlEffect
  <2>. QED
    BY <1>1, <2>1, <2>2, UseEffect, ChangedEffect, FailedEffect DEF Step
<1>2. ASSUME NEW m \in network, NEW s \in SetIDs, ServerChanges(m, s)
      PROVE  Effect
  BY <1>2 DEF ServerChanges, pingerVars, actorVars, Effect, Moves, Has, Same, Holds, Clearing
<1>. QED
  BY <1>1, <1>2, ControlEffect, LoopEffect DEF Next, Terminated

\* Keepalive implements LeaseService: leases are granted while nothing has failed, and
\* what is leased stays in the set that is pinged.
THEOREM LeaseRefinement == Spec => ImplementsLeases
<1>1. Init => Leases!Init
  <2>. SUFFICES ASSUME Init PROVE Leases!Init
    OBVIOUS
  <2>1. ~Clearing /\ \A p \in Changers : ~Holds(p)
    BY KeepaliveAssumption DEF Init, Clearing, Holds, Changers, Actors
  <2>. QED
    BY <2>1 DEF Init, Leases!Init
<1>. QED
  BY <1>1, LeaseStep, Invariant, PTL DEF Spec, ImplementsLeases, Leases!Spec

-----------------------------------------------------------------------------
(* Deadlock *)

\* Nobody waits in a circle: whoever has the gate is at work under it and waits for
\* nobody here, and while stopKeepalive waits, without a context, for the goroutine of
\* run, nobody else has the gate that goroutine may be waiting for.
NoCircularWait ==
    /\ gate # NoOne => pc[gate] \in {"held", "change", "ping"}
    /\ pc[Owner] = "join" => gate \in {NoOne, Loop}

\* The goroutine has the gate for the time of its ping only.
LoopOwns == gate = Loop => pc[Loop] = "ping"

LEMMA LoopOwnsStep == IInv /\ LoopOwns /\ [Next]_vars => LoopOwns'
<1>. SUFFICES ASSUME IInv, LoopOwns, [Next]_vars PROVE LoopOwns'
  OBVIOUS
<1>. USE KeepaliveAssumption DEF Changers, Actors
<1>1. pc \in [Actors -> PCs]
  BY DEF IInv, TypeOK
<1>2. ASSUME NEW p \in Changers, Step(p)
      PROVE  LoopOwns'
  <2>1. gate' \in {gate, p, NoOne} /\ pc'[Loop] = pc[Loop]
    BY <1>1, <1>2 DEF Step, Acquire, AcquireFailed, Refuse, Share, Unshare, NothingToDelete,
       ChangeCanceled, Change, Changed, ChangeFailed, Return
  <2>. QED
    BY <2>1 DEF LoopOwns
<1>3. CASE Tick \/ LoopStep \/ LoopExit
  BY <1>1, <1>3 DEF Tick, LoopStep, LoopAcquire, LoopGivesUp, Pinged, LoopExit, LoopGoes, LoopOwns
<1>4. CASE ~(\E p \in Changers : Step(p)) /\ ~(Tick \/ LoopStep \/ LoopExit)
  <2>1. UNCHANGED gate /\ pc'[Loop] = pc[Loop]
    BY <1>1, <1>4 DEF Next, Bind, Publish, Stop, Join, Retain, Release, Cancel, ServerChanges,
       Terminated, vars, pingerVars, actorVars
  <2>. QED
    BY <2>1 DEF LoopOwns
<1>. QED
  BY <1>2, <1>3, <1>4

\* stopKeepalive can wait for its goroutine and a call for the gate: for any number of
\* groups, who they wait for is at work and waits for none of them.
THEOREM DeadlockFree == Spec => []NoCircularWait
<1>1. Init => LoopOwns
  BY KeepaliveAssumption DEF Init, LoopOwns
<1>2. IInv /\ LoopOwns => NoCircularWait
  <2>. SUFFICES ASSUME IInv, LoopOwns PROVE NoCircularWait
    OBVIOUS
  <2>1. Shape /\ gate \in Actors \cup {NoOne}
    BY DEF IInv, TypeOK
  <2>2. gate # NoOne => pc[gate] \in {"held", "change", "ping"}
    BY <2>1 DEF Shape, LoopOwns, Actors
  <2>3. pc[Owner] = "join" => gate \in {NoOne, Loop}
    <3>. SUFFICES ASSUME pc[Owner] = "join", gate \in Changers PROVE FALSE
      BY <2>1 DEF Actors
    <3>1. pc[gate] \in {"held", "change"}
      BY <2>1 DEF Shape
    <3>. QED
      BY <2>1, <3>1 DEF Shape, Busy, Changers
  <2>. QED
    BY <2>2, <2>3 DEF NoCircularWait
<1>. QED
  BY <1>1, <1>2, LoopOwnsStep, Invariant, PTL DEF Spec
=============================================================================
