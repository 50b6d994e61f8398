-------------------------- MODULE ObjectCallsProofs --------------------------
(***************************************************************************)
(* Theorems about ObjectCalls, for any inputs, ItemIDs, properties and any *)
(* size of batches.                                                        *)
(***************************************************************************)
EXTENDS ObjectCalls, ValuesProofs, TLAPS

-----------------------------------------------------------------------------
(* The inductive invariant.                                                *)

Before == {"begin", "arm", "bindRemote", "stopBind", "checkBind"}
Ending == {"unwind", "remove", "closeRemote", "leave"}
Working == PlanOf(kind) \cup {"reply"}

\* A call follows the plan of its kind.
Where ==
  /\ pc \in Before \cup Working \cup Ending \cup {"returned"}
  /\ pc = "reply" => kind = "browse"

\* Once the binding stands nothing forwards a cancellation to the transport.
Transport ==
  /\ forward \in {"running", "done"} => ctx = "ended"
  /\ pc \in {"bindRemote", "stopBind"} => forward # "none"
  /\ pc = "checkBind" => forward \notin {"none", "armed"}
  /\ Bound => forward = "stopped"
  /\ CleanupTransportLives

\* The reference that AddGroup or Browse has obtained and Decode will remember.
Undecoded == IF pc = "groupReference" THEN {"item"}
             ELSE IF pc = "enumReference" THEN {"enum"} ELSE {}

\* As long as nothing has failed, the call knows all it has obtained.
Ownership ==
  /\ pc \in Before => held = {} /\ refs = {} /\ ~group /\ ~exists
  /\ errs = {} /\ exists => group
  /\ pc \in Working \cup {"unwind"} /\ errs = {} => held \subseteq refs \cup Undecoded
  /\ pc \in {"remove", "closeRemote", "leave", "returned"} =>
       /\ errs = {} => held = {}
       /\ refs \cap held # {} => "release" \in errs
  /\ pc \in {"closeRemote", "leave", "returned"} =>
       /\ errs = {} => ~exists
       /\ group /\ exists => "remove" \in errs

\* What the error of a write says at every moment after the write.
Outcome ==
  /\ pc \in Before \cup Working => ~acked /\ ~applied
  /\ acked => applied
  /\ applied => kind = "write"
  /\ applied /\ ~acked => "unknown" \in errs
  /\ pc # "returned" => "acknowledged" \notin errs
  /\ pc = "returned" => ("acknowledged" \in errs <=> acked /\ errs # {})
  /\ pc \in Ending \cup {"returned"} /\ kind = "write" /\ errs = {} => acked

\* What has not been seen has not been enumerated.
Browsing ==
  kind = "browse" =>
    /\ seen \subseteq Items
    /\ pc \in Before \cup Working => Items \subseteq seen \cup left
    /\ pc \in Ending \cup {"returned"} /\ errs = {} => result = Items

IInv == TypeOK /\ Where /\ Transport /\ Ownership /\ Outcome /\ Browsing

-----------------------------------------------------------------------------
(* The plans.                                                              *)

\* The steps that are followed by another step.
Middle == DOMAIN Grant \cup DOMAIN Binds
            \cup {"groupReference", "enumReference", "exporter", "addItem"}

\* What the plans have in common, and where they differ.
LEMMA PlanFacts ==
  ASSUME NEW k \in {"read", "write", "browse", "properties"}
  PROVE  /\ PlanOf(k) \cap (Before \cup Ending \cup {"reply", "returned"}) = {}
         /\ "write" \in PlanOf(k) <=> k = "write"
         /\ "next" \in PlanOf(k) <=> k = "browse"
         /\ "available" \in PlanOf(k) \/ "values" \in PlanOf(k) => k = "properties"
         /\ "read" \in PlanOf(k) <=> k = "read"
         /\ Plan[k][1] \in PlanOf(k) \ {"groupReference", "enumReference"}
         /\ "available" \in PlanOf(k) => "values" \in PlanOf(k)
         /\ \A s \in PlanOf(k) \cap Middle : After(k, s) \in PlanOf(k)
         /\ "addGroup" \in PlanOf(k) => After(k, "addGroup") = "groupReference"
         /\ "browse" \in PlanOf(k) => After(k, "browse") = "enumReference"
<1>1. CASE k = "read"
  <2>1. PlanOf(k) \cap (Before \cup Ending \cup {"reply", "returned"}) = {}
    BY <1>1 DEF Plan, PlanOf, Before, Ending
  <2>2. /\ "write" \in PlanOf(k) <=> k = "write"
        /\ "next" \in PlanOf(k) <=> k = "browse"
        /\ "available" \in PlanOf(k) \/ "values" \in PlanOf(k) => k = "properties"
        /\ "read" \in PlanOf(k) <=> k = "read"
        /\ "available" \in PlanOf(k) => "values" \in PlanOf(k)
    BY <1>1 DEF Plan, PlanOf
  <2>3. Plan[k][1] \in PlanOf(k) \ {"groupReference", "enumReference"}
    BY <1>1 DEF Plan, PlanOf
  <2>4. \A s \in PlanOf(k) \cap Middle : After(k, s) \in PlanOf(k)
    BY <1>1 DEF Plan, PlanOf, After, Middle, Grant, Binds
  <2>5. "addGroup" \in PlanOf(k) => After(k, "addGroup") = "groupReference"
    BY <1>1 DEF Plan, PlanOf, After
  <2>6. "browse" \in PlanOf(k) => After(k, "browse") = "enumReference"
    BY <1>1 DEF Plan, PlanOf, After
  <2>7. QED
    BY <2>1, <2>2, <2>3, <2>4, <2>5, <2>6
<1>2. CASE k = "write"
  <2>1. PlanOf(k) \cap (Before \cup Ending \cup {"reply", "returned"}) = {}
    BY <1>2 DEF Plan, PlanOf, Before, Ending
  <2>2. /\ "write" \in PlanOf(k) <=> k = "write"
        /\ "next" \in PlanOf(k) <=> k = "browse"
        /\ "available" \in PlanOf(k) \/ "values" \in PlanOf(k) => k = "properties"
        /\ "read" \in PlanOf(k) <=> k = "read"
        /\ "available" \in PlanOf(k) => "values" \in PlanOf(k)
    BY <1>2 DEF Plan, PlanOf
  <2>3. Plan[k][1] \in PlanOf(k) \ {"groupReference", "enumReference"}
    BY <1>2 DEF Plan, PlanOf
  <2>4. \A s \in PlanOf(k) \cap Middle : After(k, s) \in PlanOf(k)
    BY <1>2 DEF Plan, PlanOf, After, Middle, Grant, Binds
  <2>5. "addGroup" \in PlanOf(k) => After(k, "addGroup") = "groupReference"
    BY <1>2 DEF Plan, PlanOf, After
  <2>6. "browse" \in PlanOf(k) => After(k, "browse") = "enumReference"
    BY <1>2 DEF Plan, PlanOf, After
  <2>7. QED
    BY <2>1, <2>2, <2>3, <2>4, <2>5, <2>6
<1>3. CASE k = "browse"
  <2>1. PlanOf(k) \cap (Before \cup Ending \cup {"reply", "returned"}) = {}
    BY <1>3 DEF Plan, PlanOf, Before, Ending
  <2>2. /\ "write" \in PlanOf(k) <=> k = "write"
        /\ "next" \in PlanOf(k) <=> k = "browse"
        /\ "available" \in PlanOf(k) \/ "values" \in PlanOf(k) => k = "properties"
        /\ "read" \in PlanOf(k) <=> k = "read"
        /\ "available" \in PlanOf(k) => "values" \in PlanOf(k)
    BY <1>3 DEF Plan, PlanOf
  <2>3. Plan[k][1] \in PlanOf(k) \ {"groupReference", "enumReference"}
    BY <1>3 DEF Plan, PlanOf
  <2>4. \A s \in PlanOf(k) \cap Middle : After(k, s) \in PlanOf(k)
    BY <1>3 DEF Plan, PlanOf, After, Middle, Grant, Binds
  <2>5. "addGroup" \in PlanOf(k) => After(k, "addGroup") = "groupReference"
    BY <1>3 DEF Plan, PlanOf, After
  <2>6. "browse" \in PlanOf(k) => After(k, "browse") = "enumReference"
    BY <1>3 DEF Plan, PlanOf, After
  <2>7. QED
    BY <2>1, <2>2, <2>3, <2>4, <2>5, <2>6
<1>4. CASE k = "properties"
  <2>1. PlanOf(k) \cap (Before \cup Ending \cup {"reply", "returned"}) = {}
    BY <1>4 DEF Plan, PlanOf, Before, Ending
  <2>2. /\ "write" \in PlanOf(k) <=> k = "write"
        /\ "next" \in PlanOf(k) <=> k = "browse"
        /\ "available" \in PlanOf(k) \/ "values" \in PlanOf(k) => k = "properties"
        /\ "read" \in PlanOf(k) <=> k = "read"
        /\ "available" \in PlanOf(k) => "values" \in PlanOf(k)
    BY <1>4 DEF Plan, PlanOf
  <2>3. Plan[k][1] \in PlanOf(k) \ {"groupReference", "enumReference"}
    BY <1>4 DEF Plan, PlanOf
  <2>4. \A s \in PlanOf(k) \cap Middle : After(k, s) \in PlanOf(k)
    BY <1>4 DEF Plan, PlanOf, After, Middle, Grant, Binds
  <2>5. "addGroup" \in PlanOf(k) => After(k, "addGroup") = "groupReference"
    BY <1>4 DEF Plan, PlanOf, After
  <2>6. "browse" \in PlanOf(k) => After(k, "browse") = "enumReference"
    BY <1>4 DEF Plan, PlanOf, After
  <2>7. QED
    BY <2>1, <2>2, <2>3, <2>4, <2>5, <2>6
<1>5. QED
  BY <1>1, <1>2, <1>3, <1>4

\* What a step obtains is an interface.
LEMMA GrantFacts ==
  /\ DOMAIN Grant = {"addGroup", "querySync", "queryBrowse", "browse", "queryProperties"}
  /\ DOMAIN Binds = {"bindItem", "bindSync", "bindBrowse", "bindEnum", "bindProperties"}
  /\ \A s \in DOMAIN Grant : Grant[s] \in Interfaces
  /\ \A s \in DOMAIN Binds : Binds[s] \in Interfaces
  /\ Grant["addGroup"] = "item" /\ Grant["browse"] = "enum"
BY DEF Grant, Binds, Interfaces

-----------------------------------------------------------------------------
(* The initial states.                                                     *)

LEMMA InitIInv == Init => IInv
<1> SUFFICES ASSUME Init PROVE IInv
  OBVIOUS
<1>1. kind \in {"read", "write", "browse", "properties"} /\ pc = "begin"
  BY ObjectCallsAssumption DEF Init
<1>2. ~Bound
  BY <1>1, PlanFacts DEF Bound, Before
<1>3. TypeOK
  <2>1. pc \in Pcs
    BY <1>1 DEF Pcs
  <2>2. conns \in Seq(Interfaces \cup {"remote"})
    BY DEF Init
  <2>3. QED
    BY <2>1, <2>2 DEF Init, TypeOK
<1>4. Where /\ Transport
  BY <1>1, <1>2 DEF Init, Where, Transport, CleanupTransportLives, Before
<1>5. Ownership /\ Outcome /\ Browsing
  BY <1>1, PlanFacts DEF Init, Ownership, Outcome, Browsing, Before, Ending, Working
<1>6. QED
  BY <1>3, <1>4, <1>5 DEF IInv

-----------------------------------------------------------------------------
\* The environment and the forwarding of the operation's context.
LEMMA EnvironmentSteps == IInv /\ (Environment \/ Forwarding) => IInv'
<1> SUFFICES ASSUME IInv, Environment \/ Forwarding PROVE IInv'
  OBVIOUS
<1>0. /\ TypeOK /\ Where /\ Transport /\ Ownership /\ Outcome /\ Browsing
      /\ kind \in {"read", "write", "browse", "properties"}
  BY ObjectCallsAssumption DEF IInv, TypeOK
<1>a. errs \subseteq ErrorTags
  BY <1>0 DEF TypeOK
<1>1. CASE CtxEnds
  <2>1. Where'
    BY <1>0, <1>1, PlanFacts, GrantFacts DEF CtxEnds, callVars, localVars, serverVars, Where,
       Working, Before, Ending, Middle
  <2>2. pc' \in Pcs
    BY <1>0, <1>1, <2>1 DEF CtxEnds, callVars, TypeOK, Where, Working, Pcs, Before, Ending
  <2>3. errs' \subseteq ErrorTags
    BY <1>a, <1>1 DEF CtxEnds, Fail, ErrorTags
  <2>4. TypeOK'
    BY <1>0, <1>1, GrantFacts, <2>2, <2>3 DEF CtxEnds, callVars, localVars, serverVars, TypeOK
  <2>5. Transport'
    BY <1>0, <1>1, PlanFacts, <2>1 DEF CtxEnds, callVars, localVars, serverVars, Transport,
       Bound, CleanupTransportLives, Where, Working, Before, Ending
  <2>6. Ownership'
    BY <1>0, <1>1, PlanFacts, GrantFacts DEF CtxEnds, callVars, localVars, serverVars,
       Ownership, Undecoded, Where, Working, Before, Ending, Middle
  <2>7. Outcome'
    BY <1>0, <1>1, PlanFacts, GrantFacts DEF CtxEnds, callVars, localVars, serverVars, Outcome,
       Where, Working, Before, Ending, Middle
  <2>8. Browsing'
    BY <1>0, <1>1, PlanFacts, GrantFacts DEF CtxEnds, callVars, localVars, serverVars, Browsing,
       Where, Working, Before, Ending, Middle
  <2>9. QED
    BY <2>1, <2>4, <2>5, <2>6, <2>7, <2>8 DEF IInv
<1>2. CASE SessionCloses
  <2>1. Where'
    BY <1>0, <1>2, PlanFacts, GrantFacts DEF SessionCloses, callVars, localVars, serverVars,
       Where, Working, Before, Ending, Middle
  <2>2. pc' \in Pcs
    BY <1>0, <1>2, <2>1 DEF SessionCloses, callVars, TypeOK, Where, Working, Pcs, Before, Ending
  <2>3. errs' \subseteq ErrorTags
    BY <1>a, <1>2 DEF SessionCloses, Fail, ErrorTags
  <2>4. TypeOK'
    BY <1>0, <1>2, GrantFacts, <2>2, <2>3 DEF SessionCloses, callVars, localVars, serverVars,
       TypeOK
  <2>5. Transport'
    BY <1>0, <1>2, PlanFacts, <2>1 DEF SessionCloses, callVars, localVars, serverVars,
       Transport, Bound, CleanupTransportLives, Where, Working, Before, Ending
  <2>6. Ownership'
    BY <1>0, <1>2, PlanFacts, GrantFacts DEF SessionCloses, callVars, localVars, serverVars,
       Ownership, Undecoded, Where, Working, Before, Ending, Middle
  <2>7. Outcome'
    BY <1>0, <1>2, PlanFacts, GrantFacts DEF SessionCloses, callVars, localVars, serverVars,
       Outcome, Where, Working, Before, Ending, Middle
  <2>8. Browsing'
    BY <1>0, <1>2, PlanFacts, GrantFacts DEF SessionCloses, callVars, localVars, serverVars,
       Browsing, Where, Working, Before, Ending, Middle
  <2>9. QED
    BY <2>1, <2>4, <2>5, <2>6, <2>7, <2>8 DEF IInv
<1>3. CASE SessionDown
  <2>1. Where'
    BY <1>0, <1>3, PlanFacts, GrantFacts DEF SessionDown, callVars, contextVars, localVars,
       serverVars, Where, Working, Before, Ending, Middle, Lifetime
  <2>2. pc' \in Pcs
    BY <1>0, <1>3, <2>1 DEF SessionDown, callVars, TypeOK, Where, Working, Pcs, Before, Ending,
       Lifetime
  <2>3. errs' \subseteq ErrorTags
    BY <1>a, <1>3 DEF SessionDown, Fail, ErrorTags, Lifetime
  <2>4. TypeOK'
    BY <1>0, <1>3, GrantFacts, <2>2, <2>3 DEF SessionDown, callVars, contextVars, localVars,
       serverVars, TypeOK, Lifetime
  <2>5. Transport'
    BY <1>0, <1>3, PlanFacts, <2>1 DEF SessionDown, callVars, contextVars, localVars,
       serverVars, Transport, Bound, CleanupTransportLives, Where, Working, Before, Ending,
       Lifetime
  <2>6. Ownership'
    BY <1>0, <1>3, PlanFacts, GrantFacts DEF SessionDown, callVars, contextVars, localVars,
       serverVars, Ownership, Undecoded, Where, Working, Before, Ending, Middle, Lifetime
  <2>7. Outcome'
    BY <1>0, <1>3, PlanFacts, GrantFacts DEF SessionDown, callVars, contextVars, localVars,
       serverVars, Outcome, Where, Working, Before, Ending, Middle, Lifetime
  <2>8. Browsing'
    BY <1>0, <1>3, PlanFacts, GrantFacts DEF SessionDown, callVars, contextVars, localVars,
       serverVars, Browsing, Where, Working, Before, Ending, Middle, Lifetime
  <2>9. QED
    BY <2>1, <2>4, <2>5, <2>6, <2>7, <2>8 DEF IInv
<1>4. CASE SessionGivesUp
  <2>1. Where'
    BY <1>0, <1>4, PlanFacts, GrantFacts DEF SessionGivesUp, callVars, contextVars, localVars,
       serverVars, Where, Working, Before, Ending, Middle, Lifetime, Admitted
  <2>2. pc' \in Pcs
    BY <1>0, <1>4, <2>1 DEF SessionGivesUp, callVars, TypeOK, Where, Working, Pcs, Before,
       Ending, Lifetime
  <2>3. errs' \subseteq ErrorTags
    BY <1>a, <1>4 DEF SessionGivesUp, Fail, ErrorTags, Lifetime, Admitted
  <2>4. TypeOK'
    BY <1>0, <1>4, GrantFacts, <2>2, <2>3 DEF SessionGivesUp, callVars, contextVars, localVars,
       serverVars, TypeOK, Lifetime, Admitted
  <2>5. Transport'
    BY <1>0, <1>4, PlanFacts, <2>1 DEF SessionGivesUp, callVars, contextVars, localVars,
       serverVars, Transport, Bound, CleanupTransportLives, Where, Working, Before, Ending,
       Lifetime, Admitted
  <2>6. Ownership'
    BY <1>0, <1>4, PlanFacts, GrantFacts DEF SessionGivesUp, callVars, contextVars, localVars,
       serverVars, Ownership, Undecoded, Where, Working, Before, Ending, Middle, Lifetime,
       Admitted
  <2>7. Outcome'
    BY <1>0, <1>4, PlanFacts, GrantFacts DEF SessionGivesUp, callVars, contextVars, localVars,
       serverVars, Outcome, Where, Working, Before, Ending, Middle, Lifetime, Admitted
  <2>8. Browsing'
    BY <1>0, <1>4, PlanFacts, GrantFacts DEF SessionGivesUp, callVars, contextVars, localVars,
       serverVars, Browsing, Where, Working, Before, Ending, Middle, Lifetime, Admitted
  <2>9. QED
    BY <2>1, <2>4, <2>5, <2>6, <2>7, <2>8 DEF IInv
<1>5. CASE ForwardStarts
  <2>1. Where'
    BY <1>0, <1>5, PlanFacts, GrantFacts DEF ForwardStarts, callVars, localVars, serverVars,
       Where, Working, Before, Ending, Middle
  <2>2. pc' \in Pcs
    BY <1>0, <1>5, <2>1 DEF ForwardStarts, callVars, TypeOK, Where, Working, Pcs, Before, Ending
  <2>3. errs' \subseteq ErrorTags
    BY <1>a, <1>5 DEF ForwardStarts, Fail, ErrorTags
  <2>4. TypeOK'
    BY <1>0, <1>5, GrantFacts, <2>2, <2>3 DEF ForwardStarts, callVars, localVars, serverVars,
       TypeOK
  <2>5. Transport'
    BY <1>0, <1>5, PlanFacts, <2>1 DEF ForwardStarts, callVars, localVars, serverVars,
       Transport, Bound, CleanupTransportLives, Where, Working, Before, Ending
  <2>6. Ownership'
    BY <1>0, <1>5, PlanFacts, GrantFacts DEF ForwardStarts, callVars, localVars, serverVars,
       Ownership, Undecoded, Where, Working, Before, Ending, Middle
  <2>7. Outcome'
    BY <1>0, <1>5, PlanFacts, GrantFacts DEF ForwardStarts, callVars, localVars, serverVars,
       Outcome, Where, Working, Before, Ending, Middle
  <2>8. Browsing'
    BY <1>0, <1>5, PlanFacts, GrantFacts DEF ForwardStarts, callVars, localVars, serverVars,
       Browsing, Where, Working, Before, Ending, Middle
  <2>9. QED
    BY <2>1, <2>4, <2>5, <2>6, <2>7, <2>8 DEF IInv
<1>6. CASE ForwardCancels
  <2>1. Where'
    BY <1>0, <1>6, PlanFacts, GrantFacts DEF ForwardCancels, callVars, localVars, serverVars,
       Where, Working, Before, Ending, Middle
  <2>2. pc' \in Pcs
    BY <1>0, <1>6, <2>1 DEF ForwardCancels, callVars, TypeOK, Where, Working, Pcs, Before,
       Ending
  <2>3. errs' \subseteq ErrorTags
    BY <1>a, <1>6 DEF ForwardCancels, Fail, ErrorTags
  <2>4. TypeOK'
    BY <1>0, <1>6, GrantFacts, <2>2, <2>3 DEF ForwardCancels, callVars, localVars, serverVars,
       TypeOK
  <2>5. Transport'
    BY <1>0, <1>6, PlanFacts, <2>1 DEF ForwardCancels, callVars, localVars, serverVars,
       Transport, Bound, CleanupTransportLives, Where, Working, Before, Ending
  <2>6. Ownership'
    BY <1>0, <1>6, PlanFacts, GrantFacts DEF ForwardCancels, callVars, localVars, serverVars,
       Ownership, Undecoded, Where, Working, Before, Ending, Middle
  <2>7. Outcome'
    BY <1>0, <1>6, PlanFacts, GrantFacts DEF ForwardCancels, callVars, localVars, serverVars,
       Outcome, Where, Working, Before, Ending, Middle
  <2>8. Browsing'
    BY <1>0, <1>6, PlanFacts, GrantFacts DEF ForwardCancels, callVars, localVars, serverVars,
       Browsing, Where, Working, Before, Ending, Middle
  <2>9. QED
    BY <2>1, <2>4, <2>5, <2>6, <2>7, <2>8 DEF IInv
<1>7. QED
  BY <1>1, <1>2, <1>3, <1>4, <1>5, <1>6 DEF Environment, Forwarding

-----------------------------------------------------------------------------
\* From the start to the binding of IRemUnknown.
LEMMA StartSteps == IInv /\ (Start \/ BindRemote \/ Binding) => IInv'
<1> SUFFICES ASSUME IInv, Start \/ BindRemote \/ Binding PROVE IInv'
  OBVIOUS
<1>0. /\ TypeOK /\ Where /\ Transport /\ Ownership /\ Outcome /\ Browsing
      /\ kind \in {"read", "write", "browse", "properties"}
  BY ObjectCallsAssumption DEF IInv, TypeOK
<1>a. errs \subseteq ErrorTags
  BY <1>0 DEF TypeOK
<1>1. CASE Refuse
  <2>1. Where'
    BY <1>0, <1>1, PlanFacts, GrantFacts DEF Refuse, Goto, Fail, callVars, contextVars,
       localVars, serverVars, Where, Working, Before, Ending, Middle
  <2>2. pc' \in Pcs
    BY <1>0, <1>1, <2>1 DEF Refuse, callVars, TypeOK, Where, Working, Pcs, Before, Ending
  <2>3. errs' \subseteq ErrorTags
    BY <1>a, <1>1 DEF Refuse, Fail, ErrorTags
  <2>4. TypeOK'
    BY <1>0, <1>1, GrantFacts, <2>2, <2>3 DEF Refuse, Goto, Fail, callVars, contextVars,
       localVars, serverVars, TypeOK
  <2>5. Transport'
    BY <1>0, <1>1, PlanFacts, <2>1 DEF Refuse, Goto, Fail, callVars, contextVars, localVars,
       serverVars, Transport, Bound, CleanupTransportLives, Where, Working, Before, Ending
  <2>6. Ownership'
    BY <1>0, <1>1, PlanFacts, GrantFacts DEF Refuse, Goto, Fail, callVars, contextVars,
       localVars, serverVars, Ownership, Undecoded, Where, Working, Before, Ending, Middle
  <2>7. Outcome'
    BY <1>0, <1>1, PlanFacts, GrantFacts DEF Refuse, Goto, Fail, callVars, contextVars,
       localVars, serverVars, Outcome, Where, Working, Before, Ending, Middle
  <2>8. Browsing'
    BY <1>0, <1>1, PlanFacts, GrantFacts DEF Refuse, Goto, Fail, callVars, contextVars,
       localVars, serverVars, Browsing, Where, Working, Before, Ending, Middle
  <2>9. QED
    BY <2>1, <2>4, <2>5, <2>6, <2>7, <2>8 DEF IInv
<1>2. CASE Admit
  <2>1. Where'
    BY <1>0, <1>2, PlanFacts, GrantFacts DEF Admit, Goto, callVars, contextVars, localVars,
       serverVars, Where, Working, Before, Ending, Middle
  <2>2. pc' \in Pcs
    BY <1>0, <1>2, <2>1 DEF Admit, callVars, TypeOK, Where, Working, Pcs, Before, Ending
  <2>3. errs' \subseteq ErrorTags
    BY <1>a, <1>2 DEF Admit, Fail, ErrorTags
  <2>4. TypeOK'
    BY <1>0, <1>2, GrantFacts, <2>2, <2>3 DEF Admit, Goto, callVars, contextVars, localVars,
       serverVars, TypeOK
  <2>5. Transport'
    BY <1>0, <1>2, PlanFacts, <2>1 DEF Admit, Goto, callVars, contextVars, localVars,
       serverVars, Transport, Bound, CleanupTransportLives, Where, Working, Before, Ending
  <2>6. Ownership'
    BY <1>0, <1>2, PlanFacts, GrantFacts DEF Admit, Goto, callVars, contextVars, localVars,
       serverVars, Ownership, Undecoded, Where, Working, Before, Ending, Middle
  <2>7. Outcome'
    BY <1>0, <1>2, PlanFacts, GrantFacts DEF Admit, Goto, callVars, contextVars, localVars,
       serverVars, Outcome, Where, Working, Before, Ending, Middle
  <2>8. Browsing'
    BY <1>0, <1>2, PlanFacts, GrantFacts DEF Admit, Goto, callVars, contextVars, localVars,
       serverVars, Browsing, Where, Working, Before, Ending, Middle
  <2>9. QED
    BY <2>1, <2>4, <2>5, <2>6, <2>7, <2>8 DEF IInv
<1>3. CASE ArmRefused
  <2>1. Where'
    BY <1>0, <1>3, PlanFacts, GrantFacts DEF ArmRefused, Goto, Fail, callVars, contextVars,
       localVars, serverVars, Where, Working, Before, Ending, Middle
  <2>2. pc' \in Pcs
    BY <1>0, <1>3, <2>1 DEF ArmRefused, callVars, TypeOK, Where, Working, Pcs, Before, Ending
  <2>3. errs' \subseteq ErrorTags
    BY <1>a, <1>3 DEF ArmRefused, Fail, ErrorTags
  <2>4. TypeOK'
    BY <1>0, <1>3, GrantFacts, <2>2, <2>3 DEF ArmRefused, Goto, Fail, callVars, contextVars,
       localVars, serverVars, TypeOK
  <2>5. Transport'
    BY <1>0, <1>3, PlanFacts, <2>1 DEF ArmRefused, Goto, Fail, callVars, contextVars, localVars,
       serverVars, Transport, Bound, CleanupTransportLives, Where, Working, Before, Ending
  <2>6. Ownership'
    BY <1>0, <1>3, PlanFacts, GrantFacts DEF ArmRefused, Goto, Fail, callVars, contextVars,
       localVars, serverVars, Ownership, Undecoded, Where, Working, Before, Ending, Middle
  <2>7. Outcome'
    BY <1>0, <1>3, PlanFacts, GrantFacts DEF ArmRefused, Goto, Fail, callVars, contextVars,
       localVars, serverVars, Outcome, Where, Working, Before, Ending, Middle
  <2>8. Browsing'
    BY <1>0, <1>3, PlanFacts, GrantFacts DEF ArmRefused, Goto, Fail, callVars, contextVars,
       localVars, serverVars, Browsing, Where, Working, Before, Ending, Middle
  <2>9. QED
    BY <2>1, <2>4, <2>5, <2>6, <2>7, <2>8 DEF IInv
<1>4. CASE Arm
  <2>1. Where'
    BY <1>0, <1>4, PlanFacts, GrantFacts DEF Arm, Goto, callVars, localVars, serverVars, Where,
       Working, Before, Ending, Middle
  <2>2. pc' \in Pcs
    BY <1>0, <1>4, <2>1 DEF Arm, callVars, TypeOK, Where, Working, Pcs, Before, Ending
  <2>3. errs' \subseteq ErrorTags
    BY <1>a, <1>4 DEF Arm, Fail, ErrorTags
  <2>4. TypeOK'
    BY <1>0, <1>4, GrantFacts, <2>2, <2>3 DEF Arm, Goto, callVars, localVars, serverVars, TypeOK
  <2>5. Transport'
    BY <1>0, <1>4, PlanFacts, <2>1 DEF Arm, Goto, callVars, localVars, serverVars, Transport,
       Bound, CleanupTransportLives, Where, Working, Before, Ending
  <2>6. Ownership'
    BY <1>0, <1>4, PlanFacts, GrantFacts DEF Arm, Goto, callVars, localVars, serverVars,
       Ownership, Undecoded, Where, Working, Before, Ending, Middle
  <2>7. Outcome'
    BY <1>0, <1>4, PlanFacts, GrantFacts DEF Arm, Goto, callVars, localVars, serverVars,
       Outcome, Where, Working, Before, Ending, Middle
  <2>8. Browsing'
    BY <1>0, <1>4, PlanFacts, GrantFacts DEF Arm, Goto, callVars, localVars, serverVars,
       Browsing, Where, Working, Before, Ending, Middle
  <2>9. QED
    BY <2>1, <2>4, <2>5, <2>6, <2>7, <2>8 DEF IInv
<1>5. CASE BindRemote
  <2>1. Where'
    BY <1>0, <1>5, PlanFacts, GrantFacts DEF BindRemote, Goto, callVars, contextVars,
       serverVars, Where, Working, Before, Ending, Middle
  <2>2. pc' \in Pcs
    BY <1>0, <1>5, <2>1 DEF BindRemote, callVars, TypeOK, Where, Working, Pcs, Before, Ending
  <2>3. errs' \subseteq ErrorTags
    BY <1>a, <1>5 DEF BindRemote, Fail, ErrorTags
  <2>4. TypeOK'
    <3>1. conns' = <<"remote">> \/ conns' = conns
      BY <1>5 DEF BindRemote
    <3>2. conns' \in Seq(Interfaces \cup {"remote"})
      <4>1. conns \in Seq(Interfaces \cup {"remote"})
        BY <1>0 DEF TypeOK
      <4>2. <<>> \in Seq(Interfaces \cup {"remote"})
        OBVIOUS
      <4>3. <<"remote">> \in Seq(Interfaces \cup {"remote"})
        <5> "remote" \in Interfaces \cup {"remote"}
          OBVIOUS
        <5> QED
          OBVIOUS
      <4>4. QED
        BY <3>1, <4>1, <4>2, <4>3
    <3>3. QED
      BY <1>0, <1>5, <2>2, <2>3, <3>2 DEF BindRemote, callVars, contextVars, serverVars, TypeOK
  <2>5. Transport'
    BY <1>0, <1>5, PlanFacts, <2>1 DEF BindRemote, Goto, callVars, contextVars, serverVars,
       Transport, Bound, CleanupTransportLives, Where, Working, Before, Ending
  <2>6. Ownership'
    BY <1>0, <1>5, PlanFacts, GrantFacts DEF BindRemote, Goto, callVars, contextVars,
       serverVars, Ownership, Undecoded, Where, Working, Before, Ending, Middle
  <2>7. Outcome'
    BY <1>0, <1>5, PlanFacts, GrantFacts DEF BindRemote, Goto, callVars, contextVars,
       serverVars, Outcome, Where, Working, Before, Ending, Middle
  <2>8. Browsing'
    BY <1>0, <1>5, PlanFacts, GrantFacts DEF BindRemote, Goto, callVars, contextVars,
       serverVars, Browsing, Where, Working, Before, Ending, Middle
  <2>9. QED
    BY <2>1, <2>4, <2>5, <2>6, <2>7, <2>8 DEF IInv
<1>6. CASE StopBind
  <2>1. Where'
    BY <1>0, <1>6, PlanFacts, GrantFacts DEF StopBind, Goto, callVars, localVars, serverVars,
       Where, Working, Before, Ending, Middle
  <2>2. pc' \in Pcs
    BY <1>0, <1>6, <2>1 DEF StopBind, callVars, TypeOK, Where, Working, Pcs, Before, Ending
  <2>3. errs' \subseteq ErrorTags
    BY <1>a, <1>6 DEF StopBind, Fail, ErrorTags
  <2>4. TypeOK'
    BY <1>0, <1>6, GrantFacts, <2>2, <2>3 DEF StopBind, Goto, callVars, localVars, serverVars,
       TypeOK
  <2>5. Transport'
    BY <1>0, <1>6, PlanFacts, <2>1 DEF StopBind, Goto, callVars, localVars, serverVars,
       Transport, Bound, CleanupTransportLives, Where, Working, Before, Ending
  <2>6. Ownership'
    BY <1>0, <1>6, PlanFacts, GrantFacts DEF StopBind, Goto, callVars, localVars, serverVars,
       Ownership, Undecoded, Where, Working, Before, Ending, Middle
  <2>7. Outcome'
    BY <1>0, <1>6, PlanFacts, GrantFacts DEF StopBind, Goto, callVars, localVars, serverVars,
       Outcome, Where, Working, Before, Ending, Middle
  <2>8. Browsing'
    BY <1>0, <1>6, PlanFacts, GrantFacts DEF StopBind, Goto, callVars, localVars, serverVars,
       Browsing, Where, Working, Before, Ending, Middle
  <2>9. QED
    BY <2>1, <2>4, <2>5, <2>6, <2>7, <2>8 DEF IInv
<1>7. CASE CheckBind
  <2>1. Where'
    BY <1>0, <1>7, PlanFacts, GrantFacts DEF CheckBind, Goto, Fail, callVars, serverVars, Where,
       Working, Before, Ending, Middle, BindStands
  <2>2. pc' \in Pcs
    BY <1>0, <1>7, <2>1 DEF CheckBind, callVars, TypeOK, Where, Working, Pcs, Before, Ending
  <2>3. errs' \subseteq ErrorTags
    BY <1>a, <1>7 DEF CheckBind, Fail, ErrorTags, BindStands
  <2>4. TypeOK'
    <3>1. conns' = <<>> \/ conns' = conns
      BY <1>7 DEF CheckBind
    <3>2. conns' \in Seq(Interfaces \cup {"remote"})
      <4>1. conns \in Seq(Interfaces \cup {"remote"})
        BY <1>0 DEF TypeOK
      <4>2. <<>> \in Seq(Interfaces \cup {"remote"})
        OBVIOUS
      <4>3. <<"remote">> \in Seq(Interfaces \cup {"remote"})
        <5> "remote" \in Interfaces \cup {"remote"}
          OBVIOUS
        <5> QED
          OBVIOUS
      <4>4. QED
        BY <3>1, <4>1, <4>2, <4>3
    <3>3. QED
      BY <1>0, <1>7, <2>2, <2>3, <3>2 DEF CheckBind, callVars, contextVars, serverVars, TypeOK
  <2>5. Transport'
    <3>1. pc' \notin {"bindRemote", "stopBind", "checkBind"}
      BY <1>0, <1>7, PlanFacts DEF CheckBind, Goto, Fail, Before
    <3>2. BindStands => forward = "stopped" /\ transport = "live"
      BY <1>0, <1>7 DEF CheckBind, BindStands, Transport, TypeOK
    <3>3. ~BindStands => ~Bound'
      BY <1>0, <1>7, PlanFacts DEF CheckBind, Fail, Goto, Bound, callVars, Ending
    <3>4. BindStands => UNCHANGED <<transport, session, forward>>
      BY <1>7 DEF CheckBind
    <3>5. UNCHANGED <<ctx, forward>>
      BY <1>7 DEF CheckBind
    <3>6. QED
      BY <1>0, <3>1, <3>2, <3>3, <3>4, <3>5 DEF Transport, CleanupTransportLives
  <2>6. Ownership'
    BY <1>0, <1>7, PlanFacts, GrantFacts DEF CheckBind, Goto, Fail, callVars, serverVars,
       Ownership, Undecoded, Where, Working, Before, Ending, Middle, BindStands
  <2>7. Outcome'
    BY <1>0, <1>7, PlanFacts, GrantFacts DEF CheckBind, Goto, Fail, callVars, serverVars,
       Outcome, Where, Working, Before, Ending, Middle, BindStands
  <2>8. Browsing'
    BY <1>0, <1>7, PlanFacts, GrantFacts DEF CheckBind, Goto, Fail, callVars, serverVars,
       Browsing, Where, Working, Before, Ending, Middle, BindStands
  <2>9. QED
    BY <2>1, <2>4, <2>5, <2>6, <2>7, <2>8 DEF IInv
<1>8. QED
  BY <1>1, <1>2, <1>3, <1>4, <1>5, <1>6, <1>7 DEF Start, Binding

-----------------------------------------------------------------------------
\* The steps that have another one behind them.
LEMMA PlanSteps == IInv /\ (Obtain \/ ObtainFails \/ Decode \/ Bind \/ AddItem) => IInv'
<1> SUFFICES ASSUME IInv, Obtain \/ ObtainFails \/ Decode \/ Bind \/ AddItem PROVE IInv'
  OBVIOUS
<1>0. /\ TypeOK /\ Where /\ Transport /\ Ownership /\ Outcome /\ Browsing
      /\ kind \in {"read", "write", "browse", "properties"}
  BY ObjectCallsAssumption DEF IInv, TypeOK
<1>a. errs \subseteq ErrorTags
  BY <1>0 DEF TypeOK
<1>1. CASE Obtain
  <2>1. Where'
    BY <1>0, <1>1, PlanFacts, GrantFacts DEF Obtain, Goto, callVars, contextVars, Where,
       Working, Before, Ending, Middle, Remembered
  <2>2. pc' \in Pcs
    BY <1>0, <1>1, <2>1 DEF Obtain, callVars, TypeOK, Where, Working, Pcs, Before, Ending
  <2>3. errs' \subseteq ErrorTags
    BY <1>a, <1>1 DEF Obtain, Fail, ErrorTags, Remembered
  <2>4. TypeOK'
    BY <1>0, <1>1, GrantFacts, <2>2, <2>3 DEF Obtain, Goto, callVars, contextVars, TypeOK,
       Remembered
  <2>5. Transport'
    <3>1. Bound /\ pc' \notin {"bindRemote", "stopBind", "checkBind"}
      BY <1>0, <1>1, PlanFacts, GrantFacts DEF Obtain, Goto, Fail, Where, Working, Middle, Before,
         Ending, Bound
    <3>2. forward' = "stopped" /\ UNCHANGED <<transport, session, forward>>
      BY <1>0, <1>1, <3>1 DEF Obtain, contextVars, Transport
    <3>3. QED
      BY <1>0, <3>1, <3>2 DEF Transport, CleanupTransportLives
  <2>6. Ownership'
    <3>1. /\ pc \in PlanOf(kind) /\ pc' = After(kind, pc) /\ pc' \in PlanOf(kind)
      BY <1>0, <1>1, PlanFacts, GrantFacts DEF Obtain, Goto, Where, Working, Middle, Before,
         Ending
    <3>2. pc' \notin Before \cup Ending \cup {"returned"}
      BY <1>0, <3>1, PlanFacts
    <3>3. /\ held' = held \cup {Grant[pc]} /\ exists' = (exists \/ pc = "addGroup")
          /\ refs' = refs \cup Remembered(pc) /\ group' = (group \/ pc = "addGroup")
          /\ errs' = errs /\ pc \notin {"groupReference", "enumReference"}
      BY <1>1, GrantFacts DEF Obtain
    <3>4. errs = {} => held \subseteq refs /\ (exists => group)
      BY <1>0, <3>1, <3>3 DEF Ownership, Working, Undecoded
    <3>5. Remembered(pc) \cup Undecoded' = {Grant[pc]} \/ {Grant[pc]} \subseteq Remembered(pc)
      <4>1. CASE pc = "addGroup"
        BY <1>0, <3>1, <4>1, PlanFacts, GrantFacts DEF Remembered, Undecoded
      <4>2. CASE pc = "browse"
        BY <1>0, <3>1, <4>2, PlanFacts, GrantFacts DEF Remembered, Undecoded
      <4>3. CASE pc \notin {"addGroup", "browse"}
        BY <4>3 DEF Remembered
      <4>4. QED
        BY <4>1, <4>2, <4>3
    <3>6. errs = {} => held' \subseteq refs' \cup Undecoded'
      BY <3>3, <3>4, <3>5
    <3>7. QED
      BY <3>2, <3>3, <3>4, <3>6 DEF Ownership, Before, Ending
  <2>7. Outcome'
    BY <1>0, <1>1, PlanFacts, GrantFacts DEF Obtain, Goto, callVars, contextVars, Outcome,
       Where, Working, Before, Ending, Middle, Remembered
  <2>8. Browsing'
    BY <1>0, <1>1, PlanFacts, GrantFacts DEF Obtain, Goto, callVars, contextVars, Browsing,
       Where, Working, Before, Ending, Middle, Remembered
  <2>9. QED
    BY <2>1, <2>4, <2>5, <2>6, <2>7, <2>8 DEF IInv
<1>2. CASE ObtainFails
  <2>1. Where'
    BY <1>0, <1>2, PlanFacts, GrantFacts DEF ObtainFails, Goto, Fail, callVars, contextVars,
       localVars, Where, Working, Before, Ending, Middle
  <2>2. pc' \in Pcs
    BY <1>0, <1>2, <2>1 DEF ObtainFails, callVars, TypeOK, Where, Working, Pcs, Before, Ending
  <2>3. errs' \subseteq ErrorTags
    BY <1>a, <1>2 DEF ObtainFails, Fail, ErrorTags
  <2>4. TypeOK'
    BY <1>0, <1>2, GrantFacts, <2>2, <2>3 DEF ObtainFails, Goto, Fail, callVars, contextVars,
       localVars, TypeOK
  <2>5. Transport'
    <3>1. Bound /\ pc' \notin {"bindRemote", "stopBind", "checkBind"}
      BY <1>0, <1>2, PlanFacts, GrantFacts DEF ObtainFails, Goto, Fail, Where, Working, Middle,
         Before,
         Ending, Bound
    <3>2. forward' = "stopped" /\ UNCHANGED <<transport, session, forward>>
      BY <1>0, <1>2, <3>1 DEF ObtainFails, contextVars, Transport
    <3>3. QED
      BY <1>0, <3>1, <3>2 DEF Transport, CleanupTransportLives
  <2>6. Ownership'
    BY <1>0, <1>2, PlanFacts, GrantFacts DEF ObtainFails, Goto, Fail, callVars, contextVars,
       localVars, Ownership, Undecoded, Where, Working, Before, Ending, Middle
  <2>7. Outcome'
    BY <1>0, <1>2, PlanFacts, GrantFacts DEF ObtainFails, Goto, Fail, callVars, contextVars,
       localVars, Outcome, Where, Working, Before, Ending, Middle
  <2>8. Browsing'
    BY <1>0, <1>2, PlanFacts, GrantFacts DEF ObtainFails, Goto, Fail, callVars, contextVars,
       localVars, Browsing, Where, Working, Before, Ending, Middle
  <2>9. QED
    BY <2>1, <2>4, <2>5, <2>6, <2>7, <2>8 DEF IInv
<1>3. CASE Decode
  <2>1. Where'
    BY <1>0, <1>3, PlanFacts, GrantFacts DEF Decode, Goto, Fail, callVars, contextVars,
       serverVars, Where, Working, Before, Ending, Middle
  <2>2. pc' \in Pcs
    BY <1>0, <1>3, <2>1 DEF Decode, callVars, TypeOK, Where, Working, Pcs, Before, Ending
  <2>3. errs' \subseteq ErrorTags
    BY <1>a, <1>3 DEF Decode, Fail, ErrorTags
  <2>4. TypeOK'
    BY <1>0, <1>3, GrantFacts, <2>2, <2>3 DEF Decode, Goto, Fail, callVars, contextVars,
       serverVars, TypeOK
  <2>5. Transport'
    BY <1>0, <1>3, PlanFacts, <2>1 DEF Decode, Goto, Fail, callVars, contextVars, serverVars,
       Transport, Bound, CleanupTransportLives, Where, Working, Before, Ending
  <2>6. Ownership'
    BY <1>0, <1>3, PlanFacts, GrantFacts DEF Decode, Goto, Fail, callVars, contextVars,
       serverVars, Ownership, Undecoded, Where, Working, Before, Ending, Middle
  <2>7. Outcome'
    BY <1>0, <1>3, PlanFacts, GrantFacts DEF Decode, Goto, Fail, callVars, contextVars,
       serverVars, Outcome, Where, Working, Before, Ending, Middle
  <2>8. Browsing'
    BY <1>0, <1>3, PlanFacts, GrantFacts DEF Decode, Goto, Fail, callVars, contextVars,
       serverVars, Browsing, Where, Working, Before, Ending, Middle
  <2>9. QED
    BY <2>1, <2>4, <2>5, <2>6, <2>7, <2>8 DEF IInv
<1>4. CASE Bind
  <2>1. Where'
    BY <1>0, <1>4, PlanFacts, GrantFacts DEF Bind, Goto, Fail, callVars, contextVars,
       serverVars, Where, Working, Before, Ending, Middle
  <2>2. pc' \in Pcs
    BY <1>0, <1>4, <2>1 DEF Bind, callVars, TypeOK, Where, Working, Pcs, Before, Ending
  <2>3. errs' \subseteq ErrorTags
    BY <1>a, <1>4 DEF Bind, Fail, ErrorTags
  <2>4. TypeOK'
    BY <1>0, <1>4, GrantFacts, <2>2, <2>3 DEF Bind, Goto, Fail, callVars, contextVars,
       serverVars, TypeOK
  <2>5. Transport'
    <3>1. Bound /\ pc' \notin {"bindRemote", "stopBind", "checkBind"}
      BY <1>0, <1>4, PlanFacts, GrantFacts DEF Bind, Goto, Fail, Where, Working, Middle, Before,
         Ending, Bound
    <3>2. forward' = "stopped" /\ UNCHANGED <<transport, session, forward>>
      BY <1>0, <1>4, <3>1 DEF Bind, contextVars, Transport
    <3>3. QED
      BY <1>0, <3>1, <3>2 DEF Transport, CleanupTransportLives
  <2>6. Ownership'
    BY <1>0, <1>4, PlanFacts, GrantFacts DEF Bind, Goto, Fail, callVars, contextVars,
       serverVars, Ownership, Undecoded, Where, Working, Before, Ending, Middle
  <2>7. Outcome'
    BY <1>0, <1>4, PlanFacts, GrantFacts DEF Bind, Goto, Fail, callVars, contextVars,
       serverVars, Outcome, Where, Working, Before, Ending, Middle
  <2>8. Browsing'
    BY <1>0, <1>4, PlanFacts, GrantFacts DEF Bind, Goto, Fail, callVars, contextVars,
       serverVars, Browsing, Where, Working, Before, Ending, Middle
  <2>9. QED
    BY <2>1, <2>4, <2>5, <2>6, <2>7, <2>8 DEF IInv
<1>5. CASE AddItem
  <2>1. Where'
    BY <1>0, <1>5, PlanFacts, GrantFacts DEF AddItem, Goto, Fail, callVars, contextVars,
       localVars, serverVars, Where, Working, Before, Ending, Middle
  <2>2. pc' \in Pcs
    BY <1>0, <1>5, <2>1 DEF AddItem, callVars, TypeOK, Where, Working, Pcs, Before, Ending
  <2>3. errs' \subseteq ErrorTags
    BY <1>a, <1>5 DEF AddItem, Fail, ErrorTags
  <2>4. TypeOK'
    BY <1>0, <1>5, GrantFacts, <2>2, <2>3 DEF AddItem, Goto, Fail, callVars, contextVars,
       localVars, serverVars, TypeOK
  <2>5. Transport'
    BY <1>0, <1>5, PlanFacts, <2>1 DEF AddItem, Goto, Fail, callVars, contextVars, localVars,
       serverVars, Transport, Bound, CleanupTransportLives, Where, Working, Before, Ending
  <2>6. Ownership'
    BY <1>0, <1>5, PlanFacts, GrantFacts DEF AddItem, Goto, Fail, callVars, contextVars,
       localVars, serverVars, Ownership, Undecoded, Where, Working, Before, Ending, Middle
  <2>7. Outcome'
    BY <1>0, <1>5, PlanFacts, GrantFacts DEF AddItem, Goto, Fail, callVars, contextVars,
       localVars, serverVars, Outcome, Where, Working, Before, Ending, Middle
  <2>8. Browsing'
    BY <1>0, <1>5, PlanFacts, GrantFacts DEF AddItem, Goto, Fail, callVars, contextVars,
       localVars, serverVars, Browsing, Where, Working, Before, Ending, Middle
  <2>9. QED
    BY <2>1, <2>4, <2>5, <2>6, <2>7, <2>8 DEF IInv
<1>6. QED
  BY <1>1, <1>2, <1>3, <1>4, <1>5

-----------------------------------------------------------------------------
\* The read or write itself.
LEMMA LastSteps == IInv /\ (Read \/ WriteAcknowledged \/ WriteRefused \/ WriteUncertain) => IInv'
<1> SUFFICES ASSUME IInv, Read \/ WriteAcknowledged \/ WriteRefused \/ WriteUncertain PROVE IInv'
  OBVIOUS
<1>0. /\ TypeOK /\ Where /\ Transport /\ Ownership /\ Outcome /\ Browsing
      /\ kind \in {"read", "write", "browse", "properties"}
  BY ObjectCallsAssumption DEF IInv, TypeOK
<1>a. errs \subseteq ErrorTags
  BY <1>0 DEF TypeOK
<1>1. CASE Read
  <2>1. Where'
    BY <1>0, <1>1, PlanFacts, GrantFacts DEF Read, Goto, callVars, contextVars, localVars,
       serverVars, Where, Working, Before, Ending, Middle
  <2>2. pc' \in Pcs
    BY <1>0, <1>1, <2>1 DEF Read, callVars, TypeOK, Where, Working, Pcs, Before, Ending
  <2>3. errs' \subseteq ErrorTags
    BY <1>a, <1>1 DEF Read, Fail, ErrorTags
  <2>4. TypeOK'
    BY <1>0, <1>1, GrantFacts, <2>2, <2>3 DEF Read, Goto, callVars, contextVars, localVars,
       serverVars, TypeOK
  <2>5. Transport'
    BY <1>0, <1>1, PlanFacts, <2>1 DEF Read, Goto, callVars, contextVars, localVars, serverVars,
       Transport, Bound, CleanupTransportLives, Where, Working, Before, Ending
  <2>6. Ownership'
    BY <1>0, <1>1, PlanFacts, GrantFacts DEF Read, Goto, callVars, contextVars, localVars,
       serverVars, Ownership, Undecoded, Where, Working, Before, Ending, Middle
  <2>7. Outcome'
    BY <1>0, <1>1, PlanFacts, GrantFacts DEF Read, Goto, callVars, contextVars, localVars,
       serverVars, Outcome, Where, Working, Before, Ending, Middle
  <2>8. Browsing'
    BY <1>0, <1>1, PlanFacts, GrantFacts DEF Read, Goto, callVars, contextVars, localVars,
       serverVars, Browsing, Where, Working, Before, Ending, Middle
  <2>9. QED
    BY <2>1, <2>4, <2>5, <2>6, <2>7, <2>8 DEF IInv
<1>2. CASE WriteAcknowledged
  <2>1. Where'
    BY <1>0, <1>2, PlanFacts, GrantFacts DEF WriteAcknowledged, Goto, callVars, contextVars,
       Where, Working, Before, Ending, Middle, Execute
  <2>2. pc' \in Pcs
    BY <1>0, <1>2, <2>1 DEF WriteAcknowledged, callVars, TypeOK, Where, Working, Pcs, Before,
       Ending
  <2>3. errs' \subseteq ErrorTags
    BY <1>a, <1>2 DEF WriteAcknowledged, Fail, ErrorTags, Execute
  <2>4. TypeOK'
    BY <1>0, <1>2, GrantFacts, <2>2, <2>3 DEF WriteAcknowledged, Goto, callVars, contextVars,
       TypeOK, Execute
  <2>5. Transport'
    BY <1>0, <1>2, PlanFacts, <2>1 DEF WriteAcknowledged, Goto, callVars, contextVars,
       Transport, Bound, CleanupTransportLives, Where, Working, Before, Ending, Execute
  <2>6. Ownership'
    BY <1>0, <1>2, PlanFacts, GrantFacts DEF WriteAcknowledged, Goto, callVars, contextVars,
       Ownership, Undecoded, Where, Working, Before, Ending, Middle, Execute
  <2>7. Outcome'
    BY <1>0, <1>2, PlanFacts, GrantFacts DEF WriteAcknowledged, Goto, callVars, contextVars,
       Outcome, Where, Working, Before, Ending, Middle, Execute
  <2>8. Browsing'
    BY <1>0, <1>2, PlanFacts, GrantFacts DEF WriteAcknowledged, Goto, callVars, contextVars,
       Browsing, Where, Working, Before, Ending, Middle, Execute
  <2>9. QED
    BY <2>1, <2>4, <2>5, <2>6, <2>7, <2>8 DEF IInv
<1>3. CASE WriteRefused
  <2>1. Where'
    BY <1>0, <1>3, PlanFacts, GrantFacts DEF WriteRefused, Goto, Fail, callVars, contextVars,
       localVars, serverVars, Where, Working, Before, Ending, Middle
  <2>2. pc' \in Pcs
    BY <1>0, <1>3, <2>1 DEF WriteRefused, callVars, TypeOK, Where, Working, Pcs, Before, Ending
  <2>3. errs' \subseteq ErrorTags
    BY <1>a, <1>3 DEF WriteRefused, Fail, ErrorTags
  <2>4. TypeOK'
    BY <1>0, <1>3, GrantFacts, <2>2, <2>3 DEF WriteRefused, Goto, Fail, callVars, contextVars,
       localVars, serverVars, TypeOK
  <2>5. Transport'
    BY <1>0, <1>3, PlanFacts, <2>1 DEF WriteRefused, Goto, Fail, callVars, contextVars,
       localVars, serverVars, Transport, Bound, CleanupTransportLives, Where, Working, Before,
       Ending
  <2>6. Ownership'
    BY <1>0, <1>3, PlanFacts, GrantFacts DEF WriteRefused, Goto, Fail, callVars, contextVars,
       localVars, serverVars, Ownership, Undecoded, Where, Working, Before, Ending, Middle
  <2>7. Outcome'
    BY <1>0, <1>3, PlanFacts, GrantFacts DEF WriteRefused, Goto, Fail, callVars, contextVars,
       localVars, serverVars, Outcome, Where, Working, Before, Ending, Middle
  <2>8. Browsing'
    BY <1>0, <1>3, PlanFacts, GrantFacts DEF WriteRefused, Goto, Fail, callVars, contextVars,
       localVars, serverVars, Browsing, Where, Working, Before, Ending, Middle
  <2>9. QED
    BY <2>1, <2>4, <2>5, <2>6, <2>7, <2>8 DEF IInv
<1>4. CASE WriteUncertain
  <2>1. Where'
    BY <1>0, <1>4, PlanFacts, GrantFacts DEF WriteUncertain, Goto, Fail, callVars, contextVars,
       localVars, Where, Working, Before, Ending, Middle, Execute, Uncertain
  <2>2. pc' \in Pcs
    BY <1>0, <1>4, <2>1 DEF WriteUncertain, callVars, TypeOK, Where, Working, Pcs, Before,
       Ending
  <2>3. errs' \subseteq ErrorTags
    BY <1>a, <1>4 DEF WriteUncertain, Fail, ErrorTags, Execute, Uncertain
  <2>4. TypeOK'
    <3>1. applied' \in BOOLEAN
      BY <1>0, <1>4 DEF WriteUncertain, Execute, TypeOK
    <3>2. QED
      BY <1>0, <1>4, <2>2, <2>3, <3>1 DEF WriteUncertain, callVars, contextVars, localVars, TypeOK
  <2>5. Transport'
    BY <1>0, <1>4, PlanFacts, <2>1 DEF WriteUncertain, Goto, Fail, callVars, contextVars,
       localVars, Transport, Bound, CleanupTransportLives, Where, Working, Before, Ending,
       Execute, Uncertain
  <2>6. Ownership'
    BY <1>0, <1>4, PlanFacts, GrantFacts DEF WriteUncertain, Goto, Fail, callVars, contextVars,
       localVars, Ownership, Undecoded, Where, Working, Before, Ending, Middle, Execute,
       Uncertain
  <2>7. Outcome'
    BY <1>0, <1>4, PlanFacts, GrantFacts DEF WriteUncertain, Goto, Fail, callVars, contextVars,
       localVars, Outcome, Where, Working, Before, Ending, Middle, Execute, Uncertain
  <2>8. Browsing'
    BY <1>0, <1>4, PlanFacts, GrantFacts DEF WriteUncertain, Goto, Fail, callVars, contextVars,
       localVars, Browsing, Where, Working, Before, Ending, Middle, Execute, Uncertain
  <2>9. QED
    BY <2>1, <2>4, <2>5, <2>6, <2>7, <2>8 DEF IInv
<1>5. QED
  BY <1>1, <1>2, <1>3, <1>4

-----------------------------------------------------------------------------
\* The enumeration and the properties.
LEMMA EnumerationSteps ==
  IInv /\ (NextCheck \/ FullBatch \/ LastBatch \/ NextFails \/ Available \/ PropertyValues)
    => IInv'
<1> SUFFICES ASSUME IInv, NextCheck \/ FullBatch \/ LastBatch \/ NextFails \/ Available \/ PropertyValues PROVE IInv'
  OBVIOUS
<1>0. /\ TypeOK /\ Where /\ Transport /\ Ownership /\ Outcome /\ Browsing
      /\ kind \in {"read", "write", "browse", "properties"}
  BY ObjectCallsAssumption DEF IInv, TypeOK
<1>a. errs \subseteq ErrorTags
  BY <1>0 DEF TypeOK
<1>1. CASE NextCheck
  <2>1. Where'
    BY <1>0, <1>1, PlanFacts, GrantFacts DEF NextCheck, Goto, Fail, callVars, contextVars,
       localVars, serverVars, Where, Working, Before, Ending, Middle
  <2>2. pc' \in Pcs
    BY <1>0, <1>1, <2>1 DEF NextCheck, callVars, TypeOK, Where, Working, Pcs, Before, Ending
  <2>3. errs' \subseteq ErrorTags
    BY <1>a, <1>1 DEF NextCheck, Fail, ErrorTags
  <2>4. TypeOK'
    BY <1>0, <1>1, GrantFacts, <2>2, <2>3 DEF NextCheck, Goto, Fail, callVars, contextVars,
       localVars, serverVars, TypeOK
  <2>5. Transport'
    BY <1>0, <1>1, PlanFacts, <2>1 DEF NextCheck, Goto, Fail, callVars, contextVars, localVars,
       serverVars, Transport, Bound, CleanupTransportLives, Where, Working, Before, Ending
  <2>6. Ownership'
    BY <1>0, <1>1, PlanFacts, GrantFacts DEF NextCheck, Goto, Fail, callVars, contextVars,
       localVars, serverVars, Ownership, Undecoded, Where, Working, Before, Ending, Middle
  <2>7. Outcome'
    BY <1>0, <1>1, PlanFacts, GrantFacts DEF NextCheck, Goto, Fail, callVars, contextVars,
       localVars, serverVars, Outcome, Where, Working, Before, Ending, Middle
  <2>8. Browsing'
    BY <1>0, <1>1, PlanFacts, GrantFacts DEF NextCheck, Goto, Fail, callVars, contextVars,
       localVars, serverVars, Browsing, Where, Working, Before, Ending, Middle
  <2>9. QED
    BY <2>1, <2>4, <2>5, <2>6, <2>7, <2>8 DEF IInv
<1>2. CASE FullBatch
  <2>1. Where'
    BY <1>0, <1>2, PlanFacts, GrantFacts DEF FullBatch, Goto, callVars, contextVars, Where,
       Working, Before, Ending, Middle, Batches
  <2>2. pc' \in Pcs
    BY <1>0, <1>2, <2>1 DEF FullBatch, callVars, TypeOK, Where, Working, Pcs, Before, Ending
  <2>3. errs' \subseteq ErrorTags
    BY <1>a, <1>2 DEF FullBatch, Fail, ErrorTags, Batches
  <2>4. TypeOK'
    BY <1>0, <1>2, GrantFacts, <2>2, <2>3 DEF FullBatch, Goto, callVars, contextVars, TypeOK,
       Batches
  <2>5. Transport'
    BY <1>0, <1>2, PlanFacts, <2>1 DEF FullBatch, Goto, callVars, contextVars, Transport, Bound,
       CleanupTransportLives, Where, Working, Before, Ending, Batches
  <2>6. Ownership'
    BY <1>0, <1>2, PlanFacts, GrantFacts DEF FullBatch, Goto, callVars, contextVars, Ownership,
       Undecoded, Where, Working, Before, Ending, Middle, Batches
  <2>7. Outcome'
    BY <1>0, <1>2, PlanFacts, GrantFacts DEF FullBatch, Goto, callVars, contextVars, Outcome,
       Where, Working, Before, Ending, Middle, Batches
  <2>8. Browsing'
    BY <1>0, <1>2, PlanFacts, GrantFacts DEF FullBatch, Goto, callVars, contextVars, Browsing,
       Where, Working, Before, Ending, Middle, Batches
  <2>9. QED
    BY <2>1, <2>4, <2>5, <2>6, <2>7, <2>8 DEF IInv
<1>3. CASE LastBatch
  <2>1. Where'
    BY <1>0, <1>3, PlanFacts, GrantFacts DEF LastBatch, Goto, callVars, contextVars, localVars,
       Where, Working, Before, Ending, Middle, Batches, Collected
  <2>2. pc' \in Pcs
    BY <1>0, <1>3, <2>1 DEF LastBatch, callVars, TypeOK, Where, Working, Pcs, Before, Ending
  <2>3. errs' \subseteq ErrorTags
    BY <1>a, <1>3 DEF LastBatch, Fail, ErrorTags, Batches, Collected
  <2>4. TypeOK'
    BY <1>0, <1>3, GrantFacts, <2>2, <2>3 DEF LastBatch, Goto, callVars, contextVars, localVars,
       TypeOK, Batches, Collected
  <2>5. Transport'
    BY <1>0, <1>3, PlanFacts, <2>1 DEF LastBatch, Goto, callVars, contextVars, localVars,
       Transport, Bound, CleanupTransportLives, Where, Working, Before, Ending, Batches,
       Collected
  <2>6. Ownership'
    BY <1>0, <1>3, PlanFacts, GrantFacts DEF LastBatch, Goto, callVars, contextVars, localVars,
       Ownership, Undecoded, Where, Working, Before, Ending, Middle, Batches, Collected
  <2>7. Outcome'
    BY <1>0, <1>3, PlanFacts, GrantFacts DEF LastBatch, Goto, callVars, contextVars, localVars,
       Outcome, Where, Working, Before, Ending, Middle, Batches, Collected
  <2>8. Browsing'
    BY <1>0, <1>3, PlanFacts, GrantFacts DEF LastBatch, Goto, callVars, contextVars, localVars,
       Browsing, Where, Working, Before, Ending, Middle, Batches, Collected
  <2>9. QED
    BY <2>1, <2>4, <2>5, <2>6, <2>7, <2>8 DEF IInv
<1>4. CASE NextFails
  <2>1. Where'
    BY <1>0, <1>4, PlanFacts, GrantFacts DEF NextFails, Goto, Fail, callVars, contextVars,
       localVars, Where, Working, Before, Ending, Middle, Batches
  <2>2. pc' \in Pcs
    BY <1>0, <1>4, <2>1 DEF NextFails, callVars, TypeOK, Where, Working, Pcs, Before, Ending
  <2>3. errs' \subseteq ErrorTags
    BY <1>a, <1>4 DEF NextFails, Fail, ErrorTags, Batches
  <2>4. TypeOK'
    BY <1>0, <1>4, GrantFacts, <2>2, <2>3 DEF NextFails, Goto, Fail, callVars, contextVars,
       localVars, TypeOK, Batches
  <2>5. Transport'
    BY <1>0, <1>4, PlanFacts, <2>1 DEF NextFails, Goto, Fail, callVars, contextVars, localVars,
       Transport, Bound, CleanupTransportLives, Where, Working, Before, Ending, Batches
  <2>6. Ownership'
    BY <1>0, <1>4, PlanFacts, GrantFacts DEF NextFails, Goto, Fail, callVars, contextVars,
       localVars, Ownership, Undecoded, Where, Working, Before, Ending, Middle, Batches
  <2>7. Outcome'
    BY <1>0, <1>4, PlanFacts, GrantFacts DEF NextFails, Goto, Fail, callVars, contextVars,
       localVars, Outcome, Where, Working, Before, Ending, Middle, Batches
  <2>8. Browsing'
    BY <1>0, <1>4, PlanFacts, GrantFacts DEF NextFails, Goto, Fail, callVars, contextVars,
       localVars, Browsing, Where, Working, Before, Ending, Middle, Batches
  <2>9. QED
    BY <2>1, <2>4, <2>5, <2>6, <2>7, <2>8 DEF IInv
<1>5. CASE Available
  <2>1. Where'
    BY <1>0, <1>5, PlanFacts, GrantFacts DEF Available, Goto, Fail, callVars, contextVars,
       serverVars, Where, Working, Before, Ending, Middle
  <2>2. pc' \in Pcs
    BY <1>0, <1>5, <2>1 DEF Available, callVars, TypeOK, Where, Working, Pcs, Before, Ending
  <2>3. errs' \subseteq ErrorTags
    BY <1>a, <1>5 DEF Available, Fail, ErrorTags
  <2>4. TypeOK'
    BY <1>0, <1>5, GrantFacts, <2>2, <2>3 DEF Available, Goto, Fail, callVars, contextVars,
       serverVars, TypeOK
  <2>5. Transport'
    BY <1>0, <1>5, PlanFacts, <2>1 DEF Available, Goto, Fail, callVars, contextVars, serverVars,
       Transport, Bound, CleanupTransportLives, Where, Working, Before, Ending
  <2>6. Ownership'
    BY <1>0, <1>5, PlanFacts, GrantFacts DEF Available, Goto, Fail, callVars, contextVars,
       serverVars, Ownership, Undecoded, Where, Working, Before, Ending, Middle
  <2>7. Outcome'
    BY <1>0, <1>5, PlanFacts, GrantFacts DEF Available, Goto, Fail, callVars, contextVars,
       serverVars, Outcome, Where, Working, Before, Ending, Middle
  <2>8. Browsing'
    BY <1>0, <1>5, PlanFacts, GrantFacts DEF Available, Goto, Fail, callVars, contextVars,
       serverVars, Browsing, Where, Working, Before, Ending, Middle
  <2>9. QED
    BY <2>1, <2>4, <2>5, <2>6, <2>7, <2>8 DEF IInv
<1>6. CASE PropertyValues
  <2>1. Where'
    BY <1>0, <1>6, PlanFacts, GrantFacts DEF PropertyValues, Goto, callVars, contextVars,
       localVars, serverVars, Where, Working, Before, Ending, Middle
  <2>2. pc' \in Pcs
    BY <1>0, <1>6, <2>1 DEF PropertyValues, callVars, TypeOK, Where, Working, Pcs, Before,
       Ending
  <2>3. errs' \subseteq ErrorTags
    BY <1>a, <1>6 DEF PropertyValues, Fail, ErrorTags
  <2>4. TypeOK'
    BY <1>0, <1>6, GrantFacts, <2>2, <2>3 DEF PropertyValues, Goto, callVars, contextVars,
       localVars, serverVars, TypeOK
  <2>5. Transport'
    BY <1>0, <1>6, PlanFacts, <2>1 DEF PropertyValues, Goto, callVars, contextVars, localVars,
       serverVars, Transport, Bound, CleanupTransportLives, Where, Working, Before, Ending
  <2>6. Ownership'
    BY <1>0, <1>6, PlanFacts, GrantFacts DEF PropertyValues, Goto, callVars, contextVars,
       localVars, serverVars, Ownership, Undecoded, Where, Working, Before, Ending, Middle
  <2>7. Outcome'
    BY <1>0, <1>6, PlanFacts, GrantFacts DEF PropertyValues, Goto, callVars, contextVars,
       localVars, serverVars, Outcome, Where, Working, Before, Ending, Middle
  <2>8. Browsing'
    BY <1>0, <1>6, PlanFacts, GrantFacts DEF PropertyValues, Goto, callVars, contextVars,
       localVars, serverVars, Browsing, Where, Working, Before, Ending, Middle
  <2>9. QED
    BY <2>1, <2>4, <2>5, <2>6, <2>7, <2>8 DEF IInv
<1>7. QED
  BY <1>1, <1>2, <1>3, <1>4, <1>5, <1>6

-----------------------------------------------------------------------------
\* The unwinding.
LEMMA UnwindSteps == IInv /\ (Unwind) => IInv'
<1> SUFFICES ASSUME IInv, Unwind PROVE IInv'
  OBVIOUS
<1>0. /\ TypeOK /\ Where /\ Transport /\ Ownership /\ Outcome /\ Browsing
      /\ kind \in {"read", "write", "browse", "properties"}
  BY ObjectCallsAssumption DEF IInv, TypeOK
<1>a. errs \subseteq ErrorTags
  BY <1>0 DEF TypeOK
<1>1. CASE CloseConn
  <2>1. Where'
    BY <1>0, <1>1, PlanFacts, GrantFacts DEF CloseConn, callVars, contextVars, serverVars,
       Where, Working, Before, Ending, Middle
  <2>2. pc' \in Pcs
    BY <1>0, <1>1, <2>1 DEF CloseConn, callVars, TypeOK, Where, Working, Pcs, Before, Ending
  <2>3. errs' \subseteq ErrorTags
    BY <1>a, <1>1 DEF CloseConn, Fail, ErrorTags
  <2>4. TypeOK'
    <3>1. conns \in Seq(Interfaces \cup {"remote"}) /\ Len(conns) > 1
      BY <1>0, <1>1 DEF CloseConn, TypeOK
    <3>2. conns' = SubSeq(conns, 1, Len(conns) - 1)
      BY <1>1 DEF CloseConn, Front
    <3>3. conns' \in Seq(Interfaces \cup {"remote"})
      BY <3>1, <3>2
    <3>4. QED
      BY <1>0, <1>1, <2>2, <2>3, <3>3 DEF CloseConn, callVars, contextVars, serverVars, TypeOK
  <2>5. Transport'
    BY <1>0, <1>1, PlanFacts, <2>1 DEF CloseConn, callVars, contextVars, serverVars, Transport,
       Bound, CleanupTransportLives, Where, Working, Before, Ending
  <2>6. Ownership'
    BY <1>0, <1>1, PlanFacts, GrantFacts DEF CloseConn, callVars, contextVars, serverVars,
       Ownership, Undecoded, Where, Working, Before, Ending, Middle
  <2>7. Outcome'
    BY <1>0, <1>1, PlanFacts, GrantFacts DEF CloseConn, callVars, contextVars, serverVars,
       Outcome, Where, Working, Before, Ending, Middle
  <2>8. Browsing'
    BY <1>0, <1>1, PlanFacts, GrantFacts DEF CloseConn, callVars, contextVars, serverVars,
       Browsing, Where, Working, Before, Ending, Middle
  <2>9. QED
    BY <2>1, <2>4, <2>5, <2>6, <2>7, <2>8 DEF IInv
<1>2. CASE ReleaseNothing
  <2>1. Where'
    BY <1>0, <1>2, PlanFacts, GrantFacts DEF ReleaseNothing, Goto, callVars, contextVars,
       localVars, serverVars, Where, Working, Before, Ending, Middle
  <2>2. pc' \in Pcs
    BY <1>0, <1>2, <2>1 DEF ReleaseNothing, callVars, TypeOK, Where, Working, Pcs, Before,
       Ending
  <2>3. errs' \subseteq ErrorTags
    BY <1>a, <1>2 DEF ReleaseNothing, Fail, ErrorTags
  <2>4. TypeOK'
    BY <1>0, <1>2, GrantFacts, <2>2, <2>3 DEF ReleaseNothing, Goto, callVars, contextVars,
       localVars, serverVars, TypeOK
  <2>5. Transport'
    BY <1>0, <1>2, PlanFacts, <2>1 DEF ReleaseNothing, Goto, callVars, contextVars, localVars,
       serverVars, Transport, Bound, CleanupTransportLives, Where, Working, Before, Ending
  <2>6. Ownership'
    BY <1>0, <1>2, PlanFacts, GrantFacts DEF ReleaseNothing, Goto, callVars, contextVars,
       localVars, serverVars, Ownership, Undecoded, Where, Working, Before, Ending, Middle
  <2>7. Outcome'
    BY <1>0, <1>2, PlanFacts, GrantFacts DEF ReleaseNothing, Goto, callVars, contextVars,
       localVars, serverVars, Outcome, Where, Working, Before, Ending, Middle
  <2>8. Browsing'
    BY <1>0, <1>2, PlanFacts, GrantFacts DEF ReleaseNothing, Goto, callVars, contextVars,
       localVars, serverVars, Browsing, Where, Working, Before, Ending, Middle
  <2>9. QED
    BY <2>1, <2>4, <2>5, <2>6, <2>7, <2>8 DEF IInv
<1>3. CASE Release
  <2>1. Where'
    BY <1>0, <1>3, PlanFacts, GrantFacts DEF Release, Goto, callVars, contextVars, localVars,
       Where, Working, Before, Ending, Middle
  <2>2. pc' \in Pcs
    BY <1>0, <1>3, <2>1 DEF Release, callVars, TypeOK, Where, Working, Pcs, Before, Ending
  <2>3. errs' \subseteq ErrorTags
    BY <1>a, <1>3 DEF Release, Fail, ErrorTags
  <2>4. TypeOK'
    BY <1>0, <1>3, GrantFacts, <2>2, <2>3 DEF Release, Goto, callVars, contextVars, localVars,
       TypeOK
  <2>5. Transport'
    BY <1>0, <1>3, PlanFacts, <2>1 DEF Release, Goto, callVars, contextVars, localVars,
       Transport, Bound, CleanupTransportLives, Where, Working, Before, Ending
  <2>6. Ownership'
    BY <1>0, <1>3, PlanFacts, GrantFacts DEF Release, Goto, callVars, contextVars, localVars,
       Ownership, Undecoded, Where, Working, Before, Ending, Middle
  <2>7. Outcome'
    BY <1>0, <1>3, PlanFacts, GrantFacts DEF Release, Goto, callVars, contextVars, localVars,
       Outcome, Where, Working, Before, Ending, Middle
  <2>8. Browsing'
    BY <1>0, <1>3, PlanFacts, GrantFacts DEF Release, Goto, callVars, contextVars, localVars,
       Browsing, Where, Working, Before, Ending, Middle
  <2>9. QED
    BY <2>1, <2>4, <2>5, <2>6, <2>7, <2>8 DEF IInv
<1>4. CASE ReleaseFails
  <2>1. Where'
    BY <1>0, <1>4, PlanFacts, GrantFacts DEF ReleaseFails, Goto, Fail, callVars, contextVars,
       localVars, Where, Working, Before, Ending, Middle
  <2>2. pc' \in Pcs
    BY <1>0, <1>4, <2>1 DEF ReleaseFails, callVars, TypeOK, Where, Working, Pcs, Before, Ending
  <2>3. errs' \subseteq ErrorTags
    BY <1>a, <1>4 DEF ReleaseFails, Fail, ErrorTags
  <2>4. TypeOK'
    BY <1>0, <1>4, GrantFacts, <2>2, <2>3 DEF ReleaseFails, Goto, Fail, callVars, contextVars,
       localVars, TypeOK
  <2>5. Transport'
    BY <1>0, <1>4, PlanFacts, <2>1 DEF ReleaseFails, Goto, Fail, callVars, contextVars,
       localVars, Transport, Bound, CleanupTransportLives, Where, Working, Before, Ending
  <2>6. Ownership'
    BY <1>0, <1>4, PlanFacts, GrantFacts DEF ReleaseFails, Goto, Fail, callVars, contextVars,
       localVars, Ownership, Undecoded, Where, Working, Before, Ending, Middle
  <2>7. Outcome'
    BY <1>0, <1>4, PlanFacts, GrantFacts DEF ReleaseFails, Goto, Fail, callVars, contextVars,
       localVars, Outcome, Where, Working, Before, Ending, Middle
  <2>8. Browsing'
    BY <1>0, <1>4, PlanFacts, GrantFacts DEF ReleaseFails, Goto, Fail, callVars, contextVars,
       localVars, Browsing, Where, Working, Before, Ending, Middle
  <2>9. QED
    BY <2>1, <2>4, <2>5, <2>6, <2>7, <2>8 DEF IInv
<1>5. CASE RemoveGroup
  <2>1. Where'
    BY <1>0, <1>5, PlanFacts, GrantFacts DEF RemoveGroup, Goto, callVars, contextVars,
       localVars, Where, Working, Before, Ending, Middle
  <2>2. pc' \in Pcs
    BY <1>0, <1>5, <2>1 DEF RemoveGroup, callVars, TypeOK, Where, Working, Pcs, Before, Ending
  <2>3. errs' \subseteq ErrorTags
    BY <1>a, <1>5 DEF RemoveGroup, Fail, ErrorTags
  <2>4. TypeOK'
    BY <1>0, <1>5, GrantFacts, <2>2, <2>3 DEF RemoveGroup, Goto, callVars, contextVars,
       localVars, TypeOK
  <2>5. Transport'
    BY <1>0, <1>5, PlanFacts, <2>1 DEF RemoveGroup, Goto, callVars, contextVars, localVars,
       Transport, Bound, CleanupTransportLives, Where, Working, Before, Ending
  <2>6. Ownership'
    <3>1. /\ pc = "remove" /\ pc' = "closeRemote" /\ UNCHANGED <<group, held, refs>>
          /\ errs \subseteq errs'
      BY <1>5 DEF RemoveGroup, Goto, localVars
    <3>2. \/ ~group /\ exists' = exists /\ errs' = errs
          \/ ~exists' /\ errs' = errs
          \/ "remove" \in errs'
      BY <1>5 DEF RemoveGroup
    <3>3. /\ errs = {} => held = {} /\ (exists => group)
          /\ refs \cap held # {} => "release" \in errs
      BY <1>0, <3>1 DEF Ownership
    <3>4. pc' \notin Before \cup Working' \cup {"unwind"}
      BY <1>0, <1>5, <3>1, PlanFacts DEF RemoveGroup, callVars, Working, Before, Ending
    <3>5. QED
      BY <3>1, <3>2, <3>3, <3>4 DEF Ownership
  <2>7. Outcome'
    BY <1>0, <1>5, PlanFacts, GrantFacts DEF RemoveGroup, Goto, callVars, contextVars,
       localVars, Outcome, Where, Working, Before, Ending, Middle
  <2>8. Browsing'
    BY <1>0, <1>5, PlanFacts, GrantFacts DEF RemoveGroup, Goto, callVars, contextVars,
       localVars, Browsing, Where, Working, Before, Ending, Middle
  <2>9. QED
    BY <2>1, <2>4, <2>5, <2>6, <2>7, <2>8 DEF IInv
<1>6. CASE CloseRemote
  <2>1. Where'
    BY <1>0, <1>6, PlanFacts, GrantFacts DEF CloseRemote, Goto, callVars, contextVars,
       serverVars, Where, Working, Before, Ending, Middle
  <2>2. pc' \in Pcs
    BY <1>0, <1>6, <2>1 DEF CloseRemote, callVars, TypeOK, Where, Working, Pcs, Before, Ending
  <2>3. errs' \subseteq ErrorTags
    BY <1>a, <1>6 DEF CloseRemote, Fail, ErrorTags
  <2>4. TypeOK'
    BY <1>0, <1>6, GrantFacts, <2>2, <2>3 DEF CloseRemote, Goto, callVars, contextVars,
       serverVars, TypeOK
  <2>5. Transport'
    BY <1>0, <1>6, PlanFacts, <2>1 DEF CloseRemote, Goto, callVars, contextVars, serverVars,
       Transport, Bound, CleanupTransportLives, Where, Working, Before, Ending
  <2>6. Ownership'
    BY <1>0, <1>6, PlanFacts, GrantFacts DEF CloseRemote, Goto, callVars, contextVars,
       serverVars, Ownership, Undecoded, Where, Working, Before, Ending, Middle
  <2>7. Outcome'
    BY <1>0, <1>6, PlanFacts, GrantFacts DEF CloseRemote, Goto, callVars, contextVars,
       serverVars, Outcome, Where, Working, Before, Ending, Middle
  <2>8. Browsing'
    BY <1>0, <1>6, PlanFacts, GrantFacts DEF CloseRemote, Goto, callVars, contextVars,
       serverVars, Browsing, Where, Working, Before, Ending, Middle
  <2>9. QED
    BY <2>1, <2>4, <2>5, <2>6, <2>7, <2>8 DEF IInv
<1>7. CASE Leave
  <2>1. Where'
    BY <1>0, <1>7, PlanFacts, GrantFacts DEF Leave, Goto, callVars, localVars, serverVars,
       Where, Working, Before, Ending, Middle
  <2>2. pc' \in Pcs
    BY <1>0, <1>7, <2>1 DEF Leave, callVars, TypeOK, Where, Working, Pcs, Before, Ending
  <2>3. errs' \subseteq ErrorTags
    BY <1>a, <1>7 DEF Leave, Fail, ErrorTags
  <2>4. TypeOK'
    BY <1>0, <1>7, GrantFacts, <2>2, <2>3 DEF Leave, Goto, callVars, localVars, serverVars,
       TypeOK
  <2>5. Transport'
    BY <1>0, <1>7, PlanFacts, <2>1 DEF Leave, Goto, callVars, localVars, serverVars, Transport,
       Bound, CleanupTransportLives, Where, Working, Before, Ending
  <2>6. Ownership'
    BY <1>0, <1>7, PlanFacts, GrantFacts DEF Leave, Goto, callVars, localVars, serverVars,
       Ownership, Undecoded, Where, Working, Before, Ending, Middle
  <2>7. Outcome'
    BY <1>0, <1>7, PlanFacts, GrantFacts DEF Leave, Goto, callVars, localVars, serverVars,
       Outcome, Where, Working, Before, Ending, Middle
  <2>8. Browsing'
    BY <1>0, <1>7, PlanFacts, GrantFacts DEF Leave, Goto, callVars, localVars, serverVars,
       Browsing, Where, Working, Before, Ending, Middle
  <2>9. QED
    BY <2>1, <2>4, <2>5, <2>6, <2>7, <2>8 DEF IInv
<1>8. QED
  BY <1>1, <1>2, <1>3, <1>4, <1>5, <1>6, <1>7 DEF Unwind

-----------------------------------------------------------------------------
(* The theorems.                                                           *)

\* The inductive invariant holds.
THEOREM Invariant == Spec => []IInv
<1>1. IInv /\ [Next]_vars => IInv'
  <2> SUFFICES ASSUME IInv, [Next]_vars PROVE IInv'
    OBVIOUS
  <2>1. CASE UNCHANGED vars \/ Returned
    BY <2>1 DEF Returned, IInv, TypeOK, Where, Transport, Ownership, Outcome, Browsing, Bound,
       CleanupTransportLives, Undecoded, Working, Pcs, vars, callVars, contextVars, localVars,
       serverVars
  <2>2. QED
    BY <2>1, EnvironmentSteps, StartSteps, PlanSteps, LastSteps, EnumerationSteps, UnwindSteps
    DEF Next, Steps
<1>2. QED
  BY InitIInv, <1>1, PTL DEF Spec

\* Every variable keeps its type.
THEOREM TypeCorrect == Spec => []TypeOK
<1>1. IInv => TypeOK
  BY DEF IInv
<1>2. QED
  BY <1>1, Invariant, PTL

\* The transport for the clean-up survives the context of its operation.
THEOREM CleanupPossible == Spec => []CleanupTransportLives
<1>1. IInv => CleanupTransportLives
  BY DEF IInv, Transport
<1>2. QED
  BY <1>1, Invariant, PTL

\* What a call obtained is given back, or its error says so.
THEOREM AllGivenBack == Spec => []GivenBack
<1>1. IInv => GivenBack
  BY DEF IInv, Ownership, GivenBack
<1>2. QED
  BY <1>1, Invariant, PTL

\* The error of WriteItem tells what became of the write.
THEOREM WriteOutcomeTold == Spec => []WriteErrorTruthful
<1>1. IInv => WriteErrorTruthful
  BY DEF IInv, Outcome, WriteErrorTruthful
<1>2. QED
  BY <1>1, Invariant, PTL

\* The list of BrowseItemIDs is never partial, for any items and batches.
THEOREM BrowseComplete == Spec => []BrowseWhole
<1>1. IInv => BrowseWhole
  BY DEF IInv, Browsing, BrowseWhole, Ending
<1>2. QED
  BY <1>1, Invariant, PTL

-----------------------------------------------------------------------------
(* The values.                                                             *)

\* A call past its validation has a value that can be written; what was executed is
\* that value; what a read returns without an error is what the item holds.
Written ==
  /\ kind = "write" => input \in Inputs /\ (pc \notin {"begin", "returned"} => Valid)
  /\ applied => /\ kind = "write" /\ Valid
                /\ stored = [kind |-> input.kind, wire |-> writeVariant(input).wire]

ReadBack ==
  kind = "read" =>
    /\ stored \in StoredData
    /\ pc \in Ending \cup {"returned"} /\ errs = {} =>
         LET v == scalarValue(stored.kind, stored.wire) IN v.ok /\ result = v.value

VInv == Written /\ ReadBack

LEMMA InitVInv == Init => VInv
<1> SUFFICES ASSUME Init PROVE VInv
  OBVIOUS
<1>1. pc = "begin" /\ ~applied /\ "begin" \notin Ending \cup {"returned"}
  BY DEF Init, Ending
<1>2. kind = "write" => input \in Inputs
  BY DEF Init
<1>3. kind = "read" => stored \in StoredData
  BY DEF Init
<1>4. QED
  BY <1>1, <1>2, <1>3 DEF VInv, Written, ReadBack

\* A step that touches neither the value nor the result, and starts the unwinding
\* with an error only.
Quiet ==
  /\ UNCHANGED <<kind, input, stored, applied, result>>
  /\ pc' \notin {"begin", "returned"} => pc \notin {"begin", "returned"} \/ Valid
  /\ pc' \in Ending \cup {"returned"} /\ errs' = {} =>
       errs = {} /\ pc \in Ending \cup {"returned"}

LEMMA QuietSteps == VInv /\ Quiet => VInv'
<1> SUFFICES ASSUME VInv, Quiet PROVE VInv'
  OBVIOUS
<1>1. Valid' = Valid
  BY DEF Quiet, Valid
<1>2. Written'
  BY <1>1 DEF VInv, Quiet, Written
<1>3. ReadBack'
  BY DEF VInv, Quiet, ReadBack
<1>4. QED
  BY <1>2, <1>3 DEF VInv

LEMMA QuietEnvironment == IInv /\ (Environment \/ Forwarding \/ Returned) => Quiet
<1> SUFFICES ASSUME IInv, Environment \/ Forwarding \/ Returned PROVE Quiet
  OBVIOUS
<1>1. UNCHANGED <<kind, input, pc, stored, applied, result, errs>>
  BY DEF Environment, Forwarding, Returned, CtxEnds, SessionCloses, SessionDown,
     SessionGivesUp, Lifetime, ForwardStarts, ForwardCancels, callVars, serverVars, vars
<1>2. QED
  BY <1>1 DEF Quiet

LEMMA QuietStart == IInv /\ (Start \/ BindRemote \/ Binding) => Quiet
<1> SUFFICES ASSUME IInv, Start \/ BindRemote \/ Binding PROVE Quiet
  OBVIOUS
<1>0. kind \in {"read", "write", "browse", "properties"}
  BY ObjectCallsAssumption DEF IInv, TypeOK
<1>1. CASE Refuse
  BY <1>1 DEF Refuse, Fail, Goto, Quiet, callVars, serverVars
<1>2. CASE Admit
  BY <1>2 DEF Admit, Goto, Quiet, Ending, callVars, serverVars
<1>3. CASE ArmRefused \/ Arm
  BY <1>3 DEF ArmRefused, Arm, Fail, Goto, Quiet, Ending, callVars, serverVars
<1>4. CASE BindRemote \/ StopBind
  BY <1>4 DEF BindRemote, StopBind, Goto, Quiet, Ending, callVars, serverVars
<1>5. CASE CheckBind
  <2>1. Plan[kind][1] \notin Ending \cup {"returned"}
    BY <1>0, PlanFacts
  <2>2. QED
    BY <1>5, <2>1 DEF CheckBind, Fail, Goto, Quiet, callVars, serverVars
<1>6. QED
  BY <1>1, <1>2, <1>3, <1>4, <1>5 DEF Start, Binding

LEMMA QuietPlan ==
    IInv /\ (Obtain \/ ObtainFails \/ Decode \/ Bind \/ AddItem) => Quiet
<1> SUFFICES ASSUME IInv, Obtain \/ ObtainFails \/ Decode \/ Bind \/ AddItem PROVE Quiet
  OBVIOUS
<1>0. Where /\ kind \in {"read", "write", "browse", "properties"}
  BY ObjectCallsAssumption DEF IInv, TypeOK
<1>1. pc \in Middle
  BY DEF Obtain, ObtainFails, Decode, Bind, AddItem, Middle
<1>2. pc \in PlanOf(kind) /\ pc \notin {"begin", "returned"}
  BY <1>0, <1>1, GrantFacts DEF Where, Working, Middle, Before, Ending
<1>3. After(kind, pc) \notin Ending \cup {"returned"}
  BY <1>0, <1>1, <1>2, PlanFacts
<1>4. QED
  BY <1>2, <1>3 DEF Obtain, ObtainFails, Decode, Bind, AddItem, Fail, Goto, Quiet, callVars,
     contextVars, localVars, serverVars

LEMMA QuietUnwind ==
    IInv /\ (CloseConn \/ ReleaseNothing \/ Release \/ ReleaseFails \/ RemoveGroup \/ CloseRemote)
      => Quiet
<1> SUFFICES ASSUME IInv, CloseConn \/ ReleaseNothing \/ Release \/ ReleaseFails
                            \/ RemoveGroup \/ CloseRemote
             PROVE  Quiet
  OBVIOUS
<1>1. CASE CloseConn \/ CloseRemote
  BY <1>1 DEF CloseConn, CloseRemote, Goto, Quiet, Ending, callVars, serverVars
<1>2. CASE ReleaseNothing \/ Release \/ ReleaseFails
  BY <1>2 DEF ReleaseNothing, Release, ReleaseFails, Fail, Goto, Quiet, Ending, callVars,
     serverVars
<1>3. CASE RemoveGroup
  BY <1>3 DEF RemoveGroup, Goto, Quiet, Ending, callVars, serverVars
<1>4. QED
  BY <1>1, <1>2, <1>3

LEMMA NextVInv == VInv /\ IInv /\ Next => VInv'
<1> SUFFICES ASSUME VInv, IInv, Next PROVE VInv'
  OBVIOUS
<1>0. Where /\ Outcome /\ kind \in {"read", "write", "browse", "properties"}
  BY ObjectCallsAssumption DEF IInv, TypeOK
<1>1. CASE Environment \/ Forwarding \/ Returned \/ Start \/ BindRemote \/ Binding
  BY <1>1, QuietEnvironment, QuietStart, QuietSteps
<1>2. CASE Obtain \/ ObtainFails \/ Decode \/ Bind \/ AddItem
  BY <1>2, QuietPlan, QuietSteps
<1>3. CASE CloseConn \/ ReleaseNothing \/ Release \/ ReleaseFails \/ RemoveGroup \/ CloseRemote
  BY <1>3, QuietUnwind, QuietSteps
<1>4. CASE Read
  <2>1. UNCHANGED <<kind, input, stored, applied>> /\ pc = "read" /\ pc' = "unwind"
    BY <1>4 DEF Read, Goto, callVars, serverVars
  <2>2. Written'
    BY <2>1 DEF VInv, Written, Valid
  <2>3. errs' = {} => LET v == scalarValue(stored.kind, stored.wire) IN v.ok /\ result' = v.value
    BY <1>4 DEF Read
  <2>4. ReadBack'
    BY <2>1, <2>3 DEF VInv, ReadBack
  <2>5. QED
    BY <2>2, <2>4 DEF VInv
<1>5. CASE WriteAcknowledged \/ WriteUncertain
  <2>1. pc = "write" /\ pc' = "unwind" /\ UNCHANGED <<kind, input>>
    BY <1>5 DEF WriteAcknowledged, WriteUncertain, Fail, Goto, callVars
  <2>2. kind = "write"
    BY <1>0, <2>1, PlanFacts DEF Where, Working, Before, Ending
  <2>3. Valid /\ Valid'
    BY <2>1, <2>2 DEF VInv, Written, Valid
  <2>4. Execute \/ UNCHANGED <<stored, applied>>
    BY <1>5 DEF WriteAcknowledged, WriteUncertain
  <2>5. Written'
    BY <2>1, <2>2, <2>3, <2>4 DEF VInv, Written, Execute
  <2>6. QED
    BY <2>1, <2>2, <2>5 DEF VInv, ReadBack
<1>6. CASE WriteRefused \/ NextCheck \/ FullBatch \/ NextFails
  <2>1. pc \notin {"begin", "returned"} /\ Quiet
    BY <1>6 DEF WriteRefused, NextCheck, FullBatch, NextFails, Fail, Goto, Quiet, Ending,
       callVars, localVars, serverVars
  <2>2. QED
    BY <2>1, QuietSteps
<1>7. CASE LastBatch \/ Available \/ PropertyValues
  <2>1. kind # "read" /\ UNCHANGED <<kind, input, stored, applied>> /\ pc # "begin"
        /\ pc # "returned"
    BY <1>0, <1>7, PlanFacts DEF LastBatch, Available, PropertyValues, Where, Working, Before,
       Ending, callVars, serverVars
  <2>2. Written'
    BY <2>1 DEF VInv, Written, Valid
  <2>3. QED
    BY <2>1, <2>2 DEF VInv, ReadBack
<1>8. CASE Leave
  <2>1. /\ UNCHANGED <<kind, input, stored, applied>> /\ pc = "leave" /\ pc' = "returned"
        /\ errs' = {} => errs = {} /\ result' = result
    BY <1>8 DEF Leave, Goto, callVars, serverVars
  <2>2. Written'
    BY <2>1 DEF VInv, Written, Valid
  <2>3. ReadBack'
    BY <2>1 DEF VInv, ReadBack, Ending
  <2>4. QED
    BY <2>2, <2>3 DEF VInv
<1>9. QED
  BY <1>1, <1>2, <1>3, <1>4, <1>5, <1>6, <1>7, <1>8 DEF Next, Steps, Unwind

\* What was written is what is read, and what is read is sound, for every value the
\* item and the caller can have: all instants, all bounds, all nestings.
THEOREM WrittenValueKept == Spec => []ValuesKept
<1>1. VInv /\ IInv /\ [Next]_vars => VInv'
  <2> SUFFICES ASSUME VInv, IInv, UNCHANGED vars PROVE VInv'
    BY NextVInv
  <2>1. Quiet
    BY DEF Quiet, vars, callVars, serverVars
  <2>2. QED
    BY <2>1, QuietSteps
<1>2. VInv => ValuesKept
  <2> SUFFICES ASSUME VInv PROVE ValuesKept
    OBVIOUS
  <2>1. ASSUME applied
        PROVE  LET v == scalarValue(stored.kind, stored.wire) IN v.ok /\ v.value = Meaning(input)
    <3>1. /\ input \in Inputs /\ writeVariant(input).ok
          /\ stored.kind = input.kind /\ stored.wire = writeVariant(input).wire
      BY <2>1 DEF VInv, Written, Valid
    <3>2. input.kind \in ValueKinds /\ input.value \in Writable(input.kind)
      BY <3>1, ObjectCallsAssumption
    <3>3. QED
      BY <3>1, <3>2, ValueRoundTrip
  <2>2. ASSUME pc = "returned", kind = "read", errs = {}
        PROVE  Sound(stored.kind, result)
    <3>1. /\ stored \in StoredData /\ scalarValue(stored.kind, stored.wire).ok
          /\ result = scalarValue(stored.kind, stored.wire).value
      BY <2>2 DEF VInv, ReadBack
    <3>2. stored.kind \in ValueKinds /\ stored.wire \in Readable(stored.kind)
      BY <3>1, ObjectCallsAssumption
    <3>3. QED
      BY <3>1, <3>2, ReadValueSound
  <2>3. QED
    BY <2>1, <2>2 DEF ValuesKept
<1>3. QED
  BY InitVInv, <1>1, <1>2, Invariant, PTL DEF Spec
=============================================================================
