------------------------- MODULE ViewerControlProofs -------------------------
(***************************************************************************)
(* Type correctness of ViewerControl and the invariant of the handlers'    *)
(* decisions, for any finite sets of viewers and of Subscribe streams, any *)
(* set of goroutines and any number of address lookups.                    *)
(***************************************************************************)
EXTENDS ViewerControl, FiniteSetTheorems, TLAPS

\* A viewer's route is one of the two.
LEMMA RouteType == \A v \in Viewers: RouteOf(v) \in Routes
  BY DEF RouteOf, Routes

\* The constant "exact" that Subscribe uses is one of the routes.
LEMMA ExactRoute == "exact" \in Routes
  BY DEF Routes

\* A route has no subscribers exactly when the count says so.
LEMMA CountZero ==
  ASSUME TypeOK, NEW r \in Routes
  PROVE  SubCount(r) = 0 <=> subs[r] = {}
<1>1. IsFiniteSet(Viewers \cup Streams)
  BY ViewersAssumption, FS_Union
<1>2. IsFiniteSet(subs[r])
  BY <1>1, FS_Subset DEF TypeOK
<1> QED
  BY <1>2, FS_EmptySet DEF SubCount

\* A step of the specification keeps every value in its type.
LEMMA TypeStep == TypeOK /\ [Next]_vars => TypeOK'
<1> SUFFICES ASSUME TypeOK, [Next]_vars PROVE TypeOK'
  OBVIOUS
<1> USE TriesAssumption DEF TypeOK
<1>1. ASSUME NEW v \in Viewers, ViewerStep(v) PROVE TypeOK'
  <2> USE RouteType
  <2>1. CASE Join(v) \/ Leave(v)
    BY <2>1 DEF Join, Leave, callVars
  <2>2. CASE CountJoin(v) \/ CountLeave(v)
    <3>1. outlived' \in [Routes -> BOOLEAN]
      <4>1. StreamsOnly(RouteOf(v)) \in BOOLEAN
        BY DEF StreamsOnly
      <4> QED
        BY <2>2, <4>1 DEF CountJoin, CountLeave
    <3> QED
      BY <2>2, <3>1 DEF CountJoin, CountLeave, Spawn, callVars
  <2> QED
    BY <1>1, <2>1, <2>2 DEF ViewerStep
<1>2. ASSUME NEW c \in Calls, CallStep(c) \/ LoseRequest(c) PROVE TypeOK'
  <2>1. CASE RetryAgent(c)
    BY <2>1 DEF RetryAgent, viewVars
  <2>2. CASE FindAgent(c) \/ GiveUp(c) \/ Serve(c) \/ LoseRequest(c)
    BY <2>2 DEF FindAgent, GiveUp, Serve, LoseRequest, Finish, viewVars
  <2> QED
    BY <1>2, <2>1, <2>2 DEF CallStep
<1>3. CASE FirstBatch \/ SessionRecreated
  BY <1>3 DEF FirstBatch, SessionRecreated, viewVars, callVars
<1>4. ASSUME NEW g \in Streams, StreamStep(g) PROVE TypeOK'
  BY <1>4, ExactRoute DEF StreamStep, Subscribe, EndSubscribe, callVars
<1>5. CASE UNCHANGED vars
  BY <1>5 DEF vars, viewVars, callVars
<1> QED
  BY <1>1, <1>2, <1>3, <1>4, <1>5 DEF Next

\* The initial values are in their types.
LEMMA InitType == Init => TypeOK
<1> SUFFICES ASSUME Init PROVE TypeOK
  OBVIOUS
<1>1. tries \in [Calls -> 0 .. MaxTries]
  BY TriesAssumption DEF Init
<1>2. /\ subs \in [Routes -> SUBSET (Viewers \cup Streams)]
      /\ decided \in [Routes -> {"none", "enable", "disable"}]
      /\ outlived \in [Routes -> BOOLEAN]
  BY DEF Init
<1>3. known \in BOOLEAN /\ flag \in BOOLEAN
  BY Zenon DEF Init
<1> QED
  BY <1>1, <1>2, <1>3 DEF Init, TypeOK

\* Every value stays in its type; the lookups are bounded by MaxTries.
THEOREM TypeCorrect == Spec => []TypeOK
<1> QED
  BY InitType, TypeStep, PTL DEF Spec

\* What the decision invariant needs besides types: a viewer that has joined
\* or is watching is registered, so that a decision to enable, which only a
\* registered viewer takes, is taken for a route with a subscriber.
RegisteredInv ==
  \A v \in Viewers: viewPc[v] \in {"joined", "watching"} => v \in subs[RouteOf(v)]

IInv == TypeOK /\ RegisteredInv /\ EmptyMeansDisabledLast

\* However viewers overlap, a route whose viewers are gone and have counted was
\* not last decided to be enabled, unless the last to count counted channels
\* of Subscribe only: for any number of viewers, streams and goroutines, with
\* requests lost and sessions recreated at any time.
THEOREM DecisionSafe == Spec => []EmptyMeansDisabledLast
<1>1. Init => IInv
  <2>1. Init => RegisteredInv /\ EmptyMeansDisabledLast
    BY DEF Init, RegisteredInv, EmptyMeansDisabledLast
  <2> QED
    BY <2>1, InitType DEF IInv
<1>2. IInv /\ [Next]_vars => IInv'
  <2> SUFFICES ASSUME IInv, [Next]_vars PROVE IInv'
    OBVIOUS
  <2> USE DEF IInv
  <2>0. TypeOK'
    BY TypeStep
  <2>1. ASSUME NEW v \in Viewers, ViewerStep(v) PROVE IInv'
    <3>0. RouteOf(v) \in Routes
      BY RouteType
    <3>1. CASE Join(v)
      <4>1. RegisteredInv'
        BY <3>0, <3>1, RouteType DEF Join, TypeOK, RegisteredInv
      <4>2. EmptyMeansDisabledLast'
        BY <3>0, <3>1 DEF Join, TypeOK, EmptyMeansDisabledLast
      <4> QED
        BY <2>0, <4>1, <4>2
    <3>2. CASE CountJoin(v)
      <4>1. RegisteredInv'
        BY <3>0, <3>2 DEF CountJoin, TypeOK, RegisteredInv
      <4>2. subs[RouteOf(v)] \cap Viewers # {}
        BY <3>2 DEF CountJoin, RegisteredInv
      <4>3. EmptyMeansDisabledLast'
        BY <3>0, <3>2, <4>2 DEF CountJoin, TypeOK, EmptyMeansDisabledLast
      <4> QED
        BY <2>0, <4>1, <4>3
    <3>3. CASE Leave(v)
      <4>1. RegisteredInv'
        BY <3>0, <3>3, RouteType DEF Leave, TypeOK, RegisteredInv
      <4>2. EmptyMeansDisabledLast'
        BY <3>0, <3>3 DEF Leave, TypeOK, EmptyMeansDisabledLast
      <4> QED
        BY <2>0, <4>1, <4>2
    <3>4. CASE CountLeave(v)
      <4>1. RegisteredInv'
        BY <3>0, <3>4 DEF CountLeave, TypeOK, RegisteredInv
      <4>2. \/ subs[RouteOf(v)] \cap Viewers # {}
            \/ decided'[RouteOf(v)] = "disable"
            \/ outlived'[RouteOf(v)]
        BY <3>0, <3>4, CountZero DEF CountLeave, StreamsOnly, TypeOK
      <4>3. EmptyMeansDisabledLast'
        BY <3>0, <3>4, <4>2 DEF CountLeave, TypeOK, EmptyMeansDisabledLast
      <4> QED
        BY <2>0, <4>1, <4>3
    <3> QED
      BY <2>1, <3>1, <3>2, <3>3, <3>4 DEF ViewerStep
  <2>5. ASSUME NEW g \in Streams, StreamStep(g) PROVE IInv'
    <3>1. \A r \in Routes: subs'[r] \cap Viewers = subs[r] \cap Viewers
      BY <2>5, ViewersAssumption DEF StreamStep, Subscribe, EndSubscribe, TypeOK
    <3>2. UNCHANGED <<viewPc, decided, outlived>>
      BY <2>5 DEF StreamStep, Subscribe, EndSubscribe
    <3>3. RegisteredInv'
      BY <3>1, <3>2, RouteType DEF RegisteredInv
    <3>4. EmptyMeansDisabledLast'
      BY <3>1, <3>2 DEF EmptyMeansDisabledLast
    <3> QED
      BY <2>0, <3>3, <3>4
  <2>2. ASSUME UNCHANGED viewVars PROVE IInv'
    BY <2>0, <2>2 DEF viewVars, RegisteredInv, EmptyMeansDisabledLast
  <2>3. ASSUME NEW c \in Calls, CallStep(c) \/ LoseRequest(c) PROVE UNCHANGED viewVars
    BY <2>3 DEF CallStep, FindAgent, RetryAgent, GiveUp, Serve, LoseRequest
  <2>4. FirstBatch \/ SessionRecreated \/ UNCHANGED vars => UNCHANGED viewVars
    BY DEF FirstBatch, SessionRecreated, vars
  <2> QED
    BY <2>1, <2>2, <2>3, <2>4, <2>5 DEF Next
<1>3. IInv => EmptyMeansDisabledLast
  BY DEF IInv
<1> QED
  BY <1>1, <1>2, <1>3, PTL DEF Spec
-----------------------------------------------------------------------------
(* Viewers of the query route who come and go one at a time. *)

Query == subs["query"]
Pending(v) == viewPc[v] \in {"joined", "left"}
Busy(c) == callPc[c] # "idle"

\* Exactly the viewers that have joined and not left are registered, and no
\* one else on their route; on the other there are streams at most.
Sound ==
  /\ TypeOK /\ known
  /\ subs["exact"] \cap Viewers = {}
  /\ Query \subseteq Viewers
  /\ \A v \in Viewers: v \in Query <=> viewPc[v] \in {"joined", "watching"}

\* One thing at a time: a viewer between registering and counting, or a call.
OneAtATime ==
  /\ \A v \in Viewers: Pending(v) =>
       /\ \A w \in Viewers: Pending(w) => w = v
       /\ \A c \in Calls: ~Busy(c)
  /\ \A c \in Calls: Busy(c) =>
       /\ \A d \in Calls: Busy(d) => d = c
       /\ tries[c] = 0

\* What the flag is before each step that may change the need for it.
FlagFits ==
  /\ \A v \in Viewers: viewPc[v] = "joined" => (flag <=> Query # {v})
  /\ \A v \in Viewers: viewPc[v] = "left" => flag
  /\ \A c \in Calls: Busy(c) => (callKind[c] = "enable" <=> Query # {})
  /\ Calm => (flag <=> Query # {})

UInv == Sound /\ OneAtATime /\ FlagFits

\* A viewer that has just registered is alone exactly when it counts one.
LEMMA CountOne ==
  ASSUME TypeOK, NEW v \in Query
  PROVE  SubCount("query") = 1 <=> Query = {v}
<1>1. Query \in SUBSET (Viewers \cup Streams)
  BY DEF Query, TypeOK, Routes
<1>2. IsFiniteSet(Query)
  BY <1>1, ViewersAssumption, FS_Union, FS_Subset
<1>3. Cardinality(Query) = 1 <=> \E x: Query = {x}
  BY <1>2, FS_Singleton
<1> QED
  BY <1>3 DEF SubCount, Query

LEMMA UnhurriedStep ==
  ASSUME ExactViewers = {}
  PROVE  UInv /\ [UnhurriedNext]_vars => UInv'
<1> SUFFICES ASSUME UInv, [UnhurriedNext]_vars PROVE UInv'
  OBVIOUS
<1> USE DEF UInv
<1>0. TypeOK'
  <2>1. [Next]_vars
    BY DEF UnhurriedNext, Next, ViewerStep
  <2> QED
    BY <2>1, TypeStep DEF Sound
<1>R. \A v \in Viewers: RouteOf(v) = "query"
  BY DEF RouteOf, Viewers
<1>1. ASSUME NEW v \in Viewers, Calm, Join(v) PROVE UInv'
  <2>1. Query' = Query \cup {v} /\ v \notin Query
    BY <1>1, <1>R DEF Join, Sound, TypeOK, Query, Routes
  <2>2. Sound'
    BY <1>0, <1>1, <1>R, <2>1 DEF Join, Sound, TypeOK, Query, Routes
  <2>3. OneAtATime' /\ FlagFits'
    BY <1>1, <2>1 DEF Join, Calm, OneAtATime, FlagFits, Pending, Busy, Sound, TypeOK, callVars
  <2> QED
    BY <2>2, <2>3
<1>2. ASSUME NEW v \in Viewers, Calm, Leave(v) PROVE UInv'
  <2>1. Query' = Query \ {v} /\ v \in Query
    BY <1>2, <1>R DEF Leave, Sound, TypeOK, Query, Routes
  <2>2. Sound'
    BY <1>0, <1>2, <1>R, <2>1 DEF Leave, Sound, TypeOK, Query, Routes
  <2>3. OneAtATime' /\ FlagFits'
    BY <1>2, <2>1 DEF Leave, Calm, OneAtATime, FlagFits, Pending, Busy, Sound, TypeOK, callVars
  <2> QED
    BY <2>2, <2>3
<1>3. ASSUME NEW v \in Viewers, CountJoin(v) PROVE UInv'
  <2>1. v \in Query /\ Query' = Query /\ flag' = flag
    BY <1>3 DEF CountJoin, Sound, Query
  <2>2. Sound'
    BY <1>0, <1>3 DEF CountJoin, Sound, TypeOK, Query
  <2>3. CASE Query = {v}
    <3>1. PICK c \in Calls: Spawn(c, "enable")
      BY <1>3, <1>R, <2>1, <2>3, CountOne DEF CountJoin, Sound
    <3>2. OneAtATime' /\ FlagFits'
      BY <1>3, <2>1, <2>3, <3>1
         DEF CountJoin, Spawn, Calm, OneAtATime, FlagFits, Pending, Busy, Sound, TypeOK
    <3> QED
      BY <2>2, <3>2
  <2>4. CASE Query # {v}
    <3>1. UNCHANGED callVars
      BY <1>3, <1>R, <2>1, <2>4, CountOne DEF CountJoin, Sound
    <3>2. OneAtATime' /\ FlagFits'
      BY <1>3, <2>1, <2>4, <3>1
         DEF CountJoin, callVars, Calm, OneAtATime, FlagFits, Pending, Busy, Sound, TypeOK
    <3> QED
      BY <2>2, <3>2
  <2> QED
    BY <2>3, <2>4
<1>4. ASSUME NEW v \in Viewers, CountLeave(v) PROVE UInv'
  <2>1. Query' = Query /\ flag' = flag
    BY <1>4 DEF CountLeave, Query
  <2>2. Sound'
    BY <1>0, <1>4 DEF CountLeave, Sound, TypeOK, Query
  <2>0. SubCount("query") = 0 <=> Query = {}
    BY CountZero DEF Sound, Routes, Query
  <2>3. CASE Query = {}
    <3>1. PICK c \in Calls: Spawn(c, "disable")
      BY <1>4, <1>R, <2>0, <2>3 DEF CountLeave
    <3>2. OneAtATime' /\ FlagFits'
      BY <1>4, <2>1, <2>3, <3>1
         DEF CountLeave, Spawn, Calm, OneAtATime, FlagFits, Pending, Busy, Sound, TypeOK
    <3> QED
      BY <2>2, <3>2
  <2>4. CASE Query # {}
    <3>1. UNCHANGED callVars
      BY <1>4, <1>R, <2>0, <2>4 DEF CountLeave
    <3>2. OneAtATime' /\ FlagFits'
      BY <1>4, <2>1, <2>4, <3>1
         DEF CountLeave, callVars, Calm, OneAtATime, FlagFits, Pending, Busy, Sound, TypeOK
    <3> QED
      BY <2>2, <3>2
  <2> QED
    BY <2>3, <2>4
<1>5. ASSUME NEW c \in Calls, FindAgent(c) PROVE UInv'
  <2>1. Sound' /\ Query' = Query
    BY <1>0, <1>5 DEF FindAgent, Sound, Query, viewVars
  <2>2. OneAtATime' /\ FlagFits'
    BY <1>5, <2>1
       DEF FindAgent, viewVars, Calm, OneAtATime, FlagFits, Pending, Busy, Sound, TypeOK
  <2> QED
    BY <2>1, <2>2
<1>6. ASSUME NEW c \in Calls, Serve(c) PROVE UInv'
  <2>1. Sound' /\ Query' = Query
    BY <1>0, <1>6 DEF Serve, Sound, Query, viewVars
  <2>2. /\ \A v \in Viewers: ~Pending(v)
        /\ \A d \in Calls: Busy(d) => d = c
    BY <1>6 DEF Serve, OneAtATime, Busy
  <2>3. viewPc' = viewPc /\ \A d \in Calls: ~Busy(d)'
    BY <1>6, <2>2 DEF Serve, Finish, viewVars, Busy, Sound, TypeOK
  <2>4. flag' <=> Query # {}
    BY <1>6 DEF Serve, FlagFits, Busy
  <2>5. OneAtATime'
    BY <2>2, <2>3 DEF OneAtATime, Pending
  <2>6. FlagFits'
    BY <2>1, <2>2, <2>3, <2>4 DEF FlagFits, Pending
  <2> QED
    BY <2>1, <2>5, <2>6
<1>7. ASSUME NEW c \in Calls PROVE ~RetryAgent(c) /\ ~GiveUp(c)
  BY TriesAssumption DEF RetryAgent, GiveUp, Sound, OneAtATime, Busy, TypeOK
<1>9. ASSUME NEW g \in Streams, StreamStep(g) PROVE UInv'
  <2>0. /\ Query' = Query
        /\ subs'["exact"] = subs["exact"] \cup {g} \/ subs'["exact"] = subs["exact"] \ {g}
    BY <1>9 DEF StreamStep, Subscribe, EndSubscribe, Query, Sound, TypeOK, Routes
  <2>1. /\ Query' = Query
        /\ subs'["exact"] \cap Viewers = subs["exact"] \cap Viewers
        /\ UNCHANGED <<viewPc, known, callVars, flag>>
    <3>1. g \notin Viewers
      BY ViewersAssumption
    <3>2. UNCHANGED <<viewPc, known, callVars, flag>>
      BY <1>9 DEF StreamStep, Subscribe, EndSubscribe
    <3> QED
      BY <2>0, <3>1, <3>2
  <2>2. Sound'
    BY <1>0, <2>1 DEF Sound
  <2>3. OneAtATime' /\ FlagFits'
    BY <2>1 DEF OneAtATime, FlagFits, Pending, Busy, Calm, callVars
  <2> QED
    BY <2>2, <2>3
<1>8. CASE UNCHANGED vars
  BY <1>0, <1>8
     DEF vars, viewVars, callVars, Sound, OneAtATime, FlagFits, Query, Pending, Busy, Calm
<1> QED
  BY <1>1, <1>2, <1>3, <1>4, <1>5, <1>6, <1>7, <1>8, <1>9 DEF UnhurriedNext, CallStep

\* Viewers of the query route, however many, who come and go one at a time,
\* and any Subscribe streams on the other: whenever all is calm the agent
\* decodes exactly while somebody watches.
THEOREM UnhurriedSafe ==
  ASSUME ExactViewers = {}
  PROVE  UnhurriedSpec => []DecodedIffWatched
<1>1. ReliableInit => UInv
  <2> SUFFICES ASSUME ReliableInit PROVE UInv
    OBVIOUS
  <2>1. TypeOK
    BY InitType DEF ReliableInit
  <2> QED
    BY <2>1 DEF ReliableInit, Init, UInv, Sound, OneAtATime, FlagFits, Query, Pending,
                Busy, Calm, Routes
<1>2. UInv => DecodedIffWatched
  BY DEF UInv, Sound, FlagFits, DecodedIffWatched, Watched, Query, Routes
<1>3. UInv /\ [UnhurriedNext]_vars => UInv'
  BY UnhurriedStep
<1> QED
  BY <1>1, <1>2, <1>3, PTL DEF UnhurriedSpec
=============================================================================
