---------------------------- MODULE ViewerControl ----------------------------
(***************************************************************************)
(* Who decides that the agent decodes: the two packet WebSocket handlers   *)
(* of the API server register and unregister viewers of one pod and        *)
(* interface, count them in a separate step, and start a goroutine that    *)
(* enables tshark on the agent for the first and disables it after the     *)
(* last. The goroutines look the agent's address up, call it once and      *)
(* forget the answer; nothing orders them. The gRPC method Subscribe puts  *)
(* its channel into the same list as the handler of the exact session; it  *)
(* is counted there by the others and counts nothing itself.               *)
(***************************************************************************)
EXTENDS Naturals, FiniteSets

CONSTANTS
  QueryViewers,   \* connections to /ws/packets?pod=...&interface=...
  ExactViewers,   \* connections to /ws/packets/:node/:pod/:interface
  Streams,        \* gRPC Subscribe streams for the exact session
  Calls,          \* goroutines running CallEnableTshark or CallDisableTshark
  MaxTries        \* address lookups of CallEnableTshark (10 in the code)

Viewers == QueryViewers \cup ExactViewers
Routes  == {"query", "exact"}
RouteOf(v) == IF v \in QueryViewers THEN "query" ELSE "exact"

ASSUME ViewersAssumption ==
  /\ IsFiniteSet(Viewers) /\ IsFiniteSet(Streams)
  /\ QueryViewers \cap ExactViewers = {}
  /\ Viewers \cap Streams = {}
ASSUME TriesAssumption == MaxTries \in Nat \ {0}

VARIABLES
  subs,       \* [Routes -> registered channels]: wildcardSubs and subs
  viewPc,     \* [Viewers -> where the handler is]
  decided,    \* [Routes -> the last call a handler decided on], a history
  outlived,   \* [Routes -> the last handler to count counted streams only],
              \* a history that EmptyMeansDisabledLast reads
  known,      \* the agent's address is in nodeIndex and agentIPIndex
  callPc,     \* [Calls -> where the goroutine, or the RPC it sent, is]
  callKind,   \* [Calls -> "enable" or "disable"]
  tries,      \* [Calls -> failed address lookups so far]
  flag        \* the agent's tsharkEnabled for this session

viewVars == <<subs, viewPc, decided, outlived>>
callVars == <<callPc, callKind, tries>>
vars == <<viewVars, known, callVars, flag>>

TypeOK ==
  /\ subs \in [Routes -> SUBSET (Viewers \cup Streams)]
  /\ viewPc \in [Viewers -> {"out", "joined", "watching", "left"}]
  /\ decided \in [Routes -> {"none", "enable", "disable"}]
  /\ outlived \in [Routes -> BOOLEAN]
  /\ known \in BOOLEAN
  /\ callPc \in [Calls -> {"idle", "addr", "rpc"}]
  /\ callKind \in [Calls -> {"enable", "disable"}]
  /\ tries \in [Calls -> 0 .. MaxTries]
  /\ flag \in BOOLEAN

Init ==
  /\ subs = [r \in Routes |-> {}]
  /\ viewPc = [v \in Viewers |-> "out"]
  /\ decided = [r \in Routes |-> "none"]
  /\ outlived = [r \in Routes |-> FALSE]
  /\ known \in BOOLEAN
  /\ callPc = [c \in Calls |-> "idle"]
  /\ callKind = [c \in Calls |-> "enable"]
  /\ tries = [c \in Calls |-> 0]
  /\ flag = FALSE
-----------------------------------------------------------------------------
(* The handlers StreamPackets (exact) and StreamPacketsQuery (query). *)

\* GetSubCount and GetWildcardSubCount, under the read lock: every channel of
\* the list counts, whoever registered it.
SubCount(r) == Cardinality(subs[r])
StreamsOnly(r) == subs[r] # {} /\ subs[r] \cap Viewers = {}

\* go srv.CallEnableTshark(...) or go srv.CallDisableTshark(...).
Spawn(c, kind) ==
  /\ callPc[c] = "idle"
  /\ callPc' = [callPc EXCEPT ![c] = "addr"]
  /\ callKind' = [callKind EXCEPT ![c] = kind]
  /\ tries' = [tries EXCEPT ![c] = 0]

\* RegisterSubscriber or RegisterWildcardSubscriber, under the lock.
Join(v) ==
  /\ viewPc[v] = "out"
  /\ subs' = [subs EXCEPT ![RouteOf(v)] = @ \cup {v}]
  /\ viewPc' = [viewPc EXCEPT ![v] = "joined"]
  /\ UNCHANGED <<decided, outlived, known, callVars, flag>>

\* The count after registering: exactly one subscriber, and it is us or it is
\* not; the read lock was released in between.
CountJoin(v) ==
  /\ viewPc[v] = "joined"
  /\ viewPc' = [viewPc EXCEPT ![v] = "watching"]
  /\ outlived' = [outlived EXCEPT ![RouteOf(v)] = FALSE]
  /\ \/ /\ SubCount(RouteOf(v)) = 1
        /\ \E c \in Calls: Spawn(c, "enable")
        /\ decided' = [decided EXCEPT ![RouteOf(v)] = "enable"]
     \/ /\ SubCount(RouteOf(v)) # 1
        /\ UNCHANGED <<decided, callVars>>
  /\ UNCHANGED <<subs, known, flag>>

\* The client closes or a write fails: the deferred function unsubscribes.
Leave(v) ==
  /\ viewPc[v] = "watching"
  /\ subs' = [subs EXCEPT ![RouteOf(v)] = @ \ {v}]
  /\ viewPc' = [viewPc EXCEPT ![v] = "left"]
  /\ UNCHANGED <<decided, outlived, known, callVars, flag>>

\* Faulty variant: the count meant for before unsubscribing, one too many.
CountLeaveOffByOne(v) ==
  /\ viewPc[v] = "left"
  /\ viewPc' = [viewPc EXCEPT ![v] = "out"]
  /\ outlived' = [outlived EXCEPT ![RouteOf(v)] = StreamsOnly(RouteOf(v))]
  /\ \/ /\ SubCount(RouteOf(v)) = 1
        /\ \E c \in Calls: Spawn(c, "disable")
        /\ decided' = [decided EXCEPT ![RouteOf(v)] = "disable"]
     \/ /\ SubCount(RouteOf(v)) # 1
        /\ UNCHANGED <<decided, callVars>>
  /\ UNCHANGED <<subs, known, flag>>

\* The count after unsubscribing.
CountLeave(v) ==
  /\ viewPc[v] = "left"
  /\ viewPc' = [viewPc EXCEPT ![v] = "out"]
  /\ outlived' = [outlived EXCEPT ![RouteOf(v)] = StreamsOnly(RouteOf(v))]
  /\ \/ /\ SubCount(RouteOf(v)) = 0
        /\ \E c \in Calls: Spawn(c, "disable")
        /\ decided' = [decided EXCEPT ![RouteOf(v)] = "disable"]
     \/ /\ SubCount(RouteOf(v)) # 0
        /\ UNCHANGED <<decided, callVars>>
  /\ UNCHANGED <<subs, known, flag>>

\* The gRPC method Subscribe registers a channel for the exact session, and
\* unregisters it when the stream ends: it neither counts nor decides.
Subscribe(g) ==
  /\ g \notin subs["exact"]
  /\ subs' = [subs EXCEPT !["exact"] = @ \cup {g}]
  /\ UNCHANGED <<viewPc, decided, outlived, known, callVars, flag>>

EndSubscribe(g) ==
  /\ g \in subs["exact"]
  /\ subs' = [subs EXCEPT !["exact"] = @ \ {g}]
  /\ UNCHANGED <<viewPc, decided, outlived, known, callVars, flag>>
-----------------------------------------------------------------------------
(* The goroutines CallEnableTshark and CallDisableTshark. *)

Finish(c) == callPc' = [callPc EXCEPT ![c] = "idle"]

\* getCaptureAgentAddr finds an address; the client is dialled lazily.
FindAgent(c) ==
  /\ callPc[c] = "addr"
  /\ known
  /\ tries[c] < MaxTries
  /\ callPc' = [callPc EXCEPT ![c] = "rpc"]
  /\ UNCHANGED <<viewVars, known, callKind, tries, flag>>

\* Faulty variant: a loop that does not count.
RetryForever(c) ==
  /\ callPc[c] = "addr" /\ ~known /\ callKind[c] = "enable"
  /\ tries[c] < MaxTries
  /\ UNCHANGED vars

\* No address yet: enabling sleeps 200 ms and tries again, MaxTries times.
RetryAgent(c) ==
  /\ callPc[c] = "addr"
  /\ ~known
  /\ callKind[c] = "enable"
  /\ tries[c] < MaxTries
  /\ tries' = [tries EXCEPT ![c] = @ + 1]
  /\ UNCHANGED <<viewVars, known, callPc, callKind, flag>>

\* Enabling has used up its lookups, or disabling has failed its only one.
GiveUp(c) ==
  /\ callPc[c] = "addr"
  /\ callKind[c] = "enable" => tries[c] = MaxTries
  /\ callKind[c] = "disable" => ~known
  /\ Finish(c)
  /\ UNCHANGED <<viewVars, known, callKind, tries, flag>>

\* The agent serves the request (EnableTshark or DisableTshark of its control
\* server). Nothing is done with the answer, so a request served after the
\* caller's deadline is no different.
Serve(c) ==
  /\ callPc[c] = "rpc"
  /\ flag' = (callKind[c] = "enable")
  /\ Finish(c)
  /\ UNCHANGED <<viewVars, known, callKind, tries>>

\* The request never reaches the agent: the RPC fails or times out.
LoseRequest(c) ==
  /\ callPc[c] = "rpc"
  /\ Finish(c)
  /\ UNCHANGED <<viewVars, known, callKind, tries, flag>>
-----------------------------------------------------------------------------
(* The agent. *)

\* The first batch that carries the agent's pod IP (StreamPackets of the
\* capture server) registers its address for good.
FirstBatch ==
  /\ ~known
  /\ known' = TRUE
  /\ UNCHANGED <<viewVars, callVars, flag>>

\* The agent restarts, or the session is torn down and created again by
\* Reconcile: a new session starts with the flag off.
SessionRecreated ==
  /\ flag
  /\ flag' = FALSE
  /\ UNCHANGED <<viewVars, known, callVars>>
-----------------------------------------------------------------------------
ViewerStep(v) == Join(v) \/ CountJoin(v) \/ Leave(v) \/ CountLeave(v)

StreamStep(g) == Subscribe(g) \/ EndSubscribe(g)

CallStep(c) ==
  FindAgent(c) \/ RetryAgent(c) \/ GiveUp(c) \/ Serve(c)

Next ==
  \/ \E v \in Viewers: ViewerStep(v)
  \/ \E g \in Streams: StreamStep(g)
  \/ \E c \in Calls: CallStep(c) \/ LoseRequest(c)
  \/ FirstBatch \/ SessionRecreated

\* Handlers and goroutines are scheduled and every RPC has a deadline; when
\* viewers come and go, and when the agent sends a batch, is not ours to say.
Fairness ==
  /\ \A v \in Viewers: WF_vars(CountJoin(v) \/ CountLeave(v))
  /\ \A c \in Calls: WF_vars(CallStep(c) \/ LoseRequest(c))

Spec == Init /\ [][Next]_vars /\ Fairness

\* No request is lost, the agent stays up and its address is known throughout.
ReliableNext ==
  \/ \E v \in Viewers: ViewerStep(v)
  \/ \E g \in Streams: StreamStep(g)
  \/ \E c \in Calls: CallStep(c)

ReliableInit == Init /\ known
ReliableSpec ==
  /\ ReliableInit /\ [][ReliableNext]_vars
  /\ \A v \in Viewers: WF_vars(CountJoin(v) \/ CountLeave(v))
  /\ \A c \in Calls: WF_vars(CallStep(c))

\* No viewer is between (un)registering and counting, no call is under way.
Calm ==
  /\ \A v \in Viewers: viewPc[v] \in {"out", "watching"}
  /\ \A c \in Calls: callPc[c] = "idle"

\* Besides, viewers come and go one at a time: the next only when all is calm.
UnhurriedNext ==
  \/ \E v \in Viewers: Calm /\ (Join(v) \/ Leave(v))
  \/ \E v \in Viewers: CountJoin(v) \/ CountLeave(v)
  \/ \E g \in Streams: StreamStep(g)
  \/ \E c \in Calls: CallStep(c)

UnhurriedSpec ==
  /\ ReliableInit /\ [][UnhurriedNext]_vars
  /\ \A v \in Viewers: WF_vars(CountJoin(v) \/ CountLeave(v))
  /\ \A c \in Calls: WF_vars(CallStep(c))
-----------------------------------------------------------------------------
(* Properties. *)

Watched == \E r \in Routes: subs[r] \cap Viewers # {}

\* However viewers overlap, when the last viewer of a route is gone and has
\* looked at the count, the last thing decided for that route was not to
\* enable: with registration and count two separate steps, the handlers of
\* packets.go never end on a decision to decode for nobody - except where the
\* last of them to look counted nothing but the channels of Subscribe, which
\* never look themselves (see UnwatchedIsNot for what comes of it). What
\* remains wrong after that is only the order in which the agent is called.
EmptyMeansDisabledLast ==
  \A r \in Routes:
    decided[r] = "enable" =>
      \/ subs[r] \cap Viewers # {}
      \/ \E v \in Viewers: RouteOf(v) = r /\ viewPc[v] = "left"
      \/ outlived[r]

\* Every goroutine the handlers start ends, also when the agent never
\* registers: CallEnableTshark's lookups are bounded, the RPC has a deadline.
CallsEnd == \A c \in Calls: callPc[c] # "idle" ~> callPc[c] = "idle"

\* When all is calm the session is decoded exactly when somebody watches it.
\* It holds for viewers of the query route who come and go one at a time,
\* whatever Subscribe does on the other; see WatchedIsDecoded and
\* UnwatchedIsNot for what breaks it.
DecodedIffWatched == Calm => (flag <=> Watched)

\* "0->1: first viewer - enable tshark on capture-agent": when all is calm, a
\* session with a viewer is being decoded.
WatchedIsDecoded == Calm /\ Watched => flag

\* "N->0: last viewer left - disable tshark": when all is calm, a session
\* without viewers is not being decoded.
UnwatchedIsNot == Calm /\ ~Watched => ~flag
=============================================================================
