# coach5g, specified in TLA+

coach5g shows a 5G core that runs in Kubernetes: its topology, the logs of its
pods, a terminal into them, and, live in the browser, the packets on each pod's
interfaces. This directory holds TLA+ modules of its packet path and of the
browser's side of it all, the TLC configurations that check them, and TLAPS
proofs of their main properties.

Run everything from this directory:

    tlc -workers 2 -config AgentSession.cfg MCAgentSession     # and so on
    tlapm AgentSessionProofs.tla                               # and so on

`PROJECT.json` lists the runs, the source lines behind every definition, and,
for every property, a faulty variant of one definition that violates it. The
faulty variants stand in the modules right before the definition they vary.

## 1. The system

One **capture agent** runs on each node. It finds the pods of the target
namespaces, keeps one capture *session* per pod and interface, and streams
batches of packets to the **API server**. A session captures with tcpdump, and
pipes the capture through tshark only while its *tshark flag* is set. The API
server hands each batch to the WebSocket connections that view that pod and
interface (the *viewers*), keeps the last 10 000 packets of each for decode and
export requests, and calls the agent back to set the flag when the first viewer
comes and to clear it after the last has gone. The **frontend** is a React
application: capture tabs over the packets, a side panel with logs and metrics,
terminals over WebSockets, and a canvas that polls the topology. Its event
handlers run one at a time, and what interleaves is the order in which sockets,
answers, timers, rendering and the user call them.

    browser --ws--> packet handlers --register/count--> subscriber lists
                         |                                    ^ publish
                 go CallEnable/DisableTshark                  |
                         v                             StreamPackets (gRPC)
                  control server (agent) --flag--> session -----+
                                                      ^
                            Discovery --list--> Manager.Reconcile

    Layout --tabs, routes--> CapturePage --one socket each--> CaptureTabPanel
           --openExecTab--> TerminalPanel --sockets--> SSH and exec instances
    TopologyPage --tabs--> SidePanel --WSManager--> log column, metrics polls
                 --graph--> TopologyCanvas

| Part | State | Operations | What is hard | What makes it correct |
|---|---|---|---|---|
| viewer control (`handlers/packets.go`, `capture/grpc_server.go`) | subscriber sets of two routes, address index, goroutines under way | join, count, leave, enable with retries, disable, gRPC `Subscribe` | registration and count are two critical sections; one kind of subscriber never counts; nothing orders the calls; calls get lost | decoding goes on exactly while someone views |
| fan-out (`grpc_server.go`) | slices of channels per key, under a RW lock | register, unsubscribe, publish, receive | publish reads the backing array and sends after unlocking | each viewer gets each batch once, nobody blocks, nothing panics |
| packet rings (`grpc_server.go`, `ring_buffer.go`) | array, head, size | push, lookup, export, snapshot | the wrap; equal and unordered timestamps | the last N packets, in order, and exact answers |
| agent session (`capture/manager.go`, `control/server.go`) | flag, stored cancel function, run context, session context | restart loop, enable, disable, stop | the flag and the cancel function are read and written apart | no toggle is lost; a stopped session ends |
| reconciliation (`discovery/pods.go`, `manager.go`) | session map, index by ID | list namespaces, stop stale, start missing | lists of no single moment; replaced pods keep their name; failing calls | map and index inverse; sessions follow the pods |
| capture tab (`CapturePage.tsx`: `CaptureTabPanel`, `DecodePanel`) | socket, table, buffer, counter, badge, selection, requests | message, pause, resume, clear, click, answer, timer | handlers of separate state in any order; late answers; numbers given out again | what is shown is what arrived, and about what was clicked |
| capture tabs (`Layout.tsx`, `CapturePage.tsx`) | tabs, active tab, widths, drag | open by route or by Start, close, select, drag | two copies of `addTab`; drags across changes of the tabs | one tab per interface, one visible |
| terminal panel (`TerminalPanel.tsx`) | tabs, per tab: socket, state, dot, terminal | new, exec, close, log in, socket events, render | close events of earlier sockets; state of an earlier render | the dot is true, no tab waits for ever |
| side panel (`TopologyPage.tsx`, `SidePanel.tsx`, `websocket.ts`, `useLogs.ts`) | tabs, view, managers with socket and timer, metrics | click, close, reconnect, poll | events and answers of what is no longer shown | one feed, and the pod's own |
| canvas (`TopologyCanvas.tsx`) | positions, drag, localStorage; tooltips and timers | poll, drag, reset; hover, lock | polls during drags; timers nobody can clear | nothing jumps, nothing vanishes under the mouse |
| send stream (`manager.go`, `grpc/client.go`) | batch, shared stream | flush, reopen, retry | one stream for all sessions, opened with one session's context | not modelled |
| capture pipeline (`nsenter.go`) | pipes, `rawCh`, two processes | tee, parse frames, pair with lines | close against send; back-pressure in a ring | not modelled |
| statistics (`grpc_server.go`) | entries of three seconds | record, query | timestamps taken before the lock | not modelled |
| exec, SSH, log handlers (`handlers/exec.go`, `terminal.go`, `logs.go`) | pipes, resize queue, time window | input, resize, output, end | goroutines that outlive the session | not modelled |
| topology, metrics, decode, profiles, TLS, wiring | none that changes over time, or set once at start | requests | none of this kind | not modelled |

`PROJECT.json` has the components with their source files, and the hazards,
each at its line with the properties that cover it or the reason none does yet.

## 2. What is modelled

### AgentSession, ModeSwitch

`AgentSession` is one session: the `runCapture` goroutine step by step
(`NewRun`, `StoreCancel`, `StartRun` or `StartFails`, `RunEnds`, `CheckSession`,
the debounce), any number of `EnableTshark`/`DisableTshark` calls step by step
(`Lookup`, `Swap`, `ReadCancel`, `CallCancel`), and the end of the session by
`Reconcile` or `StopAll`. A step is what happens between two points where another
goroutine can act: an atomic operation, a critical section, a channel choice. A
cancel function is `Current` or `Old`: calling that of an earlier run does
nothing, so the model needs no run numbers and the number of runs is unbounded.
`ModeSwitch` is what the session promises: a capture starts in the mode wanted at
that moment, never changes mode, and is stopped when its mode is not wanted.

### ViewerControl

The handlers of `/ws/packets` and `/ws/packets/:node/:pod/:interface` for one pod
and interface (`Join`, `CountJoin`, `Leave`, `CountLeave`), the goroutines they
start (`Spawn`, `FindAgent`, `RetryAgent`, `GiveUp`, then the RPC: `Serve` or
`LoseRequest`), and of the agent only its flag: `FirstBatch` makes the agent's
address known, `SessionRecreated` starts over with the flag off. The gRPC method
`Subscribe` puts its channel into the list of the exact session too (`Subscribe`,
`EndSubscribe`, for each of `Streams`): the viewers of that route count it, and it
never counts or decides itself. Two history variables: `decided` holds what the
handlers of each route decided last, and `outlived` whether the last handler of
the route to count found no viewer but a `Subscribe` stream. The
answers of the calls are not looked at in the code, so a request served after its
caller's deadline is a request served late.

### FanOut

The subscriber list of one key as Go makes it: `heap` holds the backing arrays,
a slice is an array and a length (capacity is the array's length), `Register`
appends in place or into an array twice as long, an unsubscribe moves the tail
down one store at a time under the lock, in any order a racing reader may see,
and closes the channel; `publish` copies the header under the lock and then reads
slots and sends without it. A send on a closed channel panics the process.
`offers` and `members` are history variables. That `append` grows by doubling is
Go's behaviour for short slices and marked external.

### PktRing, LastN

Both rings, which push alike. `GetByTs`, `GetAfterTs` and `GetInRange` are the
server's, `Snapshot` the agent's. Loops are written as the recursive functions
they compute. `LastN` is the abstract queue with the lookups as a caller thinks
of them: `Lists` says which entries an export has, without saying how a loop
collects them.

### Reconcile

The pods of a node over time, one round of `Discovery.Run` after the other (each
namespace listed in a step of its own, or failing), and `Manager.Reconcile` with
the session map, the index by session ID and the flags. A pod is its UID; a
replaced pod has a new UID and the old name, and at any time a name is used by
one running pod. `lasting` and `partial` are history variables.

### CapturePanel, PacketLayers

One capture tab. A frame is its position in `Wire`, the stream the server sends,
with the number the panel gives it; `got` and `clicked` are histories. The socket
(`Open`, `Receive`, `ServerCloses`, `CloseEvent`, `Fail`), the controls (`Pause`,
`Resume`, `Clear`, `Click`, `CloseDecode`, `SetFilter`, `ToggleSearch`), the timer
of the empty table and the answers to decode requests (`Answer`, `FetchFails`)
are one action each. Panel and server know a frame by its time only: a request
carries a time, its answer is the decode of a frame of that time (`At`), the
newest one stored by then, which need not be the one clicked, and `decodeData.of`
says which it was. The server is taken to have stored what it has sent: frames
dropped for a slow viewer are stored, though not sent, and are not modelled. `Follow` is the effect of `DecodePanel`: it is part of every
handler that may change the frame selected, because React runs it before the next
event. What the table shows (`Displayed`) is a set of positions in `packets`, by filter
button (that of HTTP shows frames of other protocols too) and search.
`PacketLayers` is what the panel shows without sharkd: which keys the
parser looks for in a protocol's text, and how `DecodeTree` deals them out. Which
of the keys a text yields is left open, so all subsets are considered.

### CaptureTabs, TabRow

The tabs as `Layout` and `CapturePage` open them, closing, selecting, the row for
a new tab, and the dividers of the split view. Widths are whole numbers of a
`Total` that divides into equal shares; a drag keeps the widths of its start, as
`splitDragRef` does, so that tabs may come and go under it. `TabRow` is a list
without its k-th element, for all three rows of tabs.

### TermPanel

The tabs of the terminal panel and, per tab, the WebSocket, the state of the
instance, whether a terminal is mounted (an effect later than the state, so
`Render` is an action of its own), the dot, and whether the close event of an
earlier socket is still to come. `onclose` of SSH goes by the mounted terminal,
that of exec by a flag: `SshClosed`, `ExecClosed`. `skew` is a history of the two
races in which the former is wrong. `OpenExecTab` applies the toggle of the panel
to the value `Layout` has just set, as React does with functional updates.

### NfPanel, WSManager

`WSManager` is the reconnecting socket as functions on its state; `NfPanel` has
one per log column, made and closed by the effect of `useLogs` (`MountColumn`),
the tabs of `TopologyPage`, and the metrics poll, whose answers are stored under
the interfaces' names whichever pod the panel shows by then.

### TopologyLayout, DotTip

`TopologyLayout` has the layout itself (`ComputePositions`: top row, control
column, user plane with or without uplink classifier, data networks beside their
UPFs) and the canvas over time: polls, drags, localStorage, mounting and Reset.
Coordinates are the code's numbers; a node is its place in the list of all
nodes, in the order in which the API lists those present, so that rows are sets of
numbers. `HasRoom` says which graphs the default layout is made for, `Tidied` which
of their nodes it has a place for. Reset moves those and leaves the others where
they are; the 300 ms in which they glide there are one step. `DotTip` has the tooltips of dots and nodes,
the lock, and the timers, of which only the latest can be cleared.

## 3. Runs

| Run | Instance | What it shows |
|---|---|---|
| `agent_session` | 3 concurrent calls, unbounded runs | no toggle is lost; the session settles in the mode last asked for; a stopped session ends; it implements `ModeSwitch`, fairness included |
| `viewer_control` | 2 viewers on one route, 1 and a `Subscribe` stream on the other, 2 goroutines, 2 lookups | the last decision for a route without viewers is to disable, unless a `Subscribe` stream was counted for one; goroutines end |
| `viewer_unhurried` | 3 viewers of the query route who come and go one at a time, a `Subscribe` stream at any time, nothing lost | decoding is on exactly while someone views |
| `fan_out` | 3 registrations, 1 publishing stream, 2 batches, channels of 1 | the list is exact; an undisturbed publish offers its batch to each once; publishing never waits |
| `reconcile` | 3 pods (2 successive under one name), 2 namespaces, 2 interfaces | index and map are inverse; complete rounds stop nothing that lasts; sessions converge |
| `pkt_ring` | 3 slots, 3 timestamps, 2 payloads | the ring is a `LastN`; lookups and exports are exact |
| `capture_panel` | ring of 2, 5 frames in batches of 1 or 2, 2 requests at once | nothing is lost between table and buffer; the decode panel is about the frame clicked or one of the same time; the badge is true; within a day the export range covers the table; spinners end |
| `term_panel` | 2 tabs at a time, 3 in all | a tab is on top; dots are true but for two races; connecting ends |
| `capture_tabs` | 4 interfaces, 3 tabs at a time, 4 in all, width 6 | no interface twice, one tab visible, panels fill the page |
| `nf_panel` | 3 pods, 2 sockets at a time, delays up to 3 | one feed per column, LIVE is true, lost connections come back, metrics settle |
| `topology_layout` | 12 nodes, 7 graphs, 3 draggable nodes, 1 place | polls move nothing; drags last until Reset; Reset moves the nodes the layout has a place for apart, in graphs it has room for |
| `dot_tip` | 2 dots, 1 node, 3 timers | counterexample: section 6 |

The other `.cfg` files (`FanOutPanic`, `FanOutSkipped`, `ReconcilePartial`,
`ViewerDoubleJoin`, `ViewerOvertake`, `ViewerTwoRoutes`, `ViewerSubscribe`,
`TermPanelExec`, `CapturePanelDump`, `CapturePanelTwin`, `CapturePanelMidnight`,
`TopologyReset`) are to be run by hand: each finds a counterexample of
section 6. `FanOutOrderly` finds none: it checks what `FanOutPanic` and
`FanOutSkipped` refute, in an environment where it holds (below).

A property that a theorem of section 5 states for all constants is checked here
too where its faulty variant is worth having; the type invariants and lesser
lemmas that are proved are not checked again.

**Why the bounds suffice.** Three calls are enough for two that change the flag
in turn and a third that overtakes either. Two viewers are enough to register
before either counts, a third to disturb a pair; the goroutines are a pool that
is reused, so their bound limits how many are under way at once, not how many
there are; a handler that finds the pool full waits, which only removes
interleavings. Ten lookups behave like two: the loop distinguishes the last from
the others. Three registrations fill an array of length 2 and grow it into one of
4, so that both ways of `append` and a move over more than one slot occur; a
channel of one batch is full after one. Ring slots are addressed modulo the
capacity, and three slots give every relation of head, size and wrap. `MaxBatches`
is the one cap on a counter. In the browser, a ring of two frames under batches
of up to two is overrun by one batch, by two and by a resume; the five frames of
`MCWire` have one that is not decoded, two different times of one day, two frames
of one time, one after midnight and one that only the HTTP button shows besides
its own.
Three tabs let the first, the last and one in between be closed. Two sockets at a
time are the one on screen and one that closes. The graphs of
`MCTopologyLayout` differ from each other by what a pod restart takes away: one
node of a row, the classifier, a PSA-UPF with its data network, everything. The
bounds `MaxIds`, `MaxFetches`, `MaxPolls`, `Slots` and `MaxTimers` limit how much the
user does at once. Symmetry is used in `capture_tabs` only, which has no
liveness property. What is proved (section 5) holds without any bound.

**Fairness.** Go schedules every runnable goroutine, so the steps of the loops,
handlers and goroutines are weakly fair; calls have a deadline, so a call under
way is served or lost. A run that is not cancelled need not end; one that is
cancelled does (`WF(RunCancelled)`), because `doCapture` selects on its context
and its last flush retries only until the context is done. This takes for granted
that a send on the gRPC stream returns. `CapturesInFlagMode` and the fair part of
`ImplementsModeSwitch` are checked under `LiveSpec`, which adds strong fairness of
`StartRun`: the pod's network namespace is found every so often; without it a
session may try for ever. Viewers, toggles, pods, batches and restarts are the
environment's and have no fairness. `SessionsConverge` assumes that discovery
goes on and, in its premise, that the cluster rests and listings stop failing.
In the browser, timers fire, React renders, and a request or a connection attempt
ends one way or the other: `fetch` itself has no timeout, but the proxy in between
gives up on a silent server after 300 s (`frontend/nginx.conf:18`). Users, messages
and servers' closes have no fairness. `GoesLiveAgain` alone assumes that a server
tried again and again accepts at last (`SF(SocketOpens)`).

**Deadlock.** It is checked except in `AgentSession` (a cancelled session that is
no longer indexed is over) and `FanOut` (registrations and batches are used up, or
the process has panicked).

**Slow and hurried environments.** `ReliableSpec` and `UnhurriedSpec` of
`ViewerControl` restrict the environment to show *which* circumstance breaks a
promise: even with a known agent and no loss, hurried viewers break it; with
viewers one at a time it holds on the query route, and breaks again with both
routes, or with a `Subscribe` stream on the exact one.
`OrderlySpec` of `FanOut` lets no unsubscribe begin while a batch is being
published: what fails otherwise, `NeverPanics` and `SubscribersOfferedOnce`, then
holds (proved; on an instance with two streams, `FanOutOrderly.cfg`). The code does nothing to keep to that order.

## 4. Properties by hazard

| Hazard | Property |
|---|---|
| toggle against restart loop | `NoLostToggle`, `CapturesInFlagMode`, `ImplementsModeSwitch` |
| goroutine left behind | `StoppedSessionEnds`, `CallsEnd` |
| two join before either counts | `WatchedIsDecoded` (does not hold) |
| a viewer comes between another's leaving and its count | `EmptyMeansDisabledLast`, `DecodedIffWatched` |
| a subscriber that is counted and never counts | `EmptyMeansDisabledLast` excepts it; `UnwatchedIsNot` (does not hold) |
| calls out of order | `UnwatchedIsNot` (does not hold) |
| slice shared with a reader | `ListExact`, `UndisturbedOffersOnce` (hold); `SubscribersOfferedOnce`, `NeverPanics` (proved if no subscription ends under a publish, false otherwise) |
| slow viewer | `PublishEnds` |
| pods replaced while being listed | `IndexExact`, `CompleteRoundKeepsSessions`, `SessionsConverge`; `OneSessionPerID` (proved) |
| a listing fails | `OnlyStaleStopped` (does not hold) |
| wrap, equal and unordered timestamps | `GetByTsIsNewest`, `ExportsExact`, `ImplementsLastN`; `HeadIsSizeUntilFull`, `SnapshotExact` (proved) |
| pause, resume, clear between batches | `NothingLost`, `StatusTrue` |
| late or failed decode answers, numbers given out again | `PanelShowsClicked`, `SpinnersEnd` |
| two frames of one time | `PanelShowsClicked` excepts them; `DecodeOfClicked` (does not hold) |
| clock times without a date | `RangeCovers` (holds within a day); `RangeCoversNight` (does not) |
| fields dealt out by key | `FieldsShownOnce` |
| late close events, state of an earlier render | `ExecDotTrue`, `SshDotTrueButForRaces`, `ConnectingEnds`, `NewTerminalShown` (hold); `ExecTabShown` (does not) |
| tabs opened in two places, drags across changes | `TabsConsistent`, `CaptureShown`, `WidthsFit`, `ActiveTabExists`, `PanelConsistent` |
| sockets and answers of what is no longer shown | `OneFeed`, `LiveTrue`, `GoesLiveAgain`, `MetricsSettle` |
| polls during drags | `StaysPut`, `DropsKept` |
| Reset over drags and nodes without a place | `ResetTidies` (holds); `ResetForgets` (does not) |
| timers that cannot be cleared | `HiddenOffDot`, `LockedIsShown` (do not hold) |

## 5. Proofs

All theorems hold for every value of the constants, under the named assumptions
of the modules.

* **`AgentSessionProofs`** (no assumptions). `ToggleSafe`: `NoLostToggle` needs
  the strengthening "from the moment a run reads the flag, the stored cancel
  function is that run's" (`IInv`); it is what makes a call that reads the stored
  function read the right one. `RefinesModeSwitch`: every step maps to a step of
  `ModeSwitch` or a stutter; its fairness is checked by TLC only.
* **`ViewerControlProofs`** (`ViewersAssumption`: finitely many viewers, each of
  one route; `TriesAssumption`). `DecisionSafe`: the invariant adds that a viewer
  which has joined or is watching is registered (`RegisteredInv`), so that a
  handler decides to enable only for a route that has a viewer. It holds with any
  `Subscribe` streams, but for a route whose last handler counted only those
  (`outlived`); without streams (`Streams = {}`) the exception never applies.
  `UnhurriedSafe`: with viewers of the query route (`ExactViewers = {}`) who come and
  go one at a time, no lost request and no recreated session, `DecodedIffWatched`
  holds. Its invariant `UInv` says that at most one handler step or one goroutine
  is pending at a time and that the flag, together with what is pending, fits the
  viewers registered. The divergence runs drop these conditions one by one.
* **`ReconcileProofs`** (`PodsAssumption`: a name belongs to one namespace, an
  annotation names an interface). `IndexCorrect` and `SessionIDsUnique`: an index
  keyed by ID is exact only if no two sessions of a list have the same ID, which
  follows from listing a namespace in one step, a name being in use by one pod at
  a time (`RunningUnique`), and the list holding only pods of namespaces listed
  already (`ListedUnique`). `CompleteRoundSafe` is an action property: it needs
  that a session wanted since the round began is on the list or in a namespace
  still to be listed, unless a listing failed (`LastingInv`).
* **`FanOutProofs`** (`BoundsAssumption`, `NoSubAssumption`). `ListCorrect`:
  `ListExact` speaks of moments when the lock is free, and says nothing while
  an unsubscribe moves slots. The invariant `Exact` is about what the slots will
  hold when the stores still pending are done (`Final`); a store leaves that
  unchanged, whatever the order. `RegisterCells` is the lemma about `append`, in
  place or into a new array. `OffersCorrect`: `UndisturbedOffersOnce` is about a
  publish that is over; its invariant says, of one under way that nothing has
  disturbed, that the header it copied shows the list as it is (`ViewExact`) and
  that exactly the registrations before its position have been offered the batch
  (`OfferedSoFar`). `PubInv` adds the types of its local variables.
  `OrderlySafe` and `OrderlyOffers` are about `OrderlySpec`, where no publish is
  ever disturbed (`Orderly`): the channel it sends to is then still registered,
  and therefore open (`OpenChannel`).
* **`PktRingProofs`** (`CapacityAssumption`, `TimeAssumption`,
  `NoEntryAssumption`). `Wrap` reduces `%` to a comparison; from it,
  `NeverWrappedUntilFull`, `SnapshotCorrect`, `LookupCorrect` and
  `ImplementsQueue`, the refinement of `LastN` for any capacity. `ContentsSlot`
  says where the n-th oldest entry is. `ExportsCorrect` is about the loops of
  `GetAfterTs` and `GetInRange`: after n rounds the list has exactly the matching
  entries among the first n, each once and in their order.
* **`CapturePanelProofs`** (`RingAssumption`, `WireAssumption`, `TimeAssumption`,
  `UserAssumption`). `NothingLostCorrect` rests on three facts about `slice(-n)`: cutting before
  appending (`CutThenAppend`), cutting what is appended (`AppendCut`) and cutting
  twice (`CutTwice`) make no difference to what is left; and on the buffer being
  empty unless paused. `PanelCorrect` needs to know that a frame's number says
  where it is in the stream, for table, buffer and selection alike (`NumberInv`,
  which Clear keeps only because it drops the selection), and that the one
  request not cancelled is for the time of the selected frame (`DecodeInv`): the
  decode shown is of a frame of that time, hence of the frame clicked wherever it
  is alone at its time. `FollowStep` is
  about the effect of `DecodePanel`, and serves every handler that calls it.
  `RangeCorrect` is clock arithmetic: a time of day is its seconds times a second
  plus a rest (`Division`), so that rounding the first time shown down and the last
  one up covers all that is shown (`ClockTime`, `Ends`), for rows of one day; the
  last row's day is the first's by assumption of `RangeCovers`, because the code
  gives both ends the first row's date. `FieldsCorrect` is about
  `PacketLayers` alone: no two layers of a tree have one name (`LayerNames`), and of
  every protocol each key its text may yield is in one of them (`AllShownOnce`).
* **`CaptureTabsProofs`** (`KeyAssumption`, `BoundAssumption`, `WidthAssumption`).
  `TabsCorrect`, the action property `CaptureShownCorrect`, and `WidthsCorrect`:
  what a divider gives to one panel it takes from the other, so the sum stays; and
  the widths of a drag under way are wide enough and fill the page too, whatever
  number of tabs they are for.
* **`TopologyPageProofs`** is about the three parts of the page that share no
  state, `TermPanel` (`BoundsAssumption`), `NfPanel` (`NoneAssumption`,
  `PollsAssumption`, `SlotsAssumption`, `BackoffAssumption` of `WSManager`) and
  `TopologyLayout` (`NodesAssumption`, `GraphsAssumption`, `PlacesAssumption`); both tab bars rest on one
  lemma, that a row without its k-th tab lists no tab twice and all the others
  (`WithoutRow`).
  `ExecDotCorrect` and `SshDotCorrect` need that a connecting socket shows
  "connecting" and that an exec tab never has an earlier socket (`TermInv`);
  `NewTerminalCorrect` is an action property.
  `FeedCorrect` and `LiveCorrect` need that a column's slot has a manager, that a
  slot without one is as new, and that a manager waits for its timer only while its
  socket is closed (`FeedInv`); what connects a socket then connects none that is
  still in use.
  `DropsCorrect` and `RefreshCorrect` use of the layout only that it keeps the
  positions it is given (`KnownStay`), wherever it puts the other nodes; `CanvasInv`
  says what is on the canvas, and that a node the user let go of is in the graph
  for as long as the canvas is mounted.
  `CanvasTypeCorrect` shows that every place the layout computes is a pair of
  numbers (`LayoutType`): the sum of the heights of the UPFs of a data network is one
  (`SumOfYIs`), whatever their number, and there is a highest and a lowest of them
  (`Ends`, `HighestExists`). `TidyCorrect` is the action property
  `ResetTidies`: whatever is on the canvas, Reset puts every node that has a place
  at it (`ResetPuts`), and those places are apart (`TidyLayout`). For the latter, in a graph with room for it a row has one node, or two, which stand as far to the
  left of its centre as to the right (`SlotOfOne`, `PsaSlots`); types of the top row
  are at least one step apart (`SpreadApart`, by counting those in between); the
  anchor of a data network is right of all UPFs whether one UPF serves it, two or
  none that is placed (`AnchorIs`, `DnSlotIs`); and what is on different lines is apart
  by height. `NodesAssumption` says that N6 links start at UPFs that are not iUPFs, as
  the core profiles build them (`free5gc.go:195`, `open5gs.go:158`).

**Induction over data.** The library's induction theorems take an operator as a
parameter, which the provers do not instantiate. Where a proof is about a loop or
a sum, induction is stated over a *set* of numbers instead (`Induction`): a set
that has 0 and, with each number, the next one, is `Nat`, because otherwise the
numbers that are not in it have a least one (`LeastExists`). What a recursive
function computes (`Recursion`) follows in the same way.

**Checked by TLC only.** Everything about fairness: `CapturesInFlagMode`,
`StoppedSessionEnds`, `CallsEnd`, `PublishEnds`, `SessionsConverge`, the fair part
of `ImplementsModeSwitch`, `SpinnersEnd`, `ConnectingEnds`, `GoesLiveAgain`,
`MetricsSettle`.

## 6. Where the code does something else than it says

Each of 1 to 13 is a counterexample TLC finds, with the configuration named.

1. *A tooltip vanishes under the mouse* (`DotTip.cfg`, run `dot_tip`,
   `TopologyCanvas.tsx:987`): every move beside a dot starts another hide timer,
   and only the latest is cleared when the mouse comes onto the dot. With the lock,
   a timer leaves a lock without a tooltip (`LockedIsShown`): nothing shows any more
   until a click on the background.
2. *Two viewers at once* (`ViewerDoubleJoin.cfg`, `packets.go:163`: "0→1: first
   viewer — enable tshark on capture-agent"): both register, both count two,
   neither enables tshark.
3. *A viewer that leaves at once* (`ViewerOvertake.cfg`, `grpc_server.go:598`, against
   "N→0: last viewer left — disable tshark"): the disable call is served before the
   enable call.
4. *Two routes* (`ViewerTwoRoutes.cfg`, `packets.go:171`): each handler counts its own
   route, both switch the same flag.
5. *Unsubscribing under a publish* (`FanOutSkipped.cfg`, `grpc_server.go:285`): the
   array is shifted under the reader, which skips a viewer or serves one twice.
6. *Closing under a publish* (`FanOutPanic.cfg`, `grpc_server.go:325`): a send on the
   closed channel ends the API server.
7. *One namespace fails to list* (`ReconcilePartial.cfg`, `pods.go:80`, against
   "stops stale ones based on current pod list"): its sessions are stopped although
   their pods run.
8. *A shell in a collapsed panel* (`TermPanelExec.cfg`, `Layout.tsx:87`, against
   "forcing it open if collapsed"): Layout sets the panel open, then the panel, which
   still sees it closed, toggles it.
9. *The hex dump of the fallbacks* (`CapturePanelDump.cfg`, `CapturePage.tsx:604`,
   against `decode.go:98` "so frontend can still show the hex dump"): their bytes are
   hex digits, and the panel reads them as base64.
10. *A `Subscribe` stream* (`ViewerSubscribe.cfg`, `grpc_server.go:484`, against
    `packets.go:171`, "N→0: last viewer left — disable tshark", and the log's "last
    subscriber gone"): a viewer that leaves while a stream is registered counts one
    and does not disable; the stream's end does not either, so the agent goes on
    decoding for nobody.
11. *Two frames of one time* (`CapturePanelTwin.cfg`, `CapturePage.tsx:715` and
    `grpc_server.go:94`, against "Fetch sharkd decode whenever the selected packet (by
    ts) changes", `CapturePage.tsx:695`): the tree and the bytes are the newer
    frame's, whichever is clicked, and going from one to the other fetches nothing.
12. *Export around midnight* (`CapturePanelMidnight.cfg`, `CapturePage.tsx:982`,
    "Export range"): both ends get the first row's date, so when the last row is
    after midnight the end is before the start and nothing is exported.
13. *Reset layout* (`TopologyReset.cfg`, `TopologyCanvas.tsx:1144`): a node that
    the layout has no place for, such as a PSA-UPF without a classifier, stays where it
    was dragged; the next time the canvas is mounted it is elsewhere.

Seen while modelling, with no property of their own:

* The export button for the last five minutes sends "5min" (`CapturePage.tsx:1079`),
  the handler knows "5m" (`decode.go:166`) and takes its default instead, 30 seconds.
* PFCP's sequence number is parsed and shown nowhere (`CapturePage.tsx:325`: the
  key is one of TCP's, and PFCP has no TCP layer); `FieldsShownOnce` excepts it.
* An SSH server that closes without an answer leaves the tab "connecting";
  `ConnectingEnds` excepts it.
* Two UPFs with a data network each and no classifier, two replicas of a type of
  the top row, or a node that arrives after its group was laid out, overlap with a
  neighbour (`TopologyCanvas.tsx:199`); `ResetTidies` excepts such graphs
  (`HasRoom`). PSA-UPFs without a classifier all land at (700, 400).
* A node that is missing from one graph and returns takes the default place,
  though localStorage has its drag (`TopologyCanvas.tsx:1098`). `DropsKept` therefore
  ends with the node.
* Seven or eight panels of equal width are narrower than the minimum of a drag
  (`CapturePage.tsx:1274`), which then shrinks a neighbour to nothing.
* An edge click looks its node up in the graph of the first render
  (`TopologyCanvas.tsx:1063`). Side-panel tabs keep the node as it was when
  clicked. An exec shell's output that comes before the terminal is mounted is
  dropped (`TerminalPanel.tsx:460`). After Clear an empty table says that no packets
  match the filter.

## 7. Not modelled

Core profiles, the Prometheus client, decoding by an external process, TLS and
the generated code have no state that changes over time. The send stream, the
capture pipeline, the statistics and the server's ends of terminals and logs
have, and are left out: what can go wrong in the pipeline depends on how tcpdump
and tshark buffer, in the log tail on Loki, in the terminals on SSH and
Kubernetes' exec; the send stream's retries and the statistics' floating-point
rates remain to be done. The infrastructure page keeps only its last answer, and
eight components and hooks of the frontend are imported by nothing
(`usePacketCapture`, `useWebSocket`, `PacketTable`, `CaptureControls`, `FilterBar`,
`HexDump`, `LogPanel`, `LogFilter`).

Parsing and formatting (pcap frames, tshark lines, JSON, log lines) are
abstracted to their results. Pod, interface and node are single in
`ViewerControl` and `FanOut`: the maps of the code are keyed by them and their
entries do not interact, except for the address of a pod that moves to another
node. The default namespace the handlers put into the session ID is taken to be
the pod's. Discovery's ticker may skip ticks but not rounds. A Kubernetes name is
taken to be in use by one running pod at a time. In the browser, a handler and
the rendering and effects it causes are one step unless the module says otherwise
(`Render` of `TermPanel`); styles, sizes, zoom, copying and scrolling are left out,
and so are the key under which positions are saved, which changes with the first
namespace, and log lines, which are repeated after a reconnection. So are the glide
of a Reset (300 ms, one step here), a localStorage that is full or refused, and the
`catch` of `WSManager.connect`, which a socket's constructor reaches only with a
malformed address.

## 8. Plan

What would come next, in this order: the send stream with one session's context
under all sessions; `ViewerControl`, `AgentSession` and `Reconcile` composed over two
nodes with restarts of either process, and to what decoding then converges; the
server's ends of terminals. Every safety property of the passing runs is proved, so
what is left to prove comes with these extensions. `OnlyStaleStopped` has no
restricted run of its own: of rounds in which no listing fails it says what
`CompleteRoundSafe` proves.
