------------------------------- MODULE NfPanel -------------------------------
(***************************************************************************)
(* The side panel of the topology page: TopologyPage holds a tab per       *)
(* network function that was clicked; SidePanel shows the active one, polls*)
(* the metrics of its interfaces and, in the logs view, mounts a log       *)
(* column, which reads the pod's log through a WSManager of its own. React *)
(* renders and runs the effects of an event before the next event.         *)
(***************************************************************************)
EXTENDS Naturals, Sequences, TabRow, WSManager

CONSTANTS
  Pods,     \* the nodes that can be clicked, by id; the synthetic DN cannot
  None,
  Slots,    \* managers that exist at a time, a bound on the user's haste
  MaxPolls  \* polls of one pod under way at a time, a bound of the model

ASSUME NoneAssumption == None \notin Pods
ASSUME PollsAssumption == MaxPolls \in Nat \ {0}
ASSUME SlotsAssumption == 0 \notin Slots

VARIABLES
  nfTabs, activeNfTabId, sidePanelOpen,  \* TopologyPage
  view,                             \* SidePanel, "logs" when it is mounted
  mgrs,      \* [slots -> the manager and its pod], Unused if there is none
  column,    \* the mounted log column: its manager's slot (0: none), its badge
  polls,     \* [pods -> metrics requests of the mounted panel under way]
  metrics    \* the pod whose numbers ifaceMetrics holds, None if empty

pageVars == <<nfTabs, activeNfTabId, sidePanelOpen, view>>
nfVars == <<pageVars, mgrs, column, polls, metrics>>

Unused == [pod |-> None, m |-> Connecting]
NoColumn == [slot |-> 0, live |-> FALSE]

NfTypeOK ==
  /\ nfTabs \in Seq(Pods) /\ activeNfTabId \in Pods \cup {None}
  /\ sidePanelOpen \in BOOLEAN /\ view \in {"logs", "info"}
  /\ mgrs \in [Slots -> [pod: Pods \cup {None}, m: Manager]]
  /\ column \in [slot: Slots \cup {0}, live: BOOLEAN]
  /\ polls \in [Pods -> 0 .. MaxPolls]
  /\ metrics \in Pods \cup {None}

NfInit ==
  /\ nfTabs = <<>> /\ activeNfTabId = None /\ sidePanelOpen = FALSE
  /\ view = "logs"
  /\ mgrs = [s \in Slots |-> Unused] /\ column = NoColumn
  /\ polls = [p \in Pods |-> 0] /\ metrics = None
-----------------------------------------------------------------------------
(* What is mounted: SidePanel for the active node, a column for its log. *)

IsTab(bar, id) == \E k \in 1 .. Len(bar): bar[k] = id
PanelPod(open, bar, id) == IF open /\ IsTab(bar, id) THEN id ELSE None
ColumnPod(pod, v) == IF v = "logs" THEN pod ELSE None

Panel == PanelPod(sidePanelOpen, nfTabs, activeNfTabId)
Column == ColumnPod(Panel, view)

\* A manager that is closed is forgotten when its close event has come.
Forgotten(x) == IF x.m.closed /\ x.m.sock = "closed" THEN Unused ELSE x

\* Faulty variant: the cleanup of the effect forgets to close the manager.
MountColumnLeaking(pod) ==
  \/ /\ pod = Column
     /\ UNCHANGED <<mgrs, column>>
  \/ /\ pod = None /\ pod # Column
     /\ UNCHANGED mgrs /\ column' = NoColumn
  \/ /\ pod # None /\ pod # Column
     /\ \E s \in Slots:
          /\ mgrs[s] = Unused
          /\ mgrs' = [mgrs EXCEPT ![s] = [pod |-> pod, m |-> Connecting]]
          /\ column' = [slot |-> s, live |-> FALSE]

\* The column is keyed by the node: a column for another pod is another column,
\* with a state of its own, and useLogs closes one manager and makes one.
MountColumn(pod) ==
  LET closed ==
        [s \in Slots |->
          IF s = column.slot THEN Forgotten([mgrs[s] EXCEPT !.m = Close(@)])
          ELSE mgrs[s]]
  IN  \/ /\ pod = Column
         /\ UNCHANGED <<mgrs, column>>
      \/ /\ pod = None /\ pod # Column
         /\ mgrs' = closed /\ column' = NoColumn
      \/ /\ pod # None /\ pod # Column
         /\ \E s \in Slots:
              /\ closed[s] = Unused
              /\ mgrs' = [closed EXCEPT ![s] = [pod |-> pod, m |-> Connecting]]
              /\ column' = [slot |-> s, live |-> FALSE]

\* Another node empties the metrics and starts a poll and a new interval; what
\* was asked for the node before is still answered. An unmounted panel hears
\* no answer.
MountMetrics(pod) ==
  \/ /\ pod = Panel
     /\ UNCHANGED <<polls, metrics>>
  \/ /\ pod = None /\ pod # Panel
     /\ polls' = [p \in Pods |-> 0] /\ metrics' = None
  \/ /\ pod # None /\ pod # Panel
     /\ polls[pod] < MaxPolls
     /\ polls' = [polls EXCEPT ![pod] = @ + 1] /\ metrics' = None

\* The page as the user's action leaves it, and the effects of rendering it.
Page(bar, id, open, v) ==
  LET pod == PanelPod(open, bar, id)
      \* a panel that is mounted anew starts with the logs
      w   == IF Panel = None THEN "logs" ELSE v
  IN  /\ nfTabs' = bar /\ activeNfTabId' = id /\ sidePanelOpen' = open
      /\ view' = IF pod = None THEN "logs" ELSE w
      /\ MountColumn(ColumnPod(pod, w))
      /\ MountMetrics(pod)
-----------------------------------------------------------------------------
(* The user. *)

\* handleNodeClick.
ClickNode(p) ==
  Page(IF IsTab(nfTabs, p) THEN nfTabs ELSE Append(nfTabs, p), p, TRUE, view)

\* Faulty variant: the tab is closed, and remains the active one.
CloseNfTabKeepsActive(k) ==
  /\ Panel # None /\ k \in 1 .. Len(nfTabs)
  /\ LET remaining == Without(nfTabs, k)
     IN  IF remaining = <<>> THEN Page(remaining, None, FALSE, view)
         ELSE Page(remaining, activeNfTabId, TRUE, view)

\* handleTabClose, by the cross of a tab or of the column.
CloseNfTab(k) ==
  /\ Panel # None /\ k \in 1 .. Len(nfTabs)
  /\ LET remaining == Without(nfTabs, k)
     IN  IF remaining = <<>> THEN Page(remaining, None, FALSE, view)
         ELSE Page(remaining,
                   IF activeNfTabId = nfTabs[k] THEN remaining[Len(remaining)]
                   ELSE activeNfTabId, sidePanelOpen, view)

SelectNfTab(k) ==
  /\ Panel # None /\ k \in 1 .. Len(nfTabs)
  /\ Page(nfTabs, nfTabs[k], sidePanelOpen, view)

SetView(v) ==
  /\ Panel # None
  /\ Page(nfTabs, activeNfTabId, sidePanelOpen, v)

\* handleClosePanel; leaving the page unmounts it and has the same effect.
ClosePanel == Panel # None /\ Page(<<>>, None, FALSE, view)
-----------------------------------------------------------------------------
(* The log's socket. *)

\* Faulty variant: to the column on screen, as if it were not keyed.
SetLiveUnkeyed(s, connected) ==
  column' = IF column.slot # 0 THEN [column EXCEPT !.live = connected] ELSE column

\* onStateChange dispatches to the column the manager was made for.
SetLive(s, connected) ==
  column' = IF column.slot = s THEN [column EXCEPT !.live = connected] ELSE column

SocketOpens(s) ==
  /\ mgrs[s].pod # None /\ mgrs[s].m.sock = "connecting"
  /\ mgrs' = [mgrs EXCEPT ![s].m = OnOpen(@)]
  /\ SetLive(s, TRUE)
  /\ UNCHANGED <<pageVars, polls, metrics>>

\* The close event: after close(), or the attempt or the connection failed.
SocketCloses(s) ==
  /\ mgrs[s].pod # None /\ mgrs[s].m.sock # "closed"
  /\ mgrs' = [mgrs EXCEPT
       ![s] = Forgotten([mgrs[s] EXCEPT !.m = OnClose(@)])]
  /\ SetLive(s, FALSE)
  /\ UNCHANGED <<pageVars, polls, metrics>>

TimerFires(s) ==
  /\ mgrs[s].m.timer
  /\ mgrs' = [mgrs EXCEPT ![s].m = OnTimer(@)]
  /\ UNCHANGED <<pageVars, column, polls, metrics>>
-----------------------------------------------------------------------------
(* The metrics. *)

\* PodInfo: the pod whose numbers stand beside the interfaces of the panel's
\* pod, None for dashes. Pods name their interfaces alike.
NumbersShown == IF Panel = None THEN None ELSE metrics

\* Faulty variant: no interval is cleared, every tab's pod is polled.
PollEveryTab(p) ==
  /\ Panel # None /\ IsTab(nfTabs, p) /\ polls[p] < MaxPolls
  /\ polls' = [polls EXCEPT ![p] = @ + 1]
  /\ UNCHANGED <<pageVars, mgrs, column, metrics>>

\* Every 300 ms, answered or not.
Poll(p) ==
  /\ Panel = p /\ polls[p] < MaxPolls
  /\ polls' = [polls EXCEPT ![p] = @ + 1]
  /\ UNCHANGED <<pageVars, mgrs, column, metrics>>

\* All interfaces answered or failed. The numbers are stored under the names of
\* the interfaces, whichever pod the panel shows by now.
PollAnswered(p) ==
  /\ polls[p] > 0
  /\ polls' = [polls EXCEPT ![p] = @ - 1]
  /\ metrics' = p
  /\ UNCHANGED <<pageVars, mgrs, column>>
-----------------------------------------------------------------------------
NfNext ==
  \/ \E p \in Pods: ClickNode(p) \/ Poll(p) \/ PollAnswered(p)
  \/ \E k \in 1 .. Len(nfTabs): CloseNfTab(k) \/ SelectNfTab(k)
  \/ \E v \in {"logs", "info"}: SetView(v)
  \/ ClosePanel
  \/ \E s \in Slots: SocketOpens(s) \/ SocketCloses(s) \/ TimerFires(s)

\* Timers fire, requests are answered or fail, and a server that is tried
\* again and again accepts at last.
NfFairness ==
  /\ \A s \in Slots: WF_nfVars(TimerFires(s)) /\ SF_nfVars(SocketOpens(s))
                     /\ WF_nfVars(SocketOpens(s) \/ SocketCloses(s))
  /\ \A p \in Pods: WF_nfVars(Poll(p)) /\ WF_nfVars(PollAnswered(p))

NfSpec == NfInit /\ [][NfNext]_nfVars /\ NfFairness
-----------------------------------------------------------------------------
(* Properties. *)

\* The panel is open exactly while there are tabs, no node has two, and the
\* active one is among them, although handleTabClose goes by the tabs of the
\* last render and handleNodeClick by the latest.
PanelConsistent ==
  /\ sidePanelOpen <=> nfTabs # <<>>
  /\ IF nfTabs = <<>> THEN activeNfTabId = None ELSE IsTab(nfTabs, activeNfTabId)
  /\ \A j, k \in 1 .. Len(nfTabs): nfTabs[j] = nfTabs[k] => j = k

\* Switching tabs and views leaves no reconnecting socket behind: the column on
\* screen has a manager for its pod, and any other manager is closed, waits for
\* its close event only, and has no timer that would connect it again.
OneFeed ==
  /\ column.slot = 0 <=> Column = None
  /\ \A s \in Slots: mgrs[s].pod # None =>
       IF s = column.slot THEN mgrs[s].pod = Column /\ ~mgrs[s].m.closed
       ELSE mgrs[s].m.closed /\ mgrs[s].m.sock = "closing" /\ ~mgrs[s].m.timer

\* LIVE is shown exactly while the connection of the column on screen is open,
\* whatever the sockets of the columns before it still report.
LiveTrue ==
  column.live <=> column.slot # 0 /\ mgrs[column.slot].m.sock = "open"

\* A log that stays on screen goes live again after every loss, and no timer
\* is lost between attempts.
GoesLiveAgain == []<>(column.live \/ column.slot = 0)

\* The numbers of the pod before may be stored by a late answer, under the same
\* interface names, but a panel that stays with a pod shows no other pod's in
\* the end: its own or, as long as no poll is answered, dashes.
MetricsSettle ==
  \A p \in Pods: <>[](Panel = p) => <>[](NumbersShown \in {None, p})
=============================================================================
