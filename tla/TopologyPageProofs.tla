-------------------------- MODULE TopologyPageProofs --------------------------
(***************************************************************************)
(* Safety of the three parts of the topology page, which share no state:   *)
(* the terminal panel for any number of tabs, the side panel for any pods  *)
(* and managers, the canvas for any nodes, links, graphs and places.       *)
(* The two tab bars rest on the same lemma. The layout adds up the heights *)
(* of any number of UPFs: the lemmas on numbers say what the sum is.       *)
(***************************************************************************)
EXTENDS TermPanel, NfPanel, TopologyLayout, SequenceTheorems,
        FiniteSetTheorems, WellFoundedInduction, TLAPS

\* What is left of a list of tabs when one is closed.
LEMMA WithoutProperties ==
  ASSUME NEW S, NEW s \in Seq(S), NEW k \in 1 .. Len(s)
  PROVE  /\ Without(s, k) \in Seq(S)
         /\ Len(Without(s, k)) = Len(s) - 1
         /\ \A j \in 1 .. Len(s) - 1:
              Without(s, k)[j] = IF j < k THEN s[j] ELSE s[j + 1]
<1>1. Len(s) \in Nat /\ Len(s) - 1 \in Nat /\ s \in [1 .. Len(s) -> S]
  BY LenProperties
<1>2. Without(s, k) \in [1 .. Len(s) - 1 -> S]
  BY <1>1 DEF Without
<1> QED
  BY <1>1, <1>2, SeqDef DEF Without

\* Closing a tab lists no tab twice, and the others remain.
LEMMA WithoutRow ==
  ASSUME NEW S, NEW s \in Seq(S), NEW k \in 1 .. Len(s),
         \A i, j \in 1 .. Len(s): s[i] = s[j] => i = j
  PROVE  /\ \A i, j \in 1 .. Len(Without(s, k)):
              Without(s, k)[i] = Without(s, k)[j] => i = j
         /\ \A j \in 1 .. Len(s): j # k =>
              \E i \in 1 .. Len(Without(s, k)): Without(s, k)[i] = s[j]
<1>1. /\ Len(s) \in Nat /\ Len(Without(s, k)) = Len(s) - 1
      /\ \A j \in 1 .. Len(s) - 1:
           Without(s, k)[j] = IF j < k THEN s[j] ELSE s[j + 1]
  BY WithoutProperties, LenProperties
<1>2. \A i, j \in 1 .. Len(Without(s, k)):
        Without(s, k)[i] = Without(s, k)[j] => i = j
  BY <1>1
<1>3. ASSUME NEW j \in 1 .. Len(s), j # k
      PROVE  \E i \in 1 .. Len(Without(s, k)): Without(s, k)[i] = s[j]
  <2>1. CASE j < k
    BY <1>1, <2>1
  <2>2. CASE j > k
    <3>1. j - 1 \in 1 .. Len(Without(s, k)) /\ Without(s, k)[j - 1] = s[j]
      BY <1>1, <2>2
    <3> QED
      BY <3>1
  <2> QED
    BY <1>1, <1>3, <2>1, <2>2
<1> QED
  BY <1>2, <1>3
-----------------------------------------------------------------------------
(* The terminal panel. *)

\* The ids of the tabs are distinct and given out already, and one is active.
RowInv ==
  /\ \A k \in 1 .. Len(tabs): tabs[k] < nextId
  /\ ActiveTabExists

\* An exec tab has no earlier socket, and its dot follows its only one.
ExecInv(t) ==
  t.kind = "exec" => ~t.old /\ (t.dot <=> t.ws \in {"open", "closing"})

\* An SSH tab shows a login under way while its socket connects, and its dot is
\* right unless one of the races has happened.
SshInv(t) ==
  t.kind = "ssh" =>
    /\ t.ws = "connecting" => t.conn = "connecting"
    /\ ~t.skew => (t.dot <=> t.conn = "connected" /\ t.ws \in {"open", "closing"})

TabInv(t) == ExecInv(t) /\ SshInv(t)

TermInv == TypeOK /\ RowInv /\ \A i \in Ids: TabInv(tab[i])

LEMMA TermInitInv == Init => TermInv
<1> SUFFICES ASSUME Init PROVE TermInv
  OBVIOUS
<1>1. MaxIds \in Nat /\ 1 \in Ids
  BY BoundsAssumption DEF Ids
<1>2. tabs \in Seq(Ids) /\ Len(tabs) = 1 /\ tabs[1] = 1
  BY <1>1 DEF Init
<1>3. NewSsh \in TabInfo /\ TabInv(NewSsh)
  BY DEF NewSsh, TabInfo, TabInv, ExecInv, SshInv
<1>4. TypeOK
  BY <1>1, <1>2, <1>3 DEF Init, TypeOK, Ids
<1>5. RowInv
  BY <1>2 DEF Init, RowInv, ActiveTabExists, Opened
<1> QED
  BY <1>3, <1>4, <1>5 DEF TermInv, Init

\* A new tab at the end of the row.
LEMMA AppendStep ==
  ASSUME TermInv, NEW info \in TabInfo, TabInv(info), Append1(info),
         termOpen' \in BOOLEAN, UNCHANGED onTopology
  PROVE  TermInv'
<1>1. nextId \in Ids /\ nextId + 1 \in 1 .. MaxIds + 1 /\ MaxIds \in Nat
  BY BoundsAssumption DEF Append1, Ids
<1>2. /\ tabs \in Seq(Ids) /\ Len(tabs) \in Nat
      /\ \A k \in 1 .. Len(tabs): tabs[k] \in Ids
  BY LenProperties DEF TermInv, TypeOK
<1>3. /\ tabs' \in Seq(Ids) /\ Len(tabs') = Len(tabs) + 1
      /\ \A k \in 1 .. Len(tabs): tabs'[k] = tabs[k]
      /\ tabs'[Len(tabs) + 1] = nextId
  BY <1>1, <1>2, AppendProperties DEF Append1
<1>4. TypeOK'
  BY <1>1, <1>3 DEF TermInv, TypeOK, Append1
<1>5. RowInv'
  <2>1. \A k \in 1 .. Len(tabs'): k \in 1 .. Len(tabs) \/ k = Len(tabs) + 1
    BY <1>2, <1>3
  <2>2. \A k \in 1 .. Len(tabs'): tabs'[k] < nextId'
    BY <1>1, <1>2, <1>3, <2>1 DEF TermInv, RowInv, Append1, Ids
  <2>3. \A j, k \in 1 .. Len(tabs'): tabs'[j] = tabs'[k] => j = k
    <3>1. \A k \in 1 .. Len(tabs): tabs'[k] = tabs[k] /\ tabs[k] # nextId
      BY <1>1, <1>2, <1>3 DEF TermInv, RowInv, Ids
    <3> QED
      BY <1>3, <2>1, <3>1 DEF TermInv, RowInv, ActiveTabExists
  <2>4. Opened(activeId)'
    BY <1>2, <1>3 DEF Opened, Append1
  <2> QED
    BY <2>2, <2>3, <2>4 DEF RowInv, ActiveTabExists
<1>6. \A i \in Ids: TabInv(tab'[i])
  BY DEF TermInv, TypeOK, Append1
<1> QED
  BY <1>4, <1>5, <1>6 DEF TermInv

\* Closing a tab: those left are still distinct, and the last one takes over.
LEMMA CloseStep ==
  ASSUME TermInv, NEW k \in 1 .. MaxTabs, CloseTab(k)
  PROVE  TermInv'
<1>1. /\ k \in 1 .. Len(tabs) /\ Len(tabs) \in Nat /\ Len(tabs) > 1
      /\ tabs \in Seq(Ids) /\ tabs' = Without(tabs, k)
      /\ \A j \in 1 .. Len(tabs): tabs[j] \in Ids
  BY LenProperties DEF TermInv, TypeOK, CloseTab
<1>2. /\ tabs' \in Seq(Ids) /\ Len(tabs') = Len(tabs) - 1
      /\ \A j \in 1 .. Len(tabs'): tabs'[j] = IF j < k THEN tabs[j] ELSE tabs[j + 1]
  BY <1>1, WithoutProperties
<1>3. NewSsh \in TabInfo /\ TabInv(NewSsh)
  BY DEF NewSsh, TabInfo, TabInv, ExecInv, SshInv
<1>4. \A j \in 1 .. Len(tabs'): tabs'[j] \in Ids
  BY <1>1, <1>2
<1>5. TypeOK'
  BY <1>1, <1>2, <1>3, <1>4 DEF TermInv, TypeOK, CloseTab
<1>6. RowInv'
  <2>1. \A j \in 1 .. Len(tabs'): tabs'[j] < nextId'
    BY <1>1, <1>2 DEF TermInv, RowInv, CloseTab
  <2>2. /\ \A i, j \in 1 .. Len(tabs'): tabs'[i] = tabs'[j] => i = j
        /\ \A j \in 1 .. Len(tabs): j # k =>
             \E i \in 1 .. Len(tabs'): tabs'[i] = tabs[j]
    BY <1>1, WithoutRow DEF TermInv, RowInv, ActiveTabExists
  <2>3. Opened(activeId)'
    <3>1. CASE activeId = tabs[k]
      BY <1>1, <1>2, <3>1 DEF Opened, CloseTab
    <3>2. CASE activeId # tabs[k]
      <4>1. PICK j \in 1 .. Len(tabs): tabs[j] = activeId
        BY DEF TermInv, RowInv, ActiveTabExists, Opened
      <4> QED
        BY <2>2, <3>2, <4>1 DEF Opened, CloseTab
    <3> QED
      BY <3>1, <3>2
  <2> QED
    BY <2>1, <2>2, <2>3 DEF RowInv, ActiveTabExists
<1>7. \A i \in Ids: TabInv(tab'[i])
  BY <1>1, <1>3 DEF TermInv, TypeOK, CloseTab
<1> QED
  BY <1>5, <1>6, <1>7 DEF TermInv

\* A step of one instance: whatever it makes of the record keeps its type and
\* its invariant, and the row of tabs stays.
LEMMA InstanceStep ==
  ASSUME TermInv, NEW i \in Ids, UNCHANGED panelVars,
         tab' = [tab EXCEPT ![i] = tab'[i]], tab'[i] \in TabInfo, TabInv(tab'[i])
  PROVE  TermInv'
<1>1. TypeOK'
  BY DEF TermInv, TypeOK, panelVars
<1>2. RowInv'
  BY DEF TermInv, RowInv, ActiveTabExists, Opened, panelVars
<1>3. \A j \in Ids: TabInv(tab'[j])
  BY DEF TermInv, TypeOK
<1> QED
  BY <1>1, <1>2, <1>3 DEF TermInv

LEMMA SocketInv ==
  ASSUME TermInv, NEW i \in Ids, SocketStep(i) \/ ConnectSsh(i) \/ Render(i)
  PROVE  TermInv'
<1>1. tab[i] \in TabInfo /\ TabInv(tab[i]) /\ tab \in [Ids -> TabInfo]
  BY DEF TermInv, TypeOK
<1>2. CASE ConnectSsh(i)
  BY <1>1, <1>2, InstanceStep DEF ConnectSsh, LoginShown, TabInfo, TabInv, ExecInv, SshInv
<1>3. CASE Render(i)
  <2>1. /\ tab' = [tab EXCEPT ![i] = tab'[i]] /\ UNCHANGED panelVars
        /\ tab'[i] = [tab[i] EXCEPT !.mounted = (tab[i].conn = "connected")]
    BY <1>1, <1>3 DEF Render
  <2>2. tab'[i] \in TabInfo
    BY <1>1, <2>1 DEF TabInfo
  <2>3. TabInv(tab'[i])
    BY <1>1, <2>1 DEF TabInfo, TabInv, ExecInv, SshInv
  <2> QED
    BY <2>1, <2>2, <2>3, InstanceStep
<1>4. CASE WsOpens(i)
  <2>1. /\ tab' = [tab EXCEPT ![i] = tab'[i]] /\ UNCHANGED panelVars
        /\ tab'[i] = [tab[i] EXCEPT
             !.ws = "open",
             !.conn = IF tab[i].kind = "exec" THEN "connected" ELSE @,
             !.dot = (tab[i].kind = "exec" \/ @)]
    BY <1>1, <1>4 DEF WsOpens
  <2>2. tab'[i] \in TabInfo
    BY <1>1, <2>1 DEF TabInfo
  <2>3. TabInv(tab'[i])
    BY <1>1, <1>4, <2>1 DEF WsOpens, TabInfo, TabInv, ExecInv, SshInv
  <2> QED
    BY <2>1, <2>2, <2>3, InstanceStep
<1>5. CASE AuthOk(i)
  BY <1>1, <1>5, InstanceStep DEF AuthOk, TabInfo, TabInv, ExecInv, SshInv
<1>6. CASE AuthFail(i)
  BY <1>1, <1>6, InstanceStep DEF AuthFail, TabInfo, TabInv, ExecInv, SshInv
<1>7. CASE ServerCloses(i)
  BY <1>1, <1>7, InstanceStep DEF ServerCloses, TabInfo, TabInv, ExecInv, SshInv
<1>8. CASE CloseEvent(i)
  <2>1. /\ tab' = [tab EXCEPT ![i] = tab'[i]] /\ UNCHANGED panelVars
        /\ tab'[i] = [Closed(tab[i]) EXCEPT !.ws = "closed"]
    BY <1>1, <1>8 DEF CloseEvent
  <2>2. Closed(tab[i]) \in TabInfo
    BY <1>1 DEF Closed, SshClosed, ExecClosed, TabInfo
  <2>3. tab'[i] \in TabInfo
    BY <2>1, <2>2 DEF TabInfo
  <2>4. TabInv(tab'[i])
    BY <1>1, <2>1, <2>2
    DEF Closed, SshClosed, ExecClosed, TabInfo, TabInv, ExecInv, SshInv
  <2> QED
    BY <2>1, <2>3, <2>4, InstanceStep
<1>9. CASE Fail(i)
  <2>1. /\ tab' = [tab EXCEPT ![i] = tab'[i]] /\ UNCHANGED panelVars
        /\ tab'[i] = [Closed(tab[i]) EXCEPT !.ws = "closed",
             !.conn = IF Closed(tab[i]).kind = "ssh" THEN "error" ELSE @]
    BY <1>1, <1>9 DEF Fail
  <2>2. Closed(tab[i]) \in TabInfo
    BY <1>1 DEF Closed, SshClosed, ExecClosed, TabInfo
  <2>3. tab'[i] \in TabInfo
    BY <2>1, <2>2 DEF TabInfo
  <2>4. TabInv(tab'[i])
    BY <1>1, <2>1, <2>2
    DEF Closed, SshClosed, ExecClosed, TabInfo, TabInv, ExecInv, SshInv
  <2> QED
    BY <2>1, <2>3, <2>4, InstanceStep
<1>10. CASE OldCloseEvent(i)
  BY <1>1, <1>10, InstanceStep DEF OldCloseEvent, TabInfo, TabInv, ExecInv, SshInv
<1> QED
  BY <1>2, <1>3, <1>4, <1>5, <1>6, <1>7, <1>8, <1>9, <1>10 DEF SocketStep

\* TermInv is inductive.
LEMMA TermStepInv == TermInv /\ [Next]_vars => TermInv'
<1> SUFFICES ASSUME TermInv, [Next]_vars PROVE TermInv'
  OBVIOUS
<1>1. CASE UNCHANGED vars
  BY <1>1 DEF TermInv, TypeOK, RowInv, ActiveTabExists, Opened, vars, panelVars
<1>2. CASE Toggle
  BY <1>2 DEF Toggle, Toggled, TermInv, TypeOK, RowInv, ActiveTabExists, Opened
<1>3. CASE Navigate
  BY <1>3 DEF Navigate, TermInv, TypeOK, RowInv, ActiveTabExists, Opened
<1>4. termOpen \in BOOLEAN /\ onTopology \in BOOLEAN
  BY DEF TermInv, TypeOK
<1>5. CASE AddTab
  <2>1. NewSsh \in TabInfo /\ TabInv(NewSsh)
    BY DEF NewSsh, TabInfo, TabInv, ExecInv, SshInv
  <2>2. termOpen' \in BOOLEAN
    BY <1>4, <1>5 DEF AddTab, Toggled
  <2> QED
    BY <1>5, <2>1, <2>2, AppendStep DEF AddTab
<1>6. CASE OpenExecTab
  <2>1. NewExec \in TabInfo /\ TabInv(NewExec)
    BY DEF NewExec, NewSsh, TabInfo, TabInv, ExecInv, SshInv
  <2>2. termOpen' \in BOOLEAN
    BY <1>4, <1>6 DEF OpenExecTab, Toggled
  <2> QED
    BY <1>6, <2>1, <2>2, AppendStep DEF OpenExecTab
<1>7. ASSUME NEW k \in 1 .. MaxTabs, CloseTab(k) PROVE TermInv'
  BY <1>7, CloseStep
<1>8. ASSUME NEW i \in Ids, Opened(i), SelectTab(i) PROVE TermInv'
  BY <1>4, <1>8
  DEF SelectTab, Toggled, TermInv, TypeOK, RowInv, ActiveTabExists, Opened
<1>9. ASSUME NEW i \in Ids, ConnectSsh(i) \/ Render(i) \/ SocketStep(i) PROVE TermInv'
  BY <1>9, SocketInv
<1> QED
  BY <1>1, <1>2, <1>3, <1>5, <1>6, <1>7, <1>8, <1>9 DEF Next

LEMMA TermInvariance == Spec => []TermInv
  BY TermInitInv, TermStepInv, PTL DEF Spec

\* The variables keep their types: no tab count or id leaves its range and no
\* record an unknown state.
THEOREM TermTypeCorrect == Spec => []TypeOK
<1>1. TermInv => TypeOK
  BY DEF TermInv
<1> QED
  BY <1>1, TermInvariance, PTL

\* Whichever tabs are opened and closed, one is on top and none is listed twice.
THEOREM RowCorrect == Spec => []ActiveTabExists
<1>1. TermInv => ActiveTabExists
  BY DEF TermInv, RowInv
<1> QED
  BY <1>1, TermInvariance, PTL

\* The dot of an exec tab is lit exactly while its session is.
THEOREM ExecDotCorrect == Spec => []ExecDotTrue
<1>1. TermInv => ExecDotTrue
  BY DEF TermInv, TabInv, ExecInv, ExecDotTrue
<1> QED
  BY <1>1, TermInvariance, PTL

\* The dot of an SSH tab is right but for the two races that skew records.
THEOREM SshDotCorrect == Spec => []SshDotTrueButForRaces
<1>1. TermInv => SshDotTrueButForRaces
  BY DEF TermInv, TabInv, SshInv, SshDotTrueButForRaces
<1> QED
  BY <1>1, TermInvariance, PTL

\* A new SSH terminal opens on top, in an expanded panel.
THEOREM NewTerminalCorrect == Spec => NewTerminalShown
<1>1. TermInv /\ [Next]_vars
      => [nextId' # nextId /\ tab'[nextId].kind = "ssh"
            => termOpen' /\ activeId' = nextId]_vars
  <2> SUFFICES ASSUME TermInv, Next, nextId' # nextId, tab'[nextId].kind = "ssh"
               PROVE  termOpen' /\ activeId' = nextId
    OBVIOUS
  <2>1. tab \in [Ids -> TabInfo] /\ termOpen \in BOOLEAN
    BY DEF TermInv, TypeOK
  <2>2. CASE AddTab
    BY <2>1, <2>2 DEF AddTab, Append1, Toggled
  <2>3. ~OpenExecTab
    BY <2>1 DEF OpenExecTab, Append1, NewExec, NewSsh
  <2>4. ~(Toggle \/ Navigate \/ \E k \in 1 .. MaxTabs: CloseTab(k))
    BY DEF Toggle, Navigate, CloseTab
  <2>5. \A i \in Ids:
          ~(SelectTab(i) \/ ConnectSsh(i) \/ Render(i) \/ SocketStep(i))
    BY DEF SelectTab, ConnectSsh, Render, SocketStep, WsOpens, AuthOk, AuthFail,
           ServerCloses, CloseEvent, Fail, OldCloseEvent, panelVars
  <2> QED
    BY <2>2, <2>3, <2>4, <2>5 DEF Next
<1> QED
  BY <1>1, TermInvariance, PTL DEF Spec, NewTerminalShown
-----------------------------------------------------------------------------
(* The side panel. *)

\* The manager of the column on screen reads the log of its pod, a slot without
\* a manager is as new, and a manager waits to connect again only while it has
\* no socket.
FeedInv ==
  /\ column.slot # 0 => mgrs[column.slot].pod # None
  /\ \A s \in Slots: mgrs[s].pod = None => mgrs[s] = Unused
  /\ \A s \in Slots: mgrs[s].m.timer => mgrs[s].m.sock = "closed"
  /\ OneFeed /\ LiveTrue

NfInv == NfTypeOK /\ PanelConsistent /\ FeedInv

LEMMA NfInitInv == NfInit => NfInv
<1> SUFFICES ASSUME NfInit PROVE NfInv
  OBVIOUS
<1>1. MaxBackoff \in Nat /\ 1 \in 1 .. MaxBackoff /\ Connecting \in Manager
  BY BackoffAssumption DEF Connecting, Manager
<1>2. nfTabs \in Seq(Pods) /\ Len(nfTabs) = 0
  BY DEF NfInit
<1>3. NfTypeOK
  <2>1. Unused \in [pod: Pods \cup {None}, m: Manager]
    BY <1>1 DEF Unused
  <2>2. NoColumn \in [slot: Slots \cup {0}, live: BOOLEAN]
    BY DEF NoColumn
  <2>3. polls \in [Pods -> 0 .. MaxPolls]
    BY PollsAssumption DEF NfInit
  <2> QED
    BY <1>2, <2>1, <2>2, <2>3 DEF NfInit, NfTypeOK
<1>4. PanelConsistent
  BY <1>2 DEF NfInit, PanelConsistent
<1>5. FeedInv
  BY <1>1, NoneAssumption DEF NfInit, FeedInv, OneFeed, LiveTrue, Unused, NoColumn,
     Connecting, Column, ColumnPod, Panel, PanelPod
<1> QED
  BY <1>3, <1>4, <1>5 DEF NfInv

\* The functions of the manager keep its type.
LEMMA ManagerType ==
  ASSUME NEW m \in Manager
  PROVE  {Connecting, OnOpen(m), OnClose(m), OnTimer(m), Close(m)} \subseteq Manager
<1>1. MaxBackoff \in Nat /\ 1 \in 1 .. MaxBackoff
  BY BackoffAssumption
<1>2. Connecting \in Manager /\ OnOpen(m) \in Manager
  BY <1>1 DEF Connecting, OnOpen, Manager
<1>3. OnClose(m) \in Manager
  BY DEF OnClose, Manager
<1>4. OnTimer(m) \in Manager
  <2>1. Doubled(m.backoff) \in 1 .. MaxBackoff
    BY <1>1 DEF Doubled, Manager
  <2> QED
    BY <2>1 DEF OnTimer, Connect, Manager
<1>5. Close(m) \in Manager
  BY DEF Close, Manager
<1> QED
  BY <1>2, <1>3, <1>4, <1>5

\* Mounting the column of a pod leaves one feed: whatever manager was on screen
\* is closed, and a new one starts unconnected.
LEMMA ColumnStep ==
  ASSUME NfInv, NEW pod \in Pods \cup {None}, MountColumn(pod), Column' = pod
  PROVE  FeedInv' /\ mgrs' \in [Slots -> [pod: Pods \cup {None}, m: Manager]]
                  /\ column' \in [slot: Slots \cup {0}, live: BOOLEAN]
<1> DEFINE closed ==
      [s \in Slots |->
        IF s = column.slot THEN Forgotten([mgrs[s] EXCEPT !.m = Close(@)])
        ELSE mgrs[s]]
<1>1. /\ mgrs \in [Slots -> [pod: Pods \cup {None}, m: Manager]]
      /\ column \in [slot: Slots \cup {0}, live: BOOLEAN]
      /\ FeedInv
  BY DEF NfInv, NfTypeOK
<1>2. CASE pod = Column
  BY <1>1, <1>2 DEF MountColumn, FeedInv, OneFeed, LiveTrue
<1>3. ASSUME NEW s \in Slots
      PROVE  /\ closed[s] \in [pod: Pods \cup {None}, m: Manager]
             /\ closed[s].pod = None => closed[s] = Unused
             /\ ~closed[s].m.timer \/ closed[s].m.sock = "closed"
             /\ closed[s].pod # None =>
                  closed[s].m.closed /\ closed[s].m.sock = "closing"
                  /\ ~closed[s].m.timer
  <2>0. mgrs[s].m \in Manager /\ Unused \in [pod: Pods \cup {None}, m: Manager]
        /\ ~Unused.m.timer /\ Unused.pod = None
    BY <1>1, ManagerType DEF Unused, Connecting
  <2>1. CASE s # column.slot
    BY <1>1, <2>0, <2>1 DEF FeedInv, OneFeed
  <2>2. CASE s = column.slot
    <3>1. /\ Close(mgrs[s].m) \in Manager
          /\ Close(mgrs[s].m).closed /\ ~Close(mgrs[s].m).timer
          /\ Close(mgrs[s].m).sock \in {"closed", "closing"}
      BY <2>0, ManagerType DEF Close, Manager
    <3>2. mgrs[s].pod # None
      BY <1>1, <2>2, SlotsAssumption DEF FeedInv
    <3>3. closed[s] = IF Close(mgrs[s].m).sock = "closed" THEN Unused
                      ELSE [mgrs[s] EXCEPT !.m = Close(@)]
      BY <1>1, <2>2, <3>1 DEF Forgotten
    <3>4. [mgrs[s] EXCEPT !.m = Close(@)]
            = [pod |-> mgrs[s].pod, m |-> Close(mgrs[s].m)]
      BY <1>1
    <3> HIDE DEF closed
    <3> QED
      BY <1>1, <2>0, <3>1, <3>2, <3>3, <3>4
  <2> QED
    BY <2>1, <2>2
<1>4. CASE pod = None /\ pod # Column
  <2>1. mgrs' = closed /\ column' = NoColumn
    BY <1>4 DEF MountColumn
  <2>2. mgrs' \in [Slots -> [pod: Pods \cup {None}, m: Manager]]
    BY <1>3, <2>1
  <2> HIDE DEF closed
  <2>3. OneFeed' /\ LiveTrue'
    BY <1>3, <1>4, <2>1, SlotsAssumption DEF OneFeed, LiveTrue, NoColumn
  <2> QED
    BY <1>3, <2>1, <2>2, <2>3 DEF FeedInv, NoColumn
<1>5. CASE pod # None /\ pod # Column
  <2>1. PICK s \in Slots:
          /\ mgrs' = [closed EXCEPT ![s] = [pod |-> pod, m |-> Connecting]]
          /\ column' = [slot |-> s, live |-> FALSE]
    BY <1>5 DEF MountColumn
  <2>2. /\ Connecting \in Manager /\ ~Connecting.closed /\ ~Connecting.timer
        /\ Connecting.sock = "connecting"
    <3>1. mgrs[s].m \in Manager
      BY <1>1
    <3> QED
      BY <3>1, ManagerType DEF Connecting
  <2>3. /\ mgrs'[s] = [pod |-> pod, m |-> Connecting]
        /\ \A r \in Slots: r # s => mgrs'[r] = closed[r]
        /\ mgrs' = [r \in Slots |-> mgrs'[r]]
    BY <2>1
  <2> HIDE DEF closed
  <2>4. mgrs' \in [Slots -> [pod: Pods \cup {None}, m: Manager]]
    BY <1>3, <2>2, <2>3
  <2>5. OneFeed'
    BY <1>3, <1>5, <2>1, <2>2, <2>3, SlotsAssumption DEF OneFeed
  <2>6. LiveTrue'
    BY <2>1, <2>2, <2>3, SlotsAssumption DEF LiveTrue
  <2> QED
    BY <1>3, <1>5, <2>1, <2>2, <2>3, <2>4, <2>5, <2>6 DEF FeedInv
<1> QED
  BY <1>2, <1>4, <1>5

LEMMA MetricsStep ==
  ASSUME NfTypeOK, NEW pod \in Pods \cup {None}, MountMetrics(pod)
  PROVE  polls' \in [Pods -> 0 .. MaxPolls] /\ metrics' \in Pods \cup {None}
<1>1. polls \in [Pods -> 0 .. MaxPolls] /\ MaxPolls \in Nat
  BY PollsAssumption DEF NfTypeOK
<1>2. CASE pod = Panel \/ pod = None
  BY <1>1, <1>2 DEF MountMetrics, NfTypeOK
<1>3. CASE pod # None /\ pod # Panel
  BY <1>1, <1>3 DEF MountMetrics
<1> QED
  BY <1>2, <1>3

\* Whatever the user does to tabs and views, if it leaves them consistent the
\* effects of rendering leave one feed.
LEMMA PageStep ==
  ASSUME NfInv, NEW bar \in Seq(Pods), NEW id \in Pods \cup {None},
         NEW open \in BOOLEAN, NEW v \in {"logs", "info"},
         Page(bar, id, open, v), PanelConsistent'
  PROVE  NfInv'
<1> DEFINE pod == PanelPod(open, bar, id)
           w   == IF Panel = None THEN "logs" ELSE v
<1>1. pod \in Pods \cup {None} /\ ColumnPod(pod, w) \in Pods \cup {None}
  BY DEF PanelPod, ColumnPod
<1>2. /\ nfTabs' = bar /\ activeNfTabId' = id /\ sidePanelOpen' = open
      /\ view' = IF pod = None THEN "logs" ELSE w
      /\ MountColumn(ColumnPod(pod, w)) /\ MountMetrics(pod)
  BY DEF Page
<1>3. Column' = ColumnPod(pod, w)
  BY <1>2 DEF Column, ColumnPod, Panel
<1>4. view' \in {"logs", "info"}
  BY <1>2
<1> HIDE DEF pod, w
<1>5. FeedInv' /\ mgrs' \in [Slots -> [pod: Pods \cup {None}, m: Manager]]
               /\ column' \in [slot: Slots \cup {0}, live: BOOLEAN]
  BY <1>1, <1>2, <1>3, ColumnStep
<1>6. polls' \in [Pods -> 0 .. MaxPolls] /\ metrics' \in Pods \cup {None}
  BY <1>1, <1>2, MetricsStep DEF NfInv
<1> QED
  BY <1>2, <1>4, <1>5, <1>6 DEF NfInv, NfTypeOK

\* A click adds a tab at most once, and it is on top.
LEMMA ClickStep ==
  ASSUME NfInv, NEW p \in Pods, ClickNode(p)
  PROVE  NfInv'
<1> DEFINE bar == IF IsTab(nfTabs, p) THEN nfTabs ELSE Append(nfTabs, p)
<1>1. nfTabs \in Seq(Pods) /\ Len(nfTabs) \in Nat /\ view \in {"logs", "info"}
  BY LenProperties DEF NfInv, NfTypeOK
<1>2. /\ bar \in Seq(Pods) /\ IsTab(bar, p)
      /\ \A j, k \in 1 .. Len(bar): bar[j] = bar[k] => j = k
  <2>1. CASE IsTab(nfTabs, p)
    BY <1>1, <2>1 DEF NfInv, PanelConsistent
  <2>2. CASE ~IsTab(nfTabs, p)
    <3>1. /\ bar \in Seq(Pods) /\ Len(bar) = Len(nfTabs) + 1
          /\ \A k \in 1 .. Len(nfTabs): bar[k] = nfTabs[k] /\ nfTabs[k] # p
          /\ bar[Len(nfTabs) + 1] = p
      BY <1>1, <2>2, AppendProperties DEF IsTab
    <3>2. \A k \in 1 .. Len(bar): k \in 1 .. Len(nfTabs) \/ k = Len(nfTabs) + 1
      BY <1>1, <3>1
    <3> HIDE DEF bar
    <3> QED
      BY <1>1, <3>1, <3>2 DEF NfInv, PanelConsistent, IsTab
  <2> QED
    BY <2>1, <2>2
<1>3. Page(bar, p, TRUE, view)
  BY DEF ClickNode
<1> HIDE DEF bar
<1>4. nfTabs' = bar /\ activeNfTabId' = p /\ sidePanelOpen' = TRUE
  BY <1>3 DEF Page
<1>5. bar # <<>>
  BY <1>2 DEF IsTab
<1>6. PanelConsistent'
  BY <1>2, <1>4, <1>5 DEF PanelConsistent
<1> QED
  BY <1>1, <1>2, <1>3, <1>6, PageStep

\* Closing a tab: the last one takes over from the active one, and with the
\* only one the panel closes.
LEMMA CloseNfStep ==
  ASSUME NfInv, NEW k \in 1 .. Len(nfTabs), CloseNfTab(k)
  PROVE  NfInv'
<1> DEFINE rest == Without(nfTabs, k)
           next == IF activeNfTabId = nfTabs[k] THEN rest[Len(rest)]
                   ELSE activeNfTabId
<1>1. /\ nfTabs \in Seq(Pods) /\ Len(nfTabs) \in Nat
      /\ view \in {"logs", "info"} /\ activeNfTabId \in Pods \cup {None}
      /\ sidePanelOpen = TRUE /\ IsTab(nfTabs, activeNfTabId)
  BY LenProperties DEF NfInv, NfTypeOK, CloseNfTab, Panel, PanelPod
<1>2. /\ rest \in Seq(Pods) /\ Len(rest) \in Nat
      /\ \A i, j \in 1 .. Len(rest): rest[i] = rest[j] => i = j
      /\ \A j \in 1 .. Len(nfTabs): j # k =>
           \E i \in 1 .. Len(rest): rest[i] = nfTabs[j]
  <2>1. rest \in Seq(Pods)
    BY <1>1, WithoutProperties
  <2>2. \A i, j \in 1 .. Len(nfTabs): nfTabs[i] = nfTabs[j] => i = j
    BY DEF NfInv, PanelConsistent
  <2> QED
    BY <1>1, <2>1, <2>2, WithoutRow, LenProperties
<1>3. CASE rest = <<>>
  <2>1. Page(rest, None, FALSE, view)
    BY <1>3 DEF CloseNfTab
  <2>2. PanelConsistent'
    BY <1>2, <1>3, <2>1 DEF PanelConsistent, Page
  <2> QED
    BY <1>1, <1>2, <2>1, <2>2, PageStep
<1>4. CASE rest # <<>>
  <2>1. Page(rest, next, TRUE, view)
    BY <1>1, <1>4 DEF CloseNfTab
  <2>2. Len(rest) \in 1 .. Len(rest)
    BY <1>2, <1>4, EmptySeq
  <2> HIDE DEF rest
  <2>3. next \in Pods /\ IsTab(rest, next)
    <3>1. CASE activeNfTabId = nfTabs[k]
      BY <1>2, <2>2, <3>1, ElementOfSeq DEF IsTab
    <3>2. CASE activeNfTabId # nfTabs[k]
      <4>1. PICK j \in 1 .. Len(nfTabs): nfTabs[j] = activeNfTabId
        BY <1>1 DEF IsTab
      <4>2. nfTabs[j] \in Pods
        BY <1>1, <4>1, ElementOfSeq
      <4> QED
        BY <1>2, <3>2, <4>1, <4>2 DEF IsTab
    <3> QED
      BY <3>1, <3>2
  <2> HIDE DEF next
  <2>4. PanelConsistent'
    BY <1>2, <1>4, <2>1, <2>3 DEF PanelConsistent, Page
  <2> QED
    BY <1>1, <1>2, <2>1, <2>3, <2>4, PageStep
<1> QED
  BY <1>3, <1>4

\* Tabs and views are chosen among those there are, and the panel is closed.
LEMMA ChooseStep ==
  ASSUME NfInv,
         \/ \E k \in 1 .. Len(nfTabs): SelectNfTab(k)
         \/ \E v \in {"logs", "info"}: SetView(v)
         \/ ClosePanel
  PROVE  NfInv'
<1>1. /\ nfTabs \in Seq(Pods) /\ Len(nfTabs) \in Nat
      /\ view \in {"logs", "info"} /\ activeNfTabId \in Pods \cup {None}
      /\ sidePanelOpen \in BOOLEAN
  BY LenProperties DEF NfInv, NfTypeOK
<1>2. ASSUME NEW k \in 1 .. Len(nfTabs), SelectNfTab(k) PROVE NfInv'
  <2>1. nfTabs[k] \in Pods /\ Page(nfTabs, nfTabs[k], sidePanelOpen, view)
    BY <1>1, <1>2, ElementOfSeq DEF SelectNfTab
  <2>2. PanelConsistent'
    BY <2>1 DEF NfInv, PanelConsistent, Page, IsTab
  <2> QED
    BY <1>1, <2>1, <2>2, PageStep
<1>3. ASSUME NEW v \in {"logs", "info"}, SetView(v) PROVE NfInv'
  <2>1. Page(nfTabs, activeNfTabId, sidePanelOpen, v)
    BY <1>3 DEF SetView
  <2>2. PanelConsistent'
    BY <2>1 DEF NfInv, PanelConsistent, Page
  <2> QED
    BY <1>1, <2>1, <2>2, PageStep
<1>4. CASE ClosePanel
  <2>1. Page(<<>>, None, FALSE, view)
    BY <1>4 DEF ClosePanel
  <2>2. <<>> \in Seq(Pods) /\ Len(<<>>) = 0
    OBVIOUS
  <2>3. PanelConsistent'
    BY <2>1, <2>2 DEF PanelConsistent, Page
  <2> QED
    BY <1>1, <2>1, <2>2, <2>3, PageStep
<1> QED
  BY <1>2, <1>3, <1>4

\* An event of a socket or of its timer, in whichever slot: only the manager on
\* screen opens and waits, the others fall away.
LEMMA FeedStep ==
  ASSUME NfInv, NEW s \in Slots,
         SocketOpens(s) \/ SocketCloses(s) \/ TimerFires(s)
  PROVE  NfInv'
<1> DEFINE Cell == [pod: Pods \cup {None}, m: Manager]
<1>1. /\ mgrs \in [Slots -> Cell] /\ mgrs[s] \in Cell /\ mgrs[s].m \in Manager
      /\ column \in [slot: Slots \cup {0}, live: BOOLEAN] /\ FeedInv
      /\ Unused \in Cell /\ ~Unused.m.timer /\ Unused.pod = None
  BY ManagerType DEF NfInv, NfTypeOK, Unused, Connecting
<1>2. mgrs[s].pod # None
  BY <1>1 DEF SocketOpens, SocketCloses, TimerFires, FeedInv
<1>3. UNCHANGED <<pageVars, polls, metrics>>
  BY DEF SocketOpens, SocketCloses, TimerFires
<1>4. Column' = Column /\ PanelConsistent'
  BY <1>3 DEF pageVars, Column, ColumnPod, Panel, PanelPod, IsTab,
     NfInv, PanelConsistent
<1>5. ASSUME mgrs' = [mgrs EXCEPT ![s] = mgrs'[s]], mgrs'[s] \in Cell,
             column' \in [slot: Slots \cup {0}, live: BOOLEAN], FeedInv'
      PROVE  NfInv'
  <2>1. mgrs' \in [Slots -> Cell]
    BY <1>1, <1>5
  <2> QED
    BY <1>3, <1>4, <1>5, <2>1 DEF NfInv, NfTypeOK, pageVars
<1>6. CASE SocketOpens(s)
  <2>1. s = column.slot /\ mgrs[s].m.sock = "connecting"
    BY <1>1, <1>2, <1>6 DEF SocketOpens, FeedInv, OneFeed
  <2>2. /\ mgrs' = [mgrs EXCEPT ![s] = mgrs'[s]]
        /\ mgrs'[s] = [mgrs[s] EXCEPT !.m = OnOpen(mgrs[s].m)]
        /\ column' = [column EXCEPT !.live = TRUE]
    BY <1>1, <1>6, <2>1 DEF SocketOpens, SetLive
  <2>3. /\ mgrs'[s] \in Cell /\ mgrs'[s].pod = mgrs[s].pod
        /\ mgrs'[s].m = OnOpen(mgrs[s].m)
    BY <1>1, <2>2, ManagerType
  <2>4. /\ mgrs'[s].m.sock = "open" /\ mgrs'[s].m.closed = mgrs[s].m.closed
        /\ ~mgrs'[s].m.timer
    BY <1>1, <2>1, <2>3 DEF OnOpen, Manager, FeedInv
  <2>5. \A r \in Slots: r # s => mgrs'[r] = mgrs[r]
    BY <1>1, <2>2
  <2>6. /\ column' \in [slot: Slots \cup {0}, live: BOOLEAN]
        /\ column'.slot = s /\ column'.live = TRUE
    BY <1>1, <2>1, <2>2
  <2>7. OneFeed'
    BY <1>1, <1>2, <1>4, <2>1, <2>3, <2>4, <2>5, <2>6 DEF FeedInv, OneFeed
  <2>8. LiveTrue'
    BY <2>4, <2>6, SlotsAssumption DEF LiveTrue
  <2>9. FeedInv'
    BY <1>1, <1>2, <2>3, <2>4, <2>5, <2>6, <2>7, <2>8 DEF FeedInv
  <2> QED
    BY <1>5, <2>2, <2>3, <2>6, <2>9
<1>7. CASE SocketCloses(s)
  <2>1. /\ OnClose(mgrs[s].m) \in Manager /\ OnClose(mgrs[s].m).sock = "closed"
        /\ OnClose(mgrs[s].m).closed = mgrs[s].m.closed
    BY <1>1, ManagerType DEF OnClose, Manager
  <2>2. /\ mgrs' = [mgrs EXCEPT ![s] = mgrs'[s]]
        /\ mgrs'[s] = Forgotten([mgrs[s] EXCEPT !.m = OnClose(@)])
    BY <1>1, <1>7 DEF SocketCloses
  <2>3. [mgrs[s] EXCEPT !.m = OnClose(@)]
          = [pod |-> mgrs[s].pod, m |-> OnClose(mgrs[s].m)]
    BY <1>1
  <2>4. mgrs'[s] = IF mgrs[s].m.closed THEN Unused
                   ELSE [pod |-> mgrs[s].pod, m |-> OnClose(mgrs[s].m)]
    BY <2>1, <2>2, <2>3 DEF Forgotten
  <2>5. mgrs'[s] \in Cell
    BY <1>1, <2>1, <2>4
  <2>6. \A r \in Slots: r # s => mgrs'[r] = mgrs[r]
    BY <1>1, <2>2
  <2>7. /\ column' \in [slot: Slots \cup {0}, live: BOOLEAN]
        /\ column'.slot = column.slot
        /\ column'.live = IF s = column.slot THEN FALSE ELSE column.live
    BY <1>1, <1>7 DEF SocketCloses, SetLive
  <2>8. FeedInv'
    <3>1. CASE s = column.slot
      <4>1. /\ ~mgrs[s].m.closed
            /\ mgrs'[s] = [pod |-> mgrs[s].pod, m |-> OnClose(mgrs[s].m)]
        BY <1>1, <1>2, <2>4, <3>1 DEF FeedInv, OneFeed
      <4>2. OneFeed'
        BY <1>1, <1>2, <1>4, <2>1, <2>6, <2>7, <3>1, <4>1 DEF FeedInv, OneFeed
      <4>3. LiveTrue'
        BY <2>1, <2>7, <3>1, <4>1 DEF LiveTrue
      <4> QED
        BY <1>1, <1>2, <2>1, <2>6, <2>7, <3>1, <4>1, <4>2, <4>3 DEF FeedInv
    <3>2. CASE s # column.slot
      <4>1. mgrs'[s] = Unused
        BY <1>1, <1>2, <2>4, <3>2 DEF FeedInv, OneFeed
      <4>2. OneFeed'
        BY <1>1, <1>4, <2>6, <2>7, <3>2, <4>1 DEF FeedInv, OneFeed
      <4>3. LiveTrue'
        BY <1>1, <2>6, <2>7, <3>2 DEF FeedInv, LiveTrue
      <4> QED
        BY <1>1, <2>6, <2>7, <3>2, <4>1, <4>2, <4>3 DEF FeedInv
    <3> QED
      BY <3>1, <3>2
  <2> QED
    BY <1>5, <2>2, <2>5, <2>7, <2>8
<1>8. CASE TimerFires(s)
  <2>1. s = column.slot /\ mgrs[s].m.sock = "closed" /\ ~mgrs[s].m.closed
    BY <1>1, <1>2, <1>8 DEF TimerFires, FeedInv, OneFeed
  <2>2. /\ mgrs' = [mgrs EXCEPT ![s] = mgrs'[s]] /\ column' = column
        /\ mgrs'[s] = [mgrs[s] EXCEPT !.m = OnTimer(mgrs[s].m)]
    BY <1>1, <1>8 DEF TimerFires
  <2>3. /\ mgrs'[s] \in Cell /\ mgrs'[s].pod = mgrs[s].pod
        /\ mgrs'[s].m = OnTimer(mgrs[s].m)
    BY <1>1, <2>2, ManagerType
  <2>4. /\ mgrs'[s].m.sock = "connecting" /\ ~mgrs'[s].m.closed
        /\ ~mgrs'[s].m.timer
    BY <1>1, <2>1, <2>3 DEF OnTimer, Connect, Manager
  <2>5. \A r \in Slots: r # s => mgrs'[r] = mgrs[r]
    BY <1>1, <2>2
  <2>6. OneFeed'
    BY <1>1, <1>2, <1>4, <2>1, <2>2, <2>3, <2>4, <2>5 DEF FeedInv, OneFeed
  <2>7. LiveTrue'
    BY <1>1, <2>1, <2>2, <2>4 DEF FeedInv, LiveTrue
  <2>8. FeedInv'
    BY <1>1, <1>2, <2>1, <2>2, <2>3, <2>4, <2>5, <2>6, <2>7 DEF FeedInv
  <2> QED
    BY <1>1, <1>5, <2>2, <2>3, <2>8
<1> QED
  BY <1>6, <1>7, <1>8

\* NfInv is inductive.
LEMMA NfStepInv == NfInv /\ [NfNext]_nfVars => NfInv'
<1> SUFFICES ASSUME NfInv, [NfNext]_nfVars PROVE NfInv'
  OBVIOUS
<1>1. CASE UNCHANGED nfVars
  BY <1>1 DEF NfInv, NfTypeOK, PanelConsistent, FeedInv, OneFeed, LiveTrue,
     Column, ColumnPod, Panel, PanelPod, nfVars, pageVars
<1>2. ASSUME NEW p \in Pods, Poll(p) \/ PollAnswered(p) PROVE NfInv'
  <2>1. /\ polls \in [Pods -> 0 .. MaxPolls] /\ MaxPolls \in Nat
        /\ UNCHANGED <<pageVars, mgrs, column>>
    BY <1>2, PollsAssumption DEF NfInv, NfTypeOK, Poll, PollAnswered
  <2>2. polls' \in [Pods -> 0 .. MaxPolls] /\ metrics' \in Pods \cup {None}
    BY <1>2, <2>1 DEF NfInv, NfTypeOK, Poll, PollAnswered
  <2> QED
    BY <2>1, <2>2
    DEF NfInv, NfTypeOK, PanelConsistent, FeedInv, OneFeed, LiveTrue,
        Column, ColumnPod, Panel, PanelPod, pageVars
<1> QED
  BY <1>1, <1>2, ClickStep, CloseNfStep, ChooseStep, FeedStep DEF NfNext

LEMMA NfInvariance == NfSpec => []NfInv
  BY NfInitInv, NfStepInv, PTL DEF NfSpec

\* The side panel's state keeps its types, for any pods, managers and delays.
THEOREM NfTypeCorrect == NfSpec => []NfTypeOK
<1>1. NfInv => NfTypeOK
  BY DEF NfInv
<1> QED
  BY <1>1, NfInvariance, PTL

\* Whichever nodes are clicked and tabs closed, the panel is open exactly while
\* there are tabs, no node has two, and the active one is among them.
THEOREM PanelCorrect == NfSpec => []PanelConsistent
<1>1. NfInv => PanelConsistent
  BY DEF NfInv
<1> QED
  BY <1>1, NfInvariance, PTL

\* However tabs and views are switched, only the log on screen has a socket that
\* is kept open, and no manager left behind will connect again.
THEOREM FeedCorrect == NfSpec => []OneFeed
<1>1. NfInv => OneFeed
  BY DEF NfInv, FeedInv
<1> QED
  BY <1>1, NfInvariance, PTL

\* LIVE tells the truth of the connection on screen, in whatever order the
\* sockets of the columns before it report.
THEOREM LiveCorrect == NfSpec => []LiveTrue
<1>1. NfInv => LiveTrue
  BY DEF NfInv, FeedInv
<1> QED
  BY <1>1, NfInvariance, PTL
-----------------------------------------------------------------------------
(* Numbers. *)

\* Every set of natural numbers has a least element.
LEMMA LeastExists ==
  ASSUME NEW T \in SUBSET Nat, T # {}
  PROVE  \E i \in T: \A j \in T: i <= j
<1>1. PICK i \in T: \A j \in T: ~(<<j, i>> \in OpToRel(<, Nat))
  <2> HIDE DEF OpToRel
  <2> QED
    BY NatLessThanWellFounded, WFMin, Zenon
<1>2. ASSUME NEW j \in T PROVE i <= j
  <2>1. <<j, i>> \in Nat \X Nat /\ ~(<<j, i>> \in OpToRel(<, Nat))
    BY <1>1
  <2>2. ~(j < i)
    BY <2>1 DEF OpToRel
  <2> QED
    BY <2>2
<1> QED
  BY <1>2

\* Induction on the numbers up to n: a set that holds 0 and is closed under
\* the successor holds them all.
LEMMA Induction ==
  ASSUME NEW n \in Nat, NEW G, 0 \in G, \A k \in 1 .. n: k - 1 \in G => k \in G
  PROVE  \A k \in 0 .. n: k \in G
<1> DEFINE out == {k \in 0 .. n: k \notin G}
<1> SUFFICES ASSUME out # {} PROVE FALSE
  OBVIOUS
<1>1. PICK i \in out: \A j \in out: i <= j
  <2>1. out \in SUBSET Nat
    OBVIOUS
  <2> HIDE DEF out
  <2> QED
    BY <2>1, LeastExists
<1>2. i \in 1 .. n /\ i - 1 \in 0 .. n /\ i - 1 < i /\ i \notin G
  OBVIOUS
<1>3. i - 1 \in G
  BY <1>1, <1>2
<1> QED
  BY <1>2, <1>3

\* A function defined by recursion on the numbers up to n exists: g gives its
\* next value from its last.
Recurses(f, n, V, b, g) ==
  /\ f \in [0 .. n -> V] /\ f[0] = b
  /\ \A k \in 1 .. n: f[k] = g[<<k, f[k - 1]>>]

LEMMA Recursion ==
  ASSUME NEW n \in Nat, NEW V, NEW b \in V, NEW g \in [(1 .. n) \X V -> V]
  PROVE  \E f: Recurses(f, n, V, b, g)
<1> DEFINE Upto(m) ==
      \E f \in [0 .. m -> V]: f[0] = b /\ \A k \in 1 .. m: f[k] = g[<<k, f[k - 1]>>]
<1> DEFINE G == {m \in 0 .. n: Upto(m)}
<1>1. Upto(0)
  <2> DEFINE f == [k \in 0 .. 0 |-> b]
  <2>1. f \in [0 .. 0 -> V] /\ f[0] = b /\ 1 .. 0 = {}
    OBVIOUS
  <2> HIDE DEF f
  <2> QED
    BY <2>1
<1>2. ASSUME NEW m \in 1 .. n, Upto(m - 1) PROVE Upto(m)
  <2>1. PICK f \in [0 .. m - 1 -> V]:
          f[0] = b /\ \A k \in 1 .. m - 1: f[k] = g[<<k, f[k - 1]>>]
    BY <1>2
  <2> DEFINE h == [k \in 0 .. m |-> IF k = m THEN g[<<m, f[m - 1]>>] ELSE f[k]]
  <2>2. m \in Nat /\ m - 1 \in 0 .. m - 1 /\ f[m - 1] \in V
    OBVIOUS
  <2>3. g[<<m, f[m - 1]>>] \in V
    BY <2>2
  <2>4. h \in [0 .. m -> V]
    BY <2>2, <2>3
  <2>5. h[0] = b /\ h[m] = g[<<m, h[m - 1]>>]
    BY <2>1, <2>2
  <2>6. ASSUME NEW k \in 1 .. m, k # m PROVE h[k] = g[<<k, h[k - 1]>>]
    <3>1. k \in 1 .. m - 1 /\ k - 1 \in 0 .. m - 1 /\ k - 1 # m
      BY <2>6
    <3>2. h[k] = f[k] /\ h[k - 1] = f[k - 1]
      BY <2>6, <3>1
    <3> QED
      BY <2>1, <3>1, <3>2
  <2> HIDE DEF h
  <2> QED
    BY <2>4, <2>5, <2>6
<1>3. 0 \in G /\ \A k \in 1 .. n: k - 1 \in G => k \in G
  <2> HIDE DEF Upto
  <2>1. 0 \in G
    BY <1>1
  <2>2. ASSUME NEW k \in 1 .. n, k - 1 \in G PROVE k \in G
    BY <1>2, <2>2
  <2> QED
    BY <2>1, <2>2
<1>4. n \in G
  <2> HIDE DEF G
  <2>1. \A k \in 0 .. n: k \in G
    BY <1>3, Induction
  <2> QED
    BY <2>1
<1> QED
  BY <1>4 DEF Recurses

\* A set of numbers up to n has a first and a last element.
LEMMA Ends ==
  ASSUME NEW n \in Nat, NEW T \in SUBSET (1 .. n), T # {}
  PROVE  /\ Min(T) \in T /\ \A i \in T: Min(T) <= i
         /\ Max(T) \in T /\ \A i \in T: i <= Max(T)
<1>1. \E i \in T: \A j \in T: i <= j
  BY LeastExists
<1>2. \E i \in T: \A j \in T: j <= i
  <2> DEFINE U == {n - i : i \in T}
  <2>1. U \in SUBSET Nat /\ U # {}
    <3>1. \A i \in T: n - i \in Nat
      OBVIOUS
    <3> QED
      BY <3>1
  <2>2. PICK u \in U: \A v \in U: u <= v
    <3> HIDE DEF U
    <3> QED
      BY <2>1, LeastExists
  <2>3. PICK i \in T: u = n - i
    OBVIOUS
  <2>4. ASSUME NEW j \in T PROVE j <= i
    <3>1. n - j \in U
      OBVIOUS
    <3>2. n - i <= n - j
      BY <2>2, <2>3, <3>1
    <3> QED
      BY <3>2
  <2> QED
    BY <2>4
<1> QED
  BY <1>1, <1>2 DEF Min, Max

\* One of some nodes is as far to the right as any.
LEMMA HighestExists ==
  ASSUME NEW n \in Nat, NEW f, NEW S \in SUBSET (1 .. n), S # {},
         \A u \in S: f[u] \in Int
  PROVE  \E u \in S: \A v \in S: f[v] <= f[u]
<1> DEFINE G == {k \in 0 .. n:
               S \cap (1 .. k) # {} => \E u \in S \cap (1 .. k):
                                         \A v \in S \cap (1 .. k): f[v] <= f[u]}
<1>1. 0 \in G
  <2>1. 1 .. 0 = {}
    OBVIOUS
  <2> QED
    BY <2>1
<1>2. ASSUME NEW k \in 1 .. n, k - 1 \in G PROVE k \in G
  <2>1. S \cap (1 .. k) = (S \cap (1 .. k - 1)) \cup (S \cap {k})
    OBVIOUS
  <2>2. CASE k \notin S \/ S \cap (1 .. k - 1) = {}
    <3>1. S \cap (1 .. k) = S \cap (1 .. k - 1) \/ S \cap (1 .. k) = {k}
      BY <2>1, <2>2
    <3> QED
      BY <1>2, <3>1
  <2>3. CASE k \in S /\ S \cap (1 .. k - 1) # {}
    <3>1. PICK u \in S \cap (1 .. k - 1): \A v \in S \cap (1 .. k - 1): f[v] <= f[u]
      BY <1>2, <2>3
    <3>2. f[u] \in Int /\ f[k] \in Int /\ \A v \in S \cap (1 .. k): f[v] \in Int
      BY <2>3, <3>1
    <3>3. u \in S \cap (1 .. k) /\ k \in S \cap (1 .. k)
      BY <2>1, <2>3, <3>1
    <3>4. CASE f[k] <= f[u]
      BY <2>1, <3>1, <3>2, <3>3, <3>4
    <3>5. CASE f[u] < f[k]
      <4>1. \A v \in S \cap (1 .. k): f[v] <= f[k]
        BY <2>1, <3>1, <3>2, <3>5
      <4> QED
        BY <3>3, <4>1
    <3> QED
      BY <3>2, <3>4, <3>5
  <2> QED
    BY <2>2, <2>3
<1> HIDE DEF G
<1>3. n \in G
  <2>1. \A k \in 0 .. n: k \in G
    BY <1>1, <1>2, Induction
  <2> QED
    BY <2>1
<1> QED
  BY <1>3 DEF G

\* What SumOfY adds up, node by node.
IsSumOfY(s, pos, nodes) ==
  /\ s \in [0 .. Len(TypeOf) -> Int] /\ s[0] = 0
  /\ \A n \in Nodes: s[n] = s[n - 1] + IF n \in nodes THEN pos[n].y ELSE 0

LEMMA SumOfYIs ==
  ASSUME NEW pos, NEW S, \A n \in S: pos[n].y \in Int
  PROVE  \E s: IsSumOfY(s, pos, S) /\ SumOfY(pos, S) = s[Len(TypeOf)]
<1> DEFINE L == Len(TypeOf)
           y(n) == IF n \in S THEN pos[n].y ELSE 0
           Eqn(f) == f = [n \in 0 .. L |->
                            IF n = 0 THEN 0
                            ELSE f[n - 1] + IF n \in S THEN pos[n].y ELSE 0]
           g == [p \in (1 .. L) \X Int |-> p[2] + y(p[1])]
           s == CHOOSE f: Eqn(f)
<1>1. L \in Nat
  BY NodesAssumption, LenProperties
<1>2. \A n: y(n) \in Int
  OBVIOUS
<1>3. SumOfY(pos, S) = s[L]
  BY DEF SumOfY
<1>0. ASSUME NEW f PROVE Eqn(f) <=> f = [n \in 0 .. L |-> IF n = 0 THEN 0 ELSE f[n - 1] + y(n)]
  OBVIOUS
<1> HIDE DEF L, y
<1>4. g \in [(1 .. L) \X Int -> Int]
  BY <1>2
<1>5. \A n \in 1 .. L, x \in Int: g[<<n, x>>] = x + y(n)
  OBVIOUS
<1> HIDE DEF g
<1>6. PICK f \in [0 .. L -> Int]: f[0] = 0 /\ \A n \in 1 .. L: f[n] = g[<<n, f[n - 1]>>]
  <2>1. \E f: Recurses(f, L, Int, 0, g)
    <3>1. 0 \in Int
      OBVIOUS
    <3> QED
      BY <1>1, <1>4, <3>1, Recursion, Zenon
  <2> QED
    BY <2>1 DEF Recurses
<1>7. \A n \in 1 .. L: f[n] = f[n - 1] + y(n)
  <2>1. \A n \in 1 .. L: f[n - 1] \in Int
    BY <1>1
  <2> QED
    BY <1>5, <1>6, <2>1
<1>8. f = [n \in 0 .. L |-> IF n = 0 THEN 0 ELSE f[n - 1] + y(n)]
  <2>1. \A n \in 0 .. L: n = 0 \/ n \in 1 .. L
    BY <1>1
  <2>2. f = [n \in 0 .. L |-> f[n]]
    OBVIOUS
  <2> QED
    BY <1>6, <1>7, <2>1, <2>2
<1>9. Eqn(f)
  BY <1>0, <1>8, Zenon
<1>10. Eqn(s)
  <2> HIDE DEF Eqn
  <2> QED
    BY <1>9, Zenon
<1>11. s = [n \in 0 .. L |-> IF n = 0 THEN 0 ELSE s[n - 1] + y(n)]
  BY <1>0, <1>10, Zenon
<1> HIDE DEF s, Eqn
<1>12. s = f
  <2> DEFINE same == {n \in 0 .. L: s[n] = f[n]}
  <2>1. s[0] = 0 /\ \A n \in 1 .. L: s[n] = s[n - 1] + y(n)
    BY <1>1, <1>11
  <2>2. 0 \in same /\ \A n \in 1 .. L: n - 1 \in same => n \in same
    BY <1>1, <1>6, <1>7, <2>1
  <2> HIDE DEF same
  <2>3. \A n \in 0 .. L: n \in same
    BY <1>1, <2>2, Induction
  <2>4. \A n \in 0 .. L: s[n] = f[n]
    BY <2>3 DEF same
  <2> QED
    BY <1>11, <2>4
<1>13. IsSumOfY(s, pos, S)
  BY <1>6, <1>7, <1>12 DEF IsSumOfY, L, y, Nodes
<1> QED
  BY <1>3, <1>13 DEF L
-----------------------------------------------------------------------------
(* The canvas. *)

(* The coordinates of the layout are numbers. *)

LEMMA RowType ==
  ASSUME NEW k \in Nat, NEW row \in SUBSET (1 .. k), NEW n
  PROVE  Rank(row, n) \in Nat /\ Cardinality(row) \in Nat /\ IsFiniteSet(row)
<1>1. IsFiniteSet(1 .. k)
  BY FS_Interval
<1>2. {m \in row: m <= n} \in SUBSET (1 .. k)
  OBVIOUS
<1> QED
  BY <1>1, <1>2, FS_Subset, FS_CardinalityType DEF Rank

LEMMA SpreadType ==
  ASSUME NEW k \in Nat, NEW row \in SUBSET (1 .. k), NEW n,
         NEW x \in Int, NEW step \in Int
  PROVE  Spread(row, n, x, step) \in Int
<1> DEFINE a == 2 * Rank(row, n) - Cardinality(row) - 1
<1>1. a \in Int
  <2>1. Rank(row, n) \in Nat /\ Cardinality(row) \in Nat
    BY RowType
  <2> QED
    BY <2>1
<1> HIDE DEF a
<1>2. a * step \in Int
  BY <1>1
<1> DEFINE b == a * step
<1> HIDE DEF b
<1>3. x + b \div 2 \in Int
  BY <1>2 DEF b
<1> QED
  BY <1>3 DEF Spread, a, b

LEMMA GroupType ==
  ASSUME NEW g \in SUBSET Nodes, NEW t
  PROVE  Group(g, t) \in SUBSET (1 .. Len(TypeOf)) /\ Len(TypeOf) \in Nat
BY NodesAssumption, LenProperties DEF Group, Nodes

LEMMA TopRowType ==
  ASSUME NEW g
  PROVE  TopRow(g) \in SUBSET (1 .. 10) /\ Len(TopRowOrder) = 10
<1>1. Len(TopRowOrder) = 10
  BY DEF TopRowOrder
<1> QED
  BY <1>1 DEF TopRow

LEMMA SlotType ==
  ASSUME NEW g \in SUBSET Nodes, NEW n \in g
  PROVE  Slot(g, n) \in Positions
<1> DEFINE t == TypeOf[n]
           row == Group(g, t)
<1>1. row \in SUBSET (1 .. Len(TypeOf)) /\ Len(TypeOf) \in Nat
  BY GroupType
<1>2. CASE t \in DOMAIN Base
  <2>1. Base[t].x \in Int /\ Base[t].y \in Int /\ Spacing[t] \in Int
    BY <1>2 DEF Base, Spacing, At
  <2>2. Spread(row, n, Base[t].x, Spacing[t]) \in Int
    BY <1>1, <2>1, SpreadType
  <2>3. PsaLevel(Rank(row, n), Cardinality(row)) \in Int
    BY DEF PsaLevel
  <2>4. Base[t].y + (IF t = "PSA" THEN PsaLevel(Rank(row, n), Cardinality(row)) ELSE 0) \in Int
    BY <2>1, <2>3
  <2> QED
    BY <1>2, <2>2, <2>4 DEF Slot, At, Positions
<1>3. CASE t \notin DOMAIN Base
  <2> DEFINE x == Spread(TopRow(g), TopIndex(t), 535, 130)
  <2>1. x \in Int
    <3>1. TopRow(g) \in SUBSET (1 .. 10) /\ 10 \in Nat /\ 535 \in Int /\ 130 \in Int
      BY TopRowType
    <3> HIDE DEF t
    <3> QED
      BY <3>1, SpreadType
  <2> HIDE DEF x
  <2>2. Spread(row, n, x, 130) \in Int
    <3>1. 130 \in Int
      OBVIOUS
    <3> HIDE DEF row
    <3> QED
      BY <1>1, <2>1, <3>1, SpreadType
  <2> QED
    BY <1>3, <2>2 DEF Slot, At, Positions, x
<1> QED
  BY <1>2, <1>3

\* Positions of some nodes.
IsLayout(pos) == DOMAIN pos \subseteq Nodes /\ \A n \in DOMAIN pos: pos[n] \in Positions

LEMMA AnchorType ==
  ASSUME NEW g \in SUBSET Nodes, NEW pos, IsLayout(pos), NEW dn
  PROVE  Anchor(g, pos, dn) \in Positions
<1> DEFINE upfs == ServedBy[dn] \cap DOMAIN pos
<1>1. CASE upfs = {}
  <2>1. Fallback(g, pos) \in Positions
    BY DEF Fallback, IsLayout, Positions, At
  <2> QED
    BY <1>1, <2>1 DEF Anchor
<1>2. CASE upfs # {}
  <2>1. /\ upfs \in SUBSET (1 .. Len(TypeOf)) /\ Len(TypeOf) \in Nat
        /\ \A u \in upfs: pos[u].x \in Int /\ pos[u].y \in Int
    BY NodesAssumption, LenProperties DEF IsLayout, Positions, Nodes
  <2>2. Max({pos[u].x : u \in upfs}) \in Int
    <3> DEFINE f == [u \in upfs |-> pos[u].x]
    <3>1. PICK u \in upfs: \A v \in upfs: f[v] <= f[u]
      <4>1. \A u \in upfs: f[u] \in Int
        BY <2>1
      <4> HIDE DEF f, upfs
      <4> QED
        BY <1>2, <2>1, <4>1, HighestExists
    <3>2. \A v \in upfs: pos[u].x >= pos[v].x
      BY <2>1, <3>1
    <3>3. \E x \in {pos[v].x : v \in upfs}: \A y \in {pos[v].x : v \in upfs}: x >= y
      BY <3>2
    <3>4. Max({pos[v].x : v \in upfs}) \in {pos[v].x : v \in upfs}
      BY <3>3 DEF Max
    <3> QED
      BY <2>1, <3>4
  <2>3. SumOfY(pos, upfs) \in Int
    <3>1. PICK s: IsSumOfY(s, pos, upfs) /\ SumOfY(pos, upfs) = s[Len(TypeOf)]
      <4> HIDE DEF upfs
      <4> QED
        BY <2>1, SumOfYIs
    <3> QED
      BY <2>1, <3>1 DEF IsSumOfY
  <2>4. Cardinality(upfs) \in Nat /\ Cardinality(upfs) # 0
    <3>1. IsFiniteSet(upfs)
      BY <2>1, RowType
    <3> HIDE DEF upfs
    <3> QED
      BY <1>2, <3>1, FS_CardinalityType, FS_EmptySet
  <2> DEFINE c == Cardinality(upfs)
             a == SumOfY(pos, upfs)
             m == Max({pos[u].x : u \in upfs})
  <2>5. a \div c \in Int
    <3>1. a \in Int /\ c \in Nat \ {0}
      BY <2>3, <2>4
    <3> HIDE DEF a, c
    <3> QED
      BY <3>1
  <2>6. m + DnOffset \in Int
    <3>1. m \in Int /\ DnOffset \in Int
      BY <2>2 DEF DnOffset
    <3> HIDE DEF m
    <3> QED
      BY <3>1
  <2>7. At(m + DnOffset, a \div c) \in Positions
    <3> HIDE DEF m, a, c
    <3> QED
      BY <2>5, <2>6 DEF At, Positions
  <2> QED
    BY <1>2, <2>7 DEF Anchor
<1> QED
  BY <1>1, <1>2

LEMMA DnSlotType ==
  ASSUME NEW g \in SUBSET Nodes, NEW pos, IsLayout(pos), NEW dn \in g,
         TypeOf[dn] = "DN", dn \notin DOMAIN pos
  PROVE  DnSlot(g, pos, dn) \in Positions
<1> DEFINE y   == Anchor(g, pos, dn).y
           row == {d \in Group(g, "DN") \ DOMAIN pos: Anchor(g, pos, d).y = y}
           x   == Anchor(g, pos, Min(row)).x
<1>1. /\ row \in SUBSET (1 .. Len(TypeOf)) /\ Len(TypeOf) \in Nat
  BY GroupType
<1>2. \A d: Anchor(g, pos, d).x \in Int /\ Anchor(g, pos, d).y \in Int
  BY AnchorType DEF Positions
<1>3. x \in Int /\ y \in Int
  BY <1>2
<1>4. DnSlot(g, pos, dn) = At(Spread(row, dn, x, 130), y)
  BY DEF DnSlot
<1> HIDE DEF row, x, y
<1>5. Spread(row, dn, x, 130) \in Int
  <2>1. 130 \in Int
    OBVIOUS
  <2> QED
    BY <1>1, <1>3, <2>1, SpreadType
<1> QED
  BY <1>3, <1>4, <1>5 DEF At, Positions

\* Whatever positions are known, the layout gives positions.
LEMMA LayoutType ==
  ASSUME NEW g \in SUBSET Nodes, NEW known, IsLayout(known)
  PROVE  /\ DOMAIN ComputePositions(g, known) \subseteq g
         /\ IsLayout(ComputePositions(g, known))
         /\ IsLayout(BuildElements(g, ComputePositions(g, known)))
<1> DEFINE new == {n \in g \ DOMAIN known: TypeOf[n] \in Placed(g)}
           pos == [n \in (g \cap DOMAIN known) \cup new |->
                     IF n \in new THEN Slot(g, n) ELSE known[n]]
           dns == {n \in g \ DOMAIN known: TypeOf[n] = "DN"}
           all == [n \in DOMAIN pos \cup dns |->
                     IF n \in dns THEN DnSlot(g, pos, n) ELSE pos[n]]
<1>1. DOMAIN pos = (g \cap DOMAIN known) \cup new
  OBVIOUS
<1>2. IsLayout(pos)
  BY SlotType DEF IsLayout
<1>3. \A n \in dns: n \in g /\ n \notin DOMAIN pos /\ TypeOf[n] = "DN"
  BY DEF Placed, TopRowOrder
<1>4. ComputePositions(g, known) = all
  BY DEF ComputePositions
<1>5. DOMAIN pos \subseteq g
  OBVIOUS
<1> HIDE DEF pos, dns, new
<1>6. \A n \in DOMAIN all: n \in g /\ all[n] \in Positions
  BY <1>2, <1>3, <1>5, DnSlotType DEF IsLayout
<1>7. DOMAIN ComputePositions(g, known) \subseteq g /\ IsLayout(ComputePositions(g, known))
  BY <1>4, <1>6 DEF IsLayout
<1>8. At(700, 400) \in Positions
  BY DEF At, Positions
<1> QED
  BY <1>7, <1>8 DEF BuildElements, IsLayout

-----------------------------------------------------------------------------
\* The layout moves no node whose position is known, whatever it computes for
\* the others.
LEMMA KnownStay ==
  ASSUME NEW g, NEW known, NEW n \in g \cap DOMAIN known
  PROVE  BuildElements(g, ComputePositions(g, known))[n] = known[n]
<1>1. n \in DOMAIN ComputePositions(g, known)
      /\ ComputePositions(g, known)[n] = known[n]
  BY DEF ComputePositions
<1> QED
  BY <1>1 DEF BuildElements

LEMMA ElementsDomain ==
  ASSUME NEW g, NEW positions
  PROVE  DOMAIN BuildElements(g, positions) = g
BY DEF BuildElements

\* Cytoscape shows the nodes of the graph, and only they are dragged.
ShownInv ==
  /\ mounted \in BOOLEAN
  /\ graph \subseteq Nodes
  /\ DOMAIN cy = IF mounted THEN graph ELSE {}
  /\ grabbed \in DOMAIN cy \cup {Nothing}

\* What the history holds are drops of nodes that are still there.
HistoryInv ==
  /\ dropped \in [Nodes -> Places \cup {Nothing}]
  /\ \A n \in Nodes: dropped[n] # Nothing /\ mounted => n \in graph

CanvasInv == ShownInv /\ HistoryInv /\ DropsKept

LEMMA CanvasInitInv == CanvasInit => CanvasInv
<1> SUFFICES ASSUME CanvasInit PROVE CanvasInv
  OBVIOUS
<1>1. graph \subseteq Nodes
  BY GraphsAssumption DEF CanvasInit
<1>2. DOMAIN cy = {}
  BY DEF CanvasInit
<1> QED
  BY <1>1, <1>2 DEF CanvasInit, CanvasInv, ShownInv, HistoryInv, DropsKept

\* A graph is rendered, the first or another.
LEMMA GraphStep ==
  ASSUME CanvasInv, NEW g \in Graphs, Mount(g) \/ Refresh(g)
  PROVE  CanvasInv'
<1>1. /\ g \subseteq Nodes /\ graph' = g /\ mounted' = TRUE
      /\ dropped' = [n \in Nodes |-> IF n \in g THEN dropped[n] ELSE Nothing]
      /\ saved' = saved
      /\ dropped \in [Nodes -> Places \cup {Nothing}]
  BY GraphsAssumption
  DEF Mount, Refresh, StillThere, CanvasInv, HistoryInv, ShownInv
<1>2. DOMAIN cy' = g
  BY ElementsDomain DEF Mount, Refresh
<1>3. grabbed' \in g \cup {Nothing}
  BY DEF Mount, Refresh, CanvasInv, ShownInv
<1>4. ShownInv'
  BY <1>1, <1>2, <1>3 DEF ShownInv
<1>5. HistoryInv'
  BY <1>1 DEF HistoryInv
<1>6. ASSUME NEW n \in Nodes, dropped'[n] # Nothing
      PROVE  /\ n \in DOMAIN saved' /\ saved'[n] = dropped'[n]
             /\ n # grabbed' => cy'[n] = dropped'[n]
  <2>1. /\ n \in g /\ dropped'[n] = dropped[n]
        /\ n \in DOMAIN saved /\ saved[n] = dropped[n]
    BY <1>1, <1>6 DEF CanvasInv, DropsKept
  <2>2. CASE Mount(g)
    <3>1. cy'[n] = saved[n]
      BY <2>1, <2>2, KnownStay DEF Mount
    <3> QED
      BY <1>1, <2>1, <3>1
  <2>3. CASE Refresh(g)
    <3>1. n \in DOMAIN cy /\ mounted
      BY <1>6, <2>1, <2>3 DEF Refresh, CanvasInv, ShownInv, HistoryInv
    <3>2. cy'[n] = cy[n]
      BY <2>1, <2>3, <3>1, KnownStay DEF Refresh
    <3>3. n # grabbed' => n # grabbed
      BY <2>1, <2>3 DEF Refresh
    <3> QED
      BY <1>1, <1>6, <2>1, <3>1, <3>2, <3>3 DEF CanvasInv, DropsKept
  <2> QED
    BY <2>2, <2>3
<1>7. DropsKept'
  BY <1>6 DEF DropsKept
<1> QED
  BY <1>4, <1>5, <1>7 DEF CanvasInv

\* The user lets go: all positions are saved, those of earlier drops included.
LEMMA FreeStep ==
  ASSUME CanvasInv, Free
  PROVE  CanvasInv'
<1>1. /\ grabbed \in DOMAIN cy /\ mounted /\ DOMAIN cy = graph
      /\ graph \subseteq Nodes /\ cy[grabbed] \in Places
      /\ dropped \in [Nodes -> Places \cup {Nothing}]
      /\ grabbed' = Nothing /\ saved' = cy /\ UNCHANGED <<mounted, graph, cy>>
      /\ dropped' = [dropped EXCEPT ![grabbed] = cy[grabbed]]
  BY DEF Free, CanvasInv, ShownInv, HistoryInv
<1>2. ShownInv'
  BY <1>1 DEF ShownInv, CanvasInv
<1>3. HistoryInv'
  BY <1>1 DEF HistoryInv, CanvasInv
<1>4. ASSUME NEW n \in Nodes, dropped'[n] # Nothing
      PROVE  n \in DOMAIN cy /\ cy[n] = dropped'[n]
  <2>1. CASE n = grabbed
    BY <1>1, <2>1
  <2>2. CASE n # grabbed
    BY <1>1, <1>4, <2>2 DEF CanvasInv, HistoryInv, DropsKept
  <2> QED
    BY <2>1, <2>2
<1>5. DropsKept'
  BY <1>1, <1>4 DEF DropsKept
<1> QED
  BY <1>2, <1>3, <1>5 DEF CanvasInv

\* CanvasInv is inductive.
LEMMA CanvasStepInv == CanvasInv /\ [CanvasNext]_canvasVars => CanvasInv'
<1> SUFFICES ASSUME CanvasInv, [CanvasNext]_canvasVars PROVE CanvasInv'
  OBVIOUS
<1> USE DEF CanvasInv, ShownInv, HistoryInv, DropsKept
<1>1. CASE UNCHANGED canvasVars
  BY <1>1 DEF canvasVars
<1>2. ASSUME NEW n \in Draggable, Grab(n) PROVE CanvasInv'
  BY <1>2, PlacesAssumption DEF Grab
<1>3. ASSUME NEW p \in Places, Drag(p) PROVE CanvasInv'
  <2>1. DOMAIN cy' = DOMAIN cy /\ \A n \in DOMAIN cy: n # grabbed => cy'[n] = cy[n]
    BY <1>3 DEF Drag
  <2> QED
    BY <1>3, <2>1 DEF Drag
<1>4. CASE Unmount
  <2>1. DOMAIN cy' = {}
    BY <1>4 DEF Unmount
  <2> QED
    BY <1>4, <2>1 DEF Unmount
<1>5. CASE Reset
  <2>1. DOMAIN cy' = graph
    BY <1>5 DEF Reset
  <2> QED
    BY <1>5, <2>1 DEF Reset
<1> QED
  BY <1>1, <1>2, <1>3, <1>4, <1>5, GraphStep, FreeStep DEF CanvasNext

LEMMA CanvasInvariance == CanvasSpec => []CanvasInv
  BY CanvasInitInv, CanvasStepInv, PTL DEF CanvasSpec

\* For any nodes, graphs and places: where the user let go of a node it stays,
\* over polls, leaving the page and other drags.
THEOREM DropsCorrect == CanvasSpec => []DropsKept
<1>1. CanvasInv => DropsKept
  BY DEF CanvasInv
<1> QED
  BY <1>1, CanvasInvariance, PTL

\* For any nodes and graphs: a new graph moves no node it shares with the one
\* before.
THEOREM RefreshCorrect == CanvasSpec => StaysPut
<1>1. CanvasInv /\ [CanvasNext]_canvasVars
      => [mounted /\ mounted' /\ graph' # graph
            => \A n \in graph \cap graph': cy'[n] = cy[n]]_canvasVars
  <2> SUFFICES ASSUME CanvasInv, CanvasNext, mounted, graph' # graph,
                      NEW n \in graph \cap graph'
               PROVE  cy'[n] = cy[n]
    OBVIOUS
  <2>1. PICK g \in Graphs: Refresh(g)
    BY DEF CanvasNext, Mount, Grab, Drag, Unmount, Free, Reset
  <2>2. n \in g \cap DOMAIN cy
    BY <2>1 DEF Refresh, CanvasInv, ShownInv
  <2> QED
    BY <2>1, <2>2, KnownStay DEF Refresh
<1> QED
  BY <1>1, CanvasInvariance, PTL DEF CanvasSpec, StaysPut

\* Positions are kept or computed, so they stay positions.
LEMMA CanvasTypeStep ==
  CanvasInv /\ CanvasTypeOK /\ [CanvasNext]_canvasVars => CanvasTypeOK'
<1> SUFFICES ASSUME CanvasInv, CanvasTypeOK, [CanvasNext]_canvasVars
             PROVE  CanvasTypeOK'
  OBVIOUS
<1>1. /\ ShownInv' /\ HistoryInv'
  BY CanvasStepInv DEF CanvasInv
<1>2. graph \in Graphs /\ graph \subseteq Nodes /\ IsLayout(cy) /\ IsLayout(saved)
  BY GraphsAssumption DEF CanvasTypeOK, IsLayout
<1>3. graph' \in Graphs
  BY <1>2 DEF CanvasNext, canvasVars, Mount, Refresh, Grab, Drag, Unmount, Free, Reset
<1>4. IsLayout(saved')
  BY <1>2 DEF CanvasNext, canvasVars, Mount, Refresh, Grab, Drag, Unmount, Free, Reset,
     IsLayout
<1>5. IsLayout(cy')
  <2>1. ASSUME NEW g \in Graphs, Mount(g) \/ Refresh(g) PROVE IsLayout(cy')
    <3>1. g \in SUBSET Nodes
      BY GraphsAssumption
    <3> QED
      BY <1>2, <2>1, <3>1, LayoutType DEF Mount, Refresh
  <2>2. ASSUME NEW p \in Places, Drag(p) PROVE IsLayout(cy')
    <3>1. p \in Positions /\ cy' = [cy EXCEPT ![grabbed] = p]
      BY <2>2, PlacesAssumption DEF Drag
    <3> QED
      BY <1>2, <3>1 DEF IsLayout
  <2>3. CASE Reset
    <3> DEFINE new == ComputePositions(graph, <<>>)
    <3>1. IsLayout(<<>>) /\ graph \in SUBSET Nodes
      BY <1>2 DEF IsLayout
    <3>2. DOMAIN new \subseteq graph /\ IsLayout(new)
      BY <3>1, LayoutType
    <3>3. cy' = [n \in graph |-> IF n \in DOMAIN new THEN new[n] ELSE cy[n]]
          /\ DOMAIN cy = graph
      BY <2>3 DEF Reset, CanvasInv, ShownInv
    <3> HIDE DEF new
    <3> QED
      BY <1>2, <3>2, <3>3 DEF IsLayout
  <2>4. CASE Unmount
    <3>1. DOMAIN cy' = {}
      BY <2>4 DEF Unmount
    <3> QED
      BY <3>1 DEF IsLayout
  <2>5. CASE UNCHANGED cy
    BY <1>2, <2>5 DEF IsLayout
  <2>6. CASE UNCHANGED canvasVars \/ Free \/ \E n \in Draggable: Grab(n)
    BY <2>5, <2>6 DEF canvasVars, Free, Grab
  <2> QED
    BY <2>1, <2>2, <2>3, <2>4, <2>6 DEF CanvasNext
<1> QED
  BY <1>1, <1>3, <1>4, <1>5 DEF CanvasTypeOK, ShownInv, HistoryInv, IsLayout

\* For any nodes, graphs, links and places: whatever was dragged, removed or
\* added, each node of the canvas and each one saved has coordinates.
THEOREM CanvasTypeCorrect == CanvasSpec => []CanvasTypeOK
<1>1. CanvasInit => CanvasTypeOK
  <2> SUFFICES ASSUME CanvasInit PROVE CanvasTypeOK
    OBVIOUS
  <2>1. ShownInv /\ HistoryInv
    BY CanvasInitInv DEF CanvasInv
  <2>2. DOMAIN cy = {} /\ DOMAIN saved = {} /\ graph \in Graphs
    BY DEF CanvasInit
  <2> QED
    BY <2>1, <2>2 DEF CanvasTypeOK, ShownInv, HistoryInv
<1> QED
  BY <1>1, CanvasInvariance, CanvasTypeStep, PTL DEF CanvasSpec
-----------------------------------------------------------------------------
(* What the default layout has room for does not overlap. *)

\* The sum over a set with one more node.
LEMMA SumOfOneMore ==
  ASSUME NEW pos, NEW S, NEW a \in Nodes, a \notin S,
         \A n \in S \cup {a}: pos[n].y \in Int
  PROVE  /\ SumOfY(pos, S) \in Int
         /\ SumOfY(pos, S \cup {a}) = SumOfY(pos, S) + pos[a].y
<1> DEFINE L == Len(TypeOf)
           T == S \cup {a}
<1>1. L \in Nat /\ a \in 1 .. L /\ Nodes = 1 .. L
  BY NodesAssumption, LenProperties DEF Nodes
<1>2. PICK s: IsSumOfY(s, pos, S) /\ SumOfY(pos, S) = s[L]
  BY SumOfYIs
<1>3. PICK t: IsSumOfY(t, pos, T) /\ SumOfY(pos, T) = t[L]
  <2> HIDE DEF T
  <2>1. \A n \in T: pos[n].y \in Int
    BY DEF T
  <2> QED
    BY <2>1, SumOfYIs
<1> DEFINE y == pos[a].y
           z(n) == IF n \in S THEN pos[n].y ELSE 0
           G == {n \in 0 .. L: t[n] = s[n] + IF a <= n THEN y ELSE 0}
<1> HIDE DEF L
<1>4. /\ s \in [0 .. L -> Int] /\ s[0] = 0 /\ t[0] = 0 /\ y \in Int
      /\ \A n \in 1 .. L: s[n] = s[n - 1] + z(n)
      /\ \A n \in 1 .. L: t[n] = t[n - 1] + IF n = a THEN y ELSE z(n)
      /\ \A n: z(n) \in Int
      /\ z(a) = 0
  BY <1>1, <1>2, <1>3 DEF IsSumOfY, L
<1> HIDE DEF y, z
<1>5. 0 \in G
  <2>1. 0 \in 0 .. L /\ ~(a <= 0) /\ 0 + 0 = 0
    BY <1>1
  <2> QED
    BY <1>4, <2>1
<1>6. ASSUME NEW n \in 1 .. L, n - 1 \in G PROVE n \in G
  <2>1. /\ s[n - 1] \in Int /\ s[n] = s[n - 1] + z(n)
        /\ t[n] = t[n - 1] + (IF n = a THEN y ELSE z(n))
        /\ t[n - 1] = s[n - 1] + (IF a <= n - 1 THEN y ELSE 0)
    BY <1>1, <1>4, <1>6
  <2>2. z(n) \in Int /\ y \in Int /\ z(a) = 0
    BY <1>4
  <2>3. CASE n = a
    <3>1. ~(a <= n - 1) /\ a <= n
      BY <1>1, <2>3
    <3>2. t[n] = s[n - 1] + y /\ s[n] = s[n - 1]
      BY <2>1, <2>2, <2>3, <3>1
    <3> QED
      BY <1>1, <2>3, <3>1, <3>2
  <2>4. CASE n # a
    <3>1. a <= n - 1 <=> a <= n
      BY <1>1, <2>4
    <3>2. t[n] = t[n - 1] + z(n)
      BY <2>1, <2>4
    <3>3. CASE a <= n
      BY <2>1, <2>2, <3>1, <3>2, <3>3
    <3>4. CASE ~(a <= n)
      BY <2>1, <2>2, <3>1, <3>2, <3>4
    <3> QED
      BY <3>3, <3>4
  <2> QED
    BY <2>3, <2>4
<1> HIDE DEF G
<1>7. \A n \in 0 .. L: n \in G
  BY <1>1, <1>5, <1>6, Induction
<1>8. L \in 0 .. L /\ a <= L
  BY <1>1
<1>9. t[L] = s[L] + y /\ s[L] \in Int
  BY <1>4, <1>7, <1>8 DEF G
<1> QED
  BY <1>2, <1>3, <1>9 DEF y

LEMMA SumOfOne ==
  ASSUME NEW pos, NEW a \in Nodes, pos[a].y \in Int
  PROVE  SumOfY(pos, {a}) = pos[a].y
<1>1. SumOfY(pos, {}) = 0
  <2>1. PICK s: IsSumOfY(s, pos, {}) /\ SumOfY(pos, {}) = s[Len(TypeOf)]
    <3>1. \A n \in {}: pos[n].y \in Int
      OBVIOUS
    <3> QED
      BY <3>1, SumOfYIs
  <2> DEFINE L == Len(TypeOf)
             G == {n \in 0 .. L: s[n] = 0}
  <2>2. L \in Nat
    BY NodesAssumption, LenProperties
  <2>3. s[0] = 0 /\ \A n \in 1 .. L: s[n] = s[n - 1] + 0
    BY <2>1 DEF IsSumOfY, Nodes
  <2> HIDE DEF L
  <2>4. 0 \in G /\ \A n \in 1 .. L: n - 1 \in G => n \in G
    BY <2>2, <2>3
  <2> HIDE DEF G
  <2>5. \A n \in 0 .. L: n \in G
    BY <2>2, <2>4, Induction
  <2>6. s[L] = 0
    BY <2>2, <2>5 DEF G
  <2> QED
    BY <2>1, <2>6 DEF L
<1>2. SumOfY(pos, {} \cup {a}) = SumOfY(pos, {}) + pos[a].y
  BY SumOfOneMore
<1>3. {} \cup {a} = {a}
  OBVIOUS
<1> QED
  BY <1>1, <1>2, <1>3

LEMMA SmallSet ==
  ASSUME NEW S \in SUBSET Nat, IsFiniteSet(S), Cardinality(S) <= 2
  PROVE  \/ S = {}
         \/ \E a \in S: S = {a}
         \/ \E a, b \in S: a < b /\ S = {a, b}
<1> SUFFICES ASSUME S # {}
             PROVE  \/ \E a \in S: S = {a}
                    \/ \E a, b \in S: a < b /\ S = {a, b}
  OBVIOUS
<1>1. PICK a \in S: TRUE
  OBVIOUS
<1> DEFINE T == S \ {a}
<1>2. Cardinality(S) \in Nat /\ IsFiniteSet(T) /\ Cardinality(T) = Cardinality(S) - 1
  BY FS_CardinalityType, FS_RemoveElement
<1>3. CASE T = {}
  BY <1>3
<1>4. CASE T # {}
  <2>1. PICK b \in T: TRUE
    BY <1>4
  <2>2. IsFiniteSet(T \ {b}) /\ Cardinality(T \ {b}) = Cardinality(T) - 1
        /\ Cardinality(T \ {b}) \in Nat
    <3> HIDE DEF T
    <3> QED
      BY <1>2, <2>1, FS_CardinalityType, FS_RemoveElement
  <2>3. T \ {b} = {}
    <3>1. Cardinality(T \ {b}) = 0
      BY <1>2, <2>2
    <3> HIDE DEF T
    <3> QED
      BY <2>2, <3>1, FS_EmptySet
  <2>4. S = {a, b} /\ a # b
    <3>1. \A e \in S: e = a \/ e = b
      BY <2>3
    <3> QED
      BY <1>1, <2>1, <3>1
  <2>5. a < b \/ b < a
    BY <2>1, <2>4
  <2>6. S = {b, a}
    BY <2>4
  <2> QED
    BY <2>1, <2>4, <2>5, <2>6
<1> QED
  BY <1>3, <1>4

\* Where the members of a row of one or two stand.
LEMMA SpreadOne ==
  ASSUME NEW n \in Nat, NEW x \in Int, NEW step \in Int
  PROVE  Spread({n}, n, x, step) = x
<1>1. {m \in {n}: m <= n} = {n}
  OBVIOUS
<1>2. Rank({n}, n) = 1 /\ Cardinality({n}) = 1
  BY <1>1, FS_Singleton DEF Rank
<1>3. 2 * 1 - 1 - 1 = 0 /\ 0 * step = 0 /\ 0 \div 2 = 0 /\ x + 0 = x
  OBVIOUS
<1> QED
  BY <1>2, <1>3 DEF Spread

LEMMA RankTwo ==
  ASSUME NEW a \in Nat, NEW b \in Nat, a < b
  PROVE  Rank({a, b}, a) = 1 /\ Rank({a, b}, b) = 2 /\ Cardinality({a, b}) = 2
<1>1. {m \in {a, b}: m <= a} = {a} /\ {m \in {a, b}: m <= b} = {a, b}
  OBVIOUS
<1>2. Cardinality({a}) = 1 /\ IsFiniteSet({a})
  BY FS_Singleton
<1>3. {a, b} = {a} \cup {b} /\ b \notin {a}
  OBVIOUS
<1>4. Cardinality({a, b}) = 2
  <2>1. Cardinality({a} \cup {b}) = Cardinality({a}) + 1
    BY <1>2, <1>3, FS_AddElement
  <2> QED
    BY <1>2, <1>3, <2>1
<1> QED
  BY <1>1, <1>2, <1>4 DEF Rank

LEMMA SpreadTwo ==
  ASSUME NEW a \in Nat, NEW b \in Nat, a < b, NEW x \in Int
  PROVE  /\ Spread({a, b}, a, x, 130) = x - 65 /\ Spread({a, b}, b, x, 130) = x + 65
         /\ Spread({a, b}, a, x, 72) = x - 36 /\ Spread({a, b}, b, x, 72) = x + 36
<1> DEFINE row == {a, b}
<1>1. Rank(row, a) = 1 /\ Rank(row, b) = 2 /\ Cardinality(row) = 2
  BY RankTwo
<1> HIDE DEF row
<1> QED
  BY <1>1 DEF Spread, row

\* The members of a row are a step apart; here, in the top row.
LEMMA SpreadApart ==
  ASSUME NEW row \in SUBSET (1 .. 10), NEW i \in row, NEW j \in row, i < j,
         NEW x \in Int
  PROVE  Spread(row, j, x, 130) >= Spread(row, i, x, 130) + 130
<1> DEFINE below(n) == {m \in row: m <= n}
<1>1. /\ Rank(row, i) \in Nat /\ Rank(row, j) \in Nat
      /\ Cardinality(row) \in Nat /\ IsFiniteSet(row)
  BY RowType
<1>2. Rank(row, i) + 1 <= Rank(row, j)
  <2>1. /\ below(i) \in SUBSET row /\ below(j) \in SUBSET row
        /\ below(i) \cup {j} \in SUBSET below(j) /\ j \notin below(i)
    <3>1. i \in Int /\ j \in Int /\ ~(j <= i) /\ j <= j
      OBVIOUS
    <3>2. \A m \in row: m <= i => m <= j
      OBVIOUS
    <3> QED
      BY <3>1, <3>2
  <2>2. IsFiniteSet(below(i)) /\ IsFiniteSet(below(j))
    BY <1>1, <2>1, FS_Subset
  <2>3. Rank(row, i) = Cardinality(below(i)) /\ Rank(row, j) = Cardinality(below(j))
    BY DEF Rank
  <2> HIDE DEF below
  <2>4. Cardinality(below(i) \cup {j}) = Cardinality(below(i)) + 1
    BY <2>1, <2>2, FS_AddElement
  <2>5. Cardinality(below(i) \cup {j}) <= Cardinality(below(j))
    BY <2>1, <2>2, FS_Subset
  <2> QED
    BY <2>3, <2>4, <2>5
<1>3. ASSUME NEW r \in Int PROVE (r * 130) \div 2 = r * 65
  OBVIOUS
<1> DEFINE c == Cardinality(row)
           p == Rank(row, i)
           q == Rank(row, j)
<1> HIDE DEF c, p, q
<1>4. /\ c \in Nat /\ p \in Nat /\ q \in Nat /\ p + 1 <= q
      /\ Spread(row, i, x, 130) = x + ((2 * p - c - 1) * 130) \div 2
      /\ Spread(row, j, x, 130) = x + ((2 * q - c - 1) * 130) \div 2
  BY <1>1, <1>2 DEF Spread, c, p, q
<1>5. /\ ((2 * p - c - 1) * 130) \div 2 = (2 * p - c - 1) * 65
      /\ ((2 * q - c - 1) * 130) \div 2 = (2 * q - c - 1) * 65
  <2>1. 2 * p - c - 1 \in Int /\ 2 * q - c - 1 \in Int
    BY <1>4
  <2> QED
    BY <1>3, <2>1
<1> QED
  BY <1>4, <1>5

TopTypes == {"SCP", "NSSF", "NEF", "NRF", "PCF", "UDM", "AUSF", "CHF", "UDR", "BSF"}

LEMMA TopRowNames ==
  /\ {TopRowOrder[i] : i \in 1 .. Len(TopRowOrder)} = TopTypes
  /\ \A t \in TopTypes: TopIndex(t) \in 1 .. 10 /\ TopRowOrder[TopIndex(t)] = t
<1>1. /\ Len(TopRowOrder) = 10
      /\ TopRowOrder[1] = "SCP" /\ TopRowOrder[2] = "NSSF" /\ TopRowOrder[3] = "NEF"
      /\ TopRowOrder[4] = "NRF" /\ TopRowOrder[5] = "PCF" /\ TopRowOrder[6] = "UDM"
      /\ TopRowOrder[7] = "AUSF" /\ TopRowOrder[8] = "CHF" /\ TopRowOrder[9] = "UDR"
      /\ TopRowOrder[10] = "BSF"
  BY DEF TopRowOrder
<1>2. 1 .. 10 = {1, 2, 3, 4, 5, 6, 7, 8, 9, 10}
  OBVIOUS
<1>3. {TopRowOrder[i] : i \in 1 .. Len(TopRowOrder)} = TopTypes
  BY <1>1, <1>2 DEF TopTypes
<1>4. ASSUME NEW t \in TopTypes
      PROVE  TopIndex(t) \in 1 .. 10 /\ TopRowOrder[TopIndex(t)] = t
  <2>1. \E i \in 1 .. Len(TopRowOrder): TopRowOrder[i] = t
    BY <1>3
  <2>2. TopIndex(t) \in 1 .. Len(TopRowOrder) /\ TopRowOrder[TopIndex(t)] = t
    BY <2>1 DEF TopIndex
  <2> QED
    BY <1>1, <2>2
<1> QED
  BY <1>3, <1>4

\* Where the only node of its type stands.
LEMMA SlotOfOne ==
  ASSUME NEW g \in SUBSET Nodes, HasRoom(g), NEW n \in g,
         TypeOf[n] \notin {"PSA", "DN"}
  PROVE  /\ Group(g, TypeOf[n]) = {n}
         /\ TypeOf[n] = "AMF" => Slot(g, n) = At(310, 270)
         /\ TypeOf[n] = "SMF" => Slot(g, n) = At(680, 270)
         /\ TypeOf[n] = "UE" => Slot(g, n) = At(80, 480)
         /\ TypeOf[n] = "gNB" => Slot(g, n) = At(240, 480)
         /\ TypeOf[n] = "iUPF" => Slot(g, n) = At(440, 480)
         /\ TypeOf[n] = "UPF" => Slot(g, n) = At(480, 480)
         /\ TypeOf[n] \in TopTypes =>
              Slot(g, n) = At(Spread(TopRow(g), TopIndex(TypeOf[n]), 535, 130), 80)
<1> DEFINE t == TypeOf[n]
<1>1. Group(g, t) = {n}
  BY DEF Group, HasRoom
<1>2. n \in Nat
  BY DEF Nodes
<1>3. ASSUME t \in {"AMF", "SMF", "UE", "gNB", "iUPF", "UPF"}
      PROVE  Slot(g, n) = At(Base[t].x, Base[t].y)
  <2>1. t \in DOMAIN Base /\ Base[t].x \in Int /\ Base[t].y \in Int
        /\ Spacing[t] \in Int /\ t # "PSA"
    BY <1>3 DEF Base, Spacing, At
  <2>2. Spread({n}, n, Base[t].x, Spacing[t]) = Base[t].x
    <3> HIDE DEF t
    <3> QED
      BY <1>2, <2>1, SpreadOne
  <2>3. Base[t].y + 0 = Base[t].y
    BY <2>1
  <2> QED
    BY <1>1, <2>1, <2>2, <2>3 DEF Slot
<1>4. ASSUME t \in TopTypes
      PROVE  Slot(g, n) = At(Spread(TopRow(g), TopIndex(t), 535, 130), 80)
  <2> DEFINE x == Spread(TopRow(g), TopIndex(t), 535, 130)
  <2>1. x \in Int
    <3>1. TopRow(g) \in SUBSET (1 .. 10) /\ 10 \in Nat /\ 535 \in Int /\ 130 \in Int
      BY TopRowType
    <3> HIDE DEF t
    <3> QED
      BY <3>1, SpreadType
  <2>2. Spread({n}, n, x, 130) = x
    <3>1. 130 \in Int
      OBVIOUS
    <3> HIDE DEF x
    <3> QED
      BY <1>2, <2>1, <3>1, SpreadOne
  <2>3. t \notin DOMAIN Base
    BY <1>4 DEF Base, TopTypes
  <2> QED
    BY <1>1, <2>2, <2>3 DEF Slot
<1>5. t = "AMF" => Slot(g, n) = At(310, 270)
  BY <1>3 DEF Base, At
<1>6. t = "SMF" => Slot(g, n) = At(680, 270)
  BY <1>3 DEF Base, At
<1>7. t = "UE" => Slot(g, n) = At(80, 480)
  BY <1>3 DEF Base, At
<1>8. t = "gNB" => Slot(g, n) = At(240, 480)
  BY <1>3 DEF Base, At
<1>9. t = "iUPF" => Slot(g, n) = At(440, 480)
  BY <1>3 DEF Base, At
<1>10. t = "UPF" => Slot(g, n) = At(480, 480)
  BY <1>3 DEF Base, At
<1> QED
  BY <1>1, <1>4, <1>5, <1>6, <1>7, <1>8, <1>9, <1>10

\* Where PSA-UPFs stand: on the line, or above and below it.
LEMMA PsaSlots ==
  ASSUME NEW g \in SUBSET Nodes, HasRoom(g)
  PROVE  \/ Group(g, "PSA") = {}
         \/ \E a \in g: Group(g, "PSA") = {a} /\ Slot(g, a) = At(660, 480)
         \/ \E a, b \in g: /\ a < b /\ Group(g, "PSA") = {a, b}
                           /\ Cardinality(Group(g, "PSA")) = 2
                           /\ Slot(g, a) = At(624, 430) /\ Slot(g, b) = At(696, 530)
<1> DEFINE row == Group(g, "PSA")
<1>1. /\ row \in SUBSET Nat /\ row \in SUBSET g /\ IsFiniteSet(row)
      /\ \A n \in row: TypeOf[n] = "PSA"
  <2>1. row \in SUBSET (1 .. Len(TypeOf)) /\ Len(TypeOf) \in Nat
    BY GroupType
  <2>2. IsFiniteSet(row)
    BY <2>1, RowType
  <2> QED
    BY <2>1, <2>2 DEF Group
<1>2. Cardinality(row) <= 2
  BY DEF HasRoom
<1>3. ASSUME NEW n \in row
      PROVE  Slot(g, n) = At(Spread(row, n, 660, 72),
                             480 + PsaLevel(Rank(row, n), Cardinality(row)))
  <2>1. TypeOf[n] = "PSA"
    BY <1>1
  <2> QED
    BY <2>1 DEF Slot, Base, Spacing, At
<1> HIDE DEF row
<1>4. CASE row = {}
  BY <1>4 DEF row
<1>5. ASSUME NEW a \in row, row = {a}
      PROVE  Slot(g, a) = At(660, 480)
  <2>1. Spread({a}, a, 660, 72) = 660
    <3>1. 660 \in Int /\ 72 \in Int /\ a \in Nat
      BY <1>1
    <3> QED
      BY <3>1, SpreadOne
  <2>2. Cardinality({a}) = 1
    BY FS_Singleton
  <2>3. PsaLevel(Rank(row, a), 1) = 0 /\ 480 + 0 = 480
    BY DEF PsaLevel
  <2> QED
    BY <1>3, <1>5, <2>1, <2>2, <2>3
<1>6. ASSUME NEW a \in row, NEW b \in row, a < b, row = {a, b}
      PROVE  /\ Cardinality(row) = 2
             /\ Slot(g, a) = At(624, 430) /\ Slot(g, b) = At(696, 530)
  <2>1. a \in Nat /\ b \in Nat /\ 660 \in Int
    BY <1>1
  <2>2. /\ Rank(row, a) = 1 /\ Rank(row, b) = 2 /\ Cardinality(row) = 2
        /\ Spread(row, a, 660, 72) = 660 - 36 /\ Spread(row, b, 660, 72) = 660 + 36
    <3>1. Rank({a, b}, a) = 1 /\ Rank({a, b}, b) = 2 /\ Cardinality({a, b}) = 2
      BY <1>6, <2>1, RankTwo
    <3>2. /\ Spread({a, b}, a, 660, 72) = 660 - 36
          /\ Spread({a, b}, b, 660, 72) = 660 + 36
      BY <1>6, <2>1, SpreadTwo
    <3> QED
      BY <1>6, <3>1, <3>2
  <2>3. /\ PsaLevel(1, 2) = -50 /\ PsaLevel(2, 2) = 50
        /\ 480 + (-50) = 430 /\ 480 + 50 = 530 /\ 660 - 36 = 624 /\ 660 + 36 = 696
    BY DEF PsaLevel
  <2>4. Slot(g, a) = At(660 - 36, 480 + PsaLevel(1, 2))
        /\ Slot(g, b) = At(660 + 36, 480 + PsaLevel(2, 2))
    BY <1>3, <2>2
  <2> QED
    BY <2>2, <2>3, <2>4
<1>7. \/ row = {} \/ \E a \in row: row = {a} \/ \E b \in row: a < b /\ row = {a, b}
  BY <1>1, <1>2, SmallSet
<1> QED
  BY <1>1, <1>4, <1>5, <1>6, <1>7 DEF row

LEMMA PlacedIs ==
  ASSUME NEW g, NEW t
  PROVE  t \in Placed(g) <=>
           t \in TopTypes \cup {"AMF", "SMF", "UE", "gNB"}
                 \cup (IF IsULCL(g) THEN {"iUPF", "PSA"} ELSE {"UPF"})
BY TopRowNames DEF Placed

\* The anchor of a DN that one UPF, or two, serve.
LEMMA AnchorOfOne ==
  ASSUME NEW g, NEW pos, NEW dn, NEW u \in Nodes, pos[u] \in Positions,
         ServedBy[dn] \cap DOMAIN pos = {u}
  PROVE  Anchor(g, pos, dn) = At(pos[u].x + 225, pos[u].y)
<1> DEFINE x == pos[u].x
           y == pos[u].y
<1>1. x \in Int /\ y \in Int
  BY DEF Positions
<1>2. SumOfY(pos, {u}) = y /\ Cardinality({u}) = 1
  BY <1>1, SumOfOne, FS_Singleton
<1>3. {pos[v].x : v \in {u}} = {x}
  OBVIOUS
<1> HIDE DEF x, y
<1>4. Max({x}) = x
  BY <1>1 DEF Max
<1>5. y \div 1 = y /\ DnOffset = 225
  BY <1>1 DEF DnOffset
<1> QED
  BY <1>2, <1>3, <1>4, <1>5 DEF Anchor, x, y

LEMMA AnchorOfTwo ==
  ASSUME NEW g, NEW pos, NEW dn, NEW a \in Nodes, NEW b \in Nodes, a # b,
         pos[a] \in Positions, pos[b] \in Positions, pos[a].x <= pos[b].x,
         ServedBy[dn] \cap DOMAIN pos = {a, b}
  PROVE  Anchor(g, pos, dn) = At(pos[b].x + 225, (pos[a].y + pos[b].y) \div 2)
<1> DEFINE xa == pos[a].x
           xb == pos[b].x
<1>1. /\ xa \in Int /\ xb \in Int /\ xa <= xb
      /\ pos[a].y \in Int /\ pos[b].y \in Int
  BY DEF Positions
<1>2. SumOfY(pos, {a, b}) = pos[a].y + pos[b].y
  <2>1. SumOfY(pos, {a}) = pos[a].y
    BY <1>1, SumOfOne
  <2>2. SumOfY(pos, {a} \cup {b}) = SumOfY(pos, {a}) + pos[b].y
    <3>1. b \notin {a} /\ \A n \in {a} \cup {b}: pos[n].y \in Int
      BY <1>1
    <3> QED
      BY <3>1, SumOfOneMore
  <2>3. {a} \cup {b} = {a, b}
    OBVIOUS
  <2> QED
    BY <2>1, <2>2, <2>3
<1>3. Cardinality({a, b}) = 2
  <2>1. Cardinality({a}) = 1 /\ IsFiniteSet({a}) /\ b \notin {a}
    BY FS_Singleton
  <2>2. Cardinality({a} \cup {b}) = Cardinality({a}) + 1
    BY <2>1, FS_AddElement
  <2>3. {a} \cup {b} = {a, b}
    OBVIOUS
  <2> QED
    BY <2>1, <2>2, <2>3
<1>4. {pos[v].x : v \in {a, b}} = {xa, xb} /\ {a, b} # {}
  OBVIOUS
<1> HIDE DEF xa, xb
<1>5. Max({xa, xb}) = xb
  <2>1. \A z \in {xa, xb}: (\A y \in {xa, xb}: z >= y) <=> z = xb
    BY <1>1
  <2>2. xb \in {xa, xb}
    OBVIOUS
  <2> QED
    BY <2>1, <2>2 DEF Max
<1>6. DnOffset = 225
  BY DEF DnOffset
<1> QED
  BY <1>2, <1>3, <1>4, <1>5, <1>6 DEF Anchor, xb

\* What Reset places before the data networks.
Slots0(g) == [n \in {m \in g: TypeOf[m] \in Placed(g)} |-> Slot(g, n)]

\* Where data networks may be anchored: right of all other nodes, on the line
\* or, beside one of two PSA-UPFs, as high as that.
IsAnchor(g, p) ==
  /\ p.x \in Int /\ p.x >= 680 /\ p.y \in {430, 480, 530}
  /\ IsULCL(g) => p.x >= 849
  /\ Cardinality(Group(g, "PSA")) # 2 => p.y = 480

LEMMA AnchorIs ==
  ASSUME NEW g \in SUBSET Nodes, HasRoom(g), NEW dn \in Nodes
  PROVE  IsAnchor(g, Anchor(g, Slots0(g), dn))
<1> DEFINE pos  == Slots0(g)
           psa  == Group(g, "PSA")
           iupf == Group(g, "iUPF")
           upfs == ServedBy[dn] \cap DOMAIN pos
<1>1. /\ DOMAIN pos = {m \in g: TypeOf[m] \in Placed(g)}
      /\ \A n \in DOMAIN pos: pos[n] = Slot(g, n) /\ pos[n] \in Positions /\ n \in Nodes
  BY SlotType DEF Slots0
<1>2. /\ upfs \subseteq g
      /\ \A u \in upfs: TypeOf[u] \in {"PSA", "UPF"} /\ u \in DOMAIN pos
  BY <1>1, NodesAssumption
<1>3. upfs = {} => Anchor(g, pos, dn) = Fallback(g, pos)
  BY DEF Anchor
<1>4. psa \subseteq g /\ \A n \in g: n \in psa <=> TypeOf[n] = "PSA"
  BY DEF Group
<1> HIDE DEF pos, upfs, psa
<1>5. CASE ~IsULCL(g)
  <2>1. \A n \in DOMAIN pos: TypeOf[n] # "PSA"
    BY <1>1, <1>5, PlacedIs DEF TopTypes
  <2>2. \A u \in upfs: TypeOf[u] = "UPF" /\ pos[u] = At(480, 480)
    <3>1. \A u \in upfs: TypeOf[u] = "UPF" /\ u \in g
      BY <1>2, <2>1
    <3> QED
      BY <1>1, <1>2, <3>1, SlotOfOne
  <2>3. CASE upfs = {}
    <3>1. psa = {} \/ Max(psa) \notin DOMAIN pos
      <4>1. CASE psa # {}
        <5>1. psa \in SUBSET (1 .. Len(TypeOf)) /\ Len(TypeOf) \in Nat
          BY GroupType DEF psa
        <5>2. Max(psa) \in psa
          BY <4>1, <5>1, Ends
        <5> QED
          BY <1>4, <2>1, <5>2
      <4> QED
        BY <4>1
    <3>2. Fallback(g, pos) = At(680, 480)
      BY <1>5, <3>1 DEF Fallback, psa
    <3>3. 680 \in Int /\ 680 >= 680
      OBVIOUS
    <3> QED
      BY <1>3, <1>5, <2>3, <3>2, <3>3 DEF IsAnchor, At, pos
  <2>4. CASE upfs # {}
    <3>1. PICK u \in upfs: TRUE
      BY <2>4
    <3>2. \A v \in upfs: v = u
      BY <1>2, <2>2, <3>1 DEF HasRoom
    <3>3. upfs = {u} /\ u \in Nodes /\ pos[u] = At(480, 480)
      BY <1>1, <1>2, <2>2, <3>1, <3>2
    <3>4. Anchor(g, pos, dn) = At(pos[u].x + 225, pos[u].y)
      BY <1>1, <1>2, <3>3, AnchorOfOne DEF upfs
    <3> QED
      BY <1>5, <3>3, <3>4 DEF IsAnchor, At, pos
  <2> QED
    BY <2>3, <2>4
<1>6. CASE IsULCL(g)
  <2>1. /\ \A n \in g: TypeOf[n] \in {"PSA", "iUPF"} => n \in DOMAIN pos
        /\ \A n \in DOMAIN pos: TypeOf[n] # "UPF"
    BY <1>1, <1>6, PlacedIs DEF TopTypes
  <2>2. upfs \subseteq psa
    BY <1>2, <1>4, <2>1
  <2>3. PICK i \in g: iupf = {i} /\ pos[i] = At(440, 480) /\ i \in DOMAIN pos /\ i \in Nat
    <3>1. PICK i \in iupf: TypeOf[i] = "iUPF" /\ i \in g
      BY <1>6 DEF IsULCL, Group
    <3> QED
      BY <1>1, <2>1, <3>1, SlotOfOne DEF Nodes
  <2>4. Min(iupf) = i /\ iupf # {}
    BY <2>3 DEF Min
  <2>5. CASE psa = {}
    <3>1. Fallback(g, pos) = At(860, 480) /\ upfs = {}
      BY <1>6, <2>2, <2>5 DEF Fallback, psa
    <3> QED
      BY <1>3, <3>1 DEF IsAnchor, At, pos
  <2>6. ASSUME NEW a \in g, psa = {a}, Slot(g, a) = At(660, 480)
        PROVE  IsAnchor(g, Anchor(g, pos, dn))
    <3>1. a \in DOMAIN pos /\ a \in Nodes /\ a \in Nat /\ pos[a] = At(660, 480)
      BY <1>1, <1>4, <2>1, <2>6 DEF Nodes
    <3>2. CASE upfs = {}
      <4>1. Min(psa) = a /\ Max(psa) = a /\ psa # {}
        BY <2>6, <3>1 DEF Min, Max
      <4>2. Fallback(g, pos) = At(660 + 660 - 440, 480 + 480 - 480)
        BY <2>3, <2>4, <3>1, <4>1 DEF Fallback, At, psa
      <4> QED
        BY <1>3, <3>2, <4>2 DEF IsAnchor, At
    <3>3. CASE upfs # {}
      <4>1. upfs = {a}
        BY <2>2, <2>6, <3>3
      <4>2. Anchor(g, pos, dn) = At(pos[a].x + 225, pos[a].y)
        BY <1>1, <3>1, <4>1, AnchorOfOne DEF upfs
      <4> QED
        BY <3>1, <4>2 DEF IsAnchor, At
    <3> QED
      BY <3>2, <3>3
  <2>7. ASSUME NEW a \in g, NEW b \in g, a < b, psa = {a, b}, Cardinality(psa) = 2,
               Slot(g, a) = At(624, 430), Slot(g, b) = At(696, 530)
        PROVE  IsAnchor(g, Anchor(g, pos, dn))
    <3>1. /\ a \in DOMAIN pos /\ a \in Nodes /\ a \in Nat /\ pos[a] = At(624, 430)
          /\ b \in DOMAIN pos /\ b \in Nodes /\ b \in Nat /\ pos[b] = At(696, 530)
      BY <1>1, <1>4, <2>1, <2>7 DEF Nodes
    <3>2. CASE upfs = {}
      <4>1. Min(psa) = a /\ Max(psa) = b /\ psa # {}
        <5>1. \A z \in {a, b}: (\A y \in {a, b}: z >= y) <=> z = b
          BY <2>7, <3>1
        <5>2. \A z \in {a, b}: (\A y \in {a, b}: z <= y) <=> z = a
          BY <2>7, <3>1
        <5> QED
          BY <2>7, <5>1, <5>2 DEF Min, Max
      <4>2. Fallback(g, pos) = At(696 + 624 - 440, 530 + 430 - 480)
        BY <2>3, <2>4, <3>1, <4>1 DEF Fallback, At, psa
      <4> QED
        BY <1>3, <3>2, <4>2, <2>7 DEF IsAnchor, At, psa
    <3>3. CASE upfs = {a}
      <4>1. Anchor(g, pos, dn) = At(pos[a].x + 225, pos[a].y)
        BY <1>1, <3>1, <3>3, AnchorOfOne DEF upfs
      <4> QED
        BY <2>7, <3>1, <4>1 DEF IsAnchor, At, psa
    <3>4. CASE upfs = {b}
      <4>1. Anchor(g, pos, dn) = At(pos[b].x + 225, pos[b].y)
        BY <1>1, <3>1, <3>4, AnchorOfOne DEF upfs
      <4> QED
        BY <2>7, <3>1, <4>1 DEF IsAnchor, At, psa
    <3>5. CASE upfs = {a, b}
      <4>1. a # b /\ pos[a].x <= pos[b].x /\ pos[a] \in Positions /\ pos[b] \in Positions
        BY <1>1, <2>7, <3>1 DEF At
      <4>2. Anchor(g, pos, dn) = At(pos[b].x + 225, (pos[a].y + pos[b].y) \div 2)
        BY <3>1, <3>5, <4>1, AnchorOfTwo DEF upfs
      <4>3. (430 + 530) \div 2 = 480
        OBVIOUS
      <4> QED
        BY <2>7, <3>1, <4>2, <4>3 DEF IsAnchor, At, psa
    <3> QED
      BY <2>2, <2>7, <3>2, <3>3, <3>4, <3>5
  <2> QED
    BY <2>5, <2>6, <2>7, PsaSlots DEF psa, pos
<1> QED
  BY <1>5, <1>6

\* Where data networks stand: a row of two is 65 to the left and the right of
\* its anchor.
LEMMA DnSlotIs ==
  ASSUME NEW g \in SUBSET Nodes, HasRoom(g), NEW dn \in Group(g, "DN")
  PROVE  LET p == DnSlot(g, Slots0(g), dn)
         IN  /\ p.x \in Int /\ p.y \in {430, 480, 530}
             /\ p.x >= 615 /\ (IsULCL(g) => p.x >= 784)
             /\ Cardinality(Group(g, "PSA")) # 2 => p.y = 480
             /\ \A e \in Group(g, "DN"): e # dn =>
                  LET q == DnSlot(g, Slots0(g), e)
                  IN  p.y = q.y => p.x = q.x + 130 \/ q.x = p.x + 130
<1> DEFINE pos == Slots0(g)
           dns == Group(g, "DN")
           anchor(d) == Anchor(g, pos, d)
           row(d) == {e \in dns \ DOMAIN pos: anchor(e).y = anchor(d).y}
           slot(d) == DnSlot(g, pos, d)
<1>1. dns \subseteq g /\ dns \subseteq Nodes /\ dns \in SUBSET Nat
      /\ \A d \in dns: d \notin DOMAIN pos
  <2>1. "DN" \notin Placed(g)
    BY PlacedIs DEF TopTypes
  <2>2. \A d \in dns: d \in g /\ TypeOf[d] = "DN"
    BY DEF Group
  <2>3. \A n \in DOMAIN pos: TypeOf[n] \in Placed(g)
    BY DEF Slots0
  <2>4. \A d \in dns: d \notin DOMAIN pos
    <3> HIDE DEF dns, pos
    <3> QED
      BY <2>1, <2>2, <2>3
  <2>5. dns \subseteq g
    BY <2>2
  <2>6. dns \subseteq Nodes
    BY <2>5
  <2>7. Nodes \subseteq Nat
    BY DEF Nodes
  <2>8. dns \in SUBSET Nat
    BY <2>6, <2>7
  <2> QED
    BY <2>4, <2>5, <2>6, <2>8
<1>2. \A d \in dns: IsAnchor(g, anchor(d))
  BY <1>1, AnchorIs
<1>3. \A d \in dns: slot(d) = At(Spread(row(d), d, anchor(Min(row(d))).x, 130), anchor(d).y)
  BY DEF DnSlot
<1>4. \A d \in dns: row(d) = {e \in dns: anchor(e).y = anchor(d).y}
  BY <1>1
<1>5. IsFiniteSet(dns) /\ Cardinality(dns) <= 2
  BY GroupType, RowType DEF HasRoom
<1> HIDE DEF dns, anchor, row, slot
<1>6. dn \in dns
  BY DEF dns
\* Alone in its row.
<1>7. ASSUME NEW d \in dns, row(d) = {d}
      PROVE  slot(d) = At(anchor(d).x, anchor(d).y)
  <2>1. Min({d}) = d
    BY <1>1, <1>7 DEF Min
  <2>2. anchor(d).x \in Int /\ d \in Nat /\ 130 \in Int
    BY <1>1, <1>2 DEF IsAnchor
  <2>3. Spread({d}, d, anchor(d).x, 130) = anchor(d).x
    BY <2>2, SpreadOne
  <2> QED
    BY <1>3, <1>7, <2>1, <2>3
\* Two in a row.
<1>8. ASSUME NEW a \in dns, NEW b \in dns, a < b, anchor(a).y = anchor(b).y,
             dns = {a, b}
      PROVE  /\ slot(a) = At(anchor(a).x - 65, anchor(a).y)
             /\ slot(b) = At(anchor(a).x + 65, anchor(a).y)
  <2>1. row(a) = {a, b} /\ row(b) = {a, b}
    BY <1>4, <1>8
  <2>2. Min({a, b}) = a
    <3>1. a \in Int /\ b \in Int
      BY <1>1
    <3>2. \A z \in {a, b}: (\A y \in {a, b}: z <= y) <=> z = a
      BY <1>8, <3>1
    <3> QED
      BY <3>2 DEF Min
  <2>3. anchor(a).x \in Int /\ a \in Nat /\ b \in Nat
    BY <1>1, <1>2 DEF IsAnchor
  <2>4. /\ Spread({a, b}, a, anchor(a).x, 130) = anchor(a).x - 65
        /\ Spread({a, b}, b, anchor(a).x, 130) = anchor(a).x + 65
    BY <1>8, <2>3, SpreadTwo
  <2> QED
    BY <1>3, <1>8, <2>1, <2>2, <2>4
<1>9. CASE \E d \in dns: dns = {d}
  <2>1. dns = {dn} /\ row(dn) = {dn}
    BY <1>4, <1>6, <1>9
  <2>2. slot(dn) = At(anchor(dn).x, anchor(dn).y)
    BY <1>6, <1>7, <2>1
  <2> QED
    BY <1>2, <1>6, <2>1, <2>2 DEF IsAnchor, At, dns, slot
<1>10. ASSUME NEW a \in dns, NEW b \in dns, a < b, dns = {a, b}
       PROVE  /\ \A d \in dns: /\ slot(d).x \in Int /\ slot(d).y = anchor(d).y
                               /\ slot(d).x >= 615
                               /\ IsULCL(g) => slot(d).x >= 784
              /\ slot(a).y = slot(b).y => slot(b).x = slot(a).x + 130
  <2>1. IsAnchor(g, anchor(a)) /\ IsAnchor(g, anchor(b)) /\ a # b
    BY <1>1, <1>2, <1>10
  <2>2. CASE anchor(a).y = anchor(b).y
    <3>1. /\ slot(a) = At(anchor(a).x - 65, anchor(a).y)
          /\ slot(b) = At(anchor(a).x + 65, anchor(a).y)
      BY <1>8, <1>10, <2>2
    <3>2. /\ slot(a).x = anchor(a).x - 65 /\ slot(a).y = anchor(a).y
          /\ slot(b).x = anchor(a).x + 65 /\ slot(b).y = anchor(b).y
      BY <2>2, <3>1 DEF At
    <3>3. anchor(a).x \in Int /\ anchor(a).x >= 680 /\ (IsULCL(g) => anchor(a).x >= 849)
      BY <2>1 DEF IsAnchor
    <3> QED
      BY <1>10, <3>2, <3>3
  <2>3. CASE anchor(a).y # anchor(b).y
    <3>1. row(a) = {a} /\ row(b) = {b}
      BY <1>4, <1>10, <2>3
    <3>2. /\ slot(a) = At(anchor(a).x, anchor(a).y)
          /\ slot(b) = At(anchor(b).x, anchor(b).y)
      BY <1>7, <3>1
    <3>3. /\ slot(a).x = anchor(a).x /\ slot(a).y = anchor(a).y
          /\ slot(b).x = anchor(b).x /\ slot(b).y = anchor(b).y
      BY <3>2 DEF At
    <3>4. /\ anchor(a).x \in Int /\ anchor(a).x >= 680 /\ (IsULCL(g) => anchor(a).x >= 849)
          /\ anchor(b).x \in Int /\ anchor(b).x >= 680 /\ (IsULCL(g) => anchor(b).x >= 849)
      BY <2>1 DEF IsAnchor
    <3> QED
      BY <1>10, <2>3, <3>3, <3>4
  <2> QED
    BY <2>2, <2>3
<1>11. CASE \E a, b \in dns: a < b /\ dns = {a, b}
  <2>1. PICK a \in dns, b \in dns: a < b /\ dns = {a, b}
    BY <1>11
  <2>2. /\ \A d \in dns: /\ slot(d).x \in Int /\ slot(d).y = anchor(d).y
                         /\ slot(d).x >= 615
                         /\ IsULCL(g) => slot(d).x >= 784
        /\ slot(a).y = slot(b).y => slot(b).x = slot(a).x + 130
    BY <1>10, <2>1
  <2>3. \A e \in dns: e # dn => {e, dn} = {a, b}
    BY <1>6, <2>1
  <2>4. \A e \in dns: e # dn => \/ e = a /\ dn = b
                                \/ e = b /\ dn = a
    BY <1>6, <2>1
  <2>5. /\ anchor(dn).y \in {430, 480, 530}
        /\ Cardinality(Group(g, "PSA")) # 2 => anchor(dn).y = 480
    BY <1>2, <1>6 DEF IsAnchor
  <2> QED
    BY <1>6, <2>2, <2>4, <2>5 DEF slot, dns
<1>12. \/ \E d \in dns: dns = {d}
       \/ \E a, b \in dns: a < b /\ dns = {a, b}
  BY <1>1, <1>5, <1>6, SmallSet
<1> QED
  BY <1>9, <1>11, <1>12

\* Where a node stands after Reset.
ResetAt(g) == BuildElements(g, ComputePositions(g, <<>>))

LEMMA ResetIs ==
  ASSUME NEW g \in SUBSET Nodes, NEW n \in g
  PROVE  ResetAt(g)[n] = IF TypeOf[n] = "DN" THEN DnSlot(g, Slots0(g), n)
                         ELSE IF TypeOf[n] \in Placed(g) THEN Slot(g, n)
                         ELSE At(700, 400)
<1> DEFINE known == <<>>
           new == {m \in g \ DOMAIN known: TypeOf[m] \in Placed(g)}
           pos == [m \in (g \cap DOMAIN known) \cup new |->
                     IF m \in new THEN Slot(g, m) ELSE known[m]]
           dns == {m \in g \ DOMAIN known: TypeOf[m] = "DN"}
           all == [m \in DOMAIN pos \cup dns |->
                     IF m \in dns THEN DnSlot(g, pos, m) ELSE pos[m]]
<1>1. DOMAIN known = {}
  OBVIOUS
<1>2. ComputePositions(g, known) = all
  BY DEF ComputePositions
<1> HIDE DEF known
<1>3. new = {m \in g: TypeOf[m] \in Placed(g)} /\ dns = {m \in g: TypeOf[m] = "DN"}
  BY <1>1
<1>4. pos = Slots0(g) /\ DOMAIN pos = new
  BY <1>1, <1>3 DEF Slots0
<1>5. all = [m \in new \cup dns |-> IF m \in dns THEN DnSlot(g, Slots0(g), m) ELSE Slots0(g)[m]]
  BY <1>4
<1>6. \A m \in new: Slots0(g)[m] = Slot(g, m)
  BY <1>3 DEF Slots0
<1> HIDE DEF all, pos, new, dns
<1>7. ResetAt(g)[n] = IF n \in DOMAIN all THEN all[n] ELSE At(700, 400)
  BY <1>2 DEF ResetAt, BuildElements, known
<1> QED
  BY <1>3, <1>5, <1>6, <1>7

\* Where the nodes on the lower line stand, by type.
LowAt(g, t, p) ==
  \/ t = "UE" /\ p = At(80, 480)
  \/ t = "gNB" /\ p = At(240, 480)
  \/ t = "iUPF" /\ p = At(440, 480)
  \/ t = "UPF" /\ ~IsULCL(g) /\ p = At(480, 480)
  \/ t = "PSA" /\ IsULCL(g) /\ p = At(660, 480)
  \/ t = "PSA" /\ IsULCL(g) /\ Cardinality(Group(g, "PSA")) = 2
       /\ p \in {At(624, 430), At(696, 530)}
  \/ t = "DN" /\ p.x \in Int /\ p.y \in {430, 480, 530}
       /\ p.x >= 615 /\ (IsULCL(g) => p.x >= 784)
       /\ (Cardinality(Group(g, "PSA")) # 2 => p.y = 480)
  \/ t # "DN" /\ t \notin Placed(g) /\ p = At(700, 400)

LEMMA ResetLines ==
  ASSUME NEW g \in SUBSET Nodes, HasRoom(g), NEW n \in g
  PROVE  LET t == TypeOf[n]
             p == ResetAt(g)[n]
         IN  \/ t \in TopTypes
                /\ p = At(Spread(TopRow(g), TopIndex(t), 535, 130), 80)
             \/ t = "AMF" /\ p = At(310, 270)
             \/ t = "SMF" /\ p = At(680, 270)
             \/ LowAt(g, t, p)
<1> DEFINE t == TypeOf[n]
           p == ResetAt(g)[n]
<1>1. CASE t = "DN"
  <2>1. n \in Group(g, "DN") /\ p = DnSlot(g, Slots0(g), n)
    BY <1>1, ResetIs DEF Group
  <2> QED
    BY <1>1, <2>1, DnSlotIs DEF LowAt
<1>2. CASE t # "DN" /\ t \notin Placed(g)
  <2>1. p = At(700, 400)
    BY <1>2, ResetIs
  <2> QED
    BY <1>2, <2>1 DEF LowAt
<1>3. CASE t # "DN" /\ t \in Placed(g)
  <2>1. p = Slot(g, n)
    BY <1>3, ResetIs
  <2>2. t \in TopTypes \cup {"AMF", "SMF", "UE", "gNB"}
              \cup (IF IsULCL(g) THEN {"iUPF", "PSA"} ELSE {"UPF"})
    BY <1>3, PlacedIs
  <2>3. CASE t = "PSA"
    <3>1. IsULCL(g) /\ n \in Group(g, "PSA")
      BY <2>2, <2>3 DEF TopTypes, Group
    <3>2. \/ p = At(660, 480)
          \/ Cardinality(Group(g, "PSA")) = 2 /\ p \in {At(624, 430), At(696, 530)}
      BY <2>1, <3>1, PsaSlots
    <3> QED
      BY <2>3, <3>1, <3>2 DEF LowAt
  <2>4. CASE t # "PSA"
    <3>1. t = "UPF" => ~IsULCL(g)
      BY <2>2 DEF TopTypes
    <3> QED
      BY <1>3, <2>1, <2>2, <2>4, <3>1, SlotOfOne DEF LowAt
  <2> QED
    BY <2>3, <2>4
<1> QED
  BY <1>1, <1>2, <1>3

\* At most one node has no place, and none beside two PSA-UPFs.
LEMMA OneElsewhere ==
  ASSUME NEW g \in SUBSET Nodes, HasRoom(g),
         NEW n \in g, TypeOf[n] # "DN", TypeOf[n] \notin Placed(g)
  PROVE  /\ \A e \in g: TypeOf[e] = "DN" \/ TypeOf[e] \in Placed(g) \/ e = n
         /\ Cardinality(Group(g, "PSA")) # 2
<1> DEFINE elsewhere == {e \in g: TypeOf[e] \notin Placed(g) \cup {"DN"}}
<1>1. elsewhere \in SUBSET (1 .. Len(TypeOf)) /\ Len(TypeOf) \in Nat
  BY NodesAssumption, LenProperties DEF Nodes
<1>2. n \in elsewhere
  OBVIOUS
<1>3. \A e \in g: TypeOf[e] = "DN" \/ TypeOf[e] \in Placed(g) \/ e \in elsewhere
  OBVIOUS
<1>4. Cardinality(elsewhere) <= 1
  BY DEF HasRoom
<1>5. Cardinality(Group(g, "PSA")) <= 1
  BY <1>2 DEF HasRoom
<1> HIDE DEF elsewhere
<1>6. IsFiniteSet(elsewhere)
  BY <1>1, RowType
<1>7. Cardinality(elsewhere) \in Nat
  BY <1>6, FS_CardinalityType
<1>8. Cardinality(elsewhere) # 0
  BY <1>2, <1>6, FS_EmptySet
<1>9. Cardinality(elsewhere) = 1
  BY <1>4, <1>7, <1>8
<1>10. PICK e : elsewhere = {e}
  BY <1>6, <1>9, FS_Singleton
<1>11. elsewhere = {n}
  BY <1>2, <1>10
<1>12. Cardinality(Group(g, "PSA")) \in Nat
  BY GroupType, RowType
<1> QED
  BY <1>3, <1>5, <1>11, <1>12

\* Two nodes of the lower line do not overlap.
LEMMA LowApart ==
  ASSUME NEW g \in SUBSET Nodes, HasRoom(g), NEW m \in g, NEW n \in g, m # n,
         LowAt(g, TypeOf[m], ResetAt(g)[m]), LowAt(g, TypeOf[n], ResetAt(g)[n])
  PROVE  LET p == ResetAt(g)[m]
             q == ResetAt(g)[n]
         IN  \/ Dist(p.x, q.x) >= HalfWidth(m) + HalfWidth(n)
             \/ Dist(p.y, q.y) >= 36
<1> DEFINE p == ResetAt(g)[m]
           q == ResetAt(g)[n]
           s == TypeOf[m]
           t == TypeOf[n]
<1>1. /\ HalfWidth(m) = (IF s \in {"gNB", "UE", "DN"} THEN 35 ELSE 40)
      /\ HalfWidth(n) = (IF t \in {"gNB", "UE", "DN"} THEN 35 ELSE 40)
  BY DEF HalfWidth
<1>2. s = t => s \in {"PSA", "DN"}
  BY DEF HasRoom
\* Two data networks.
<1>3. CASE s = "DN" /\ t = "DN"
  <2>1. /\ m \in Group(g, "DN") /\ n \in Group(g, "DN")
        /\ p = DnSlot(g, Slots0(g), m) /\ q = DnSlot(g, Slots0(g), n)
    BY <1>3, ResetIs DEF Group
  <2>2. /\ p.x \in Int /\ q.x \in Int
        /\ p.y \in {430, 480, 530} /\ q.y \in {430, 480, 530}
        /\ p.y = q.y => p.x = q.x + 130 \/ q.x = p.x + 130
    BY <2>1, DnSlotIs
  <2> QED
    BY <1>1, <1>3, <2>2 DEF Dist
\* Two that the layout has no place for, or one and a second PSA-UPF.
<1>4. ASSUME s # "DN", s \notin Placed(g)
      PROVE  /\ ~(t # "DN" /\ t \notin Placed(g))
             /\ Cardinality(Group(g, "PSA")) # 2
  BY <1>4, OneElsewhere
<1>5. ASSUME t # "DN", t \notin Placed(g)
      PROVE  /\ ~(s # "DN" /\ s \notin Placed(g))
             /\ Cardinality(Group(g, "PSA")) # 2
  BY <1>5, OneElsewhere
\* Two PSA-UPFs.
<1>6. CASE s = "PSA" /\ t = "PSA"
  <2>1. m \in Group(g, "PSA") /\ n \in Group(g, "PSA")
    BY <1>6 DEF Group
  <2>2. "PSA" \in Placed(g)
    BY <1>6, <1>4
  <2>3. IsULCL(g)
    BY <2>2, PlacedIs DEF TopTypes
  <2>4. p = Slot(g, m) /\ q = Slot(g, n)
    BY <1>6, <2>2, ResetIs
  <2>5. \/ p = At(624, 430) /\ q = At(696, 530)
        \/ q = At(624, 430) /\ p = At(696, 530)
    BY <2>1, <2>3, <2>4, PsaSlots
  <2> QED
    BY <2>5 DEF At, Dist
<1> DEFINE ulcl == IsULCL(g)
           two  == Cardinality(Group(g, "PSA")) = 2
<1>7. ASSUME s = "iUPF" \/ t = "iUPF" PROVE ulcl
  BY <1>7 DEF IsULCL, Group
<1>8. LowAt(g, s, p) /\ LowAt(g, t, q)
  OBVIOUS
<1>9. CASE s # t
  BY <1>1, <1>4, <1>5, <1>7, <1>8, <1>9 DEF LowAt, At, Dist
<1> QED
  BY <1>2, <1>3, <1>6, <1>9

\* Two nodes of the top row do not overlap.
LEMMA TopApart ==
  ASSUME NEW g \in SUBSET Nodes, HasRoom(g), NEW m \in g, NEW n \in g, m # n,
         TypeOf[m] \in TopTypes, TypeOf[n] \in TopTypes
  PROVE  Dist(Spread(TopRow(g), TopIndex(TypeOf[m]), 535, 130),
              Spread(TopRow(g), TopIndex(TypeOf[n]), 535, 130)) >= 130
<1> DEFINE row == TopRow(g)
           i   == TopIndex(TypeOf[m])
           j   == TopIndex(TypeOf[n])
<1>1. /\ i \in 1 .. 10 /\ TopRowOrder[i] = TypeOf[m]
      /\ j \in 1 .. 10 /\ TopRowOrder[j] = TypeOf[n]
  BY TopRowNames
<1>2. i # j
  <2>1. TypeOf[m] \notin {"PSA", "DN"}
    BY DEF TopTypes
  <2>2. TypeOf[m] # TypeOf[n]
    BY <2>1 DEF HasRoom
  <2> QED
    BY <1>1, <2>2
<1>3. m \in Group(g, TypeOf[m]) /\ n \in Group(g, TypeOf[n])
  BY DEF Group
<1>4. i \in row /\ j \in row
  BY <1>1, <1>3, TopRowType DEF TopRow
<1>5. row \in SUBSET (1 .. 10)
  BY TopRowType
<1> HIDE DEF row, i, j
<1>6. /\ Spread(row, i, 535, 130) \in Int
      /\ Spread(row, j, 535, 130) \in Int
  BY <1>5, SpreadType
<1>7. i < j \/ j < i
  BY <1>1, <1>2
<1>8. \/ Spread(row, j, 535, 130) >= Spread(row, i, 535, 130) + 130
      \/ Spread(row, i, 535, 130) >= Spread(row, j, 535, 130) + 130
  BY <1>4, <1>5, <1>7, SpreadApart
<1>9. Dist(Spread(row, i, 535, 130), Spread(row, j, 535, 130)) >= 130
  BY <1>6, <1>8 DEF Dist
<1> QED
  BY <1>9 DEF row, i, j

\* The three lines are far apart, and on none of them do two nodes overlap.
LEMMA TidyLayout ==
  ASSUME NEW g \in SUBSET Nodes, HasRoom(g)
  PROVE  Apart(ResetAt(g), g)
<1> DEFINE r == ResetAt(g)
           top(n) == TypeOf[n] \in TopTypes
                     /\ r[n] = At(Spread(TopRow(g), TopIndex(TypeOf[n]), 535, 130), 80)
           amf(n) == TypeOf[n] = "AMF" /\ r[n] = At(310, 270)
           smf(n) == TypeOf[n] = "SMF" /\ r[n] = At(680, 270)
           low(n) == LowAt(g, TypeOf[n], r[n])
<1>1. DOMAIN r = g
  BY ElementsDomain DEF ResetAt
<1>2. \A n \in g: top(n) \/ amf(n) \/ smf(n) \/ low(n)
  BY ResetLines
<1>3. SUFFICES ASSUME NEW m \in g, NEW n \in g, m # n
               PROVE  \/ Dist(r[m].x, r[n].x) >= HalfWidth(m) + HalfWidth(n)
                      \/ Dist(r[m].y, r[n].y) >= 36
  BY <1>1 DEF Apart
<1>4. \A e \in {m, n}: HalfWidth(e) \in {35, 40}
  BY DEF HalfWidth
\* The heights of the lines.
<1>5. \A e \in {m, n}: top(e) => r[e].y = 80
  BY DEF At
<1>6. \A e \in {m, n}: amf(e) \/ smf(e) => r[e].y = 270
  BY DEF At
<1>7. \A e \in {m, n}: low(e) => r[e].y \in {400, 430, 480, 530}
  BY DEF At, LowAt
\* On one line.
<1>8. CASE top(m) /\ top(n)
  <2>1. Dist(r[m].x, r[n].x) >= 130
    BY <1>3, <1>8, TopApart DEF At
  <2>2. HalfWidth(m) + HalfWidth(n) <= 80
    BY <1>4
  <2> DEFINE d == Dist(r[m].x, r[n].x)
  <2>3. d \in Int
    <3>1. /\ r[m].x = Spread(TopRow(g), TopIndex(TypeOf[m]), 535, 130)
          /\ r[n].x = Spread(TopRow(g), TopIndex(TypeOf[n]), 535, 130)
      BY <1>8 DEF At
    <3>2. r[m].x \in Int /\ r[n].x \in Int
      BY <3>1, TopRowType, SpreadType
    <3> QED
      BY <3>2 DEF Dist
  <2>4. HalfWidth(m) + HalfWidth(n) \in Int
    BY <1>4
  <2> DEFINE w == HalfWidth(m) + HalfWidth(n)
  <2>5. d >= 130 /\ w <= 80 /\ w \in Int
    BY <2>1, <2>2, <2>4
  <2> HIDE DEF d, w
  <2>6. d >= w
    BY <2>3, <2>5
  <2> QED
    BY <2>6 DEF d, w
<1>9. CASE (amf(m) \/ smf(m)) /\ (amf(n) \/ smf(n))
  <2>1. TypeOf[m] # TypeOf[n]
    BY <1>3, <1>9 DEF HasRoom
  <2>2. \/ amf(m) /\ smf(n)
        \/ smf(m) /\ amf(n)
    BY <1>9, <2>1
  <2>3. Dist(r[m].x, r[n].x) = 370
    BY <2>2 DEF At, Dist
  <2> QED
    BY <1>4, <2>3
<1>10. CASE low(m) /\ low(n)
  BY <1>3, <1>10, LowApart
\* On different lines.
<1>11. ASSUME r[m].y \in {80, 270, 400, 430, 480, 530},
              r[n].y \in {80, 270, 400, 430, 480, 530},
              \/ r[m].y = 80 /\ r[n].y # 80
              \/ r[m].y = 270 /\ r[n].y # 270
              \/ r[m].y >= 400 /\ r[n].y < 400
       PROVE  Dist(r[m].y, r[n].y) >= 36
  BY <1>11 DEF Dist
<1> HIDE DEF r, top, amf, smf, low
<1>12. /\ top(m) \/ amf(m) \/ smf(m) \/ low(m)
       /\ top(n) \/ amf(n) \/ smf(n) \/ low(n)
  BY <1>2
<1>13. /\ r[m].y \in {80, 270, 400, 430, 480, 530}
       /\ r[n].y \in {80, 270, 400, 430, 480, 530}
  BY <1>5, <1>6, <1>7, <1>12
<1>14. CASE top(m) /\ ~top(n)
  <2>1. r[m].y = 80 /\ r[n].y # 80
    BY <1>5, <1>6, <1>7, <1>12, <1>14
  <2> QED
    BY <1>11, <1>13, <2>1
<1>15. CASE (amf(m) \/ smf(m)) /\ ~(amf(n) \/ smf(n))
  <2>1. r[m].y = 270 /\ r[n].y # 270
    BY <1>5, <1>6, <1>7, <1>12, <1>15
  <2> QED
    BY <1>11, <1>13, <2>1
<1>16. CASE low(m) /\ ~low(n)
  <2>1. r[m].y >= 400 /\ r[n].y < 400
    BY <1>5, <1>6, <1>7, <1>12, <1>16
  <2> QED
    BY <1>11, <1>13, <2>1
<1> QED
  BY <1>8, <1>9, <1>10, <1>12, <1>14, <1>15, <1>16

\* A node that has a place is put there, whatever the canvas showed.
LEMMA ResetPuts ==
  ASSUME NEW g, NEW n \in Tidied(g)
  PROVE  /\ n \in g /\ n \in DOMAIN ComputePositions(g, <<>>)
         /\ ResetAt(g)[n] = ComputePositions(g, <<>>)[n]
<1>1. n \in g /\ TypeOf[n] \in Placed(g) \cup {"DN"}
  BY DEF Tidied
<1>2. n \in DOMAIN ComputePositions(g, <<>>)
  BY <1>1 DEF ComputePositions
<1> QED
  BY <1>1, <1>2 DEF ResetAt, BuildElements

\* A reset tidies up, for any nodes, graphs and links: whatever was dragged where,
\* no two nodes that have a place overlap after it, and none at all where the
\* canvas is mounted with nothing saved, if the layout has room for the graph.
THEOREM TidyCorrect == CanvasSpec => ResetTidies
<1>1. CanvasInv /\ [CanvasNext]_canvasVars
      => [/\ Reset /\ HasRoom(graph) => Apart(cy', Tidied(graph))
          /\ ~mounted /\ mounted' /\ saved = <<>> /\ HasRoom(graph')
               => Apart(cy', graph')]_canvasVars
  <2> SUFFICES ASSUME CanvasInv, CanvasNext
               PROVE  /\ Reset /\ HasRoom(graph) => Apart(cy', Tidied(graph))
                      /\ ~mounted /\ mounted' /\ saved = <<>> /\ HasRoom(graph')
                           => Apart(cy', graph')
    OBVIOUS
  <2>1. ASSUME Reset, HasRoom(graph) PROVE Apart(cy', Tidied(graph))
    <3>1. graph \in SUBSET Nodes
      BY DEF CanvasInv, ShownInv
    <3>2. Apart(ResetAt(graph), graph)
      BY <2>1, <3>1, TidyLayout
    <3>3. \A n \in Tidied(graph): n \in graph /\ cy'[n] = ResetAt(graph)[n]
      <4> DEFINE new == ComputePositions(graph, <<>>)
      <4>1. cy' = [n \in graph |-> IF n \in DOMAIN new THEN new[n] ELSE cy[n]]
        BY <2>1 DEF Reset
      <4>2. \A n \in Tidied(graph):
              n \in graph /\ n \in DOMAIN new /\ ResetAt(graph)[n] = new[n]
        BY ResetPuts
      <4> HIDE DEF new
      <4> QED
        BY <4>1, <4>2
    <3> QED
      BY <3>2, <3>3 DEF Apart
  <2>2. ASSUME ~mounted, mounted', saved = <<>>, HasRoom(graph')
        PROVE  Apart(cy', graph')
    <3>1. PICK g \in Graphs: Mount(g)
      BY <2>2 DEF CanvasNext, Refresh, Grab, Drag, Unmount, Free, Reset,
         CanvasInv, ShownInv
    <3>2. g \in SUBSET Nodes /\ graph' = g /\ HasRoom(g) /\ cy' = ResetAt(g)
      BY <2>2, <3>1, GraphsAssumption DEF Mount, ResetAt
    <3> QED
      BY <3>2, TidyLayout
  <2> QED
    BY <2>1, <2>2
<1> QED
  BY <1>1, CanvasInvariance, PTL DEF CanvasSpec, ResetTidies
=============================================================================
