----------------------------- MODULE CaptureTabs -----------------------------
(***************************************************************************)
(* The capture tabs: Layout holds them, opens one when the route names a   *)
(* pod and an interface, and keeps CapturePage mounted on every route;     *)
(* CapturePage opens, closes and selects them and shares the width among   *)
(* the panels of the split view. The content of a tab is CapturePanel.     *)
(***************************************************************************)
EXTENDS Integers, Sequences, TabRow

CONSTANTS
  Keys,     \* pairs of a pod and an interface
  NoKey,    \* a route without a pod
  MaxTabs,  \* MAX_CAPTURE_TABS, and the 8 of Layout
  MaxIds,   \* tabs opened in a session, a bound of the model
  Total,    \* the width of the split view, 100 in the code
  MinWidth  \* MIN, 15 in the code

\* Equal shares are whole numbers here; the code's are fractions.
ASSUME KeyAssumption == NoKey \notin Keys
ASSUME BoundAssumption == MaxTabs \in Nat \ {0} /\ MaxIds \in Nat \ {0}
ASSUME WidthAssumption ==
  /\ Total \in Nat /\ MinWidth \in Nat \ {0}
  /\ \A n \in 1 .. MaxTabs: n * (Total \div n) = Total

VARIABLES
  route,       \* [page, key]: isCaptures and the two search parameters
  tabs,        \* captureTabs: [id, key] in the order of the bar
  activeId,    \* activeTabId, 0 for null
  nextId,      \* ids are fresh: a time and a random number in the code
  splitMode, showAdd,
  splitWidths, \* as set last, whatever tabs there are now
  drag         \* splitDragRef: [idx, widths] at mouse down, idx 0 for null

tabVars == <<tabs, activeId, nextId>>
widthVars == <<splitWidths, drag>>
vars == <<route, tabVars, splitMode, showAdd, widthVars>>

Ids == 1 .. MaxIds
Tab == [id: Ids, key: Keys]
Routes ==
  [page: {"captures"}, key: Keys \cup {NoKey}] \cup [page: {"other"}, key: {NoKey}]
NoDrag == [idx |-> 0, widths |-> <<>>]

TypeOK ==
  /\ route \in Routes
  /\ tabs \in Seq(Tab) /\ Len(tabs) <= MaxTabs
  /\ activeId \in Ids \cup {0} /\ nextId \in 1 .. MaxIds + 1
  /\ splitMode \in BOOLEAN /\ showAdd \in BOOLEAN
  /\ splitWidths \in Seq(Int) /\ Len(splitWidths) <= MaxTabs
  /\ drag \in [idx: 0 .. MaxTabs, widths: Seq(Int)]
  /\ drag.idx # 0 => drag.idx < Len(drag.widths)

Init ==
  /\ route = [page |-> "other", key |-> NoKey]
  /\ tabs = <<>> /\ activeId = 0 /\ nextId = 1
  /\ splitMode = FALSE /\ showAdd = FALSE
  /\ splitWidths = <<>> /\ drag = NoDrag
-----------------------------------------------------------------------------
(* Widths. *)

Equal(n) == [k \in 1 .. n |-> Total \div n]

\* effectiveWidths: those set last, if they are as many as the tabs.
Effective == IF Len(splitWidths) = Len(tabs) THEN splitWidths ELSE Equal(Len(tabs))

\* The effect on tabs.length.
ResetWidths ==
  splitWidths' = IF Len(tabs') # Len(tabs) /\ Len(tabs') > 0
                 THEN Equal(Len(tabs')) ELSE splitWidths

Least(a, b) == IF a <= b THEN a ELSE b
Greatest(a, b) == IF a >= b THEN a ELSE b

\* Faulty variant: only the left panel is kept from vanishing.
LeftWidthUnbounded(w, i, delta) == Greatest(MinWidth, w[i] + delta)

\* The width of panel i when the divider on its right is dragged by delta.
LeftWidth(w, i, delta) ==
  Greatest(MinWidth, Least(w[i] + delta, w[i] + w[i + 1] - MinWidth))

\* The mouse moves: what panel i takes, panel i + 1 gives.
Dragged(w, i, delta) ==
  [w EXCEPT ![i] = LeftWidth(w, i, delta),
            ![i + 1] = w[i] + w[i + 1] - LeftWidth(w, i, delta)]
-----------------------------------------------------------------------------
(* Tabs. *)

Positions(key) == {k \in 1 .. Len(tabs): tabs[k].key = key}

\* Faulty variant: an open tab is left where it is, in the background.
OpenTabBehind(key) ==
  \/ /\ Positions(key) # {} \/ Len(tabs) >= MaxTabs
     /\ UNCHANGED tabVars
  \/ /\ Positions(key) = {} /\ Len(tabs) < MaxTabs
     /\ nextId \in Ids
     /\ tabs' = Append(tabs, [id |-> nextId, key |-> key])
     /\ activeId' = nextId /\ nextId' = nextId + 1

\* addTab, Layout's and CapturePage's alike: go to the open tab, or open one
\* while there are fewer than the limit.
OpenTab(key) ==
  \/ \E k \in Positions(key):
       /\ activeId' = tabs[k].id
       /\ UNCHANGED <<tabs, nextId>>
  \/ /\ Positions(key) = {} /\ Len(tabs) >= MaxTabs
     /\ UNCHANGED tabVars
  \/ /\ Positions(key) = {} /\ Len(tabs) < MaxTabs
     /\ nextId \in Ids
     /\ tabs' = Append(tabs, [id |-> nextId, key |-> key])
     /\ activeId' = nextId /\ nextId' = nextId + 1

\* A link, the topology's capture button, or the browser's history: the effect
\* of Layout opens the tab the new route names.
Navigate(r) ==
  /\ r # route
  /\ route' = r
  /\ \/ r.key # NoKey /\ OpenTab(r.key)
     \/ r.key = NoKey /\ UNCHANGED tabVars
  /\ ResetWidths
  /\ UNCHANGED <<splitMode, showAdd, drag>>

\* Start in the row for a new tab.
StartCapture(key) ==
  /\ route.page = "captures" /\ showAdd
  /\ OpenTab(key)
  /\ showAdd' = FALSE
  /\ ResetWidths
  /\ UNCHANGED <<route, splitMode, drag>>

\* Faulty variant: the tab at the closed one's place, which may be none.
CloseTabNoneNext(k) ==
  /\ route.page = "captures" /\ k \in 1 .. Len(tabs)
  /\ tabs' = Without(tabs, k)
  /\ activeId' =
       IF activeId # tabs[k].id THEN activeId
       ELSE IF k <= Len(tabs') THEN tabs'[k].id ELSE 0
  /\ ResetWidths
  /\ UNCHANGED <<route, nextId, splitMode, showAdd, drag>>

\* closeTab: the tab that takes the place of the active one becomes active, or
\* the last one.
CloseTab(k) ==
  /\ route.page = "captures" /\ k \in 1 .. Len(tabs)
  /\ tabs' = Without(tabs, k)
  /\ activeId' =
       IF activeId # tabs[k].id THEN activeId
       ELSE IF tabs' = <<>> THEN 0 ELSE tabs'[Least(k, Len(tabs'))].id
  /\ ResetWidths
  /\ UNCHANGED <<route, nextId, splitMode, showAdd, drag>>

\* A click on a tab, or anywhere in a panel that is shown.
Select(k) ==
  /\ route.page = "captures" /\ k \in 1 .. Len(tabs)
  /\ activeId' = tabs[k].id
  /\ UNCHANGED <<route, tabs, nextId, splitMode, showAdd, widthVars>>
-----------------------------------------------------------------------------
(* The buttons of the bar, and the dividers. *)

\* "+" toggles the row, "New Capture" and Cancel show and hide it.
ToggleAdd ==
  /\ route.page = "captures"
  /\ showAdd \/ Len(tabs) < MaxTabs
  /\ showAdd' = ~showAdd
  /\ UNCHANGED <<route, tabVars, splitMode, widthVars>>

ToggleSplit ==
  /\ route.page = "captures" /\ Len(tabs) > 1
  /\ splitMode' = ~splitMode
  /\ UNCHANGED <<route, tabVars, showAdd, widthVars>>

\* Mouse down on the divider after panel k.
StartDrag(k) ==
  /\ route.page = "captures" /\ splitMode
  /\ k \in 1 .. Len(tabs) - 1
  /\ drag' = [idx |-> k, widths |-> Effective]
  /\ UNCHANGED <<route, tabVars, splitMode, showAdd, splitWidths>>

\* The window listens, so the mouse is followed wherever it is.
MoveDrag(delta) ==
  /\ drag.idx # 0
  /\ splitWidths' = Dragged(drag.widths, drag.idx, delta)
  /\ UNCHANGED <<route, tabVars, splitMode, showAdd, drag>>

EndDrag ==
  /\ drag.idx # 0
  /\ drag' = NoDrag
  /\ UNCHANGED <<route, tabVars, splitMode, showAdd, splitWidths>>
-----------------------------------------------------------------------------
Next ==
  \/ \E r \in Routes: Navigate(r)
  \/ \E key \in Keys: StartCapture(key)
  \/ \E k \in 1 .. MaxTabs: CloseTab(k) \/ Select(k) \/ StartDrag(k)
  \/ ToggleAdd \/ ToggleSplit
  \/ \E delta \in -Total .. Total: MoveDrag(delta)
  \/ EndDrag

Spec == Init /\ [][Next]_vars
-----------------------------------------------------------------------------
(* Properties. *)

\* No interface is captured in two tabs, ids are unique and given out already,
\* and a tab is active exactly when there is one: none of addTab, its twin in
\* Layout and closeTab, in any order, leaves a bar without a visible panel.
TabsConsistent ==
  /\ \A j, k \in 1 .. Len(tabs):
       tabs[j].key = tabs[k].key \/ tabs[j].id = tabs[k].id => j = k
  /\ \A k \in 1 .. Len(tabs): tabs[k].id < nextId
  /\ IF tabs = <<>> THEN activeId = 0
     ELSE \E k \in 1 .. Len(tabs): tabs[k].id = activeId

\* The panels of the split view fill it and none is narrower than MIN, however
\* dividers are dragged while tabs come and go, as long as MIN leaves room for
\* so many (at 7 and 8 tabs the code's 15 % does not).
WidthSum(w) ==
  LET sum[n \in 0 .. Len(w)] == IF n = 0 THEN 0 ELSE w[n] + sum[n - 1]
  IN  sum[Len(w)]
WidthsFit ==
  tabs # <<>> =>
    /\ WidthSum(Effective) = Total
    /\ Len(tabs) * MinWidth <= Total =>
         \A k \in 1 .. Len(tabs): Effective[k] >= MinWidth

\* Asking for a capture, by a link or by Start, leaves its tab active, unless
\* there are as many tabs as may be (the request is then dropped silently).
Shows(bar, id, key) == \E k \in 1 .. Len(bar): bar[k].key = key /\ bar[k].id = id
CaptureShown ==
  [][\A key \in Keys:
       StartCapture(key) \/ (route' # route /\ route'.key = key)
         => Shows(tabs', activeId', key) \/ Len(tabs) = MaxTabs]_vars
=============================================================================
