------------------------------- MODULE DotTip -------------------------------
(***************************************************************************)
(* The tooltips of the topology canvas. Hovering over an endpoint dot      *)
(* shows its tooltip, a click locks it, and moving off the dot starts a    *)
(* timer that hides it. dotHideTimer holds the timer started last; those   *)
(* before it are still pending.                                            *)
(***************************************************************************)
EXTENDS Naturals

CONSTANTS
  Dots, Nodes,  \* what the mouse can be over, and
  Blank,        \* the canvas between them,
  Tip, NodeBox, \* the boxes of the two tooltips,
  None,         \* or nothing of the canvas
  MaxTimers     \* hide timers pending at once, a bound on how the mouse moves

VARIABLES
  over,        \* what the last mouse event was over
  dotTip,      \* the dot of the tooltip, None for null
  dotLocked,   \* the state and the ref that mirrors it
  hides,       \* hide timers pending
  latest,      \* whether the one in dotHideTimer is among them
  nodeTip, nodeTimer,
  answersDue,  \* the dots whose metrics are asked for
  dotMetrics   \* the dot whose metrics are stored, None for null

tipVars == <<dotTip, dotLocked>>
timerVars == <<hides, latest>>
nodeVars == <<nodeTip, nodeTimer>>
metricVars == <<answersDue, dotMetrics>>
vars == <<over, tipVars, timerVars, nodeVars, metricVars>>

Init ==
  /\ over = None
  /\ dotTip = None /\ dotLocked = FALSE
  /\ hides = 0 /\ latest = FALSE
  /\ nodeTip = None /\ nodeTimer = FALSE
  /\ answersDue = {} /\ dotMetrics = None

\* clearTimeout(dotHideTimer.current).
ClearHide == hides' = (IF latest THEN hides - 1 ELSE hides) /\ latest' = FALSE

\* setDotTip, and the effect that asks for the metrics of another dot. Nothing
\* cancels what was asked before.
ShowTip(d) ==
  /\ dotTip' = d
  /\ \/ d = dotTip /\ UNCHANGED metricVars
     \/ /\ d # dotTip
        /\ dotMetrics' = None
        /\ answersDue' = IF d = None THEN answersDue ELSE answersDue \cup {d}
-----------------------------------------------------------------------------
(* The mouse: onMove. *)

MoveOntoDot(d) ==
  /\ over' = d
  /\ \/ dotLocked /\ UNCHANGED <<tipVars, timerVars, nodeVars, metricVars>>
     \/ /\ ~dotLocked
        /\ ClearHide
        /\ nodeTip' = None /\ nodeTimer' = FALSE
        /\ ShowTip(d) /\ UNCHANGED dotLocked

\* Off the dots each move starts a timer and forgets the one before.
MoveOffDots(x) ==
  /\ over' = x
  /\ \/ dotLocked /\ UNCHANGED <<tipVars, timerVars, nodeVars, metricVars>>
     \/ /\ ~dotLocked
        /\ hides < MaxTimers
        /\ hides' = hides + 1 /\ latest' = TRUE
        /\ nodeTip' = IF x \in Nodes THEN x ELSE None
        /\ nodeTimer' = FALSE
        /\ UNCHANGED <<tipVars, metricVars>>

\* Cytoscape's mouseout of a node.
LeaveNode ==
  /\ over \in Nodes
  /\ over' = None
  /\ nodeTimer' = TRUE
  /\ UNCHANGED <<tipVars, timerVars, nodeTip, metricVars>>

\* The tooltip lies above the canvas, which hears nothing of the mouse there.
EnterTip ==
  /\ dotTip # None /\ over # Tip
  /\ over' = Tip
  /\ ClearHide
  /\ UNCHANGED <<tipVars, nodeVars, metricVars>>

LeaveTip ==
  /\ dotTip # None /\ over = Tip
  /\ over' = None
  /\ ShowTip(IF dotLocked THEN dotTip ELSE None)
  /\ UNCHANGED <<dotLocked, timerVars, nodeVars>>

\* The tooltip of a node, shown while there is none of a dot, likewise.
EnterNodeTip ==
  /\ nodeTip # None /\ dotTip = None /\ over # NodeBox
  /\ over' = NodeBox
  /\ nodeTimer' = FALSE
  /\ UNCHANGED <<tipVars, timerVars, nodeTip, metricVars>>

LeaveNodeTip ==
  /\ nodeTip # None /\ dotTip = None /\ over = NodeBox
  /\ over' = None
  /\ nodeTip' = None
  /\ UNCHANGED <<tipVars, timerVars, nodeTimer, metricVars>>

\* onClick locks the tooltip of a dot, also from a little beside the dot.
ClickDot(d) ==
  /\ over \in Nodes \cup {d, Blank}
  /\ ClearHide
  /\ ShowTip(d) /\ dotLocked' = TRUE
  /\ UNCHANGED <<over, nodeVars>>

\* The cross of a locked tooltip.
CloseTip ==
  /\ dotTip # None /\ over = Tip /\ dotLocked
  /\ over' = None
  /\ dotLocked' = FALSE /\ ShowTip(None)
  /\ UNCHANGED <<timerVars, nodeVars>>
-----------------------------------------------------------------------------
(* Timers and answers. *)

\* All timers run for the same time: the oldest fires first.
HideFires ==
  /\ hides > 0
  /\ hides' = hides - 1 /\ latest' = (latest /\ hides > 1)
  /\ ShowTip(None)
  /\ UNCHANGED <<over, dotLocked, nodeVars>>

NodeTimerFires ==
  /\ nodeTimer
  /\ nodeTimer' = FALSE /\ nodeTip' = None
  /\ UNCHANGED <<over, tipVars, timerVars, metricVars>>

\* While a tooltip is there its metrics are asked for again and again.
Poll ==
  /\ dotTip # None
  /\ answersDue' = answersDue \cup {dotTip}
  /\ UNCHANGED <<over, tipVars, timerVars, nodeVars, dotMetrics>>

Answer(d) ==
  /\ d \in answersDue
  /\ answersDue' = answersDue \ {d}
  /\ dotMetrics' \in {d, dotMetrics}
  /\ UNCHANGED <<over, tipVars, timerVars, nodeVars>>
-----------------------------------------------------------------------------
Next ==
  \/ \E d \in Dots: MoveOntoDot(d) \/ ClickDot(d) \/ Answer(d)
  \/ \E x \in Nodes \cup {Blank}: MoveOffDots(x)
  \/ LeaveNode \/ EnterTip \/ LeaveTip \/ CloseTip \/ EnterNodeTip \/ LeaveNodeTip
  \/ HideFires \/ NodeTimerFires \/ Poll

\* A timer fires.
Fairness == WF_vars(HideFires) /\ WF_vars(NodeTimerFires)

Spec == Init /\ [][Next]_vars /\ Fairness
-----------------------------------------------------------------------------
\* "Not on a dot -- grace-period hide for dot tooltip": when the hide timer
\* takes a tooltip away the mouse is not on its dot.
HiddenOffDot == [][HideFires => dotTip = None \/ over # dotTip]_vars

\* A lock is on a tooltip: without one nothing shows, no move does anything and
\* there is no cross to click.
LockedIsShown == dotLocked => dotTip # None
=============================================================================
