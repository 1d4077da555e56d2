------------------------------ MODULE TermPanel ------------------------------
(***************************************************************************)
(* The terminal panel below the topology page: Layout holds whether it is  *)
(* open and the route, TerminalPanel its tabs, and each tab an instance    *)
(* with a WebSocket of its own: TerminalInstance logs in over SSH,         *)
(* ExecInstance connects to a container at once. A state set in a socket's *)
(* handler reaches the screen, and the effect that mounts or disposes the  *)
(* xterm runs, in a later step (Render), before the user can act on it.    *)
(***************************************************************************)
EXTENDS Naturals, Sequences, TabRow

CONSTANTS
  MaxIds,   \* tabs opened in a session, the first included
  MaxTabs   \* tabs open at a time; the code has no limit

ASSUME BoundsAssumption == MaxIds \in Nat \ {0} /\ MaxTabs \in Nat \ {0}

VARIABLES
  onTopology, \* isTopology: the route is "/"
  termOpen,   \* Layout's state, TerminalPanel's prop "open"
  tabs,       \* ids of the open tabs, in order
  activeId,
  nextId,     \* _nextId
  tab         \* [ids -> what TerminalPanel and the instance know of a tab]

panelVars == <<onTopology, termOpen, tabs, activeId, nextId>>
vars == <<panelVars, tab>>

Ids == 1 .. MaxIds

\* kind; conn = connState; mounted = mountedRef; ws = readyState of wsRef's
\* socket ("closed" once its close event was handled); old = an earlier socket
\* of the tab still has its close event to come; dot = TabDef.connected;
\* skew, a history: a close event went to a session it did not belong to, or
\* came before the session had a terminal, since the last login.
TabInfo == [
  kind: {"ssh", "exec"}, conn: {"login", "connecting", "connected", "error"},
  mounted: BOOLEAN, ws: {"none", "connecting", "open", "closing", "closed"},
  old: BOOLEAN, dot: BOOLEAN, skew: BOOLEAN]

NewSsh == [kind |-> "ssh", conn |-> "login", mounted |-> FALSE, ws |-> "none",
           old |-> FALSE, dot |-> FALSE, skew |-> FALSE]
\* An exec instance connects when it is mounted.
NewExec == [NewSsh EXCEPT !.kind = "exec", !.conn = "connecting", !.ws = "connecting"]

TypeOK ==
  /\ onTopology \in BOOLEAN /\ termOpen \in BOOLEAN
  /\ tabs \in Seq(Ids)
  /\ activeId \in Ids
  /\ nextId \in 1 .. MaxIds + 1
  /\ tab \in [Ids -> TabInfo]

Init ==
  /\ onTopology \in BOOLEAN
  /\ termOpen = TRUE
  /\ tabs = <<1>> /\ activeId = 1 /\ nextId = 2
  /\ tab = [i \in Ids |-> NewSsh]
-----------------------------------------------------------------------------
(* Layout and TerminalPanel. *)

\* onToggle, a functional update that other routes ignore, applied to the value
\* the updates before it leave.
Toggled(open) == IF onTopology THEN ~open ELSE open

Toggle ==
  /\ onTopology
  /\ termOpen' = Toggled(termOpen)
  /\ UNCHANGED <<onTopology, tabs, activeId, nextId, tab>>

\* The panel stays mounted on every route, so nothing else changes.
Navigate ==
  /\ onTopology' = ~onTopology
  /\ UNCHANGED <<termOpen, tabs, activeId, nextId, tab>>

Append1(info) ==
  /\ nextId \in Ids /\ Len(tabs) < MaxTabs
  /\ tabs' = Append(tabs, nextId)
  /\ activeId' = nextId
  /\ nextId' = nextId + 1
  /\ tab' = [tab EXCEPT ![nextId] = info]

\* Faulty variant: the new tab opens in a collapsed panel.
AddTabCollapsed ==
  /\ onTopology
  /\ Append1(NewSsh)
  /\ UNCHANGED <<onTopology, termOpen>>

\* The button for a new terminal (addTab).
AddTab ==
  /\ onTopology
  /\ Append1(NewSsh)
  /\ termOpen' = IF termOpen THEN termOpen ELSE Toggled(termOpen)
  /\ UNCHANGED onTopology

\* The side panel's Shell button, or its menu when the pod has several
\* containers, is part of the topology page.
ShellOffered == onTopology

\* A shell is asked for: Layout.openExecTab opens the panel and
\* calls TerminalPanel.openExecTab, whose "open" is still the rendered one.
OpenExecTab ==
  /\ ShellOffered
  /\ Append1(NewExec)
  /\ LET forced == TRUE
     IN  termOpen' = IF termOpen THEN forced ELSE Toggled(forced)
  /\ UNCHANGED onTopology

SelectTab(i) ==
  /\ onTopology
  /\ activeId' = i
  /\ termOpen' = IF termOpen THEN termOpen ELSE Toggled(termOpen)
  /\ UNCHANGED <<onTopology, tabs, nextId, tab>>

\* Faulty variant: the active id stays that of the closed tab.
CloseTabKeepsActive(k) ==
  /\ onTopology
  /\ k \in 1 .. Len(tabs) /\ Len(tabs) > 1
  /\ tabs' = Without(tabs, k)
  /\ tab' = [tab EXCEPT ![tabs[k]] = NewSsh]
  /\ UNCHANGED <<onTopology, termOpen, activeId, nextId>>

\* The cross of a tab, not shown on the only one. The instance is unmounted and
\* closes its socket; what that still does concerns no tab.
CloseTab(k) ==
  /\ onTopology
  /\ k \in 1 .. Len(tabs) /\ Len(tabs) > 1
  /\ tabs' = Without(tabs, k)
  /\ activeId' = IF activeId = tabs[k] THEN tabs'[Len(tabs')] ELSE activeId
  /\ tab' = [tab EXCEPT ![tabs[k]] = NewSsh]
  /\ UNCHANGED <<onTopology, termOpen, nextId>>
-----------------------------------------------------------------------------
(* The instances. *)

Rendered(i) == tab[i].mounted = (tab[i].conn = "connected")

\* React renders connState and runs the effect that depends on it.
Render(i) ==
  /\ ~Rendered(i)
  /\ tab' = [tab EXCEPT ![i].mounted = (tab[i].conn = "connected")]
  /\ UNCHANGED panelVars

\* The login form, with the error of the last attempt if it failed.
LoginShown(i) == tab[i].kind = "ssh" /\ tab[i].conn \in {"login", "error"}

\* Submitting the login form of the visible tab. The socket before, if any, is
\* closed already or waits for its close event; wsRef forgets it, its handlers
\* remain. At most one such socket is followed.
ConnectSsh(i) ==
  /\ onTopology /\ termOpen /\ activeId = i
  /\ LoginShown(i) /\ Rendered(i)
  /\ ~tab[i].old
  /\ tab' = [tab EXCEPT ![i].conn = "connecting", ![i].ws = "connecting",
                        ![i].old = (tab[i].ws = "closing")]
  /\ UNCHANGED panelVars

\* onopen: SSH sends the credentials, exec is connected.
WsOpens(i) ==
  /\ tab[i].ws = "connecting"
  /\ tab' = [tab EXCEPT
       ![i].ws = "open",
       ![i].conn = IF tab[i].kind = "exec" THEN "connected" ELSE @,
       ![i].dot = (tab[i].kind = "exec" \/ @)]
  /\ UNCHANGED panelVars

\* auth_ok and auth_fail; after the latter the client closes.
AuthOk(i) ==
  /\ tab[i].kind = "ssh" /\ tab[i].ws = "open" /\ tab[i].conn = "connecting"
  /\ tab' = [tab EXCEPT ![i].conn = "connected", ![i].dot = TRUE, ![i].skew = FALSE]
  /\ UNCHANGED panelVars

AuthFail(i) ==
  /\ tab[i].kind = "ssh" /\ tab[i].ws = "open" /\ tab[i].conn = "connecting"
  /\ tab' = [tab EXCEPT ![i].conn = "error", ![i].ws = "closing"]
  /\ UNCHANGED panelVars

\* The server ends the session, or the connection is lost.
ServerCloses(i) ==
  /\ tab[i].ws = "open"
  /\ tab' = [tab EXCEPT ![i].ws = "closing"]
  /\ UNCHANGED panelVars

\* Faulty variant: the dot stays lit.
SshClosedDotLit(t) ==
  [t EXCEPT !.skew = (@ \/ (t.conn = "connected" /\ ~t.mounted))]

\* onclose of SSH acts if a terminal is mounted (connState is the one of the
\* render in which the form was submitted, never "connected").
SshClosed(t) ==
  [t EXCEPT !.dot = (@ /\ ~t.mounted),
            !.skew = (@ \/ (t.conn = "connected" /\ ~t.mounted))]

\* Faulty variants: exec goes by the mounted terminal too; it says nothing of a
\* connection that never opened.
ExecClosedByMount(t) == [t EXCEPT !.dot = (@ /\ ~t.mounted)]
ExecClosedSilently(t) == [t EXCEPT !.dot = FALSE]

\* onclose of exec goes by connectedOnceRef, true once it was connected.
ExecClosed(t) ==
  [t EXCEPT !.dot = FALSE, !.conn = IF @ = "connected" THEN @ ELSE "error"]
Closed(t) == IF t.kind = "ssh" THEN SshClosed(t) ELSE ExecClosed(t)

CloseEvent(i) ==
  /\ tab[i].ws = "closing"
  /\ tab' = [tab EXCEPT ![i] = [Closed(tab[i]) EXCEPT !.ws = "closed"]]
  /\ UNCHANGED panelVars

\* A connection that fails fires onerror and then onclose, in one task: SSH
\* shows the error whatever came before, exec only before it was connected.
Fail(i) ==
  /\ tab[i].ws \in {"connecting", "open"}
  /\ LET t == Closed(tab[i]) IN
       tab' = [tab EXCEPT ![i] =
         [t EXCEPT !.ws = "closed", !.conn = IF t.kind = "ssh" THEN "error" ELSE @]]
  /\ UNCHANGED panelVars

\* The close event of the socket before the present one: its handler cannot
\* tell and takes a mounted terminal for its own.
OldCloseEvent(i) ==
  /\ tab[i].old
  /\ tab' = [tab EXCEPT ![i].old = FALSE,
       ![i].dot = (@ /\ ~tab[i].mounted),
       ![i].skew = (@ \/ tab[i].mounted)]
  /\ UNCHANGED panelVars
-----------------------------------------------------------------------------
Opened(i) == \E k \in 1 .. Len(tabs): tabs[k] = i

SocketStep(i) ==
  WsOpens(i) \/ AuthOk(i) \/ AuthFail(i) \/ ServerCloses(i) \/ CloseEvent(i)
  \/ Fail(i) \/ OldCloseEvent(i)

Next ==
  \/ Toggle \/ Navigate \/ AddTab \/ OpenExecTab
  \/ \E k \in 1 .. MaxTabs: CloseTab(k)
  \/ \E i \in Ids: Opened(i) /\
       (SelectTab(i) \/ ConnectSsh(i) \/ Render(i) \/ SocketStep(i))

\* React renders; a connection attempt succeeds or fails, the SSH server
\* answers a login or closes, and a close event comes. The user need not act.
Fairness ==
  \A i \in Ids:
    /\ WF_vars(Opened(i) /\ Render(i))
    /\ WF_vars(Opened(i) /\ (WsOpens(i) \/ Fail(i)))
    /\ WF_vars(Opened(i) /\ (AuthOk(i) \/ AuthFail(i) \/ ServerCloses(i)))
    /\ WF_vars(Opened(i) /\ (CloseEvent(i) \/ OldCloseEvent(i)))

Spec == Init /\ [][Next]_vars /\ Fairness
-----------------------------------------------------------------------------
(* Properties. *)

\* There is always a tab, the tab on top is one of them and none is listed
\* twice, whichever is closed (closeTab keeps one and moves the active id).
ActiveTabExists ==
  /\ Opened(activeId)
  /\ \A j, k \in 1 .. Len(tabs): tabs[j] = tabs[k] => j = k

\* The dot of an exec tab is lit exactly while its session is: connected and
\* the close event not handled yet, also when the close comes before the
\* terminal is mounted.
ExecDotTrue ==
  \A i \in Ids: Opened(i) /\ tab[i].kind = "exec" =>
    (tab[i].dot <=> tab[i].ws \in {"open", "closing"})

\* The dot of an SSH tab is right but for two races, both of the handler that
\* goes by the mounted terminal: a close event between auth_ok and the
\* rendering of the terminal, and the late close event of an earlier socket.
SshDotTrueButForRaces ==
  \A i \in Ids: Opened(i) /\ tab[i].kind = "ssh" /\ ~tab[i].skew =>
    (tab[i].dot <=> tab[i].conn = "connected" /\ tab[i].ws \in {"open", "closing"})

\* A new terminal opens where the user can see it, in an expanded panel.
NewTerminalShown ==
  [][nextId' # nextId /\ tab'[nextId].kind = "ssh"
       => termOpen' /\ activeId' = nextId]_vars

\* A shell being opened gets connected or says why not, and a login attempt
\* ends too, unless the server closes without an answer: then the tab waits for
\* ever, since only messages and errors leave "connecting".
ConnectingEnds ==
  \A i \in Ids:
    (Opened(i) /\ tab[i].conn = "connecting") ~>
      \/ ~Opened(i) \/ tab[i].conn # "connecting"
      \/ tab[i].kind = "ssh" /\ tab[i].ws = "closed"

\* "opens an exec tab in this terminal panel, forcing it open if collapsed".
ExecTabShown ==
  [][nextId' # nextId /\ tab'[nextId].kind = "exec" => termOpen']_vars
=============================================================================
