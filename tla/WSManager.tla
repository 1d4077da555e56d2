------------------------------ MODULE WSManager ------------------------------
(***************************************************************************)
(* The reconnecting WebSocket of the frontend: the class WSManager as      *)
(* functions from the state of one manager to the next. A browser delivers *)
(* neither an open nor a message event once close() was called, but the    *)
(* close event always comes.                                               *)
(***************************************************************************)
EXTENDS Naturals

CONSTANT MaxBackoff  \* maxBackoffMs over the first delay, 30 in the code

ASSUME BackoffAssumption == MaxBackoff \in Nat \ {0}

\* _closed; readyState, "closed" once the close event was handled; whether
\* reconnectTimer is pending; backoffMs, in units of the first delay.
Manager == [closed: BOOLEAN, sock: {"connecting", "open", "closing", "closed"},
            timer: BOOLEAN, backoff: 1 .. MaxBackoff]

\* new WSManager(url) and connect().
Connecting == [closed |-> FALSE, sock |-> "connecting", timer |-> FALSE, backoff |-> 1]

\* connect(). The WebSocket constructor throws only for a URL that is none, and
\* the URLs are made from the page's own, so the catch branch is left out.
Connect(m) == IF m.closed THEN m ELSE [m EXCEPT !.sock = "connecting"]

OnOpen(m) == [m EXCEPT !.sock = "open", !.backoff = 1]

\* Faulty variant: no reconnection.
OnCloseGivesUp(m) == [m EXCEPT !.sock = "closed"]

\* onclose, also after an error: wait for the next attempt unless closed.
OnClose(m) == [m EXCEPT !.sock = "closed", !.timer = ~m.closed]

\* Faulty variant: the delay has no limit.
DoubledUncapped(b) == 2 * b

\* The next delay.
Doubled(b) == IF 2 * b <= MaxBackoff THEN 2 * b ELSE MaxBackoff

OnTimer(m) == Connect([m EXCEPT !.timer = FALSE, !.backoff = Doubled(m.backoff)])

\* close().
Close(m) == [m EXCEPT !.closed = TRUE, !.timer = FALSE,
                      !.sock = IF @ = "closed" THEN @ ELSE "closing"]
=============================================================================
