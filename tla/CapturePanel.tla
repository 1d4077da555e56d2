----------------------------- MODULE CapturePanel -----------------------------
(***************************************************************************)
(* One capture tab in the browser: CaptureTabPanel with its WebSocket, its *)
(* ring of frames, pause, resume and clear, and the DecodePanel of the     *)
(* selected frame with its request for a decode. Event handlers run one    *)
(* after the other; what interleaves is the order in which the socket, the *)
(* answers, the timer and the user call them. A frame is its position in   *)
(* Wire, what the server sends, with the number the panel gave it.         *)
(***************************************************************************)
EXTENDS Naturals, Sequences, FiniteSets, FiniteSetsExt, PacketLayers

CONSTANTS
  Wire,       \* the frames the server sends: [ts, proto, http, raw, hit] each
  RingMax,    \* RING_MAX, 10000 in the code
  MaxBatch,   \* frames per WebSocket message
  Filters,    \* the buttons of the filter bar the user presses
  FrameBytes, \* the length of a frame
  MaxFetches, \* decode requests under way at once, a bound on the user's haste
  Second,     \* time units per second
  Day         \* and per day

ASSUME RingAssumption == RingMax \in Nat \ {0}
\* http: not of the protocol HTTP, but SSDP or with HTTP/1.x in its text.
WireFrame ==
  [ts: Nat \ {0}, proto: Protocols, http: BOOLEAN, raw: BOOLEAN, hit: BOOLEAN]
ASSUME WireAssumption == Wire \in Seq(WireFrame)
ASSUME TimeAssumption ==
  Second \in Nat \ {0} /\ Day \in Nat \ {0} /\ Day % Second = 0
ASSUME UserAssumption == MaxBatch \in Nat /\ "All" \in Filters

VARIABLES
  sock,       \* ws.readyState; "closed" once the close event was handled
  status,     \* the status badge
  paused,     \* pausedRef and the state that mirrors it
  packets,    \* the frames in the table
  buffer,     \* bufferRef: frames held back while paused
  counter,    \* counterRef: the number given last
  got,        \* frames received since the tab was opened, a history
  captureTs,  \* time of the first frame since the last clear, 0 before
  filter,     \* protoFilter
  search,     \* whether the search box holds a text (the one "hit" is about)
  empty,      \* emptyState: starting, waiting or active
  selectedNo, \* number of the selected frame, 0 for null
  clicked,    \* the frame of Wire that was clicked, a history
  fetches,    \* decode requests under way: [ts, cancelled]
  loading,    \* DecodePanel's spinner
  decodeData, \* its answer: the time asked for, and of which frame it is
  highlight   \* the frame a byte range is marked of, 0 for null

connVars == <<sock, status>>
frameVars == <<packets, buffer, counter, got, captureTs>>
viewVars == <<filter, search>>
selVars == <<selectedNo, clicked>>
decodeVars == <<fetches, loading, decodeData, highlight>>
vars == <<connVars, paused, frameVars, viewVars, empty, selVars, decodeVars>>

Uids == 1 .. Len(Wire)
Frame == [no: Nat, uid: Uids]
NoDecode == [ts |-> 0, kind |-> "none", of |-> 0]
Times == {Wire[u].ts: u \in Uids}
At(ts) == {u \in Uids: Wire[u].ts = ts}
Decodes ==
  [ts: Times, kind: {"sharkd", "basic"}, of: Uids \cup {0}] \cup {NoDecode}

TypeOK ==
  /\ sock \in {"connecting", "open", "closing", "closed"}
  /\ status \in {"connecting", "live", "paused", "stopped"}
  /\ paused \in BOOLEAN
  /\ packets \in Seq(Frame) /\ Len(packets) <= RingMax
  /\ buffer \in Seq(Frame) /\ Len(buffer) <= RingMax
  /\ counter \in Nat /\ got \in 0 .. Len(Wire) /\ counter <= got
  /\ captureTs \in Times \cup {0}
  /\ filter \in Filters /\ search \in BOOLEAN
  /\ empty \in {"starting", "waiting", "active"}
  /\ selectedNo \in Nat /\ clicked \in Uids \cup {0}
  /\ fetches \subseteq [ts: Times, cancelled: BOOLEAN]
  /\ loading \in BOOLEAN
  /\ decodeData \in Decodes
  /\ highlight \in Uids \cup {0}

\* The last n elements of s: slice(-n).
LastOf(n, s) == SubSeq(s, IF Len(s) > n THEN Len(s) - n + 1 ELSE 1, Len(s))

Selected(pkts, no) == {i \in 1 .. Len(pkts): no # 0 /\ pkts[i].no = no}
TsOf(pkts, no) ==
  IF Selected(pkts, no) = {} THEN 0
  ELSE Wire[pkts[CHOOSE i \in Selected(pkts, no): TRUE].uid].ts

\* Mounting starts the socket's life; the first render has nothing to show.
Init ==
  /\ sock = "connecting" /\ status = "connecting"
  /\ paused = FALSE
  /\ packets = <<>> /\ buffer = <<>> /\ counter = 0 /\ got = 0 /\ captureTs = 0
  /\ filter = "All" /\ search = FALSE
  /\ empty = "starting"
  /\ selectedNo = 0 /\ clicked = 0
  /\ fetches = {} /\ loading = FALSE
  /\ decodeData = NoDecode /\ highlight = 0
-----------------------------------------------------------------------------
(* DecodePanel follows the selected frame: it is there while a frame of the *)
(* table has the selected number, and asks for a decode when the frame's    *)
(* time changes, after cancelling the request before. It knows frames by    *)
(* their time only: from one to another of the same time nothing changes.   *)

CancelFetches == {[f EXCEPT !.cancelled = TRUE]: f \in fetches}

\* Faulty variant: the effect's cleanup does not cancel the request.
FollowUncancelled ==
  LET before == TsOf(packets, selectedNo)
      after  == TsOf(packets', selectedNo')
  IN  \/ /\ after = before
         /\ UNCHANGED decodeVars
      \/ /\ after # before /\ after = 0
         /\ UNCHANGED fetches
         /\ loading' = FALSE /\ decodeData' = NoDecode /\ highlight' = 0
      \/ /\ after # before /\ after # 0
         /\ Cardinality(fetches) < MaxFetches
         /\ fetches' = fetches \cup {[ts |-> after, cancelled |-> FALSE]}
         /\ loading' = TRUE /\ decodeData' = NoDecode /\ highlight' = 0

Follow ==
  LET before == TsOf(packets, selectedNo)
      after  == TsOf(packets', selectedNo')
  IN  \/ /\ after = before
         /\ UNCHANGED decodeVars
      \/ /\ after # before /\ after = 0
         /\ fetches' = CancelFetches
         /\ loading' = FALSE /\ decodeData' = NoDecode /\ highlight' = 0
      \/ /\ after # before /\ after # 0
         /\ Cardinality(fetches) < MaxFetches
         /\ fetches' = CancelFetches \cup {[ts |-> after, cancelled |-> FALSE]}
         /\ loading' = TRUE /\ decodeData' = NoDecode /\ highlight' = 0

-----------------------------------------------------------------------------
(* The socket. *)

\* onopen, whether or not the user has paused meanwhile.
Open ==
  /\ sock = "connecting"
  /\ sock' = "open" /\ status' = "live"
  /\ UNCHANGED <<paused, frameVars, viewVars, empty, selVars, decodeVars>>

Batch(k) == [i \in 1 .. k |-> [no |-> counter + i, uid |-> got + i]]

\* Faulty variant: the numbers of a paused batch are not counted.
ReceiveUncounted(k) ==
  /\ sock = "open"
  /\ got + k <= Len(Wire)
  /\ counter' = (IF paused THEN counter ELSE counter + k) /\ got' = got + k
  /\ captureTs' = IF captureTs = 0 THEN Wire[got + 1].ts ELSE captureTs
  /\ empty' = IF \E u \in got + 1 .. got + k: ~Wire[u].raw THEN "active" ELSE empty
  /\ packets' = IF paused THEN packets ELSE LastOf(RingMax, packets \o Batch(k))
  /\ buffer'  = IF paused THEN LastOf(RingMax, buffer \o Batch(k)) ELSE buffer
  /\ UNCHANGED <<connVars, paused, viewVars, selVars>>
  /\ Follow

\* onmessage: number the frames of the batch, leave the empty state when one
\* of them is decoded, and append them to the table or, paused, to the buffer.
Receive(k) ==
  /\ sock = "open"
  /\ got + k <= Len(Wire)
  /\ counter' = counter + k /\ got' = got + k
  /\ captureTs' = IF captureTs = 0 THEN Wire[got + 1].ts ELSE captureTs
  /\ empty' = IF \E u \in got + 1 .. got + k: ~Wire[u].raw THEN "active" ELSE empty
  /\ packets' = IF paused THEN packets ELSE LastOf(RingMax, packets \o Batch(k))
  /\ buffer'  = IF paused THEN LastOf(RingMax, buffer \o Batch(k)) ELSE buffer
  /\ UNCHANGED <<connVars, paused, viewVars, selVars>>
  /\ Follow

\* The server has started the closing handshake: no more messages.
ServerCloses ==
  /\ sock = "open"
  /\ sock' = "closing"
  /\ UNCHANGED <<status, paused, frameVars, viewVars, empty, selVars, decodeVars>>

\* onclose alone, after a clean close.
CloseEvent ==
  /\ sock = "closing"
  /\ sock' = "closed"
  /\ status' = IF status = "paused" THEN "paused" ELSE "stopped"
  /\ UNCHANGED <<paused, frameVars, viewVars, empty, selVars, decodeVars>>

\* A failed connection fires onerror and onclose in one task: "error" replaces
\* "paused" too, and is itself replaced by "stopped" before it is rendered.
Fail ==
  /\ sock # "closed"
  /\ sock' = "closed" /\ status' = "stopped"
  /\ UNCHANGED <<paused, frameVars, viewVars, empty, selVars, decodeVars>>
-----------------------------------------------------------------------------
(* The controls. *)

Pause ==
  /\ ~paused
  /\ paused' = TRUE /\ status' = "paused"
  /\ UNCHANGED <<sock, frameVars, viewVars, empty, selVars, decodeVars>>

\* Faulty variant: the badge is live again whatever became of the socket.
ResumeLive ==
  /\ paused
  /\ paused' = FALSE
  /\ packets' = LastOf(RingMax, packets \o buffer) /\ buffer' = <<>>
  /\ status' = "live"
  /\ UNCHANGED <<sock, counter, got, captureTs, viewVars, empty, selVars>>
  /\ Follow

\* The frames held back follow those of the table, oldest dropped first.
Resume ==
  /\ paused
  /\ paused' = FALSE
  /\ packets' = LastOf(RingMax, packets \o buffer) /\ buffer' = <<>>
  /\ status' = IF sock = "open" THEN "live" ELSE "stopped"
  /\ UNCHANGED <<sock, counter, got, captureTs, viewVars, empty, selVars>>
  /\ Follow

\* Numbers start again at 1, so the selection by number must go as well. The
\* message to the server is only logged there.
Clear ==
  /\ packets' = <<>> /\ buffer' = <<>> /\ counter' = 0 /\ captureTs' = 0
  /\ selectedNo' = 0 /\ clicked' = 0
  /\ UNCHANGED <<connVars, paused, got, viewVars, empty>>
  /\ Follow

\* Rows of the table, by their frames' places: decoded frames that match the
\* filter and the search.
Visible(p) ==
  LET w == Wire[p.uid]
  IN  /\ ~w.raw
      /\ filter \in {"All", w.proto} \/ (filter = "HTTP" /\ w.http)
      /\ search => w.hit
Displayed == {i \in 1 .. Len(packets): Visible(packets[i])}

\* What stands in place of rows: "active" stands for "no packets match".
EmptyShown == IF Displayed = {} THEN empty ELSE "rows"

\* A click on a row, one of the frames displayed, selects it or deselects it.
Click(i) ==
  /\ i \in Displayed
  /\ LET p == packets[i] IN
       \/ /\ selectedNo = p.no
          /\ selectedNo' = 0 /\ clicked' = 0
       \/ /\ selectedNo # p.no
          /\ selectedNo' = p.no /\ clicked' = p.uid
  /\ UNCHANGED <<connVars, paused, frameVars, viewVars, empty>>
  /\ Follow

\* The cross of the decode panel, there while the selected frame is.
CloseDecode ==
  /\ Selected(packets, selectedNo) # {}
  /\ selectedNo' = 0 /\ clicked' = 0
  /\ UNCHANGED <<connVars, paused, frameVars, viewVars, empty>>
  /\ Follow

SetFilter(f) ==
  /\ filter' = f
  /\ UNCHANGED <<connVars, paused, frameVars, search, empty, selVars, decodeVars>>

ToggleSearch ==
  /\ search' = ~search
  /\ UNCHANGED <<connVars, paused, frameVars, filter, empty, selVars, decodeVars>>

\* Three seconds without a decoded frame.
Timer ==
  /\ empty = "starting"
  /\ empty' = "waiting"
  /\ UNCHANGED <<connVars, paused, frameVars, viewVars, selVars, decodeVars>>
-----------------------------------------------------------------------------
(* DecodePanel. *)

\* The server's answer to a time: sharkd's tree, or {sharkd: false}, both of the
\* newest frame of that time it has stored - which may have come after the one
\* that was clicked - or {sharkd: false} without bytes when it has none.
Answer(f, kind, u) ==
  /\ f \in fetches
  /\ u \in At(f.ts) \/ (kind = "basic" /\ u = 0)
  /\ fetches' = fetches \ {f}
  /\ \/ /\ f.cancelled
        /\ UNCHANGED <<loading, decodeData>>
     \/ /\ ~f.cancelled
        /\ loading' = FALSE /\ decodeData' = [ts |-> f.ts, kind |-> kind, of |-> u]
  /\ UNCHANGED <<connVars, paused, frameVars, viewVars, empty, selVars, highlight>>

\* Faulty variant: a failure leaves the spinner on.
FetchFailsSilently(f) ==
  /\ f \in fetches
  /\ fetches' = fetches \ {f}
  /\ UNCHANGED <<connVars, paused, frameVars, viewVars, empty, selVars,
                 loading, decodeData, highlight>>

\* No answer, or none that parses.
FetchFails(f) ==
  /\ f \in fetches
  /\ fetches' = fetches \ {f}
  /\ loading' = (loading /\ f.cancelled)
  /\ UNCHANGED <<connVars, paused, frameVars, viewVars, empty, selVars,
                 decodeData, highlight>>

\* What the panel shows beside the hex dump: sharkd's tree, or without one the
\* fields parsed from tshark's text (DecodeTree).
TreeShown ==
  IF loading THEN "spinner" ELSE IF decodeData.kind = "sharkd" THEN "sharkd" ELSE "fields"

\* A click on a node of sharkd's tree that has a byte range.
Highlight ==
  /\ TreeShown = "sharkd"
  /\ highlight' = decodeData.of
  /\ UNCHANGED <<connVars, paused, frameVars, viewVars, empty, selVars,
                 fetches, loading, decodeData>>
-----------------------------------------------------------------------------
SocketStep ==
  \/ Open \/ ServerCloses \/ CloseEvent \/ Fail
  \/ \E k \in 1 .. MaxBatch: Receive(k)

UserStep ==
  \/ Pause \/ Resume \/ Clear \/ CloseDecode \/ Highlight
  \/ \E i \in 1 .. RingMax: Click(i)
  \/ \E f \in Filters: SetFilter(f)
  \/ ToggleSearch

AnswerStep(f) ==
  \/ \E kind \in {"sharkd", "basic"}, u \in Uids \cup {0}: Answer(f, kind, u)
  \/ FetchFails(f)

Next ==
  \/ SocketStep \/ UserStep \/ Timer
  \/ \E f \in fetches: AnswerStep(f)

\* Timers fire and every request is answered or fails; the rest is up to the
\* server and the user.
Fairness ==
  /\ WF_vars(Timer)
  /\ \A f \in [ts: Times, cancelled: BOOLEAN]: WF_vars(AnswerStep(f))

Spec == Init /\ [][Next]_vars /\ Fairness
-----------------------------------------------------------------------------
(* The range offered for export, and the bytes of the hex dump. *)

\* The times of a row, of the first and of the last.
Ts(i) == Wire[packets[i].uid].ts
FirstTs == Ts(Min(Displayed))
LastTs == Ts(Max(Displayed))

\* HH:MM:SS of a time (fmtAbsTime), and back with the date of another time
\* (timeInputToNs).
SecondOf(ts) == (ts % Day) \div Second
InputToNs(hms, ref) == (ref \div Day) * Day + hms * Second

\* Faulty variant: the end, too, taken from the first row.
RangeEndOfFirst == InputToNs(SecondOf(FirstTs), FirstTs)
RangeStart == InputToNs(SecondOf(FirstTs), FirstTs)
RangeEnd == InputToNs(SecondOf(LastTs), FirstTs)

\* A row lies in the range, but for the fraction of a second that a time input
\* cannot express.
InRange(i) == RangeStart <= Ts(i) /\ Ts(i) < RangeEnd + Second

\* hexStr: sharkd's bytes are base64, those of the fallbacks (the server's
\* hex.EncodeToString, or rawHex of the frame) hex digits.
HexEncoding == IF decodeData.kind = "sharkd" THEN "base64" ELSE "hex"
-----------------------------------------------------------------------------
(* Properties. *)

\* Pausing, resuming and clearing in any order between batches lose, repeat or
\* renumber no frame: the table followed by the buffer is, as far as the ring
\* reaches, exactly the frames received since the last clear, numbered from 1
\* in the order of arrival (onmessage, handleResume, handleClear).
NothingLost ==
  LastOf(RingMax, packets \o buffer) =
    LastOf(RingMax, [i \in 1 .. counter |-> [no |-> i, uid |-> got - counter + i]])

\* The decode panel is about the frame the user clicked, although numbers are
\* given out again after a clear, frames leave the ring under the panel and
\* answers come late: the row is that frame's, and the decode and the marked
\* bytes are its own or of a frame captured at the very same time, which the
\* page and the server do not tell from it (DecodeOfClicked is what fails). A
\* frame that is alone at its time is shown with its own decode.
PanelShowsClicked ==
  /\ \A i \in Selected(packets, selectedNo): packets[i].uid = clicked
  /\ LET ts == TsOf(packets, selectedNo) IN
       /\ decodeData.ts \in {0, ts}
       /\ loading <=> \E f \in fetches: ~f.cancelled
       /\ loading => [ts |-> ts, cancelled |-> FALSE] \in fetches
  /\ decodeData.of # 0 =>
       /\ clicked # 0 /\ Wire[decodeData.of].ts = Wire[clicked].ts
       /\ At(Wire[clicked].ts) = {clicked} => decodeData.of = clicked
  /\ highlight \in {0, decodeData.of}

\* "Fetch sharkd decode whenever the selected packet (by ts) changes": the
\* decode shown is of the packet selected.
DecodeOfClicked == decodeData.of \in {0, clicked}

\* The badge does not promise what the socket cannot keep: live only on an
\* open connection, paused only when paused, and after the close only stopped
\* or paused, in whatever order pause, resume and the socket's events come.
StatusTrue ==
  /\ status = "live" => sock \in {"open", "closing"}
  /\ status = "paused" => paused
  /\ sock = "open" => status \in {"live", "paused"}
  /\ sock = "closed" => status \in {"stopped", "paused"}

\* The rows are in the order of their times, as the code takes for granted when
\* it offers the times of the first and the last.
Ordered == \A i, j \in Displayed: i <= j => Ts(i) <= Ts(j)

\* Every row lies in the range that is exported by default, whatever is
\* filtered and searched for, while the rows are of one day of UTC (derivedFrom,
\* derivedTo, timeInputToNs). Both ends get the date of the first row, so past
\* midnight it does not hold; see RangeCoversNight.
RangeCovers ==
  Displayed # {} /\ Ordered /\ FirstTs \div Day = LastTs \div Day =>
    \A i \in Displayed: InRange(i)

\* "Export range": the same, whatever the days of the rows.
RangeCoversNight == Displayed # {} /\ Ordered => \A i \in Displayed: InRange(i)

\* Whatever fields tshark's text yields for a frame of the table, DecodeTree
\* shows each of them in exactly one layer, and no layer twice ("to avoid
\* rendering a duplicate layer"). One field falls through: PFCP's sequence
\* number has a TCP key, and PFCP has no TCP layer.
FieldsShownOnce ==
  \A i \in 1 .. Len(packets): ShownOnce(Wire[packets[i].uid].proto)

\* Neither spinner turns for ever: the decode panel stops fetching for a frame
\* that stays selected, and the empty table stops starting, also when a request
\* fails and when nothing is ever captured.
SpinnersEnd ==
  /\ \A t \in Times: []<>~(TreeShown = "spinner" /\ TsOf(packets, selectedNo) = t)
  /\ EmptyShown = "starting" ~> EmptyShown # "starting"

\* "so frontend can still show the hex dump": the bytes shown for the selected
\* frame are as many as it has. FrameBytes stands for any length; base64 comes
\* from sharkd, hex from its fallbacks.
DumpShowsFrame ==
  decodeData.kind # "none" => DumpedBytes(HexEncoding, FrameBytes) = FrameBytes
=============================================================================
