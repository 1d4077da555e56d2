------------------------------- MODULE FanOut -------------------------------
(***************************************************************************)
(* The subscriber list of one capture key in the API server, at the level  *)
(* of Go slices: RegisterSubscriber appends to it and the unsubscribe      *)
(* function shifts it in place and closes the channel, both under the      *)
(* write lock, while publish copies only the slice header under the read   *)
(* lock and reads the backing array, and sends, after releasing it.        *)
(*                                                                         *)
(* Exact-key and wildcard subscribers have a list each, handled by the     *)
(* same code; the model has one.  A channel is registered once: Subs are   *)
(* registrations.                                                          *)
(***************************************************************************)
EXTENDS Naturals, Sequences, FiniteSets

CONSTANTS
  Subs,         \* channels, one per RegisterSubscriber call
  Pubs,         \* StreamPackets handlers that publish under this key
  ChanCap,      \* channel buffer (256 and 512 in the code)
  MaxBatches,   \* bound: batches each handler publishes
  NoSub         \* an array slot never written, and no channel

ASSUME BoundsAssumption == ChanCap \in Nat \ {0} /\ MaxBatches \in Nat
ASSUME NoSubAssumption == NoSub \notin Subs

VARIABLES
  heap,      \* the backing arrays allocated so far, the newest last
  list,      \* the slice s.subs[key]: an array (0: nil) and a length
  writer,    \* the unsubscribe that holds s.mu, or NoSub
  moving,    \* its stores still to do: slot -> value loaded from slot + 1
  subPc,     \* [Subs -> "new", "on" the list, "off" it and closed]
  closed,    \* closed channels
  buf,       \* [Subs -> batches queued in the channel]
  pubPc,     \* [Pubs -> where publish is]
  view,      \* [Pubs -> the slice header copied, and the index reached]
  cur,       \* [Pubs -> the channel read from the array]
  count,     \* [Pubs -> batches published]
  offers,    \* [Pubs -> [Subs -> times this batch was offered]], a history
  members,   \* [Pubs -> subscribers when the header was copied], a history
  crashed    \* a send on a closed channel has panicked

subVars == <<heap, list, writer, moving, subPc, closed>>
pubVars == <<pubPc, view, cur, count, offers, members>>
vars == <<subVars, buf, pubVars, crashed>>

Batches == 1 .. MaxBatches
NilSlice == [arr |-> 0, len |-> 0]
Capacity(sl) == IF sl.arr = 0 THEN 0 ELSE Len(heap[sl.arr])

TypeOK ==
  /\ \A a \in 1 .. Len(heap): heap[a] \in Seq(Subs \cup {NoSub})
  /\ list.arr \in 0 .. Len(heap) /\ list.len \in 0 .. Capacity(list)
  /\ writer \in Subs \cup {NoSub}
  /\ DOMAIN moving \subseteq 1 .. list.len
  /\ subPc \in [Subs -> {"new", "on", "off"}]
  /\ closed \in SUBSET Subs
  /\ \A s \in Subs: Len(buf[s]) <= ChanCap /\ buf[s] \in Seq(Pubs \X Batches)
  /\ pubPc \in [Pubs -> {"idle", "read", "send"}]
  /\ \A p \in Pubs: /\ view[p].arr \in 0 .. Len(heap)
                    /\ view[p].len \in 0 .. Capacity(view[p])
                    /\ view[p].next \in 1 .. view[p].len + 1
                    /\ pubPc[p] = "send" => cur[p] \in Subs
  /\ count \in [Pubs -> 0 .. MaxBatches]
  /\ crashed \in BOOLEAN

Init ==
  /\ heap = <<>> /\ list = NilSlice
  /\ writer = NoSub /\ moving = <<>>
  /\ subPc = [s \in Subs |-> "new"] /\ closed = {}
  /\ buf = [s \in Subs |-> <<>>]
  /\ pubPc = [p \in Pubs |-> "idle"]
  /\ view = [p \in Pubs |-> [arr |-> 0, len |-> 0, next |-> 1]]
  /\ cur = [p \in Pubs |-> NoSub]
  /\ count = [p \in Pubs |-> 0]
  /\ offers = [p \in Pubs |-> [s \in Subs |-> 0]]
  /\ members = [p \in Pubs |-> {}]
  /\ crashed = FALSE
-----------------------------------------------------------------------------
(* Registration and its end. *)

\* append: in place while the capacity lasts, else into an array twice as big.
Grown(sl, s) ==
  LET n == IF sl.arr = 0 THEN 1 ELSE 2 * Capacity(sl)
  IN [j \in 1 .. n |-> IF j <= sl.len THEN heap[sl.arr][j]
                       ELSE IF j = sl.len + 1 THEN s ELSE NoSub]

Register(s) ==
  /\ subPc[s] = "new" /\ writer = NoSub
  /\ subPc' = [subPc EXCEPT ![s] = "on"]
  /\ \/ /\ list.len < Capacity(list)
        /\ heap' = [heap EXCEPT ![list.arr][list.len + 1] = s]
        /\ list' = [list EXCEPT !.len = @ + 1]
     \/ /\ list.len = Capacity(list)
        /\ heap' = Append(heap, Grown(list, s))
        /\ list' = [arr |-> Len(heap) + 1, len |-> list.len + 1]
  /\ UNCHANGED <<writer, moving, closed, buf, pubVars>>

\* Faulty variant: the move starts one slot too far.
StartUnsubOffByOne(s) ==
  /\ subPc[s] = "on" /\ writer = NoSub
  /\ writer' = s
  /\ \E i \in 1 .. list.len:
       /\ heap[list.arr][i] = s
       /\ moving' = [j \in i + 1 .. list.len - 1 |-> heap[list.arr][j + 1]]
  /\ UNCHANGED <<heap, list, subPc, closed, buf, pubVars>>

\* The unsubscribe function takes the lock, finds its channel at slot i and
\* loads what append(list[:i], list[i+1:]...) moves down by one.
StartUnsub(s) ==
  /\ subPc[s] = "on" /\ writer = NoSub
  /\ writer' = s
  /\ \E i \in 1 .. list.len:
       /\ heap[list.arr][i] = s
       /\ moving' = [j \in i .. list.len - 1 |-> heap[list.arr][j + 1]]
  /\ UNCHANGED <<heap, list, subPc, closed, buf, pubVars>>

\* One store of the move; a racing reader may see them in any order.
MoveSlot(s, j) ==
  /\ writer = s
  /\ j \in DOMAIN moving
  /\ heap' = [heap EXCEPT ![list.arr][j] = moving[j]]
  /\ moving' = [k \in DOMAIN moving \ {j} |-> moving[k]]
  /\ UNCHANGED <<list, writer, subPc, closed, buf, pubVars>>

\* The shortened slice is stored, the channel closed, the lock released.
EndUnsub(s) ==
  /\ writer = s
  /\ DOMAIN moving = {}
  /\ list' = [list EXCEPT !.len = @ - 1]
  /\ closed' = closed \cup {s}
  /\ subPc' = [subPc EXCEPT ![s] = "off"]
  /\ writer' = NoSub
  /\ UNCHANGED <<heap, moving, buf, pubVars>>

\* The subscriber's handler takes a batch from its channel.
Receive(s) ==
  /\ subPc[s] = "on" /\ buf[s] # <<>>
  /\ buf' = [buf EXCEPT ![s] = Tail(@)]
  /\ UNCHANGED <<subVars, pubVars>>
-----------------------------------------------------------------------------
(* publish. *)

\* Faulty variant: the loop skips the first element.
CopyHeaderSkipFirst(p) ==
  /\ pubPc[p] = "idle" /\ writer = NoSub
  /\ count[p] < MaxBatches
  /\ count' = [count EXCEPT ![p] = @ + 1]
  /\ pubPc' = [pubPc EXCEPT ![p] = "read"]
  /\ view' = [view EXCEPT ![p] = [arr |-> list.arr, len |-> list.len, next |-> 2]]
  /\ offers' = [offers EXCEPT ![p] = [s \in Subs |-> 0]]
  /\ members' = [members EXCEPT ![p] = {s \in Subs: subPc[s] = "on"}]
  /\ UNCHANGED <<subVars, buf, cur>>

\* Copy the slice header under the read lock.
CopyHeader(p) ==
  /\ pubPc[p] = "idle" /\ writer = NoSub
  /\ count[p] < MaxBatches
  /\ count' = [count EXCEPT ![p] = @ + 1]
  /\ pubPc' = [pubPc EXCEPT ![p] = "read"]
  /\ view' = [view EXCEPT ![p] = [arr |-> list.arr, len |-> list.len, next |-> 1]]
  /\ offers' = [offers EXCEPT ![p] = [s \in Subs |-> 0]]
  /\ members' = [members EXCEPT ![p] = {s \in Subs: subPc[s] = "on"}]
  /\ UNCHANGED <<subVars, buf, cur>>

\* range reads the next element from the array, without the lock.
ReadSlot(p) ==
  /\ pubPc[p] = "read" /\ view[p].next <= view[p].len
  /\ cur' = [cur EXCEPT ![p] = heap[view[p].arr][view[p].next]]
  /\ pubPc' = [pubPc EXCEPT ![p] = "send"]
  /\ UNCHANGED <<subVars, buf, view, count, offers, members>>

Offered(p) ==
  /\ offers' = [offers EXCEPT ![p][cur[p]] = @ + 1]
  /\ view' = [view EXCEPT ![p].next = @ + 1]
  /\ pubPc' = [pubPc EXCEPT ![p] = "read"]
  /\ UNCHANGED <<subVars, cur, count, members>>

\* Faulty variant: a plain send, which waits for room.
SendBlocking(p) ==
  /\ pubPc[p] = "send" /\ cur[p] \notin closed
  /\ Len(buf[cur[p]]) < ChanCap
  /\ Offered(p)
  /\ buf' = [buf EXCEPT ![cur[p]] = Append(@, <<p, count[p]>>)]

\* select { case sub <- pkts: default: }: queue the batch or drop it.
Send(p) ==
  /\ pubPc[p] = "send" /\ cur[p] \notin closed
  /\ Offered(p)
  /\ buf' = IF Len(buf[cur[p]]) < ChanCap
            THEN [buf EXCEPT ![cur[p]] = Append(@, <<p, count[p]>>)] ELSE buf

\* A send on a closed channel panics, in a select with a default as well; no
\* handler of the gRPC server recovers, so the process is gone.
SendOnClosed(p) ==
  /\ pubPc[p] = "send" /\ cur[p] \in closed
  /\ crashed' = TRUE
  /\ UNCHANGED <<subVars, buf, pubVars>>

\* The loop is over; statistics and the packet ring are modelled elsewhere.
EndPublish(p) ==
  /\ pubPc[p] = "read" /\ view[p].next > view[p].len
  /\ pubPc' = [pubPc EXCEPT ![p] = "idle"]
  /\ UNCHANGED <<subVars, buf, view, cur, count, offers, members>>
-----------------------------------------------------------------------------
PublishLoop(p) == ReadSlot(p) \/ Send(p) \/ EndPublish(p)

Critical(s) == (\E j \in 1 .. list.len: MoveSlot(s, j)) \/ EndUnsub(s)

Alive(A) == ~crashed /\ A /\ UNCHANGED crashed

Next ==
  \/ \E s \in Subs: Alive(Register(s) \/ StartUnsub(s) \/ Critical(s) \/ Receive(s))
  \/ \E p \in Pubs: Alive(CopyHeader(p) \/ PublishLoop(p))
  \/ \E p \in Pubs: ~crashed /\ SendOnClosed(p)

\* publish and the critical section are scheduled; whether subscribers read
\* their channels is not assumed.
Fairness ==
  /\ \A p \in Pubs: WF_vars(Alive(PublishLoop(p)) \/ (~crashed /\ SendOnClosed(p)))
  /\ \A s \in Subs: WF_vars(Alive(Critical(s)))

Spec == Init /\ [][Next]_vars /\ Fairness

\* A restricted environment, which shows what the divergences rest on: nobody
\* begins to leave while a batch is being published.
OrderlyNext ==
  /\ Next
  /\ writer = NoSub /\ writer' # NoSub => \A p \in Pubs: pubPc[p] = "idle"
OrderlySpec == Init /\ [][OrderlyNext]_vars
-----------------------------------------------------------------------------
(* Properties. *)

Registered == {s \in Subs: subPc[s] = "on"}
Elements == {heap[list.arr][i]: i \in 1 .. list.len}

\* Whoever may take the lock finds every registered channel in the list once
\* and no other: shifting in place and appending over the vacated slot keep it
\* exact, over any sequence of registrations and their ends.
ListExact ==
  writer = NoSub =>
    /\ Elements = Registered
    /\ Cardinality(Registered) = list.len
    /\ Registered \cap closed = {}

\* While no unsubscribe overlaps a publish, the publish offers its batch to
\* each of the subscribers it started with exactly once, also when others
\* register meanwhile, in place or into a new array.
UndisturbedOffersOnce ==
  \A p \in Pubs:
    pubPc[p] = "read" /\ view[p].next > view[p].len /\ members[p] \subseteq Registered
      /\ writer = NoSub =>
      \A s \in Subs: offers[p][s] = IF s \in members[p] THEN 1 ELSE 0

\* A subscriber that stops reading delays no publish: the sends never block.
PublishEnds == \A p \in Pubs: pubPc[p] # "idle" ~> (pubPc[p] = "idle" \/ crashed)

\* "publish sends a packet batch to exact-key subscribers AND wildcard
\* subscribers": one that is subscribed from before the publish until after it
\* is offered the batch exactly once.
SubscribersOfferedOnce ==
  \A p \in Pubs:
    pubPc[p] = "read" /\ view[p].next > view[p].len =>
      \A s \in members[p] \cap Registered: offers[p][s] = 1

\* Ending a subscription while batches arrive does not bring the server down.
NeverPanics == ~crashed
=============================================================================
