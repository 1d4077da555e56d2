------------------------------- MODULE PktRing -------------------------------
(***************************************************************************)
(* The fixed-capacity packet rings: pktRingBuf of the API server, which    *)
(* answers decode and export queries, and RingBuffer of the agent.  Both   *)
(* keep entries, head and size and push in the same way; each operation    *)
(* holds the ring's lock throughout.                                       *)
(***************************************************************************)
EXTENDS Integers, Sequences

CONSTANTS
  Capacity,     \* 10 000 in the server, 5 000 in the agent
  TimeStamps,   \* packet timestamps; they need not come in order
  Payloads,     \* the rest of a packet
  NoEntry       \* what an unwritten slot holds, and an unsuccessful lookup

ASSUME CapacityAssumption == Capacity \in Nat \ {0}
ASSUME TimeAssumption == TimeStamps \subseteq Int

Entry == [ts: TimeStamps, raw: Payloads]

ASSUME NoEntryAssumption == NoEntry \notin Entry

VARIABLES entries, head, size
vars == <<entries, head, size>>

Slots == 0 .. Capacity - 1

TypeOK ==
  /\ entries \in [Slots -> Entry \cup {NoEntry}]
  /\ head \in Slots
  /\ size \in 0 .. Capacity

Init ==
  /\ entries = [i \in Slots |-> NoEntry]
  /\ head = 0
  /\ size = 0

\* Faulty variant: a full ring starts over.
PushRestart(e) ==
  /\ entries' = [entries EXCEPT ![head] = e]
  /\ head' = (head + 1) % Capacity
  /\ size' = IF size < Capacity THEN size + 1 ELSE 1

Push(e) ==
  /\ entries' = [entries EXCEPT ![head] = e]
  /\ head' = (head + 1) % Capacity
  /\ size' = IF size < Capacity THEN size + 1 ELSE size

Next == \E e \in Entry: Push(e)

Spec == Init /\ [][Next]_vars
-----------------------------------------------------------------------------
(* Lookups of the server's ring. *)

\* The slot of the entry pushed i pushes before the newest.
SlotBack(i) == (head - 1 - i + Capacity) % Capacity

\* Faulty variant: the scan starts at the oldest entry.
GetByTsOldest(t) ==
  LET hits == {i \in 0 .. size - 1: entries[SlotBack(i)].ts = t}
  IN IF hits = {} THEN NoEntry
     ELSE entries[SlotBack(CHOOSE i \in hits: \A j \in hits: j <= i)]

\* getByTs scans from the newest entry back and takes the first match.
GetByTs(t) ==
  LET hits == {i \in 0 .. size - 1: entries[SlotBack(i)].ts = t}
  IN IF hits = {} THEN NoEntry
     ELSE entries[SlotBack(CHOOSE i \in hits: \A j \in hits: i <= j)]

\* The entries the loops of getAfterTs and getInRange select, counted back.
Within(first, last) ==
  {i \in 0 .. size - 1: /\ entries[SlotBack(i)].ts >= first
                        /\ entries[SlotBack(i)].ts <= last}

Since(cutoff) == {i \in 0 .. size - 1: entries[SlotBack(i)].ts >= cutoff}

\* The loops run from i = size - 1 down to 0 and append what qualifies: out[n]
\* is their result after n turns.
Scan(hits) ==
  LET out[n \in 0 .. size] ==
        IF n = 0 THEN <<>>
        ELSE IF size - n \in hits THEN Append(out[n - 1], entries[SlotBack(size - n)])
        ELSE out[n - 1]
  IN out[size]

\* Faulty variant: the bound itself is left out.
GetAfterTsStrict(cutoff) ==
  Scan({i \in Since(cutoff): entries[SlotBack(i)].ts # cutoff})

GetAfterTs(cutoff) == Scan(Since(cutoff))

GetInRange(first, last) == Scan(Within(first, last))

\* Snapshot of the agent's ring: one copy, or two around the wrap.
Piece(from, to) == [i \in 1 .. to - from |-> entries[from + i - 1]]

Snapshot ==
  IF size < Capacity THEN Piece(0, size)
  ELSE Piece(head, Capacity) \o Piece(0, head)
-----------------------------------------------------------------------------
(* Properties. *)

\* The ring's contents, oldest first.
Contents == [i \in 1 .. size |-> entries[SlotBack(size - i)]]

Ideal == INSTANCE LastN WITH N <- Capacity, queue <- Contents

\* A ring of head and size implements the queue of the last Capacity entries.
ImplementsLastN == Ideal!Spec

\* Until it first fills up, a ring has never wrapped: head is where the size
\* says. Snapshot's single copy and the lookups rest on it.
HeadIsSizeUntilFull ==
  /\ size < Capacity => head = size
  /\ \A i \in Slots: entries[i] = NoEntry <=> i >= size

\* The lookup by timestamp gives the newest of the entries that carry it, over
\* the wrap too (getByTs). A caller that means an older one of them is not
\* served by it: see DecodeOfClicked of CapturePanel.
GetByTsIsNewest ==
  \A t \in TimeStamps:
    GetByTs(t) = Ideal!NewestWithTs(LAMBDA e: e.ts, t, NoEntry)

\* Exports contain exactly the packets of the interval, in the order of their
\* arrival, also when timestamps are out of order and the ring has wrapped.
ExportsExact ==
  \A t, u \in TimeStamps:
    /\ Ideal!ListsAfter(GetAfterTs(t), LAMBDA e: e.ts, t)
    /\ Ideal!ListsBetween(GetInRange(t, u), LAMBDA e: e.ts, t, u)

\* Snapshot returns all packets in insertion order.
SnapshotExact == Snapshot = Contents
=============================================================================
