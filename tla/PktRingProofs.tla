---------------------------- MODULE PktRingProofs ----------------------------
(***************************************************************************)
(* For any capacity, and any packets: the rings are of the right type,     *)
(* have not wrapped before they are full, and implement the queue of the   *)
(* last Capacity entries.                                                  *)
(***************************************************************************)
EXTENDS PktRing, SequenceTheorems, WellFoundedInduction, TLAPS

\* What the two uses of % in the code come to.
LEMMA Wrap ==
  ASSUME NEW x \in 0 .. 2 * Capacity - 1
  PROVE  /\ x < Capacity => x % Capacity = x
         /\ ~(x < Capacity) => x % Capacity = x - Capacity
<1>1. CASE x < Capacity
  BY <1>1, CapacityAssumption
<1>2. CASE x >= Capacity
  BY <1>2, CapacityAssumption
<1> QED
  BY <1>1, <1>2, CapacityAssumption

LEMMA SlotBackIs ==
  ASSUME TypeOK, NEW i \in 0 .. Capacity - 1
  PROVE  /\ SlotBack(i) = IF i < head THEN head - 1 - i ELSE head - 1 - i + Capacity
         /\ SlotBack(i) \in Slots
<1>1. head - 1 - i + Capacity \in 0 .. 2 * Capacity - 1
  BY CapacityAssumption DEF TypeOK, Slots
<1> DEFINE x == head - 1 - i + Capacity
<1>2. /\ x < Capacity => x % Capacity = x
      /\ ~(x < Capacity) => x % Capacity = x - Capacity
  BY <1>1, Wrap, Zenon
<1> QED
  BY <1>2, CapacityAssumption DEF SlotBack, TypeOK, Slots

\* What a push does to head and size, without %.
LEMMA PushIs ==
  ASSUME TypeOK, NEW e \in Entry, Push(e)
  PROVE  /\ entries' = [entries EXCEPT ![head] = e]
         /\ head' = IF head = Capacity - 1 THEN 0 ELSE head + 1
         /\ size' = IF size < Capacity THEN size + 1 ELSE size
<1> DEFINE x == head + 1
<1>1. x \in 0 .. 2 * Capacity - 1
  BY CapacityAssumption DEF TypeOK, Slots
<1> HIDE DEF x
<1>2. /\ x < Capacity => x % Capacity = x
      /\ ~(x < Capacity) => x % Capacity = x - Capacity
  BY <1>1, Wrap, Zenon
<1> QED
  BY <1>2, CapacityAssumption DEF x, Push, TypeOK, Slots

LEMMA TypeStep == TypeOK /\ [Next]_vars => TypeOK'
<1> SUFFICES ASSUME TypeOK, [Next]_vars PROVE TypeOK'
  OBVIOUS
<1>1. ASSUME NEW e \in Entry, Push(e) PROVE TypeOK'
  BY <1>1, PushIs, CapacityAssumption DEF TypeOK, Slots
<1>2. CASE UNCHANGED vars
  BY <1>2 DEF vars, TypeOK
<1> QED
  BY <1>1, <1>2 DEF Next

LEMMA InitType == Init => TypeOK
BY CapacityAssumption DEF Init, TypeOK, Slots

\* The entries, head and size of both rings keep their types: no push writes
\* outside the array.
THEOREM TypeCorrect == Spec => []TypeOK
<1> QED
  BY InitType, TypeStep, PTL DEF Spec

\* The inductive invariant: HeadIsSizeUntilFull needs the types only.
IInv == TypeOK /\ HeadIsSizeUntilFull

LEMMA InvInit == Init => IInv
BY InitType, CapacityAssumption DEF Init, IInv, HeadIsSizeUntilFull, Slots

LEMMA InvStep == IInv /\ [Next]_vars => IInv'
<1> SUFFICES ASSUME IInv, [Next]_vars PROVE HeadIsSizeUntilFull'
  BY TypeStep DEF IInv
<1> USE DEF IInv
<1>1. ASSUME NEW e \in Entry, Push(e) PROVE HeadIsSizeUntilFull'
  <2>1. e # NoEntry
    BY NoEntryAssumption
  <2>2. (size < Capacity => head = size)'
    BY <1>1, PushIs, CapacityAssumption DEF TypeOK, HeadIsSizeUntilFull, Slots
  <2>3. ASSUME NEW i \in Slots PROVE (entries[i] = NoEntry <=> i >= size)'
    BY <1>1, <2>1, PushIs, CapacityAssumption DEF TypeOK, HeadIsSizeUntilFull, Slots
  <2> QED
    BY <2>2, <2>3 DEF HeadIsSizeUntilFull, Slots
<1>2. CASE UNCHANGED vars
  BY <1>2 DEF vars, HeadIsSizeUntilFull
<1> QED
  BY <1>1, <1>2 DEF Next

\* A ring that is not full has never wrapped, and the slots it has written are
\* exactly those below size (push of pktRingBuf, Push of RingBuffer).
THEOREM NeverWrappedUntilFull == Spec => []HeadIsSizeUntilFull
<1>1. Spec => []IInv
  BY InvInit, InvStep, PTL DEF Spec
<1>2. IInv => HeadIsSizeUntilFull
  BY DEF IInv
<1> QED
  BY <1>1, <1>2, PTL
-----------------------------------------------------------------------------
(* What the ring holds, oldest first. *)

\* The slot of the n-th oldest entry.
OldestSlot(n) ==
  IF size < Capacity THEN n - 1
  ELSE IF n <= Capacity - head THEN head + n - 1 ELSE head + n - 1 - Capacity

LEMMA ContentsSlot == IInv => \A n \in 1 .. size: Contents[n] = entries[OldestSlot(n)]
<1> SUFFICES ASSUME IInv, NEW n \in 1 .. size PROVE Contents[n] = entries[OldestSlot(n)]
  OBVIOUS
<1>1. size - n \in 0 .. Capacity - 1
  BY CapacityAssumption DEF IInv, TypeOK
<1>2. Contents[n] = entries[SlotBack(size - n)]
  BY DEF Contents
<1> QED
  BY <1>1, <1>2, SlotBackIs, CapacityAssumption
  DEF OldestSlot, IInv, TypeOK, HeadIsSizeUntilFull, Slots

LEMMA ContentsType == IInv => Contents \in Seq(Entry) /\ Len(Contents) = size
<1> SUFFICES ASSUME IInv PROVE Contents \in Seq(Entry) /\ Len(Contents) = size
  OBVIOUS
<1>1. ASSUME NEW n \in 1 .. size PROVE Contents[n] \in Entry
  <2>1. size - n \in 0 .. Capacity - 1
    BY CapacityAssumption DEF IInv, TypeOK
  <2>2. SlotBack(size - n) \in Slots /\ SlotBack(size - n) < size
    BY <2>1, SlotBackIs, CapacityAssumption DEF IInv, TypeOK, HeadIsSizeUntilFull, Slots
  <2>3. entries[SlotBack(size - n)] # NoEntry
    BY <2>2, CapacityAssumption DEF IInv, TypeOK, HeadIsSizeUntilFull, Slots
  <2> QED
    BY <2>2, <2>3 DEF Contents, IInv, TypeOK
<1> QED
  BY <1>1 DEF Contents, IInv, TypeOK

\* Snapshot's one or two copies give the packets in insertion order.
LEMMA SnapshotIsContents == IInv => SnapshotExact
<1> SUFFICES ASSUME IInv PROVE Snapshot = Contents
  BY DEF SnapshotExact
<1> USE CapacityAssumption DEF IInv, TypeOK, Slots
<1>1. CASE size < Capacity
  <2>1. Snapshot = [n \in 1 .. size |-> entries[n - 1]]
    BY <1>1 DEF Snapshot, Piece
  <2>2. \A n \in 1 .. size: Contents[n] = entries[n - 1]
    BY <1>1, ContentsSlot DEF OldestSlot
  <2> QED
    BY <2>1, <2>2 DEF Contents
<1>2. CASE size = Capacity
  <2> DEFINE old == Piece(head, Capacity)
             new == Piece(0, head)
  <2>1. Snapshot = old \o new
    BY <1>2 DEF Snapshot
  <2>2. old \in Seq(Entry \cup {NoEntry}) /\ Len(old) = Capacity - head
    BY DEF Piece
  <2>3. new \in Seq(Entry \cup {NoEntry}) /\ Len(new) = head
    BY DEF Piece
  <2>4. \A n \in 1 .. Capacity - head: old[n] = entries[head + n - 1]
    BY DEF Piece
  <2>5. \A n \in 1 .. head: new[n] = entries[n - 1]
    BY DEF Piece
  <2> HIDE DEF old, new
  <2>6. /\ Snapshot \in Seq(Entry \cup {NoEntry})
        /\ Len(Snapshot) = Len(old) + Len(new)
        /\ \A n \in 1 .. Len(old) + Len(new):
             Snapshot[n] = IF n <= Len(old) THEN old[n] ELSE new[n - Len(old)]
    BY <2>1, <2>2, <2>3, ConcatProperties
  <2>7. ASSUME NEW n \in 1 .. size PROVE Snapshot[n] = Contents[n]
    <3>1. Contents[n] = entries[IF n <= Capacity - head THEN head + n - 1
                                ELSE head + n - 1 - Capacity]
      BY <1>2, ContentsSlot DEF OldestSlot
    <3>2. CASE n <= Capacity - head
      BY <1>2, <2>2, <2>3, <2>4, <2>6, <3>1, <3>2
    <3>3. CASE n > Capacity - head
      <4> DEFINE m == n - (Capacity - head)
      <4>1. m \in 1 .. head /\ m - 1 = head + n - 1 - Capacity
        BY <1>2, <3>3
      <4>2. Snapshot[n] = new[m]
        BY <1>2, <2>2, <2>3, <2>6, <3>3
      <4>3. new[m] = entries[m - 1]
        BY <2>5, <4>1
      <4> QED
        BY <3>1, <3>3, <4>1, <4>2, <4>3
    <3> QED
      BY <3>2, <3>3
  <2> QED
    BY <1>2, <2>2, <2>3, <2>6, <2>7, ContentsType
<1> QED
  BY <1>1, <1>2

\* Snapshot returns all packets in insertion order, before and after the wrap
\* (RingBuffer.Snapshot).
THEOREM SnapshotCorrect == Spec => []SnapshotExact
<1>1. Spec => []IInv
  BY InvInit, InvStep, PTL DEF Spec
<1> QED
  BY <1>1, SnapshotIsContents, PTL
-----------------------------------------------------------------------------
(* The ring implements the queue of the last Capacity entries. *)

\* A push keeps the newest entries and appends its own.
LEMMA PushImplements ==
  ASSUME IInv, IInv', NEW e \in Entry, Push(e)
  PROVE  Ideal!Push(e)
<1> USE CapacityAssumption
<1> DEFINE all == Append(Contents, e)
           drop == IF size = Capacity THEN 1 ELSE 0
<1>0. /\ Contents \in Seq(Entry) /\ Len(Contents) = size
      /\ \A n \in 1 .. size: Contents[n] = entries[OldestSlot(n)]
  BY ContentsType, ContentsSlot
<1>1. /\ (Contents \in Seq(Entry) /\ Len(Contents) = size)'
      /\ (\A n \in 1 .. size: Contents[n] = entries[OldestSlot(n)])'
  BY ContentsType, ContentsSlot, PTL
<1>2. /\ all \in Seq(Entry) /\ Len(all) = size + 1
      /\ \A n \in 1 .. size: all[n] = Contents[n]
      /\ all[size + 1] = e
  BY <1>0, AppendProperties
<1>4. /\ size \in 0 .. Capacity /\ head \in 0 .. Capacity - 1
      /\ size' = size + 1 - drop
      /\ head' = IF head = Capacity - 1 THEN 0 ELSE head + 1
      /\ entries' = [entries EXCEPT ![head] = e]
      /\ entries \in [Slots -> Entry \cup {NoEntry}]
      /\ size < Capacity => head = size
  BY PushIs DEF IInv, TypeOK, Slots, HeadIsSizeUntilFull
<1> HIDE DEF all
<1>5. \A n \in 1 .. size': Contents'[n] = all[n + drop]
  <2> SUFFICES ASSUME NEW n \in 1 .. size' PROVE Contents'[n] = all[n + drop]
    OBVIOUS
  <2>1. CASE n + drop = size + 1
    <3>1. OldestSlot(n)' = head
      BY <1>4, <2>1 DEF OldestSlot
    <3> QED
      BY <1>2, <1>0, <1>1, <1>4, <2>1, <3>1 DEF Slots
  <2>2. CASE n + drop # size + 1
    <3>1. n + drop \in 1 .. size
      BY <1>4, <2>2
    <3>2. OldestSlot(n)' = OldestSlot(n + drop) /\ OldestSlot(n + drop) \in Slots \ {head}
      BY <1>4, <2>2, <3>1 DEF OldestSlot, Slots
    <3>3. Contents'[n] = entries[OldestSlot(n + drop)]
      BY <1>0, <1>1, <1>4, <3>2
    <3> QED
      BY <1>2, <1>0, <1>1, <3>1, <3>3
  <2> QED
    BY <2>1, <2>2
<1>6. /\ Ideal!Newest(all) \in Seq(Entry)
      /\ Len(Ideal!Newest(all)) = size'
      /\ \A n \in 1 .. size': Ideal!Newest(all)[n] = all[n + drop]
  <2>1. Ideal!Newest(all) = SubSeq(all, drop + 1, size + 1)
    BY <1>2, <1>4 DEF Ideal!Newest
  <2>2. \A i \in drop + 1 .. size + 1: all[i] \in Entry
    BY <1>2, <1>4
  <2>3. /\ SubSeq(all, drop + 1, size + 1) \in Seq(Entry)
        /\ Len(SubSeq(all, drop + 1, size + 1)) = size + 1 - drop
        /\ \A n \in 1 .. size + 1 - drop:
             SubSeq(all, drop + 1, size + 1)[n] = all[drop + 1 + n - 1]
    <3> HIDE DEF drop
    <3> DEFINE from == drop + 1
               to   == size + 1
               sub  == SubSeq(all, from, to)
    <3>1. from \in Int /\ to \in Int /\ from <= to /\ to - from + 1 = size + 1 - drop
      BY <1>4 DEF drop
    <3> HIDE DEF from, to
    <3>2. /\ sub \in Seq(Entry)
          /\ Len(sub) = IF from <= to THEN to - from + 1 ELSE 0
          /\ \A n \in 1 .. to - from + 1: sub[n] = all[from + n - 1]
      BY <2>2, <3>1, SubSeqProperties DEF from, to
    <3> QED
      BY <3>1, <3>2 DEF from, to
  <2> QED
    BY <1>4, <2>1, <2>3
<1>7. Contents' = Ideal!Newest(all)
  BY <1>1, <1>5, <1>6, SeqEqual
<1> QED
  BY <1>7 DEF Ideal!Push, all

\* Every step of a ring is one of the abstract queue: head, size and the
\* wrap-around are invisible to its users (push of pktRingBuf, Push of
\* RingBuffer).
THEOREM ImplementsQueue == Spec => ImplementsLastN
<1>1. Spec => []IInv
  BY InvInit, InvStep, PTL DEF Spec
<1>2. Init => Ideal!Init
  BY DEF Init, Ideal!Init, Contents
<1>3. IInv /\ IInv' /\ [Next]_vars => [Ideal!Next]_Contents
  <2> SUFFICES ASSUME IInv, IInv', [Next]_vars PROVE [Ideal!Next]_Contents
    OBVIOUS
  <2>1. ASSUME NEW e \in Entry, Push(e) PROVE Ideal!Next
    BY <2>1, PushImplements DEF Ideal!Next
  <2>2. CASE UNCHANGED vars
    BY <2>2 DEF vars, Contents, SlotBack
  <2> QED
    BY <2>1, <2>2 DEF Next
<1> QED
  BY <1>1, <1>2, <1>3, PTL DEF Spec, ImplementsLastN, Ideal!Spec
-----------------------------------------------------------------------------
(* The lookup by timestamp. *)

LEMMA LeastExists ==
  ASSUME NEW T \in SUBSET Nat, T # {}
  PROVE  \E i \in T: \A j \in T: i <= j
<1>1. PICK i \in T: \A j \in T: ~(<<j, i>> \in OpToRel(<, Nat))
  <2> HIDE DEF OpToRel
  <2> QED
    BY NatLessThanWellFounded, WFMin, Zenon
<1>2. ASSUME NEW j \in T PROVE i <= j
  <2>1. <<j, i>> \in Nat \X Nat /\ ~(<<j, i>> \in OpToRel(<, Nat))
    BY <1>1
  <2>2. ~(j < i)
    BY <2>1 DEF OpToRel
  <2> QED
    BY <2>2
<1> QED
  BY <1>2

\* Counting back from the newest entry finds the greatest position.
LEMMA GetByTsExact ==
  ASSUME IInv, NEW t
  PROVE  GetByTs(t) = Ideal!NewestWithTs(LAMBDA e: e.ts, t, NoEntry)
<1> DEFINE back == {i \in 0 .. size - 1: entries[SlotBack(i)].ts = t}
           pos  == {n \in 1 .. Len(Contents): Contents[n].ts = t}
<1>1. Len(Contents) = size /\ size \in Nat
  BY ContentsType DEF IInv, TypeOK
<1>2. \A n \in 1 .. size: Contents[n] = entries[SlotBack(size - n)]
  BY DEF Contents
<1>3. \A i \in back: size - i \in pos /\ Contents[size - i] = entries[SlotBack(i)]
  BY <1>1, <1>2
<1>4. \A n \in pos: size - n \in back
  BY <1>1, <1>2
<1>5. GetByTs(t) = IF back = {} THEN NoEntry
                   ELSE entries[SlotBack(CHOOSE i \in back: \A j \in back: i <= j)]
  BY DEF GetByTs
<1>6. Ideal!NewestWithTs(LAMBDA e: e.ts, t, NoEntry) =
        IF pos = {} THEN NoEntry
        ELSE Contents[CHOOSE n \in pos: \A j \in pos: j <= n]
  BY DEF Ideal!NewestWithTs
<1>7. back \in SUBSET Nat /\ pos \in SUBSET Nat /\ size \in Nat
  BY <1>1
<1> HIDE DEF back, pos
<1>8. CASE back = {}
  BY <1>3, <1>4, <1>5, <1>6, <1>8
<1>9. CASE back # {}
  <2>1. PICK i \in back: \A j \in back: i <= j
    BY <1>7, <1>9, LeastExists
  <2> DEFINE least    == CHOOSE k \in back: \A j \in back: k <= j
             greatest == CHOOSE n \in pos: \A j \in pos: j <= n
  <2>2. least = i
    <3>1. least \in back /\ \A j \in back: least <= j
      BY <2>1, Zenon
    <3> HIDE DEF least
    <3> QED
      BY <1>7, <2>1, <3>1
  <2>3. size - i \in pos /\ \A n \in pos: n <= size - i
    BY <1>3, <1>4, <1>7, <2>1
  <2>4. greatest = size - i
    <3>1. greatest \in pos /\ \A j \in pos: j <= greatest
      BY <2>3, Zenon
    <3> HIDE DEF greatest
    <3> QED
      BY <1>7, <2>1, <2>3, <3>1
  <2>5. GetByTs(t) = entries[SlotBack(least)]
    BY <1>5, <1>9
  <2>6. Ideal!NewestWithTs(LAMBDA e: e.ts, t, NoEntry) = Contents[greatest]
    BY <1>6, <2>3
  <2> QED
    BY <1>3, <2>1, <2>2, <2>4, <2>5, <2>6
<1> QED
  BY <1>8, <1>9

\* The lookup finds the newest of the entries with that timestamp, wherever in
\* the array they are (getByTs).
THEOREM LookupCorrect == Spec => []GetByTsIsNewest
<1>1. Spec => []IInv
  BY InvInit, InvStep, PTL DEF Spec
<1>2. IInv => GetByTsIsNewest
  BY GetByTsExact DEF GetByTsIsNewest
<1> QED
  BY <1>1, <1>2, PTL
\* Induction on the numbers up to n: a set that holds 0 and is closed under
\* the successor holds them all.
LEMMA Induction ==
  ASSUME NEW n \in Nat, NEW G, 0 \in G, \A k \in 1 .. n: k - 1 \in G => k \in G
  PROVE  \A k \in 0 .. n: k \in G
<1> DEFINE out == {k \in 0 .. n: k \notin G}
<1> SUFFICES ASSUME out # {} PROVE FALSE
  OBVIOUS
<1>1. PICK i \in out: \A j \in out: i <= j
  <2>1. out \in SUBSET Nat
    OBVIOUS
  <2> HIDE DEF out
  <2> QED
    BY <2>1, LeastExists
<1>2. i \in 1 .. n /\ i - 1 \in 0 .. n /\ i - 1 < i /\ i \notin G
  OBVIOUS
<1>3. i - 1 \in G
  BY <1>1, <1>2
<1> QED
  BY <1>2, <1>3

\* A function defined by recursion on the numbers up to n exists: g gives its
\* next value from its last.
Recurses(f, n, V, b, g) ==
  /\ f \in [0 .. n -> V] /\ f[0] = b
  /\ \A k \in 1 .. n: f[k] = g[<<k, f[k - 1]>>]

LEMMA Recursion ==
  ASSUME NEW n \in Nat, NEW V, NEW b \in V, NEW g \in [(1 .. n) \X V -> V]
  PROVE  \E f: Recurses(f, n, V, b, g)
<1> DEFINE Upto(m) ==
      \E f \in [0 .. m -> V]: f[0] = b /\ \A k \in 1 .. m: f[k] = g[<<k, f[k - 1]>>]
<1> DEFINE G == {m \in 0 .. n: Upto(m)}
<1>1. Upto(0)
  <2> DEFINE f == [k \in 0 .. 0 |-> b]
  <2>1. f \in [0 .. 0 -> V] /\ f[0] = b /\ 1 .. 0 = {}
    OBVIOUS
  <2> HIDE DEF f
  <2> QED
    BY <2>1
<1>2. ASSUME NEW m \in 1 .. n, Upto(m - 1) PROVE Upto(m)
  <2>1. PICK f \in [0 .. m - 1 -> V]:
          f[0] = b /\ \A k \in 1 .. m - 1: f[k] = g[<<k, f[k - 1]>>]
    BY <1>2
  <2> DEFINE h == [k \in 0 .. m |-> IF k = m THEN g[<<m, f[m - 1]>>] ELSE f[k]]
  <2>2. m \in Nat /\ m - 1 \in 0 .. m - 1 /\ f[m - 1] \in V
    OBVIOUS
  <2>3. g[<<m, f[m - 1]>>] \in V
    BY <2>2
  <2>4. h \in [0 .. m -> V]
    BY <2>2, <2>3
  <2>5. h[0] = b /\ h[m] = g[<<m, h[m - 1]>>]
    BY <2>1, <2>2
  <2>6. ASSUME NEW k \in 1 .. m, k # m PROVE h[k] = g[<<k, h[k - 1]>>]
    <3>1. k \in 1 .. m - 1 /\ k - 1 \in 0 .. m - 1 /\ k - 1 # m
      BY <2>6
    <3>2. h[k] = f[k] /\ h[k - 1] = f[k - 1]
      BY <2>6, <3>1
    <3> QED
      BY <2>1, <3>1, <3>2
  <2> HIDE DEF h
  <2> QED
    BY <2>4, <2>5, <2>6
<1>3. 0 \in G /\ \A k \in 1 .. n: k - 1 \in G => k \in G
  <2> HIDE DEF Upto
  <2>1. 0 \in G
    BY <1>1
  <2>2. ASSUME NEW k \in 1 .. n, k - 1 \in G PROVE k \in G
    BY <1>2, <2>2
  <2> QED
    BY <2>1, <2>2
<1>4. n \in G
  <2> HIDE DEF G
  <2>1. \A k \in 0 .. n: k \in G
    BY <1>3, Induction
  <2> QED
    BY <2>1
<1> QED
  BY <1>4 DEF Recurses
-----------------------------------------------------------------------------
(* The exports. *)

\* out[n] of Scan: what the loop has appended after n turns.
IsRun(out, hits) ==
  /\ out \in [0 .. size -> Seq(Entry)] /\ out[0] = <<>>
  /\ \A n \in 1 .. size:
       out[n] = IF size - n \in hits THEN Append(out[n - 1], Contents[n]) ELSE out[n - 1]

LEMMA ScanRuns ==
  ASSUME IInv, NEW hits
  PROVE  \E out: IsRun(out, hits) /\ Scan(hits) = out[size]
<1> DEFINE Eqn(f) == f = [n \in 0 .. size |->
                            IF n = 0 THEN <<>>
                            ELSE IF size - n \in hits
                                 THEN Append(f[n - 1], entries[SlotBack(size - n)])
                            ELSE f[n - 1]]
           V == Seq(Entry)
           g == [p \in (1 .. size) \X V |->
                   IF size - p[1] \in hits THEN Append(p[2], Contents[p[1]]) ELSE p[2]]
           out == CHOOSE f: Eqn(f)
<1>1. size \in Nat /\ \A n \in 1 .. size: Contents[n] \in Entry
  BY ContentsType, LenProperties DEF IInv, TypeOK
<1>2. \A n \in 1 .. size: Contents[n] = entries[SlotBack(size - n)]
  BY DEF Contents
<1>3. g \in [(1 .. size) \X V -> V]
  <2>1. ASSUME NEW p \in (1 .. size) \X V
        PROVE  (IF size - p[1] \in hits THEN Append(p[2], Contents[p[1]]) ELSE p[2]) \in V
    BY <1>1, AppendProperties
  <2> QED
    BY <2>1
<1>4. \A n \in 1 .. size, x \in V:
        g[<<n, x>>] = IF size - n \in hits THEN Append(x, Contents[n]) ELSE x
  OBVIOUS
<1>5. <<>> \in V
  OBVIOUS
<1> HIDE DEF g, V
<1>6. PICK f: Recurses(f, size, V, <<>>, g)
  BY <1>1, <1>3, <1>5, Recursion, Zenon
<1>7. /\ f \in [0 .. size -> V] /\ f[0] = <<>>
      /\ \A n \in 1 .. size:
           f[n] = IF size - n \in hits THEN Append(f[n - 1], Contents[n]) ELSE f[n - 1]
  <2>1. \A n \in 1 .. size: n - 1 \in 0 .. size
    BY <1>1
  <2> QED
    BY <1>4, <1>6, <2>1 DEF Recurses
<1>8. Eqn(f)
  <2>1. \A n \in 0 .. size: n = 0 \/ n \in 1 .. size
    BY <1>1
  <2>2. f = [n \in 0 .. size |-> f[n]]
    BY <1>7
  <2>3. \A n \in 0 .. size:
          f[n] = IF n = 0 THEN <<>>
                 ELSE IF size - n \in hits
                      THEN Append(f[n - 1], entries[SlotBack(size - n)])
                 ELSE f[n - 1]
    BY <1>2, <1>7, <2>1
  <2> QED
    BY <2>2, <2>3
<1>9. Eqn(out)
  BY <1>8, Zenon
<1>10. Scan(hits) = out[size]
  BY DEF Scan
<1> HIDE DEF out
<1>11. out = f
  <2> DEFINE same == {n \in 0 .. size: out[n] = f[n]}
  <2>1. /\ out[0] = <<>>
        /\ \A n \in 1 .. size:
             out[n] = IF size - n \in hits THEN Append(out[n - 1], Contents[n]) ELSE out[n - 1]
    <3>1. \A n \in 0 .. size:
            out[n] = IF n = 0 THEN <<>>
                     ELSE IF size - n \in hits
                          THEN Append(out[n - 1], entries[SlotBack(size - n)])
                     ELSE out[n - 1]
      BY <1>9, Zenon
    <3>2. 0 \in 0 .. size /\ \A n \in 1 .. size: n \in 0 .. size /\ n # 0
      BY <1>1
    <3> QED
      BY <1>2, <3>1, <3>2
  <2>2. 0 \in same /\ \A n \in 1 .. size: n - 1 \in same => n \in same
    BY <1>1, <1>7, <2>1
  <2> HIDE DEF same
  <2>3. \A n \in 0 .. size: n \in same
    BY <1>1, <2>2, Induction
  <2>4. \A n \in 0 .. size: out[n] = f[n]
    BY <2>3 DEF same
  <2> QED
    BY <1>7, <1>9, <2>4
<1> QED
  BY <1>7, <1>10, <1>11 DEF IsRun, V

\* One more entry, newer than those listed, is appended.
LEMMA ListsOneMore ==
  ASSUME IInv, NEW n \in 1 .. size, NEW H \in SUBSET (1 .. n - 1), NEW s, Ideal!Lists(s, H)
  PROVE  Ideal!Lists(Append(s, Contents[n]), H \cup {n})
<1>1. Contents[n] \in Entry /\ s \in Seq(Entry) /\ Len(s) \in Nat /\ n \in Nat
  BY ContentsType, LenProperties DEF Ideal!Lists, IInv, TypeOK
<1>2. PICK f \in [1 .. Len(s) -> H]:
        /\ \A j, k \in 1 .. Len(s): j < k => f[j] < f[k]
        /\ \A i \in H: \E k \in 1 .. Len(s): f[k] = i
        /\ \A k \in 1 .. Len(s): s[k] = Contents[f[k]]
  BY DEF Ideal!Lists
<1> DEFINE m == Len(s) + 1
           t == Append(s, Contents[n])
           h == [k \in 1 .. m |-> IF k = m THEN n ELSE f[k]]
<1>3. /\ t \in Seq(Entry) /\ Len(t) = m /\ t[m] = Contents[n]
      /\ \A k \in 1 .. Len(s): t[k] = s[k]
  BY <1>1, AppendProperties
<1>4. /\ m \in 1 .. m /\ h[m] = n
      /\ \A k \in 1 .. m: k = m \/ k \in 1 .. Len(s)
      /\ \A k \in 1 .. Len(s): k \in 1 .. m /\ h[k] = f[k] /\ f[k] \in H
  BY <1>1
<1>5. h \in [1 .. m -> H \cup {n}]
  BY <1>4
<1> HIDE DEF t, h
<1>6. ASSUME NEW j \in 1 .. m, NEW k \in 1 .. m, j < k PROVE h[j] < h[k]
  <2>1. j \in 1 .. Len(s) /\ h[j] \in 1 .. n - 1
    <3>1. j # m
      BY <1>1, <1>6
    <3>2. j \in 1 .. Len(s) /\ h[j] \in H
      BY <1>4, <3>1
    <3> QED
      BY <3>2
  <2>2. CASE k = m
    BY <1>1, <1>4, <2>1, <2>2
  <2>3. CASE k \in 1 .. Len(s)
    BY <1>2, <1>4, <1>6, <2>1, <2>3
  <2> QED
    BY <1>4, <2>2, <2>3
<1>7. ASSUME NEW i \in H \cup {n} PROVE \E k \in 1 .. m: h[k] = i
  BY <1>2, <1>4
<1>8. ASSUME NEW k \in 1 .. m PROVE t[k] = Contents[h[k]]
  BY <1>2, <1>3, <1>4
<1> HIDE DEF m
<1> QED
  BY <1>3, <1>5, <1>6, <1>7, <1>8 DEF Ideal!Lists, t

\* The loop lists the entries at the positions it selects.
LEMMA ScanLists ==
  ASSUME IInv, NEW hits, NEW positions, positions = {n \in 1 .. size: size - n \in hits}
  PROVE  Ideal!Lists(Scan(hits), positions)
<1> DEFINE Upto(m) == {n \in 1 .. m: size - n \in hits}
<1>1. PICK out: IsRun(out, hits) /\ Scan(hits) = out[size]
  BY ScanRuns
<1>2. size \in Nat
  BY DEF IInv, TypeOK
<1> DEFINE G == {m \in 0 .. size: Ideal!Lists(out[m], Upto(m))}
<1>3. 0 \in G
  <2>1. out[0] = <<>> /\ Upto(0) = {} /\ <<>> \in Seq(Entry) /\ Len(<<>>) = 0 /\ 1 .. 0 = {}
    BY <1>1 DEF IsRun
  <2> DEFINE f == [k \in {} |-> k]
  <2>2. f \in [{} -> {}]
    OBVIOUS
  <2> HIDE DEF f, Upto
  <2>3. Ideal!Lists(<<>>, {})
    BY <2>1, <2>2 DEF Ideal!Lists
  <2>4. Ideal!Lists(out[0], Upto(0))
    BY <2>1, <2>3
  <2> QED
    BY <1>2, <2>4
<1>4. ASSUME NEW m \in 1 .. size, m - 1 \in G PROVE m \in G
  <2>1. Ideal!Lists(out[m - 1], Upto(m - 1)) /\ Upto(m - 1) \in SUBSET (1 .. m - 1)
    BY <1>4
  <2>2. CASE size - m \in hits
    <3>1. out[m] = Append(out[m - 1], Contents[m])
      BY <1>1, <2>2 DEF IsRun
    <3>2. Upto(m) = Upto(m - 1) \cup {m}
      BY <1>2, <2>2
    <3> HIDE DEF Upto
    <3>3. Ideal!Lists(out[m], Upto(m))
      BY <2>1, <3>1, <3>2, ListsOneMore
    <3> QED
      BY <1>2, <3>3
  <2>3. CASE size - m \notin hits
    <3>1. out[m] = out[m - 1]
      BY <1>1, <2>3 DEF IsRun
    <3>2. Upto(m) = Upto(m - 1)
      BY <1>2, <2>3
    <3> HIDE DEF Upto
    <3> QED
      BY <1>2, <2>1, <3>1, <3>2
  <2> QED
    BY <2>2, <2>3
<1> HIDE DEF G
<1>5. \A m \in 0 .. size: m \in G
  BY <1>2, <1>3, <1>4, Induction
<1> QED
  BY <1>1, <1>2, <1>5 DEF G

\* What is selected counting back is what qualifies among the contents.
LEMMA SelectedQualify ==
  ASSUME IInv, NEW t \in TimeStamps, NEW u \in TimeStamps
  PROVE  /\ {n \in 1 .. size: size - n \in Since(t)}
              = {n \in 1 .. Len(Contents): Contents[n].ts >= t}
         /\ {n \in 1 .. size: size - n \in Within(t, u)}
              = {n \in 1 .. Len(Contents): Contents[n].ts >= t /\ Contents[n].ts <= u}
<1>1. Len(Contents) = size /\ size \in Nat
  BY ContentsType DEF IInv, TypeOK
<1>2. \A n \in 1 .. size: size - n \in 0 .. size - 1 /\ Contents[n] = entries[SlotBack(size - n)]
  BY <1>1 DEF Contents
<1>3. \A n \in 1 .. size: size - n \in Since(t) <=> Contents[n].ts >= t
  BY <1>2 DEF Since
<1>4. \A n \in 1 .. size:
        size - n \in Within(t, u) <=> Contents[n].ts >= t /\ Contents[n].ts <= u
  BY <1>2 DEF Within
<1> QED
  BY <1>1, <1>3, <1>4

\* An export holds exactly the packets of its interval, each once and in the
\* order they arrived, wherever in the array they are and whatever order their
\* timestamps are in (getAfterTs, getInRange).
THEOREM ExportsCorrect == Spec => []ExportsExact
<1>1. Spec => []IInv
  BY InvInit, InvStep, PTL DEF Spec
<1>2. IInv => ExportsExact
  <2> SUFFICES ASSUME IInv, NEW t \in TimeStamps, NEW u \in TimeStamps
               PROVE  /\ Ideal!ListsAfter(GetAfterTs(t), LAMBDA e: e.ts, t)
                      /\ Ideal!ListsBetween(GetInRange(t, u), LAMBDA e: e.ts, t, u)
    BY DEF ExportsExact
  <2>1. Ideal!Lists(Scan(Since(t)), {n \in 1 .. Len(Contents): Contents[n].ts >= t})
    BY SelectedQualify, ScanLists
  <2>2. Ideal!Lists(Scan(Within(t, u)),
          {n \in 1 .. Len(Contents): Contents[n].ts >= t /\ Contents[n].ts <= u})
    BY SelectedQualify, ScanLists
  <2> QED
    BY <2>1, <2>2 DEF GetAfterTs, GetInRange, Ideal!ListsAfter, Ideal!ListsBetween
<1> QED
  BY <1>1, <1>2, PTL
=============================================================================
