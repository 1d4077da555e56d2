----------------------------- MODULE FanOutProofs -----------------------------
(***************************************************************************)
(* The subscriber list is exact whenever the lock is free, and a publish   *)
(* no unsubscribe overlaps reaches each subscriber once: for any number of *)
(* registrations and publishing streams.                                   *)
(***************************************************************************)
EXTENDS FanOut, SequenceTheorems, FiniteSetTheorems, TLAPS

Cells == Subs \cup {NoSub}

\* How many elements the list has when the move under way, if any, is done,
\* and what its slots then hold.
Left == IF writer = NoSub THEN list.len ELSE list.len - 1
Final(j) == IF j \in DOMAIN moving THEN moving[j] ELSE heap[list.arr][j]

ListType ==
  /\ heap \in Seq(Seq(Cells))
  /\ list \in [arr: Nat, len: Nat]
  /\ list.arr <= Len(heap) /\ list.len <= Capacity(list)
  /\ list.arr # 0 => Capacity(list) > 0
  /\ subPc \in [Subs -> {"new", "on", "off"}]
  /\ closed = {s \in Subs: subPc[s] = "off"}
  /\ writer \in Cells
  /\ writer = NoSub => DOMAIN moving = {}
  /\ writer # NoSub => subPc[writer] = "on" /\ list.len > 0
  /\ DOMAIN moving \subseteq 1 .. Left

\* The slots will hold the registered channels, each once, without the one
\* that is being removed.
Exact ==
  /\ \A j \in 1 .. Left: Final(j) \in Registered \ {writer}
  /\ \A j, k \in 1 .. Left: Final(j) = Final(k) => j = k
  /\ \A s \in Registered \ {writer}: \E j \in 1 .. Left: Final(j) = s

IInv == ListType /\ Exact

LEMMA ArrayType ==
  ASSUME ListType, list.len > 0
  PROVE  /\ list.arr \in 1 .. Len(heap)
         /\ heap[list.arr] \in Seq(Cells)
         /\ Len(heap[list.arr]) >= list.len
BY DEF ListType, Capacity

\* A registration puts its channel after the others, in place or not, and
\* changes nothing that a copy of the slice can see.
LEMMA RegisterCells ==
  ASSUME ListType, NEW s \in Subs, Register(s)
  PROVE  /\ heap' \in Seq(Seq(Cells))
         /\ list' \in [arr: Nat, len: Nat] /\ list'.len = list.len + 1
         /\ list'.arr \in 1 .. Len(heap') /\ list'.len <= Len(heap'[list'.arr])
         /\ \A j \in 1 .. list.len: heap'[list'.arr][j] = heap[list.arr][j]
         /\ heap'[list'.arr][list.len + 1] = s
         /\ Len(heap') >= Len(heap)
         /\ list'.arr = list.arr \/ list'.arr = Len(heap) + 1
         /\ \A a \in 1 .. Len(heap):
              /\ Len(heap'[a]) = Len(heap[a])
              /\ \A j \in 1 .. Len(heap[a]):
                   a # list.arr \/ j <= list.len => heap'[a][j] = heap[a][j]
<1> USE DEF ListType, Capacity, Cells
<1>1. CASE list.len < Capacity(list)
  <2> DEFINE a == list.arr
             row == [heap[a] EXCEPT ![list.len + 1] = s]
  <2>1. /\ heap' = [heap EXCEPT ![a][list.len + 1] = s]
        /\ list' = [list EXCEPT !.len = @ + 1]
    BY <1>1 DEF Register
  <2>2. /\ a \in 1 .. Len(heap) /\ heap[a] \in Seq(Cells)
        /\ list.len + 1 \in 1 .. Len(heap[a])
    BY <1>1
  <2>3. /\ row \in Seq(Cells) /\ Len(row) = Len(heap[a])
        /\ \A j \in 1 .. Len(heap[a]):
             row[j] = IF j = list.len + 1 THEN s ELSE heap[a][j]
    BY <2>2, ExceptSeq
  <2>4. heap' = [heap EXCEPT ![a] = row]
    BY <2>1, <2>2
  <2> HIDE DEF row
  <2>5. heap' \in Seq(Seq(Cells)) /\ Len(heap') = Len(heap) /\ heap'[a] = row
    BY <2>2, <2>3, <2>4, ExceptSeq
  <2>6. \A b \in 1 .. Len(heap): b # a => heap'[b] = heap[b]
    BY <2>2, <2>3, <2>4, ExceptSeq
  <2>7. ASSUME NEW b \in 1 .. Len(heap)
        PROVE  /\ Len(heap'[b]) = Len(heap[b])
               /\ \A j \in 1 .. Len(heap[b]):
                    b # a \/ j <= list.len => heap'[b][j] = heap[b][j]
    <3>1. CASE b = a
      BY <2>2, <2>3, <2>5, <3>1
    <3>2. CASE b # a
      BY <2>6, <3>2
    <3> QED
      BY <3>1, <3>2
  <2>8. list'.arr = a /\ Len(heap') >= Len(heap)
    BY <2>1, <2>5
  <2>9. /\ heap' \in Seq(Seq(Cells))
        /\ list' \in [arr: Nat, len: Nat] /\ list'.len = list.len + 1
        /\ list'.arr \in 1 .. Len(heap') /\ list'.len <= Len(heap'[list'.arr])
        /\ \A j \in 1 .. list.len: heap'[list'.arr][j] = heap[list.arr][j]
        /\ heap'[list'.arr][list.len + 1] = s
    BY <2>1, <2>2, <2>3, <2>5
  <2> HIDE DEF Capacity
  <2> QED
    BY <2>7, <2>8, <2>9
<1>2. CASE list.len = Capacity(list)
  <2> DEFINE row == Grown(list, s)
             n == IF list.arr = 0 THEN 1 ELSE 2 * Capacity(list)
  <2>1. heap' = Append(heap, row) /\ list' = [arr |-> Len(heap) + 1, len |-> list.len + 1]
    BY <1>2 DEF Register
  <2>2. n \in Nat /\ n > list.len
    BY <1>2
  <2>3. ASSUME NEW j \in 1 .. n
        PROVE  (IF j <= list.len THEN heap[list.arr][j]
                ELSE IF j = list.len + 1 THEN s ELSE NoSub) \in Cells
    BY <2>2, <2>3, ArrayType
  <2>4. row \in Seq(Cells) /\ Len(row) = n
    BY <2>2, <2>3 DEF Grown
  <2>5. /\ \A j \in 1 .. list.len: row[j] = heap[list.arr][j]
        /\ row[list.len + 1] = s
    BY <2>2 DEF Grown
  <2> HIDE DEF row
  <2>6. /\ heap' \in Seq(Seq(Cells)) /\ Len(heap') = Len(heap) + 1
        /\ heap'[Len(heap) + 1] = row
        /\ \A a \in 1 .. Len(heap): heap'[a] = heap[a]
    BY <2>1, <2>4, AppendProperties
  <2> HIDE DEF n
  <2> QED
    BY <2>1, <2>2, <2>4, <2>5, <2>6
<1> QED
  BY <1>1, <1>2 DEF Register

LEMMA RegisterStep ==
  ASSUME IInv, NEW s \in Subs, Register(s)
  PROVE  IInv'
<1> USE DEF IInv
<1>1. /\ writer = NoSub /\ writer' = NoSub /\ moving' = moving /\ closed' = closed
      /\ subPc[s] = "new" /\ subPc' = [subPc EXCEPT ![s] = "on"]
  BY DEF Register
<1>2. DOMAIN moving = {} /\ Left = list.len /\ Left' = list.len + 1
  BY <1>1, RegisterCells DEF ListType, Left
<1>3. ListType'
  BY <1>1, <1>2, RegisterCells DEF ListType, Capacity, Cells
<1>4. PICK n \in Nat: n = list.len
  BY DEF ListType
<1>5. /\ \A j \in 1 .. n: Final(j)' = Final(j)
      /\ Final(n + 1)' = s
  BY <1>1, <1>2, <1>4, RegisterCells DEF Final
<1>6. Registered' = Registered \cup {s} /\ s \notin Registered /\ NoSub \notin Registered'
  BY <1>1, NoSubAssumption DEF ListType, Registered
<1>7. /\ \A j \in 1 .. n: Final(j) \in Registered
      /\ \A j, k \in 1 .. n: Final(j) = Final(k) => j = k
      /\ \A r \in Registered: \E j \in 1 .. n: Final(j) = r
  BY <1>1, <1>2, <1>4, <1>6 DEF Exact
<1>8. \A j \in 1 .. n + 1: j \in 1 .. n \/ j = n + 1
  BY <1>4
<1>9. Exact'
  <2>1. (\A j \in 1 .. Left: Final(j) \in Registered \ {writer})'
    <3> SUFFICES ASSUME NEW j \in 1 .. n + 1
                 PROVE  Final(j)' \in Registered'
      BY <1>1, <1>2, <1>4, <1>6
    <3> QED
      BY <1>5, <1>6, <1>7, <1>8
  <2>2. (\A j, k \in 1 .. Left: Final(j) = Final(k) => j = k)'
    <3> SUFFICES ASSUME NEW j \in 1 .. n + 1, NEW k \in 1 .. n + 1,
                        Final(j)' = Final(k)'
                 PROVE  j = k
      BY <1>2, <1>4
    <3>1. CASE j \in 1 .. n /\ k \in 1 .. n
      BY <1>5, <1>7, <3>1
    <3>2. CASE j \in 1 .. n /\ k = n + 1
      BY <1>5, <1>6, <1>7, <3>2
    <3>3. CASE j = n + 1 /\ k \in 1 .. n
      BY <1>5, <1>6, <1>7, <3>3
    <3> QED
      BY <1>8, <3>1, <3>2, <3>3
  <2>3. (\A r \in Registered \ {writer}: \E j \in 1 .. Left: Final(j) = r)'
    <3> SUFFICES ASSUME NEW r \in Registered \cup {s}
                 PROVE  \E j \in 1 .. n + 1: Final(j)' = r
      BY <1>2, <1>4, <1>6
    <3>1. CASE r = s
      BY <1>4, <1>5, <3>1
    <3>2. CASE r \in Registered
      <4>1. PICK j \in 1 .. n: Final(j) = r
        BY <1>7, <3>2
      <4> QED
        BY <1>4, <1>5, <4>1
    <3> QED
      BY <3>1, <3>2
  <2> QED
    BY <2>1, <2>2, <2>3 DEF Exact
<1> QED
  BY <1>3, <1>9

\* The unsubscribe finds its channel at one slot; moving the rest down by one
\* leaves every other channel.
LEMMA StartUnsubStep ==
  ASSUME IInv, NEW s \in Subs, StartUnsub(s)
  PROVE  IInv'
<1> USE DEF IInv
<1>1. /\ writer = NoSub /\ writer' = s /\ subPc[s] = "on" /\ s # NoSub
      /\ heap' = heap /\ list' = list /\ subPc' = subPc /\ closed' = closed
  BY NoSubAssumption DEF StartUnsub
<1>2. PICK i \in 1 .. list.len:
        /\ heap[list.arr][i] = s
        /\ moving' = [j \in i .. list.len - 1 |-> heap[list.arr][j + 1]]
  BY DEF StartUnsub
<1>3. list.len \in Nat /\ i \in Nat /\ DOMAIN moving = {} /\ Left = list.len
  BY <1>1 DEF ListType, Left
<1>4. Left' = list.len - 1 /\ DOMAIN moving' = i .. list.len - 1
  BY <1>1, <1>2 DEF Left
<1>5. ListType'
  BY <1>1, <1>2, <1>3, <1>4 DEF ListType, Capacity, Cells
<1>6. Registered' = Registered
  BY <1>1 DEF Registered
<1>7. /\ \A j \in 1 .. list.len: heap[list.arr][j] \in Registered
      /\ \A j, k \in 1 .. list.len: heap[list.arr][j] = heap[list.arr][k] => j = k
      /\ \A r \in Registered: \E j \in 1 .. list.len: heap[list.arr][j] = r
  BY <1>1, <1>3, NoSubAssumption DEF Exact, Final, Registered
<1>8. \A j \in 1 .. list.len - 1:
        Final(j)' = IF j < i THEN heap[list.arr][j] ELSE heap[list.arr][j + 1]
  BY <1>1, <1>2, <1>3, <1>4 DEF Final
<1>9. Exact'
  <2>1. (\A j \in 1 .. Left: Final(j) \in Registered \ {writer})'
    <3> SUFFICES ASSUME NEW j \in 1 .. list.len - 1
                 PROVE  Final(j)' \in Registered \ {s}
      BY <1>1, <1>4, <1>6
    <3>1. CASE j < i
      BY <1>2, <1>3, <1>7, <1>8, <3>1
    <3>2. CASE j >= i
      <4>1. Final(j)' = heap[list.arr][j + 1] /\ j + 1 \in 1 .. list.len /\ j + 1 # i
        BY <1>3, <1>8, <3>2
      <4> QED
        BY <1>2, <1>7, <4>1
    <3> QED
      BY <1>3, <3>1, <3>2
  <2>2. (\A j, k \in 1 .. Left: Final(j) = Final(k) => j = k)'
    <3> SUFFICES ASSUME NEW j \in 1 .. list.len - 1, NEW k \in 1 .. list.len - 1,
                        Final(j)' = Final(k)'
                 PROVE  j = k
      BY <1>4
    <3> QED
      BY <1>3, <1>7, <1>8
  <2>3. (\A r \in Registered \ {writer}: \E j \in 1 .. Left: Final(j) = r)'
    <3> SUFFICES ASSUME NEW r \in Registered \ {s}
                 PROVE  \E j \in 1 .. list.len - 1: Final(j)' = r
      BY <1>1, <1>4, <1>6
    <3>1. PICK j \in 1 .. list.len: heap[list.arr][j] = r
      BY <1>7
    <3>2. j # i
      BY <1>2, <3>1
    <3>3. CASE j < i
      BY <1>3, <1>8, <3>1, <3>3
    <3>4. CASE j > i
      <4>1. j - 1 \in 1 .. list.len - 1 /\ Final(j - 1)' = heap[list.arr][j]
        <5> DEFINE k == j - 1
        <5>1. k \in 1 .. list.len - 1 /\ k >= i /\ k + 1 = j
          BY <1>3, <3>4
        <5> HIDE DEF k
        <5>2. Final(k)' = heap[list.arr][j]
          BY <1>3, <1>8, <5>1
        <5> QED
          BY <5>1, <5>2 DEF k
      <4> QED
        BY <3>1, <4>1
    <3> QED
      BY <1>3, <3>2, <3>3, <3>4
  <2> QED
    BY <2>1, <2>2, <2>3 DEF Exact
<1> QED
  BY <1>5, <1>9

\* A store puts a slot in its final state: what the slots will hold stays.
LEMMA MoveSlotStep ==
  ASSUME IInv, NEW s \in Subs, NEW m, MoveSlot(s, m)
  PROVE  IInv'
<1> USE DEF IInv
<1> DEFINE a == list.arr
           row == [heap[a] EXCEPT ![m] = moving[m]]
<1>1. /\ writer = s /\ s # NoSub /\ writer' = writer /\ list' = list
      /\ subPc' = subPc /\ closed' = closed /\ m \in DOMAIN moving
      /\ heap' = [heap EXCEPT ![a][m] = moving[m]]
      /\ moving' = [k \in DOMAIN moving \ {m} |-> moving[k]]
  BY NoSubAssumption DEF MoveSlot
<1>2. list.len \in Nat /\ list.len > 0 /\ Left = list.len - 1 /\ Left' = Left
  BY <1>1 DEF ListType, Left
<1>3. DOMAIN moving \subseteq 1 .. Left /\ m \in 1 .. Left
  BY <1>1 DEF ListType
<1>4. moving[m] \in Cells
  BY <1>1, <1>3 DEF Exact, Final, Registered, Cells
<1>5. /\ a \in 1 .. Len(heap) /\ heap[a] \in Seq(Cells)
      /\ Len(heap[a]) >= list.len /\ m \in 1 .. Len(heap[a])
  BY <1>2, <1>3, ArrayType
<1>6. /\ row \in Seq(Cells) /\ Len(row) = Len(heap[a])
      /\ \A j \in 1 .. Len(heap[a]): row[j] = IF j = m THEN moving[m] ELSE heap[a][j]
  BY <1>4, <1>5, ExceptSeq
<1>7. heap' = [heap EXCEPT ![a] = row]
  BY <1>1, <1>5
<1> HIDE DEF row
<1>8. heap' \in Seq(Seq(Cells)) /\ Len(heap') = Len(heap) /\ heap'[a] = row
  BY <1>5, <1>6, <1>7, ExceptSeq DEF ListType
<1>9. ListType'
  BY <1>1, <1>2, <1>3, <1>5, <1>6, <1>8 DEF ListType, Capacity
<1>10. \A j \in 1 .. Left: Final(j)' = Final(j)
  BY <1>1, <1>2, <1>3, <1>5, <1>6, <1>8 DEF Final
<1>11. Registered' = Registered
  BY <1>1 DEF Registered
<1>12. Exact'
  BY <1>1, <1>2, <1>10, <1>11 DEF Exact
<1> QED
  BY <1>9, <1>12

LEMMA EndUnsubStep ==
  ASSUME IInv, NEW s \in Subs, EndUnsub(s)
  PROVE  IInv'
<1> USE DEF IInv
<1>1. /\ writer = s /\ s # NoSub /\ writer' = NoSub /\ DOMAIN moving = {}
      /\ list' = [list EXCEPT !.len = @ - 1] /\ moving' = moving /\ heap' = heap
      /\ closed' = closed \cup {s} /\ subPc' = [subPc EXCEPT ![s] = "off"]
  BY NoSubAssumption DEF EndUnsub
<1>2. list.len \in Nat /\ list.len > 0 /\ Left = list.len - 1 /\ Left' = Left
  BY <1>1 DEF ListType, Left
<1>3. ListType'
  BY <1>1, <1>2 DEF ListType, Capacity, Cells
<1>4. \A j \in 1 .. Left: Final(j)' = Final(j)
  BY <1>1, <1>2 DEF Final, ListType
<1>5. Registered' = Registered \ {s} /\ NoSub \notin Registered
  BY <1>1, NoSubAssumption DEF ListType, Registered
<1>6. Exact'
  BY <1>1, <1>2, <1>4, <1>5 DEF Exact
<1> QED
  BY <1>3, <1>6

\* Every step keeps the array type and what the slots will hold.
LEMMA InvStep == IInv /\ [Next]_vars => IInv'
<1> SUFFICES ASSUME IInv, [Next]_vars
             PROVE  IInv'
  OBVIOUS
<1>1. CASE UNCHANGED subVars
  BY <1>1 DEF subVars, IInv, ListType, Exact, Capacity, Left, Final, Registered
<1>2. CASE \E s \in Subs: Register(s)
  BY <1>2, RegisterStep
<1>3. CASE \E s \in Subs: StartUnsub(s)
  BY <1>3, StartUnsubStep
<1>4. CASE \E s \in Subs, m \in 1 .. list.len: MoveSlot(s, m)
  BY <1>4, MoveSlotStep
<1>5. CASE \E s \in Subs: EndUnsub(s)
  BY <1>5, EndUnsubStep
<1> QED
  BY <1>1, <1>2, <1>3, <1>4, <1>5 DEF Next, vars, Alive, Critical, Receive,
     CopyHeader, PublishLoop, ReadSlot, Send, Offered, EndPublish, SendOnClosed

\* With the lock free no store is pending, so the slots are what they will be.
LEMMA InvList == IInv => ListExact
<1> SUFFICES ASSUME IInv, writer = NoSub
             PROVE  /\ Elements = Registered
                    /\ Cardinality(Registered) = list.len
                    /\ Registered \cap closed = {}
  BY DEF ListExact
<1> USE DEF IInv
<1>1. list.len \in Nat /\ Left = list.len /\ NoSub \notin Registered
  BY NoSubAssumption DEF ListType, Left, Registered
<1>2. /\ \A j \in 1 .. list.len: heap[list.arr][j] \in Registered
      /\ \A j, k \in 1 .. list.len: heap[list.arr][j] = heap[list.arr][k] => j = k
      /\ \A r \in Registered: \E j \in 1 .. list.len: heap[list.arr][j] = r
  BY <1>1 DEF ListType, Exact, Final
<1>3. Elements = Registered
  BY <1>2 DEF Elements
<1>4. Cardinality(Registered) = list.len
  <2> DEFINE f == [j \in 1 .. list.len |-> heap[list.arr][j]]
  <2>1. f \in Bijection(1 .. list.len, Registered)
    BY <1>2 DEF Bijection, Injection, IsInjective, Surjection
  <2>2. ExistsBijection(1 .. list.len, Registered)
    BY <2>1 DEF ExistsBijection
  <2> QED
    BY <1>1, <2>2, FS_CountingElements
<1>5. Registered \cap closed = {}
  BY DEF ListType, Registered
<1> QED
  BY <1>3, <1>4, <1>5

-----------------------------------------------------------------------------
(* What a publish sees of the list, and whom it offers its batch to. *)

\* Nobody a publish started with has ended its subscription or is about to.
Undisturbed(p) == members[p] \subseteq Registered \ {writer}

\* What a publish reads at slot j of its copy of the slice.
Seen(p, j) == heap[view[p].arr][j]

PubType ==
  /\ pubPc \in [Pubs -> {"idle", "read", "send"}]
  /\ view \in [Pubs -> [arr: Nat, len: Nat, next: Nat]]
  /\ offers \in [Pubs -> [Subs -> Nat]]
  /\ members \in [Pubs -> SUBSET Subs]
  /\ DOMAIN cur = Pubs
  /\ \A p \in Pubs: \A s \in members[p]: subPc[s] # "new"

\* The slots of an undisturbed publish hold the subscribers it started with,
\* each once, and no store under way reaches them.
ViewExact(p) ==
  /\ view[p].arr <= Len(heap)
  /\ view[p].len > 0 => view[p].arr > 0 /\ view[p].len <= Len(heap[view[p].arr])
  /\ view[p].arr = list.arr => /\ view[p].len <= Left
                               /\ \A j \in DOMAIN moving: j > view[p].len
  /\ \A j \in 1 .. view[p].len: Seen(p, j) \in members[p]
  /\ \A j, k \in 1 .. view[p].len: Seen(p, j) = Seen(p, k) => j = k
  /\ \A s \in members[p]: \E j \in 1 .. view[p].len: Seen(p, j) = s

\* The batch was offered once to those at the slots read so far.
OfferedSoFar(p) ==
  /\ view[p].next \in 1 .. view[p].len + 1
  /\ \A s \in Subs: offers[p][s] =
       IF \E j \in 1 .. view[p].next - 1: Seen(p, j) = s THEN 1 ELSE 0
  /\ pubPc[p] = "send" => view[p].next <= view[p].len /\ cur[p] = Seen(p, view[p].next)

PubInv ==
  /\ PubType
  /\ \A p \in Pubs:
       pubPc[p] # "idle" /\ Undisturbed(p) => ViewExact(p) /\ OfferedSoFar(p)

\* A step of the list that changes no slot a publish can see, and leaves its
\* array alone or keeps the move under way beyond its copy, disturbs nothing.
LEMMA PubKept ==
  ASSUME PubType, UNCHANGED pubVars, NEW p \in Pubs,
         ViewExact(p), OfferedSoFar(p),
         \A j \in 1 .. view[p].len: Seen(p, j)' = Seen(p, j),
         view[p].arr <= Len(heap'),
         view[p].len > 0 => view[p].len <= Len(heap'[view[p].arr]),
         view[p].arr = list'.arr => /\ view[p].len <= Left'
                                    /\ \A j \in DOMAIN moving': j > view[p].len
  PROVE  ViewExact(p)' /\ OfferedSoFar(p)'
<1>1. view[p].len \in Nat /\ view[p].next \in Nat /\ view[p].next <= view[p].len + 1
  BY DEF PubType, OfferedSoFar
<1>2. /\ view' = view /\ members' = members /\ offers' = offers /\ cur' = cur
      /\ pubPc' = pubPc
  BY DEF pubVars
<1>3. \A j \in 1 .. view[p].next - 1: j \in 1 .. view[p].len
  BY <1>1
<1>4. ViewExact(p)'
  BY <1>1, <1>2 DEF ViewExact
<1>5. OfferedSoFar(p)'
  <2>1. \A s \in Subs: offers'[p][s] =
          IF \E j \in 1 .. view'[p].next - 1: Seen(p, j)' = s THEN 1 ELSE 0
    BY <1>2, <1>3 DEF OfferedSoFar
  <2>2. pubPc[p] = "send" => cur[p] = Seen(p, view[p].next)'
    <3>1. pubPc[p] = "send" => view[p].next \in 1 .. view[p].len
                               /\ cur[p] = Seen(p, view[p].next)
      BY <1>1 DEF OfferedSoFar
    <3> QED
      BY <1>2, <3>1 DEF Seen
  <2> QED
    BY <1>1, <1>2, <2>1, <2>2 DEF OfferedSoFar
<1> QED
  BY <1>4, <1>5

LEMMA RegisterPub ==
  ASSUME IInv, PubInv, NEW s \in Subs, Register(s)
  PROVE  PubInv'
<1>1. /\ UNCHANGED pubVars /\ writer = NoSub /\ writer' = NoSub /\ moving' = moving
      /\ DOMAIN moving = {} /\ subPc[s] = "new" /\ subPc' = [subPc EXCEPT ![s] = "on"]
  BY DEF Register, IInv, ListType
<1>2. PubType'
  BY <1>1 DEF PubInv, PubType, pubVars, IInv, ListType
<1>3. ASSUME NEW p \in Pubs, pubPc'[p] # "idle", Undisturbed(p)'
      PROVE  ViewExact(p)' /\ OfferedSoFar(p)'
  <2>1. Registered' = Registered \cup {s} /\ s \notin members[p] /\ members' = members
    BY <1>1 DEF Registered, PubInv, PubType, pubVars, IInv, ListType
  <2>2. ViewExact(p) /\ OfferedSoFar(p)
    BY <1>1, <1>3, <2>1 DEF PubInv, Undisturbed, pubVars
  <2>3. /\ view[p].len \in Nat /\ view[p].arr \in Nat /\ list.len \in Nat
        /\ list \in [arr: Nat, len: Nat] /\ heap \in Seq(Seq(Cells)) /\ heap' \in Seq(Seq(Cells))
        /\ view' = view
    BY <1>1, RegisterCells DEF PubInv, PubType, IInv, ListType, pubVars
  <2>4. /\ view[p].arr <= Len(heap)
        /\ view[p].len > 0 => view[p].arr \in 1 .. Len(heap)
                              /\ view[p].len <= Len(heap[view[p].arr])
        /\ view[p].arr = list.arr => view[p].len <= list.len
    BY <1>1, <2>2, <2>3 DEF ViewExact, Left
  <2>5. /\ Len(heap') >= Len(heap) /\ list'.len = list.len + 1
        /\ list'.arr = list.arr \/ list'.arr = Len(heap) + 1
        /\ \A a \in 1 .. Len(heap):
             /\ Len(heap'[a]) = Len(heap[a])
             /\ \A j \in 1 .. Len(heap[a]):
                  a # list.arr \/ j <= list.len => heap'[a][j] = heap[a][j]
    BY RegisterCells DEF IInv
  <2>6. \A j \in 1 .. view[p].len: Seen(p, j)' = Seen(p, j)
    <3> SUFFICES ASSUME NEW j \in 1 .. view[p].len PROVE Seen(p, j)' = Seen(p, j)
      OBVIOUS
    <3> DEFINE a == view[p].arr
    <3>1. a \in 1 .. Len(heap) /\ j \in 1 .. Len(heap[a]) /\ (a = list.arr => j <= list.len)
      BY <2>3, <2>4
    <3>2. heap'[a][j] = heap[a][j]
      BY <2>5, <3>1
    <3> QED
      BY <2>3, <3>2 DEF Seen
  <2>7. view[p].arr <= Len(heap')
    BY <2>3, <2>4, <2>5, LenProperties
  <2>8. view[p].len > 0 => view[p].len <= Len(heap'[view[p].arr])
    BY <2>4, <2>5
  <2>9. view[p].arr = list'.arr => /\ view[p].len <= Left'
                                   /\ \A j \in DOMAIN moving': j > view[p].len
    <3>1. Len(heap) \in Nat /\ view[p].arr # Len(heap) + 1
      BY <2>3, <2>4, LenProperties
    <3> QED
      BY <1>1, <2>3, <2>4, <2>5, <3>1 DEF Left
  <2> QED
    BY <1>1, <2>2, <2>6, <2>7, <2>8, <2>9, PubKept DEF PubInv
<1> QED
  BY <1>2, <1>3 DEF PubInv

LEMMA StartUnsubPub ==
  ASSUME IInv, PubInv, NEW s \in Subs, StartUnsub(s)
  PROVE  PubInv'
<1>1. /\ UNCHANGED pubVars /\ writer = NoSub /\ writer' = s /\ s # NoSub
      /\ heap' = heap /\ list' = list /\ subPc' = subPc
  BY NoSubAssumption DEF StartUnsub
<1>2. PICK i \in 1 .. list.len:
        /\ heap[list.arr][i] = s
        /\ moving' = [j \in i .. list.len - 1 |-> heap[list.arr][j + 1]]
  BY DEF StartUnsub
<1>3. PubType'
  BY <1>1 DEF PubInv, PubType, pubVars
<1>4. ASSUME NEW p \in Pubs, pubPc'[p] # "idle", Undisturbed(p)'
      PROVE  ViewExact(p)' /\ OfferedSoFar(p)'
  <2>1. Registered' = Registered /\ members' = members /\ view' = view /\ s \notin members[p]
        /\ NoSub \notin Registered
    BY <1>1, <1>4, NoSubAssumption DEF Registered, Undisturbed, pubVars
  <2>2. ViewExact(p) /\ OfferedSoFar(p)
    BY <1>1, <1>4, <2>1 DEF PubInv, Undisturbed, pubVars
  <2>3. view[p].len \in Nat /\ list.len \in Nat /\ i \in Nat
    BY DEF PubInv, PubType, IInv, ListType
  <2>4. view[p].arr = list.arr => view[p].len < i
    <3>1. \A j \in 1 .. view[p].len: Seen(p, j) # s
      BY <2>1, <2>2 DEF ViewExact
    <3>2. view[p].arr = list.arr => i \notin 1 .. view[p].len
      BY <1>2, <3>1 DEF Seen
    <3> QED
      BY <2>3, <3>2
  <2>5. view[p].arr = list'.arr => /\ view[p].len <= Left'
                                   /\ \A j \in DOMAIN moving': j > view[p].len
    <3>1. Left' = list.len - 1 /\ DOMAIN moving' = i .. list.len - 1
      BY <1>1, <1>2 DEF Left
    <3> QED
      BY <1>1, <2>3, <2>4, <3>1
  <2>6. \A j \in 1 .. view[p].len: Seen(p, j)' = Seen(p, j)
    BY <1>1, <2>1 DEF Seen
  <2>7. view[p].arr <= Len(heap') /\ (view[p].len > 0 => view[p].len <= Len(heap'[view[p].arr]))
    BY <1>1, <2>2 DEF ViewExact
  <2> QED
    BY <1>1, <2>2, <2>5, <2>6, <2>7, PubKept DEF PubInv
<1> QED
  BY <1>3, <1>4 DEF PubInv

LEMMA MoveSlotPub ==
  ASSUME IInv, PubInv, NEW s \in Subs, NEW m, MoveSlot(s, m)
  PROVE  PubInv'
<1> DEFINE a == list.arr
<1>1. /\ UNCHANGED pubVars /\ writer = s /\ s # NoSub /\ writer' = writer
      /\ list' = list /\ subPc' = subPc /\ m \in DOMAIN moving
      /\ heap' = [heap EXCEPT ![a][m] = moving[m]]
      /\ moving' = [k \in DOMAIN moving \ {m} |-> moving[k]]
  BY NoSubAssumption DEF MoveSlot
<1>2. /\ list.len \in Nat /\ list.len > 0 /\ Left' = Left
      /\ heap \in Seq(Seq(Cells)) /\ m \in 1 .. list.len
  BY <1>1 DEF IInv, ListType, Left
<1>3. a \in 1 .. Len(heap) /\ heap[a] \in Seq(Cells) /\ m \in 1 .. Len(heap[a])
  BY <1>2, ArrayType DEF IInv
<1>4. /\ Len(heap') = Len(heap)
      /\ \A b \in 1 .. Len(heap):
           /\ Len(heap'[b]) = Len(heap[b])
           /\ \A j: b # a \/ j # m => heap'[b][j] = heap[b][j]
  <2> DEFINE row == [heap[a] EXCEPT ![m] = moving[m]]
  <2>1. moving[m] \in Cells
    BY <1>1 DEF IInv, ListType, Exact, Final, Registered, Cells
  <2>2. row \in Seq(Cells) /\ Len(row) = Len(heap[a])
    BY <1>3, <2>1, ExceptSeq
  <2>3. \A j: j # m => row[j] = heap[a][j]
    OBVIOUS
  <2>4. heap' = [heap EXCEPT ![a] = row]
    BY <1>1, <1>3
  <2> HIDE DEF row
  <2>5. /\ Len(heap') = Len(heap) /\ heap'[a] = row
        /\ \A b \in 1 .. Len(heap): b # a => heap'[b] = heap[b]
    BY <1>2, <1>3, <2>2, <2>4, ExceptSeq
  <2> QED
    BY <2>2, <2>3, <2>5
<1>5. PubType'
  BY <1>1 DEF PubInv, PubType, pubVars
<1>6. ASSUME NEW p \in Pubs, pubPc'[p] # "idle", Undisturbed(p)'
      PROVE  ViewExact(p)' /\ OfferedSoFar(p)'
  <2>1. Registered' = Registered /\ members' = members /\ view' = view
    BY <1>1 DEF Registered, pubVars
  <2>2. ViewExact(p) /\ OfferedSoFar(p)
    BY <1>1, <1>6, <2>1 DEF PubInv, Undisturbed, pubVars
  <2>3. /\ view[p].len \in Nat /\ view[p].arr \in Nat /\ view[p].arr <= Len(heap)
        /\ view[p].len > 0 => view[p].arr \in 1 .. Len(heap)
                              /\ view[p].len <= Len(heap[view[p].arr])
        /\ view[p].arr = a => view[p].len <= Left /\ \A j \in DOMAIN moving: j > view[p].len
    BY <2>2 DEF PubInv, PubType, ViewExact
  <2>4. \A j \in 1 .. view[p].len: Seen(p, j)' = Seen(p, j)
    <3> SUFFICES ASSUME NEW j \in 1 .. view[p].len
                 PROVE  heap'[view[p].arr][j] = heap[view[p].arr][j]
      BY <2>1 DEF Seen
    <3>1. view[p].arr \in 1 .. Len(heap) /\ (view[p].arr # a \/ j # m)
      BY <1>1, <2>3
    <3> QED
      BY <1>4, <3>1
  <2>5. view[p].arr <= Len(heap')
    BY <1>4, <2>3
  <2>6. view[p].len > 0 => view[p].len <= Len(heap'[view[p].arr])
    BY <1>4, <2>3
  <2>7. view[p].arr = list'.arr => /\ view[p].len <= Left'
                                   /\ \A j \in DOMAIN moving': j > view[p].len
    BY <1>1, <1>2, <2>3
  <2> QED
    BY <1>1, <2>2, <2>4, <2>5, <2>6, <2>7, PubKept DEF PubInv
<1> QED
  BY <1>5, <1>6 DEF PubInv

LEMMA EndUnsubPub ==
  ASSUME IInv, PubInv, NEW s \in Subs, EndUnsub(s)
  PROVE  PubInv'
<1>1. /\ UNCHANGED pubVars /\ writer = s /\ s # NoSub /\ writer' = NoSub
      /\ list' = [list EXCEPT !.len = @ - 1] /\ heap' = heap /\ moving' = moving
      /\ subPc' = [subPc EXCEPT ![s] = "off"]
  BY NoSubAssumption DEF EndUnsub
<1>2. /\ list \in [arr: Nat, len: Nat] /\ list'.arr = list.arr /\ Left' = Left
      /\ subPc[s] = "on" /\ Registered' = Registered \ {s} /\ NoSub \notin Registered
  BY <1>1, NoSubAssumption DEF IInv, ListType, Left, Registered
<1>3. PubType'
  BY <1>1 DEF PubInv, PubType, pubVars, IInv, ListType
<1>4. ASSUME NEW p \in Pubs, pubPc'[p] # "idle", Undisturbed(p)'
      PROVE  ViewExact(p)' /\ OfferedSoFar(p)'
  <2>1. ViewExact(p) /\ OfferedSoFar(p)
    BY <1>1, <1>2, <1>4 DEF PubInv, Undisturbed, pubVars
  <2>2. \A j \in 1 .. view[p].len: Seen(p, j)' = Seen(p, j)
    BY <1>1 DEF Seen, pubVars
  <2>3. view[p].arr <= Len(heap') /\ (view[p].len > 0 => view[p].len <= Len(heap'[view[p].arr]))
    BY <1>1, <2>1 DEF ViewExact
  <2>4. view[p].arr = list'.arr => /\ view[p].len <= Left'
                                   /\ \A j \in DOMAIN moving': j > view[p].len
    BY <1>1, <1>2, <2>1 DEF ViewExact
  <2> QED
    BY <1>1, <2>1, <2>2, <2>3, <2>4, PubKept DEF PubInv
<1> QED
  BY <1>3, <1>4 DEF PubInv

\* What a publish knows is its own, as long as the list does not change.
LEMMA PubOwn ==
  ASSUME NEW p \in Pubs, UNCHANGED subVars,
         view'[p] = view[p], members'[p] = members[p], offers'[p] = offers[p],
         cur'[p] = cur[p], pubPc'[p] = pubPc[p],
         pubPc[p] # "idle" /\ Undisturbed(p) => ViewExact(p) /\ OfferedSoFar(p)
  PROVE  (pubPc[p] # "idle" /\ Undisturbed(p) => ViewExact(p) /\ OfferedSoFar(p))'
BY DEF subVars, Undisturbed, ViewExact, OfferedSoFar, Registered, Seen, Left

LEMMA CopyHeaderPub ==
  ASSUME IInv, PubInv, NEW p \in Pubs, CopyHeader(p)
  PROVE  PubInv'
<1>1. /\ UNCHANGED subVars /\ cur' = cur /\ writer = NoSub
      /\ pubPc' = [pubPc EXCEPT ![p] = "read"]
      /\ view' = [view EXCEPT ![p] = [arr |-> list.arr, len |-> list.len, next |-> 1]]
      /\ offers' = [offers EXCEPT ![p] = [s \in Subs |-> 0]]
      /\ members' = [members EXCEPT ![p] = Registered]
  BY DEF CopyHeader, Registered
<1>2. /\ list \in [arr: Nat, len: Nat] /\ list.arr <= Len(heap)
      /\ list.len <= Capacity(list) /\ DOMAIN moving = {} /\ Left = list.len
      /\ subPc' = subPc
  BY <1>1 DEF IInv, ListType, Left, subVars
<1>3. PubType'
  <2>1. members' \in [Pubs -> SUBSET Subs]
    BY <1>1 DEF PubInv, PubType, Registered
  <2>2. \A q \in Pubs: \A s \in members'[q]: subPc'[s] # "new"
    BY <1>1, <1>2 DEF PubInv, PubType, Registered
  <2> QED
    BY <1>1, <1>2, <2>1, <2>2 DEF PubInv, PubType
<1>4. ASSUME NEW q \in Pubs, q # p, pubPc'[q] # "idle", Undisturbed(q)'
      PROVE  ViewExact(q)' /\ OfferedSoFar(q)'
  <2>1. /\ view'[q] = view[q] /\ members'[q] = members[q] /\ offers'[q] = offers[q]
        /\ cur'[q] = cur[q] /\ pubPc'[q] = pubPc[q]
    BY <1>1, <1>4 DEF PubInv, PubType
  <2> QED
    BY <1>1, <1>4, <2>1, PubOwn DEF PubInv
<1>5. ViewExact(p)' /\ OfferedSoFar(p)'
  <2>1. /\ view'[p] = [arr |-> list.arr, len |-> list.len, next |-> 1]
        /\ members'[p] = Registered /\ offers'[p] = [s \in Subs |-> 0]
        /\ pubPc'[p] = "read"
    BY <1>1 DEF PubInv, PubType
  <2>2. heap' = heap /\ list' = list /\ moving' = moving /\ Left' = Left
    BY <1>1 DEF subVars, Left
  <2>3. \A j: Seen(p, j)' = heap[list.arr][j]
    BY <2>1, <2>2 DEF Seen
  <2>4. /\ \A j \in 1 .. list.len: heap[list.arr][j] \in Registered
        /\ \A j, k \in 1 .. list.len: heap[list.arr][j] = heap[list.arr][k] => j = k
        /\ \A s \in Registered: \E j \in 1 .. list.len: heap[list.arr][j] = s
    BY <1>1, <1>2, NoSubAssumption DEF IInv, Exact, Final, Registered
  <2>5. list.len > 0 => list.arr > 0 /\ list.len <= Len(heap[list.arr])
    BY <1>2 DEF Capacity
  <2>6. ViewExact(p)'
    BY <1>2, <2>1, <2>2, <2>3, <2>4, <2>5 DEF ViewExact
  <2>7. 1 .. (1 - 1) = {}
    OBVIOUS
  <2>8. OfferedSoFar(p)'
    BY <1>2, <2>1, <2>7 DEF OfferedSoFar
  <2> QED
    BY <2>6, <2>8
<1> QED
  BY <1>3, <1>4, <1>5 DEF PubInv

LEMMA ReadSlotPub ==
  ASSUME PubInv, NEW p \in Pubs, ReadSlot(p)
  PROVE  PubInv'
<1>1. /\ UNCHANGED <<subVars, view, offers, members>>
      /\ pubPc[p] = "read" /\ view[p].next <= view[p].len
      /\ cur' = [cur EXCEPT ![p] = Seen(p, view[p].next)]
      /\ pubPc' = [pubPc EXCEPT ![p] = "send"]
  BY DEF ReadSlot, Seen
<1>2. PubType'
  BY <1>1 DEF PubInv, PubType, subVars
<1>3. ASSUME NEW q \in Pubs, q # p, pubPc'[q] # "idle", Undisturbed(q)'
      PROVE  ViewExact(q)' /\ OfferedSoFar(q)'
  <2>1. cur'[q] = cur[q] /\ pubPc'[q] = pubPc[q]
    BY <1>1, <1>3 DEF PubInv, PubType
  <2> QED
    BY <1>1, <1>3, <2>1, PubOwn DEF PubInv
<1>4. ASSUME Undisturbed(p)' PROVE ViewExact(p)' /\ OfferedSoFar(p)'
  <2>1. Undisturbed(p)
    BY <1>1, <1>4 DEF Undisturbed, Registered, subVars
  <2>2. ViewExact(p) /\ OfferedSoFar(p)
    BY <1>1, <2>1 DEF PubInv
  <2>3. cur'[p] = Seen(p, view[p].next)
    BY <1>1 DEF PubInv, PubType
  <2> QED
    BY <1>1, <2>2, <2>3 DEF ViewExact, OfferedSoFar, Seen, subVars, Left
<1> QED
  BY <1>2, <1>3, <1>4 DEF PubInv

LEMMA SendPub ==
  ASSUME PubInv, NEW p \in Pubs, Send(p)
  PROVE  PubInv'
<1> DEFINE c == cur[p]
<1>1. /\ UNCHANGED <<subVars, cur, members>> /\ pubPc[p] = "send"
      /\ offers' = [offers EXCEPT ![p][c] = @ + 1]
      /\ view' = [view EXCEPT ![p].next = @ + 1]
      /\ pubPc' = [pubPc EXCEPT ![p] = "read"]
  BY DEF Send, Offered
<1>2. /\ offers'[p] = [offers[p] EXCEPT ![c] = @ + 1]
      /\ \A q \in Pubs: q # p => offers'[q] = offers[q]
      /\ offers' \in [Pubs -> [Subs -> Nat]]
  <2>1. offers \in [Pubs -> [Subs -> Nat]]
    BY DEF PubInv, PubType
  <2> DEFINE row == [offers[p] EXCEPT ![c] = @ + 1]
  <2>2. row \in [Subs -> Nat]
    <3>1. offers[p] \in [Subs -> Nat]
      BY <2>1
    <3>2. c \in Subs => offers[p][c] + 1 \in Nat
      BY <3>1
    <3> QED
      BY <3>1, <3>2
  <2>3. offers' = [offers EXCEPT ![p] = row]
    BY <1>1, <2>1
  <2> HIDE DEF row
  <2> QED
    BY <2>1, <2>2, <2>3 DEF row
<1>3. /\ view'[p].arr = view[p].arr /\ view'[p].len = view[p].len
      /\ view'[p].next = view[p].next + 1
      /\ \A q \in Pubs: q # p => view'[q] = view[q]
      /\ view' \in [Pubs -> [arr: Nat, len: Nat, next: Nat]]
  <2> DEFINE row == [view[p] EXCEPT !.next = @ + 1]
  <2>1. view \in [Pubs -> [arr: Nat, len: Nat, next: Nat]]
    BY DEF PubInv, PubType
  <2>2. /\ row \in [arr: Nat, len: Nat, next: Nat]
        /\ row.arr = view[p].arr /\ row.len = view[p].len /\ row.next = view[p].next + 1
    BY <2>1
  <2>3. view' = [view EXCEPT ![p] = row]
    BY <1>1, <2>1
  <2> HIDE DEF row
  <2> QED
    BY <2>1, <2>2, <2>3
<1>4. PubType'
  BY <1>1, <1>2, <1>3 DEF PubInv, PubType, subVars
<1>5. ASSUME NEW q \in Pubs, q # p, pubPc'[q] # "idle", Undisturbed(q)'
      PROVE  ViewExact(q)' /\ OfferedSoFar(q)'
  <2>1. view'[q] = view[q] /\ offers'[q] = offers[q] /\ pubPc'[q] = pubPc[q]
    BY <1>1, <1>2, <1>3, <1>5 DEF PubInv, PubType
  <2> QED
    BY <1>1, <1>5, <2>1, PubOwn DEF PubInv
<1>6. ASSUME Undisturbed(p)' PROVE ViewExact(p)' /\ OfferedSoFar(p)'
  <2>1. Undisturbed(p)
    BY <1>1, <1>6 DEF Undisturbed, Registered, subVars
  <2>2. ViewExact(p) /\ OfferedSoFar(p)
    BY <1>1, <2>1 DEF PubInv
  <2>3. \A j: Seen(p, j)' = Seen(p, j)
    BY <1>1, <1>3 DEF Seen, subVars
  <2>4. ViewExact(p)'
    BY <1>1, <1>3, <2>2, <2>3 DEF ViewExact, subVars, Left
  <2>5. PICK n \in Nat: n = view[p].next /\ n \in 1 .. view[p].len /\ c = Seen(p, n)
    BY <1>1, <2>2 DEF OfferedSoFar, PubInv, PubType
  <2>6. c \in Subs /\ \A j \in 1 .. n - 1: Seen(p, j) # c
    <3>1. \A j \in 1 .. n - 1: j \in 1 .. view[p].len /\ j # n
      BY <2>5 DEF PubInv, PubType
    <3> QED
      BY <2>2, <2>5, <3>1 DEF ViewExact, PubInv, PubType
  <2>7. \A j: j \in 1 .. n <=> j \in 1 .. n - 1 \/ j = n
    BY <2>5
  <2>8. ASSUME NEW s \in Subs
        PROVE  offers'[p][s] = IF \E j \in 1 .. n: Seen(p, j) = s THEN 1 ELSE 0
    <3>1. offers[p][s] = IF \E j \in 1 .. n - 1: Seen(p, j) = s THEN 1 ELSE 0
      BY <2>2, <2>5 DEF OfferedSoFar
    <3>2. CASE s = c
      <4>1. offers[p][s] = 0 /\ offers'[p][s] = offers[p][s] + 1
        BY <1>2, <2>6, <3>1, <3>2 DEF PubInv, PubType
      <4> QED
        BY <2>5, <2>7, <3>2, <4>1
    <3>3. CASE s # c
      <4>1. offers'[p][s] = offers[p][s]
        BY <1>2, <3>3 DEF PubInv, PubType
      <4> QED
        BY <2>5, <2>7, <3>1, <3>3, <4>1
    <3> QED
      BY <3>2, <3>3
  <2>9. pubPc'[p] = "read" /\ view'[p].next - 1 = n /\ view'[p].next \in 1 .. view'[p].len + 1
    <3>1. pubPc'[p] = "read" /\ view[p].len \in Nat
      BY <1>1 DEF PubInv, PubType
    <3>2. view'[p].next = n + 1 /\ view'[p].len = view[p].len
      BY <1>3, <2>5
    <3> QED
      BY <2>5, <3>1, <3>2
  <2>10. OfferedSoFar(p)'
    BY <2>3, <2>8, <2>9 DEF OfferedSoFar
  <2> QED
    BY <2>4, <2>10
<1> QED
  BY <1>4, <1>5, <1>6 DEF PubInv

LEMMA EndPublishPub ==
  ASSUME PubInv, NEW p \in Pubs, EndPublish(p)
  PROVE  PubInv'
<1>1. /\ UNCHANGED <<subVars, view, cur, offers, members>>
      /\ pubPc' = [pubPc EXCEPT ![p] = "idle"]
  BY DEF EndPublish
<1>2. PubType'
  BY <1>1 DEF PubInv, PubType, subVars
<1>3. ASSUME NEW q \in Pubs, pubPc'[q] # "idle", Undisturbed(q)'
      PROVE  ViewExact(q)' /\ OfferedSoFar(q)'
  <2>1. q # p /\ pubPc'[q] = pubPc[q]
    BY <1>1, <1>3 DEF PubInv, PubType
  <2> QED
    BY <1>1, <1>3, <2>1, PubOwn DEF PubInv
<1> QED
  BY <1>2, <1>3 DEF PubInv

LEMMA PubStep == IInv /\ PubInv /\ [Next]_vars => PubInv'
<1> SUFFICES ASSUME IInv, PubInv, [Next]_vars
             PROVE  PubInv'
  OBVIOUS
<1>1. CASE UNCHANGED <<subVars, pubVars>>
  <2>1. PubType'
    BY <1>1 DEF PubInv, PubType, subVars, pubVars
  <2>2. ASSUME NEW p \in Pubs, pubPc'[p] # "idle", Undisturbed(p)'
        PROVE  ViewExact(p)' /\ OfferedSoFar(p)'
    <3>1. pubPc[p] # "idle" /\ Undisturbed(p) => ViewExact(p) /\ OfferedSoFar(p)
      BY DEF PubInv
    <3> QED
      BY <1>1, <2>2, <3>1, PubOwn DEF pubVars
  <2> QED
    BY <2>1, <2>2 DEF PubInv
<1>2. CASE \E s \in Subs: Register(s)
  BY <1>2, RegisterPub
<1>3. CASE \E s \in Subs: StartUnsub(s)
  BY <1>3, StartUnsubPub
<1>4. CASE \E s \in Subs, m \in 1 .. list.len: MoveSlot(s, m)
  BY <1>4, MoveSlotPub
<1>5. CASE \E s \in Subs: EndUnsub(s)
  BY <1>5, EndUnsubPub
<1>6. CASE \E p \in Pubs: CopyHeader(p)
  BY <1>6, CopyHeaderPub
<1>7. CASE \E p \in Pubs: ReadSlot(p)
  BY <1>7, ReadSlotPub
<1>8. CASE \E p \in Pubs: Send(p)
  BY <1>8, SendPub
<1>9. CASE \E p \in Pubs: EndPublish(p)
  BY <1>9, EndPublishPub
<1> QED
  BY <1>1, <1>2, <1>3, <1>4, <1>5, <1>6, <1>7, <1>8, <1>9
  DEF Next, vars, Alive, Critical, Receive, PublishLoop, SendOnClosed

LEMMA InitInv == Init => IInv /\ PubInv
<1> SUFFICES ASSUME Init
             PROVE  IInv /\ PubInv
  OBVIOUS
<1>1. Left = 0 /\ DOMAIN moving = {} /\ Registered = {}
  BY DEF Init, NilSlice, Left, Registered
<1>2. ListType
  BY <1>1, EmptySeq DEF Init, NilSlice, ListType, Capacity, Cells
<1>3. PubType
  BY DEF Init, PubType
<1> QED
  BY <1>1, <1>2, <1>3 DEF Init, IInv, Exact, PubInv

LEMMA Invariance == Spec => [](IInv /\ PubInv)
BY InitInv, InvStep, PubStep, PTL DEF Spec
-----------------------------------------------------------------------------
\* Whoever finds the lock of the subscriber list free finds the registered
\* channels in it, each once, none of them closed.
THEOREM ListCorrect == Spec => []ListExact
BY Invariance, InvList, PTL

\* A publish that no unsubscribe overlaps offers its batch exactly once to each
\* subscriber it started with and to no other, however many register while it
\* reads the array without the lock.
THEOREM OffersCorrect == Spec => []UndisturbedOffersOnce
<1>1. PubInv => UndisturbedOffersOnce
  <2> SUFFICES ASSUME PubInv, NEW p \in Pubs,
                      pubPc[p] = "read", view[p].next > view[p].len,
                      members[p] \subseteq Registered, writer = NoSub,
                      NEW s \in Subs
               PROVE  offers[p][s] = IF s \in members[p] THEN 1 ELSE 0
    BY DEF UndisturbedOffersOnce
  <2>1. Undisturbed(p)
    BY NoSubAssumption DEF Undisturbed, Registered
  <2>2. ViewExact(p) /\ OfferedSoFar(p) /\ view[p].len \in Nat /\ view[p].next \in Nat
    BY <2>1 DEF PubInv, PubType
  <2>3. view[p].next - 1 = view[p].len
    BY <2>2 DEF OfferedSoFar
  <2>4. offers[p][s] = IF \E j \in 1 .. view[p].len: Seen(p, j) = s THEN 1 ELSE 0
    BY <2>2, <2>3 DEF OfferedSoFar
  <2> QED
    BY <2>2, <2>4 DEF ViewExact
<1> QED
  BY <1>1, Invariance, PTL
-----------------------------------------------------------------------------
(* What the divergences rest on: a publish that an unsubscribe overlaps. *)

Orderly ==
  /\ \A p \in Pubs: pubPc[p] # "idle" => Undisturbed(p)
  /\ ~crashed

\* A batch goes to a channel that is still open, if nobody leaves under it.
LEMMA OpenChannel ==
  ASSUME IInv, PubInv, Orderly, NEW p \in Pubs, pubPc[p] = "send"
  PROVE  cur[p] \notin closed
<1>1. Undisturbed(p) /\ ViewExact(p) /\ OfferedSoFar(p)
  BY DEF Orderly, PubInv
<1>2. view[p].next \in 1 .. view[p].len /\ cur[p] = Seen(p, view[p].next)
  BY <1>1 DEF OfferedSoFar, PubInv, PubType
<1>3. cur[p] \in Registered
  BY <1>1, <1>2 DEF ViewExact, Undisturbed
<1> QED
  BY <1>3 DEF IInv, ListType, Registered

LEMMA OrderlyStep ==
  IInv /\ PubInv /\ Orderly /\ [OrderlyNext]_vars => Orderly'
<1> SUFFICES ASSUME IInv, PubInv, Orderly, [OrderlyNext]_vars
             PROVE  Orderly'
  OBVIOUS
<1>1. /\ subPc \in [Subs -> {"new", "on", "off"}]
      /\ pubPc \in [Pubs -> {"idle", "read", "send"}]
      /\ members \in [Pubs -> SUBSET Subs]
      /\ NoSub \notin Subs /\ ~crashed
  BY NoSubAssumption DEF IInv, ListType, PubInv, PubType, Orderly
<1>2. CASE UNCHANGED vars
  BY <1>2 DEF Orderly, Undisturbed, Registered, vars, subVars, pubVars
<1>3. CASE \E s \in Subs: Alive(Register(s) \/ Receive(s))
  <2>1. /\ UNCHANGED <<pubPc, members, writer, crashed>>
        /\ Registered \subseteq Registered'
    BY <1>1, <1>3 DEF Alive, Register, Receive, subVars, pubVars, Registered
  <2> QED
    BY <2>1 DEF Orderly, Undisturbed
<1>4. ASSUME NEW s \in Subs, Alive(StartUnsub(s)) PROVE Orderly'
  <2>1. UNCHANGED <<pubPc, crashed>> /\ writer = NoSub /\ writer' # NoSub
    BY <1>1, <1>4 DEF Alive, StartUnsub, pubVars
  <2>2. \A p \in Pubs: pubPc[p] = "idle"
    BY <2>1 DEF OrderlyNext, vars, subVars
  <2> QED
    BY <2>1, <2>2 DEF Orderly
<1>5. ASSUME NEW s \in Subs, Alive(Critical(s)) PROVE Orderly'
  <2>1. /\ UNCHANGED <<pubPc, members, crashed>>
        /\ writer = s /\ Registered \ {s} \subseteq Registered' \ {writer'}
    <3>1. CASE \E j \in 1 .. list.len: MoveSlot(s, j)
      BY <1>5, <3>1 DEF Alive, MoveSlot, pubVars, Registered
    <3>2. CASE EndUnsub(s)
      BY <1>1, <1>5, <3>2 DEF Alive, EndUnsub, pubVars, Registered
    <3> QED
      BY <1>5, <3>1, <3>2 DEF Alive, Critical
  <2> QED
    BY <2>1 DEF Orderly, Undisturbed
<1>6. ASSUME NEW p \in Pubs, Alive(CopyHeader(p)) PROVE Orderly'
  <2>1. /\ UNCHANGED <<subPc, writer, crashed>> /\ writer = NoSub
        /\ pubPc' = [pubPc EXCEPT ![p] = "read"]
        /\ members' = [members EXCEPT ![p] = Registered]
    BY <1>6 DEF Alive, CopyHeader, subVars, Registered
  <2>2. Registered' = Registered /\ NoSub \notin Registered
    BY <1>1, <2>1 DEF Registered
  <2> QED
    BY <1>1, <2>1, <2>2 DEF Orderly, Undisturbed
<1>7. ASSUME NEW p \in Pubs, Alive(PublishLoop(p)) PROVE Orderly'
  <2>1. /\ UNCHANGED <<subPc, writer, members, crashed>>
        /\ pubPc[p] # "idle"
        /\ \A q \in Pubs: q # p => pubPc'[q] = pubPc[q]
    BY <1>1, <1>7 DEF Alive, PublishLoop, ReadSlot, Send, Offered, EndPublish, subVars
  <2> QED
    BY <2>1 DEF Orderly, Undisturbed, Registered
<1>8. ~ \E p \in Pubs: SendOnClosed(p)
  BY OpenChannel DEF SendOnClosed
<1> QED
  BY <1>2, <1>3, <1>4, <1>5, <1>6, <1>7, <1>8 DEF OrderlyNext, Next, Alive

LEMMA OrderlyInvariance == OrderlySpec => [](IInv /\ PubInv /\ Orderly)
<1>1. Init => Orderly
  BY DEF Init, Orderly
<1>2. OrderlyNext => Next
  BY DEF OrderlyNext
<1>3. IInv /\ PubInv /\ Orderly /\ [OrderlyNext]_vars => (IInv /\ PubInv /\ Orderly)'
  BY <1>2, InvStep, PubStep, OrderlyStep
<1> QED
  BY <1>1, <1>3, InitInv, PTL DEF OrderlySpec

\* It takes a subscription that ends under a publish to bring the server down:
\* if no unsubscribe begins before the publishes under way are over, nothing is
\* sent on a closed channel.
THEOREM OrderlySafe == OrderlySpec => []NeverPanics
<1>1. Orderly => NeverPanics
  BY DEF Orderly, NeverPanics
<1> QED
  BY <1>1, OrderlyInvariance, PTL

\* It takes the same to let a subscriber that stays miss a batch or get it twice;
\* subscriptions that begin under a publish do neither.
THEOREM OrderlyOffers == OrderlySpec => []SubscribersOfferedOnce
<1>1. PubInv /\ Orderly => SubscribersOfferedOnce
  <2> SUFFICES ASSUME PubInv, Orderly, NEW p \in Pubs,
                      pubPc[p] = "read", view[p].next > view[p].len,
                      NEW s \in members[p] \cap Registered
               PROVE  offers[p][s] = 1
    BY DEF SubscribersOfferedOnce
  <2>1. /\ ViewExact(p) /\ OfferedSoFar(p) /\ s \in Subs
        /\ view[p].len \in Nat /\ view[p].next \in Nat
    BY DEF Orderly, PubInv, PubType, Registered
  <2>2. view[p].next - 1 = view[p].len
    BY <2>1 DEF OfferedSoFar
  <2> QED
    BY <2>1, <2>2 DEF ViewExact, OfferedSoFar
<1> QED
  BY <1>1, OrderlyInvariance, PTL
=============================================================================
