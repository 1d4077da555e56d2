-------------------------- MODULE CapturePanelProofs --------------------------
(***************************************************************************)
(* Safety of a capture tab, for any frames, ring and batch sizes: no frame *)
(* is lost between table and buffer, the decode panel is about the frame   *)
(* that was clicked or one of the same time, the badge tells the truth,    *)
(* the range offered covers the rows of a day, and no field of a frame is  *)
(* shown twice or nowhere.                                                 *)
(***************************************************************************)
EXTENDS CapturePanel, SequenceTheorems, WellFoundedInduction, TLAPS

\* slice(-n): how long it is and where its elements come from.
LEMMA LastOfProperties ==
  ASSUME NEW S, NEW s \in Seq(S), NEW n \in Nat
  PROVE  /\ LastOf(n, s) \in Seq(S)
         /\ Len(LastOf(n, s)) = IF Len(s) > n THEN n ELSE Len(s)
         /\ \A i \in 1 .. Len(LastOf(n, s)):
              LastOf(n, s)[i] = s[Len(s) - Len(LastOf(n, s)) + i]
<1>1. Len(s) \in Nat /\ \A i \in 1 .. Len(s): s[i] \in S
  BY LenProperties
<1> DEFINE m == IF Len(s) > n THEN Len(s) - n + 1 ELSE 1
<1>2. m \in Int /\ m >= 1 /\ m <= Len(s) + 1
  BY <1>1
<1>3. \A i \in m .. Len(s): s[i] \in S
  BY <1>1, <1>2
<1>4. LastOf(n, s) = SubSeq(s, m, Len(s))
  BY DEF LastOf
<1>5. /\ SubSeq(s, m, Len(s)) \in Seq(S)
      /\ Len(SubSeq(s, m, Len(s))) = IF m <= Len(s) THEN Len(s) - m + 1 ELSE 0
      /\ \A i \in 1 .. Len(s) - m + 1: SubSeq(s, m, Len(s))[i] = s[m + i - 1]
  <2> HIDE DEF m
  <2> QED
    BY <1>1, <1>2, <1>3, SubSeqProperties
<1>6. m = IF Len(s) > n THEN Len(s) - n + 1 ELSE 1
  OBVIOUS
<1> HIDE DEF m
<1>7. Len(LastOf(n, s)) = Len(s) - m + 1
  BY <1>1, <1>2, <1>4, <1>5
<1>8. ASSUME NEW i \in 1 .. Len(LastOf(n, s))
      PROVE  LastOf(n, s)[i] = s[Len(s) - Len(LastOf(n, s)) + i]
  <2>1. m + i - 1 = Len(s) - Len(LastOf(n, s)) + i /\ i \in 1 .. Len(s) - m + 1
    BY <1>1, <1>2, <1>7
  <2>2. LastOf(n, s)[i] = s[m + i - 1]
    BY <1>4, <1>5, <2>1
  <2> QED
    BY <2>1, <2>2
<1>9. Len(LastOf(n, s)) = IF Len(s) > n THEN n ELSE Len(s)
  BY <1>1, <1>6, <1>7
<1>10. LastOf(n, s) \in Seq(S)
  BY <1>4, <1>5
<1> QED
  BY <1>8, <1>9, <1>10

\* Cutting before or after appending makes no difference to what is left.
LEMMA CutThenAppend ==
  ASSUME NEW S, NEW a \in Seq(S), NEW b \in Seq(S), NEW n \in Nat
  PROVE  LastOf(n, LastOf(n, a) \o b) = LastOf(n, a \o b)
<1> DEFINE c == LastOf(n, a)
           l == LastOf(n, c \o b)
           r == LastOf(n, a \o b)
<1>1. /\ c \in Seq(S) /\ Len(c) = IF Len(a) > n THEN n ELSE Len(a)
      /\ \A i \in 1 .. Len(c): c[i] = a[Len(a) - Len(c) + i]
  BY LastOfProperties
<1>2. Len(a) \in Nat /\ Len(b) \in Nat /\ Len(c) \in Nat
  BY <1>1, LenProperties
<1>3. /\ c \o b \in Seq(S) /\ Len(c \o b) = Len(c) + Len(b)
      /\ \A i \in 1 .. Len(c) + Len(b):
           (c \o b)[i] = IF i <= Len(c) THEN c[i] ELSE b[i - Len(c)]
  BY <1>1, ConcatProperties
<1>4. /\ a \o b \in Seq(S) /\ Len(a \o b) = Len(a) + Len(b)
      /\ \A i \in 1 .. Len(a) + Len(b):
           (a \o b)[i] = IF i <= Len(a) THEN a[i] ELSE b[i - Len(a)]
  BY ConcatProperties
<1>5. /\ l \in Seq(S) /\ Len(l) = IF Len(c \o b) > n THEN n ELSE Len(c \o b)
      /\ \A i \in 1 .. Len(l): l[i] = (c \o b)[Len(c \o b) - Len(l) + i]
  BY <1>3, LastOfProperties
<1>6. /\ r \in Seq(S) /\ Len(r) = IF Len(a \o b) > n THEN n ELSE Len(a \o b)
      /\ \A i \in 1 .. Len(r): r[i] = (a \o b)[Len(a \o b) - Len(r) + i]
  BY <1>4, LastOfProperties
<1> HIDE DEF c, l, r
<1>7. Len(l) = Len(r) /\ Len(l) \in Nat /\ Len(l) <= Len(c) + Len(b)
  BY <1>1, <1>2, <1>3, <1>4, <1>5, <1>6
<1>8. ASSUME NEW i \in 1 .. Len(l) PROVE l[i] = r[i]
  <2> DEFINE j == Len(c) + Len(b) - Len(l) + i
             d == Len(a) - Len(c)
  <2>1. j \in 1 .. Len(c) + Len(b) /\ d \in Nat /\ j + d \in 1 .. Len(a) + Len(b)
    BY <1>1, <1>2, <1>7
  <2>2. l[i] = (c \o b)[j] /\ r[i] = (a \o b)[j + d]
    <3>1. /\ Len(a \o b) - Len(r) + i = j + d
          /\ Len(c \o b) - Len(l) + i = j
          /\ i \in 1 .. Len(r)
      BY <1>2, <1>3, <1>4, <1>7
    <3>2. l[i] = (c \o b)[Len(c \o b) - Len(l) + i]
      BY <1>5
    <3>3. r[i] = (a \o b)[Len(a \o b) - Len(r) + i]
      BY <1>6, <3>1
    <3> QED
      BY <3>1, <3>2, <3>3
  <2>3. CASE j <= Len(c)
    <3>1. j \in 1 .. Len(c) /\ Len(a) - Len(c) + j = d + j
      BY <1>2, <2>1, <2>3
    <3>2. (c \o b)[j] = c[j] /\ c[j] = a[Len(a) - Len(c) + j]
      BY <1>1, <1>3, <2>1, <2>3, <3>1
    <3>3. (a \o b)[j + d] = a[j + d]
      BY <1>2, <1>4, <2>1, <2>3
    <3>4. d + j = j + d
      BY <1>2, <2>1
    <3> QED
      BY <2>2, <3>1, <3>2, <3>3, <3>4
  <2>4. CASE j > Len(c)
    <3>1. (c \o b)[j] = b[j - Len(c)] /\ (a \o b)[j + d] = b[j + d - Len(a)]
      BY <1>2, <1>3, <1>4, <2>1, <2>4
    <3>2. j + d - Len(a) = j - Len(c)
      BY <1>2, <2>1
    <3> QED
      BY <2>2, <3>1, <3>2
  <2> QED
    BY <1>2, <2>1, <2>3, <2>4
<1> QED
  BY <1>5, <1>6, <1>7, <1>8, SeqEqual DEF l, r, c

LEMMA CutTwice ==
  ASSUME NEW S, NEW a \in Seq(S), NEW n \in Nat
  PROVE  LastOf(n, LastOf(n, a)) = LastOf(n, a)
<1>1. LastOf(n, LastOf(n, a) \o <<>>) = LastOf(n, a \o <<>>)
  BY EmptySeq, CutThenAppend
<1>2. a \o <<>> = a
  BY ConcatEmptySeq
<1>3. LastOf(n, a) \in Seq(S)
  BY LastOfProperties
<1>4. LastOf(n, a) \o <<>> = LastOf(n, a)
  BY <1>3, ConcatEmptySeq
<1> QED
  BY <1>1, <1>2, <1>4

LEMMA AppendCut ==
  ASSUME NEW S, NEW a \in Seq(S), NEW b \in Seq(S), NEW n \in Nat
  PROVE  LastOf(n, a \o LastOf(n, b)) = LastOf(n, a \o b)
<1> DEFINE c == LastOf(n, b)
           l == LastOf(n, a \o c)
           r == LastOf(n, a \o b)
<1>1. /\ c \in Seq(S) /\ Len(c) = IF Len(b) > n THEN n ELSE Len(b)
      /\ \A i \in 1 .. Len(c): c[i] = b[Len(b) - Len(c) + i]
  BY LastOfProperties
<1>2. Len(a) \in Nat /\ Len(b) \in Nat /\ Len(c) \in Nat
  BY <1>1, LenProperties
<1>3. CASE Len(b) <= n
  <2>1. ASSUME NEW i \in 1 .. Len(c) PROVE c[i] = b[i]
    <3>1. Len(b) - Len(c) + i = i
      BY <1>1, <1>2, <1>3
    <3>2. c[i] = b[Len(b) - Len(c) + i]
      BY <1>1
    <3> QED
      BY <3>1, <3>2
  <2>2. c = b
    BY <1>1, <1>2, <1>3, <2>1, SeqEqual
  <2> QED
    BY <2>2
<1>4. CASE Len(b) > n
  <2>1. /\ a \o c \in Seq(S) /\ Len(a \o c) = Len(a) + Len(c)
        /\ \A i \in 1 .. Len(a) + Len(c):
             (a \o c)[i] = IF i <= Len(a) THEN a[i] ELSE c[i - Len(a)]
    BY <1>1, ConcatProperties
  <2>2. /\ a \o b \in Seq(S) /\ Len(a \o b) = Len(a) + Len(b)
        /\ \A i \in 1 .. Len(a) + Len(b):
             (a \o b)[i] = IF i <= Len(a) THEN a[i] ELSE b[i - Len(a)]
    BY ConcatProperties
  <2>3. /\ l \in Seq(S) /\ Len(l) = IF Len(a \o c) > n THEN n ELSE Len(a \o c)
        /\ \A i \in 1 .. Len(l): l[i] = (a \o c)[Len(a \o c) - Len(l) + i]
    BY <2>1, LastOfProperties
  <2>4. /\ r \in Seq(S) /\ Len(r) = IF Len(a \o b) > n THEN n ELSE Len(a \o b)
        /\ \A i \in 1 .. Len(r): r[i] = (a \o b)[Len(a \o b) - Len(r) + i]
    BY <2>2, LastOfProperties
  <2> HIDE DEF c, l, r
  <2>5. Len(l) = n /\ Len(r) = n /\ Len(c) = n
    BY <1>1, <1>2, <1>4, <2>1, <2>2, <2>3, <2>4
  <2>6. ASSUME NEW i \in 1 .. n PROVE l[i] = r[i]
    <3> DEFINE x == Len(a) + i
               y == Len(a) + Len(b) - n + i
    <3>1. /\ x \in 1 .. Len(a) + Len(c) /\ ~(x <= Len(a)) /\ x - Len(a) = i
          /\ y \in 1 .. Len(a) + Len(b) /\ ~(y <= Len(a)) /\ y - Len(a) = Len(b) - n + i
          /\ Len(a \o c) - Len(l) + i = x /\ Len(a \o b) - Len(r) + i = y
      BY <1>2, <1>4, <2>1, <2>2, <2>5
    <3> HIDE DEF x, y
    <3>2. l[i] = (a \o c)[x] /\ r[i] = (a \o b)[y]
      BY <2>3, <2>4, <2>5, <3>1
    <3>3. (a \o c)[x] = c[i] /\ (a \o b)[y] = b[Len(b) - n + i]
      BY <2>1, <2>2, <3>1
    <3>4. c[i] = b[Len(b) - n + i]
      BY <1>1, <2>5
    <3> QED
      BY <3>2, <3>3, <3>4
  <2> QED
    BY <2>3, <2>4, <2>5, <2>6, SeqEqual DEF l, r, c
<1> QED
  BY <1>2, <1>3, <1>4
-----------------------------------------------------------------------------
\* What was received since the last clear, as the panel numbers it.
Since(n, g) == [i \in 1 .. n |-> [no |-> i, uid |-> g - n + i]]

\* A frame's number says where it is in the stream.
Numbered(s, d) == \A i \in 1 .. Len(s): s[i].uid = d + s[i].no
NumberInv ==
  /\ Numbered(packets, got - counter) /\ Numbered(buffer, got - counter)
  /\ selectedNo # 0 => clicked = got - counter + selectedNo

\* The one request that counts is for the time of the frame selected, and so is
\* the answer.
DecodeInv ==
  LET ts == TsOf(packets, selectedNo) IN
    /\ decodeData.ts \in {0, ts}
    /\ decodeData.of # 0 => decodeData.ts # 0 /\ decodeData.of \in At(decodeData.ts)
    /\ highlight \in {0, decodeData.of}
    /\ \A f \in fetches: ~f.cancelled => f.ts = ts /\ loading
    /\ loading => [ts |-> ts, cancelled |-> FALSE] \in fetches /\ highlight = 0

IInv ==
  /\ TypeOK /\ StatusTrue /\ NothingLost /\ NumberInv /\ DecodeInv
  /\ ~paused => buffer = <<>>

DecodeTypes ==
  /\ fetches \subseteq [ts: Times, cancelled: BOOLEAN]
  /\ loading \in BOOLEAN
  /\ decodeData \in Decodes
  /\ highlight \in Uids \cup {0}

\* The selected frame, if it is in the table, has a time, which is not 0.
LEMMA FrameTimes ==
  ASSUME NEW pkts \in Seq(Frame), NEW no
  PROVE  TsOf(pkts, no) \in Times \cup {0} /\ 0 \notin Times
<1>1. ASSUME NEW u \in Uids PROVE Wire[u].ts \in Nat \ {0}
  <2>1. Wire[u] \in WireFrame
    BY WireAssumption, ElementOfSeq DEF Uids
  <2> QED
    BY <2>1 DEF WireFrame
<1>2. CASE Selected(pkts, no) = {}
  BY <1>1, <1>2 DEF TsOf, Times
<1>3. CASE Selected(pkts, no) # {}
  <2>1. PICK i \in Selected(pkts, no): i = CHOOSE j \in Selected(pkts, no): TRUE
    BY <1>3
  <2>2. pkts[i] \in Frame
    BY ElementOfSeq DEF Selected
  <2>3. pkts[i].uid \in Uids
    BY <2>2 DEF Frame
  <2>4. TsOf(pkts, no) = Wire[pkts[i].uid].ts
    BY <1>3, <2>1 DEF TsOf
  <2> QED
    BY <1>1, <2>3, <2>4 DEF Times
<1> QED
  BY <1>2, <1>3

\* The decode panel stays right when it follows the selection.
LEMMA FollowStep ==
  ASSUME TypeOK, DecodeInv, packets' \in Seq(Frame), Follow
  PROVE  DecodeInv' /\ DecodeTypes'
<1> DEFINE before == TsOf(packets, selectedNo)
           after  == TsOf(packets', selectedNo')
<1>1. /\ before \in Times \cup {0} /\ after \in Times \cup {0} /\ 0 \notin Times
      /\ TsOf(packets, selectedNo)' = after
  BY FrameTimes DEF TypeOK
<1>2. DecodeTypes
  BY DEF TypeOK, DecodeTypes
<1>3. \A f \in CancelFetches: f.cancelled /\ f \in [ts: Times, cancelled: BOOLEAN]
  BY <1>2 DEF CancelFetches, DecodeTypes
<1>4. CASE after = before /\ UNCHANGED decodeVars
  BY <1>1, <1>2, <1>4 DEF DecodeInv, DecodeTypes, decodeVars
<1>5. CASE /\ after = 0 /\ fetches' = CancelFetches
           /\ loading' = FALSE /\ decodeData' = NoDecode /\ highlight' = 0
  BY <1>1, <1>3, <1>5 DEF DecodeInv, DecodeTypes, Decodes, NoDecode
<1>6. CASE /\ after # 0
           /\ fetches' = CancelFetches \cup {[ts |-> after, cancelled |-> FALSE]}
           /\ loading' = TRUE /\ decodeData' = NoDecode /\ highlight' = 0
  <2>1. [ts |-> after, cancelled |-> FALSE] \in [ts: Times, cancelled: BOOLEAN]
    BY <1>1, <1>6
  <2>2. \A f \in fetches': \/ f \in CancelFetches
                           \/ f = [ts |-> after, cancelled |-> FALSE]
    BY <1>6
  <2>3. \A f \in fetches': ~f.cancelled => f.ts = after
    BY <1>3, <2>2
  <2>4. DecodeInv'
    <3> HIDE DEF after
    <3>1. [ts |-> after, cancelled |-> FALSE] \in fetches'
      BY <1>6
    <3> QED
      BY <1>1, <1>6, <2>3, <3>1 DEF DecodeInv, NoDecode
  <2>5. DecodeTypes'
    BY <1>3, <1>6, <2>1 DEF DecodeTypes, Decodes
  <2> QED
    BY <2>4, <2>5
<1> QED
  BY <1>4, <1>5, <1>6 DEF Follow

LEMMA InitInv == Init => IInv
<1> SUFFICES ASSUME Init PROVE IInv
  OBVIOUS
<1>1. packets = <<>> /\ buffer = <<>> /\ Len(packets) = 0 /\ Len(buffer) = 0
      /\ <<>> \in Seq(Frame) /\ Len(Wire) \in Nat
  BY EmptySeq, WireAssumption, LenProperties DEF Init
<1>2. TypeOK
  <2>1. packets \in Seq(Frame) /\ buffer \in Seq(Frame) /\ fetches = {}
    BY <1>1 DEF Init
  <2>2. Len(packets) <= RingMax /\ Len(buffer) <= RingMax
    BY <1>1, RingAssumption
  <2>3. counter \in Nat /\ got \in 0 .. Len(Wire) /\ counter <= got
    BY <1>1 DEF Init
  <2> QED
    BY <2>1, <2>2, <2>3, UserAssumption DEF Init, TypeOK, Decodes
<1>3. NothingLost
  <2>1. [i \in 1 .. 0 |-> [no |-> i, uid |-> 0 - 0 + i]] = <<>>
    BY EmptySeq
  <2>2. packets \o buffer = <<>>
    BY <1>1, ConcatEmptySeq
  <2> QED
    BY <2>1, <2>2 DEF Init, NothingLost
<1>4. NumberInv /\ DecodeInv
  BY <1>1 DEF Init, NumberInv, Numbered, DecodeInv, NoDecode, TsOf, Selected
<1> QED
  BY <1>2, <1>3, <1>4 DEF Init, IInv, StatusTrue

\* A handler that touches neither the frames nor the selection.
LEMMA KeepStep ==
  ASSUME IInv, TypeOK', StatusTrue', ~paused' => buffer = <<>>,
         UNCHANGED <<frameVars, selVars, decodeVars>>
  PROVE  IInv'
<1>1. NothingLost'
  BY DEF IInv, NothingLost, frameVars
<1>2. NumberInv'
  BY DEF IInv, NumberInv, Numbered, frameVars, selVars
<1>3. DecodeInv'
  <2>1. TsOf(packets, selectedNo)' = TsOf(packets, selectedNo)
    BY DEF TsOf, Selected, frameVars, selVars
  <2> QED
    BY <2>1 DEF IInv, DecodeInv, decodeVars
<1> QED
  BY <1>1, <1>2, <1>3 DEF IInv, frameVars

\* A batch continues the numbers and the stream.
LEMMA BatchProperties ==
  ASSUME TypeOK, NEW k \in Nat, got + k <= Len(Wire)
  PROVE  /\ Batch(k) \in Seq(Frame) /\ Len(Batch(k)) = k
         /\ Numbered(Batch(k), got - counter)
         /\ Since(counter, got) \in Seq(Frame)
         /\ Since(counter + k, got + k) = Since(counter, got) \o Batch(k)
<1>1. counter \in Nat /\ got \in Nat /\ counter <= got /\ Len(Wire) \in Nat /\ got <= Len(Wire)
  BY WireAssumption, LenProperties DEF TypeOK
<1>2. Batch(k) \in [1 .. k -> Frame]
  BY <1>1 DEF Batch, Frame, Uids
<1>3. Batch(k) \in Seq(Frame) /\ Len(Batch(k)) = k
  BY <1>2, SeqDef DEF Batch
<1>4. Since(counter, got) \in [1 .. counter -> Frame]
  BY <1>1 DEF Since, Frame, Uids
<1>5. Since(counter, got) \in Seq(Frame) /\ Len(Since(counter, got)) = counter
  BY <1>1, <1>4, SeqDef DEF Since
<1>6. Since(counter + k, got + k) \in [1 .. counter + k -> Frame]
  BY <1>1 DEF Since, Frame, Uids
<1>7. /\ Since(counter + k, got + k) \in Seq(Frame)
      /\ Len(Since(counter + k, got + k)) = counter + k
  BY <1>1, <1>6, SeqDef DEF Since
<1>8. Numbered(Batch(k), got - counter)
  BY <1>1, <1>3 DEF Numbered, Batch
<1>9. /\ Since(counter, got) \o Batch(k) \in Seq(Frame)
      /\ Len(Since(counter, got) \o Batch(k)) = counter + k
      /\ \A i \in 1 .. counter + k: (Since(counter, got) \o Batch(k))[i] =
           IF i <= counter THEN Since(counter, got)[i] ELSE Batch(k)[i - counter]
  <2> DEFINE a == Since(counter, got)
             b == Batch(k)
  <2> HIDE DEF a, b
  <2>1. a \in Seq(Frame) /\ b \in Seq(Frame) /\ Len(a) = counter /\ Len(b) = k
    BY <1>3, <1>5 DEF a, b
  <2>2. /\ a \o b \in Seq(Frame) /\ Len(a \o b) = counter + k
        /\ \A i \in 1 .. counter + k:
             (a \o b)[i] = IF i <= counter THEN a[i] ELSE b[i - counter]
    BY <2>1, ConcatProperties
  <2> QED
    BY <2>2 DEF a, b
<1>10. ASSUME NEW i \in 1 .. counter + k
       PROVE  Since(counter + k, got + k)[i] = (Since(counter, got) \o Batch(k))[i]
  <2>1. Since(counter + k, got + k)[i] = [no |-> i, uid |-> got - counter + i]
    BY <1>1 DEF Since
  <2>2. CASE i <= counter
    <3>1. Since(counter, got)[i] = [no |-> i, uid |-> got - counter + i]
      BY <1>1, <2>2 DEF Since
    <3> QED
      BY <1>9, <2>1, <2>2, <3>1
  <2>3. CASE i > counter
    <3> DEFINE j == i - counter
    <3>1. /\ j \in 1 .. k /\ ~(i <= counter)
          /\ counter + j = i /\ got + j = got - counter + i
      BY <1>1, <2>3
    <3>2. (Since(counter, got) \o Batch(k))[i] = Batch(k)[j]
      BY <1>9, <3>1
    <3> HIDE DEF j
    <3>3. Batch(k)[j] = [no |-> counter + j, uid |-> got + j]
      BY <3>1 DEF Batch
    <3>4. Batch(k)[j] = [no |-> i, uid |-> got - counter + i]
      BY <3>1, <3>3, Zenon
    <3> QED
      BY <2>1, <3>2, <3>4
  <2>4. i <= counter \/ i > counter
    BY <1>1
  <2> QED
    BY <2>2, <2>3, <2>4
<1> QED
  BY <1>3, <1>5, <1>7, <1>8, <1>9, <1>10, SeqEqual

\* What is appended and cut to the ring is still a list of numbered frames.
LEMMA CutProperties ==
  ASSUME NEW a \in Seq(Frame), NEW b \in Seq(Frame), NEW d \in Int,
         Numbered(a, d), Numbered(b, d)
  PROVE  /\ LastOf(RingMax, a \o b) \in Seq(Frame)
         /\ Len(LastOf(RingMax, a \o b)) <= RingMax
         /\ Numbered(LastOf(RingMax, a \o b), d)
<1> DEFINE s == a \o b
           l == LastOf(RingMax, s)
<1>1. /\ s \in Seq(Frame) /\ Len(s) = Len(a) + Len(b)
      /\ \A i \in 1 .. Len(a) + Len(b): s[i] = IF i <= Len(a) THEN a[i] ELSE b[i - Len(a)]
  BY ConcatProperties
<1>2. Len(a) \in Nat /\ Len(b) \in Nat /\ Len(s) \in Nat /\ RingMax \in Nat
  BY <1>1, LenProperties, RingAssumption
<1> HIDE DEF s
<1>3. /\ l \in Seq(Frame) /\ Len(l) = IF Len(s) > RingMax THEN RingMax ELSE Len(s)
      /\ \A i \in 1 .. Len(l): l[i] = s[Len(s) - Len(l) + i]
  BY <1>1, <1>2, LastOfProperties
<1> HIDE DEF l
<1>4. ASSUME NEW i \in 1 .. Len(s) PROVE s[i].uid = d + s[i].no
  <2>1. CASE i <= Len(a)
    BY <1>1, <1>2, <2>1 DEF Numbered
  <2>2. CASE i > Len(a)
    <3>1. i - Len(a) \in 1 .. Len(b) /\ s[i] = b[i - Len(a)]
      BY <1>1, <1>2, <2>2
    <3> QED
      BY <3>1 DEF Numbered
  <2> QED
    BY <1>2, <2>1, <2>2
<1>5. Len(l) <= RingMax /\ \A i \in 1 .. Len(l): Len(s) - Len(l) + i \in 1 .. Len(s)
  BY <1>2, <1>3
<1>6. Numbered(l, d)
  BY <1>3, <1>4, <1>5 DEF Numbered
<1> QED
  BY <1>3, <1>5, <1>6 DEF l, s
-----------------------------------------------------------------------------
\* A batch that arrives: the frames since the last clear grow by it, in the
\* table or in the buffer.
LEMMA ReceiveStep ==
  ASSUME IInv, NEW k \in 1 .. MaxBatch, Receive(k)
  PROVE  IInv'
<1> DEFINE d == got - counter
<1>1. k \in Nat /\ k >= 1 /\ RingMax \in Nat
  BY UserAssumption, RingAssumption
<1>2. /\ packets \in Seq(Frame) /\ buffer \in Seq(Frame)
      /\ counter \in Nat /\ got \in Nat /\ counter <= got /\ d \in Int
      /\ Len(packets) <= RingMax /\ Len(buffer) <= RingMax
      /\ Numbered(packets, d) /\ Numbered(buffer, d)
  BY DEF IInv, TypeOK, NumberInv
<1>3. /\ Batch(k) \in Seq(Frame) /\ Numbered(Batch(k), d)
      /\ Since(counter, got) \in Seq(Frame)
      /\ Since(counter + k, got + k) = Since(counter, got) \o Batch(k)
  BY <1>1, BatchProperties DEF IInv, Receive
<1>4. counter' = counter + k /\ got' = got + k /\ got' - counter' = d
  BY <1>1, <1>2 DEF Receive
<1>5. /\ packets' \in Seq(Frame) /\ buffer' \in Seq(Frame)
      /\ Len(packets') <= RingMax /\ Len(buffer') <= RingMax
      /\ Numbered(packets', d) /\ Numbered(buffer', d)
  <2> HIDE DEF d
  <2> QED
    BY <1>2, <1>3, CutProperties DEF Receive
<1>6. NumberInv'
  BY <1>4, <1>5 DEF NumberInv, IInv, Receive, selVars
<1>7. DecodeInv' /\ DecodeTypes'
  BY <1>5, FollowStep DEF IInv, Receive
<1>8. TypeOK'
  <2>1. captureTs' \in Times \cup {0}
    <3>1. got + 1 \in Uids
      BY <1>1, <1>2, WireAssumption, LenProperties DEF Receive, Uids
    <3> QED
      BY <3>1 DEF IInv, TypeOK, Receive, Times
  <2>2. got' \in 0 .. Len(Wire) /\ counter' \in Nat /\ counter' <= got'
    BY <1>1, <1>2, <1>4, WireAssumption, LenProperties DEF Receive
  <2>3. empty' \in {"starting", "waiting", "active"}
    BY DEF IInv, TypeOK, Receive
  <2> QED
    BY <1>5, <1>7, <2>1, <2>2, <2>3
       DEF IInv, TypeOK, DecodeTypes, Receive, connVars, viewVars, selVars
<1>9. NothingLost'
  <2> DEFINE A == Since(counter, got)
             b == Batch(k)
  <2>1. A \in Seq(Frame) /\ b \in Seq(Frame)
    BY <1>3
  <2>2. LastOf(RingMax, packets \o buffer) = LastOf(RingMax, A)
    BY DEF IInv, NothingLost, Since
  <2>3. SUFFICES LastOf(RingMax, packets' \o buffer') = LastOf(RingMax, A \o b)
    BY <1>3, <1>4 DEF NothingLost, Since
  <2> HIDE DEF A, b
  <2>4. CASE paused
    <3>1. packets' = packets /\ buffer' = LastOf(RingMax, buffer \o b)
      BY <2>4 DEF Receive, b
    <3>2. buffer \o b \in Seq(Frame) /\ packets \o buffer \in Seq(Frame)
      BY <1>2, <2>1, ConcatProperties
    <3>3. LastOf(RingMax, packets' \o buffer') = LastOf(RingMax, packets \o (buffer \o b))
      BY <1>1, <1>2, <3>1, <3>2, AppendCut
    <3>4. (packets \o buffer) \o b = packets \o (buffer \o b)
      <4>1. /\ packets \in Seq(Frame)
            /\ buffer \in Seq(Frame)
            /\ b \in Seq(Frame)
        BY <1>2, <2>1
      <4> QED
        BY <4>1, ConcatAssociative
    <3>5. LastOf(RingMax, (packets \o buffer) \o b) =
            LastOf(RingMax, LastOf(RingMax, packets \o buffer) \o b)
      BY <1>1, <2>1, <3>2, CutThenAppend
    <3>6. LastOf(RingMax, LastOf(RingMax, A) \o b) = LastOf(RingMax, A \o b)
      BY <1>1, <2>1, CutThenAppend
    <3> QED
      BY <2>2, <3>3, <3>4, <3>5, <3>6
  <2>5. CASE ~paused
    <3>1. packets' = LastOf(RingMax, packets \o b) /\ buffer' = <<>> /\ buffer = <<>>
      BY <2>5 DEF Receive, IInv, b
    <3>2. packets \o buffer = packets
      BY <1>2, <3>1, ConcatEmptySeq
    <3>3. packets' \o buffer' = packets'
      BY <1>5, <3>1, ConcatEmptySeq
    <3>4. packets \o b \in Seq(Frame)
      BY <1>2, <2>1, ConcatProperties
    <3>5. LastOf(RingMax, packets') = LastOf(RingMax, packets \o b)
      BY <1>1, <3>1, <3>4, CutTwice
    <3>6. LastOf(RingMax, packets \o b) = LastOf(RingMax, LastOf(RingMax, packets) \o b)
      BY <1>1, <1>2, <2>1, CutThenAppend
    <3>7. LastOf(RingMax, LastOf(RingMax, A) \o b) = LastOf(RingMax, A \o b)
      BY <1>1, <2>1, CutThenAppend
    <3> QED
      BY <2>2, <3>2, <3>3, <3>5, <3>6, <3>7
  <2> QED
    BY <2>4, <2>5
<1>10. StatusTrue' /\ (~paused' => buffer' = <<>>)
  BY DEF IInv, StatusTrue, Receive, connVars
<1> QED
  BY <1>6, <1>7, <1>8, <1>9, <1>10 DEF IInv

\* The frames held back follow those of the table.
LEMMA ResumeStep == IInv /\ Resume => IInv'
<1> SUFFICES ASSUME IInv, Resume PROVE IInv'
  OBVIOUS
<1>1. /\ packets \in Seq(Frame) /\ buffer \in Seq(Frame) /\ RingMax \in Nat
      /\ counter \in Nat /\ got \in Nat /\ got - counter \in Int
      /\ Numbered(packets, got - counter) /\ Numbered(buffer, got - counter)
  BY RingAssumption DEF IInv, TypeOK, NumberInv
<1>2. /\ packets' = LastOf(RingMax, packets \o buffer) /\ buffer' = <<>>
      /\ counter' = counter /\ got' = got
  BY DEF Resume
<1>3. /\ packets' \in Seq(Frame) /\ Len(packets') <= RingMax
      /\ Numbered(packets', got - counter)
  BY <1>1, <1>2, CutProperties
<1>4. buffer' \in Seq(Frame) /\ Len(buffer') = 0
  BY <1>2, EmptySeq
<1>5. NumberInv'
  BY <1>2, <1>3, <1>4 DEF IInv, NumberInv, Numbered, Resume, selVars
<1>6. DecodeInv' /\ DecodeTypes'
  BY <1>3, FollowStep DEF IInv, Resume
<1>7. TypeOK'
  <2>1. sock' = sock /\ status' \in {"live", "stopped"} /\ paused' = FALSE
    BY DEF Resume
  <2>2. UNCHANGED <<counter, got, captureTs, viewVars, empty, selVars>>
    BY DEF Resume
  <2>3. Len(buffer') <= RingMax
    BY <1>1, <1>4
  <2> QED
    BY <1>3, <1>4, <1>6, <2>1, <2>2, <2>3 DEF IInv, TypeOK, DecodeTypes, viewVars, selVars
<1>8. NothingLost'
  <2>1. packets \o buffer \in Seq(Frame)
    BY <1>1, ConcatProperties
  <2>2. packets' \o <<>> = packets'
    BY <1>3, ConcatEmptySeq
  <2>3. LastOf(RingMax, packets') = LastOf(RingMax, packets \o buffer)
    BY <1>1, <1>2, <2>1, CutTwice
  <2> QED
    BY <1>2, <2>2, <2>3 DEF IInv, NothingLost
<1>9. StatusTrue' /\ (~paused' => buffer' = <<>>)
  BY DEF IInv, TypeOK, StatusTrue, Resume
<1> QED
  BY <1>5, <1>6, <1>7, <1>8, <1>9 DEF IInv

\* Clearing starts the numbers again; nothing keeps an old one.
LEMMA ClearStep == IInv /\ Clear => IInv'
<1> SUFFICES ASSUME IInv, Clear PROVE IInv'
  OBVIOUS
<1>1. /\ packets' = <<>> /\ buffer' = <<>> /\ Len(packets') = 0 /\ Len(buffer') = 0
      /\ packets' \in Seq(Frame) /\ buffer' \in Seq(Frame) /\ RingMax \in Nat
  BY EmptySeq, RingAssumption DEF Clear
<1>2. DecodeInv' /\ DecodeTypes'
  BY <1>1, FollowStep DEF IInv, Clear
<1>3. counter' = 0 /\ got' = got /\ got \in Nat
  BY DEF IInv, TypeOK, Clear
<1>4. TypeOK'
  <2>1. Len(packets') <= RingMax /\ Len(buffer') <= RingMax
    BY <1>1
  <2> QED
    BY <1>1, <1>2, <1>3, <2>1 DEF IInv, TypeOK, DecodeTypes, Clear, connVars, viewVars
<1>5. NothingLost'
  <2>1. [i \in 1 .. 0 |-> [no |-> i, uid |-> got - 0 + i]] = <<>>
    BY EmptySeq
  <2>2. packets' \o buffer' = <<>>
    BY <1>1, ConcatEmptySeq
  <2> QED
    BY <1>3, <2>1, <2>2 DEF NothingLost
<1>6. NumberInv' /\ StatusTrue' /\ (~paused' => buffer' = <<>>)
  BY <1>1 DEF IInv, NumberInv, Numbered, StatusTrue, Clear, connVars
<1> QED
  BY <1>2, <1>4, <1>5, <1>6 DEF IInv

\* A selection made or dropped.
LEMMA SelectStep ==
  ASSUME IInv, Follow,
         UNCHANGED <<connVars, paused, frameVars, viewVars, empty>>,
         \/ selectedNo' = 0 /\ clicked' = 0
         \/ \E i \in 1 .. Len(packets):
              selectedNo' = packets[i].no /\ clicked' = packets[i].uid
  PROVE  IInv'
<1>1. packets \in Seq(Frame) /\ packets' = packets /\ counter' = counter /\ got' = got
      /\ buffer' = buffer
  BY DEF IInv, TypeOK, frameVars
<1>2. selectedNo' \in Nat /\ clicked' \in Uids \cup {0}
  <2>1. \A i \in 1 .. Len(packets): packets[i] \in Frame
    BY <1>1, ElementOfSeq
  <2> QED
    BY <2>1 DEF Frame
<1>3. DecodeInv' /\ DecodeTypes'
  BY <1>1, FollowStep DEF IInv
<1>4. NumberInv'
  BY <1>1 DEF IInv, NumberInv, Numbered
<1>5. TypeOK'
  BY <1>2, <1>3 DEF IInv, TypeOK, DecodeTypes, connVars, frameVars, viewVars
<1>6. NothingLost' /\ StatusTrue' /\ (~paused' => buffer' = <<>>)
  BY <1>1 DEF IInv, NothingLost, StatusTrue, connVars
<1> QED
  BY <1>3, <1>4, <1>5, <1>6 DEF IInv

\* An answer, a failure or a click on the tree changes the panel only.
LEMMA DecodeStep ==
  ASSUME IInv, DecodeInv', DecodeTypes',
         UNCHANGED <<connVars, paused, frameVars, viewVars, empty, selVars>>
  PROVE  IInv'
<1>1. TypeOK'
  BY DEF IInv, TypeOK, DecodeTypes, connVars, frameVars, viewVars, selVars
<1>2. NothingLost' /\ StatusTrue' /\ NumberInv' /\ (~paused' => buffer' = <<>>)
  BY DEF IInv, NothingLost, StatusTrue, NumberInv, Numbered, connVars, frameVars, selVars
<1> QED
  BY <1>1, <1>2 DEF IInv

\* Only the request that was not cancelled changes what is shown.
LEMMA AnswerStepInv ==
  ASSUME IInv, NEW f \in fetches, AnswerStep(f)
  PROVE  IInv'
<1>1. DecodeInv /\ DecodeTypes /\ TypeOK
  BY DEF IInv, TypeOK, DecodeTypes
<1>2. fetches' = fetches \ {f} /\ highlight' = highlight
      /\ UNCHANGED <<connVars, paused, frameVars, viewVars, empty, selVars>>
  BY DEF AnswerStep, Answer, FetchFails
<1> DEFINE ts == TsOf(packets, selectedNo)
<1>3. TsOf(packets, selectedNo)' = ts
  BY <1>2 DEF TsOf, Selected, frameVars, selVars
<1> HIDE DEF ts
<1>4. /\ decodeData.ts \in {0, ts} /\ highlight \in {0, decodeData.of}
      /\ decodeData.of # 0 => decodeData.ts # 0 /\ decodeData.of \in At(decodeData.ts)
      /\ \A g \in fetches: ~g.cancelled => g.ts = ts /\ loading
      /\ loading => [ts |-> ts, cancelled |-> FALSE] \in fetches /\ highlight = 0
  BY <1>1 DEF DecodeInv, ts
<1>5. \A g \in fetches: g \in [ts: Times, cancelled: BOOLEAN]
  BY <1>1 DEF DecodeTypes
<1>6. CASE f.cancelled
  <2>1. UNCHANGED <<loading, decodeData>>
    BY <1>1, <1>6 DEF AnswerStep, Answer, FetchFails, DecodeTypes
  <2>2. f # [ts |-> ts, cancelled |-> FALSE]
    BY <1>6
  <2>3. DecodeInv' /\ DecodeTypes'
    BY <1>1, <1>2, <1>3, <1>4, <2>1, <2>2 DEF DecodeInv, DecodeTypes
  <2> QED
    BY <1>2, <2>3, DecodeStep
<1>7. CASE ~f.cancelled
  <2>1. f.ts = ts /\ f.ts \in Times /\ highlight = 0
    BY <1>4, <1>5, <1>7
  <2>2. loading' = FALSE
    BY <1>7 DEF AnswerStep, Answer, FetchFails
  <2>3. \/ decodeData' = decodeData
        \/ \E kind \in {"sharkd", "basic"}, u \in Uids \cup {0}:
             /\ decodeData' = [ts |-> f.ts, kind |-> kind, of |-> u]
             /\ u # 0 => u \in At(f.ts)
    BY DEF AnswerStep, Answer, FetchFails
  <2>4. \A g \in fetches: ~g.cancelled => g = f
    BY <1>4, <1>5, <1>7
  <2>5. /\ decodeData'.ts \in {0, ts} /\ DecodeTypes'
        /\ decodeData'.of # 0 =>
             decodeData'.ts # 0 /\ decodeData'.of \in At(decodeData'.ts)
    <3>1. CASE decodeData' = decodeData
      BY <1>1, <1>2, <1>4, <2>2, <3>1 DEF DecodeTypes
    <3>2. ASSUME NEW kind \in {"sharkd", "basic"}, NEW u \in Uids \cup {0},
                 decodeData' = [ts |-> f.ts, kind |-> kind, of |-> u],
                 u # 0 => u \in At(f.ts)
          PROVE  /\ decodeData'.ts \in {0, ts} /\ DecodeTypes'
                 /\ decodeData'.of # 0 =>
                      decodeData'.ts # 0 /\ decodeData'.of \in At(decodeData'.ts)
      <4>1. decodeData' \in Decodes
        BY <2>1, <3>2 DEF Decodes
      <4>2. decodeData'.ts = ts /\ decodeData'.of = u /\ f.ts = ts
        BY <2>1, <3>2
      <4>3. f.ts # 0
        BY <1>1, <2>1, FrameTimes DEF TypeOK
      <4>4. DecodeTypes'
        <5>1. fetches' \subseteq [ts: Times, cancelled: BOOLEAN] /\ loading' \in BOOLEAN
          BY <1>1, <1>2, <2>2 DEF DecodeTypes
        <5>2. highlight' \in Uids \cup {0}
          BY <1>1, <1>2 DEF DecodeTypes
        <5> QED
          BY <4>1, <5>1, <5>2 DEF DecodeTypes
      <4> QED
        BY <3>2, <4>2, <4>3, <4>4
    <3> QED
      BY <2>3, <3>1, <3>2
  <2>6. DecodeInv'
    BY <1>2, <1>3, <2>1, <2>2, <2>4, <2>5 DEF DecodeInv
  <2> QED
    BY <1>2, <2>5, <2>6, DecodeStep
<1> QED
  BY <1>5, <1>6, <1>7

LEMMA HighlightStep == IInv /\ Highlight => IInv'
<1> SUFFICES ASSUME IInv, Highlight PROVE IInv'
  OBVIOUS
<1>1. ~loading /\ decodeData.kind = "sharkd" /\ highlight' = decodeData.of
      /\ UNCHANGED <<fetches, loading, decodeData>>
      /\ UNCHANGED <<connVars, paused, frameVars, viewVars, empty, selVars>>
  BY DEF Highlight, TreeShown
<1>2. TsOf(packets, selectedNo)' = TsOf(packets, selectedNo)
  BY <1>1 DEF TsOf, Selected, frameVars, selVars
<1>3. DecodeInv' /\ DecodeTypes'
  BY <1>1, <1>2 DEF IInv, TypeOK, DecodeInv, DecodeTypes, Decodes, NoDecode
<1> QED
  BY <1>1, <1>3, DecodeStep

LEMMA NextInv == IInv /\ [Next]_vars => IInv'
<1> SUFFICES ASSUME IInv, [Next]_vars PROVE IInv'
  OBVIOUS
<1>1. CASE Open
  <2>1. UNCHANGED <<frameVars, selVars, decodeVars>>
    BY <1>1 DEF Open
  <2>2. TypeOK' /\ StatusTrue' /\ (~paused' => buffer = <<>>)
    BY <1>1 DEF Open, IInv, TypeOK, StatusTrue, connVars, frameVars, viewVars,
       selVars, decodeVars
  <2> QED
    BY <2>1, <2>2, KeepStep
<1>2. CASE ServerCloses
  <2>1. UNCHANGED <<frameVars, selVars, decodeVars>>
    BY <1>2 DEF ServerCloses
  <2>2. TypeOK' /\ StatusTrue' /\ (~paused' => buffer = <<>>)
    BY <1>2 DEF ServerCloses, IInv, TypeOK, StatusTrue, connVars, frameVars, viewVars,
       selVars, decodeVars
  <2> QED
    BY <2>1, <2>2, KeepStep
<1>3. CASE CloseEvent
  <2>1. UNCHANGED <<frameVars, selVars, decodeVars>>
    BY <1>3 DEF CloseEvent
  <2>2. TypeOK' /\ StatusTrue' /\ (~paused' => buffer = <<>>)
    BY <1>3 DEF CloseEvent, IInv, TypeOK, StatusTrue, connVars, frameVars, viewVars,
       selVars, decodeVars
  <2> QED
    BY <2>1, <2>2, KeepStep
<1>4. CASE Fail
  <2>1. UNCHANGED <<frameVars, selVars, decodeVars>>
    BY <1>4 DEF Fail
  <2>2. TypeOK' /\ StatusTrue' /\ (~paused' => buffer = <<>>)
    BY <1>4 DEF Fail, IInv, TypeOK, StatusTrue, connVars, frameVars, viewVars,
       selVars, decodeVars
  <2> QED
    BY <2>1, <2>2, KeepStep
<1>5. CASE Pause
  <2>1. UNCHANGED <<frameVars, selVars, decodeVars>>
    BY <1>5 DEF Pause
  <2>2. TypeOK' /\ StatusTrue' /\ (~paused' => buffer = <<>>)
    BY <1>5 DEF Pause, IInv, TypeOK, StatusTrue, connVars, frameVars, viewVars,
       selVars, decodeVars
  <2> QED
    BY <2>1, <2>2, KeepStep
<1>6. ASSUME NEW f \in Filters, SetFilter(f) PROVE IInv'
  <2>1. UNCHANGED <<frameVars, selVars, decodeVars>>
    BY <1>6 DEF SetFilter
  <2>2. TypeOK' /\ StatusTrue' /\ (~paused' => buffer = <<>>)
    BY <1>6 DEF SetFilter, IInv, TypeOK, StatusTrue, connVars, frameVars, viewVars,
       selVars, decodeVars
  <2> QED
    BY <2>1, <2>2, KeepStep
<1>7. CASE ToggleSearch
  <2>1. UNCHANGED <<frameVars, selVars, decodeVars>>
    BY <1>7 DEF ToggleSearch
  <2>2. TypeOK' /\ StatusTrue' /\ (~paused' => buffer = <<>>)
    BY <1>7 DEF ToggleSearch, IInv, TypeOK, StatusTrue, connVars, frameVars, viewVars,
       selVars, decodeVars
  <2> QED
    BY <2>1, <2>2, KeepStep
<1>8. CASE Timer
  <2>1. UNCHANGED <<frameVars, selVars, decodeVars>>
    BY <1>8 DEF Timer
  <2>2. TypeOK' /\ StatusTrue' /\ (~paused' => buffer = <<>>)
    BY <1>8 DEF Timer, IInv, TypeOK, StatusTrue, connVars, frameVars, viewVars,
       selVars, decodeVars
  <2> QED
    BY <2>1, <2>2, KeepStep
<1>9. CASE UNCHANGED vars
  <2>1. UNCHANGED <<frameVars, selVars, decodeVars>>
    BY <1>9 DEF vars
  <2>2. TypeOK' /\ StatusTrue' /\ (~paused' => buffer = <<>>)
    BY <1>9 DEF vars, IInv, TypeOK, StatusTrue, connVars, frameVars, viewVars,
       selVars, decodeVars
  <2> QED
    BY <2>1, <2>2, KeepStep
<1>10. ASSUME NEW k \in 1 .. MaxBatch, Receive(k) PROVE IInv'
  BY <1>10, ReceiveStep
<1>11. CASE Resume
  BY <1>11, ResumeStep
<1>12. CASE Clear
  BY <1>12, ClearStep
<1>13. ASSUME NEW i \in 1 .. RingMax, Click(i) PROVE IInv'
  BY <1>13, SelectStep DEF Click, Displayed
<1>14. CASE CloseDecode
  BY <1>14, SelectStep DEF CloseDecode
<1>15. CASE Highlight
  BY <1>15, HighlightStep
<1>16. ASSUME NEW f \in fetches, AnswerStep(f) PROVE IInv'
  BY <1>16, AnswerStepInv
<1> QED
  BY <1>1, <1>2, <1>3, <1>4, <1>5, <1>6, <1>7, <1>8, <1>9, <1>10, <1>11, <1>12,
     <1>13, <1>14, <1>15, <1>16 DEF Next, SocketStep, UserStep

LEMMA Invariance == Spec => []IInv
  BY InitInv, NextInv, PTL DEF Spec
-----------------------------------------------------------------------------
\* The state of a capture tab stays in its types: the ring and the buffer never
\* hold more than RingMax frames.
THEOREM TypeCorrect == Spec => []TypeOK
<1>1. IInv => TypeOK
  BY DEF IInv
<1> QED
  BY <1>1, Invariance, PTL

\* Pausing, resuming and clearing lose, repeat and renumber no frame, for any
\* stream, ring and batches (onmessage, handleResume, handleClear).
THEOREM NothingLostCorrect == Spec => []NothingLost
<1>1. IInv => NothingLost
  BY DEF IInv
<1> QED
  BY <1>1, Invariance, PTL

\* The badge never promises what the socket cannot keep.
THEOREM StatusCorrect == Spec => []StatusTrue
<1>1. IInv => StatusTrue
  BY DEF IInv
<1> QED
  BY <1>1, Invariance, PTL

\* The row is the frame that was clicked, and decode and marked bytes are of it
\* or, where several frames have its time, of one of them: for any stream, also
\* one with frames of equal times.
THEOREM PanelCorrect == Spec => []PanelShowsClicked
<1>1. IInv => PanelShowsClicked
  <2> SUFFICES ASSUME IInv PROVE PanelShowsClicked
    OBVIOUS
  <2> DEFINE ts == TsOf(packets, selectedNo)
  <2>1. \A i \in Selected(packets, selectedNo): packets[i].uid = clicked
    BY DEF IInv, NumberInv, Numbered, Selected
  <2>2. loading <=> \E f \in fetches: ~f.cancelled
    BY DEF IInv, TypeOK, DecodeInv
  <2>3. ts # 0 => clicked \in Uids /\ ts = Wire[clicked].ts
    <3> SUFFICES ASSUME ts # 0 PROVE clicked \in Uids /\ ts = Wire[clicked].ts
      OBVIOUS
    <3>1. Selected(packets, selectedNo) # {}
      BY DEF TsOf
    <3>2. PICK i \in Selected(packets, selectedNo):
            i = CHOOSE j \in Selected(packets, selectedNo): TRUE
      BY <3>1
    <3>3. ts = Wire[packets[i].uid].ts /\ packets[i].uid = clicked
      BY <2>1, <3>1, <3>2 DEF TsOf
    <3>4. packets[i] \in Frame
      BY ElementOfSeq DEF IInv, TypeOK, Selected
    <3> QED
      BY <3>3, <3>4 DEF Frame
  <2>4. ASSUME decodeData.of # 0
        PROVE  /\ clicked # 0 /\ Wire[decodeData.of].ts = Wire[clicked].ts
               /\ At(Wire[clicked].ts) = {clicked} => decodeData.of = clicked
    <3>1. decodeData.ts = ts /\ ts # 0 /\ decodeData.of \in At(ts)
      BY <2>4 DEF IInv, DecodeInv
    <3> HIDE DEF ts
    <3>2. clicked \in 1 .. Len(Wire) /\ ts = Wire[clicked].ts
      BY <2>3, <3>1 DEF Uids
    <3>3. clicked # 0
      BY <3>2, WireAssumption, LenProperties
    <3> QED
      BY <3>1, <3>2, <3>3 DEF At
  <2> QED
    BY <2>1, <2>2, <2>4 DEF IInv, DecodeInv, PanelShowsClicked
<1> QED
  BY <1>1, Invariance, PTL
-----------------------------------------------------------------------------
(* The range offered for export. *)

LEMMA LeastExists ==
  ASSUME NEW T \in SUBSET Nat, T # {}
  PROVE  \E i \in T: \A j \in T: i <= j
<1>1. PICK i \in T: \A j \in T: ~(<<j, i>> \in OpToRel(<, Nat))
  <2> HIDE DEF OpToRel
  <2> QED
    BY NatLessThanWellFounded, WFMin, Zenon
<1>2. ASSUME NEW j \in T PROVE i <= j
  <2>1. <<j, i>> \in Nat \X Nat /\ ~(<<j, i>> \in OpToRel(<, Nat))
    BY <1>1
  <2>2. ~(j < i)
    BY <2>1 DEF OpToRel
  <2> QED
    BY <2>2
<1> QED
  BY <1>2

\* Rows have a first and a last.
LEMMA Ends ==
  ASSUME NEW n \in Nat, NEW T \in SUBSET (1 .. n), T # {}
  PROVE  /\ Min(T) \in T /\ \A i \in T: Min(T) <= i
         /\ Max(T) \in T /\ \A i \in T: i <= Max(T)
<1>1. \E i \in T: \A j \in T: i <= j
  BY LeastExists
<1>2. \E i \in T: \A j \in T: j <= i
  <2> DEFINE U == {n - i : i \in T}
  <2>1. U \in SUBSET Nat /\ U # {}
    <3>1. \A i \in T: n - i \in Nat
      OBVIOUS
    <3> QED
      BY <3>1
  <2>2. PICK u \in U: \A v \in U: u <= v
    <3> HIDE DEF U
    <3> QED
      BY <2>1, LeastExists
  <2>3. PICK i \in T: u = n - i
    OBVIOUS
  <2>4. ASSUME NEW j \in T PROVE j <= i
    <3>1. n - j \in U
      OBVIOUS
    <3>2. n - i <= n - j
      BY <2>2, <2>3, <3>1
    <3> QED
      BY <3>2
  <2> QED
    BY <2>4
<1> QED
  BY <1>1, <1>2 DEF Min, Max

LEMMA Division ==
  ASSUME NEW n \in Nat, NEW d \in Nat \ {0}
  PROVE  /\ n \div d \in Nat /\ n % d \in Nat
         /\ n = (n \div d) * d + (n % d) /\ n % d < d
  BY SMT

\* A clock time is the time of day but for a fraction of a second.
LEMMA ClockTime ==
  ASSUME NEW t \in Nat
  PROVE  /\ InputToNs(SecondOf(t), t) \in Nat
         /\ InputToNs(SecondOf(t), t) <= t
         /\ t < InputToNs(SecondOf(t), t) + Second
<1>1. /\ t \div Day \in Nat /\ t % Day \in Nat
      /\ t = (t \div Day) * Day + (t % Day)
  BY TimeAssumption, Division
<1>2. /\ SecondOf(t) \in Nat
      /\ SecondOf(t) * Second <= t % Day
      /\ t % Day < SecondOf(t) * Second + Second
  <2> DEFINE r == t % Day
  <2>1. r \in Nat
    BY <1>1
  <2> HIDE DEF r
  <2>2. /\ r \div Second \in Nat /\ r % Second \in Nat
        /\ r = (r \div Second) * Second + (r % Second) /\ r % Second < Second
    BY <2>1, TimeAssumption, Division
  <2>3. (r \div Second) * Second \in Nat
    BY <2>2, TimeAssumption
  <2>4. SecondOf(t) = r \div Second
    BY DEF SecondOf, r
  <2> QED
    BY <2>2, <2>3, <2>4, TimeAssumption DEF r
<1>3. (t \div Day) * Day \in Nat /\ SecondOf(t) * Second \in Nat
  BY <1>1, <1>2, TimeAssumption
<1> QED
  BY <1>1, <1>2, <1>3, TimeAssumption DEF InputToNs

\* Whatever is filtered and searched for: rows that are all of one day of UTC
\* lie in the range offered for export.
THEOREM RangeCorrect == Spec => []RangeCovers
<1>1. TypeOK => RangeCovers
  <2> SUFFICES ASSUME TypeOK, Displayed # {}, Ordered,
                      FirstTs \div Day = LastTs \div Day, NEW i \in Displayed
               PROVE  InRange(i)
    BY DEF RangeCovers
  <2>1. Len(packets) \in Nat /\ Displayed \in SUBSET (1 .. Len(packets))
    BY LenProperties DEF TypeOK, Displayed
  <2>2. \A j \in Displayed: Ts(j) \in Nat
    <3> SUFFICES ASSUME NEW j \in Displayed PROVE Ts(j) \in Nat
      OBVIOUS
    <3>1. packets[j] \in Frame
      BY <2>1, ElementOfSeq DEF TypeOK
    <3>2. packets[j].uid \in 1 .. Len(Wire)
      BY <3>1 DEF Frame, Uids
    <3>3. Wire[packets[j].uid] \in WireFrame
      BY <3>2, WireAssumption, ElementOfSeq
    <3> QED
      BY <3>3 DEF Ts, WireFrame
  <2>3. /\ Min(Displayed) \in Displayed /\ Min(Displayed) <= i
        /\ Max(Displayed) \in Displayed /\ i <= Max(Displayed)
    BY <2>1, Ends
  <2>4. /\ FirstTs \in Nat /\ LastTs \in Nat /\ Ts(i) \in Nat
        /\ FirstTs <= Ts(i) /\ Ts(i) <= LastTs
    BY <2>2, <2>3 DEF Ordered, FirstTs, LastTs
  <2>5. RangeStart \in Nat /\ RangeStart <= FirstTs
    BY <2>4, ClockTime DEF RangeStart
  <2>6. RangeEnd = InputToNs(SecondOf(LastTs), LastTs)
    BY DEF RangeEnd, InputToNs
  <2>7. RangeEnd \in Nat /\ LastTs < RangeEnd + Second
    BY <2>4, <2>6, ClockTime
  <2> QED
    BY <2>4, <2>5, <2>7, TimeAssumption DEF InRange
<1> QED
  BY <1>1, TypeCorrect, PTL
-----------------------------------------------------------------------------
(* The fields of a frame. *)

\* The one layer that shows a key is the only one with it.
LEMMA OneLayer ==
  ASSUME NEW p, NEW F, NEW k, NEW l \in DecodeTree(p, F), k \in l.keys,
         \A m \in DecodeTree(p, F): k \in m.keys => m = l
  PROVE  LayersWith(p, F, k) = {l}
BY DEF LayersWith

\* Layers of the transport have its name, those above it another.
LEMMA LayerNames ==
  ASSUME NEW p \in Protocols, NEW F,
         NEW l \in DecodeTree(p, F), NEW m \in DecodeTree(p, F), l.layer = m.layer
  PROVE  l = m
<1> DEFINE base == {[layer |-> "Frame", keys |-> {}], [layer |-> "IP", keys |-> {}]}
<1>1. \A x \in base: x.layer \in {"Frame", "IP"}
  OBVIOUS
<1>2. \A x, y \in base: x.layer = y.layer => x = y
  OBVIOUS
<1>3. /\ \A x \in TransportLayers(p, F): x.layer \in Transports \cup {"SCTP chunk"}
      /\ \A x, y \in TransportLayers(p, F): x.layer = y.layer => x = y
  <2> DEFINE tcp   == [layer |-> "TCP", keys |-> F \cap TcpKeys]
             udp   == [layer |-> "UDP", keys |-> {}]
             sctp  == [layer |-> "SCTP", keys |-> {}]
             chunk == [layer |-> "SCTP chunk", keys |-> F \cap SctpKeys]
  <2>1. /\ tcp.layer = "TCP" /\ udp.layer = "UDP"
        /\ sctp.layer = "SCTP" /\ chunk.layer = "SCTP chunk"
    OBVIOUS
  <2>2. \/ TransportLayers(p, F) \in {{}, {tcp}, {udp}}
        \/ TransportLayers(p, F) \subseteq {sctp, chunk}
    BY DEF TransportLayers
  <2> HIDE DEF tcp, udp, sctp, chunk
  <2> QED
    BY <2>1, <2>2 DEF Transports
<1>4. /\ \A x \in AppLayers(p, F):
           p \notin Transports /\ x.layer \in {p, "GTP-U inner"}
      /\ \A x, y \in AppLayers(p, F): x.layer = y.layer => x = y
  <2> DEFINE app(K) == [layer |-> p, keys |-> K]
             inner  == [layer |-> "GTP-U inner",
                        keys |-> AppKeys(F) \ {"Message Type", "TEID"}]
  <2>1. (\A K: app(K).layer = p) /\ inner.layer = "GTP-U inner"
    OBVIOUS
  <2>2. CASE p \in Transports
    <3>1. AppLayers(p, F) = {}
      BY <2>2 DEF AppLayers, Transports
    <3> QED
      BY <3>1
  <2>3. CASE p \notin Transports /\ p = "GTP-U"
    <3>1. AppLayers(p, F) \subseteq {app(F \cap {"Message Type", "TEID"}), inner}
      BY <2>3 DEF AppLayers
    <3> HIDE DEF app, inner
    <3> QED
      BY <2>1, <2>3, <3>1
  <2>4. CASE p \notin Transports /\ p # "GTP-U"
    <3>1. AppLayers(p, F) \in {{app(AppKeys(F))}, {app({})}, {app(F)}}
      BY <2>4 DEF AppLayers
    <3> HIDE DEF app
    <3> QED
      BY <2>1, <2>4, <3>1
  <2> QED
    BY <2>2, <2>3, <2>4
<1>5. p \notin {"Frame", "IP", "SCTP chunk", "GTP-U inner"}
  BY DEF Protocols, KnownProtocols, Transports
<1>6. l \in base \cup TransportLayers(p, F) \cup AppLayers(p, F)
      /\ m \in base \cup TransportLayers(p, F) \cup AppLayers(p, F)
  BY DEF DecodeTree
<1> HIDE DEF base
<1> QED
  BY <1>1, <1>2, <1>3, <1>4, <1>5, <1>6 DEF Transports

\* Each field of a protocol has its layer: by cases on who has fields at all.
LEMMA AllShownOnce ==
  ASSUME NEW p \in Protocols
  PROVE  ShownOnce(p)
<1> SUFFICES ASSUME NEW F \in SUBSET ParsedKeys(p), NEW k \in F,
                    ~(p = "PFCP" /\ k = "Sequence Number")
             PROVE  \E l \in DecodeTree(p, F): LayersWith(p, F, k) = {l}
  BY LayerNames DEF ShownOnce
<1> DEFINE base == {[layer |-> "Frame", keys |-> {}], [layer |-> "IP", keys |-> {}]}
<1>0. \A m \in base: m.keys = {}
  <2> SUFFICES ASSUME NEW m \in base PROVE m.keys = {}
    OBVIOUS
  <2>1. m = [layer |-> "Frame", keys |-> {}] \/ m = [layer |-> "IP", keys |-> {}]
    OBVIOUS
  <2> HIDE DEF base
  <2>2. CASE m = [layer |-> "Frame", keys |-> {}]
    BY <2>2
  <2>3. CASE m = [layer |-> "IP", keys |-> {}]
    BY <2>3
  <2> QED
    BY <2>1, <2>2, <2>3
<1>1. DecodeTree(p, F) = base \cup TransportLayers(p, F) \cup AppLayers(p, F)
  BY DEF DecodeTree
<1> HIDE DEF base
<1>2. /\ k \in ParsedKeys(p)
      /\ p \in {"TCP", "HTTP", "HTTP/2", "SCTP", "NGAP", "S1AP", "X2AP", "GTP-U",
                "PFCP", "DNS", "ARP"}
  BY DEF ParsedKeys
<1>3. CASE p \in {"TCP", "HTTP", "HTTP/2"}
  <2> DEFINE t == [layer |-> "TCP", keys |-> F \cap TcpKeys]
             a == [layer |-> p, keys |-> AppKeys(F)]
  <2>1. TransportLayers(p, F) = {t}
    BY <1>3 DEF TransportLayers, ActualTransport, TransportFor, Transports
  <2>2. AppLayers(p, F) = IF p = "TCP" THEN {} ELSE {a}
    BY <1>3 DEF AppLayers, Transports
  <2>3. CASE k \in TcpKeys
    <3>1. k \in t.keys /\ k \notin a.keys /\ t \in DecodeTree(p, F)
      BY <1>1, <2>1, <2>3 DEF AppKeys
    <3> HIDE DEF t, a
    <3>2. \A m \in DecodeTree(p, F): k \in m.keys => m = t
      BY <1>0, <1>1, <2>1, <2>2, <3>1
    <3> QED
      BY <3>1, <3>2, OneLayer
  <2>4. CASE k \notin TcpKeys
    <3>1. p = "HTTP/2" /\ k \notin SctpKeys
      BY <1>2, <1>3, <2>4 DEF ParsedKeys, TcpKeys, SctpKeys
    <3>2. k \notin t.keys /\ k \in a.keys /\ a \in DecodeTree(p, F)
      BY <1>1, <2>2, <2>4, <3>1 DEF AppKeys
    <3> HIDE DEF t, a
    <3>3. \A m \in DecodeTree(p, F): k \in m.keys => m = a
      BY <1>0, <1>1, <2>1, <2>2, <3>1, <3>2
    <3> QED
      BY <3>2, <3>3, OneLayer
  <2> QED
    BY <2>3, <2>4
<1>4. CASE p \in {"SCTP", "NGAP", "S1AP", "X2AP"}
  <2> DEFINE t == [layer |-> "SCTP", keys |-> {}]
             c == [layer |-> "SCTP chunk", keys |-> F \cap SctpKeys]
             a == [layer |-> p, keys |-> {}]
  <2>1. k \in SctpKeys
    BY <1>2, <1>4 DEF ParsedKeys
  <2>2. TransportLayers(p, F) = {t, c}
    BY <1>4, <2>1 DEF TransportLayers, ActualTransport, TransportFor, Transports
  <2>3. AppLayers(p, F) \subseteq {a}
    BY <1>4 DEF AppLayers, Transports
  <2>4. k \notin t.keys /\ k \in c.keys /\ k \notin a.keys /\ c \in DecodeTree(p, F)
    BY <1>1, <2>1, <2>2
  <2> HIDE DEF t, c, a
  <2>5. \A m \in DecodeTree(p, F): k \in m.keys => m = c
    BY <1>0, <1>1, <2>2, <2>3, <2>4
  <2> QED
    BY <2>4, <2>5, OneLayer
<1>5. CASE p = "GTP-U"
  <2> DEFINE t == [layer |-> "UDP", keys |-> {}]
             a == [layer |-> p, keys |-> F \cap {"Message Type", "TEID"}]
             i == [layer |-> "GTP-U inner",
                   keys |-> AppKeys(F) \ {"Message Type", "TEID"}]
  <2>1. TransportLayers(p, F) = {t}
    BY <1>5 DEF TransportLayers, ActualTransport, TransportFor, Transports
  <2>2. AppLayers(p, F) = {a} \cup (IF F \cap InnerKeys = {} THEN {} ELSE {i})
    BY <1>5 DEF AppLayers, Transports
  <2>3. CASE k \in {"Message Type", "TEID"}
    <3>1. k \notin t.keys /\ k \in a.keys /\ k \notin i.keys /\ a \in DecodeTree(p, F)
      BY <1>1, <2>2, <2>3
    <3> HIDE DEF t, a, i
    <3>2. \A m \in DecodeTree(p, F): k \in m.keys => m = a
      BY <1>0, <1>1, <2>1, <2>2, <3>1
    <3> QED
      BY <3>1, <3>2, OneLayer
  <2>4. CASE k \notin {"Message Type", "TEID"}
    <3>1. k \in InnerKeys /\ k \notin TcpKeys \cup SctpKeys
      BY <1>2, <1>5, <2>4 DEF ParsedKeys, InnerKeys, TcpKeys, SctpKeys
    <3>2. k \notin t.keys /\ k \notin a.keys /\ k \in i.keys /\ i \in DecodeTree(p, F)
      BY <1>1, <2>2, <2>4, <3>1 DEF AppKeys
    <3> HIDE DEF t, a, i
    <3>3. \A m \in DecodeTree(p, F): k \in m.keys => m = i
      BY <1>0, <1>1, <2>1, <2>2, <3>2
    <3> QED
      BY <3>2, <3>3, OneLayer
  <2> QED
    BY <2>3, <2>4
<1>6. CASE p \in {"PFCP", "DNS", "ARP"}
  <2> DEFINE t == [layer |-> "UDP", keys |-> {}]
             a == [layer |-> p, keys |-> AppKeys(F)]
  <2>1. TransportLayers(p, F) \subseteq {t}
    BY <1>6 DEF TransportLayers, ActualTransport, TransportFor, Transports
  <2>2. AppLayers(p, F) = {a}
    BY <1>6 DEF AppLayers, Transports
  <2>3. k \notin TcpKeys \cup SctpKeys
    BY <1>2, <1>6 DEF ParsedKeys, TcpKeys, SctpKeys
  <2>4. k \notin t.keys /\ k \in a.keys /\ a \in DecodeTree(p, F)
    BY <1>1, <2>2, <2>3 DEF AppKeys
  <2> HIDE DEF t, a
  <2>5. \A m \in DecodeTree(p, F): k \in m.keys => m = a
    BY <1>0, <1>1, <2>1, <2>2, <2>4
  <2> QED
    BY <2>4, <2>5, OneLayer
<1> QED
  BY <1>2, <1>3, <1>4, <1>5, <1>6

\* Whatever the server sends, every field of a frame in the table is shown in
\* one layer, but for the one that falls through.
THEOREM FieldsCorrect == Spec => []FieldsShownOnce
<1>1. TypeOK => FieldsShownOnce
  <2> SUFFICES ASSUME TypeOK, NEW i \in 1 .. Len(packets)
               PROVE  Wire[packets[i].uid].proto \in Protocols
    BY AllShownOnce DEF FieldsShownOnce
  <2>1. packets[i].uid \in 1 .. Len(Wire)
    <3>1. packets[i] \in Frame
      BY ElementOfSeq DEF TypeOK
    <3> QED
      BY <3>1 DEF Frame, Uids
  <2>2. Wire[packets[i].uid] \in WireFrame
    BY <2>1, WireAssumption, ElementOfSeq
  <2> QED
    BY <2>2 DEF WireFrame
<1> QED
  BY <1>1, TypeCorrect, PTL
=============================================================================
