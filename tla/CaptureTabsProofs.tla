-------------------------- MODULE CaptureTabsProofs --------------------------
(***************************************************************************)
(* Safety of the capture tabs, for any number of tabs and interfaces, and  *)
(* that the panels of the split view always fill it and keep at least the  *)
(* width MIN where that can be: whatever the order of events.              *)
(***************************************************************************)
EXTENDS CaptureTabs, SequenceTheorems, WellFoundedInduction, TLAPS

\* Every set of natural numbers has a least element.
LEMMA LeastExists ==
  ASSUME NEW T \in SUBSET Nat, T # {}
  PROVE  \E i \in T: \A j \in T: i <= j
<1>1. PICK i \in T: \A j \in T: ~(<<j, i>> \in OpToRel(<, Nat))
  <2> HIDE DEF OpToRel
  <2> QED
    BY NatLessThanWellFounded, WFMin, Zenon
<1>2. ASSUME NEW j \in T PROVE i <= j
  <2>1. <<j, i>> \in Nat \X Nat /\ ~(<<j, i>> \in OpToRel(<, Nat))
    BY <1>1
  <2>2. ~(j < i)
    BY <2>1 DEF OpToRel
  <2> QED
    BY <2>2
<1> QED
  BY <1>2

\* Induction on the numbers up to n: a set that holds 0 and is closed under
\* the successor holds them all.
LEMMA Induction ==
  ASSUME NEW n \in Nat, NEW G, 0 \in G, \A k \in 1 .. n: k - 1 \in G => k \in G
  PROVE  \A k \in 0 .. n: k \in G
<1> DEFINE out == {k \in 0 .. n: k \notin G}
<1> SUFFICES ASSUME out # {} PROVE FALSE
  OBVIOUS
<1>1. PICK i \in out: \A j \in out: i <= j
  <2>1. out \in SUBSET Nat
    OBVIOUS
  <2> HIDE DEF out
  <2> QED
    BY <2>1, LeastExists
<1>2. i \in 1 .. n /\ i - 1 \in 0 .. n /\ i - 1 < i /\ i \notin G
  OBVIOUS
<1>3. i - 1 \in G
  BY <1>1, <1>2
<1> QED
  BY <1>2, <1>3

\* A function defined by recursion on the numbers up to n exists: g gives its
\* next value from its last.
Recurses(f, n, V, b, g) ==
  /\ f \in [0 .. n -> V] /\ f[0] = b
  /\ \A k \in 1 .. n: f[k] = g[<<k, f[k - 1]>>]

LEMMA Recursion ==
  ASSUME NEW n \in Nat, NEW V, NEW b \in V, NEW g \in [(1 .. n) \X V -> V]
  PROVE  \E f: Recurses(f, n, V, b, g)
<1> DEFINE Upto(m) ==
      \E f \in [0 .. m -> V]: f[0] = b /\ \A k \in 1 .. m: f[k] = g[<<k, f[k - 1]>>]
<1> DEFINE G == {m \in 0 .. n: Upto(m)}
<1>1. Upto(0)
  <2> DEFINE f == [k \in 0 .. 0 |-> b]
  <2>1. f \in [0 .. 0 -> V] /\ f[0] = b /\ 1 .. 0 = {}
    OBVIOUS
  <2> HIDE DEF f
  <2> QED
    BY <2>1
<1>2. ASSUME NEW m \in 1 .. n, Upto(m - 1) PROVE Upto(m)
  <2>1. PICK f \in [0 .. m - 1 -> V]:
          f[0] = b /\ \A k \in 1 .. m - 1: f[k] = g[<<k, f[k - 1]>>]
    BY <1>2
  <2> DEFINE h == [k \in 0 .. m |-> IF k = m THEN g[<<m, f[m - 1]>>] ELSE f[k]]
  <2>2. m \in Nat /\ m - 1 \in 0 .. m - 1 /\ f[m - 1] \in V
    OBVIOUS
  <2>3. g[<<m, f[m - 1]>>] \in V
    BY <2>2
  <2>4. h \in [0 .. m -> V]
    BY <2>2, <2>3
  <2>5. h[0] = b /\ h[m] = g[<<m, h[m - 1]>>]
    BY <2>1, <2>2
  <2>6. ASSUME NEW k \in 1 .. m, k # m PROVE h[k] = g[<<k, h[k - 1]>>]
    <3>1. k \in 1 .. m - 1 /\ k - 1 \in 0 .. m - 1 /\ k - 1 # m
      BY <2>6
    <3>2. h[k] = f[k] /\ h[k - 1] = f[k - 1]
      BY <2>6, <3>1
    <3> QED
      BY <2>1, <3>1, <3>2
  <2> HIDE DEF h
  <2> QED
    BY <2>4, <2>5, <2>6
<1>3. 0 \in G /\ \A k \in 1 .. n: k - 1 \in G => k \in G
  <2> HIDE DEF Upto
  <2>1. 0 \in G
    BY <1>1
  <2>2. ASSUME NEW k \in 1 .. n, k - 1 \in G PROVE k \in G
    BY <1>2, <2>2
  <2> QED
    BY <2>1, <2>2
<1>4. n \in G
  <2> HIDE DEF G
  <2>1. \A k \in 0 .. n: k \in G
    BY <1>3, Induction
  <2> QED
    BY <2>1
<1> QED
  BY <1>4 DEF Recurses
-----------------------------------------------------------------------------

LEMMA WithoutProperties ==
  ASSUME NEW S, NEW s \in Seq(S), NEW k \in 1 .. Len(s)
  PROVE  /\ Without(s, k) \in Seq(S)
         /\ Len(Without(s, k)) = Len(s) - 1
         /\ \A j \in 1 .. Len(s) - 1:
              Without(s, k)[j] = IF j < k THEN s[j] ELSE s[j + 1]
<1>1. Len(s) \in Nat /\ Len(s) - 1 \in Nat /\ s \in [1 .. Len(s) -> S]
  BY LenProperties
<1>2. Without(s, k) \in [1 .. Len(s) - 1 -> S]
  BY <1>1 DEF Without
<1> QED
  BY <1>1, <1>2, SeqDef DEF Without

\* No panel is narrower than MIN, if so many can be that wide.
Wide(w) == Len(w) * MinWidth <= Total => \A k \in 1 .. Len(w): w[k] >= MinWidth

\* Equal shares are wide enough.
LEMMA EqualShares ==
  ASSUME NEW n \in 1 .. MaxTabs
  PROVE  Equal(n) \in Seq(Int) /\ Len(Equal(n)) = n /\ Wide(Equal(n))
<1>1. /\ n \in Nat /\ n > 0 /\ Total \in Nat /\ MinWidth \in Nat
      /\ Total \div n \in Nat /\ n * (Total \div n) = Total
  BY WidthAssumption, BoundAssumption
<1>2. Equal(n) \in [1 .. n -> Int]
  BY <1>1 DEF Equal
<1>3. Equal(n) \in Seq(Int) /\ Len(Equal(n)) = n
  BY <1>1, <1>2, SeqDef DEF Equal
<1>4. ASSUME n * MinWidth <= Total PROVE Total \div n >= MinWidth
  <2>1. SUFFICES ASSUME Total \div n + 1 <= MinWidth PROVE FALSE
    BY <1>1
  <2>2. ASSUME NEW q \in Nat, NEW m \in Nat, q + 1 <= m PROVE n * q + n <= n * m
    <3>1. PICK d \in Nat: m = q + 1 + d
      <4>1. m - q - 1 \in Nat /\ m = q + 1 + (m - q - 1)
        BY <2>2
      <4> QED
        BY <4>1
    <3>2. n * m = n * q + n + n * d /\ n * d >= 0 /\ n * q \in Nat /\ n * d \in Nat
      BY <1>1, <3>1
    <3> QED
      BY <1>1, <3>2
  <2>3. n * (Total \div n) + n <= n * MinWidth
    BY <1>1, <2>1, <2>2
  <2> QED
    BY <1>1, <1>4, <2>3
<1>5. Wide(Equal(n))
  BY <1>3, <1>4 DEF Wide, Equal
<1> QED
  BY <1>3, <1>5

\* The partial sums of a row of widths: WidthSum is the last one.
IsSums(s, w) ==
  /\ s \in [0 .. Len(w) -> Int] /\ s[0] = 0
  /\ \A n \in 1 .. Len(w): s[n] = w[n] + s[n - 1]

LEMMA PartialSums ==
  ASSUME NEW w \in Seq(Int)
  PROVE  \E s: IsSums(s, w) /\ WidthSum(w) = s[Len(w)]
<1> DEFINE Eqn(f) == f = [n \in 0 .. Len(w) |-> IF n = 0 THEN 0 ELSE w[n] + f[n - 1]]
           g == [p \in (1 .. Len(w)) \X Int |-> w[p[1]] + p[2]]
           s == CHOOSE f: Eqn(f)
<1>1. Len(w) \in Nat /\ \A n \in 1 .. Len(w): w[n] \in Int
  BY LenProperties
<1>2. g \in [(1 .. Len(w)) \X Int -> Int]
  BY <1>1
<1>3. \A n \in 1 .. Len(w), x \in Int: g[<<n, x>>] = w[n] + x
  OBVIOUS
<1> HIDE DEF g
<1>4. PICK f \in [0 .. Len(w) -> Int]: f[0] = 0 /\ \A n \in 1 .. Len(w): f[n] = g[<<n, f[n - 1]>>]
  <2>1. Len(w) \in Nat /\ 0 \in Int
    BY <1>1
  <2>2. \E f: Recurses(f, Len(w), Int, 0, g)
    BY <1>2, <2>1, Recursion, Zenon
  <2> QED
    BY <2>2 DEF Recurses
<1>5. \A n \in 1 .. Len(w): f[n] = w[n] + f[n - 1]
  <2>1. \A n \in 1 .. Len(w): f[n - 1] \in Int
    BY <1>1
  <2> QED
    BY <1>3, <1>4, <2>1
<1>6. Eqn(f)
  <2>1. \A n \in 0 .. Len(w): n = 0 \/ n \in 1 .. Len(w)
    BY <1>1
  <2>2. f = [n \in 0 .. Len(w) |-> f[n]]
    OBVIOUS
  <2> QED
    BY <1>4, <1>5, <2>1, <2>2
<1>7. Eqn(s)
  BY <1>6, Zenon
<1>8. WidthSum(w) = s[Len(w)]
  BY DEF WidthSum
<1> HIDE DEF s
<1>9. s = f
  <2> DEFINE same == {n \in 0 .. Len(w): s[n] = f[n]}
  <2>1. s[0] = 0 /\ \A n \in 1 .. Len(w): s[n] = w[n] + s[n - 1]
    BY <1>1, <1>7
  <2>2. 0 \in same /\ \A n \in 1 .. Len(w): n - 1 \in same => n \in same
    BY <1>1, <1>4, <1>5, <2>1
  <2> HIDE DEF same
  <2>3. \A n \in 0 .. Len(w): n \in same
    BY <1>1, <2>2, Induction
  <2>4. \A n \in 0 .. Len(w): s[n] = f[n]
    BY <2>3 DEF same
  <2> QED
    BY <1>7, <2>4
<1>10. IsSums(s, w)
  BY <1>4, <1>5, <1>9 DEF IsSums
<1> QED
  BY <1>8, <1>10

\* Equal shares fill the view.
LEMMA EqualFill ==
  ASSUME NEW n \in 1 .. MaxTabs
  PROVE  WidthSum(Equal(n)) = Total
<1> DEFINE q == Total \div n
<1>1. n \in Nat /\ q \in Int /\ n * q = Total /\ Equal(n) \in Seq(Int) /\ Len(Equal(n)) = n
  <2>1. n \in Nat /\ n > 0 /\ Total \in Nat /\ n * q = Total
    BY WidthAssumption, BoundAssumption
  <2>2. q \in Int
    BY <2>1
  <2> QED
    BY <2>1, <2>2, EqualShares
<1>2. \A k \in 1 .. n: Equal(n)[k] = q
  BY DEF Equal
<1>3. PICK s: IsSums(s, Equal(n)) /\ WidthSum(Equal(n)) = s[n]
  BY <1>1, PartialSums
<1> HIDE DEF q
<1> DEFINE G == {k \in 0 .. n: s[k] = k * q}
<1>4. 0 \in G
  BY <1>1, <1>3 DEF IsSums
<1>5. ASSUME NEW k \in 1 .. n, k - 1 \in G PROVE k \in G
  <2>1. s[k] = q + s[k - 1] /\ s[k - 1] = (k - 1) * q
    BY <1>1, <1>2, <1>3, <1>5 DEF IsSums
  <2>2. (k - 1) * q + q = k * q
    BY <1>1
  <2> QED
    BY <1>1, <2>1, <2>2
<1> HIDE DEF G
<1>6. \A k \in 0 .. n: k \in G
  BY <1>1, <1>4, <1>5, Induction
<1>7. s[n] = n * q
  BY <1>1, <1>6 DEF G
<1> QED
  BY <1>1, <1>3, <1>7

\* Dragging a divider keeps the row as long and as wide as it was.
LEMMA DragKeepsWide ==
  ASSUME NEW w \in Seq(Int), NEW i \in 1 .. Len(w) - 1, NEW delta \in Int
  PROVE  /\ Dragged(w, i, delta) \in Seq(Int)
         /\ Len(Dragged(w, i, delta)) = Len(w)
         /\ Dragged(w, i, delta)[i] + Dragged(w, i, delta)[i + 1] = w[i] + w[i + 1]
         /\ Wide(w) => Wide(Dragged(w, i, delta))
<1> DEFINE d == Dragged(w, i, delta)
           left == LeftWidth(w, i, delta)
<1>1. /\ Len(w) \in Nat /\ w \in [1 .. Len(w) -> Int] /\ MinWidth \in Nat
      /\ i \in 1 .. Len(w) /\ i + 1 \in 1 .. Len(w) /\ i \in Int
  BY LenProperties, WidthAssumption
<1>2. w[i] \in Int /\ w[i + 1] \in Int /\ delta \in Int
  BY <1>1
<1>3. /\ left \in Int /\ left >= MinWidth
      /\ left <= MinWidth \/ left <= w[i] + w[i + 1] - MinWidth
  BY <1>1, <1>2 DEF LeftWidth, Greatest, Least
<1>4. d \in [1 .. Len(w) -> Int]
  BY <1>1, <1>2, <1>3 DEF Dragged
<1>5. d \in Seq(Int) /\ Len(d) = Len(w)
  <2>1. d \in Seq(Int)
    BY <1>1, <1>4, SeqDef
  <2> HIDE DEF d
  <2>2. Len(d) \in Nat /\ DOMAIN d = 1 .. Len(d) /\ DOMAIN d = 1 .. Len(w)
    BY <1>4, <2>1, LenProperties
  <2>3. ASSUME NEW m \in Nat, NEW n \in Nat, 1 .. m = 1 .. n PROVE m = n
    <3>1. \A k \in Int: k \in 1 .. m <=> k \in 1 .. n
      BY <2>3
    <3> QED
      BY <3>1
  <2>4. Len(d) = Len(w)
    BY <1>1, <2>2, <2>3
  <2> QED
    BY <2>1, <2>4
<1>6. /\ d[i] = left /\ d[i + 1] = w[i] + w[i + 1] - left
      /\ \A k \in 1 .. Len(w): k # i /\ k # i + 1 => d[k] = w[k]
  BY <1>1 DEF Dragged
<1>7. d[i] + d[i + 1] = w[i] + w[i + 1]
  BY <1>2, <1>3, <1>6
<1>8. ASSUME Wide(w), Len(w) * MinWidth <= Total, NEW k \in 1 .. Len(w)
      PROVE  d[k] >= MinWidth
  <2>1. w[i] >= MinWidth /\ w[i + 1] >= MinWidth /\ w[k] >= MinWidth
    BY <1>1, <1>8 DEF Wide
  <2>2. d[i] >= MinWidth /\ d[i + 1] >= MinWidth
    BY <1>1, <1>2, <1>3, <1>6, <2>1
  <2> QED
    BY <1>6, <2>1, <2>2
<1>9. Wide(w) => Wide(d)
  BY <1>5, <1>8 DEF Wide
<1> QED
  BY <1>5, <1>7, <1>9

\* Dragging a divider moves width from one panel to the next and loses none.
LEMMA DragKeepsSum ==
  ASSUME NEW w \in Seq(Int), NEW i \in 1 .. Len(w) - 1, NEW delta \in Int
  PROVE  WidthSum(Dragged(w, i, delta)) = WidthSum(w)
<1> DEFINE d == Dragged(w, i, delta)
<1>1. /\ Len(w) \in Nat /\ i \in Nat /\ w \in [1 .. Len(w) -> Int]
      /\ d \in Seq(Int) /\ Len(d) = Len(w) /\ d \in [1 .. Len(w) -> Int]
      /\ d[i] + d[i + 1] = w[i] + w[i + 1]
  BY DragKeepsWide, LenProperties
<1>2. \A k \in 1 .. Len(w): k # i /\ k # i + 1 => d[k] = w[k]
  BY <1>1 DEF Dragged
<1>3. PICK s: IsSums(s, w) /\ WidthSum(w) = s[Len(w)]
  BY PartialSums
<1>4. PICK t: IsSums(t, d) /\ WidthSum(d) = t[Len(w)]
  BY <1>1, PartialSums
<1> HIDE DEF d
<1> DEFINE G == {k \in 0 .. Len(w): t[k] = s[k] + (IF k = i THEN d[i] - w[i] ELSE 0)}
<1>5. 0 \in G
  BY <1>1, <1>3, <1>4 DEF IsSums
<1>6. ASSUME NEW k \in 1 .. Len(w), k - 1 \in G PROVE k \in G
  <2>1. /\ s[k] = w[k] + s[k - 1] /\ t[k] = d[k] + t[k - 1]
        /\ s[k - 1] \in Int /\ t[k - 1] \in Int /\ w[k] \in Int /\ d[k] \in Int
        /\ w[i] \in Int /\ d[i] \in Int
        /\ t[k - 1] = s[k - 1] + (IF k - 1 = i THEN d[i] - w[i] ELSE 0)
    <3>1. /\ k \in 0 .. Len(w) /\ k - 1 \in 0 .. Len(w) /\ i \in 1 .. Len(w)
          /\ s \in [0 .. Len(w) -> Int] /\ t \in [0 .. Len(w) -> Int]
      BY <1>1, <1>3, <1>4 DEF IsSums
    <3>2. s[k] = w[k] + s[k - 1] /\ t[k] = d[k] + t[k - 1]
      BY <1>1, <1>3, <1>4 DEF IsSums
    <3> QED
      BY <1>1, <1>6, <3>1, <3>2
  <2>2. CASE k = i
    BY <1>1, <2>1, <2>2
  <2>3. CASE k = i + 1
    <3>1. k - 1 = i /\ k # i /\ d[i] + d[k] = w[i] + w[k]
      BY <1>1, <2>3
    <3> QED
      BY <2>1, <3>1
  <2>4. CASE k # i /\ k # i + 1
    <3>1. k - 1 # i /\ d[k] = w[k]
      BY <1>1, <1>2, <2>4
    <3> QED
      BY <2>1, <2>4, <3>1
  <2> QED
    BY <2>2, <2>3, <2>4
<1> HIDE DEF G
<1>7. \A k \in 0 .. Len(w): k \in G
  BY <1>1, <1>5, <1>6, Induction
<1>8. t[Len(w)] = s[Len(w)]
  <2>1. Len(w) \in 0 .. Len(w) /\ Len(w) # i
    <3>1. \A n \in Nat: i \in 1 .. n - 1 => n \in 0 .. n /\ n # i
      OBVIOUS
    <3> QED
      BY <1>1, <3>1
  <2>2. s[Len(w)] \in Int
    BY <2>1, <1>3 DEF IsSums
  <2>3. t[Len(w)] = s[Len(w)] + 0
    BY <1>7, <2>1 DEF G
  <2> QED
    BY <2>2, <2>3
<1> QED
  BY <1>3, <1>4, <1>8 DEF d

\* What WidthsFit asks of a row of widths, whatever tabs there are now.
Fits(w) == Wide(w) /\ (Len(w) > 0 => WidthSum(w) = Total)

LEMMA EqualFits ==
  ASSUME NEW n \in 1 .. MaxTabs
  PROVE  Equal(n) \in Seq(Int) /\ Len(Equal(n)) = n /\ Fits(Equal(n))
BY EqualShares, EqualFill DEF Fits

LEMMA DragKeepsFits ==
  ASSUME NEW w \in Seq(Int), NEW i \in 1 .. Len(w) - 1, NEW delta \in Int
  PROVE  /\ Dragged(w, i, delta) \in Seq(Int)
         /\ Len(Dragged(w, i, delta)) = Len(w)
         /\ Fits(w) => Fits(Dragged(w, i, delta))
BY DragKeepsWide, DragKeepsSum DEF Fits
-----------------------------------------------------------------------------
\* The widths set last and those of a drag fill the view and are wide enough,
\* each for as many panels as there were then.
WidthInv ==
  /\ Len(drag.widths) <= MaxTabs
  /\ Fits(splitWidths) /\ Fits(drag.widths)

IInv == TypeOK /\ TabsConsistent /\ WidthInv

LEMMA InitInv == Init => IInv
<1> SUFFICES ASSUME Init PROVE IInv
  OBVIOUS
<1>1. MaxTabs \in Nat /\ MaxTabs > 0 /\ MaxIds \in Nat /\ MaxIds > 0
  BY BoundAssumption
<1>2. /\ <<>> \in Seq(Tab) /\ <<>> \in Seq(Int) /\ Len(<<>>) = 0
  OBVIOUS
<1>3. Fits(<<>>)
  BY DEF Fits, Wide
<1>4. NoDrag \in [idx: 0 .. MaxTabs, widths: Seq(Int)]
  BY <1>1, <1>2 DEF NoDrag
<1>5. TypeOK
  <2>1. route \in Routes
    BY DEF Init, Routes
  <2>2. tabs \in Seq(Tab) /\ Len(tabs) <= MaxTabs /\ splitWidths \in Seq(Int)
        /\ Len(splitWidths) <= MaxTabs
    BY <1>1, <1>2 DEF Init
  <2>3. drag \in [idx: 0 .. MaxTabs, widths: Seq(Int)] /\ drag.idx = 0
    BY <1>4 DEF Init, NoDrag
  <2>4. activeId \in Ids \cup {0} /\ nextId \in 1 .. MaxIds + 1
    BY <1>1 DEF Init
  <2>5. splitMode \in BOOLEAN /\ showAdd \in BOOLEAN
    BY DEF Init
  <2> QED
    BY <2>1, <2>2, <2>3, <2>4, <2>5 DEF TypeOK
<1>6. TabsConsistent
  BY <1>2 DEF Init, TabsConsistent
<1>7. WidthInv
  BY <1>1, <1>2, <1>3 DEF Init, WidthInv, NoDrag
<1> QED
  BY <1>5, <1>6, <1>7 DEF IInv

LEMMA ResetStep ==
  ASSUME IInv, ResetWidths, tabs' \in Seq(Tab), Len(tabs') <= MaxTabs
  PROVE  splitWidths' \in Seq(Int) /\ Len(splitWidths') <= MaxTabs /\ Fits(splitWidths')
<1>1. Len(tabs') \in Nat
  BY LenProperties
<1>2. CASE Len(tabs') # Len(tabs) /\ Len(tabs') > 0
  <2>1. Len(tabs') \in 1 .. MaxTabs
    BY <1>1, <1>2, BoundAssumption
  <2> QED
    BY <1>2, <2>1, EqualFits DEF ResetWidths
<1>3. CASE ~(Len(tabs') # Len(tabs) /\ Len(tabs') > 0)
  BY <1>3 DEF ResetWidths, IInv, TypeOK, WidthInv
<1> QED
  BY <1>2, <1>3

\* Opening a capture keeps the bar consistent, and shows what was asked for
\* unless the bar is full.
LEMMA OpenStep ==
  ASSUME IInv, NEW key \in Keys, OpenTab(key)
  PROVE  /\ tabs' \in Seq(Tab) /\ Len(tabs') <= MaxTabs
         /\ activeId' \in Ids \cup {0} /\ nextId' \in 1 .. MaxIds + 1
         /\ TabsConsistent'
         /\ Shows(tabs', activeId', key) \/ Len(tabs) = MaxTabs
<1>1. /\ tabs \in Seq(Tab) /\ Len(tabs) \in Nat /\ Len(tabs) <= MaxTabs
      /\ \A k \in 1 .. Len(tabs): tabs[k] \in Tab
      /\ MaxTabs \in Nat /\ MaxIds \in Nat
  BY LenProperties, BoundAssumption DEF IInv, TypeOK
<1>2. \A k \in 1 .. Len(tabs): tabs[k].id \in Ids /\ tabs[k].key \in Keys
  BY <1>1 DEF Tab
<1>3. ASSUME NEW k \in Positions(key), activeId' = tabs[k].id,
             UNCHANGED <<tabs, nextId>>
      PROVE  /\ activeId' \in Ids /\ TabsConsistent'
             /\ Shows(tabs', activeId', key)
  <2>1. k \in 1 .. Len(tabs) /\ tabs[k].key = key
    BY DEF Positions
  <2>2. tabs # <<>>
    BY <1>1, <2>1
  <2> QED
    BY <1>2, <1>3, <2>1, <2>2 DEF IInv, TabsConsistent, Shows
<1>4. CASE Len(tabs) >= MaxTabs /\ UNCHANGED tabVars
  BY <1>1, <1>4 DEF IInv, TypeOK, TabsConsistent, tabVars
<1>5. ASSUME Positions(key) = {}, Len(tabs) < MaxTabs, nextId \in Ids,
             tabs' = Append(tabs, [id |-> nextId, key |-> key]),
             activeId' = nextId, nextId' = nextId + 1
      PROVE  /\ tabs' \in Seq(Tab) /\ Len(tabs') <= MaxTabs
             /\ activeId' \in Ids /\ nextId' \in 1 .. MaxIds + 1
             /\ TabsConsistent' /\ Shows(tabs', activeId', key)
  <2> DEFINE new == [id |-> nextId, key |-> key]
  <2>1. new \in Tab /\ new.id = nextId /\ new.key = key
    BY <1>5 DEF Tab
  <2>2. /\ tabs' \in Seq(Tab) /\ Len(tabs') = Len(tabs) + 1 /\ tabs' # <<>>
        /\ \A k \in 1 .. Len(tabs): tabs'[k] = tabs[k]
        /\ tabs'[Len(tabs) + 1] = new
    BY <1>1, <1>5, <2>1, AppendProperties
  <2>3. \A k \in 1 .. Len(tabs'): k \in 1 .. Len(tabs) \/ k = Len(tabs) + 1
    BY <1>1, <2>2
  <2>4. nextId \in Int /\ nextId' \in 1 .. MaxIds + 1
    BY <1>1, <1>5 DEF Ids
  <2>5. \A k \in 1 .. Len(tabs): tabs[k].key # key /\ tabs[k].id < nextId
                                 /\ tabs[k].id # nextId
    BY <1>2, <1>5, <2>4 DEF Positions, IInv, TabsConsistent, Ids
  <2>6. \A j, k \in 1 .. Len(tabs'):
          tabs'[j].key = tabs'[k].key \/ tabs'[j].id = tabs'[k].id => j = k
    BY <2>1, <2>2, <2>3, <2>5 DEF IInv, TabsConsistent
  <2>7. \A k \in 1 .. Len(tabs'): tabs'[k].id < nextId'
    BY <1>2, <1>5, <2>1, <2>2, <2>3, <2>4, <2>5 DEF Ids
  <2>8. Len(tabs) + 1 \in 1 .. Len(tabs') /\ tabs'[Len(tabs) + 1].id = activeId'
        /\ tabs'[Len(tabs) + 1].key = key
    BY <1>1, <1>5, <2>1, <2>2
  <2>9. TabsConsistent'
    BY <2>2, <2>6, <2>7, <2>8 DEF TabsConsistent
  <2> QED
    BY <1>1, <1>5, <2>2, <2>4, <2>8, <2>9 DEF Shows
<1> QED
  BY <1>1, <1>3, <1>4, <1>5 DEF OpenTab, IInv, TypeOK

\* Closing one: the tabs left are consistent, and a neighbour takes over.
LEMMA CloseStep ==
  ASSUME IInv, NEW k \in 1 .. MaxTabs, CloseTab(k)
  PROVE  /\ tabs' \in Seq(Tab) /\ Len(tabs') <= MaxTabs
         /\ activeId' \in Ids \cup {0}
         /\ TabsConsistent'
<1>1. /\ tabs \in Seq(Tab) /\ Len(tabs) \in Nat /\ Len(tabs) <= MaxTabs
      /\ \A j \in 1 .. Len(tabs): tabs[j] \in Tab
      /\ k \in 1 .. Len(tabs) /\ MaxTabs \in Nat
      /\ tabs' = Without(tabs, k) /\ nextId' = nextId
  BY LenProperties, BoundAssumption DEF IInv, TypeOK, CloseTab
<1>2. \A j \in 1 .. Len(tabs): tabs[j].id \in Ids /\ tabs[j].id # 0
  BY <1>1 DEF Tab, Ids
<1>3. /\ tabs' \in Seq(Tab) /\ Len(tabs') = Len(tabs) - 1 /\ Len(tabs') \in Nat
      /\ \A j \in 1 .. Len(tabs'): tabs'[j] = IF j < k THEN tabs[j] ELSE tabs[j + 1]
  <2>1. /\ Without(tabs, k) \in Seq(Tab) /\ Len(Without(tabs, k)) = Len(tabs) - 1
        /\ \A j \in 1 .. Len(tabs) - 1:
             Without(tabs, k)[j] = IF j < k THEN tabs[j] ELSE tabs[j + 1]
    BY <1>1, WithoutProperties
  <2> QED
    BY <1>1, <2>1
<1>4. \A i, j \in 1 .. Len(tabs'):
        tabs'[i].key = tabs'[j].key \/ tabs'[i].id = tabs'[j].id => i = j
  <2> SUFFICES ASSUME NEW i \in 1 .. Len(tabs'), NEW j \in 1 .. Len(tabs'),
                      tabs'[i].key = tabs'[j].key \/ tabs'[i].id = tabs'[j].id
               PROVE  i = j
    OBVIOUS
  <2>1. PICK a \in 1 .. Len(tabs): tabs'[i] = tabs[a] /\ a = (IF i < k THEN i ELSE i + 1)
    BY <1>1, <1>3
  <2>2. PICK b \in 1 .. Len(tabs): tabs'[j] = tabs[b] /\ b = (IF j < k THEN j ELSE j + 1)
    BY <1>1, <1>3
  <2>3. a = b
    BY <2>1, <2>2 DEF IInv, TabsConsistent
  <2> QED
    BY <1>1, <1>3, <2>1, <2>2, <2>3
<1>5. \A j \in 1 .. Len(tabs'): tabs'[j].id < nextId'
  BY <1>1, <1>3 DEF IInv, TabsConsistent
<1>6. IF tabs' = <<>> THEN activeId' = 0
      ELSE \E j \in 1 .. Len(tabs'): tabs'[j].id = activeId'
  <2>1. PICK a \in 1 .. Len(tabs): tabs[a].id = activeId
    <3>1. tabs # <<>>
      BY <1>1
    <3> QED
      BY <3>1 DEF IInv, TabsConsistent
  <2>2. CASE activeId # tabs[k].id
    <3>1. activeId' = activeId /\ a # k
      BY <1>1, <2>1, <2>2 DEF CloseTab
    <3>2. CASE a < k
      <4>1. a \in 1 .. Len(tabs') /\ tabs'[a] = tabs[a] /\ tabs' # <<>>
        BY <1>1, <1>3, <3>2
      <4> QED
        BY <2>1, <3>1, <4>1
    <3>3. CASE a > k
      <4>1. a - 1 \in 1 .. Len(tabs') /\ tabs'[a - 1] = tabs[a] /\ tabs' # <<>>
        BY <1>1, <1>3, <3>3
      <4> QED
        BY <2>1, <3>1, <4>1
    <3> QED
      BY <1>1, <3>1, <3>2, <3>3
  <2>3. CASE activeId = tabs[k].id
    <3>1. activeId' = IF tabs' = <<>> THEN 0 ELSE tabs'[Least(k, Len(tabs'))].id
      BY <2>3 DEF CloseTab
    <3>2. tabs' # <<>> => Len(tabs') # 0
      BY <1>3, EmptySeq
    <3>3. tabs' # <<>> => Least(k, Len(tabs')) \in 1 .. Len(tabs')
      BY <1>1, <1>3, <3>2 DEF Least
    <3> QED
      BY <3>1, <3>3
  <2> QED
    BY <2>2, <2>3
<1>7. TabsConsistent'
  BY <1>4, <1>5, <1>6 DEF TabsConsistent
<1>8. activeId' \in Ids \cup {0}
  <2>1. \A j \in 1 .. Len(tabs'): tabs'[j].id \in Ids
    BY <1>1, <1>2, <1>3
  <2> QED
    BY <1>6, <2>1
<1> QED
  BY <1>1, <1>3, <1>7, <1>8

LEMMA EffectiveFits ==
  ASSUME IInv, Len(tabs) > 0
  PROVE  Effective \in Seq(Int) /\ Len(Effective) = Len(tabs) /\ Fits(Effective)
<1>1. Len(tabs) \in 1 .. MaxTabs
  BY LenProperties, BoundAssumption DEF IInv, TypeOK
<1>2. CASE Len(splitWidths) = Len(tabs)
  BY <1>2 DEF Effective, IInv, TypeOK, WidthInv
<1>3. CASE Len(splitWidths) # Len(tabs)
  BY <1>1, <1>3, EqualFits DEF Effective
<1> QED
  BY <1>2, <1>3

\* IInv is inductive.
LEMMA StepInv == IInv /\ [Next]_vars => IInv'
<1> SUFFICES ASSUME IInv, [Next]_vars PROVE IInv'
  OBVIOUS
<1>1. CASE UNCHANGED vars
  BY <1>1 DEF IInv, TypeOK, TabsConsistent, WidthInv, vars, tabVars, widthVars
<1>2. ASSUME NEW r \in Routes, Navigate(r) PROVE IInv'
  <2>1. CASE r.key # NoKey /\ OpenTab(r.key)
    <3>1. r.key \in Keys
      BY <2>1 DEF Routes
    <3>2. /\ tabs' \in Seq(Tab) /\ Len(tabs') <= MaxTabs
          /\ activeId' \in Ids \cup {0} /\ nextId' \in 1 .. MaxIds + 1
          /\ TabsConsistent'
      BY <2>1, <3>1, OpenStep
    <3>3. splitWidths' \in Seq(Int) /\ Len(splitWidths') <= MaxTabs /\ Fits(splitWidths')
      BY <1>2, <3>2, ResetStep DEF Navigate
    <3> QED
      BY <1>2, <3>2, <3>3 DEF Navigate, IInv, TypeOK, WidthInv
  <2>2. CASE UNCHANGED tabVars
    <3>1. splitWidths' \in Seq(Int) /\ Len(splitWidths') <= MaxTabs /\ Fits(splitWidths')
      BY <1>2, <2>2, ResetStep DEF Navigate, IInv, TypeOK, tabVars
    <3> QED
      BY <1>2, <2>2, <3>1
      DEF Navigate, IInv, TypeOK, TabsConsistent, WidthInv, tabVars
  <2> QED
    BY <1>2, <2>1, <2>2 DEF Navigate
<1>3. ASSUME NEW key \in Keys, StartCapture(key) PROVE IInv'
  <2>1. /\ tabs' \in Seq(Tab) /\ Len(tabs') <= MaxTabs
        /\ activeId' \in Ids \cup {0} /\ nextId' \in 1 .. MaxIds + 1
        /\ TabsConsistent'
    BY <1>3, OpenStep DEF StartCapture
  <2>2. splitWidths' \in Seq(Int) /\ Len(splitWidths') <= MaxTabs /\ Fits(splitWidths')
    BY <1>3, <2>1, ResetStep DEF StartCapture
  <2> QED
    BY <1>3, <2>1, <2>2 DEF StartCapture, IInv, TypeOK, WidthInv
<1>4. ASSUME NEW k \in 1 .. MaxTabs, CloseTab(k) PROVE IInv'
  <2>1. /\ tabs' \in Seq(Tab) /\ Len(tabs') <= MaxTabs
        /\ activeId' \in Ids \cup {0} /\ TabsConsistent'
    BY <1>4, CloseStep
  <2>2. splitWidths' \in Seq(Int) /\ Len(splitWidths') <= MaxTabs /\ Fits(splitWidths')
    BY <1>4, <2>1, ResetStep DEF CloseTab
  <2> QED
    BY <1>4, <2>1, <2>2 DEF CloseTab, IInv, TypeOK, WidthInv
<1>5. ASSUME NEW k \in 1 .. MaxTabs, Select(k) PROVE IInv'
  <2>1. k \in 1 .. Len(tabs) /\ tabs[k].id \in Ids /\ tabs # <<>>
    <3>1. k \in 1 .. Len(tabs) /\ tabs[k] \in Tab /\ tabs # <<>>
      BY <1>5, LenProperties, EmptySeq DEF Select, IInv, TypeOK
    <3> QED
      BY <3>1 DEF Tab
  <2>2. TabsConsistent'
    BY <1>5, <2>1 DEF Select, IInv, TabsConsistent
  <2> QED
    BY <1>5, <2>1, <2>2 DEF Select, IInv, TypeOK, WidthInv, widthVars
<1>6. ASSUME NEW k \in 1 .. MaxTabs, StartDrag(k) PROVE IInv'
  <2>1. Len(tabs) \in Nat /\ k \in 1 .. Len(tabs) - 1 /\ Len(tabs) > 0
    BY <1>6, LenProperties DEF StartDrag, IInv, TypeOK
  <2>2. Effective \in Seq(Int) /\ Len(Effective) = Len(tabs) /\ Fits(Effective)
    BY <2>1, EffectiveFits
  <2>3. drag' = [idx |-> k, widths |-> Effective]
    BY <1>6 DEF StartDrag
  <2>4. drag' \in [idx: 0 .. MaxTabs, widths: Seq(Int)] /\ drag'.idx < Len(drag'.widths)
        /\ Len(drag'.widths) <= MaxTabs /\ Fits(drag'.widths)
    BY <2>1, <2>2, <2>3, BoundAssumption DEF IInv, TypeOK
  <2>5. UNCHANGED <<route, tabs, activeId, nextId, splitMode, showAdd, splitWidths>>
    BY <1>6 DEF StartDrag, tabVars
  <2> QED
    BY <2>4, <2>5 DEF IInv, TypeOK, TabsConsistent, WidthInv
<1>7. CASE ToggleAdd \/ ToggleSplit
  BY <1>7
  DEF ToggleAdd, ToggleSplit, IInv, TypeOK, TabsConsistent, WidthInv, tabVars, widthVars
<1>8. ASSUME NEW delta \in -Total .. Total, MoveDrag(delta) PROVE IInv'
  <2>1. drag.widths \in Seq(Int) /\ drag.idx \in 1 .. Len(drag.widths) - 1
        /\ delta \in Int
    <3>1. /\ drag.widths \in Seq(Int) /\ drag.idx \in 0 .. MaxTabs /\ drag.idx # 0
          /\ drag.idx < Len(drag.widths)
      BY <1>8 DEF MoveDrag, IInv, TypeOK
    <3>2. Len(drag.widths) \in Nat /\ delta \in Int
      BY <3>1, LenProperties, WidthAssumption
    <3> QED
      BY <3>1, <3>2, BoundAssumption
  <2>2. /\ splitWidths' \in Seq(Int) /\ Len(splitWidths') = Len(drag.widths)
        /\ Fits(drag.widths) => Fits(splitWidths')
    BY <1>8, <2>1, DragKeepsFits DEF MoveDrag
  <2> QED
    BY <1>8, <2>2 DEF MoveDrag, IInv, TypeOK, TabsConsistent, WidthInv, tabVars
<1>9. CASE EndDrag
  <2>1. /\ drag' = NoDrag /\ NoDrag.idx = 0 /\ NoDrag.widths = <<>>
        /\ NoDrag \in [idx: 0 .. MaxTabs, widths: Seq(Int)]
    BY <1>9, BoundAssumption, EmptySeq DEF EndDrag, NoDrag
  <2>2. Fits(<<>>) /\ Len(<<>>) <= MaxTabs
    BY BoundAssumption DEF Fits, Wide
  <2> QED
    BY <1>9, <2>1, <2>2 DEF EndDrag, IInv, TypeOK, TabsConsistent, WidthInv, tabVars
<1> QED
  BY <1>1, <1>2, <1>3, <1>4, <1>5, <1>6, <1>7, <1>8, <1>9 DEF Next

LEMMA Invariance == Spec => []IInv
  BY InitInv, StepInv, PTL DEF Spec

\* The variables keep their types; there are never more tabs than the limit.
THEOREM TypeCorrect == Spec => []TypeOK
<1>1. IInv => TypeOK
  BY DEF IInv
<1> QED
  BY <1>1, Invariance, PTL

\* No capture is open twice, and a tab is active exactly when there is one.
THEOREM TabsCorrect == Spec => []TabsConsistent
<1>1. IInv => TabsConsistent
  BY DEF IInv
<1> QED
  BY <1>1, Invariance, PTL

\* What a user asks for by a link or by Start is shown, unless the bar is full.
THEOREM CaptureShownCorrect == Spec => CaptureShown
<1>1. ASSUME IInv, [Next]_vars, NEW key \in Keys,
             StartCapture(key) \/ (route' # route /\ route'.key = key)
      PROVE  Shows(tabs', activeId', key) \/ Len(tabs) = MaxTabs
  <2>1. CASE StartCapture(key)
    BY <1>1, <2>1, OpenStep DEF StartCapture
  <2>2. CASE route' # route /\ route'.key = key
    <3>1. PICK r \in Routes: Navigate(r)
      BY <1>1, <2>2
      DEF Next, StartCapture, CloseTab, Select, StartDrag, ToggleAdd, ToggleSplit,
          MoveDrag, EndDrag, vars
    <3>2. OpenTab(key)
      BY <2>2, <3>1, KeyAssumption DEF Navigate
    <3> QED
      BY <1>1, <3>2, OpenStep
  <2> QED
    BY <1>1, <2>1, <2>2
<1>2. IInv /\ [Next]_vars =>
        [\A key \in Keys:
           StartCapture(key) \/ (route' # route /\ route'.key = key)
             => Shows(tabs', activeId', key) \/ Len(tabs) = MaxTabs]_vars
  BY <1>1
<1> QED
  BY <1>2, Invariance, PTL DEF Spec, CaptureShown

\* However dividers are dragged while tabs come and go, the panels of the split
\* view fill it, and none is narrower than MIN while there is room for as many
\* of that width (effectiveWidths, the effect on the number of tabs, the drag).
THEOREM WidthsCorrect == Spec => []WidthsFit
<1>1. IInv => WidthsFit
  <2> SUFFICES ASSUME IInv, tabs # <<>>
               PROVE  /\ WidthSum(Effective) = Total
                      /\ Len(tabs) * MinWidth <= Total =>
                           \A k \in 1 .. Len(tabs): Effective[k] >= MinWidth
    BY DEF WidthsFit
  <2>1. Len(tabs) > 0
    BY EmptySeq DEF IInv, TypeOK
  <2>2. Len(Effective) = Len(tabs) /\ Fits(Effective)
    BY <2>1, EffectiveFits
  <2>3. WidthSum(Effective) = Total
    BY <2>1, <2>2 DEF Fits
  <2> QED
    BY <2>2, <2>3 DEF Fits, Wide
<1> QED
  BY <1>1, Invariance, PTL
=============================================================================
