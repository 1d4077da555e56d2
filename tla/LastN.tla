-------------------------------- MODULE LastN --------------------------------
(***************************************************************************)
(* What a packet ring promises: it remembers the last N entries pushed, in *)
(* the order they were pushed, and nothing else.                           *)
(***************************************************************************)
EXTENDS Naturals, Sequences

CONSTANTS N, Entry
VARIABLES queue

Init == queue = <<>>

\* The whole of s when it is short enough, else its last N elements.
Newest(s) == SubSeq(s, IF Len(s) > N THEN Len(s) - N + 1 ELSE 1, Len(s))

Push(e) == queue' = Newest(Append(queue, e))

Next == \E e \in Entry: Push(e)

Spec == Init /\ [][Next]_queue

\* Lookups, as a caller thinks of them. A list of the entries at some positions
\* has each of them once, in the order they were pushed, and no other.
Lists(out, positions) ==
  /\ out \in Seq(Entry)
  /\ \E at \in [1 .. Len(out) -> positions]:
       /\ \A j, k \in 1 .. Len(out): j < k => at[j] < at[k]
       /\ \A i \in positions: \E k \in 1 .. Len(out): at[k] = i
       /\ \A k \in 1 .. Len(out): out[k] = queue[at[k]]

ListsAfter(out, Ts(_), cutoff) ==
  Lists(out, {i \in 1 .. Len(queue): Ts(queue[i]) >= cutoff})

ListsBetween(out, Ts(_), first, last) ==
  Lists(out, {i \in 1 .. Len(queue): Ts(queue[i]) >= first /\ Ts(queue[i]) <= last})

NewestWithTs(Ts(_), t, None) ==
  LET hits == {i \in 1 .. Len(queue): Ts(queue[i]) = t}
  IN IF hits = {} THEN None
     ELSE queue[CHOOSE i \in hits: \A j \in hits: j <= i]
=============================================================================
