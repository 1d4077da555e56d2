------------------------------- MODULE TabRow -------------------------------
(* What the two tab bars do with a list of tabs. *)
EXTENDS Naturals, Sequences

\* s without its element k: filter(t => t.id !== id), ids being unique.
Without(s, k) == [j \in 1 .. Len(s) - 1 |-> IF j < k THEN s[j] ELSE s[j + 1]]
=============================================================================
