--------------------------- MODULE SequenceFilter ---------------------------
(***************************************************************************)
(* The loop the code writes whenever it picks entries of a slice: go over  *)
(* the slice and append what passes the test.  The test is a set, so that  *)
(* what the loop computes can be proved (SequenceLemmas), which            *)
(* Sequences!SelectSeq does not allow.                                     *)
(***************************************************************************)
EXTENDS Naturals, Sequences

Elems(s) == {s[i] : i \in DOMAIN s}

(* What the loop has appended after i entries.                             *)
OnlyUpTo(s, T) ==
    LET f[i \in 0..Len(s)] ==
          IF i = 0 THEN <<>>
          ELSE IF s[i] \in T THEN Append(f[i - 1], s[i]) ELSE f[i - 1]
    IN  f

(* The entries of s that are in T, in their order.                         *)
Only(s, T) == OnlyUpTo(s, T)[Len(s)]
=============================================================================
