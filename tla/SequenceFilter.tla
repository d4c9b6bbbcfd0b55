---------------------------- MODULE SequenceFilter ----------------------------
(***************************************************************************)
(* What Rust's Vec::retain and Iterator::filter make of a list.  SelectSeq *)
(* says the same; it is written as a recursive function here because TLAPS *)
(* can unfold one, so that SequenceFilterFacts can say what it yields for  *)
(* every list.                                                             *)
(***************************************************************************)
EXTENDS Naturals, Sequences

\* The first i elements of s, for each i, without those in S.
Kept(s, S) ==
  LET kept[i \in 0..Len(s)] ==
        IF i = 0 THEN <<>>
        ELSE IF s[i] \in S THEN kept[i - 1]
        ELSE Append(kept[i - 1], s[i])
  IN  kept

Without(s, S) == Kept(s, S)[Len(s)]
=============================================================================
