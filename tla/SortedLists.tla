---------------------------- MODULE SortedLists ----------------------------
(***************************************************************************)
(* Sorting and filtering, stated by what they give, so that proofs can     *)
(* expand them: SortSeq and SelectSeq are known to TLC alone, and SortSeq  *)
(* gives no list to elements that compare equal.                           *)
(***************************************************************************)
EXTENDS Integers, SequencesExt

\* The elements of S, none after one that it is to be before
InOrder(S, Before(_, _)) ==
    CHOOSE s \in SetToSeqs(S) : \A i, j \in DOMAIN s : i < j => ~Before(s[j], s[i])

\* The places of a list with these keys, as a stable sort by key leaves them
StableOrder(key) ==
    InOrder(DOMAIN key, LAMBDA i, j : key[i] < key[j] \/ (key[i] = key[j] /\ i < j))

\* The elements of s that are in S, as they follow each other in s
Keep(s, S) == FoldLeft(LAMBDA kept, x : IF x \in S THEN Append(kept, x) ELSE kept, <<>>, s)
=============================================================================
