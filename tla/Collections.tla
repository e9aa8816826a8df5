----------------------------- MODULE Collections -----------------------------
(* Filters of sequences and sums of functions, for several components. *)
EXTENDS SequencesExt

(* The elements of s that pass, in their order: an iterator's filter. *)
Filter(s, Test(_)) ==
  FlattenSeq([i \in DOMAIN s |-> IF Test(s[i]) THEN <<s[i]>> ELSE <<>>])

(* The sum of all values of f. *)
SumOf(f) == MapThenSumSet(LAMBDA x : f[x], DOMAIN f)
==============================================================================
