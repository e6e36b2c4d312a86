---------------------------- MODULE Subsequences ----------------------------
(***************************************************************************)
(* Removing entries from a list, as splice and filter do.  SelectSeq would *)
(* say the same; this definition by places is one the provers can expand.  *)
(***************************************************************************)
EXTENDS Naturals, FiniteSets, Sequences

\* The entries of s at the places in I, in their order.
EntriesAt(s, I) ==
  [k \in 1..Cardinality(I) |-> s[CHOOSE i \in I : Cardinality({j \in I : j <= i}) = k]]

\* The entries of s that are not in S.
Without(s, S) == EntriesAt(s, {i \in DOMAIN s : s[i] \notin S})

=============================================================================
