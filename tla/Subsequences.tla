---------------------------- MODULE Subsequences ----------------------------
(***************************************************************************)
(* Parts of sequences, for the properties.  Picked does what SelectSeq     *)
(* does, by positions instead of by a test: it is a function the proofs    *)
(* can reason about.                                                       *)
(***************************************************************************)
EXTENDS Naturals, Sequences

\* The elements of s at the positions in D, in the order of s.
Picked(s, D) ==
  LET upto[n \in 0..Len(s)] ==
        IF n = 0 THEN <<>>
        ELSE IF n \in D THEN Append(upto[n - 1], s[n]) ELSE upto[n - 1]
  IN  upto[Len(s)]

\* s is t, or t with some elements left out.
IsPartOf(s, t) ==
  \E at \in [DOMAIN s -> DOMAIN t] :
    /\ \A i, j \in DOMAIN s : i < j => at[i] < at[j]
    /\ \A i \in DOMAIN s : s[i] = t[at[i]]
=============================================================================
