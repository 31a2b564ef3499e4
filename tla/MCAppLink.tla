----------------------------- MODULE MCAppLink -----------------------------
(* A small instance of AppLink for TLC. *)
EXTENDS AppLink, TLC

\* From half a chunk to three, with a chunk that repeats.
MCPayloads == {<<>>, <<1>>, <<1, 2, 1>>, <<1, 2, 1, 1>>, <<1, 2, 1, 2, 1>>, <<1, 1, 2, 2, 1, 2>>}

\* Fragments and chunks carry an id and two hashes more than the rest.
MCOverhead == [kind \in Kind |-> IF kind \in {"fragment", "file-chunk"} THEN 4 ELSE 2]

CONSTANTS short, long, longest

\* With the longer calls a whole chunk no longer fits once its number has two digits,
\* and never.
MCCallBytes == (short :> 0) @@ (long :> 2) @@ (longest :> 4)
=============================================================================
