-------------------------- MODULE DeliveryPromise --------------------------
(***************************************************************************)
(* What a link with acknowledgements and retries promises for the packets  *)
(* given to it: each is taken by the other side once, or reported lost,    *)
(* never both, and in the end one of the two.  AppLink is shown to         *)
(* implement this.                                                         *)
(***************************************************************************)
CONSTANT Ids

VARIABLES
  pending,  \* neither taken nor given up
  taken,    \* the other side has it
  lost      \* reported as failed

vars == <<pending, taken, lost>>

Init == pending = {} /\ taken = {} /\ lost = {}

Post ==
  /\ pending = {} /\ taken = {} /\ lost = {}
  /\ pending' \in SUBSET Ids
  /\ UNCHANGED <<taken, lost>>

Take ==
  \E i \in pending :
    /\ pending' = pending \ {i}
    /\ taken' = taken \cup {i}
    /\ UNCHANGED lost

Lose ==
  \E i \in pending :
    /\ pending' = pending \ {i}
    /\ lost' = lost \cup {i}
    /\ UNCHANGED taken

Next == Post \/ Take \/ Lose

Spec == Init /\ [][Next]_vars /\ WF_vars(Take \/ Lose)
=============================================================================
