---------------------------- MODULE TalkPromise ----------------------------
(***************************************************************************)
(* What a chat link promises about the texts two stations send each other: *)
(* every text that was sent comes up at the other end once and in order,   *)
(* and is then either logged or missed, and it is missed only if that end  *)
(* was not listening at that moment.  Nothing is logged that was not sent. *)
(* LiveChat is shown to implement this.                                    *)
(***************************************************************************)
EXTENDS Naturals, Sequences

CONSTANTS Node, Texts, Peer(_)

VARIABLES
  said,        \* texts each node sent
  heard,       \* texts of the peer's in each node's log
  upto,        \* how many of the peer's texts came up so far
  listening    \* the node would take a text now

vars == <<said, heard, upto, listening>>

Init ==
  /\ said = [n \in Node |-> <<>>]
  /\ heard = [n \in Node |-> <<>>]
  /\ upto = [n \in Node |-> 0]
  /\ listening = [n \in Node |-> FALSE]

Say(n) ==
  /\ \E t \in Texts : said' = [said EXCEPT ![n] = Append(@, t)]
  /\ UNCHANGED <<heard, upto, listening>>

NextText(n) == said[Peer(n)][upto[n] + 1]

Hear(n) ==
  /\ listening[n]
  /\ upto[n] < Len(said[Peer(n)])
  /\ heard' = [heard EXCEPT ![n] = Append(@, NextText(n))]
  /\ upto' = [upto EXCEPT ![n] = @ + 1]
  /\ UNCHANGED <<said, listening>>

Miss(n) ==
  /\ ~listening[n]
  /\ upto[n] < Len(said[Peer(n)])
  /\ upto' = [upto EXCEPT ![n] = @ + 1]
  /\ UNCHANGED <<said, heard, listening>>

Tune(n) ==
  /\ listening' = [listening EXCEPT ![n] = ~@]
  /\ UNCHANGED <<said, heard, upto>>

Next == \E n \in Node : Say(n) \/ Hear(n) \/ Miss(n) \/ Tune(n)

Spec == Init /\ [][Next]_vars
=============================================================================
