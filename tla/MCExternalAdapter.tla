------------------------- MODULE MCExternalAdapter -------------------------
(* Command lines for ExternalAdapter. *)
EXTENDS ExternalAdapter, TLC

CONSTANTS m1, m2

Plain == [live |-> TRUE, fixture |-> FALSE, tx |-> FALSE, allow |-> FALSE, to |-> FALSE,
          message |-> NoText, limit |-> 3, out |-> TRUE]

\* Live, from a fixture and dry, with and without what a transmission needs, and with
\* limits of no record, of one and of three.
UsesDef ==
  {("adapter" :> adapter) @@ changed @@ Plain :
     adapter \in Adapter, changed \in {[limit |-> 3], [fixture |-> TRUE]}}
  \cup {changed @@ [Plain EXCEPT !.allow = TRUE, !.to = TRUE, !.message = m1] @@ [adapter |-> adapter] :
          adapter \in Sender,
          changed \in {[out |-> FALSE], [tx |-> TRUE], [tx |-> TRUE, message |-> m2, out |-> FALSE],
                       [tx |-> TRUE, message |-> NoText], [tx |-> TRUE, allow |-> FALSE],
                       [tx |-> TRUE, fixture |-> TRUE]}}
  \cup {changed @@ Plain @@ [adapter |-> adapter] :
          adapter \in {"js8call", "pskreporter"}, changed \in {[limit |-> 1], [limit |-> 0]}}
  \cup {[Plain EXCEPT !.live = FALSE] @@ [adapter |-> "js8call"]}
=============================================================================
