--------------------------- MODULE MCWinlinkSync ---------------------------
(* Small instances of WinlinkSync for TLC. *)
EXTENDS WinlinkSync, TLC

CONSTANTS f1, f2, h2

\* The mail f2 names carries another id in its header.
MCHeaderMid == [m \in ForeignMids |-> IF m = f2 THEN h2 ELSE m]
=============================================================================
