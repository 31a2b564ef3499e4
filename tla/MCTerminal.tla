----------------------------- MODULE MCTerminal -----------------------------
(* Small instances of Terminal for TLC. *)
EXTENDS Terminal, TLC

CONSTANTS t, at

MCAck == t :> at
=============================================================================
