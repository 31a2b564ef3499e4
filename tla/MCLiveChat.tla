----------------------------- MODULE MCLiveChat -----------------------------
(* Small instances of LiveChat for TLC. *)
EXTENDS LiveChat, TLC
=============================================================================
