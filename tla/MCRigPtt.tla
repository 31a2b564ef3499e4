------------------------------ MODULE MCRigPtt ------------------------------
(***************************************************************************)
(* Command lines for RigPtt: each command with and without what it needs.  *)
(***************************************************************************)
EXTENDS RigPtt

Live(live, allow, keyPtt, host) ==
  [command |-> "live-audio", live |-> live, allow |-> allow, keyPtt |-> keyPtt, host |-> host]
Set(command, allow) ==
  [command |-> command, live |-> TRUE, allow |-> allow, keyPtt |-> FALSE, host |-> TRUE]

Keying == {Live(TRUE, TRUE, TRUE, TRUE), Set("ptt-tx", TRUE), Set("ptt-tx", FALSE), Set("ptt-rx", FALSE)}
Playing == {Live(TRUE, TRUE, TRUE, TRUE), Live(TRUE, TRUE, FALSE, FALSE),
            Live(TRUE, TRUE, TRUE, FALSE), Live(FALSE, TRUE, TRUE, TRUE)}
=============================================================================
