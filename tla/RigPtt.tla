------------------------------- MODULE RigPtt -------------------------------
(***************************************************************************)
(* Keying the transmitter: the `rig hamlib ptt-tx` and `ptt-rx` commands   *)
(* and `modem live-audio --key-ptt` (live_audio.rs, hamlib.rs of           *)
(* crates/chattybara-cli), with rigctld and the radio.  Each run of a      *)
(* command is a process of its own, and each PTT command a connection of   *)
(* its own, which rigctld serves when it gets to it: it may carry a        *)
(* command out after the process that sent it has given up.                *)
(***************************************************************************)
EXTENDS Naturals, Sequences

CONSTANTS
  Uses,        \* command lines the operator may give
  Blocks,      \* blocks of audio the packet takes
  MaxBlocks,   \* bound: blocks played in one run
  MaxRuns,     \* bound: runs
  Concurrent   \* whether a run may start while another goes on

Use == [command: {"live-audio", "ptt-tx", "ptt-rx"}, live: BOOLEAN, allow: BOOLEAN,
        keyPtt: BOOLEAN, host: BOOLEAN]
Ptt == {"rx", "tx"}

ASSUME RigAssumption ==
  /\ Uses \subseteq Use
  /\ Blocks \in Nat \ {0} /\ MaxBlocks \in Nat /\ MaxRuns \in Nat
  /\ Concurrent \in BOOLEAN

VARIABLES
  run,      \* runs of the program, in the order they were started
  pending,  \* PTT commands on their way to the radio
  radio     \* what the radio does

rigVars == <<run, pending, radio>>

Runs == DOMAIN run
Phase == {"setting", "keying", "opening", "playing", "releasing", "ended"}

\* A run: what it is at, the answer to its PTT command, how its streams went, the
\* cursor of its output, its result; and for the properties, the runs it was started
\* beside and the PTT commands it did not wait for to the end.
Run == [use: Use, at: Phase, reply: {"unasked", "none", "ok", "error"},
        streams: {"ok", "error"}, cursor: Nat, result: {"none", "ok", "error", "died"},
        beside: SUBSET Nat, lost: SUBSET Ptt]

RigInit == run = <<>> /\ pending = {} /\ radio = "rx"

Ended(i) == run[i].at = "ended"

-----------------------------------------------------------------------------
(* Starting                                                                *)

\* Wrong on purpose: --allow-transmit is not asked for.
ArmedAnyway(u) ==
  CASE u.command = "live-audio" -> u.keyPtt => u.host
    [] OTHER -> TRUE

\* What a live transmission must be given.
Armed(u) ==
  CASE u.command = "live-audio" -> u.allow /\ (u.keyPtt => u.host)
    [] u.command = "ptt-tx" -> u.allow
    [] u.command = "ptt-rx" -> TRUE

DryRun(u) == u.command = "live-audio" /\ ~u.live

FirstPhase(u) ==
  IF u.command # "live-audio" THEN "setting" ELSE IF u.keyPtt THEN "keying" ELSE "opening"

Started(u) ==
  LET goes == ~DryRun(u) /\ Armed(u)
  IN [use |-> u, at |-> IF goes THEN FirstPhase(u) ELSE "ended", reply |-> "unasked",
      streams |-> "ok", cursor |-> 0,
      result |-> IF goes THEN "none" ELSE IF DryRun(u) THEN "ok" ELSE "error",
      beside |-> {i \in Runs : ~Ended(i)}, lost |-> {}]

Invoke(u) ==
  /\ Len(run) < MaxRuns
  /\ Concurrent \/ \A i \in Runs : Ended(i)
  /\ run' = Append(run, Started(u))
  /\ UNCHANGED <<pending, radio>>

\* The process ends; only what it reports of a success is left.
Final(r, result) ==
  [r EXCEPT !.at = "ended", !.result = result, !.reply = "unasked", !.streams = "ok",
            !.cursor = IF result = "ok" THEN @ ELSE 0]
End(i, result) == run' = [run EXCEPT ![i] = Final(@, result)]

-----------------------------------------------------------------------------
(* hamlib_set_ptt                                                          *)

Sets(i) == run[i].at \in {"setting", "keying", "releasing"}

PttOf(i) ==
  IF run[i].at = "keying" \/ (run[i].at = "setting" /\ run[i].use.command = "ptt-tx")
  THEN "tx" ELSE "rx"

CommandOf(i) == [run |-> i, ptt |-> PttOf(i)]
Awaits(i) == Sets(i) /\ run[i].reply = "none"

Ask(i) ==
  /\ Sets(i) /\ run[i].reply = "unasked"
  /\ run' = [run EXCEPT ![i].reply = "none"]
  /\ pending' = pending \cup {CommandOf(i)}
  /\ UNCHANGED radio

\* rigctld cannot be reached, or the command not be written.
AskFails(i) ==
  /\ Sets(i) /\ run[i].reply = "unasked"
  /\ run' = [run EXCEPT ![i].reply = "error"]
  /\ UNCHANGED <<pending, radio>>

\* Wrong on purpose: only the command that keys has a read timeout.
TimesOutKeying(i) ==
  /\ run[i].at = "keying" /\ run[i].reply = "none"
  /\ run' = [run EXCEPT ![i].reply = "error", ![i].lost = @ \cup {PttOf(i)}]
  /\ UNCHANGED <<pending, radio>>

\* The read timeout: the command may be carried out all the same, later.
TimesOut(i) ==
  /\ Awaits(i)
  /\ run' = [run EXCEPT ![i].reply = "error", ![i].lost = @ \cup {PttOf(i)}]
  /\ UNCHANGED <<pending, radio>>

Answers(c, reply) ==
  run' = IF Awaits(c.run) /\ CommandOf(c.run) = c
         THEN [run EXCEPT ![c.run].reply = reply] ELSE run

\* The radio may have obeyed although rigctld reports an error.
RigSets(c) ==
  /\ c \in pending
  /\ pending' = pending \ {c}
  /\ radio' = c.ptt
  /\ \E reply \in {"ok", "error"} : Answers(c, reply)

\* An error, or the end of the connection, and nothing done.
RigRefuses(c) ==
  /\ c \in pending
  /\ pending' = pending \ {c}
  /\ Answers(c, "error")
  /\ UNCHANGED radio

-----------------------------------------------------------------------------
(* The commands                                                            *)

SetEnds(i) ==
  /\ run[i].at = "setting" /\ run[i].reply \in {"ok", "error"}
  /\ End(i, run[i].reply)
  /\ UNCHANGED <<pending, radio>>

\* Wrong on purpose: the answer is kept, and taken for that of the release.
KeyedKeepsReply(i) ==
  /\ run[i].at = "keying" /\ run[i].reply = "ok"
  /\ run' = [run EXCEPT ![i].at = "opening"]
  /\ UNCHANGED <<pending, radio>>

\* Wrong on purpose: audio is played whatever the answer was.
KeyedAnyway(i) ==
  /\ run[i].at = "keying" /\ run[i].reply \in {"ok", "error"}
  /\ run' = [run EXCEPT ![i].at = "opening", ![i].reply = "unasked"]
  /\ UNCHANGED <<pending, radio>>

Keyed(i) ==
  /\ run[i].at = "keying" /\ run[i].reply = "ok"
  /\ run' = [run EXCEPT ![i].at = "opening", ![i].reply = "unasked"]
  /\ UNCHANGED <<pending, radio>>

\* The error is returned at once: nothing is played and nothing released.
KeyFails(i) ==
  /\ run[i].at = "keying" /\ run[i].reply = "error"
  /\ End(i, "error")
  /\ UNCHANGED <<pending, radio>>

StreamsEnd(i, streams) ==
  IF run[i].use.keyPtt
  THEN run' = [run EXCEPT ![i].streams = streams, ![i].at = "releasing"]
  ELSE End(i, streams)

\* No such device, no such format, or a stream that does not start.
OpenFails(i) ==
  /\ run[i].at = "opening"
  /\ StreamsEnd(i, "error")
  /\ UNCHANGED <<pending, radio>>

Play(i) ==
  /\ run[i].at = "opening"
  /\ run' = [run EXCEPT ![i].at = "playing"]
  /\ UNCHANGED <<pending, radio>>

\* The output callback; past the end of the packet it plays silence.
FillOutput(i) ==
  /\ run[i].at = "playing" /\ run[i].cursor < MaxBlocks
  /\ run' = [run EXCEPT ![i].cursor = @ + 1]
  /\ UNCHANGED <<pending, radio>>

\* rx_seconds have passed, however much was played.
StopPlaying(i) ==
  /\ run[i].at = "playing"
  /\ StreamsEnd(i, "ok")
  /\ UNCHANGED <<pending, radio>>

\* Wrong on purpose: the answer of the release is not looked at.
ReleaseResultIgnored(i) == run[i].streams

\* The error of the streams comes before that of the release.
ReleaseResult(i) == IF run[i].streams = "error" THEN "error" ELSE run[i].reply

Release(i) ==
  /\ run[i].at = "releasing" /\ run[i].reply \in {"ok", "error"}
  /\ End(i, ReleaseResult(i))
  /\ UNCHANGED <<pending, radio>>

\* Interrupted by the operator, or a panic (the sleep takes no rx_seconds that are
\* infinite or not a number): nothing is released.
Dies(i) ==
  /\ ~Ended(i)
  /\ LET lost == IF Awaits(i) THEN {PttOf(i)} ELSE {}
     IN run' = [run EXCEPT ![i] = [Final(run[i], "died") EXCEPT !.lost = @ \cup lost]]
  /\ UNCHANGED <<pending, radio>>

-----------------------------------------------------------------------------
Step(i) ==
  \/ Ask(i) \/ AskFails(i) \/ TimesOut(i)
  \/ SetEnds(i) \/ Keyed(i) \/ KeyFails(i)
  \/ OpenFails(i) \/ Play(i) \/ StopPlaying(i) \/ Release(i)

Rig == \E c \in pending : RigSets(c) \/ RigRefuses(c)

RigNext ==
  \/ \E u \in Uses : Invoke(u)
  \/ \E i \in Runs : Step(i) \/ FillOutput(i) \/ Dies(i)
  \/ Rig

RigSpec == RigInit /\ [][RigNext]_rigVars

\* Runs go on and their timeouts and sleeps end; rigctld need not answer.
RigFairSpec == RigSpec /\ WF_rigVars(\E i \in Runs : Step(i))

-----------------------------------------------------------------------------
(* Properties                                                              *)

\* Every variable has its type, a command that nobody has given up on has not been
\* answered, and a run has a result just when it has ended.
RigTypeOK ==
  /\ run \in Seq(Run)
  /\ pending \subseteq [run: Runs, ptt: Ptt]
  /\ radio \in Ptt
  /\ \A i \in Runs :
       /\ Ended(i) <=> run[i].result # "none"
       /\ run[i].at \in {"opening", "playing"} => run[i].reply = "unasked"
       /\ run[i].beside \subseteq 1..(i - 1)
  /\ \A c \in pending :
       (Awaits(c.run) /\ CommandOf(c.run) = c) \/ c.ptt \in run[c.run].lost

Transmits(i) ==
  /\ run[i].use.allow
  /\ run[i].use.command = "ptt-tx" \/ (run[i].use.command = "live-audio" /\ run[i].use.live)

\* Whenever every run has ended and the radio transmits, an operator who allowed it
\* knows: there was a ptt-tx, or a live-audio run that ended in an error.  No mixture
\* of runs that overlap, devices that fail and late answers leaves the transmitter on
\* behind runs that all reported success.
NobodyKeyedSilently ==
  (\A i \in Runs : Ended(i)) /\ radio = "tx" =>
    \E i \in Runs : Transmits(i) /\ (run[i].use.command = "ptt-tx" \/ run[i].result # "ok")

\* No other run went on at any time of this one.
Alone(i) == i = Len(run) /\ run[i].beside = {}

\* Packet audio of a run that keys and has the radio for itself is played into a keyed
\* transmitter, unless a ptt-rx that an earlier run gave up on was still on its way.
PlaysKeyed ==
  \A i \in Runs :
    run[i].at = "playing" /\ run[i].use.keyPtt /\ Alone(i) /\ radio = "rx" =>
      \E j \in 1..(i - 1) : "rx" \in run[j].lost

\* After a run that reported the release, by itself or as ptt-rx, and had the radio for
\* itself the radio receives, unless an earlier run gave up on a command that keys.
OkReleases ==
  \A i \in Runs :
    /\ Ended(i) /\ run[i].result = "ok" /\ ~DryRun(run[i].use) /\ Alone(i)
    /\ run[i].use.command = "ptt-rx" \/ (run[i].use.command = "live-audio" /\ run[i].use.keyPtt)
    /\ radio = "tx"
    => \E j \in 1..(i - 1) : "tx" \in run[j].lost

\* However the runs overlap, and although rigctld may never answer, they all come to
\* their ends again and again.
RunsEnd == []<>(\A i \in Runs : Ended(i))

\* What docs/radio/hamlib.md says of the live path: it plays one packet.
PlaysThePacket ==
  \A i \in Runs :
    Ended(i) /\ run[i].result = "ok" /\ run[i].use.command = "live-audio" /\ run[i].use.live =>
      run[i].cursor >= Blocks
=============================================================================
