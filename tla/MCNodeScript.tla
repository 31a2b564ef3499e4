---------------------------- MODULE MCNodeScript ----------------------------
(***************************************************************************)
(* Scripts for NodeScript.  A conversation is what both operators agreed   *)
(* on beforehand: a sequence of steps in which one station sends and the   *)
(* other expects, or each sends and then expects the other's.  The two     *)
(* scripts are its two sides.                                              *)
(***************************************************************************)
EXTENDS SessionLogs, SequencesExt, TLC

CONSTANTS
  C,                  \* a third station
  Length, LongKinds,  \* the longest conversation, in steps, and their kinds; in one step
                      \* less there are posts too
  SlipLength, SlipKinds  \* the same of those that somebody slips in

FirstText == CHOOSE t \in Text : TRUE
ChunksDef == [t \in Text |-> IF t = FirstText THEN 2 ELSE 1]

\* from is the set of stations that send; only news of one frame may cross.
StepsOf(kinds, texts, from) ==
  {s \in [from: from, kind: kinds, text: texts \cup {NoText}] :
     /\ (s.text = NoText) <=> s.kind \in {"CONNECT", "DISCONNECT"}
     /\ s.from = {A, B} => s.kind \notin {"CONNECT", "DISCONNECT", "FILE"}}

LongSteps == StepsOf(LongKinds, {FirstText}, {{A}, {B}, {A, B}})
MixedSteps == StepsOf(LongKinds \cup AppKind, {FirstText}, {{A}, {B}, {A, B}})
SlipSteps == StepsOf(SlipKinds, Text, {{A}, {B}})

Says(s) == [send |-> TRUE, kind |-> s.kind, text |-> s.text]
Hears(s) == [send |-> FALSE, kind |-> s.kind, text |-> s.text]

LinesFor(n, s) ==
  IF s.from = {n} THEN <<Says(s)>>
  ELSE IF n \notin s.from THEN <<Hears(s)>>
  ELSE <<Says(s), Hears(s)>>

\* CONNECT finds no session and MSG finds one.
Legal(connected, s) ==
  /\ s.kind = "CONNECT" => ~connected
  /\ s.kind = "MSG" => connected

\* A conversation is kept as its two sides and whether it left a session.
Longer(c, s) ==
  [connected |-> s.kind = "CONNECT" \/ (c.connected /\ s.kind # "DISCONNECT"),
   sides |-> (A :> c.sides[A] \o LinesFor(A, s)) @@ (B :> c.sides[B] \o LinesFor(B, s))]

\* The two stations differ in nothing but their names, so A opens.
Sides(steps, length) ==
  LET Told[k \in 0..length] ==
        IF k = 0 THEN {[connected |-> FALSE, sides |-> (A :> <<>>) @@ (B :> <<>>)]}
        ELSE UNION {{Longer(c, s) : s \in {s \in steps : /\ Legal(c.connected, s)
                                                         /\ k = 1 => A \in s.from}} :
                    c \in Told[k - 1]}
  IN {c.sides : c \in UNION {Told[k] : k \in 1..length}}

\* One line of one script left out, given twice, swapped with the next, or with
\* another text.
Slips(s) ==
  {RemoveAt(s, i) : i \in DOMAIN s}
  \cup {InsertAt(s, i, s[i]) : i \in DOMAIN s}
  \cup {SubSeq(s, 1, i - 1) \o <<s[i + 1], s[i]>> \o SubSeq(s, i + 2, Len(s)) : i \in 1..(Len(s) - 1)}
  \cup {[s EXCEPT ![i].text = t] : i \in {i \in DOMAIN s : s[i].text # NoText}, t \in Text}

WithSlip(pair) == UNION {{[pair EXCEPT ![n] = s] : s \in Slips(pair[n])} : n \in Node}

\* With no more in the buffers than the conversation takes.
Told ==
  LET Setting(pair, capacity) ==
        [script |-> pair, peer |-> (A :> B) @@ (B :> A), capacity |-> capacity, maxFaults |-> 0]
  IN {IF RoomToCross(Setting(pair, 0)) THEN Setting(pair, 0) ELSE Setting(pair, 1) :
        pair \in Sides(LongSteps, Length) \cup Sides(MixedSteps, Length - 1)}

ASSUME ToldAgrees == \A s \in Told : Agreed(s)

\* Where somebody slips, one station may be given the wrong peer and a command fail.
Slipped ==
  {[script |-> pair, peer |-> peer, capacity |-> 1, maxFaults |-> 1] :
     pair \in UNION {WithSlip(pair) : pair \in Sides(SlipSteps, SlipLength)},
     peer \in {(A :> B) @@ (B :> A), (A :> C) @@ (B :> A), (A :> B) @@ (B :> C)}}

Started == Told \cup Slipped
=============================================================================
