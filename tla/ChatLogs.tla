------------------------------ MODULE ChatLogs ------------------------------
(***************************************************************************)
(* The chat logs that a session leaves and the commands that read them     *)
(* back: `chat fake-script`, `app-script`, `parse-log`,                    *)
(* `compare-script-log` and `compare-peer-logs` (crates/chattybara-chat).  *)
(* They are pure: a script or a log is the sequence of its lines, without  *)
(* the blank ones and the comments.                                        *)
(***************************************************************************)
EXTENDS ChatBackend

\* OUT is also written TX or SEND, and IN is RX, RECV or RECEIVE; any other line, and
\* one that lacks the call or the text, is unreadable.
LogVerb == {"OUT", "IN", "unreadable"}
LogLine == [verb: LogVerb, call: Call, text: Text]

\* Wrong on purpose: a received message shows the station that received it.
NormalizedLogLineTo(station, m) ==
  [verb |-> IF m.direction = "Inbound" THEN "IN" ELSE "OUT",
   call |-> IF m.to = station /\ m.direction = "Outbound" THEN m.from ELSE m.to,
   text |-> m.text]

\* A line written for a message; one sent to the station itself shows its sender.
NormalizedLogLine(station, m) ==
  [verb |-> IF m.direction = "Inbound" THEN "IN" ELSE "OUT",
   call |-> IF m.direction = "Inbound" \/ m.to = station THEN m.from ELSE m.to,
   text |-> m.text]

NormalizedLog(station, c) ==
  [i \in DOMAIN c.messages |-> NormalizedLogLine(station, c.messages[i])]

-----------------------------------------------------------------------------
(* Reading a log                                                           *)

ParseSimpleLogLine(station, sequence, line) ==
  [sequence |-> sequence,
   direction |-> IF line.verb = "OUT" THEN "Outbound" ELSE "Inbound",
   from |-> IF line.verb = "OUT" THEN station ELSE line.call,
   to |-> IF line.verb = "OUT" THEN line.call ELSE station,
   text |-> line.text]

\* The one other station of the messages, if there is just one.
InferPeer(station, messages) ==
  LET others == {IF m.direction = "Inbound" THEN m.from ELSE m.to :
                   m \in {messages[i] : i \in DOMAIN messages}} \ {station}
  IN IF \E call \in others : others = {call} THEN CHOOSE call \in others : TRUE ELSE NoCall

Readable(line) == line.verb # "unreadable"

\* An unreadable line is reported and passed over; the rest is numbered without it.
ParseSimpleLog(station, log) ==
  LET lines == Picked(log, {i \in DOMAIN log : Readable(log[i])})
      messages == [i \in DOMAIN lines |-> ParseSimpleLogLine(station, i, lines[i])]
  IN [ok |-> Len(lines) = Len(log),
      station |-> station, peer |-> InferPeer(station, messages), messages |-> messages]

-----------------------------------------------------------------------------
(* Comparing                                                               *)

\* Whether a field of two messages is not as it is to be: equal, but for the direction
\* of a message that one station sent and the other received.
Differs(m, k, field, mirrored) == (m[field] = k[field]) <=> (mirrored /\ field = "direction")

FieldMismatches(s, t, mirrored) ==
  {d \in [index : DOMAIN s \cap DOMAIN t, field : {"direction", "from", "to", "text"}] :
     Differs(s[d.index], t[d.index], d.field, mirrored)}

\* Wrong on purpose: what one has and the other has not is passed over.
MismatchesZip(s, t, mirrored) == FieldMismatches(s, t, mirrored)

Mismatches(s, t, mirrored) ==
  FieldMismatches(s, t, mirrored)
  \cup [index : (DOMAIN s \ DOMAIN t) \cup (DOMAIN t \ DOMAIN s), field : {"message"}]

StationMismatch(differs) == IF differs THEN {[index |-> 0, field |-> "station"]} ELSE {}

\* The two are to be equal, message by message; sequence numbers do not count.
CompareChatTranscripts(expected, observed) ==
  StationMismatch(expected.station # observed.station)
  \cup Mismatches(expected.messages, observed.messages, FALSE)

\* The two are to tell of the same messages in the same order, one as sent and one as
\* received.
ComparePeerLogTranscripts(a, b) ==
  StationMismatch(a.station = b.station)
  \cup Mismatches(a.messages, b.messages, TRUE)

ComparePeerLogs(stationA, logA, stationB, logB) ==
  LET a == ParseSimpleLog(stationA, logA)
      b == ParseSimpleLog(stationB, logB)
  IN a.ok /\ b.ok /\ ComparePeerLogTranscripts(a, b) = {}

-----------------------------------------------------------------------------
(* Scripts against one station                                             *)

FakeVerb == {"CONNECT", "SEND", "RX", "DISCONNECT", "STATUS", "unreadable"}
FakeLine == [verb: FakeVerb, call: Call, text: Text]

FakeLineOk(c, line) ==
  CASE line.verb = "CONNECT" -> ~IsConnected(c)
    [] line.verb = "SEND" -> IsConnected(c)
    [] line.verb = "RX" -> Accepts(c, line.call)
    [] OTHER -> line.verb # "unreadable"

ExecuteScriptLine(c, station, line) ==
  IF ~FakeLineOk(c, line) THEN c
  ELSE CASE line.verb = "CONNECT" -> ConnectTo(c, line.call)
         [] line.verb = "SEND" -> SentText(c, station, line.text)
         [] line.verb = "RX" -> ReceivedText(c, station, line.call, line.text)
         [] line.verb = "DISCONNECT" -> Disconnected(c)
         [] OTHER -> c

\* A line that fails is reported and the script goes on.
FakeScriptRun(station, lines) ==
  LET after[i \in 0..Len(lines)] ==
        IF i = 0 THEN [ok |-> TRUE, chat |-> NewBackend]
        ELSE [ok |-> after[i - 1].ok /\ FakeLineOk(after[i - 1].chat, lines[i]),
              chat |-> ExecuteScriptLine(after[i - 1].chat, station, lines[i])]
  IN after[Len(lines)]

RunFakeScript(station, lines) ==
  LET end == FakeScriptRun(station, lines)
  IN [ok |-> end.ok, station |-> station, peer |-> end.chat.peer,
      messages |-> end.chat.messages]

CompareFakeScriptToSimpleLog(station, lines, log) ==
  LET expected == RunFakeScript(station, lines)
      observed == ParseSimpleLog(station, log)
  IN expected.ok /\ observed.ok /\ CompareChatTranscripts(expected, observed) = {}

\* The app script: a beacon or CQ has no addressee, mail and file offers have one; a
\* line may ask for what the model refuses.
AppVerb == {"BEACON", "MAIL", "STATUS", "refused", "unreadable"}
AppLine == [verb: AppVerb, call: Call, text: Text]

ExecuteAppLine(a, station, line) ==
  CASE line.verb = "BEACON" -> Recorded(a, station, NoCall, line.text)
    [] line.verb = "MAIL" -> Recorded(a, station, line.call, line.text)
    [] line.verb = "refused" -> RecordRefused(a)
    [] OTHER -> a

RunAppScript(station, lines) ==
  LET after[i \in 0..Len(lines)] ==
        IF i = 0 THEN NewAppModel ELSE ExecuteAppLine(after[i - 1], station, lines[i])
  IN [ok |-> \A i \in DOMAIN lines : lines[i].verb \notin {"refused", "unreadable"},
      state |-> after[Len(lines)]]
=============================================================================
