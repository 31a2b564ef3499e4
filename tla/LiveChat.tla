------------------------------ MODULE LiveChat ------------------------------
(***************************************************************************)
(* Two terminals with the native-local-node backend: at each end a         *)
(* ChatTuiApp, its LocalLiveNode (crates/chattybara-cli/src/local_peer.rs) *)
(* and the node's reader thread, joined by a TCP connection that carries   *)
(* packets as audio frames.  The user interface polls the node and runs    *)
(* one command at a time; the reader moves frames into the node's channel  *)
(* at any time.                                                            *)
(*                                                                         *)
(* Modulation is abstract: a frame is the packet it encodes.  The sender   *)
(* decodes its own samples before it writes them, so what arrives decodes. *)
(***************************************************************************)
EXTENDS ChatBackend

CONSTANTS
  A, B,          \* the two stations, named by their calls
  RxText,        \* texts for the local /rx command, told apart from sent ones
  Given,         \* bound: the kinds of commands that are given
  MaxCommands,   \* bound: commands given at both ends together
  MaxFaults,     \* bound: packets that fail their self-decode or size check
  MayQuit        \* a terminal may be closed

Node == {A, B}

ASSUME LiveAssumption ==
  /\ A # B /\ Node \subseteq Call
  /\ RxText \subseteq Text
  /\ MaxCommands \in Nat /\ MaxFaults \in Nat /\ MayQuit \in BOOLEAN

Peer(n) == IF n = A THEN B ELSE A

VARIABLES
  peerCall,      \* the peer each node is configured for
  chat,          \* FakeBackend of each node
  app,           \* ChatAppModel of each terminal
  packets,       \* packet reports of each node
  wire,          \* frames each node has written and the other has not read
  inbox,         \* the channel from the reader thread to the node
  readerClosed,  \* the node has seen that its reader is gone
  phase,         \* what the user interface is at
  collected,     \* events of the poll under way
  lines,         \* what the terminal showed
  open,          \* the terminal runs
  used,          \* bounded: commands given
  faults         \* bounded: packets that could not be sent

vars == <<peerCall, chat, app, packets, wire, inbox, readerClosed, phase,
          collected, lines, open, used, faults>>

NoText == "none"
Control == {"CONNECT", "DISCONNECT"}
AppKind == {"BEACON", "MAIL"}
ControlFrame == [kind: Control, from: Call, to: Call, text: {NoText}]
TextFrame == [kind: AppKind \cup {"MSG"}, from: Call, to: Call, text: Text]
Frame == ControlFrame \cup TextFrame
Packet == [sequence: Nat, frame: Frame]
Line == [what: {"connected", "disconnected", "message", "app", "refused", "unsent", "half open"},
         sequence: Nat]
ChatEvent == [what: {"connected", "disconnected", "message"}, sequence: Nat, frame: Frame]
AppEvent == [what: {"app"}, sequence: Nat, frame: TextFrame]
Event == ChatEvent \cup AppEvent

FrameOf(n, kind, text) == [kind |-> kind, from |-> n, to |-> peerCall[n], text |-> text]
LineOf(what, sequence) == [what |-> what, sequence |-> sequence]

\* LocalLiveNode::new on both sides, the TCP connection made.
Init ==
  /\ peerCall \in {f \in [Node -> Call] : \A n \in Node : f[n] # n}
  /\ chat = [n \in Node |-> NewBackend]
  /\ app = [n \in Node |-> NewAppModel]
  /\ packets = [n \in Node |-> [out |-> <<>>, in |-> <<>>]]
  /\ wire = [n \in Node |-> <<>>]
  /\ inbox = [n \in Node |-> <<>>]
  /\ readerClosed = [n \in Node |-> FALSE]
  /\ phase = [n \in Node |-> "idle"]
  /\ collected = [n \in Node |-> <<>>]
  /\ lines = [n \in Node |-> <<>>]
  /\ open = [n \in Node |-> TRUE]
  /\ used = 0
  /\ faults = 0

-----------------------------------------------------------------------------
(* Sending                                                                 *)

PacketCount(n) == Len(packets[n].out) + Len(packets[n].in)

\* Wrong on purpose: numbered one too low.
PacketOfLow(n, f) == [sequence |-> PacketCount(n) - 1, frame |-> f]

PacketOf(n, f) == [sequence |-> PacketCount(n) + 1, frame |-> f]

\* The frame is on the wire, or lost if nobody reads the other end any more.
Written(n, f) ==
  /\ packets' = [packets EXCEPT ![n] =
       [out |-> Append(packets[n].out, PacketOf(n, f)), in |-> packets[n].in]]
  /\ wire' = IF open[Peer(n)] THEN [wire EXCEPT ![n] = Append(@, f)] ELSE wire
  /\ UNCHANGED faults

\* The packet is too large, fails its self-decode, or the write fails.
Unwritten(n) ==
  /\ \/ ~open[Peer(n)] /\ UNCHANGED faults
     \/ faults < MaxFaults /\ faults' = faults + 1
  /\ UNCHANGED <<packets, wire>>

Show(n, line) == lines' = [lines EXCEPT ![n] = Append(@, line)]

\* send_payload: what was recorded before stays recorded when it fails.
SendPayload(n, f, sent, failed) ==
  \/ Written(n, f) /\ Show(n, sent)
  \/ Unwritten(n) /\ Show(n, failed)

-----------------------------------------------------------------------------
(* Commands: apply_command between two polls                               *)

Command(n, kind) ==
  /\ kind \in Given
  /\ open[n] /\ phase[n] = "idle"
  /\ used < MaxCommands
  /\ used' = used + 1
  /\ UNCHANGED <<peerCall, inbox, readerClosed, phase, collected, open>>

Refused(n) ==
  /\ Show(n, LineOf("refused", 0))
  /\ UNCHANGED <<packets, wire, faults>>

ConnectRefused(n, call) ==
  /\ Command(n, "refused")
  /\ call # peerCall[n] \/ IsConnected(chat[n])
  /\ Refused(n)
  /\ UNCHANGED <<chat, app>>

\* The session is up before CONNECT is sent, and stays up if that fails.
Connect(n) ==
  /\ Command(n, "connect")
  /\ ~IsConnected(chat[n])
  /\ chat' = [chat EXCEPT ![n] = ConnectTo(chat[n], peerCall[n])]
  /\ SendPayload(n, FrameOf(n, "CONNECT", NoText), LineOf("connected", 0), LineOf("half open", 0))
  /\ UNCHANGED app

SendTextRefused(n) ==
  /\ Command(n, "refused")
  /\ ~IsConnected(chat[n])
  /\ Refused(n)
  /\ UNCHANGED <<chat, app>>

SendText(n, text) ==
  /\ Command(n, "send")
  /\ IsConnected(chat[n])
  /\ chat' = [chat EXCEPT ![n] = SentText(chat[n], n, text)]
  /\ SendPayload(n, FrameOf(n, "MSG", text), LineOf("message", chat[n].next), LineOf("unsent", 0))
  /\ UNCHANGED app

\* /rx puts a text into the log as if the peer had sent it.
ReceiveTextRefused(n, from) ==
  /\ Command(n, "refused")
  /\ ~Accepts(chat[n], from)
  /\ Refused(n)
  /\ UNCHANGED <<chat, app>>

ReceiveText(n, from, text) ==
  /\ Command(n, "rx")
  /\ Accepts(chat[n], from)
  /\ chat' = [chat EXCEPT ![n] = ReceivedText(chat[n], n, from, text)]
  /\ Show(n, LineOf("message", chat[n].next))
  /\ UNCHANGED <<app, packets, wire, faults>>

\* DISCONNECT is sent whether or not there is a session; if that fails a
\* session stays up.
Disconnect(n) ==
  /\ Command(n, "disconnect")
  /\ \/ /\ Written(n, FrameOf(n, "DISCONNECT", NoText))
        /\ chat' = [chat EXCEPT ![n] = Disconnected(chat[n])]
        /\ Show(n, LineOf("disconnected", 0))
     \/ /\ Unwritten(n)
        /\ Show(n, LineOf("unsent", 0))
        /\ UNCHANGED chat
  /\ UNCHANGED app

\* Wrong on purpose: sent first, and the app model may refuse it afterwards.
AnnounceFirst(n, kind, to, text) ==
  /\ Command(n, "announce")
  /\ Written(n, FrameOf(n, kind, text))
  /\ Show(n, LineOf("app", app[n].next))
  /\ app' \in {[app EXCEPT ![n] = Recorded(app[n], n, to, text)],
              [app EXCEPT ![n] = RecordRefused(app[n])]}
  /\ UNCHANGED chat

\* /beacon, /cq, /mail, /mail-reply, /file-offer: recorded first, then sent, to
\* the peer of the link whoever the addressee is; no session is needed.
Announce(n, kind, to, text) ==
  /\ Command(n, "announce")
  /\ app' = [app EXCEPT ![n] = Recorded(app[n], n, to, text)]
  /\ SendPayload(n, FrameOf(n, kind, text), LineOf("app", app[n].next), LineOf("unsent", 0))
  /\ UNCHANGED chat

AnnounceRefused(n) ==
  /\ Command(n, "refused")
  /\ app' = [app EXCEPT ![n] = RecordRefused(app[n])]
  /\ Refused(n)
  /\ UNCHANGED chat

-----------------------------------------------------------------------------
(* Receiving                                                               *)

\* Wrong on purpose: a channel of one place, which drops what does not fit.
ReaderBounded(n) ==
  /\ open[n]
  /\ wire[Peer(n)] # <<>>
  /\ inbox' = IF inbox[n] = <<>>
               THEN [inbox EXCEPT ![n] = <<Head(wire[Peer(n)])>>] ELSE inbox
  /\ wire' = [wire EXCEPT ![Peer(n)] = Tail(@)]
  /\ UNCHANGED <<peerCall, chat, app, packets, readerClosed, phase, collected, lines,
                 open, used, faults>>

\* The reader thread.
Reader(n) ==
  /\ open[n]
  /\ wire[Peer(n)] # <<>>
  /\ inbox' = [inbox EXCEPT ![n] = Append(@, Head(wire[Peer(n)]))]
  /\ wire' = [wire EXCEPT ![Peer(n)] = Tail(@)]
  /\ UNCHANGED <<peerCall, chat, app, packets, readerClosed, phase, collected, lines,
                 open, used, faults>>

PollBegin(n) ==
  /\ open[n] /\ phase[n] = "idle"
  /\ phase' = [phase EXCEPT ![n] = "polling"]
  /\ UNCHANGED <<peerCall, chat, app, packets, wire, inbox, readerClosed, collected, lines,
                 open, used, faults>>

\* ensure_route
RouteOk(n, f) == f.from = peerCall[n] /\ f.to = n

\* Wrong on purpose: a text is taken without a session.
FrameOkNoSession(n, f) ==
  /\ RouteOk(n, f)
  /\ f.kind = "CONNECT" => ~IsConnected(chat[n])

FrameOk(n, f) ==
  /\ RouteOk(n, f)
  /\ f.kind = "CONNECT" => ~IsConnected(chat[n])
  /\ f.kind = "MSG" => Accepts(chat[n], f.from)

\* Wrong on purpose: DISCONNECT does not end the session.
ChatAfterNoEnd(n, f) ==
  CASE f.kind = "CONNECT" -> ConnectTo(chat[n], f.from)
    [] f.kind = "MSG" -> ReceivedText(chat[n], n, f.from, f.text)
    [] OTHER -> chat[n]

\* What receive_frame does to the chat log, and the event it returns.
ChatAfter(n, f) ==
  CASE f.kind = "CONNECT" -> ConnectTo(chat[n], f.from)
    [] f.kind = "MSG" -> ReceivedText(chat[n], n, f.from, f.text)
    [] f.kind = "DISCONNECT" -> Disconnected(chat[n])
    [] OTHER -> chat[n]

EventOf(n, f) ==
  [what |-> CASE f.kind = "CONNECT" -> "connected"
              [] f.kind = "MSG" -> "message"
              [] f.kind = "DISCONNECT" -> "disconnected"
              [] OTHER -> "app",
   sequence |-> IF f.kind = "MSG" THEN chat[n].next ELSE 0,
   frame |-> f]

\* The packet is reported before it is looked at.
TakeFrame(n) ==
  /\ open[n] /\ phase[n] = "polling"
  /\ inbox[n] # <<>>
  /\ inbox' = [inbox EXCEPT ![n] = Tail(@)]
  /\ packets' = [packets EXCEPT ![n] =
       [out |-> packets[n].out, in |-> Append(packets[n].in, PacketOf(n, Head(inbox[n])))]]
  /\ UNCHANGED <<peerCall, app, wire, readerClosed, open, used, faults>>

ReceiveFrame(n) ==
  /\ TakeFrame(n)
  /\ FrameOk(n, Head(inbox[n]))
  /\ chat' = [chat EXCEPT ![n] = ChatAfter(n, Head(inbox[n]))]
  /\ collected' = [collected EXCEPT ![n] = Append(@, EventOf(n, Head(inbox[n])))]
  /\ UNCHANGED <<phase, lines>>

\* Wrong on purpose: the error is swallowed.
PollFailsSilently(n) ==
  /\ TakeFrame(n)
  /\ ~FrameOk(n, Head(inbox[n]))
  /\ collected' = [collected EXCEPT ![n] = <<>>]
  /\ phase' = [phase EXCEPT ![n] = "idle"]
  /\ UNCHANGED <<chat, lines>>

\* One frame that is refused ends the poll: the events of the frames before it
\* are dropped, although the log already has them.
PollFails(n) ==
  /\ TakeFrame(n)
  /\ ~FrameOk(n, Head(inbox[n]))
  /\ collected' = [collected EXCEPT ![n] = <<>>]
  /\ phase' = [phase EXCEPT ![n] = "idle"]
  /\ Show(n, LineOf("refused", 0))
  /\ UNCHANGED chat

\* The reader ends when the other terminal is gone and all it sent is read.
ReaderEnded(n) == ~open[Peer(n)] /\ wire[Peer(n)] = <<>>

\* Wrong on purpose: the events of a poll are dropped with its end.
PollEndDropping(n) ==
  /\ open[n] /\ phase[n] = "polling"
  /\ inbox[n] = <<>>
  /\ phase' = [phase EXCEPT ![n] = "idle"]
  /\ collected' = [collected EXCEPT ![n] = <<>>]
  /\ UNCHANGED <<peerCall, chat, app, packets, wire, inbox, readerClosed, lines, open, used,
                 faults>>

\* The channel is empty, or its sender is gone.
PollEnd(n) ==
  /\ open[n] /\ phase[n] = "polling"
  /\ inbox[n] = <<>>
  /\ phase' = [phase EXCEPT ![n] = IF collected[n] = <<>> THEN "idle" ELSE "recording"]
  /\ \/ UNCHANGED readerClosed
     \/ ReaderEnded(n) /\ readerClosed' = [readerClosed EXCEPT ![n] = TRUE]
  /\ UNCHANGED <<peerCall, chat, app, packets, wire, inbox, collected, lines, open, used, faults>>

Recording(n) ==
  /\ open[n] /\ phase[n] = "recording" /\ collected[n] # <<>>
  /\ collected' = [collected EXCEPT ![n] = Tail(@)]
  /\ phase' = [phase EXCEPT ![n] = IF Len(collected[n]) = 1 THEN "idle" ELSE "recording"]
  /\ UNCHANGED <<peerCall, chat, packets, wire, inbox, readerClosed, open, used, faults>>

\* record_event
RecordChat(n) ==
  LET e == Head(collected[n]) IN
  /\ Recording(n)
  /\ e.what # "app"
  /\ Show(n, LineOf(e.what, e.sequence))
  /\ UNCHANGED app

\* record_live_app_event: what the peer announced enters the own app model now.
RecordApp(n) ==
  LET e == Head(collected[n]) IN
  /\ Recording(n)
  /\ e.what = "app"
  /\ app' = [app EXCEPT ![n] = Recorded(app[n], e.frame.from,
               IF e.frame.kind = "MAIL" THEN e.frame.to ELSE NoCall, e.frame.text)]
  /\ Show(n, LineOf("app", app[n].next))

\* The terminal is closed at any moment; what it wrote last may never arrive.
Quit(n) ==
  /\ MayQuit /\ open[n]
  /\ open' = [open EXCEPT ![n] = FALSE]
  /\ \E k \in 0..Len(wire[n]) : wire' = [wire EXCEPT ![n] = SubSeq(@, 1, k)]
  /\ UNCHANGED <<peerCall, chat, app, packets, inbox, readerClosed, phase, collected, lines,
                 used, faults>>

Commands(n) ==
  \/ Connect(n) \/ Disconnect(n) \/ SendTextRefused(n)
  \/ \E t \in Text \ RxText : SendText(n, t)
  \/ \E c \in Call : \/ ConnectRefused(n, c) \/ ReceiveTextRefused(n, c)
                    \/ \E t \in RxText : ReceiveText(n, c, t)
  \/ \E t \in Text \ RxText : Announce(n, "BEACON", NoCall, t)
  \/ \E c \in Call, t \in Text \ RxText : Announce(n, "MAIL", c, t)
  \/ AnnounceRefused(n)

Polling(n) ==
  \/ PollBegin(n) \/ ReceiveFrame(n) \/ PollFails(n) \/ PollEnd(n)
  \/ RecordChat(n) \/ RecordApp(n)

Next == \E n \in Node : Commands(n) \/ Reader(n) \/ Polling(n) \/ Quit(n)

Spec == Init /\ [][Next]_vars

-----------------------------------------------------------------------------
\* Every variable of LiveChat holds a value of its type.
TypeOK ==
  /\ peerCall \in [Node -> Call]
  /\ chat \in [Node -> Backend]
  /\ app \in [Node -> AppModel]
  /\ packets \in [Node -> [out: Seq(Packet), in: Seq(Packet)]]
  /\ wire \in [Node -> Seq(Frame)]
  /\ inbox \in [Node -> Seq(Frame)]
  /\ readerClosed \in [Node -> BOOLEAN]
  /\ phase \in [Node -> {"idle", "polling", "recording"}]
  /\ collected \in [Node -> Seq(Event)]
  /\ lines \in [Node -> Seq(Line)]
  /\ open \in [Node -> BOOLEAN]
  /\ used \in Nat /\ faults \in Nat

-----------------------------------------------------------------------------
(* Safety                                                                  *)

\* The packets a node reports as received, and those waiting for it in the
\* channel and on the wire, are the packets the other node reports as sent, one
\* by one and from the first; a node that has seen its reader end has them all
\* but for what a closed terminal lost (spawn_live_reader, poll_events).
FramesInOrder ==
  \A n \in Node :
    LET sent == packets[Peer(n)].out
        got == packets[n].in
        seen == Len(got) + Len(inbox[n])
    IN  /\ seen + Len(wire[Peer(n)]) <= Len(sent)
        /\ open[A] /\ open[B] => seen + Len(wire[Peer(n)]) = Len(sent)
        /\ \A i \in DOMAIN got : got[i].frame = sent[i].frame
        /\ \A i \in DOMAIN inbox[n] : inbox[n][i] = sent[Len(got) + i].frame
        /\ \A i \in DOMAIN wire[Peer(n)] : wire[Peer(n)][i] = sent[seen + i].frame
        /\ readerClosed[n] => wire[Peer(n)] = <<>> /\ inbox[n] = <<>>

\* What a terminal has from its peer (a beacon, CQ, mail or offer), the peer's
\* terminal has as its own: it is in the app model before it is sent.
ObservedWasPosted ==
  \A n \in Node : \A i \in DOMAIN app[n].entries :
    LET e == app[n].entries[i] IN
    e.from # n =>
      /\ e.from = Peer(n)
      /\ \E j \in DOMAIN app[Peer(n)].entries :
           LET own == app[Peer(n)].entries[j] IN
           /\ own.from = Peer(n) /\ own.text = e.text
           /\ own.to = NoCall <=> e.to = NoCall

Reported(n) == {lines[n][i] : i \in DOMAIN lines[n]}
Errors == {LineOf(w, 0) : w \in {"refused", "unsent", "half open"}}

\* The terminal shows the messages of the log in the order of the log, and a
\* message that is in the log and was not shown is in the poll under way, or the
\* terminal has shown an error.
LogIsShown ==
  \A n \in Node :
    /\ \A i, j \in DOMAIN lines[n] :
         i < j /\ lines[n][i].what = "message" /\ lines[n][j].what = "message"
           => lines[n][i].sequence < lines[n][j].sequence
    /\ \A k \in DOMAIN chat[n].messages :
         \/ LineOf("message", chat[n].messages[k].sequence) \in Reported(n)
         \/ \E i \in DOMAIN collected[n] :
              /\ collected[n][i].what = "message"
              /\ collected[n][i].sequence = chat[n].messages[k].sequence
         \/ Reported(n) \cap Errors # {}

\* Nothing is under way between the two terminals.
Quiet ==
  \A n \in Node : open[n] /\ wire[n] = <<>> /\ inbox[n] = <<>>

Routed == \A n \in Node : peerCall[n] = Peer(n)

\* The positions of a node's session frames among its sent packets.
ControlSent(n) == {i \in DOMAIN packets[n].out : packets[n].out[i].frame.kind \in Control}

\* The last session frames of the two nodes crossed on the wire, and one opens
\* a session while the other ends it.
Crossed ==
  \E i \in ControlSent(A), j \in ControlSent(B) :
    /\ \A k \in ControlSent(A) : k <= i
    /\ \A k \in ControlSent(B) : k <= j
    /\ packets[A].out[i].frame.kind # packets[B].out[j].frame.kind
    /\ packets[A].out[i].sequence < packets[A].in[j].sequence
    /\ packets[B].out[j].sequence < packets[B].in[i].sequence

\* Once nothing is under way, the two ends disagree on whether there is a session
\* exactly if the last CONNECT of one crossed the last DISCONNECT of the other:
\* no longer history of calls splits them, and such a crossing always does.  (A
\* CONNECT that could not be sent also leaves a session with one end.)
OnlyCrossingSplits ==
  Quiet /\ Routed /\ (\A n \in Node : LineOf("half open", 0) \notin Reported(n))
    => ((IsConnected(chat[A]) # IsConnected(chat[B])) <=> Crossed)

-----------------------------------------------------------------------------
(* Refinement                                                              *)

IsMsg(p) == p.frame.kind = "MSG"
Msgs(reports) == Picked(reports, {i \in DOMAIN reports : IsMsg(reports[i])})
Said(n) ==
  LET msgs == Msgs(packets[n].out) IN [i \in DOMAIN msgs |-> msgs[i].frame.text]

FromPeer(m) == m.direction = "Inbound" /\ m.text \notin RxText
Heard(n) ==
  LET log == chat[n].messages
      msgs == Picked(log, {i \in DOMAIN log : FromPeer(log[i])})
  IN  [i \in DOMAIN msgs |-> msgs[i].text]

Promise == INSTANCE TalkPromise WITH
  Texts <- Text \ RxText,
  said <- [n \in Node |-> Said(n)],
  heard <- [n \in Node |-> Heard(n)],
  upto <- [n \in Node |-> Len(Msgs(packets[n].in))],
  listening <- [n \in Node |-> IsConnected(chat[n]) /\ Routed]

\* LiveChat implements TalkPromise: through crossing connects and disconnects,
\* failed polls and closed terminals, texts come up once and in order, and one
\* is missed only by an end that has no session then.
KeepsTalk == Promise!Spec

-----------------------------------------------------------------------------
(* Liveness                                                                *)

\* The user interface polls on and on (run_terminal_app) and the reader thread runs.
FairSpec ==
  /\ Spec
  /\ \A n \in Node : WF_vars(Reader(n)) /\ WF_vars(Polling(n))

Announced(n, t) == \E i \in DOMAIN packets[n].out :
  packets[n].out[i].frame.kind \in AppKind /\ packets[n].out[i].frame.text = t
Observed(n, t) == \E i \in DOMAIN app[n].entries :
  app[n].entries[i].from = Peer(n) /\ app[n].entries[i].text = t

\* What was announced reaches the peer's app model, unless a poll failed there or
\* a terminal was closed.
AnnouncedArrives ==
  \A n \in Node : \A t \in Text \ RxText :
    Announced(n, t) ~>
      (Observed(Peer(n), t) \/ LineOf("refused", 0) \in Reported(Peer(n)) \/ ~(open[A] /\ open[B]))
=============================================================================
