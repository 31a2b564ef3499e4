----------------------------- MODULE NodeScript -----------------------------
(***************************************************************************)
(* Two processes that run `chat local-node-script`                         *)
(* (crates/chattybara-cli/src/local_peer.rs): each a LocalNodeSession with *)
(* a script of its own, joined by one TCP connection.  A command that      *)
(* sends writes its frames and an EXPECT reads the next one; both block,   *)
(* without a timeout.  A script goes on after a command that failed, and   *)
(* its process ends, and closes the connection, after its last line.       *)
(*                                                                         *)
(* As in LiveChat a frame is the packet it encodes, and decodes when it    *)
(* arrives because the sender decoded its own samples before.              *)
(***************************************************************************)
EXTENDS ChatBackend

CONSTANTS
  A, B,        \* the two stations, named by their calls
  Chunks,      \* the number of chunks each file is sent in
  Setups       \* how the two processes may be started

Node == {A, B}
Peer(n) == IF n = A THEN B ELSE A

NoText == "none"
AppKind == {"BEACON", "MAIL", "OFFER"}   \* CQ is sent and taken like BEACON
Kind == AppKind \cup {"CONNECT", "MSG", "FILE", "DISCONNECT"}

\* Only a CONNECT and a DISCONNECT have no text.
Plain == {"CONNECT", "DISCONNECT"}
Command == {c \in [send: BOOLEAN, kind: Kind, text: Text \cup {NoText}] :
              c.text = NoText <=> c.kind \in Plain}
Frame == [kind: (Kind \ {"FILE"}) \cup {"CHUNK"}, from: Call, to: Call,
          text: Text \cup {NoText}, part: Nat]
Packet == [sequence: Nat, frame: Frame]

\* capacity: frames the socket buffers of one direction hold; maxFaults bounds the
\* commands and packets refused for what they contain.
Setup == [script: [Node -> Seq(Command)], peer: [Node -> Call], capacity: Nat, maxFaults: Nat]

ASSUME ScriptAssumption ==
  /\ A # B /\ Node \subseteq Call /\ NoText \notin Text
  /\ Chunks \in [Text -> Nat \ {0}]
  /\ Setups \subseteq Setup

VARIABLES
  setup,      \* the scripts and options of the two processes
  results,    \* whether each command of the script so far was ok
  phase,      \* what the process is at
  chat,       \* FakeBackend of each process
  app,        \* ChatAppModel of each process
  packets,    \* packet reports of each process
  wire,       \* frames each process has written and the other has not read
  queue,      \* frames the command under way has still to write
  transfer,   \* frames of the file being received
  saved,      \* files received and written, the report's list of them
  faults      \* bounded: what was refused for its content

vars == <<setup, results, phase, chat, app, packets, wire, queue,
          transfer, saved, faults>>

Init ==
  /\ setup \in Setups
  /\ results = [n \in Node |-> <<>>]
  /\ phase = [n \in Node |-> "next"]
  /\ chat = [n \in Node |-> NewBackend]
  /\ app = [n \in Node |-> NewAppModel]
  /\ packets = [n \in Node |-> [out |-> <<>>, in |-> <<>>]]
  /\ wire = [n \in Node |-> <<>>]
  /\ queue = [n \in Node |-> <<>>]
  /\ transfer = [n \in Node |-> <<>>]
  /\ saved = [n \in Node |-> <<>>]
  /\ faults = 0

script == setup.script
peerCall == setup.peer

Ended(n) == phase[n] = "ended"
HasLine(n) == Len(results[n]) < Len(script[n])
Line(n) == script[n][Len(results[n]) + 1]
Starts(n) == phase[n] = "next" /\ HasLine(n)

Ok(n, ok) ==
  /\ results' = [results EXCEPT ![n] = Append(@, ok)]
  /\ phase' = [phase EXCEPT ![n] = "next"]

AppAddressee(n, kind) == IF kind = "BEACON" THEN NoCall ELSE n

-----------------------------------------------------------------------------
(* Commands that send                                                      *)

FrameOf(n, kind, text, part) ==
  [kind |-> kind, from |-> n, to |-> peerCall[n], text |-> text, part |-> part]

FramesOf(n, c) ==
  IF c.kind = "FILE"
  THEN <<FrameOf(n, "OFFER", c.text, 0)>>
       \o [i \in 1..Chunks[c.text] |-> FrameOf(n, "CHUNK", c.text, i)]
  ELSE <<FrameOf(n, c.kind, c.text, 0)>>

\* connect needs no session, send_text one; the others do not ask.
Allowed(n, c) ==
  /\ c.kind = "CONNECT" => ~IsConnected(chat[n])
  /\ c.kind = "MSG" => IsConnected(chat[n])

ChatSent(n, c) ==
  CASE c.kind = "CONNECT" -> ConnectTo(chat[n], peerCall[n])
    [] c.kind = "MSG" -> SentText(chat[n], n, c.text)
    [] OTHER -> chat[n]

AppSent(n, c) ==
  IF c.kind \in AppKind \cup {"FILE"}
  THEN Recorded(app[n], n, AppAddressee(peerCall[n], c.kind), c.text)
  ELSE app[n]

\* What is sent is recorded first; a DISCONNECT ends the session afterwards.
SendBegin(n) ==
  /\ Starts(n) /\ Line(n).send /\ Allowed(n, Line(n))
  /\ chat' = [chat EXCEPT ![n] = ChatSent(n, Line(n))]
  /\ app' = [app EXCEPT ![n] = AppSent(n, Line(n))]
  /\ queue' = [queue EXCEPT ![n] = FramesOf(n, Line(n))]
  /\ phase' = [phase EXCEPT ![n] = "writing"]
  /\ UNCHANGED <<setup, results, packets, wire, transfer, saved, faults>>

SendRefused(n) ==
  /\ Starts(n) /\ Line(n).send /\ ~Allowed(n, Line(n))
  /\ Ok(n, FALSE)
  /\ UNCHANGED <<setup, chat, app, packets, wire, queue, transfer, saved, faults>>

\* The file cannot be read or is empty, or the app model refuses the request.
RequestRefused(n) ==
  /\ Starts(n) /\ Line(n).send /\ Line(n).kind \in AppKind \cup {"FILE"}
  /\ faults < setup.maxFaults /\ faults' = faults + 1
  /\ \E a \in {app[n], RecordRefused(app[n])} : app' = [app EXCEPT ![n] = a]
  /\ Ok(n, FALSE)
  /\ UNCHANGED <<setup, chat, packets, wire, queue, transfer, saved>>

\* The connection was closed with something unread: of what is still to be read
\* from it, only a beginning may be left.
Reset(w, n) ==
  \E k \in 0..Len(w[n]) : wire' = [w EXCEPT ![n] = SubSeq(@, 1, k)]

\* write_audio_frame is under way; bytes for a process that ended reset the link.
FrameBegin(n) ==
  /\ phase[n] = "writing"
  /\ IF Ended(Peer(n))
     THEN Reset(wire, Peer(n)) /\ phase' = [phase EXCEPT ![n] = "lost"]
     ELSE /\ wire' = [wire EXCEPT ![n] = Append(@, Head(queue[n]))]
          /\ phase' = [phase EXCEPT ![n] = "blocked"]
  /\ UNCHANGED <<setup, results, chat, app, packets, queue, transfer, saved, faults>>

PacketOf(n, f) == [sequence |-> Len(packets[n].out) + Len(packets[n].in) + 1, frame |-> f]

\* Wrong on purpose: the write returns only once the reader has taken everything.
FrameWrittenLate(n) ==
  /\ \/ phase[n] = "blocked" /\ wire[n] = <<>>
     \/ phase[n] = "lost"
  /\ packets' = [packets EXCEPT ![n].out = Append(@, PacketOf(n, Head(queue[n])))]
  /\ queue' = [queue EXCEPT ![n] = Tail(@)]
  /\ UNCHANGED <<setup, app, wire, transfer, saved, faults>>

\* The write returns once the buffers hold what the reader has not taken; of a lost
\* frame it may have passed on every byte.
FrameWritten(n) ==
  /\ \/ phase[n] = "blocked" /\ Len(wire[n]) <= setup.capacity
     \/ phase[n] = "lost"
  /\ packets' = [packets EXCEPT ![n].out = Append(@, PacketOf(n, Head(queue[n])))]
  /\ queue' = [queue EXCEPT ![n] = Tail(@)]
  /\ UNCHANGED <<setup, app, wire, transfer, saved, faults>>

FrameEnd(n) ==
  /\ FrameWritten(n)
  /\ Tail(queue[n]) # <<>>
  /\ phase' = [phase EXCEPT ![n] = "writing"]
  /\ UNCHANGED <<results, chat>>

\* Wrong on purpose: a DISCONNECT leaves the sender's session.
SendEndStays(n) ==
  /\ FrameWritten(n)
  /\ Tail(queue[n]) = <<>>
  /\ Ok(n, TRUE)
  /\ UNCHANGED chat

SendEnd(n) ==
  /\ FrameWritten(n)
  /\ Tail(queue[n]) = <<>>
  /\ chat' = IF Line(n).kind = "DISCONNECT" THEN [chat EXCEPT ![n] = Disconnected(@)] ELSE chat
  /\ Ok(n, TRUE)

\* The packet is too large or fails its self-decode, or the other process is gone.
SendFails(n) ==
  /\ \/ phase[n] = "writing" /\ faults < setup.maxFaults /\ faults' = faults + 1
     \/ phase[n] = "lost" /\ UNCHANGED faults
  /\ queue' = [queue EXCEPT ![n] = <<>>]
  /\ Ok(n, FALSE)
  /\ UNCHANGED <<setup, chat, app, packets, wire, transfer, saved>>

-----------------------------------------------------------------------------
(* Commands that expect                                                    *)

\* Wrong on purpose: the frame stays in the stream.
TakeFramePeek(n) ==
  /\ wire[Peer(n)] # <<>>
  /\ packets' = [packets EXCEPT ![n].in = Append(@, PacketOf(n, Head(wire[Peer(n)])))]
  /\ UNCHANGED wire

\* receive_payload: the frame is taken, and reported, whatever it is.
TakeFrame(n) ==
  /\ wire[Peer(n)] # <<>>
  /\ wire' = [wire EXCEPT ![Peer(n)] = Tail(@)]
  /\ packets' = [packets EXCEPT ![n].in = Append(@, PacketOf(n, Head(wire[Peer(n)])))]

Arrived(n) == Head(wire[Peer(n)])
Routed(n, f) == f.from = peerCall[n] /\ f.to = n

Expected(n, c, f) ==
  /\ f.kind = (IF c.kind = "FILE" THEN "OFFER" ELSE c.kind)
  /\ Routed(n, f)
  /\ f.text = c.text

\* The chat session has its own say: connect wants none, receive_text this peer's.
Applies(n, f) ==
  /\ f.kind = "CONNECT" => ~IsConnected(chat[n])
  /\ f.kind = "MSG" => Accepts(chat[n], f.from)

ChatGot(n, f) ==
  CASE f.kind = "CONNECT" -> ConnectTo(chat[n], f.from)
    [] f.kind = "MSG" -> ReceivedText(chat[n], n, f.from, f.text)
    [] f.kind = "DISCONNECT" -> Disconnected(chat[n])
    [] OTHER -> chat[n]

AppGot(n, f) ==
  IF f.kind \in AppKind
  THEN Recorded(app[n], f.from, AppAddressee(n, f.kind), f.text)
  ELSE app[n]

Expects(n) == Starts(n) /\ ~Line(n).send

\* A file transfer goes on with its chunks; any other command has what it wants.
ExpectMet(n) ==
  /\ Expects(n) /\ TakeFrame(n)
  /\ Expected(n, Line(n), Arrived(n)) /\ Applies(n, Arrived(n))
  /\ chat' = [chat EXCEPT ![n] = ChatGot(n, Arrived(n))]
  /\ app' = [app EXCEPT ![n] = AppGot(n, Arrived(n))]
  /\ IF Line(n).kind = "FILE"
     THEN /\ transfer' = [transfer EXCEPT ![n] = <<Arrived(n)>>]
          /\ phase' = [phase EXCEPT ![n] = "chunks"]
          /\ UNCHANGED results
     ELSE Ok(n, TRUE) /\ UNCHANGED transfer
  /\ UNCHANGED <<setup, queue, saved, faults>>

\* Wrong on purpose: a frame that does not fit is passed over as if it did.
ExpectMissedOk(n) ==
  /\ Expects(n) /\ TakeFrame(n)
  /\ ~(Expected(n, Line(n), Arrived(n)) /\ Applies(n, Arrived(n)))
  /\ Ok(n, TRUE)
  /\ UNCHANGED <<setup, chat, app, queue, transfer, saved, faults>>

ExpectMissed(n) ==
  /\ Expects(n) /\ TakeFrame(n)
  /\ ~(Expected(n, Line(n), Arrived(n)) /\ Applies(n, Arrived(n)))
  /\ Ok(n, FALSE)
  /\ UNCHANGED <<setup, chat, app, queue, transfer, saved, faults>>

\* A chunk of this peer, with the total the first one gave.
IsChunk(n, f) ==
  /\ f.kind = "CHUNK" /\ Routed(n, f)
  /\ Len(transfer[n]) > 1 => Chunks[f.text] = Chunks[transfer[n][2].text]

\* With this chunk the total is reached; the offer stands in transfer[n] as well.
LastChunk(n, f) == Len(transfer[n]) >= Chunks[f.text]

\* reassemble_file_chunks and the comparison after it: all chunks of the expected
\* file, each once.
Whole(t, text) ==
  /\ \A i \in DOMAIN t : t[i].text = text
  /\ {t[i].part : i \in DOMAIN t} = 0..Chunks[text]

ChunkTaken(n) ==
  /\ phase[n] = "chunks" /\ TakeFrame(n)
  /\ IsChunk(n, Arrived(n))
  /\ UNCHANGED <<setup, chat, app, queue, faults>>

ChunkKept(n) ==
  /\ ChunkTaken(n)
  /\ ~LastChunk(n, Arrived(n))
  /\ transfer' = [transfer EXCEPT ![n] = Append(@, Arrived(n))]
  /\ UNCHANGED <<results, phase, saved>>

FileSaved(n) ==
  /\ ChunkTaken(n)
  /\ LastChunk(n, Arrived(n))
  /\ LET t == Append(transfer[n], Arrived(n))
         whole == Whole(t, Line(n).text)
     IN /\ saved' = IF whole THEN [saved EXCEPT ![n] = Append(@, Line(n).text)] ELSE saved
        /\ Ok(n, whole)
  /\ transfer' = [transfer EXCEPT ![n] = <<>>]

\* The received directory cannot be written.
SaveFails(n) ==
  /\ phase[n] = "chunks" /\ TakeFrame(n)
  /\ IsChunk(n, Arrived(n)) /\ LastChunk(n, Arrived(n))
  /\ faults < setup.maxFaults /\ faults' = faults + 1
  /\ transfer' = [transfer EXCEPT ![n] = <<>>]
  /\ Ok(n, FALSE)
  /\ UNCHANGED <<setup, chat, app, queue, saved>>

\* Anything else ends the transfer; what follows of it stays unread.
ChunkMissed(n) ==
  /\ phase[n] = "chunks" /\ TakeFrame(n)
  /\ ~IsChunk(n, Arrived(n))
  /\ transfer' = [transfer EXCEPT ![n] = <<>>]
  /\ Ok(n, FALSE)
  /\ UNCHANGED <<setup, chat, app, queue, saved, faults>>

\* Wrong on purpose: the end of the stream is taken for the end of the file.
HungUpSaves(n) ==
  /\ Expects(n) \/ phase[n] = "chunks"
  /\ wire[Peer(n)] = <<>> /\ Ended(Peer(n))
  /\ saved' = IF phase[n] = "chunks" THEN [saved EXCEPT ![n] = Append(@, Line(n).text)] ELSE saved
  /\ transfer' = [transfer EXCEPT ![n] = <<>>]
  /\ Ok(n, phase[n] = "chunks")
  /\ UNCHANGED <<setup, chat, app, packets, wire, queue, faults>>

\* Wrong on purpose: only an EXPECT sees the end of the stream.
HungUpLine(n) ==
  /\ Expects(n)
  /\ wire[Peer(n)] = <<>> /\ Ended(Peer(n))
  /\ transfer' = [transfer EXCEPT ![n] = <<>>]
  /\ Ok(n, FALSE)
  /\ UNCHANGED <<setup, chat, app, packets, wire, queue, saved, faults>>

\* End of the stream, or its reset.
HungUp(n) ==
  /\ Expects(n) \/ phase[n] = "chunks"
  /\ wire[Peer(n)] = <<>> /\ Ended(Peer(n))
  /\ transfer' = [transfer EXCEPT ![n] = <<>>]
  /\ Ok(n, FALSE)
  /\ UNCHANGED <<setup, chat, app, packets, wire, queue, saved, faults>>

-----------------------------------------------------------------------------
\* After the last line the process writes its reports and ends.  A frame that the
\* other is writing and this one has not read is lost.
Finish(n) ==
  /\ phase[n] = "next" /\ ~HasLine(n)
  /\ phase' = [phase EXCEPT ![n] = "ended",
                ![Peer(n)] = IF @ = "blocked" /\ wire[Peer(n)] # <<>> THEN "lost" ELSE @]
  /\ IF wire[Peer(n)] = <<>> THEN UNCHANGED wire
     ELSE Reset([wire EXCEPT ![Peer(n)] = <<>>], n)
  /\ UNCHANGED <<setup, results, chat, app, packets, queue, transfer, saved, faults>>

AllEnded == \A n \in Node : Ended(n)
Over == AllEnded /\ UNCHANGED vars

Sending(n) ==
  \/ SendBegin(n) \/ SendRefused(n) \/ RequestRefused(n)
  \/ FrameBegin(n) \/ FrameEnd(n) \/ SendEnd(n) \/ SendFails(n)

Expecting(n) ==
  \/ ExpectMet(n) \/ ExpectMissed(n)
  \/ ChunkKept(n) \/ FileSaved(n) \/ SaveFails(n) \/ ChunkMissed(n) \/ HungUp(n)

Step(n) == Sending(n) \/ Expecting(n) \/ Finish(n)

Next == (\E n \in Node : Step(n)) \/ Over

Spec == Init /\ [][Next]_vars

\* The operating system runs both processes.
FairSpec == Spec /\ \A n \in Node : WF_vars(Step(n))

-----------------------------------------------------------------------------
(* Properties                                                              *)

Texts(list) == [i \in DOMAIN list |-> list[i].text]

TextsOf(c, direction) ==
  Texts(Picked(c.messages, {i \in DOMAIN c.messages : c.messages[i].direction = direction}))

\* The texts a process recorded as received are among those its peer recorded as
\* sent, in the order they were sent in: whatever the scripts do, no failed command
\* makes a later EXPECT-MSG record something else.
HeardWasSaid ==
  \A n \in Node :
    IsPartOf(TextsOf(chat[n], "Inbound"), TextsOf(chat[Peer(n)], "Outbound"))

\* A file written to the received directory came whole: its offer and all its chunks, in
\* order and with nothing between, also after transfers that broke off.
SavedCameWhole ==
  \A n \in Node : \A i \in DOMAIN saved[n] :
    \E k \in DOMAIN packets[n].in :
      \A part \in 0..Chunks[saved[n][i]] :
        /\ k + part \in DOMAIN packets[n].in
        /\ LET f == packets[n].in[k + part].frame
           IN f.text = saved[n][i] /\ f.part = part /\ f.from = Peer(n)

PostsOf(a, n) ==
  LET kept == Picked(a.entries, {i \in DOMAIN a.entries : a.entries[i].from = n})
  IN [i \in DOMAIN kept |-> [to |-> kept[i].to, text |-> kept[i].text]]

IsFileSend(c) == c.send /\ c.kind = "FILE"
FilesSent(n) == Texts(Picked(script[n], {i \in DOMAIN script[n] : IsFileSend(script[n][i])}))

NoneFailed == \A n \in Node : \A i \in DOMAIN results[n] : results[n][i]
AllRead == \A n \in Node : Len(packets[n].out) = Len(packets[Peer(n)].in)

\* When both scripts report ok and nothing was left unread, the two sets of reports
\* mirror each other: what one station logs, posted and sent as files is what the
\* other logged, observed and saved.  (Saved is what was received and written, in
\* order; files whose safe names are the same overwrite each other in the directory.)
OkMeansDelivered ==
  AllEnded /\ NoneFailed /\ AllRead =>
    \A n \in Node :
      /\ TextsOf(chat[n], "Outbound") = TextsOf(chat[Peer(n)], "Inbound")
      /\ PostsOf(app[n], n) = PostsOf(app[Peer(n)], n)
      /\ FilesSent(n) = saved[Peer(n)]

SessionsAgree == \A n \in Node : chat[n].peer = Peer(n) <=> chat[Peer(n)].peer = n

-----------------------------------------------------------------------------
(* Conversations.  Two scripts are the two sides of one when each line of  *)
(* one station has its counterpart with the other: one sends what the      *)
(* other expects, or both send and then expect what the other sent.        *)

Answers(c, d) == c.send /\ ~d.send /\ d.kind = c.kind /\ d.text = c.text

TakesTurn(s, i) == \E n \in Node : Answers(s.script[n][i], s.script[Peer(n)][i])

\* Only news of one frame may cross.
Crosses(s, i) ==
  \A n \in Node :
    /\ i + 1 \in DOMAIN s.script[n]
    /\ s.script[n][i].kind \in AppKind \cup {"MSG"}
    /\ Answers(s.script[n][i], s.script[Peer(n)][i + 1])

\* Whether the lines before line i leave a session.
InSession(lines, i) ==
  \E j \in 1..(i - 1) :
    lines[j].kind = "CONNECT" /\ \A k \in j..(i - 1) : lines[k].kind # "DISCONNECT"

\* CONNECT finds no session and MSG finds one, and both stations were told the other.
Agreed(s) ==
  \A n \in Node :
    /\ s.peer[n] = Peer(n) /\ Len(s.script[n]) = Len(s.script[Peer(n)])
    /\ \A i \in DOMAIN s.script[n] :
         /\ TakesTurn(s, i) \/ Crosses(s, i) \/ (i > 1 /\ Crosses(s, i - 1))
         /\ s.script[n][i].kind = "CONNECT" => ~InSession(s.script[n], i)
         /\ s.script[n][i].kind = "MSG" => InSession(s.script[n], i)

InTurns(s) == \A i \in DOMAIN s.script[A] : ~Crosses(s, i)

\* A conversation goes on with as little in the buffers as it takes: nothing where the
\* stations take turns, one frame where both send at once.
RoomToCross(s) == s.capacity > 0 \/ InTurns(s)

\* A read without a frame, or a write that the buffers do not take.
Waits(n) ==
  \/ (Expects(n) \/ phase[n] = "chunks") /\ wire[Peer(n)] = <<>>
  \/ phase[n] = "blocked" /\ Len(wire[n]) > setup.capacity

\* Two scripts written from one conversation come to their ends: no pair of blocking
\* reads and writes waits for each other, however little the buffers hold.
ConversationEnds ==
  Agreed(setup) /\ RoomToCross(setup) /\ setup.maxFaults = 0 => <>AllEnded

\* A process does not wait for one that has ended: its reads see the end of the
\* stream and its writes fail or go nowhere, and its script comes to its end too.
NobodyWaitsForTheGone == \A n \in Node : Ended(n) ~> Ended(Peer(n))
=============================================================================
