------------------------------ MODULE Terminal ------------------------------
(***************************************************************************)
(* One terminal, ChatTuiApp of crates/chattybara-cli/src/tui.rs: the setup *)
(* beside the running session, the switch of /start from one session to    *)
(* the next, chat over the in-process backends, and /save-session.  What   *)
(* is said over a local node once it is connected is in LiveChat.          *)
(*                                                                         *)
(* The terminal is one thread: between two keys nothing of it happens, and *)
(* while it waits for a peer node to connect it reads no key.              *)
(***************************************************************************)
EXTENDS ChatBackend, SequencesExt

CONSTANTS
  Owner,         \* the call the program is started with
  Ack,           \* the loopback's answer to each text that is typed
  RxText,        \* texts for the local /rx command, told apart from both
  Given,         \* bound: the kinds of commands that are given
  MaxCommands,   \* bound: commands given
  MaxFaults      \* bound: packets that do not come back, saves that break off

Typed == DOMAIN Ack
AckText == {Ack[t] : t \in Typed}

ASSUME TerminalAssumption ==
  /\ Owner \in Call
  /\ Typed \cup AckText \cup RxText \subseteq Text
  /\ Typed \cap AckText = {} /\ RxText \cap (Typed \cup AckText) = {}
  /\ MaxCommands \in Nat /\ MaxFaults \in Nat

VARIABLES
  phase,     \* reading keys, waiting for a peer node, or closed
  quitting,  \* a key that quits was pressed and not read yet
  station,   \* the call for the next session, set by /station
  backend,   \* kind and call of the session; the peer of a local node
  chat,      \* its FakeBackend
  app,       \* the ChatAppModel made with it
  packets,   \* its packet reports, if it is a loopback
  setup,     \* TuiSetupState, or NoSetup
  dir,       \* the session directory: what /save-session wrote last
  saves,     \* /save-session commands so far
  used,      \* bounded: commands given
  faults     \* bounded: faults

vars == <<phase, quitting, station, backend, chat, app, packets, setup, dir,
          saves, used, faults>>

InProcess == {"fake", "loopback", "wav"}
Kind == InProcess \cup {"node"}
Mode == {"unset", "listen", "connect"}
Setup == [kind: Kind, peer: Call \cup {NoCall}, mode: Mode]
NoSetup == [kind |-> "none", peer |-> NoCall, mode |-> "unset"]
Report == [sequence: Nat, direction: Direction, peer: Call, text: Text, ok: BOOLEAN]

InSetup == setup # NoSetup

\* ChatTuiApp::new.  Without --backend the program starts in setup, with a
\* loopback running meanwhile.  A start with a local node is LiveChat's.
Init ==
  /\ phase = "reading"
  /\ quitting = FALSE
  /\ station = Owner
  /\ chat = NewBackend
  /\ app = NewAppModel
  /\ packets = <<>>
  /\ \/ /\ setup = NoSetup
        /\ backend \in [kind: InProcess, call: {Owner}, peer: {NoCall}]
     \/ /\ setup \in Setup
        /\ setup.kind = IF setup.peer = NoCall /\ setup.mode = "unset" THEN "loopback" ELSE "node"
        /\ backend = [kind |-> "loopback", call |-> Owner, peer |-> NoCall]
  /\ dir = <<>>
  /\ saves = 0
  /\ used = 0
  /\ faults = 0

Command(kind) ==
  /\ kind \in Given
  /\ phase = "reading"
  /\ used < MaxCommands
  /\ used' = used + 1
  /\ UNCHANGED quitting

Fault == faults < MaxFaults /\ faults' = faults + 1

-----------------------------------------------------------------------------
(* Setup.  Each command opens it first, with the running backend selected. *)

Opened == IF InSetup THEN setup
          ELSE [kind |-> backend.kind, peer |-> NoCall, mode |-> "unset"]

SetupCommand ==
  /\ Command("setup")
  /\ UNCHANGED <<phase, backend, chat, app, packets, dir, saves, faults>>

\* /setup, Enter on the setup pane, and every audio and radio setting.
OpenSetup ==
  /\ SetupCommand
  /\ setup' = Opened
  /\ UNCHANGED station

\* Wrong on purpose: /station does not open the setup.
SetStationOnly(call) ==
  /\ SetupCommand
  /\ station' = call
  /\ UNCHANGED setup

SetStation(call) ==
  /\ SetupCommand
  /\ station' = call
  /\ setup' = Opened

SetBackend(kind) ==
  /\ SetupCommand
  /\ setup' = [Opened EXCEPT !.kind = kind]
  /\ UNCHANGED station

SetPeer(call) ==
  /\ SetupCommand
  /\ setup' = [Opened EXCEPT !.kind = "node", !.peer = call]
  /\ UNCHANGED station

\* /listen and /connect-node.
SetMode(mode) ==
  /\ SetupCommand
  /\ setup' = [Opened EXCEPT !.kind = "node", !.mode = mode]
  /\ UNCHANGED station

\* Enter on the link row: a listener stays one until /connect-node is sent.
ToggleLink ==
  /\ SetupCommand
  /\ InSetup
  /\ setup' = [setup EXCEPT !.kind = "node", !.mode = "listen"]
  /\ UNCHANGED station

-----------------------------------------------------------------------------
(* /start                                                                  *)

\* Both parts of a node's address are there and it is not its own peer.
NodeReady ==
  /\ setup.peer # NoCall
  /\ setup.mode # "unset"
  /\ setup.peer # station

\* Wrong on purpose: /start goes on without a setup.
StartCommandAnyway ==
  /\ Command("start")
  /\ UNCHANGED <<dir, saves, faults>>

StartCommand ==
  /\ Command("start")
  /\ InSetup
  /\ UNCHANGED <<dir, saves, faults>>

\* build_tui_backend made the backend; start_setup replaces everything.
Switch ==
  /\ backend' = [kind |-> setup.kind, call |-> station,
                 peer |-> IF setup.kind = "node" THEN setup.peer ELSE NoCall]
  /\ chat' = NewBackend
  /\ app' = NewAppModel
  /\ packets' = <<>>
  /\ setup' = NoSetup
  /\ UNCHANGED station

Session == <<station, backend, chat, app, packets, setup>>

Start ==
  /\ StartCommand
  /\ setup.kind = "node" => NodeReady /\ setup.mode = "connect"
  /\ Switch
  /\ UNCHANGED phase

\* Not ready, no address to bind, no file to write it to, or nobody there.
StartFails ==
  /\ StartCommand
  /\ setup.kind = "node"
  /\ UNCHANGED <<phase, Session>>

\* Wrong on purpose: the old session is given up before the peer is there.
StartListensAfresh ==
  /\ StartCommand
  /\ setup.kind = "node" /\ NodeReady /\ setup.mode = "listen"
  /\ phase' = "listening"
  /\ chat' = NewBackend
  /\ UNCHANGED <<station, backend, app, packets, setup>>

\* open_local_node_stream is bound and waits in accept.
StartListens ==
  /\ StartCommand
  /\ setup.kind = "node" /\ NodeReady /\ setup.mode = "listen"
  /\ phase' = "listening"
  /\ UNCHANGED Session

\* A peer node connects.
Accepted ==
  /\ phase = "listening"
  /\ phase' = "reading"
  /\ Switch
  /\ UNCHANGED <<quitting, dir, saves, used, faults>>

AcceptFails ==
  /\ phase = "listening"
  /\ phase' = "reading"
  /\ Fault
  /\ UNCHANGED <<Session, quitting, dir, saves, used>>

-----------------------------------------------------------------------------
(* Chat over the in-process backends                                       *)

ChatCommand(kind) ==
  /\ Command(kind)
  /\ backend.kind \in InProcess
  /\ UNCHANGED <<phase, station, backend, setup, dir, saves>>

Connect(call) ==
  /\ ChatCommand("connect")
  /\ ~IsConnected(chat)
  /\ chat' = ConnectTo(chat, call)
  /\ UNCHANGED <<app, packets, faults>>

Disconnect ==
  /\ ChatCommand("connect")
  /\ chat' = Disconnected(chat)
  /\ UNCHANGED <<app, packets, faults>>

\* /rx
Receive(from, text) ==
  /\ ChatCommand("rx")
  /\ Accepts(chat, from)
  /\ chat' = ReceivedText(chat, backend.call, from, text)
  /\ UNCHANGED <<app, packets, faults>>

SendFake(text) ==
  /\ ChatCommand("send")
  /\ backend.kind = "fake"
  /\ IsConnected(chat)
  /\ chat' = SentText(chat, backend.call, text)
  /\ UNCHANGED <<app, packets, faults>>

Reported(reports, direction, text, ok) ==
  Append(reports, [sequence |-> Len(reports) + 1, direction |-> direction,
                   peer |-> chat.peer, text |-> text, ok |-> ok])

LoopbackSends(text) ==
  /\ ChatCommand("send")
  /\ backend.kind \in {"loopback", "wav"}
  /\ IsConnected(chat)
  /\ UNCHANGED app

Said(text) == SentText(chat, backend.call, text)
Answered(text) == ReceivedText(Said(text), backend.call, chat.peer, Ack[text])
Out(text, ok) == Reported(packets, "Outbound", text, ok)
OutAndIn(text, ok) == Reported(Out(text, TRUE), "Inbound", Ack[text], ok)

\* Both packets come back: the text and its answer are logged.
LoopbackAnswers(text) ==
  /\ LoopbackSends(text)
  /\ chat' = Answered(text)
  /\ packets' = OutAndIn(text, TRUE)
  /\ UNCHANGED faults

\* The text is logged already when its packet cannot be made or read back (no
\* report), or comes back spoilt (a report that says so).
LoopbackLoses(text) ==
  /\ LoopbackSends(text)
  /\ Fault
  /\ chat' = Said(text)
  /\ packets' \in {packets, Out(text, FALSE)}

\* Wrong on purpose: the answer is logged before its packet is made.
LoopbackLosesLate(text) ==
  /\ LoopbackSends(text)
  /\ Fault
  /\ chat' = Answered(text)
  /\ packets' \in {Out(text, TRUE), OutAndIn(text, FALSE)}

\* The same for the answer.
LoopbackLosesAnswer(text) ==
  /\ LoopbackSends(text)
  /\ Fault
  /\ chat' = Said(text)
  /\ packets' \in {Out(text, TRUE), OutAndIn(text, FALSE)}

\* Beacon, CQ, mail, reply or file offer; in-process backends send nothing.
Post(to, text) ==
  /\ ChatCommand("post")
  /\ app' = Recorded(app, backend.call, to, text)
  /\ UNCHANGED <<chat, packets, faults>>

\* A bad call, text or digest uses up a number.
PostRefused ==
  /\ ChatCommand("post")
  /\ app' = RecordRefused(app)
  /\ UNCHANGED <<chat, packets, faults>>

-----------------------------------------------------------------------------
(* /save-session: one file after the other, each created empty and then    *)
(* filled.  A file is known by the save that wrote it last, whether it is  *)
(* whole, and the packet files it names.                                   *)

PacketFile(p) == <<"packet", p.sequence, p.direction, p.peer>>
PacketFiles ==
  IF backend.kind = "wav" THEN [i \in DOMAIN packets |-> PacketFile(packets[i])] ELSE <<>>

\* Wrong on purpose: the report before the files it is about.
FilesSessionEarly ==
  <<<<"transcript">>, <<"app-state">>, <<"log">>, <<"events">>, <<"session">>>>
  \o PacketFiles \o <<<<"artifacts">>>>

Files ==
  <<<<"transcript">>, <<"app-state">>, <<"log">>, <<"events">>>>
  \o PacketFiles \o <<<<"artifacts">>, <<"session">>>>

File(whole) == [save |-> saves + 1, whole |-> whole, names |-> ToSet(PacketFiles)]

\* The first n files are written and the next one, if some, left half done.
Written(n, half) ==
  LET done == ToSet(SubSeq(Files, 1, n))
  IN  [f \in DOMAIN dir \cup done \cup half |->
        IF f \in half THEN File(FALSE) ELSE IF f \in done THEN File(TRUE) ELSE dir[f]]

SaveCommand ==
  /\ Command("save")
  /\ saves' = saves + 1
  /\ UNCHANGED Session

Save ==
  /\ SaveCommand
  /\ dir' = Written(Len(Files), {})
  /\ UNCHANGED <<phase, faults>>

\* A file cannot be created or filled, or the process dies at it.
SaveBreaksOff ==
  /\ SaveCommand
  /\ Fault
  /\ phase' \in {"reading", "closed"}
  /\ \E n \in 1..Len(Files) :
       \E half \in {{}, {Files[n]}} : dir' = Written(n - 1, half)

-----------------------------------------------------------------------------
\* Ctrl-C or Ctrl-Q is pressed; in raw mode both are only keys.
PressQuit ==
  /\ phase # "closed"
  /\ ~quitting
  /\ quitting' = TRUE
  /\ UNCHANGED <<Session, phase, dir, saves, used, faults>>

\* run_terminal_app reads the key and leaves its loop.
Quit ==
  /\ phase = "reading"
  /\ quitting
  /\ phase' = "closed"
  /\ UNCHANGED <<Session, quitting, dir, saves, used, faults>>

Next ==
  \/ OpenSetup
  \/ \E call \in Call : SetStation(call) \/ SetPeer(call) \/ Connect(call)
  \/ \E kind \in Kind : SetBackend(kind)
  \/ \E mode \in Mode \ {"unset"} : SetMode(mode)
  \/ ToggleLink
  \/ Start \/ StartFails \/ StartListens
  \/ Accepted \/ AcceptFails
  \/ Disconnect
  \/ \E text \in RxText, from \in Call : Receive(from, text)
  \/ \E text \in Typed :
       \/ \E to \in Call \cup {NoCall} : Post(to, text)
       \/ SendFake(text)
       \/ LoopbackAnswers(text) \/ LoopbackLoses(text) \/ LoopbackLosesAnswer(text)
  \/ PostRefused
  \/ Save \/ SaveBreaksOff
  \/ PressQuit \/ Quit

Spec == Init /\ [][Next]_vars

\* Keys are read every 200 ms unless the thread waits for a peer, which may
\* never come.
FairSpec == Spec /\ WF_vars(Quit)
-----------------------------------------------------------------------------
(* Properties                                                              *)

\* Every variable has its type.
TypeOK ==
  /\ phase \in {"reading", "listening", "closed"}
  /\ quitting \in BOOLEAN
  /\ station \in Call
  /\ backend \in [kind: Kind, call: Call, peer: Call \cup {NoCall}]
  /\ chat \in Backend
  /\ app \in AppModel
  /\ packets \in Seq(Report)
  /\ setup \in Setup \cup {NoSetup}
  /\ \A f \in DOMAIN dir :
       /\ dir[f].save \in 1..saves
       /\ dir[f].whole \in BOOLEAN
       /\ f \in {<<"session">>, <<"artifacts">>} =>
            \A wav \in dir[f].names : wav[1] = "packet"
  /\ saves \in Nat /\ used \in 0..MaxCommands /\ faults \in 0..MaxFaults

\* Outside setup the terminal stands for one station: the call the next session
\* would get is the call it chats under, which every entry in log and app model
\* names as the own one.  /station changes the first long before /start makes a
\* session of it; a /start that fails must leave the two apart in setup only,
\* where the status line shows it.
OneStation ==
  ~InSetup =>
    /\ backend.call = station
    /\ \A i \in DOMAIN chat.messages :
         LET m == chat.messages[i]
         IN  station = IF m.direction = "Outbound" THEN m.from ELSE m.to
    /\ \A i \in DOMAIN app.entries : app.entries[i].from = station

\* Of the log, and of the packet reports, what the session said or was told.
Told(direction, texts) ==
  Picked(chat.messages, {i \in DOMAIN chat.messages :
           chat.messages[i].direction = direction /\ chat.messages[i].text \in texts})
Came(direction, oks) ==
  Picked(packets, {i \in DOMAIN packets :
           packets[i].direction = direction /\ packets[i].ok \in oks})

\* The packet reports of a loopback tell the same story as its log: each answer
\* that is logged is a packet that came back, and each such packet is logged,
\* in order; the packets that went out are texts of the log, in order; an
\* answer is made only of a packet that came back.  send_text logs the text,
\* makes two packets and logs the answer, and may fail between any two.
PacketsTellTheLog ==
  backend.kind \in {"loopback", "wav"} =>
    LET heard == Told("Inbound", AckText)
        back == Came("Inbound", {TRUE})
        said == Told("Outbound", Typed)
        out == Came("Outbound", BOOLEAN)
    IN  /\ [i \in DOMAIN heard |-> <<heard[i].from, heard[i].text>>]
             = [i \in DOMAIN back |-> <<back[i].peer, back[i].text>>]
        /\ IsPartOf([i \in DOMAIN out |-> <<out[i].peer, out[i].text>>],
                    [i \in DOMAIN said |-> <<said[i].to, said[i].text>>])
        /\ \A i \in DOMAIN packets :
             packets[i].direction = "Inbound" =>
               /\ i > 1 /\ packets[i - 1].direction = "Outbound" /\ packets[i - 1].ok
               /\ packets[i].text = Ack[packets[i - 1].text]

\* A whole session report stands for a session that was saved: every file it
\* is about, and every packet file it names, is there, whole if it was written
\* with the report, and otherwise from a later save.  A save may break off at
\* any file, also over an older and longer session in the same directory.
ReportComesLast ==
  <<"session">> \in DOMAIN dir /\ dir[<<"session">>].whole =>
    \A f \in {<<"transcript">>, <<"app-state">>, <<"log">>, <<"events">>, <<"artifacts">>}
             \cup dir[<<"session">>].names :
      /\ f \in DOMAIN dir
      /\ dir[f].save >= dir[<<"session">>].save
      /\ dir[f].save = dir[<<"session">>].save => dir[f].whole

\* A step keeps what was logged, posted and reported, or is the one that makes
\* the session that setup describes; nothing else replaces a session, neither a
\* /start that fails nor one that waits.
SwitchIsWhole ==
  [][\/ /\ UNCHANGED backend
        /\ IsPrefix(chat.messages, chat'.messages)
        /\ IsPrefix(app.entries, app'.entries)
        /\ IsPrefix(packets, packets')
     \/ /\ InSetup /\ setup' = NoSetup
        /\ backend'.kind = setup.kind /\ backend'.call = station
        /\ setup.kind = "node" => backend'.peer = setup.peer
        /\ chat' = NewBackend /\ app' = NewAppModel /\ packets' = <<>>]_vars

\* docs/chat/README.md:164 of the keyboard: "`Ctrl-Q`, `/quit`, or `Ctrl-C`
\* exits."
QuitEnds == quitting ~> phase = "closed"
=============================================================================
