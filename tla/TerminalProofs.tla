--------------------------- MODULE TerminalProofs ---------------------------
(***************************************************************************)
(* What Terminal guarantees for any calls and texts, any number of         *)
(* commands and any faults.                                                *)
(***************************************************************************)
EXTENDS Terminal, SubsequenceProofs, SequenceTheorems, TLAPS

-----------------------------------------------------------------------------
(* The inductive invariant                                                 *)

Types ==
  /\ station \in Call
  /\ backend \in [kind: Kind, call: Call, peer: Call \cup {NoCall}]
  /\ chat \in Backend
  /\ app \in AppModel
  /\ packets \in Seq(Report)
  /\ setup \in Setup \cup {NoSetup}

\* Log and app model name the call of the session, in setup or not.
Own(m) == backend.call = (IF m.direction = "Outbound" THEN m.from ELSE m.to)
OwnSession ==
  /\ \A i \in DOMAIN chat.messages : Own(chat.messages[i])
  /\ \A i \in DOMAIN app.entries : app.entries[i].from = backend.call

\* Only setup holds another call for the next session, or waits for its peer.
SettingUp ==
  /\ ~InSetup => backend.call = station
  /\ phase = "listening" => InSetup

SessionInv == Types /\ OwnSession /\ SettingUp

\* No file is from a later save than the last.
Dated ==
  /\ saves \in Nat
  /\ \A f \in DOMAIN dir : dir[f].save \in 1..saves

SavedInv == Dated /\ ReportComesLast

IInv == SessionInv /\ SavedInv

-----------------------------------------------------------------------------
(* The session                                                             *)

\* The log c goes on where the log of the session ends, with its own messages.
LogGoesOn(c) ==
  /\ c \in Backend
  /\ IsPrefix(chat.messages, c.messages)
  /\ \A i \in DOMAIN c.messages :
       Own(c.messages[i])
       \/ (i \in DOMAIN chat.messages /\ c.messages[i] = chat.messages[i])

\* A message goes to its end.
LEMMA Pushed ==
  ASSUME chat \in Backend, NEW c, LogGoesOn(c), NEW d \in Direction, NEW from \in Call,
         NEW to \in Call, NEW text \in Text,
         backend.call = IF d = "Outbound" THEN from ELSE to
  PROVE  LogGoesOn(PushMessage(c, d, from, to, text))
<1> DEFINE m == [sequence |-> c.next, direction |-> d, from |-> from, to |-> to, text |-> text]
<1>1. /\ chat.messages \in Seq(Message) /\ c.messages \in Seq(Message)
      /\ c.next \in Nat /\ c.peer \in Call \cup {NoCall} /\ m \in Message
  BY DEF LogGoesOn, Backend, Message
<1>2. PushMessage(c, d, from, to, text)
        = [peer |-> c.peer, next |-> c.next + 1, messages |-> Append(c.messages, m)]
  BY DEF PushMessage
<1>3. Own(m)
  BY DEF Own
<1> HIDE DEF m
<1>4. /\ Append(c.messages, m) \in Seq(Message)
      /\ Len(Append(c.messages, m)) = Len(c.messages) + 1
      /\ \A i \in DOMAIN Append(c.messages, m) :
           Append(c.messages, m)[i] = m
           \/ (i \in DOMAIN c.messages /\ Append(c.messages, m)[i] = c.messages[i])
  BY <1>1
<1>5. IsPrefix(chat.messages, Append(c.messages, m))
  <2>1. Len(chat.messages) <= Len(c.messages)
        /\ SubSeq(chat.messages, 1, Len(chat.messages))
             = SubSeq(c.messages, 1, Len(chat.messages))
    BY DEF LogGoesOn, IsPrefix
  <2>2. SubSeq(Append(c.messages, m), 1, Len(chat.messages))
          = SubSeq(c.messages, 1, Len(chat.messages))
    BY <1>1, <2>1
  <2> QED BY <1>1, <1>4, <2>1, <2>2 DEF IsPrefix
<1>6. [peer |-> c.peer, next |-> c.next + 1, messages |-> Append(c.messages, m)] \in Backend
  BY <1>1, <1>4 DEF Backend
<1> QED BY <1>2, <1>3, <1>4, <1>5, <1>6 DEF LogGoesOn

\* An entry goes to the end of the app model.
LEMMA Posted ==
  ASSUME NEW a \in AppModel, NEW from \in Call, NEW to \in Call \cup {NoCall},
         NEW text \in Text
  PROVE  LET p == Recorded(a, from, to, text)
         IN  /\ p \in AppModel
             /\ IsPrefix(a.entries, p.entries)
             /\ \A i \in DOMAIN p.entries :
                  p.entries[i].from = from
                  \/ (i \in DOMAIN a.entries /\ p.entries[i] = a.entries[i])
<1> DEFINE e == [sequence |-> a.next, from |-> from, to |-> to, text |-> text]
<1>1. a.entries \in Seq(Entry) /\ a.next \in Nat /\ e \in Entry
  BY DEF AppModel, Entry
<1>2. Recorded(a, from, to, text) = [next |-> a.next + 1, entries |-> Append(a.entries, e)]
  BY DEF Recorded
<1>3. e.from = from
  OBVIOUS
<1> HIDE DEF e
<1>4. /\ Append(a.entries, e) \in Seq(Entry)
      /\ IsPrefix(a.entries, Append(a.entries, e))
      /\ \A i \in DOMAIN Append(a.entries, e) :
           Append(a.entries, e)[i] = e
           \/ (i \in DOMAIN a.entries /\ Append(a.entries, e)[i] = a.entries[i])
  BY <1>1 DEF IsPrefix
<1> QED BY <1>1, <1>2, <1>3, <1>4 DEF AppModel

\* What a step that stays in the session may do to it.
Continues ==
  /\ UNCHANGED backend
  /\ LogGoesOn(chat')
  /\ app' \in AppModel /\ IsPrefix(app.entries, app'.entries)
  /\ packets' \in Seq(Report) /\ IsPrefix(packets, packets')
  /\ \A i \in DOMAIN app'.entries :
       app'.entries[i].from = backend.call
       \/ (i \in DOMAIN app.entries /\ app'.entries[i] = app.entries[i])

\* Doing nothing to it is allowed.
LEMMA StaysSame ==
  ASSUME Types, UNCHANGED <<backend, chat, app, packets>>
  PROVE  Continues
BY DEF Types, Continues, LogGoesOn, Backend, AppModel, IsPrefix

\* What is typed and what the loopback answers are texts.
LEMMA Texts ==
  ASSUME NEW text \in Typed
  PROVE  text \in Text /\ Ack[text] \in Text
BY TerminalAssumption DEF AckText

\* A report goes to the end of the reports.
LEMMA Reporting ==
  ASSUME NEW reports \in Seq(Report), NEW direction \in Direction, NEW text \in Text,
         NEW ok \in BOOLEAN, chat.peer \in Call
  PROVE  /\ Reported(reports, direction, text, ok) \in Seq(Report)
         /\ \A s \in Seq(Report) :
              IsPrefix(s, reports) => IsPrefix(s, Reported(reports, direction, text, ok))
<1> DEFINE r == [sequence |-> Len(reports) + 1, direction |-> direction,
                 peer |-> chat.peer, text |-> text, ok |-> ok]
<1>1. r \in Report
  BY DEF Report
<1>2. Reported(reports, direction, text, ok) = Append(reports, r)
  BY DEF Reported
<1> HIDE DEF r
<1>3. Append(reports, r) \in Seq(Report)
  BY <1>1
<1>4. ASSUME NEW s \in Seq(Report), IsPrefix(s, reports)
      PROVE  IsPrefix(s, Append(reports, r))
  <2>1. Len(s) <= Len(reports) /\ Len(Append(reports, r)) = Len(reports) + 1
    BY <1>1, <1>4 DEF IsPrefix
  <2>2. SubSeq(Append(reports, r), 1, Len(s)) = SubSeq(reports, 1, Len(s))
    BY <1>1, <2>1
  <2> QED BY <1>4, <2>1, <2>2 DEF IsPrefix
<1> QED BY <1>2, <1>3, <1>4

\* Each command of an in-process session continues it.
LEMMA Chats ==
  ASSUME Types,
         \/ \E call \in Call : Connect(call)
         \/ Disconnect
         \/ \E text \in RxText, from \in Call : Receive(from, text)
         \/ \E text \in Typed :
              \/ \E to \in Call \cup {NoCall} : Post(to, text)
              \/ SendFake(text)
              \/ LoopbackAnswers(text) \/ LoopbackLoses(text) \/ LoopbackLosesAnswer(text)
         \/ PostRefused
  PROVE  Continues
<1>1. backend.call \in Call /\ (IsConnected(chat) => chat.peer \in Call)
  BY DEF Types, IsConnected, Backend
<1>2. /\ LogGoesOn(chat) /\ app \in AppModel /\ packets \in Seq(Report)
      /\ IsPrefix(app.entries, app.entries) /\ IsPrefix(packets, packets)
  BY DEF Types, LogGoesOn, IsPrefix, Backend, AppModel
<1>3. CASE \E call \in Call : Connect(call)
  BY <1>2, <1>3 DEF Connect, ChatCommand, ConnectTo, Continues, LogGoesOn, Backend
<1>4. CASE Disconnect
  BY <1>2, <1>4 DEF Disconnect, ChatCommand, Disconnected, Continues, LogGoesOn, Backend
<1>5. ASSUME NEW text \in RxText, NEW from \in Call, Receive(from, text)
      PROVE  Continues
  <2>1. text \in Text /\ "Inbound" \in Direction
    BY TerminalAssumption DEF Direction
  <2>2. LogGoesOn(PushMessage(chat, "Inbound", from, backend.call, text))
    BY <1>1, <1>2, <2>1, Pushed DEF Types
  <2> QED BY <1>2, <1>5, <2>2 DEF Receive, ReceivedText, ChatCommand, Continues
<1>6. ASSUME NEW text \in Typed, NEW to \in Call \cup {NoCall}, Post(to, text)
      PROVE  Continues
  <2>1. text \in Text
    BY Texts
  <2> DEFINE p == Recorded(app, backend.call, to, text)
  <2>2. /\ p \in AppModel /\ IsPrefix(app.entries, p.entries)
        /\ \A i \in DOMAIN p.entries :
             p.entries[i].from = backend.call
             \/ (i \in DOMAIN app.entries /\ p.entries[i] = app.entries[i])
    BY <1>1, <1>2, <2>1, Posted
  <2>3. app' = p /\ UNCHANGED <<backend, chat, packets>>
    BY <1>6 DEF Post, ChatCommand
  <2> HIDE DEF p
  <2> QED BY <1>2, <2>2, <2>3 DEF Continues
<1>7. CASE PostRefused
  BY <1>2, <1>7 DEF PostRefused, RecordRefused, ChatCommand, Continues, AppModel
<1>8. ASSUME NEW text \in Typed, IsConnected(chat)
      PROVE  LogGoesOn(Said(text)) /\ LogGoesOn(Answered(text))
  <2>1. /\ text \in Text /\ Ack[text] \in Text /\ chat.peer \in Call
        /\ {"Inbound", "Outbound"} \subseteq Direction
    BY <1>1, <1>8, Texts DEF Direction
  <2>2. LogGoesOn(Said(text))
    BY <1>1, <1>2, <2>1, Pushed DEF Said, SentText, Types
  <2>3. LogGoesOn(Answered(text))
    BY <1>1, <2>1, <2>2, Pushed DEF Answered, ReceivedText, Types
  <2> QED BY <2>2, <2>3
<1>9. ASSUME NEW text \in Typed, IsConnected(chat), NEW ok \in BOOLEAN
      PROVE  /\ Out(text, ok) \in Seq(Report) /\ IsPrefix(packets, Out(text, ok))
             /\ OutAndIn(text, ok) \in Seq(Report) /\ IsPrefix(packets, OutAndIn(text, ok))
  <2>1. /\ text \in Text /\ Ack[text] \in Text /\ chat.peer \in Call
        /\ {"Inbound", "Outbound"} \subseteq Direction
    BY <1>1, <1>9, Texts DEF Direction
  <2>2. \A o \in BOOLEAN : Out(text, o) \in Seq(Report) /\ IsPrefix(packets, Out(text, o))
    BY <1>2, <2>1, Reporting DEF Out
  <2>3. OutAndIn(text, ok) \in Seq(Report) /\ IsPrefix(packets, OutAndIn(text, ok))
    BY <1>2, <2>1, <2>2, Reporting DEF OutAndIn
  <2> QED BY <2>2, <2>3
<1>10. ASSUME NEW text \in Typed, SendFake(text)
       PROVE  Continues
  BY <1>2, <1>8, <1>10 DEF SendFake, Said, ChatCommand, Continues
<1>11. ASSUME NEW text \in Typed,
              LoopbackAnswers(text) \/ LoopbackLoses(text) \/ LoopbackLosesAnswer(text)
       PROVE  Continues
  <2>1. IsConnected(chat) /\ UNCHANGED <<backend, app>>
    BY <1>11 DEF LoopbackAnswers, LoopbackLoses, LoopbackLosesAnswer, LoopbackSends,
                 ChatCommand
  <2>2. /\ chat' \in {Said(text), Answered(text)}
        /\ packets' \in {packets, Out(text, FALSE), Out(text, TRUE),
                         OutAndIn(text, FALSE), OutAndIn(text, TRUE)}
    BY <1>11 DEF LoopbackAnswers, LoopbackLoses, LoopbackLosesAnswer
  <2>3. LogGoesOn(chat')
    BY <1>8, <2>1, <2>2
  <2>4. packets' \in Seq(Report) /\ IsPrefix(packets, packets')
    BY <1>2, <1>9, <2>1, <2>2
  <2> QED BY <1>2, <2>1, <2>3, <2>4 DEF Continues
<1> QED BY <1>3, <1>4, <1>5, <1>6, <1>7, <1>10, <1>11

-----------------------------------------------------------------------------
(* The kinds of steps                                                      *)

\* The session goes on, or nothing happens to it.
Proceeds ==
  /\ Continues
  /\ UNCHANGED <<station, setup>>
  /\ phase' = "listening" => InSetup

\* Only setup, or the call for the next session, changes.
SetsUp ==
  /\ UNCHANGED <<phase, backend, chat, app, packets>>
  /\ station' \in Call
  /\ setup' \in Setup

\* The next session begins.
Switches ==
  /\ InSetup
  /\ Switch
  /\ phase' = "reading"

\* There is no setup of kind "none".
LEMMA InSetupIsSetup ==
  ASSUME Types
  PROVE  /\ InSetup => setup \in Setup
         /\ NoSetup \notin Setup
         /\ Opened \in Setup
<1>1. NoSetup \notin Setup
  BY DEF NoSetup, Setup, Kind, InProcess
<1>2. InSetup => setup \in Setup
  BY DEF Types, InSetup
<1>3. ~InSetup => [kind |-> backend.kind, peer |-> NoCall, mode |-> "unset"] \in Setup
  BY DEF Types, Setup, Mode
<1> QED BY <1>1, <1>2, <1>3 DEF Opened

\* The commands that prepare the next session.
LEMMA SettingUpSteps ==
  ASSUME Types,
         \/ OpenSetup
         \/ \E call \in Call : SetStation(call) \/ SetPeer(call)
         \/ \E kind \in Kind : SetBackend(kind)
         \/ \E mode \in Mode \ {"unset"} : SetMode(mode)
         \/ ToggleLink
  PROVE  SetsUp
<1>1. /\ UNCHANGED <<phase, backend, chat, app, packets>>
      /\ station' \in Call
  BY DEF OpenSetup, SetStation, SetPeer, SetBackend, SetMode, ToggleLink, SetupCommand, Types
<1>2. /\ "node" \in Kind /\ "listen" \in Mode
      /\ Opened \in Setup /\ (InSetup => setup \in Setup)
  BY InSetupIsSetup DEF Kind, Mode
<1>3. setup' \in Setup
  BY <1>2 DEF OpenSetup, SetStation, SetPeer, SetBackend, SetMode, ToggleLink, Setup
<1> QED BY <1>1, <1>3 DEF SetsUp

\* Every step is of one of these kinds.
LEMMA StepKinds ==
  ASSUME SessionInv, [Next]_vars
  PROVE  Proceeds \/ SetsUp \/ Switches
<1>1. Types /\ (phase = "listening" => InSetup)
  BY DEF SessionInv, SettingUp
<1>2. ASSUME UNCHANGED <<station, backend, chat, app, packets, setup>>,
             phase' = "listening" => phase = "listening" \/ InSetup
      PROVE  Proceeds
  BY <1>1, <1>2, StaysSame DEF Proceeds
<1>3. CASE \/ OpenSetup
           \/ \E call \in Call : SetStation(call) \/ SetPeer(call)
           \/ \E kind \in Kind : SetBackend(kind)
           \/ \E mode \in Mode \ {"unset"} : SetMode(mode)
           \/ ToggleLink
  BY <1>1, <1>3, SettingUpSteps
<1>4. CASE \/ \E call \in Call : Connect(call)
           \/ Disconnect
           \/ \E text \in RxText, from \in Call : Receive(from, text)
           \/ \E text \in Typed :
                \/ \E to \in Call \cup {NoCall} : Post(to, text)
                \/ SendFake(text)
                \/ LoopbackAnswers(text) \/ LoopbackLoses(text) \/ LoopbackLosesAnswer(text)
           \/ PostRefused
  <2>1. Continues
    BY <1>1, <1>4, Chats
  <2>2. UNCHANGED <<phase, station, setup>>
    BY <1>4 DEF Connect, Disconnect, Receive, Post, SendFake, LoopbackAnswers, LoopbackLoses,
                LoopbackLosesAnswer, LoopbackSends, PostRefused, ChatCommand
  <2> QED BY <1>1, <2>1, <2>2 DEF Proceeds
<1>5. CASE Start \/ Accepted
  <2>1. Switch /\ phase' = "reading"
    BY <1>5 DEF Start, StartCommand, Command, Accepted
  <2>2. InSetup
    BY <1>1, <1>5 DEF Start, StartCommand, Accepted
  <2> QED BY <2>1, <2>2 DEF Switches
<1>6. CASE StartFails \/ StartListens \/ AcceptFails
  BY <1>1, <1>2, <1>6 DEF StartFails, StartListens, StartCommand, AcceptFails, Session
<1>7. CASE Save \/ SaveBreaksOff
  BY <1>2, <1>7 DEF Save, SaveBreaksOff, SaveCommand, Session
<1>8. CASE PressQuit \/ Quit \/ UNCHANGED vars
  BY <1>2, <1>8 DEF PressQuit, Quit, Session, vars
<1> QED BY <1>3, <1>4, <1>5, <1>6, <1>7, <1>8 DEF Next

\* Each of them keeps the invariant of the session.
LEMMA SessionKept ==
  ASSUME SessionInv, [Next]_vars
  PROVE  SessionInv'
<1>1. /\ Types /\ OwnSession
      /\ ~InSetup => backend.call = station
      /\ phase = "listening" => InSetup
  BY DEF SessionInv, SettingUp
<1>2. CASE Proceeds
  <2>1. Types'
    BY <1>1, <1>2 DEF Types, Proceeds, Continues, LogGoesOn
  <2>2. OwnSession'
    BY <1>1, <1>2 DEF OwnSession, Proceeds, Continues, LogGoesOn, Own
  <2>3. SettingUp'
    BY <1>1, <1>2 DEF SettingUp, Proceeds, Continues, InSetup
  <2> QED BY <2>1, <2>2, <2>3 DEF SessionInv
<1>3. CASE SetsUp
  <2>1. Types' /\ OwnSession'
    BY <1>1, <1>3 DEF Types, OwnSession, Own, SetsUp
  <2>2. InSetup'
    BY <1>1, <1>3, InSetupIsSetup DEF SetsUp, InSetup
  <2> QED BY <2>1, <2>2 DEF SessionInv, SettingUp
<1>4. CASE Switches
  <2>1. /\ chat' = NewBackend /\ app' = NewAppModel /\ packets' = <<>>
        /\ setup' = NoSetup /\ phase' = "reading"
        /\ station' = station /\ backend'.call = station
    BY <1>4 DEF Switches, Switch
  <2>2. backend' \in [kind: Kind, call: Call, peer: Call \cup {NoCall}]
    BY <1>1, <1>4, InSetupIsSetup DEF Switches, Switch, Types, Setup
  <2>3. NewBackend \in Backend /\ NewAppModel \in AppModel
    BY DEF NewBackend, Backend, NewAppModel, AppModel
  <2>4. Types'
    BY <1>1, <2>1, <2>2, <2>3 DEF Types
  <2>5. OwnSession'
    BY <2>1 DEF OwnSession, NewBackend, NewAppModel
  <2> QED BY <2>1, <2>4, <2>5 DEF SessionInv, SettingUp, InSetup
<1> QED BY <1>2, <1>3, <1>4, StepKinds

-----------------------------------------------------------------------------
(* The saved session                                                       *)

Needed == {<<"transcript">>, <<"app-state">>, <<"log">>, <<"events">>, <<"artifacts">>}

\* A sequence put together from two parts, or from three.
LEMMA TwoParts ==
  ASSUME NEW S, NEW a \in Seq(S), NEW b \in Seq(S)
  PROVE  /\ a \o b \in Seq(S)
         /\ Len(a \o b) = Len(a) + Len(b)
         /\ \A i \in 1..Len(a) : (a \o b)[i] = a[i]
         /\ \A i \in 1..Len(b) : (a \o b)[Len(a) + i] = b[i]
OBVIOUS

Joined(S, a, p, b, c) ==
  /\ c \in Seq(S)
  /\ Len(c) = Len(a) + Len(p) + Len(b)
  /\ \A i \in 1..Len(a) : c[i] = a[i]
  /\ \A i \in 1..Len(p) : c[Len(a) + i] = p[i]
  /\ \A i \in 1..Len(b) : c[Len(a) + Len(p) + i] = b[i]

LEMMA ThreeParts ==
  ASSUME NEW S, NEW a \in Seq(S), NEW p \in Seq(S), NEW b \in Seq(S),
         NEW c, c = a \o p \o b
  PROVE  Joined(S, a, p, b, c)
<1>0. PICK q \in Seq(S) : q = a \o p
  BY TwoParts
<1>1. /\ Len(q) = Len(a) + Len(p)
      /\ \A i \in 1..Len(a) : q[i] = a[i]
      /\ \A i \in 1..Len(p) : q[Len(a) + i] = p[i]
  BY <1>0, TwoParts
<1>2. /\ q \o b \in Seq(S)
      /\ Len(q \o b) = Len(q) + Len(b)
      /\ \A i \in 1..Len(q) : (q \o b)[i] = q[i]
      /\ \A i \in 1..Len(b) : (q \o b)[Len(q) + i] = b[i]
  BY TwoParts
<1>3. /\ \A i \in 1..Len(a) : (q \o b)[i] = a[i]
      /\ \A i \in 1..Len(p) : (q \o b)[Len(a) + i] = p[i]
  <2>1. Len(a) \in Nat /\ Len(p) \in Nat
    OBVIOUS
  <2>2. /\ \A i \in 1..Len(a) : i \in 1..Len(q)
        /\ \A i \in 1..Len(p) : Len(a) + i \in 1..Len(q)
    BY <1>1, <2>1
  <2>3. \A i \in 1..Len(a) : (q \o b)[i] = a[i]
    BY <1>1, <1>2, <2>2
  <2>4. \A i \in 1..Len(p) : (q \o b)[Len(a) + i] = p[i]
    BY <1>1, <1>2, <2>2
  <2> QED BY <2>3, <2>4
<1> QED BY <1>0, <1>1, <1>2, <1>3 DEF Joined

\* The report is the last file, and only that; the files it is about and the
\* packet files are before it.
LEMMA FilesEndInReport ==
  ASSUME packets \in Seq(Report)
  PROVE  /\ Len(Files) \in Nat \ {0}
         /\ DOMAIN Files = 1..Len(Files)
         /\ Files[Len(Files)] = <<"session">>
         /\ \A i \in 1..(Len(Files) - 1) : Files[i] # <<"session">>
         /\ Needed \cup ToSet(PacketFiles) \subseteq ToSet(Files)
<1>a. PICK A : A = <<<<"transcript">>, <<"app-state">>, <<"log">>, <<"events">>>>
  OBVIOUS
<1>b. PICK B : B = <<<<"artifacts">>, <<"session">>>>
  OBVIOUS
<1>p. PICK P : P = {PacketFile(r) : r \in Report}
  OBVIOUS
<1>s. PICK S : S = P \cup Needed \cup {<<"session">>}
  OBVIOUS
<1>f. PICK F : F = PacketFiles
  OBVIOUS
<1>n. PICK n : n = Len(F)
  OBVIOUS
<1>1. A \in Seq(S) /\ Len(A) = 4 /\ B \in Seq(S) /\ Len(B) = 2
  BY <1>a, <1>b, <1>s DEF Needed
<1>2. F \in Seq(P)
  BY <1>p, <1>f DEF PacketFiles
<1>3. <<"session">> \notin P
  BY <1>p DEF PacketFile
<1>4. /\ A[1] # <<"session">> /\ A[2] # <<"session">>
      /\ A[3] # <<"session">> /\ A[4] # <<"session">>
      /\ B[1] # <<"session">> /\ B[2] = <<"session">>
      /\ Needed = {A[1], A[2], A[3], A[4], B[1]}
  BY <1>a, <1>b DEF Needed
<1>5. Files = A \o F \o B
  BY <1>a, <1>b, <1>f DEF Files
<1>6. /\ F \in Seq(S) /\ n \in Nat /\ DOMAIN F = 1..n
      /\ \A i \in 1..n : F[i] # <<"session">>
  BY <1>2, <1>3, <1>s, <1>n
<1>7. /\ Files \in Seq(S)
      /\ Len(Files) = 4 + n + 2
      /\ \A i \in 1..4 : Files[i] = A[i]
      /\ \A i \in 1..n : Files[4 + i] = F[i]
      /\ \A i \in 1..2 : Files[4 + n + i] = B[i]
  <2>1. Joined(S, A, F, B, Files)
    BY <1>1, <1>5, <1>6, ThreeParts
  <2> QED BY <1>1, <1>n, <2>1 DEF Joined
<1>8. DOMAIN Files = 1..Len(Files) /\ Len(Files) \in Nat \ {0}
  BY <1>6, <1>7
<1>9. /\ Files[1] = A[1] /\ Files[2] = A[2] /\ Files[3] = A[3] /\ Files[4] = A[4]
      /\ Files[5 + n] = B[1] /\ Files[6 + n] = B[2]
  <2>1. Files[4 + n + 1] = B[1] /\ Files[4 + n + 2] = B[2]
    BY <1>7
  <2>2. 4 + n + 1 = 5 + n /\ 4 + n + 2 = 6 + n
    BY <1>6
  <2> QED BY <1>7, <2>1, <2>2
<1>10. ASSUME NEW i \in 1..(Len(Files) - 1)
       PROVE  Files[i] # <<"session">>
  <2>1. CASE i \in {1, 2, 3, 4}
    BY <1>4, <1>9, <2>1
  <2>2. CASE i = 5 + n
    BY <1>4, <1>9, <2>2
  <2>3. CASE i - 4 \in 1..n
    <3>1. i = 4 + (i - 4)
      OBVIOUS
    <3>2. Files[4 + (i - 4)] = F[i - 4]
      BY <1>7, <2>3
    <3> QED BY <1>6, <2>3, <3>1, <3>2
  <2> QED BY <1>6, <1>7, <2>1, <2>2, <2>3
<1>11. Needed \subseteq ToSet(Files)
  <2>1. {1, 2, 3, 4, 5 + n} \subseteq DOMAIN Files
    BY <1>6, <1>7, <1>8
  <2> QED BY <1>4, <1>9, <2>1 DEF ToSet
<1>12. ToSet(F) \subseteq ToSet(Files)
  <2>1. \A i \in 1..n : 4 + i \in DOMAIN Files /\ Files[4 + i] = F[i]
    BY <1>6, <1>7, <1>8
  <2> QED BY <1>6, <2>1 DEF ToSet
<1>13. Files[Len(Files)] = <<"session">>
  BY <1>4, <1>6, <1>7, <1>9
<1> QED BY <1>8, <1>f, <1>10, <1>11, <1>12, <1>13

\* What is in the directory after n files and perhaps a half one.
WrittenNow(r) == r.save = saves + 1 /\ r.names = ToSet(PacketFiles)

Holds(d, n, half) ==
  /\ DOMAIN dir \subseteq DOMAIN d
  /\ \A f \in DOMAIN d :
       \/ f \in half /\ WrittenNow(d[f]) /\ d[f].whole = FALSE
       \/ (\E i \in 1..n : f = Files[i]) /\ WrittenNow(d[f]) /\ d[f].whole = TRUE
       \/ f \in DOMAIN dir /\ d[f] = dir[f]
  /\ \A i \in 1..n :
       Files[i] \notin half =>
         /\ Files[i] \in DOMAIN d
         /\ WrittenNow(d[Files[i]]) /\ d[Files[i]].whole = TRUE

LEMMA WrittenFiles ==
  ASSUME packets \in Seq(Report), NEW n \in 0..Len(Files), NEW half
  PROVE  Holds(Written(n, half), n, half)
<1> DEFINE done == ToSet(SubSeq(Files, 1, n))
           s == Files
<1>1. Len(s) \in Nat /\ n \in 0..Len(s)
  BY FilesEndInReport
<1>2. done = {s[i] : i \in 1..n}
  <2> HIDE DEF s
  <2>1. /\ DOMAIN SubSeq(s, 1, n) = 1..n
        /\ \A i \in 1..n : SubSeq(s, 1, n)[i] = s[i]
    BY <1>1
  <2> QED BY <2>1 DEF ToSet, s
<1>3. Written(n, half)
        = [f \in DOMAIN dir \cup done \cup half |->
             IF f \in half THEN File(FALSE) ELSE IF f \in done THEN File(TRUE) ELSE dir[f]]
  BY DEF Written
<1> HIDE DEF done
<1>4. WrittenNow(File(TRUE)) /\ WrittenNow(File(FALSE))
      /\ File(TRUE).whole = TRUE /\ File(FALSE).whole = FALSE
  BY DEF WrittenNow, File
<1> QED BY <1>2, <1>3, <1>4 DEF Holds

\* A save keeps the invariant of the directory, wherever it breaks off.
LEMMA SavedKept ==
  ASSUME SessionInv, SavedInv, [Next]_vars
  PROVE  SavedInv'
<1> DEFINE report == <<"session">>
<1>1. /\ packets \in Seq(Report) /\ saves \in Nat
      /\ \A f \in DOMAIN dir : dir[f].save \in 1..saves
  BY DEF SessionInv, Types, SavedInv, Dated
<1>2. /\ Len(Files) \in Nat \ {0}
      /\ Files[Len(Files)] = report
      /\ \A i \in 1..(Len(Files) - 1) : Files[i] # report
      /\ Needed \cup ToSet(PacketFiles) \subseteq ToSet(Files)
      /\ ToSet(Files) = {Files[i] : i \in 1..Len(Files)}
  BY <1>1, FilesEndInReport DEF ToSet
<1>4. ASSUME NEW n \in 0..Len(Files), NEW half, dir' = Written(n, half)
      PROVE  Holds(dir', n, half)
  BY <1>1, <1>4, WrittenFiles
<1>d. ASSUME saves' = saves + 1, NEW n, NEW half, Holds(dir', n, half)
      PROVE  Dated'
  <2>1. \A f \in DOMAIN dir' :
          dir'[f].save = saves + 1 \/ (f \in DOMAIN dir /\ dir'[f] = dir[f])
    BY <1>d DEF Holds, WrittenNow
  <2>2. \A f \in DOMAIN dir' : dir'[f].save \in 1..(saves + 1)
    BY <1>1, <2>1
  <2> QED BY <1>1, <1>d, <2>2 DEF Dated
<1>5. CASE Save
  <2>1. saves' = saves + 1 /\ Holds(dir', Len(Files), {})
    BY <1>2, <1>4, <1>5 DEF Save, SaveCommand
  <2>2. \A f \in ToSet(Files) :
          f \in DOMAIN dir' /\ WrittenNow(dir'[f]) /\ dir'[f].whole = TRUE
    BY <1>2, <2>1 DEF Holds
  <2>3. report \in ToSet(Files)
    BY <1>2
  <2>4. dir'[report].save = saves + 1 /\ dir'[report].names = ToSet(PacketFiles)
    BY <2>2, <2>3 DEF WrittenNow
  <2>5. \A f \in Needed \cup ToSet(PacketFiles) :
          f \in DOMAIN dir' /\ dir'[f].save = saves + 1 /\ dir'[f].whole = TRUE
    BY <1>2, <2>2 DEF WrittenNow
  <2>6. ReportComesLast'
    BY <1>1, <2>4, <2>5 DEF ReportComesLast, Needed
  <2> QED BY <1>d, <2>1, <2>6 DEF SavedInv
<1>6. CASE SaveBreaksOff
  <2>0. PICK n \in 1..Len(Files) :
          \E half \in {{}, {Files[n]}} : dir' = Written(n - 1, half)
    BY <1>6 DEF SaveBreaksOff
  <2>1. PICK half : dir' = Written(n - 1, half)
    BY <2>0
  <2>2. n - 1 \in 0..Len(Files)
    BY <1>2
  <2>h. Holds(dir', n - 1, half)
    BY <1>4, <2>1, <2>2
  <2>3. /\ DOMAIN dir \subseteq DOMAIN dir'
        /\ \A f \in DOMAIN dir' :
             \/ f \in half /\ dir'[f].save = saves + 1 /\ dir'[f].whole = FALSE
             \/ (\E i \in 1..(n - 1) : f = Files[i]) /\ dir'[f].save = saves + 1
             \/ f \in DOMAIN dir /\ dir'[f] = dir[f]
    BY <2>h DEF Holds, WrittenNow
  <2>4. ASSUME report \in DOMAIN dir', dir'[report].whole
        PROVE  report \in DOMAIN dir /\ dir'[report] = dir[report]
    <3>1. \A i \in 1..(n - 1) : Files[i] # report
      BY <1>2
    <3> QED BY <2>3, <2>4, <3>1
  <2>5. \A f \in DOMAIN dir :
          dir'[f] = dir[f] \/ dir'[f].save = saves + 1
    BY <2>3
  <2>6. ASSUME report \in DOMAIN dir', dir'[report].whole,
               NEW f \in Needed \cup dir'[report].names
        PROVE  /\ f \in DOMAIN dir'
               /\ dir'[f].save >= dir'[report].save
               /\ dir'[f].save = dir'[report].save => dir'[f].whole
    <3>1. /\ report \in DOMAIN dir /\ dir'[report] = dir[report]
          /\ f \in Needed \cup dir[report].names
      BY <2>4, <2>6
    <3>2. /\ f \in DOMAIN dir /\ dir[f].save >= dir[report].save
          /\ dir[f].save = dir[report].save => dir[f].whole
      BY <2>6, <3>1 DEF SavedInv, ReportComesLast, Needed
    <3> QED BY <1>1, <2>3, <2>5, <3>1, <3>2
  <2>7. ReportComesLast'
    BY <2>6 DEF ReportComesLast, Needed
  <2>8. saves' = saves + 1
    BY <1>6 DEF SaveBreaksOff, SaveCommand
  <2> QED BY <1>d, <2>h, <2>7, <2>8 DEF SavedInv
<1>7. CASE UNCHANGED <<dir, saves>>
  BY <1>7 DEF SavedInv, Dated, ReportComesLast
<1>8. Save \/ SaveBreaksOff \/ UNCHANGED <<dir, saves>>
  BY DEF Next, vars, OpenSetup, SetStation, SetPeer, SetBackend, SetMode, ToggleLink,
         SetupCommand, Start, StartFails, StartListens, StartCommand, Accepted, AcceptFails,
         Connect, Disconnect, Receive, Post, PostRefused, SendFake, LoopbackAnswers,
         LoopbackLoses, LoopbackLosesAnswer, LoopbackSends, ChatCommand, PressQuit, Quit
<1> QED BY <1>5, <1>6, <1>7, <1>8

-----------------------------------------------------------------------------
(* The other types                                                         *)

\* Every file of the directory is whole or not, and names packet files only.
Shelved ==
  \A f \in DOMAIN dir :
    dir[f].whole \in BOOLEAN /\ \A wav \in dir[f].names : wav[1] = "packet"

Counted ==
  /\ phase \in {"reading", "listening", "closed"}
  /\ quitting \in BOOLEAN
  /\ used \in 0..MaxCommands /\ faults \in 0..MaxFaults

TypeInv == IInv /\ Shelved /\ Counted

\* A save puts files of that kind into it, also one that breaks off.
LEMMA ShelvedKept ==
  ASSUME SessionInv, Shelved, [Next]_vars
  PROVE  Shelved'
<1>1. packets \in Seq(Report)
  BY DEF SessionInv, Types
<1>2. \A wav \in ToSet(PacketFiles) : wav[1] = "packet"
  <2>1. \A i \in DOMAIN packets : PacketFile(packets[i])[1] = "packet"
    BY DEF PacketFile
  <2>2. CASE backend.kind = "wav"
    BY <2>1, <2>2 DEF PacketFiles, ToSet
  <2>3. CASE backend.kind # "wav"
    BY <2>3 DEF PacketFiles, ToSet
  <2> QED BY <2>2, <2>3
<1>3. ASSUME NEW n \in 0..Len(Files), NEW half, dir' = Written(n, half) PROVE Shelved'
  <2>1. Holds(dir', n, half)
    BY <1>1, <1>3, WrittenFiles
  <2> SUFFICES ASSUME NEW f \in DOMAIN dir'
               PROVE  dir'[f].whole \in BOOLEAN /\ \A wav \in dir'[f].names : wav[1] = "packet"
    BY DEF Shelved
  <2>2. \/ WrittenNow(dir'[f]) /\ dir'[f].whole \in BOOLEAN
        \/ f \in DOMAIN dir /\ dir'[f] = dir[f]
    BY <2>1 DEF Holds
  <2> QED BY <1>2, <2>2 DEF WrittenNow, Shelved
<1>4. Len(Files) \in Nat \ {0}
  BY <1>1, FilesEndInReport
<1>5. CASE Save
  <2>1. dir' = Written(Len(Files), {}) /\ Len(Files) \in 0..Len(Files)
    BY <1>4, <1>5 DEF Save
  <2> QED BY <1>3, <2>1
<1>6. CASE SaveBreaksOff
  <2>1. PICK n \in 1..Len(Files) : \E half \in {{}, {Files[n]}} : dir' = Written(n - 1, half)
    BY <1>6 DEF SaveBreaksOff
  <2>2. n - 1 \in 0..Len(Files)
    BY <1>4
  <2> QED BY <1>3, <2>1, <2>2
<1>7. CASE UNCHANGED dir
  BY <1>7 DEF Shelved
<1>8. Save \/ SaveBreaksOff \/ UNCHANGED dir
  BY DEF Next, vars, OpenSetup, SetStation, SetPeer, SetBackend, SetMode, ToggleLink,
         SetupCommand, Start, StartFails, StartListens, StartCommand, Accepted, AcceptFails,
         Connect, Disconnect, Receive, Post, PostRefused, SendFake, LoopbackAnswers,
         LoopbackLoses, LoopbackLosesAnswer, LoopbackSends, ChatCommand, PressQuit, Quit
<1> QED BY <1>5, <1>6, <1>7, <1>8

\* A step takes a command or a fault at a time, up to the bounds.
LEMMA CountedKept ==
  ASSUME Counted, [Next]_vars
  PROVE  Counted'
<1>1. /\ used \in 0..MaxCommands /\ faults \in 0..MaxFaults
      /\ MaxCommands \in Nat /\ MaxFaults \in Nat
  BY TerminalAssumption DEF Counted
<1>2. used < MaxCommands => used + 1 \in 0..MaxCommands
  BY <1>1
<1>3. faults < MaxFaults => faults + 1 \in 0..MaxFaults
  BY <1>1
<1>4. used' = used \/ (used < MaxCommands /\ used' = used + 1)
  BY DEF Next, vars, OpenSetup, SetStation, SetPeer, SetBackend, SetMode, ToggleLink, Command,
         SetupCommand, Start, StartFails, StartListens, StartCommand, Accepted, AcceptFails,
         Connect, Disconnect, Receive, Post, PostRefused, SendFake, LoopbackAnswers,
         LoopbackLoses, LoopbackLosesAnswer, LoopbackSends, ChatCommand, PressQuit, Quit,
         Save, SaveBreaksOff, SaveCommand
<1>5. faults' = faults \/ (faults < MaxFaults /\ faults' = faults + 1)
  BY DEF Next, vars, OpenSetup, SetStation, SetPeer, SetBackend, SetMode, ToggleLink, Fault,
         SetupCommand, Start, StartFails, StartListens, StartCommand, Accepted, AcceptFails,
         Connect, Disconnect, Receive, Post, PostRefused, SendFake, LoopbackAnswers,
         LoopbackLoses, LoopbackLosesAnswer, LoopbackSends, ChatCommand, PressQuit, Quit,
         Save, SaveBreaksOff, SaveCommand
<1>6. quitting' = quitting \/ quitting' = TRUE
  BY DEF Next, vars, OpenSetup, SetStation, SetPeer, SetBackend, SetMode, ToggleLink, Command,
         SetupCommand, Start, StartFails, StartListens, StartCommand, Accepted, AcceptFails,
         Connect, Disconnect, Receive, Post, PostRefused, SendFake, LoopbackAnswers,
         LoopbackLoses, LoopbackLosesAnswer, LoopbackSends, ChatCommand, PressQuit, Quit,
         Save, SaveBreaksOff, SaveCommand
<1>7. phase' = phase \/ phase' \in {"reading", "listening", "closed"}
  BY DEF Next, vars, OpenSetup, SetStation, SetPeer, SetBackend, SetMode, ToggleLink, Command,
         SetupCommand, Start, StartFails, StartListens, StartCommand, Accepted, AcceptFails,
         Connect, Disconnect, Receive, Post, PostRefused, SendFake, LoopbackAnswers,
         LoopbackLoses, LoopbackLosesAnswer, LoopbackSends, ChatCommand, PressQuit, Quit,
         Save, SaveBreaksOff, SaveCommand
<1>8. used' \in 0..MaxCommands /\ faults' \in 0..MaxFaults
  BY <1>1, <1>2, <1>3, <1>4, <1>5
<1>9. quitting' \in BOOLEAN
  BY <1>6 DEF Counted
<1> QED BY <1>7, <1>8, <1>9 DEF Counted

-----------------------------------------------------------------------------
(* Log and packet reports, as pairs of the other station and the text      *)

With(direction, m) == IF direction = "Inbound" THEN m.from ELSE m.to

LogPart(log, direction, texts) ==
  Picked(log, {i \in DOMAIN log : log[i].direction = direction /\ log[i].text \in texts})
LogPairs(log, direction, texts) ==
  [i \in DOMAIN LogPart(log, direction, texts) |->
    <<With(direction, LogPart(log, direction, texts)[i]), LogPart(log, direction, texts)[i].text>>]

ReportPart(ps, direction, oks) ==
  Picked(ps, {i \in DOMAIN ps : ps[i].direction = direction /\ ps[i].ok \in oks})
ReportPairs(ps, direction, oks) ==
  [i \in DOMAIN ReportPart(ps, direction, oks) |->
    <<ReportPart(ps, direction, oks)[i].peer, ReportPart(ps, direction, oks)[i].text>>]

Pairs == Call \X Text

\* Appending and taking the pair of each commute.
LEMMA EachMore ==
  ASSUME NEW S, NEW p \in Seq(S), NEW e \in S, NEW T, NEW f \in [S -> T]
  PROVE  [i \in DOMAIN Append(p, e) |-> f[Append(p, e)[i]]]
           = Append([i \in DOMAIN p |-> f[p[i]]], f[e])
OBVIOUS

\* A message more.
LEMMA LogMore ==
  ASSUME NEW log \in Seq(Message), NEW m \in Message, NEW d \in Direction, NEW T
  PROVE  /\ LogPairs(log, d, T) \in Seq(Pairs)
         /\ LogPairs(Append(log, m), d, T) =
              IF m.direction = d /\ m.text \in T
              THEN Append(LogPairs(log, d, T), <<With(d, m), m.text>>) ELSE LogPairs(log, d, T)
<1> DEFINE t == Append(log, m)
           D == {i \in DOMAIN log : log[i].direction = d /\ log[i].text \in T}
           E == {i \in DOMAIN t : t[i].direction = d /\ t[i].text \in T}
           p == LogPart(log, d, T)
           q == LogPart(t, d, T)
<1>1. /\ DOMAIN log = 1..Len(log) /\ DOMAIN t = 1..(Len(log) + 1) /\ Len(log) \in Nat
      /\ \A i \in 1..Len(log) : t[i] = log[i]
      /\ t[Len(log) + 1] = m
  BY AppendProperties, LenProperties
<1>2. \A n \in 1..Len(log) : n \in D <=> n \in E
  BY <1>1
<1>3. Len(log) + 1 \in E <=> m.direction = d /\ m.text \in T
  BY <1>1
<1>4. p = Picked(log, D) /\ q = Picked(t, E)
  BY DEF LogPart
<1>5. Picked(log, D) \in Seq(Message)
  <2> HIDE DEF D
  <2> QED BY PickedType
<1>6. Picked(Append(log, m), E)
        = IF Len(log) + 1 \in E THEN Append(Picked(log, D), m) ELSE Picked(log, D)
  <2> HIDE DEF D, E
  <2> QED BY <1>2, PickedMore
<1>7. /\ LogPairs(log, d, T) = [i \in DOMAIN p |-> <<With(d, p[i]), p[i].text>>]
      /\ LogPairs(t, d, T) = [i \in DOMAIN q |-> <<With(d, q[i]), q[i].text>>]
  BY DEF LogPairs
<1>8. p \in Seq(Message) /\ q = IF m.direction = d /\ m.text \in T THEN Append(p, m) ELSE p
  <2> HIDE DEF D, E, p, q
  <2> QED BY <1>3, <1>4, <1>5, <1>6
<1>9. \A x \in Message : <<With(d, x), x.text>> \in Pairs
  BY DEF Message, With, Pairs
<1> HIDE DEF D, E, p, q, t
<1>10. [i \in DOMAIN p |-> <<With(d, p[i]), p[i].text>>] \in Seq(Pairs)
  BY <1>8, <1>9
<1>11. [i \in DOMAIN Append(p, m) |-> <<With(d, Append(p, m)[i]), Append(p, m)[i].text>>]
         = Append([i \in DOMAIN p |-> <<With(d, p[i]), p[i].text>>], <<With(d, m), m.text>>)
  <2> DEFINE f == [x \in Message |-> <<With(d, x), x.text>>]
  <2>1. f \in [Message -> Pairs]
    BY <1>9
  <2>2. \A x \in Message : f[x] = <<With(d, x), x.text>>
    OBVIOUS
  <2> HIDE DEF f
  <2>3. [i \in DOMAIN Append(p, m) |-> f[Append(p, m)[i]]]
          = Append([i \in DOMAIN p |-> f[p[i]]], f[m])
    BY <1>8, <2>1, EachMore
  <2>4. /\ \A i \in DOMAIN p : p[i] \in Message
        /\ \A i \in DOMAIN Append(p, m) : Append(p, m)[i] \in Message
    BY <1>8
  <2> QED BY <2>2, <2>3, <2>4
<1>12. LogPairs(t, d, T) = IF m.direction = d /\ m.text \in T
                           THEN Append(LogPairs(log, d, T), <<With(d, m), m.text>>)
                           ELSE LogPairs(log, d, T)
  BY <1>7, <1>8, <1>11
<1> QED BY <1>7, <1>10, <1>12 DEF t

\* A report more.
LEMMA ReportMore ==
  ASSUME NEW ps \in Seq(Report), NEW r \in Report, NEW d \in Direction, NEW O
  PROVE  /\ ReportPairs(ps, d, O) \in Seq(Pairs)
         /\ ReportPairs(Append(ps, r), d, O) =
              IF r.direction = d /\ r.ok \in O
              THEN Append(ReportPairs(ps, d, O), <<r.peer, r.text>>) ELSE ReportPairs(ps, d, O)
<1> DEFINE t == Append(ps, r)
           D == {i \in DOMAIN ps : ps[i].direction = d /\ ps[i].ok \in O}
           E == {i \in DOMAIN t : t[i].direction = d /\ t[i].ok \in O}
           p == ReportPart(ps, d, O)
           q == ReportPart(t, d, O)
<1>1. /\ DOMAIN ps = 1..Len(ps) /\ DOMAIN t = 1..(Len(ps) + 1) /\ Len(ps) \in Nat
      /\ \A i \in 1..Len(ps) : t[i] = ps[i]
      /\ t[Len(ps) + 1] = r
  BY AppendProperties, LenProperties
<1>2. \A n \in 1..Len(ps) : n \in D <=> n \in E
  BY <1>1
<1>3. Len(ps) + 1 \in E <=> r.direction = d /\ r.ok \in O
  BY <1>1
<1>4. p = Picked(ps, D) /\ q = Picked(t, E)
  BY DEF ReportPart
<1>5. Picked(ps, D) \in Seq(Report)
  <2> HIDE DEF D
  <2> QED BY PickedType
<1>6. Picked(Append(ps, r), E)
        = IF Len(ps) + 1 \in E THEN Append(Picked(ps, D), r) ELSE Picked(ps, D)
  <2> HIDE DEF D, E
  <2> QED BY <1>2, PickedMore
<1>7. /\ ReportPairs(ps, d, O) = [i \in DOMAIN p |-> <<p[i].peer, p[i].text>>]
      /\ ReportPairs(t, d, O) = [i \in DOMAIN q |-> <<q[i].peer, q[i].text>>]
  BY DEF ReportPairs
<1>8. p \in Seq(Report) /\ q = IF r.direction = d /\ r.ok \in O THEN Append(p, r) ELSE p
  <2> HIDE DEF D, E, p, q
  <2> QED BY <1>3, <1>4, <1>5, <1>6
<1>9. \A x \in Report : <<x.peer, x.text>> \in Pairs
  BY DEF Report, Pairs
<1> HIDE DEF D, E, p, q, t
<1>10. [i \in DOMAIN p |-> <<p[i].peer, p[i].text>>] \in Seq(Pairs)
  BY <1>8, <1>9
<1>11. [i \in DOMAIN Append(p, r) |-> <<Append(p, r)[i].peer, Append(p, r)[i].text>>]
         = Append([i \in DOMAIN p |-> <<p[i].peer, p[i].text>>], <<r.peer, r.text>>)
  <2> DEFINE f == [x \in Report |-> <<x.peer, x.text>>]
  <2>1. f \in [Report -> Pairs]
    BY <1>9
  <2>2. \A x \in Report : f[x] = <<x.peer, x.text>>
    OBVIOUS
  <2> HIDE DEF f
  <2>3. [i \in DOMAIN Append(p, r) |-> f[Append(p, r)[i]]]
          = Append([i \in DOMAIN p |-> f[p[i]]], f[r])
    BY <1>8, <2>1, EachMore
  <2>4. /\ \A i \in DOMAIN p : p[i] \in Report
        /\ \A i \in DOMAIN Append(p, r) : Append(p, r)[i] \in Report
    BY <1>8
  <2> QED BY <2>2, <2>3, <2>4
<1>12. ReportPairs(t, d, O) = IF r.direction = d /\ r.ok \in O
                              THEN Append(ReportPairs(ps, d, O), <<r.peer, r.text>>)
                              ELSE ReportPairs(ps, d, O)
  BY <1>7, <1>8, <1>11
<1> QED BY <1>7, <1>10, <1>12 DEF t

\* Every answer is made of the packet before it, which came back.
Answering(ps) ==
  \A i \in DOMAIN ps :
    ps[i].direction = "Inbound" =>
      /\ i > 1 /\ ps[i - 1].direction = "Outbound" /\ ps[i - 1].ok
      /\ ps[i].text = Ack[ps[i - 1].text]

\* The reports ps tell the log.
Tell(log, ps) ==
  /\ LogPairs(log, "Inbound", AckText) = ReportPairs(ps, "Inbound", {TRUE})
  /\ IsPartOf(ReportPairs(ps, "Outbound", BOOLEAN), LogPairs(log, "Outbound", Typed))
  /\ Answering(ps)

\* There is nothing to tell.
LEMMA TellNothing == Tell(<<>>, <<>>)
<1>1. DOMAIN <<>> = {}
  OBVIOUS
<1>2. \A d, T : LogPart(<<>>, d, T) = <<>> /\ ReportPart(<<>>, d, T) = <<>>
  BY PickedEmpty DEF LogPart, ReportPart
<1>3. \A d, T : LogPairs(<<>>, d, T) = <<>> /\ ReportPairs(<<>>, d, T) = <<>>
  BY <1>1, <1>2 DEF LogPairs, ReportPairs
<1> QED BY <1>1, <1>3, PartEmpty DEF Tell, Answering

\* A report more is no answer, or one to the report before it.
LEMMA AnsweringMore ==
  ASSUME NEW ps \in Seq(Report), NEW r \in Report, Answering(ps),
         r.direction = "Inbound" =>
           /\ Len(ps) > 0 /\ ps[Len(ps)].direction = "Outbound" /\ ps[Len(ps)].ok
           /\ r.text = Ack[ps[Len(ps)].text]
  PROVE  Answering(Append(ps, r))
<1> DEFINE t == Append(ps, r)
           N == Len(ps)
<1>1. /\ N \in Nat /\ DOMAIN ps = 1..N /\ DOMAIN t = 1..(N + 1)
      /\ \A i \in 1..N : t[i] = ps[i]
      /\ t[N + 1] = r
  BY AppendProperties, LenProperties
<1> SUFFICES ASSUME NEW i \in 1..(N + 1), t[i].direction = "Inbound"
             PROVE  /\ i > 1 /\ t[i - 1].direction = "Outbound" /\ t[i - 1].ok
                    /\ t[i].text = Ack[t[i - 1].text]
  BY <1>1 DEF Answering
<1>2. CASE i = N + 1
  <2>1. N > 0 /\ ps[N].direction = "Outbound" /\ ps[N].ok /\ r.text = Ack[ps[N].text]
    BY <1>1, <1>2
  <2>2. i > 1 /\ i - 1 = N /\ t[N] = ps[N]
    <3> HIDE DEF t, N
    <3> QED BY <1>1, <1>2, <2>1
  <2> HIDE DEF t, N
  <2> QED BY <1>1, <1>2, <2>1, <2>2
<1>3. CASE i # N + 1
  <2>1. i \in DOMAIN ps /\ t[i] = ps[i]
    BY <1>1, <1>3
  <2>2. /\ i > 1 /\ ps[i - 1].direction = "Outbound" /\ ps[i - 1].ok
        /\ ps[i].text = Ack[ps[i - 1].text]
    BY <2>1 DEF Answering
  <2>3. t[i - 1] = ps[i - 1]
    BY <1>1, <2>1, <2>2
  <2> QED BY <2>1, <2>2, <2>3
<1> QED BY <1>2, <1>3

\* A message the reports do not tell.
LEMMA TellLogged ==
  ASSUME NEW log \in Seq(Message), NEW ps \in Seq(Report), Tell(log, ps),
         NEW m \in Message, m.direction = "Inbound" => m.text \notin AckText
  PROVE  Tell(Append(log, m), ps)
<1>1. "Inbound" \in Direction /\ "Outbound" \in Direction
  BY DEF Direction
<1>2. LogPairs(Append(log, m), "Inbound", AckText) = LogPairs(log, "Inbound", AckText)
  BY <1>1, LogMore
<1>3. LogPairs(Append(log, m), "Outbound", Typed) = LogPairs(log, "Outbound", Typed)
      \/ LogPairs(Append(log, m), "Outbound", Typed)
           = Append(LogPairs(log, "Outbound", Typed), <<With("Outbound", m), m.text>>)
  BY <1>1, LogMore
<1>4. /\ LogPairs(log, "Outbound", Typed) \in Seq(Pairs) /\ <<With("Outbound", m), m.text>> \in Pairs
      /\ ReportPairs(ps, "Outbound", BOOLEAN) \in Seq(Pairs)
  <2>1. LogPairs(log, "Outbound", Typed) \in Seq(Pairs)
    BY <1>1, LogMore
  <2>2. \A r \in Report : ReportPairs(ps, "Outbound", BOOLEAN) \in Seq(Pairs)
    BY <1>1, ReportMore
  <2>3. \E r : r \in Report
    <3>1. [sequence |-> 1, direction |-> "Inbound", peer |-> Owner, text |-> m.text, ok |-> TRUE]
            \in Report
      BY <1>1, TerminalAssumption DEF Report, Message
    <3> QED BY <3>1
  <2> QED BY <2>1, <2>2, <2>3 DEF Message, With, Pairs
<1>5. IsPartOf(ReportPairs(ps, "Outbound", BOOLEAN), LogPairs(log, "Outbound", Typed))
  BY DEF Tell
<1>6. IsPartOf(ReportPairs(ps, "Outbound", BOOLEAN),
               Append(LogPairs(log, "Outbound", Typed), <<With("Outbound", m), m.text>>))
  BY <1>4, <1>5, PartMore
<1> QED BY <1>2, <1>3, <1>5, <1>6 DEF Tell

\* A text is logged, and its packet reported.
LEMMA TellOut ==
  ASSUME NEW log \in Seq(Message), NEW ps \in Seq(Report), Tell(log, ps),
         NEW m \in Message, m.direction = "Outbound", m.text \in Typed,
         NEW r \in Report, r.direction = "Outbound", r.peer = m.to, r.text = m.text
  PROVE  Tell(Append(log, m), Append(ps, r))
<1>1. "Inbound" \in Direction /\ "Outbound" \in Direction /\ "Inbound" # "Outbound"
      /\ r.ok \in BOOLEAN /\ With("Outbound", m) = m.to
  BY DEF Direction, Report, With
<1>2. LogPairs(Append(log, m), "Inbound", AckText) = LogPairs(log, "Inbound", AckText)
  BY <1>1, LogMore
<1>3. ReportPairs(Append(ps, r), "Inbound", {TRUE}) = ReportPairs(ps, "Inbound", {TRUE})
  BY <1>1, ReportMore
<1>4. LogPairs(Append(log, m), "Outbound", Typed)
        = Append(LogPairs(log, "Outbound", Typed), <<m.to, m.text>>)
      /\ LogPairs(log, "Outbound", Typed) \in Seq(Pairs)
  BY <1>1, LogMore
<1>5. ReportPairs(Append(ps, r), "Outbound", BOOLEAN)
        = Append(ReportPairs(ps, "Outbound", BOOLEAN), <<m.to, m.text>>)
      /\ ReportPairs(ps, "Outbound", BOOLEAN) \in Seq(Pairs)
  BY <1>1, ReportMore
<1>6. <<m.to, m.text>> \in Pairs
  BY DEF Message, Pairs
<1>7. IsPartOf(ReportPairs(ps, "Outbound", BOOLEAN), LogPairs(log, "Outbound", Typed))
  BY DEF Tell
<1>8. IsPartOf(ReportPairs(Append(ps, r), "Outbound", BOOLEAN),
               LogPairs(Append(log, m), "Outbound", Typed))
  BY <1>4, <1>5, <1>6, <1>7, PartBoth
<1>9. Answering(Append(ps, r))
  BY <1>1, AnsweringMore DEF Tell
<1> QED BY <1>2, <1>3, <1>8, <1>9 DEF Tell

\* The answer's packet comes back spoilt.
LEMMA TellSpoilt ==
  ASSUME NEW log \in Seq(Message), NEW ps \in Seq(Report), Tell(log, ps),
         NEW r \in Report, r.direction = "Inbound", r.ok = FALSE,
         Len(ps) > 0, ps[Len(ps)].direction = "Outbound", ps[Len(ps)].ok,
         r.text = Ack[ps[Len(ps)].text]
  PROVE  Tell(log, Append(ps, r))
<1>1. "Inbound" \in Direction /\ "Outbound" \in Direction /\ r.ok \notin {TRUE}
  BY DEF Direction
<1>2. ReportPairs(Append(ps, r), "Inbound", {TRUE}) = ReportPairs(ps, "Inbound", {TRUE})
  <2>1. \A O : r.ok \notin O =>
          ReportPairs(Append(ps, r), "Inbound", O) = ReportPairs(ps, "Inbound", O)
    BY <1>1, ReportMore
  <2> QED BY <1>1, <2>1
<1>3. ReportPairs(Append(ps, r), "Outbound", BOOLEAN) = ReportPairs(ps, "Outbound", BOOLEAN)
  BY <1>1, ReportMore
<1>4. Answering(Append(ps, r))
  BY AnsweringMore DEF Tell
<1> QED BY <1>2, <1>3, <1>4 DEF Tell

\* The answer's packet comes back, and the answer is logged.
LEMMA TellAnswer ==
  ASSUME NEW log \in Seq(Message), NEW ps \in Seq(Report), Tell(log, ps),
         NEW m \in Message, m.direction = "Inbound", m.text \in AckText,
         NEW r \in Report, r.direction = "Inbound", r.ok = TRUE,
         r.peer = m.from, r.text = m.text,
         Len(ps) > 0, ps[Len(ps)].direction = "Outbound", ps[Len(ps)].ok,
         r.text = Ack[ps[Len(ps)].text]
  PROVE  Tell(Append(log, m), Append(ps, r))
<1>1. "Inbound" \in Direction /\ "Outbound" \in Direction /\ With("Inbound", m) = m.from
      /\ r.ok \in {TRUE}
  BY DEF Direction, With
<1>2. LogPairs(Append(log, m), "Inbound", AckText)
        = Append(LogPairs(log, "Inbound", AckText), <<m.from, m.text>>)
  <2>1. LogPairs(Append(log, m), "Inbound", AckText)
          = Append(LogPairs(log, "Inbound", AckText), <<With("Inbound", m), m.text>>)
    BY <1>1, LogMore
  <2> QED BY <1>1, <2>1
<1>20. LogPairs(Append(log, m), "Outbound", Typed) = LogPairs(log, "Outbound", Typed)
  BY <1>1, LogMore
<1>3. ReportPairs(Append(ps, r), "Inbound", {TRUE})
        = Append(ReportPairs(ps, "Inbound", {TRUE}), <<m.from, m.text>>)
  <2>1. \A O : r.ok \in O =>
          ReportPairs(Append(ps, r), "Inbound", O)
            = Append(ReportPairs(ps, "Inbound", O), <<r.peer, r.text>>)
    BY <1>1, ReportMore
  <2>2. ReportPairs(Append(ps, r), "Inbound", {TRUE})
          = Append(ReportPairs(ps, "Inbound", {TRUE}), <<r.peer, r.text>>)
    BY <1>1, <2>1
  <2> QED BY <2>2
<1>30. ReportPairs(Append(ps, r), "Outbound", BOOLEAN) = ReportPairs(ps, "Outbound", BOOLEAN)
  BY <1>1, ReportMore
<1>4. Answering(Append(ps, r))
  BY AnsweringMore DEF Tell
<1> QED BY <1>2, <1>20, <1>3, <1>30, <1>4 DEF Tell

\* What the reports of a loopback tell is its log.
Telling == backend.kind \in {"loopback", "wav"} => Tell(chat.messages, packets)

\* The message and the two reports of a text that is sent.
LEMMA SaidOne ==
  ASSUME Types, NEW text \in Typed, IsConnected(chat)
  PROVE  \E m \in Message :
           /\ m.direction = "Outbound" /\ m.to = chat.peer /\ m.text = text
           /\ Said(text).messages = Append(chat.messages, m)
           /\ \E a \in Message :
                /\ a.direction = "Inbound" /\ a.from = chat.peer /\ a.text = Ack[text]
                /\ Answered(text).messages = Append(Append(chat.messages, m), a)
<1> DEFINE m == [sequence |-> chat.next, direction |-> "Outbound", from |-> backend.call,
                 to |-> chat.peer, text |-> text]
           a == [sequence |-> chat.next + 1, direction |-> "Inbound", from |-> chat.peer,
                 to |-> backend.call, text |-> Ack[text]]
<1>1. /\ backend.call \in Call /\ chat.peer \in Call /\ chat.next \in Nat
      /\ text \in Text /\ Ack[text] \in Text /\ "Inbound" \in Direction /\ "Outbound" \in Direction
  BY Texts DEF Types, Backend, IsConnected, Direction
<1>2. m \in Message /\ a \in Message
  BY <1>1 DEF Message
<1>3. Said(text).messages = Append(chat.messages, m) /\ Said(text).next = chat.next + 1
      /\ Said(text).peer = chat.peer
  BY DEF Said, SentText, PushMessage
<1>4. Answered(text).messages = Append(Said(text).messages,
        [sequence |-> Said(text).next, direction |-> "Inbound", from |-> chat.peer,
         to |-> backend.call, text |-> Ack[text]])
  BY DEF Answered, ReceivedText, PushMessage
<1>5. Answered(text).messages = Append(Append(chat.messages, m), a)
  BY <1>3, <1>4
<1>6. /\ m.direction = "Outbound" /\ m.to = chat.peer /\ m.text = text
      /\ a.direction = "Inbound" /\ a.from = chat.peer /\ a.text = Ack[text]
  OBVIOUS
<1> HIDE DEF m, a
<1> QED BY <1>2, <1>3, <1>5, <1>6

LEMMA ReportedOne ==
  ASSUME NEW ps \in Seq(Report), NEW d \in Direction, NEW t \in Text, NEW o \in BOOLEAN,
         chat.peer \in Call
  PROVE  \E r \in Report : /\ r.direction = d /\ r.peer = chat.peer /\ r.text = t /\ r.ok = o
                           /\ Reported(ps, d, t, o) = Append(ps, r)
<1> DEFINE r == [sequence |-> Len(ps) + 1, direction |-> d, peer |-> chat.peer, text |-> t,
                 ok |-> o]
<1>1. r \in Report /\ r.direction = d /\ r.peer = chat.peer /\ r.text = t /\ r.ok = o
  BY DEF Report
<1>2. Reported(ps, d, t, o) = Append(ps, r)
  BY DEF Reported
<1> HIDE DEF r
<1> QED BY <1>1, <1>2

LEMMA OutOne ==
  ASSUME Types, NEW text \in Typed, NEW ok \in BOOLEAN, IsConnected(chat)
  PROVE  \E r \in Report :
           /\ r.direction = "Outbound" /\ r.peer = chat.peer /\ r.text = text /\ r.ok = ok
           /\ Out(text, ok) = Append(packets, r)
<1>1. /\ chat.peer \in Call /\ packets \in Seq(Report)
      /\ text \in Text /\ "Outbound" \in Direction
  BY Texts DEF Types, Backend, IsConnected, Direction
<1>2. \E r \in Report :
        /\ r.direction = "Outbound" /\ r.peer = chat.peer /\ r.text = text /\ r.ok = ok
        /\ Reported(packets, "Outbound", text, ok) = Append(packets, r)
  BY <1>1, ReportedOne
<1> QED BY <1>2 DEF Out

LEMMA AnswerOne ==
  ASSUME Types, NEW text \in Typed, NEW ok \in BOOLEAN, IsConnected(chat)
  PROVE  /\ Out(text, TRUE) \in Seq(Report)
         /\ \E r \in Report :
              /\ r.direction = "Inbound" /\ r.peer = chat.peer /\ r.text = Ack[text] /\ r.ok = ok
              /\ OutAndIn(text, ok) = Append(Out(text, TRUE), r)
<1>1. /\ chat.peer \in Call /\ packets \in Seq(Report)
      /\ Ack[text] \in Text /\ "Inbound" \in Direction
  BY Texts DEF Types, Backend, IsConnected, Direction
<1>2. Out(text, TRUE) \in Seq(Report)
  <2>1. \A o \in BOOLEAN : \E r \in Report : Out(text, o) = Append(packets, r)
    BY OutOne
  <2>2. \A o \in BOOLEAN : Out(text, o) \in Seq(Report)
    BY <1>1, <2>1, AppendProperties
  <2> QED BY <2>2
<1>3. \E r \in Report :
        /\ r.direction = "Inbound" /\ r.peer = chat.peer /\ r.text = Ack[text] /\ r.ok = ok
        /\ Reported(Out(text, TRUE), "Inbound", Ack[text], ok) = Append(Out(text, TRUE), r)
  <2>1. PICK ps \in Seq(Report) : ps = Out(text, TRUE)
    BY <1>2
  <2>2. \E r \in Report :
          /\ r.direction = "Inbound" /\ r.peer = chat.peer /\ r.text = Ack[text] /\ r.ok = ok
          /\ Reported(ps, "Inbound", Ack[text], ok) = Append(ps, r)
    BY <1>1, ReportedOne
  <2> QED BY <2>1, <2>2
<1> QED BY <1>2, <1>3 DEF OutAndIn

\* Whatever is lost of a text and its answer, the reports go on telling the log.
LEMMA LoopbackTells ==
  ASSUME Types, Tell(chat.messages, packets), NEW text \in Typed,
         LoopbackAnswers(text) \/ LoopbackLoses(text) \/ LoopbackLosesAnswer(text)
  PROVE  Tell(chat'.messages, packets')
<1>1. /\ IsConnected(chat) /\ chat.messages \in Seq(Message) /\ packets \in Seq(Report)
      /\ Ack[text] \in AckText /\ text \notin AckText
  BY TerminalAssumption DEF LoopbackAnswers, LoopbackLoses, LoopbackLosesAnswer, LoopbackSends,
       Types, Backend, AckText
<1>2. PICK m \in Message :
        /\ m.direction = "Outbound" /\ m.to = chat.peer /\ m.text = text
        /\ Said(text).messages = Append(chat.messages, m)
        /\ \E a \in Message :
             /\ a.direction = "Inbound" /\ a.from = chat.peer /\ a.text = Ack[text]
             /\ Answered(text).messages = Append(Append(chat.messages, m), a)
  BY <1>1, SaidOne
<1>3. PICK a \in Message :
        /\ a.direction = "Inbound" /\ a.from = chat.peer /\ a.text = Ack[text]
        /\ Answered(text).messages = Append(Append(chat.messages, m), a)
  BY <1>2
<1> DEFINE log == Append(chat.messages, m)
<1>4. log \in Seq(Message)
  BY <1>1, <1>2, AppendProperties
<1>5. ASSUME NEW ok \in BOOLEAN
      PROVE  Tell(log, Out(text, ok))
  <2>1. PICK r \in Report :
          /\ r.direction = "Outbound" /\ r.peer = chat.peer /\ r.text = text /\ r.ok = ok
          /\ Out(text, ok) = Append(packets, r)
    BY <1>1, <1>5, OutOne
  <2> QED BY <1>1, <1>2, <2>1, TellOut
<1>6. PICK r \in Report :
        /\ r.direction = "Outbound" /\ r.peer = chat.peer /\ r.text = text /\ r.ok = TRUE
        /\ Out(text, TRUE) = Append(packets, r)
  BY <1>1, OutOne
<1>7. /\ Out(text, TRUE) \in Seq(Report) /\ Len(Out(text, TRUE)) > 0
      /\ Out(text, TRUE)[Len(Out(text, TRUE))] = r
  <2> DEFINE ps == Append(packets, r)
  <2>1. ps \in Seq(Report) /\ Len(ps) = Len(packets) + 1 /\ ps[Len(packets) + 1] = r
    BY <1>1, <1>6, AppendProperties
  <2>2. Len(packets) \in Nat
    BY <1>1, LenProperties
  <2> HIDE DEF ps
  <2>3. Len(ps) > 0 /\ ps[Len(ps)] = r
    BY <2>1, <2>2
  <2> QED BY <1>6, <2>1, <2>3 DEF ps
<1>8. Tell(log, OutAndIn(text, FALSE))
  <2>1. PICK q \in Report :
          /\ q.direction = "Inbound" /\ q.peer = chat.peer /\ q.text = Ack[text] /\ q.ok = FALSE
          /\ OutAndIn(text, FALSE) = Append(Out(text, TRUE), q)
    BY <1>1, AnswerOne
  <2>2. Tell(log, Out(text, TRUE))
    BY <1>5
  <2> HIDE DEF log
  <2> QED BY <1>4, <1>6, <1>7, <2>1, <2>2, TellSpoilt
<1>9. Tell(Append(log, a), OutAndIn(text, TRUE))
  <2>1. PICK q \in Report :
          /\ q.direction = "Inbound" /\ q.peer = chat.peer /\ q.text = Ack[text] /\ q.ok = TRUE
          /\ OutAndIn(text, TRUE) = Append(Out(text, TRUE), q)
    BY <1>1, AnswerOne
  <2>2. Tell(log, Out(text, TRUE))
    BY <1>5
  <2> HIDE DEF log
  <2> QED BY <1>1, <1>3, <1>4, <1>6, <1>7, <2>1, <2>2, TellAnswer
<1>10. Tell(log, packets)
  BY <1>1, <1>2, TellLogged
<1>11. CASE LoopbackAnswers(text)
  BY <1>2, <1>3, <1>9, <1>11 DEF LoopbackAnswers
<1>12. CASE LoopbackLoses(text)
  <2>1. chat' = Said(text) /\ (packets' = packets \/ packets' = Out(text, FALSE))
    BY <1>12 DEF LoopbackLoses
  <2> QED BY <1>2, <1>5, <1>10, <2>1
<1>13. CASE LoopbackLosesAnswer(text)
  <2>1. chat' = Said(text) /\ (packets' = Out(text, TRUE) \/ packets' = OutAndIn(text, FALSE))
    BY <1>13 DEF LoopbackLosesAnswer
  <2> QED BY <1>2, <1>5, <1>8, <2>1
<1> QED BY <1>11, <1>12, <1>13

\* Every step keeps it.
LEMMA TellingKept ==
  ASSUME SessionInv, Telling, [Next]_vars
  PROVE  Telling'
<1>1. Types
  BY DEF SessionInv
<1>2. ASSUME UNCHANGED <<backend, packets>>, chat'.messages = chat.messages PROVE Telling'
  BY <1>2 DEF Telling
<1>3. CASE \/ OpenSetup
           \/ \E call \in Call : SetStation(call) \/ SetPeer(call)
           \/ \E kind \in Kind : SetBackend(kind)
           \/ \E mode \in Mode \ {"unset"} : SetMode(mode)
           \/ ToggleLink
  BY <1>2, <1>3 DEF OpenSetup, SetStation, SetPeer, SetBackend, SetMode, ToggleLink, SetupCommand
<1>4. CASE \/ \E call \in Call : Connect(call)
           \/ Disconnect
           \/ \E text \in Typed, to \in Call \cup {NoCall} : Post(to, text)
           \/ PostRefused
  BY <1>2, <1>4 DEF Connect, Disconnect, Post, PostRefused, ChatCommand, ConnectTo, Disconnected
<1>5. ASSUME NEW text \in RxText, NEW from \in Call, Receive(from, text) PROVE Telling'
  <2>1. /\ text \in Text /\ text \notin AckText
        /\ chat.messages \in Seq(Message) /\ packets \in Seq(Report) /\ backend.call \in Call
        /\ chat.next \in Nat
    BY <1>1, TerminalAssumption DEF Types, Backend
  <2> DEFINE m == [sequence |-> chat.next, direction |-> "Inbound", from |-> from,
                   to |-> backend.call, text |-> text]
  <2>2. m \in Message /\ m.text = text
    BY <2>1 DEF Message, Direction
  <2>3. chat'.messages = Append(chat.messages, m) /\ UNCHANGED <<backend, packets>>
    BY <1>5 DEF Receive, ReceivedText, PushMessage, ChatCommand
  <2> HIDE DEF m
  <2>4. Tell(chat.messages, packets) => Tell(Append(chat.messages, m), packets)
    BY <2>1, <2>2, TellLogged
  <2> QED BY <2>3, <2>4 DEF Telling
<1>6. ASSUME NEW text \in Typed, SendFake(text) PROVE Telling'
  BY <1>6 DEF SendFake, ChatCommand, Telling
<1>7. ASSUME NEW text \in Typed,
             LoopbackAnswers(text) \/ LoopbackLoses(text) \/ LoopbackLosesAnswer(text)
      PROVE  Telling'
  <2>1. backend.kind \in {"loopback", "wav"}
    BY <1>7 DEF LoopbackAnswers, LoopbackLoses, LoopbackLosesAnswer, LoopbackSends
  <2> QED BY <1>1, <1>7, <2>1, LoopbackTells DEF Telling
<1>8. CASE Start \/ Accepted
  <2>1. chat'.messages = <<>> /\ packets' = <<>>
    BY <1>8 DEF Start, Accepted, Switch, NewBackend
  <2> QED BY <2>1, TellNothing DEF Telling
<1>9. CASE \/ StartFails \/ StartListens \/ AcceptFails \/ Save \/ SaveBreaksOff
           \/ PressQuit \/ Quit \/ UNCHANGED vars
  BY <1>2, <1>9 DEF StartFails, StartListens, StartCommand, AcceptFails, Save, SaveBreaksOff,
       SaveCommand, PressQuit, Quit, Session, vars
<1> QED BY <1>3, <1>4, <1>5, <1>6, <1>7, <1>8, <1>9 DEF Next

-----------------------------------------------------------------------------
(* Theorems                                                                *)

LEMMA Initially == Init => IInv
<1> SUFFICES ASSUME Init PROVE IInv
  OBVIOUS
<1>1. NewBackend \in Backend /\ NewAppModel \in AppModel
  BY DEF NewBackend, Backend, NewAppModel, AppModel
<1>2. Types
  BY <1>1, TerminalAssumption DEF Init, Types, Kind, InProcess
<1>3. OwnSession /\ SettingUp
  BY DEF Init, OwnSession, SettingUp, NewBackend, NewAppModel
<1>4. SavedInv
  BY DEF Init, SavedInv, Dated, ReportComesLast
<1> QED BY <1>2, <1>3, <1>4 DEF IInv, SessionInv

\* The invariant holds in every state.
THEOREM Invariance == Spec => []IInv
<1>1. IInv /\ [Next]_vars => IInv'
  BY SessionKept, SavedKept DEF IInv
<1> QED BY Initially, <1>1, PTL DEF Spec

\* Every variable keeps its type.
THEOREM TypeCorrect == Spec => []TypeOK
<1>1. Init => TypeInv
  <2> SUFFICES ASSUME Init PROVE TypeInv
    OBVIOUS
  <2>1. IInv
    BY Initially
  <2>2. Shelved
    BY DEF Init, Shelved
  <2>3. Counted
    <3>1. phase = "reading" /\ quitting = FALSE /\ used = 0 /\ faults = 0
      BY DEF Init
    <3>2. 0 \in 0..MaxCommands /\ 0 \in 0..MaxFaults
      BY TerminalAssumption
    <3>3. quitting \in BOOLEAN
      BY <3>1
    <3> QED BY <3>1, <3>2, <3>3 DEF Counted
  <2> QED BY <2>1, <2>2, <2>3 DEF TypeInv
<1>2. TypeInv /\ [Next]_vars => TypeInv'
  BY SessionKept, SavedKept, ShelvedKept, CountedKept DEF TypeInv, IInv
<1>3. TypeInv => TypeOK
  BY DEF TypeInv, IInv, SessionInv, Types, SavedInv, Dated, Shelved, Counted, TypeOK
<1> QED BY <1>1, <1>2, <1>3, PTL DEF Spec

\* Outside setup the call that /station sets is the one the running session
\* chats under, and every entry of its log and app model names it.
THEOREM StandsForOneStation == Spec => []OneStation
<1>1. IInv => OneStation
  BY DEF IInv, SessionInv, Types, OwnSession, SettingUp, OneStation, Own
<1> QED BY Invariance, <1>1, PTL

\* A whole session report in the directory has every file it names beside it,
\* wherever earlier and later saves broke off.
THEOREM ReportStands == Spec => []ReportComesLast
<1>1. IInv => ReportComesLast
  BY DEF IInv, SavedInv
<1> QED BY Invariance, <1>1, PTL

\* Every step keeps what the session has logged, posted and reported, or makes
\* the whole session that setup describes.
THEOREM SwitchesWhole == Spec => SwitchIsWhole
<1> DEFINE Keeps ==
             /\ UNCHANGED backend
             /\ IsPrefix(chat.messages, chat'.messages)
             /\ IsPrefix(app.entries, app'.entries)
             /\ IsPrefix(packets, packets')
           Makes ==
             /\ InSetup /\ setup' = NoSetup
             /\ backend'.kind = setup.kind /\ backend'.call = station
             /\ setup.kind = "node" => backend'.peer = setup.peer
             /\ chat' = NewBackend /\ app' = NewAppModel /\ packets' = <<>>
<1>1. IInv /\ [Next]_vars => [Keeps \/ Makes]_vars
  <2> SUFFICES ASSUME SessionInv, [Next]_vars PROVE Keeps \/ Makes
    BY DEF IInv
  <2>1. CASE Proceeds
    BY <2>1 DEF Proceeds, Continues, LogGoesOn
  <2>2. CASE SetsUp
    BY <2>2, StaysSame DEF SetsUp, Continues, LogGoesOn, SessionInv
  <2>3. CASE Switches
    BY <2>3 DEF Switches, Switch
  <2> QED BY <2>1, <2>2, <2>3, StepKinds
<1> QED BY Invariance, <1>1, PTL DEF Spec, SwitchIsWhole

\* The packet reports of a loopback tell the story of its log, wherever sends
\* broke off between the text, its packet, the answer's packet and the answer.
THEOREM ReportsTellLog == Spec => []PacketsTellTheLog
<1>1. Init => IInv /\ Telling
  <2> SUFFICES ASSUME Init PROVE IInv /\ Telling
    OBVIOUS
  <2>1. chat.messages = <<>> /\ packets = <<>>
    BY DEF Init, NewBackend
  <2> QED BY <2>1, Initially, TellNothing DEF Telling
<1>2. IInv /\ Telling /\ [Next]_vars => (IInv /\ Telling)'
  BY SessionKept, SavedKept, TellingKept DEF IInv
<1>3. Telling => PacketsTellTheLog
  <2> SUFFICES ASSUME Tell(chat.messages, packets)
      PROVE  /\ [i \in DOMAIN Told("Inbound", AckText) |->
                   <<Told("Inbound", AckText)[i].from, Told("Inbound", AckText)[i].text>>]
                  = [i \in DOMAIN Came("Inbound", {TRUE}) |->
                      <<Came("Inbound", {TRUE})[i].peer, Came("Inbound", {TRUE})[i].text>>]
             /\ IsPartOf([i \in DOMAIN Came("Outbound", BOOLEAN) |->
                           <<Came("Outbound", BOOLEAN)[i].peer, Came("Outbound", BOOLEAN)[i].text>>],
                         [i \in DOMAIN Told("Outbound", Typed) |->
                           <<Told("Outbound", Typed)[i].to, Told("Outbound", Typed)[i].text>>])
             /\ Answering(packets)
    BY DEF Telling, PacketsTellTheLog, Answering
  <2>1. /\ \A d, T : Told(d, T) = LogPart(chat.messages, d, T)
        /\ \A d, O : Came(d, O) = ReportPart(packets, d, O)
    BY DEF Told, Came, LogPart, ReportPart
  <2>2. LogPairs(chat.messages, "Inbound", AckText)
          = [i \in DOMAIN Told("Inbound", AckText) |->
              <<Told("Inbound", AckText)[i].from, Told("Inbound", AckText)[i].text>>]
    BY <2>1 DEF LogPairs, With
  <2>3. LogPairs(chat.messages, "Outbound", Typed)
          = [i \in DOMAIN Told("Outbound", Typed) |->
              <<Told("Outbound", Typed)[i].to, Told("Outbound", Typed)[i].text>>]
    BY <2>1 DEF LogPairs, With
  <2>4. \A d, O : ReportPairs(packets, d, O)
          = [i \in DOMAIN Came(d, O) |-> <<Came(d, O)[i].peer, Came(d, O)[i].text>>]
    BY <2>1 DEF ReportPairs
  <2>5. /\ LogPairs(chat.messages, "Inbound", AckText) = ReportPairs(packets, "Inbound", {TRUE})
        /\ IsPartOf(ReportPairs(packets, "Outbound", BOOLEAN),
                    LogPairs(chat.messages, "Outbound", Typed))
        /\ Answering(packets)
    BY DEF Tell
  <2>6. /\ ReportPairs(packets, "Inbound", {TRUE})
             = [i \in DOMAIN Came("Inbound", {TRUE}) |->
                 <<Came("Inbound", {TRUE})[i].peer, Came("Inbound", {TRUE})[i].text>>]
        /\ ReportPairs(packets, "Outbound", BOOLEAN)
             = [i \in DOMAIN Came("Outbound", BOOLEAN) |->
                 <<Came("Outbound", BOOLEAN)[i].peer, Came("Outbound", BOOLEAN)[i].text>>]
    BY <2>4
  <2> QED BY <2>2, <2>3, <2>5, <2>6, Zenon
<1> QED BY <1>1, <1>2, <1>3, PTL DEF Spec
=============================================================================
