----------------------------- MODULE PeerProofs -----------------------------
(***************************************************************************)
(* What PeerScript guarantees for scripts of any length, files of any      *)
(* number of chunks and any number of faults.                              *)
(***************************************************************************)
EXTENDS PeerScript, SubsequenceProofs, SequenceTheorems, TLAPS

-----------------------------------------------------------------------------
(* Lemmas                                                                  *)

\* Init gives every variable its type.
LEMMA InitTypeOK == Init => TypeOK
BY PeerAssumption, ChatAssumption
   DEF Init, TypeOK, NewBackend, NewAppModel, Backend, AppModel, Side

\* A command of the script is a command with a text of its own.
LEMMA ReportedType ==
  ASSUME TypeOK, NEW s \in Side, NEW kind \in Kind, NEW ok \in BOOLEAN, Reported(s, kind, ok)
  PROVE  /\ reports' \in Seq(Report)
         /\ LineText \in Text
<1>1. LineText \in 1..MaxLines
  BY PeerAssumption DEF TypeOK, Reported, LineText
<1>2. LineText \in Text
  BY <1>1, PeerAssumption
<1>3. QED
  BY <1>2 DEF TypeOK, Reported, Report

\* What connect and send_text make of a backend is a backend, its counter in step.
LEMMA ChatSentType ==
  ASSUME TypeOK, NEW s \in Side, NEW kind \in Kind, Allowed(s, kind), LineText \in Text
  PROVE  /\ ChatSent(s, kind) \in Backend
         /\ ChatSent(s, kind).next = Len(ChatSent(s, kind).messages) + 1
<1>1. /\ s \in Call /\ Other(s) \in Call
      /\ chat[s] \in Backend /\ chat[s].next = Len(chat[s].messages) + 1
  BY PeerAssumption DEF TypeOK, Side, Other
<1>2. CASE kind = "CONNECT"
  BY <1>1, <1>2 DEF ChatSent, ConnectTo, Backend
<1>3. CASE kind = "MSG"
  <2>1. chat[s].peer \in Call
    BY <1>1, <1>3 DEF Allowed, IsConnected, Backend
  <2> DEFINE m == [sequence |-> chat[s].next, direction |-> "Outbound", from |-> s,
                   to |-> chat[s].peer, text |-> LineText]
  <2>2. m \in Message
    BY <1>1, <2>1 DEF Message, Direction, Backend
  <2>3. /\ Append(chat[s].messages, m) \in Seq(Message)
        /\ Len(Append(chat[s].messages, m)) = Len(chat[s].messages) + 1
    BY <1>1, <2>2 DEF Backend
  <2>4. ChatSent(s, kind) = [peer |-> chat[s].peer, next |-> chat[s].next + 1,
                             messages |-> Append(chat[s].messages, m)]
    BY <1>3 DEF ChatSent, SentText, PushMessage
  <2> HIDE DEF m
  <2>5. QED
    BY <1>1, <2>3, <2>4 DEF Backend
<1>4. CASE kind \notin {"CONNECT", "MSG"}
  BY <1>1, <1>4 DEF ChatSent
<1>5. QED
  BY <1>2, <1>3, <1>4

\* An entry more in an app model leaves its counter ahead of its entries.
LEMMA AppWithType ==
  ASSUME TypeOK, NEW t \in Side, NEW s \in Side, NEW kind \in Kind, LineText \in Text
  PROVE  /\ AppWith(app[t], s, kind) \in AppModel
         /\ AppWith(app[t], s, kind).next > Len(AppWith(app[t], s, kind).entries)
<1>1. app[t] \in AppModel /\ app[t].next > Len(app[t].entries)
  BY DEF TypeOK
<1>2. CASE kind \in AppKind \cup {"FILE"}
  <2> DEFINE e == [sequence |-> app[t].next, from |-> s, to |-> Addressee(s, kind),
                   text |-> LineText]
  <2>1. e \in Entry
    BY <1>1, PeerAssumption DEF Entry, Addressee, Side, Other, AppModel
  <2>2. AppWith(app[t], s, kind) = [next |-> app[t].next + 1, entries |-> Append(app[t].entries, e)]
    BY <1>2 DEF AppWith, Recorded
  <2>3. /\ Append(app[t].entries, e) \in Seq(Entry)
        /\ Len(Append(app[t].entries, e)) = Len(app[t].entries) + 1
    BY <1>1, <2>1 DEF AppModel
  <2> HIDE DEF e
  <2>4. QED
    BY <1>1, <2>2, <2>3 DEF AppModel
<1>3. CASE kind \notin AppKind \cup {"FILE"}
  BY <1>1, <1>3 DEF AppWith
<1>4. QED
  BY <1>2, <1>3

\* The packets of a command go on where the report stands.
LEMMA TransmittedType ==
  ASSUME TypeOK, NEW s \in Side, NEW kind \in Kind, LineText \in Text,
         NEW n \in 0..Len(PacketKinds(kind)), Transmitted(s, kind, n)
  PROVE  /\ packets' \in Seq(Packet)
         /\ \A i \in DOMAIN packets' : packets'[i].sequence = i
<1> DEFINE ps == [i \in 1..n |-> [sequence |-> Len(packets) + i, from |-> s,
                                  kind |-> PacketKinds(kind)[i], text |-> LineText]]
<1>1. /\ PacketKinds(kind) \in Seq((Kind \ {"FILE"}) \cup {"CHUNK"})
      /\ n \in Nat
  <2>1. CASE kind = "FILE"
    <3>1. [i \in 1..Chunks |-> "CHUNK"] \in Seq((Kind \ {"FILE"}) \cup {"CHUNK"})
      BY PeerAssumption
    <3>2. <<"OFFER">> \in Seq((Kind \ {"FILE"}) \cup {"CHUNK"})
      BY DEF Kind, AppKind
    <3>3. PacketKinds(kind) = <<"OFFER">> \o [i \in 1..Chunks |-> "CHUNK"]
      BY <2>1 DEF PacketKinds
    <3>4. QED
      BY <3>1, <3>2, <3>3
  <2>2. CASE kind # "FILE"
    BY <2>2 DEF PacketKinds
  <2>3. QED
    BY <2>1, <2>2
<1>2. ps \in Seq(Packet) /\ Len(ps) = n
  <2>1. ASSUME NEW i \in 1..n PROVE ps[i] \in Packet
    BY <1>1, <2>1 DEF Packet, TypeOK
  <2>2. QED
    BY <1>1, <2>1
<1>3. packets' = packets \o ps /\ packets \in Seq(Packet)
  BY DEF Transmitted, TypeOK
<1>4. ASSUME NEW i \in DOMAIN packets' PROVE packets'[i].sequence = i
  <2>1. i \in 1..(Len(packets) + n)
    BY <1>1, <1>2, <1>3, <1>4
  <2>2. CASE i <= Len(packets)
    BY <1>2, <1>3, <2>1, <2>2 DEF TypeOK
  <2>3. CASE i > Len(packets)
    <3>1. packets'[i] = ps[i - Len(packets)]
      BY <1>1, <1>2, <1>3, <2>1, <2>3
    <3>2. i - Len(packets) \in 1..n
      BY <1>1, <1>3, <2>1, <2>3
    <3>3. QED
      BY <1>1, <1>3, <2>1, <3>1, <3>2
  <2>4. QED
    BY <1>3, <2>1, <2>2, <2>3
<1> HIDE DEF ps
<1>5. QED
  BY <1>2, <1>3, <1>4

\* A text taken from the peer goes to the end of the log.
LEMMA ReceivedType ==
  ASSUME TypeOK, NEW s \in Side, NEW o \in Side, LineText \in Text
  PROVE  /\ ReceivedText(chat[o], o, s, LineText) \in Backend
         /\ ReceivedText(chat[o], o, s, LineText).next
              = Len(ReceivedText(chat[o], o, s, LineText).messages) + 1
<1>1. /\ s \in Call /\ o \in Call
      /\ chat[o] \in Backend /\ chat[o].next = Len(chat[o].messages) + 1
  BY PeerAssumption DEF TypeOK, Side
<1> DEFINE m == [sequence |-> chat[o].next, direction |-> "Inbound", from |-> s,
                 to |-> o, text |-> LineText]
<1>2. m \in Message
  BY <1>1 DEF Message, Direction, Backend
<1>3. /\ Append(chat[o].messages, m) \in Seq(Message)
      /\ Len(Append(chat[o].messages, m)) = Len(chat[o].messages) + 1
  BY <1>1, <1>2 DEF Backend
<1>4. ReceivedText(chat[o], o, s, LineText)
        = [peer |-> chat[o].peer, next |-> chat[o].next + 1,
           messages |-> Append(chat[o].messages, m)]
  BY DEF ReceivedText, PushMessage
<1> HIDE DEF m
<1>5. QED
  BY <1>1, <1>3, <1>4 DEF Backend

-----------------------------------------------------------------------------
(* Types                                                                   *)

ChatType ==
  /\ chat \in [Side -> Backend]
  /\ \A s \in Side : chat[s].next = Len(chat[s].messages) + 1

AppType ==
  /\ app \in [Side -> AppModel]
  /\ \A s \in Side : app[s].next > Len(app[s].entries)

\* The sender's backend and its app model keep their types ...
LEMMA SenderType ==
  ASSUME TypeOK, NEW s \in Side, NEW kind \in Kind, Allowed(s, kind), LineText \in Text
  PROVE  /\ chat' = [chat EXCEPT ![s] = ChatSent(s, kind)] => ChatType'
         /\ app' = [app EXCEPT ![s] = AppWith(app[s], s, kind)] => AppType'
<1>1. PICK c \in Backend : c = ChatSent(s, kind) /\ c.next = Len(c.messages) + 1
  BY ChatSentType
<1>2. PICK a \in AppModel : a = AppWith(app[s], s, kind) /\ a.next > Len(a.entries)
  BY AppWithType
<1>3. ASSUME chat' = [chat EXCEPT ![s] = c] PROVE ChatType'
  BY <1>1, <1>3 DEF TypeOK, ChatType
<1>4. ASSUME app' = [app EXCEPT ![s] = a] PROVE AppType'
  BY <1>2, <1>4 DEF TypeOK, AppType
<1>5. QED
  BY <1>1, <1>2, <1>3, <1>4

\* ... and so do both stations' once the command is through.
LEMMA BothType ==
  ASSUME TypeOK, NEW s \in Side, NEW kind \in Kind, Allowed(s, kind), LineText \in Text
  PROVE  /\ chat' = ChatsAfter(s, kind) => ChatType'
         /\ app' = AppsAfter(s, kind) => AppType'
<1>1. Other(s) \in Side /\ s # Other(s) /\ s \in Call
  BY PeerAssumption DEF Side, Other
<1>2. ASSUME app' = AppsAfter(s, kind) PROVE AppType'
  BY <1>1, <1>2, AppWithType DEF TypeOK, AppType, AppsAfter
<1>3. ASSUME chat' = ChatsAfter(s, kind) PROVE ChatType'
  <2> DEFINE o == Other(s)
  <2>1. /\ ChatSent(s, kind) \in Backend
        /\ ChatSent(s, kind).next = Len(ChatSent(s, kind).messages) + 1
    BY ChatSentType
  <2>2. CASE kind = "CONNECT"
    <3>1. chat' = [chat EXCEPT ![s] = ChatSent(s, kind), ![o] = ConnectTo(@, s)]
      BY <1>3, <2>2 DEF ChatsAfter
    <3>2. /\ ConnectTo(chat[o], s) \in Backend
          /\ ConnectTo(chat[o], s).next = Len(ConnectTo(chat[o], s).messages) + 1
      BY <1>1 DEF TypeOK, ConnectTo, Backend
    <3>3. QED
      BY <1>1, <2>1, <3>1, <3>2 DEF TypeOK, ChatType
  <2>3. CASE kind = "MSG"
    <3>1. chat' = [chat EXCEPT ![s] = ChatSent(s, kind), ![o] = ReceivedText(@, o, s, LineText)]
      BY <1>3, <2>3 DEF ChatsAfter
    <3>2. QED
      BY <1>1, <2>1, <3>1, ReceivedType DEF TypeOK, ChatType
  <2>4. CASE kind = "DISCONNECT"
    <3>1. chat' = [chat EXCEPT ![s] = Disconnected(@), ![o] = Disconnected(@)]
      BY <1>3, <2>4 DEF ChatsAfter
    <3>2. \A t \in Side : /\ Disconnected(chat[t]) \in Backend
                          /\ Disconnected(chat[t]).next = Len(Disconnected(chat[t]).messages) + 1
      BY DEF TypeOK, Disconnected, Backend
    <3>3. QED
      BY <1>1, <3>1, <3>2 DEF TypeOK, ChatType
  <2>5. CASE kind \notin {"CONNECT", "MSG", "DISCONNECT"}
    BY <1>3, <2>5 DEF ChatsAfter, TypeOK, ChatType
  <2>6. QED
    BY <2>2, <2>3, <2>4, <2>5
<1>4. QED
  BY <1>2, <1>3

\* Every way a command can go keeps the types.
LEMMA CommandTypeOK ==
  ASSUME TypeOK, NEW s \in Side, NEW kind \in Kind, Command(s, kind)
  PROVE  TypeOK'
<1>1. reports' \in Seq(Report) /\ LineText \in Text
  BY ReportedType DEF Command, Refused, RequestRefused, TransmitFails, RemoteRefuses,
       Delivered, SaveFails
<1>2. ChatType /\ AppType /\ faults' \in Nat
  BY DEF TypeOK, ChatType, AppType, Command, Refused, RequestRefused, TransmitFails,
       RemoteRefuses, Delivered, SaveFails, Fault, Reported
<1>3. /\ saved' \in [Side -> Seq(Text)]
  <2>1. \/ saved' = saved
        \/ saved' = [saved EXCEPT ![Other(s)] = Append(@, LineText)]
    BY DEF Command, Refused, RequestRefused, TransmitFails, RemoteRefuses, Delivered,
         SaveFails, Reported
  <2>2. Other(s) \in Side /\ saved \in [Side -> Seq(Text)]
    BY DEF Side, Other, TypeOK
  <2>3. \A texts \in Seq(Text) : Append(texts, LineText) \in Seq(Text)
    BY <1>1
  <2>4. QED
    BY <2>1, <2>2, <2>3
<1>4. /\ packets' \in Seq(Packet)
      /\ \A i \in DOMAIN packets' : packets'[i].sequence = i
  <2>1. Len(PacketKinds(kind)) \in Nat
    BY PeerAssumption DEF PacketKinds
  <2>2. \/ packets' = packets
        \/ \E n \in 0..Len(PacketKinds(kind)) : Transmitted(s, kind, n)
    BY <2>1 DEF Command, Refused, RequestRefused, TransmitFails, RemoteRefuses, Delivered,
         SaveFails, AllTransmitted, Reported
  <2>3. QED
    BY <1>1, <2>2, TransmittedType DEF TypeOK
<1>5. ChatType'
  <2>1. \/ chat' = chat
        \/ Allowed(s, kind) /\ chat' = [chat EXCEPT ![s] = ChatSent(s, kind)]
        \/ Allowed(s, kind) /\ chat' = ChatsAfter(s, kind)
    BY DEF Command, Refused, RequestRefused, TransmitFails, RemoteRefuses, Delivered,
         SaveFails, AllTransmitted, Reported
  <2>2. QED
    BY <1>1, <1>2, <2>1, SenderType, BothType DEF ChatType
<1>6. AppType'
  <2>1. \/ app' = app
        \/ \E a \in {app[s], RecordRefused(app[s])} : app' = [app EXCEPT ![s] = a]
        \/ Allowed(s, kind) /\ app' = [app EXCEPT ![s] = AppWith(app[s], s, kind)]
        \/ Allowed(s, kind) /\ app' = AppsAfter(s, kind)
    BY DEF Command, Refused, RequestRefused, TransmitFails, RemoteRefuses, Delivered,
         SaveFails, AllTransmitted, Reported
  <2>2. \A a \in {app[s], RecordRefused(app[s])} : a \in AppModel /\ a.next > Len(a.entries)
    BY <1>2 DEF AppType, RecordRefused, AppModel
  <2>3. ASSUME NEW a \in {app[s], RecordRefused(app[s])}, app' = [app EXCEPT ![s] = a]
        PROVE AppType'
    BY <1>2, <2>2, <2>3 DEF AppType
  <2>4. QED
    BY <1>1, <1>2, <2>1, <2>3, SenderType, BothType DEF AppType
<1>7. QED
  BY <1>1, <1>2, <1>3, <1>4, <1>5, <1>6 DEF TypeOK, ChatType, AppType

\* Type correctness: whatever fails, log and app-model counters stay in step with
\* their lists and the packet reports are numbered without a gap.
THEOREM TypeCorrect == Spec => []TypeOK
<1>1. TypeOK /\ [Next]_vars => TypeOK'
  <2>1. ASSUME TypeOK, UNCHANGED vars PROVE TypeOK'
    BY <2>1 DEF TypeOK, vars
  <2>2. QED
    BY <2>1, CommandTypeOK DEF Next
<1>2. QED
  BY <1>1, InitTypeOK, PTL DEF Spec

-----------------------------------------------------------------------------
(* Sessions                                                                *)

\* The command at i was a CONNECT that failed, and since then no CONNECT or DISCONNECT
\* was reported ok.
Splits(rs, i) ==
  /\ rs[i].kind = "CONNECT" /\ ~rs[i].ok
  /\ \A j \in DOMAIN rs : j > i /\ rs[j].kind \in {"CONNECT", "DISCONNECT"} => ~rs[j].ok

\* A command that leaves both sessions as they were and is none of the two, or fails,
\* leaves the reason for a split where it is.
LEMMA StillSplit ==
  ASSUME TypeOK, OnlyFailedConnectSplits, NEW s \in Side, NEW kind \in Kind, NEW ok \in BOOLEAN,
         Reported(s, kind, ok), kind \in {"CONNECT", "DISCONNECT"} => ~ok,
         \A n \in Side : IsConnected(chat'[n]) <=> IsConnected(chat[n])
  PROVE  OnlyFailedConnectSplits'
<1> SUFFICES ASSUME IsConnected(chat'[A]) # IsConnected(chat'[B])
             PROVE  \E i \in DOMAIN reports' : Splits(reports', i)
  BY DEF OnlyFailedConnectSplits, Splits
<1>1. PICK i \in DOMAIN reports : Splits(reports, i)
  <2>1. A \in Side /\ B \in Side
    BY DEF Side
  <2>2. IsConnected(chat[A]) # IsConnected(chat[B])
    BY <2>1 DEF IsConnected
  <2>3. QED
    BY <2>2, Zenon DEF OnlyFailedConnectSplits, Splits
<1> DEFINE r == [side |-> s, kind |-> kind, text |-> LineText, ok |-> ok]
<1>2. reports \in Seq(Report) /\ reports' = Append(reports, r)
  BY DEF TypeOK, Reported
<1>3. r.kind = kind /\ r.ok = ok
  OBVIOUS
<1> HIDE DEF r
<1>4. /\ DOMAIN reports' = 1..(Len(reports) + 1)
      /\ \A j \in 1..Len(reports) : reports'[j] = reports[j]
      /\ reports'[Len(reports) + 1] = r
      /\ DOMAIN reports = 1..Len(reports) /\ Len(reports) \in Nat
  BY <1>2
<1>5. Splits(reports', i)
  BY <1>1, <1>3, <1>4 DEF Splits
<1>6. QED
  BY <1>4, <1>5

\* A CONNECT that fails is a reason by itself.
LEMMA SplitsNow ==
  ASSUME TypeOK, NEW s \in Side, Reported(s, "CONNECT", FALSE)
  PROVE  OnlyFailedConnectSplits'
<1> DEFINE r == [side |-> s, kind |-> "CONNECT", text |-> LineText, ok |-> FALSE]
<1>1. reports \in Seq(Report) /\ reports' = Append(reports, r)
  BY DEF TypeOK, Reported
<1>2. r.kind = "CONNECT" /\ ~r.ok
  OBVIOUS
<1> HIDE DEF r
<1>3. /\ DOMAIN reports' = 1..(Len(reports) + 1) /\ Len(reports) \in Nat
      /\ reports'[Len(reports) + 1] = r
  BY <1>1
<1>4. Splits(reports', Len(reports) + 1)
  BY <1>2, <1>3 DEF Splits
<1>5. QED
  BY <1>3, <1>4 DEF OnlyFailedConnectSplits, Splits

\* What a command that is no CONNECT does to its own station leaves the session alone.
LEMMA SentKeepsSession ==
  ASSUME TypeOK, NEW s \in Side, NEW kind \in Kind, kind # "CONNECT",
         chat' = [chat EXCEPT ![s] = ChatSent(s, kind)]
  PROVE  \A n \in Side : IsConnected(chat'[n]) <=> IsConnected(chat[n])
<1>1. PICK c : c = ChatSent(s, kind) /\ c.peer = chat[s].peer
  <2>1. ChatSent(s, kind).peer = chat[s].peer
    BY DEF ChatSent, SentText, PushMessage
  <2>2. QED
    BY <2>1, Zenon
<1>2. chat' = [chat EXCEPT ![s] = c]
  BY <1>1
<1>3. QED
  BY <1>1, <1>2 DEF TypeOK, IsConnected

LEMMA CommandSplits ==
  ASSUME TypeOK, OnlyFailedConnectSplits, NEW s \in Side, NEW kind \in Kind, Command(s, kind)
  PROVE  OnlyFailedConnectSplits'
<1>1. s # Other(s) /\ Other(s) \in Side /\ Side = {s, Other(s)} /\ NoCall \notin Side
  BY PeerAssumption, ChatAssumption DEF Side, Other
<1>2. CASE Refused(s, kind) \/ RequestRefused(s, kind) \/ SaveFails(s, kind)
  <2>1. chat' = chat /\ Reported(s, kind, FALSE)
    BY <1>2, Zenon DEF Refused, RequestRefused, SaveFails
  <2>2. QED
    BY <2>1, StillSplit
<1>3. CASE TransmitFails(s, kind) \/ RemoteRefuses(s, kind)
  <2>1. chat' = [chat EXCEPT ![s] = ChatSent(s, kind)] /\ Reported(s, kind, FALSE)
    BY <1>3, Zenon DEF TransmitFails, RemoteRefuses
  <2>2. CASE kind = "CONNECT"
    BY <2>1, <2>2, SplitsNow
  <2>3. CASE kind # "CONNECT"
    <3>1. \A n \in Side : IsConnected(chat'[n]) <=> IsConnected(chat[n])
      BY <2>1, <2>3, SentKeepsSession
    <3>2. QED
      BY <2>1, <3>1, StillSplit
  <2>4. QED
    BY <2>2, <2>3
<1>4. CASE Delivered(s, kind)
  <2>1. chat' = ChatsAfter(s, kind) /\ Reported(s, kind, TRUE) /\ chat \in [Side -> Backend]
    BY <1>4, Zenon DEF Delivered, TypeOK
  <2>2. CASE kind = "CONNECT"
    <3>1. chat' = [chat EXCEPT ![s] = ConnectTo(chat[s], Other(s)),
                               ![Other(s)] = ConnectTo(@, s)]
      BY <2>1, <2>2 DEF ChatsAfter, ChatSent
    <3>2. chat'[s].peer = Other(s) /\ chat'[Other(s)].peer = s
      BY <1>1, <2>1, <3>1 DEF ConnectTo
    <3>3. QED
      BY <1>1, <3>2 DEF OnlyFailedConnectSplits, IsConnected, Side
  <2>3. CASE kind = "DISCONNECT"
    <3>1. chat' = [chat EXCEPT ![s] = Disconnected(@), ![Other(s)] = Disconnected(@)]
      BY <2>1, <2>3 DEF ChatsAfter
    <3>2. chat'[s].peer = NoCall /\ chat'[Other(s)].peer = NoCall
      BY <1>1, <2>1, <3>1 DEF Disconnected
    <3>3. QED
      BY <1>1, <3>2 DEF OnlyFailedConnectSplits, IsConnected, Side
  <2>4. CASE kind \notin {"CONNECT", "DISCONNECT"}
    <3>1. \A n \in Side : IsConnected(chat'[n]) <=> IsConnected(chat[n])
      <4>1. CASE kind = "MSG"
        <5>1. PICK c : c = ChatSent(s, kind) /\ c.peer = chat[s].peer
          <6>1. ChatSent(s, kind).peer = chat[s].peer
            BY <4>1 DEF ChatSent, SentText, PushMessage
          <6>2. QED
            BY <6>1, Zenon
        <5>2. PICK d : /\ d = ReceivedText(chat[Other(s)], Other(s), s, LineText)
                       /\ d.peer = chat[Other(s)].peer
          <6>1. ReceivedText(chat[Other(s)], Other(s), s, LineText).peer = chat[Other(s)].peer
            BY DEF ReceivedText, PushMessage
          <6>2. QED
            BY <6>1, Zenon
        <5>3. chat' = [chat EXCEPT ![s] = c, ![Other(s)] = d]
          BY <1>1, <2>1, <4>1, <5>1, <5>2 DEF ChatsAfter
        <5>4. QED
          BY <1>1, <2>1, <5>1, <5>2, <5>3 DEF IsConnected
      <4>2. CASE kind # "MSG"
        BY <2>1, <2>4, <4>2 DEF ChatsAfter
      <4>3. QED
        BY <4>1, <4>2
    <3>2. QED
      BY <2>1, <2>4, <3>1, StillSplit
  <2>5. QED
    BY <2>2, <2>3, <2>4
<1>5. QED
  BY <1>2, <1>3, <1>4 DEF Command

\* The two stations disagree about their session only after a CONNECT that was reported
\* as failed, whatever else fails in between.
THEOREM SplitOnlyByFailedConnect == Spec => []OnlyFailedConnectSplits
<1>1. Init => OnlyFailedConnectSplits
  BY DEF Init, OnlyFailedConnectSplits, IsConnected, NewBackend, Side
<1>2. TypeOK /\ OnlyFailedConnectSplits /\ [Next]_vars => OnlyFailedConnectSplits'
  <2>1. ASSUME OnlyFailedConnectSplits, UNCHANGED vars PROVE OnlyFailedConnectSplits'
    BY <2>1 DEF OnlyFailedConnectSplits, vars
  <2>2. QED
    BY <2>1, CommandSplits DEF Next
<1>3. QED
  BY <1>1, <1>2, TypeCorrect, PTL DEF Spec
-----------------------------------------------------------------------------
(* What the report says of both ends                                       *)

\* The texts of a list that grows by one element.
LEMMA TextsMore ==
  ASSUME NEW S, \A x \in S : x.text \in Text, NEW list \in Seq(S), NEW e \in S
  PROVE  /\ Texts(list) \in Seq(Text)
         /\ Texts(Append(list, e)) = Append(Texts(list), e.text)
<1> DEFINE more == Append(list, e)
           N == Len(list)
           ts == Texts(list)
           us == Texts(more)
<1>1. /\ N \in Nat /\ DOMAIN list = 1..N /\ DOMAIN more = 1..(N + 1)
      /\ \A i \in 1..N : list[i] \in S /\ more[i] = list[i]
      /\ more[N + 1] = e
  BY AppendProperties, LenProperties, ElementOfSeq
<1> HIDE DEF more, N
<1>2. /\ ts = [i \in 1..N |-> list[i].text]
      /\ us = [i \in 1..(N + 1) |-> more[i].text]
  BY <1>1 DEF Texts
<1>3. ts \in Seq(Text) /\ Len(ts) = N
  BY <1>1, <1>2
<1>4. /\ DOMAIN us = 1..(N + 1) /\ us \in Seq(Text) /\ Len(us) = N + 1
      /\ \A i \in 1..N : us[i] = ts[i]
      /\ us[N + 1] = e.text
  BY <1>1, <1>2
<1> HIDE DEF ts, us
<1>5. PICK last : last = Append(ts, e.text)
  OBVIOUS
<1>6. /\ last \in Seq(Text) /\ Len(last) = N + 1
      /\ \A i \in 1..N : last[i] = ts[i]
      /\ last[N + 1] = e.text
  BY <1>1, <1>3, <1>5, AppendProperties
<1>7. us = last
  <2>1. \A i \in 1..(N + 1) : us[i] = last[i]
    BY <1>1, <1>4, <1>6
  <2> QED BY <1>4, <1>6, <2>1, SeqEqual
<1> QED BY <1>3, <1>5, <1>7 DEF ts, us, more

\* One element more is left out of the texts of some, or comes last.
LEMMA SomeTextsMore ==
  ASSUME NEW S, \A x \in S : x.text \in Text, NEW list \in Seq(S), NEW e \in S,
         NEW D, NEW E, \A i \in 1..Len(list) : i \in D <=> i \in E
  PROVE  /\ Texts(Picked(list, D)) \in Seq(Text)
         /\ Texts(Picked(Append(list, e), E)) =
              IF Len(list) + 1 \in E THEN Append(Texts(Picked(list, D)), e.text)
              ELSE Texts(Picked(list, D))
<1>1. Picked(list, D) \in Seq(S)
  BY PickedType
<1>2. Picked(Append(list, e), E) = IF Len(list) + 1 \in E THEN Append(Picked(list, D), e)
                                   ELSE Picked(list, D)
  BY PickedMore
<1> QED BY <1>1, <1>2, TextsMore

\* The ok texts of a report with a line more.
LEMMA OkTextsMore ==
  ASSUME TypeOK, NEW s \in Side, NEW kind \in Kind, NEW ok \in BOOLEAN,
         Reported(s, kind, ok), LineText \in Text, NEW t \in Side, NEW kinds
  PROVE  /\ OkTexts(t, kinds) \in Seq(Text)
         /\ OkTexts(t, kinds)' = IF t = s /\ ok /\ kind \in kinds
                                 THEN Append(OkTexts(t, kinds), LineText)
                                 ELSE OkTexts(t, kinds)
<1> DEFINE r == [side |-> s, kind |-> kind, text |-> LineText, ok |-> ok]
           D == {i \in DOMAIN reports : IsOk(reports[i], t, kinds)}
           E == {i \in DOMAIN reports' : IsOk(reports'[i], t, kinds)}
<1>1. r \in Report /\ reports \in Seq(Report) /\ reports' = Append(reports, r)
      /\ \A x \in Report : x.text \in Text
  BY DEF Report, Reported, TypeOK
<1>2. r.side = s /\ r.kind = kind /\ r.ok = ok /\ r.text = LineText
  OBVIOUS
<1> HIDE DEF r
<1>3. /\ Len(reports) \in Nat /\ DOMAIN reports = 1..Len(reports)
      /\ DOMAIN reports' = 1..(Len(reports) + 1)
      /\ \A i \in 1..Len(reports) : reports'[i] = reports[i]
      /\ reports'[Len(reports) + 1] = r
  BY <1>1, AppendProperties, LenProperties
<1>4. \A i \in 1..Len(reports) : i \in D <=> i \in E
  BY <1>3
<1>5. Len(reports) + 1 \in E <=> t = s /\ ok /\ kind \in kinds
  BY <1>2, <1>3 DEF IsOk
<1>6. OkTexts(t, kinds) = Texts(Picked(reports, D)) /\ OkTexts(t, kinds)' = Texts(Picked(reports', E))
  BY DEF OkTexts
<1> HIDE DEF D, E
<1> QED BY <1>1, <1>2, <1>4, <1>5, <1>6, SomeTextsMore

\* TextsOf of a log.
Said(list, direction) ==
  Texts(Picked(list, {i \in DOMAIN list : list[i].direction = direction}))

\* A message more in a log is a text more one way and none the other.
LEMMA LogMore ==
  ASSUME NEW list \in Seq(Message), NEW m \in Message, NEW direction
  PROVE  /\ Said(list, direction) \in Seq(Text)
         /\ m.direction = direction =>
              Said(Append(list, m), direction) = Append(Said(list, direction), m.text)
         /\ m.direction # direction => Said(Append(list, m), direction) = Said(list, direction)
<1> DEFINE longer == Append(list, m)
           D == {i \in DOMAIN list : list[i].direction = direction}
           E == {i \in DOMAIN longer : longer[i].direction = direction}
<1>1. \A x \in Message : x.text \in Text
  BY DEF Message
<1>2. /\ Len(list) \in Nat /\ DOMAIN list = 1..Len(list) /\ DOMAIN longer = 1..(Len(list) + 1)
      /\ \A i \in 1..Len(list) : longer[i] = list[i]
      /\ longer[Len(list) + 1] = m
  BY AppendProperties, LenProperties
<1> HIDE DEF longer
<1>3. \A i \in 1..Len(list) : i \in D <=> i \in E
  BY <1>2
<1>4. Len(list) + 1 \in E <=> m.direction = direction
  BY <1>2
<1>5. Said(list, direction) = Texts(Picked(list, D)) /\ Said(longer, direction) = Texts(Picked(longer, E))
  BY DEF Said
<1> HIDE DEF D, E
<1>6. /\ Texts(Picked(list, D)) \in Seq(Text)
      /\ Texts(Picked(longer, E)) = IF Len(list) + 1 \in E
                                    THEN Append(Texts(Picked(list, D)), m.text)
                                    ELSE Texts(Picked(list, D))
  BY <1>1, <1>3, SomeTextsMore DEF longer
<1> QED BY <1>4, <1>5, <1>6 DEF longer

\* What a command's own station adds to its log.
LEMMA SentTexts ==
  ASSUME TypeOK, NEW s \in Side, NEW kind \in Kind, Allowed(s, kind), LineText \in Text
  PROVE  /\ TextsOf(ChatSent(s, kind), "Inbound") = TextsOf(chat[s], "Inbound")
         /\ kind # "MSG" => TextsOf(ChatSent(s, kind), "Outbound") = TextsOf(chat[s], "Outbound")
         /\ kind = "MSG" => TextsOf(ChatSent(s, kind), "Outbound")
                              = Append(TextsOf(chat[s], "Outbound"), LineText)
<1>1. s \in Call /\ chat[s] \in Backend
  BY PeerAssumption DEF TypeOK, Side
<1>2. CASE kind = "MSG"
  <2>1. PICK list \in Seq(Message) : list = chat[s].messages
    BY <1>1 DEF Backend
  <2>2. chat[s].peer \in Call
    BY <1>1, <1>2 DEF Allowed, IsConnected, Backend
  <2> DEFINE m == [sequence |-> chat[s].next, direction |-> "Outbound", from |-> s,
                   to |-> chat[s].peer, text |-> LineText]
  <2>3. m \in Message /\ m.direction = "Outbound" /\ m.text = LineText
    BY <1>1, <2>2 DEF Message, Direction, Backend
  <2>4. ChatSent(s, kind).messages = Append(list, m)
    BY <1>2, <2>1 DEF ChatSent, SentText, PushMessage
  <2> HIDE DEF m
  <2>5. \A d : /\ TextsOf(ChatSent(s, kind), d) = Said(Append(list, m), d)
               /\ TextsOf(chat[s], d) = Said(list, d)
    BY <2>1, <2>4 DEF TextsOf, Said
  <2>6. /\ Said(Append(list, m), "Outbound") = Append(Said(list, "Outbound"), LineText)
        /\ Said(Append(list, m), "Inbound") = Said(list, "Inbound")
    BY <2>3, LogMore
  <2> QED BY <1>2, <2>5, <2>6
<1>3. CASE kind # "MSG"
  BY <1>3 DEF ChatSent, ConnectTo, TextsOf
<1> QED BY <1>2, <1>3

\* What a text that was taken adds.
LEMMA ReceivedTexts ==
  ASSUME TypeOK, NEW s \in Side, NEW o \in Side, LineText \in Text
  PROVE  /\ TextsOf(ReceivedText(chat[o], o, s, LineText), "Outbound")
              = TextsOf(chat[o], "Outbound")
         /\ TextsOf(ReceivedText(chat[o], o, s, LineText), "Inbound")
              = Append(TextsOf(chat[o], "Inbound"), LineText)
<1>1. s \in Call /\ o \in Call /\ chat[o] \in Backend
  BY PeerAssumption DEF TypeOK, Side
<1>2. PICK list \in Seq(Message) : list = chat[o].messages
  BY <1>1 DEF Backend
<1> DEFINE m == [sequence |-> chat[o].next, direction |-> "Inbound", from |-> s,
                 to |-> o, text |-> LineText]
<1>3. m \in Message /\ m.direction = "Inbound" /\ m.text = LineText
  BY <1>1 DEF Message, Direction, Backend
<1>4. ReceivedText(chat[o], o, s, LineText).messages = Append(list, m)
  BY <1>2 DEF ReceivedText, PushMessage
<1> HIDE DEF m
<1>5. \A d : /\ TextsOf(ReceivedText(chat[o], o, s, LineText), d) = Said(Append(list, m), d)
             /\ TextsOf(chat[o], d) = Said(list, d)
  BY <1>2, <1>4 DEF TextsOf, Said
<1>6. /\ Said(Append(list, m), "Inbound") = Append(Said(list, "Inbound"), LineText)
      /\ Said(Append(list, m), "Outbound") = Said(list, "Outbound")
  BY <1>3, LogMore
<1> QED BY <1>5, <1>6

\* What a post adds to the posts an app model has of a station.
LEMMA PostsMore ==
  ASSUME TypeOK, NEW u \in Side, NEW s \in Side, NEW kind \in Kind, LineText \in Text,
         NEW t \in Side
  PROVE  /\ PostsOf(app[u], t) \in Seq(Text)
         /\ PostsOf(AppWith(app[u], s, kind), t) =
              IF t = s /\ kind \in AppKind \cup {"FILE"}
              THEN Append(PostsOf(app[u], t), LineText) ELSE PostsOf(app[u], t)
         /\ PostsOf(RecordRefused(app[u]), t) = PostsOf(app[u], t)
<1> DEFINE list == app[u].entries
           e == [sequence |-> app[u].next, from |-> s, to |-> Addressee(s, kind),
                 text |-> LineText]
           longer == Append(list, e)
           D == {i \in DOMAIN list : list[i].from = t}
           E == {i \in DOMAIN longer : longer[i].from = t}
<1>1. list \in Seq(Entry) /\ e \in Entry /\ \A x \in Entry : x.text \in Text
  BY PeerAssumption DEF Entry, Addressee, Side, Other, AppModel, TypeOK
<1>2. e.from = s /\ e.text = LineText
  OBVIOUS
<1>3. PostsOf(app[u], t) = Texts(Picked(list, D))
  BY DEF PostsOf
<1>4. kind \in AppKind \cup {"FILE"}
        => PostsOf(AppWith(app[u], s, kind), t) = Texts(Picked(longer, E))
  BY DEF PostsOf, AppWith, Recorded
<1>5. kind \notin AppKind \cup {"FILE"} => AppWith(app[u], s, kind) = app[u]
  BY DEF AppWith
<1>6. PostsOf(RecordRefused(app[u]), t) = PostsOf(app[u], t)
  BY DEF PostsOf, RecordRefused
<1> HIDE DEF list, e
<1>7. /\ Len(list) \in Nat /\ DOMAIN list = 1..Len(list) /\ DOMAIN longer = 1..(Len(list) + 1)
      /\ \A i \in 1..Len(list) : longer[i] = list[i]
      /\ longer[Len(list) + 1] = e
  BY <1>1, AppendProperties, LenProperties
<1> HIDE DEF longer
<1>8. \A i \in 1..Len(list) : i \in D <=> i \in E
  BY <1>7
<1>9. Len(list) + 1 \in E <=> t = s
  BY <1>2, <1>7
<1> HIDE DEF D, E
<1>10. /\ Texts(Picked(list, D)) \in Seq(Text)
       /\ Texts(Picked(longer, E)) = IF Len(list) + 1 \in E
                                     THEN Append(Texts(Picked(list, D)), e.text)
                                     ELSE Texts(Picked(list, D))
  BY <1>1, <1>8, SomeTextsMore DEF longer
<1> QED BY <1>2, <1>3, <1>4, <1>5, <1>6, <1>9, <1>10

\* The report and the two ends after a command of station s: what it adds where.  A
\* text it brings to the other station is an ok one's, a post it brings there is
\* recorded at its own, and an ok command leaves nothing out.
Effect(s, kind, ok) ==
  LET o == Other(s) IN
  /\ Reported(s, kind, ok)
  /\ TextsOf(chat[o], "Inbound")' = IF ok /\ kind = "MSG"
                                    THEN Append(TextsOf(chat[o], "Inbound"), LineText)
                                    ELSE TextsOf(chat[o], "Inbound")
  /\ saved'[o] = IF ok /\ kind = "FILE" THEN Append(saved[o], LineText) ELSE saved[o]
  /\ \/ /\ PostsOf(app[o], s)' = Append(PostsOf(app[o], s), LineText)
        /\ PostsOf(app[s], s)' = Append(PostsOf(app[s], s), LineText)
     \/ /\ PostsOf(app[o], s)' = PostsOf(app[o], s)
        /\ \/ PostsOf(app[s], s)' = PostsOf(app[s], s)
           \/ PostsOf(app[s], s)' = Append(PostsOf(app[s], s), LineText)
        /\ ~(ok /\ kind \in AppKind \cup {"FILE"})
  /\ \/ TextsOf(chat[s], "Outbound")' = Append(TextsOf(chat[s], "Outbound"), LineText)
     \/ TextsOf(chat[s], "Outbound")' = TextsOf(chat[s], "Outbound") /\ ~(ok /\ kind = "MSG")
  /\ TextsOf(chat[s], "Inbound")' = TextsOf(chat[s], "Inbound")
  /\ TextsOf(chat[o], "Outbound")' = TextsOf(chat[o], "Outbound")
  /\ saved'[s] = saved[s]
  /\ PostsOf(app[s], o)' = PostsOf(app[s], o)
  /\ PostsOf(app[o], o)' = PostsOf(app[o], o)

\* The texts are sequences of texts.
LEMMA TextTypes ==
  ASSUME TypeOK, LineText \in Text, NEW s \in Side, NEW t \in Side
  PROVE  /\ TextsOf(chat[s], "Outbound") \in Seq(Text)
         /\ PostsOf(app[s], t) \in Seq(Text)
<1>1. s \in Call /\ chat[s] \in Backend
  BY PeerAssumption DEF TypeOK, Side
<1>2. PICK m \in Message : m = [sequence |-> 0, direction |-> "Outbound", from |-> s,
                                to |-> s, text |-> LineText]
  BY <1>1 DEF Message, Direction
<1>3. TextsOf(chat[s], "Outbound") \in Seq(Text)
  <2>1. chat[s].messages \in Seq(Message)
    BY <1>1 DEF Backend
  <2> QED BY <1>2, <2>1, LogMore DEF TextsOf, Said
<1>4. PostsOf(app[s], t) \in Seq(Text)
  <2>1. "BEACON" \in Kind
    BY DEF Kind, AppKind
  <2> QED BY <2>1, PostsMore
<1> QED BY <1>3, <1>4

\* Such a command leaves the report true of both ends.
LEMMA EffectIsTold ==
  ASSUME TypeOK, OkIsBoth, NEW s \in Side, NEW kind \in Kind, NEW ok \in BOOLEAN,
         Effect(s, kind, ok)
  PROVE  OkIsBoth'
<1> DEFINE o == Other(s)
<1>1. o \in Side /\ s # o /\ Other(o) = s /\ Side = {s, o}
  BY PeerAssumption DEF Side, Other
<1>2. Reported(s, kind, ok) /\ LineText \in Text
  BY ReportedType DEF Effect
<1>3. \A t \in Side : \A kinds :
        /\ OkTexts(t, kinds) \in Seq(Text)
        /\ OkTexts(t, kinds)' = IF t = s /\ ok /\ kind \in kinds
                                THEN Append(OkTexts(t, kinds), LineText)
                                ELSE OkTexts(t, kinds)
  BY <1>2, OkTextsMore
<1>4. \A t, u \in Side : /\ TextsOf(chat[t], "Outbound") \in Seq(Text)
                         /\ PostsOf(app[t], u) \in Seq(Text)
  BY <1>2, TextTypes
<1>5. /\ TextsOf(chat[o], "Inbound") = OkTexts(s, {"MSG"})
      /\ saved[o] = OkTexts(s, {"FILE"})
      /\ IsPartOf(OkTexts(s, AppKind \cup {"FILE"}), PostsOf(app[o], s))
      /\ IsPartOf(PostsOf(app[o], s), PostsOf(app[s], s))
      /\ IsPartOf(OkTexts(s, {"MSG"}), TextsOf(chat[s], "Outbound"))
  BY DEF OkIsBoth
<1>6. /\ TextsOf(chat[s], "Inbound") = OkTexts(o, {"MSG"})
      /\ saved[s] = OkTexts(o, {"FILE"})
      /\ IsPartOf(OkTexts(o, AppKind \cup {"FILE"}), PostsOf(app[s], o))
      /\ IsPartOf(PostsOf(app[s], o), PostsOf(app[o], o))
      /\ IsPartOf(OkTexts(o, {"MSG"}), TextsOf(chat[o], "Outbound"))
  BY <1>1 DEF OkIsBoth
<1> HIDE DEF o
<1>7. /\ (TextsOf(chat[s], "Inbound") = OkTexts(o, {"MSG"}))'
      /\ (saved[s] = OkTexts(o, {"FILE"}))'
      /\ IsPartOf(OkTexts(o, AppKind \cup {"FILE"}), PostsOf(app[s], o))'
      /\ IsPartOf(PostsOf(app[s], o), PostsOf(app[o], o))'
      /\ IsPartOf(OkTexts(o, {"MSG"}), TextsOf(chat[o], "Outbound"))'
  BY <1>1, <1>3, <1>6 DEF Effect, o
<1>8. (TextsOf(chat[o], "Inbound") = OkTexts(s, {"MSG"}))'
  BY <1>1, <1>3, <1>5 DEF Effect, o
<1>9. (saved[o] = OkTexts(s, {"FILE"}))'
  BY <1>1, <1>3, <1>5 DEF Effect, o
<1>10. IsPartOf(OkTexts(s, AppKind \cup {"FILE"}), PostsOf(app[o], s))'
  <2> DEFINE kinds == AppKind \cup {"FILE"}
             ts == OkTexts(s, kinds)
             us == PostsOf(app[o], s)
  <2>1. ts' = IF ok /\ kind \in kinds THEN Append(ts, LineText) ELSE ts
    BY <1>3
  <2>2. us' = Append(us, LineText) \/ (us' = us /\ ~(ok /\ kind \in kinds))
    BY DEF Effect, o
  <2>3. ts \in Seq(Text) /\ us \in Seq(Text) /\ IsPartOf(ts, us)
    BY <1>1, <1>3, <1>4, <1>5
  <2> HIDE DEF ts, us
  <2>4. IsPartOf(ts', us')
    BY <1>2, <2>1, <2>2, <2>3, PartMore, PartBoth
  <2> QED BY <2>4 DEF ts, us
<1>11. IsPartOf(PostsOf(app[o], s), PostsOf(app[s], s))'
  <2> DEFINE ts == PostsOf(app[o], s)
             us == PostsOf(app[s], s)
  <2>1. \/ ts' = Append(ts, LineText) /\ us' = Append(us, LineText)
        \/ ts' = ts /\ (us' = us \/ us' = Append(us, LineText))
    BY DEF Effect, o
  <2>2. ts \in Seq(Text) /\ us \in Seq(Text) /\ IsPartOf(ts, us)
    BY <1>1, <1>4, <1>5
  <2> HIDE DEF ts, us
  <2>3. IsPartOf(ts', us')
    BY <1>2, <2>1, <2>2, PartMore, PartBoth
  <2> QED BY <2>3 DEF ts, us
<1>12. IsPartOf(OkTexts(s, {"MSG"}), TextsOf(chat[s], "Outbound"))'
  <2> DEFINE ts == OkTexts(s, {"MSG"})
             us == TextsOf(chat[s], "Outbound")
  <2>1. ts' = IF ok /\ kind = "MSG" THEN Append(ts, LineText) ELSE ts
    BY <1>3
  <2>2. us' = Append(us, LineText) \/ (us' = us /\ ~(ok /\ kind = "MSG"))
    BY DEF Effect
  <2>3. ts \in Seq(Text) /\ us \in Seq(Text) /\ IsPartOf(ts, us)
    BY <1>1, <1>3, <1>4, <1>5
  <2> HIDE DEF ts, us
  <2>4. IsPartOf(ts', us')
    BY <1>2, <2>1, <2>2, <2>3, PartMore, PartBoth
  <2> QED BY <2>4 DEF ts, us
<1> QED
  BY <1>1, <1>7, <1>8, <1>9, <1>10, <1>11, <1>12 DEF OkIsBoth, o

\* Every command is one.
LEMMA CommandEffect ==
  ASSUME TypeOK, NEW s \in Side, NEW kind \in Kind, Command(s, kind)
  PROVE  \E ok \in BOOLEAN : Effect(s, kind, ok)
<1> DEFINE o == Other(s)
<1>1. o \in Side /\ s # o /\ Side = {s, o} /\ o = Other(s)
  BY PeerAssumption DEF Side, Other
<1>2. LineText \in Text
  BY ReportedType DEF Command, Refused, RequestRefused, TransmitFails, RemoteRefuses,
       Delivered, SaveFails
<1> HIDE DEF o
<1>3. /\ chat \in [Side -> Backend] /\ app \in [Side -> AppModel] /\ saved \in [Side -> Seq(Text)]
  BY DEF TypeOK
\* What an app model has of a station after each change there is.
<1>4. /\ PostsOf(AppWith(app[s], s, kind), s) =
           IF kind \in AppKind \cup {"FILE"} THEN Append(PostsOf(app[s], s), LineText)
           ELSE PostsOf(app[s], s)
      /\ PostsOf(AppWith(app[o], s, kind), s) =
           IF kind \in AppKind \cup {"FILE"} THEN Append(PostsOf(app[o], s), LineText)
           ELSE PostsOf(app[o], s)
      /\ PostsOf(AppWith(app[s], s, kind), o) = PostsOf(app[s], o)
      /\ PostsOf(AppWith(app[o], s, kind), o) = PostsOf(app[o], o)
      /\ PostsOf(RecordRefused(app[s]), s) = PostsOf(app[s], s)
      /\ PostsOf(RecordRefused(app[s]), o) = PostsOf(app[s], o)
  BY <1>1, <1>2, PostsMore
<1>5. CASE Refused(s, kind)
  BY <1>1, <1>5 DEF Refused, Effect, Allowed, AppKind, TextsOf, PostsOf
<1>6. CASE RequestRefused(s, kind)
  <2>1. PICK a \in {app[s], RecordRefused(app[s])} : app' = [app EXCEPT ![s] = a]
    BY <1>6 DEF RequestRefused
  <2>2. app'[s] = a /\ app'[o] = app[o]
    BY <1>1, <1>3, <2>1
  <2>3. PostsOf(a, s) = PostsOf(app[s], s) /\ PostsOf(a, o) = PostsOf(app[s], o)
    BY <1>4, <2>1
  <2>4. Reported(s, kind, FALSE) /\ chat' = chat /\ saved' = saved
    BY <1>6 DEF RequestRefused
  <2>5. \A t, u \in Side : PostsOf(app[t], u)' = PostsOf(app'[t], u)
    BY DEF PostsOf
  <2>6. \A t \in Side : \A d : TextsOf(chat[t], d)' = TextsOf(chat[t], d)
    BY <2>4 DEF TextsOf
  <2>7. Effect(s, kind, FALSE)
    BY <1>1, <2>2, <2>3, <2>4, <2>5, <2>6 DEF Effect
  <2> QED BY <2>7
<1>7. CASE TransmitFails(s, kind)
  <2>1. /\ Allowed(s, kind) /\ Reported(s, kind, FALSE) /\ saved' = saved
        /\ chat' = [chat EXCEPT ![s] = ChatSent(s, kind)]
        /\ app' = [app EXCEPT ![s] = AppWith(app[s], s, kind)]
    BY <1>7 DEF TransmitFails
  <2>2. /\ chat'[s] = ChatSent(s, kind) /\ chat'[o] = chat[o]
        /\ app'[s] = AppWith(app[s], s, kind) /\ app'[o] = app[o]
    BY <1>1, <1>3, <2>1
  <2>3. \A t, u \in Side : \A d : /\ PostsOf(app[t], u)' = PostsOf(app'[t], u)
                                  /\ TextsOf(chat[t], d)' = TextsOf(chat'[t], d)
    BY DEF PostsOf, TextsOf
  <2>4. /\ TextsOf(chat'[s], "Inbound") = TextsOf(chat[s], "Inbound")
        /\ \/ TextsOf(chat'[s], "Outbound") = TextsOf(chat[s], "Outbound")
           \/ TextsOf(chat'[s], "Outbound") = Append(TextsOf(chat[s], "Outbound"), LineText)
    BY <1>2, <2>1, <2>2, SentTexts
  <2>5. /\ TextsOf(chat[s], "Inbound")' = TextsOf(chat[s], "Inbound")
        /\ \A d : TextsOf(chat[o], d)' = TextsOf(chat[o], d)
        /\ \/ TextsOf(chat[s], "Outbound")' = TextsOf(chat[s], "Outbound")
           \/ TextsOf(chat[s], "Outbound")' = Append(TextsOf(chat[s], "Outbound"), LineText)
    BY <1>1, <2>2, <2>3, <2>4
  <2>6. /\ PostsOf(app[o], s)' = PostsOf(app[o], s) /\ PostsOf(app[o], o)' = PostsOf(app[o], o)
        /\ PostsOf(app[s], o)' = PostsOf(app[s], o)
        /\ \/ PostsOf(app[s], s)' = PostsOf(app[s], s)
           \/ PostsOf(app[s], s)' = Append(PostsOf(app[s], s), LineText)
    BY <1>1, <1>4, <2>2, <2>3
  <2>7. Effect(s, kind, FALSE)
    BY <1>1, <2>1, <2>5, <2>6 DEF Effect
  <2> QED BY <2>7
<1>8. CASE RemoteRefuses(s, kind)
  <2>1. /\ Allowed(s, kind) /\ Reported(s, kind, FALSE) /\ saved' = saved /\ app' = app
        /\ chat' = [chat EXCEPT ![s] = ChatSent(s, kind)]
    BY <1>8 DEF RemoteRefuses, AllTransmitted
  <2>2. /\ chat'[s] = ChatSent(s, kind) /\ chat'[o] = chat[o]
    BY <1>1, <1>3, <2>1
  <2>3. \A t, u \in Side : \A d : /\ PostsOf(app[t], u)' = PostsOf(app[t], u)
                                  /\ TextsOf(chat[t], d)' = TextsOf(chat'[t], d)
    BY <2>1 DEF PostsOf, TextsOf
  <2>4. /\ TextsOf(chat'[s], "Inbound") = TextsOf(chat[s], "Inbound")
        /\ \/ TextsOf(chat'[s], "Outbound") = TextsOf(chat[s], "Outbound")
           \/ TextsOf(chat'[s], "Outbound") = Append(TextsOf(chat[s], "Outbound"), LineText)
    BY <1>2, <2>1, <2>2, SentTexts
  <2>5. /\ TextsOf(chat[s], "Inbound")' = TextsOf(chat[s], "Inbound")
        /\ \A d : TextsOf(chat[o], d)' = TextsOf(chat[o], d)
        /\ \/ TextsOf(chat[s], "Outbound")' = TextsOf(chat[s], "Outbound")
           \/ TextsOf(chat[s], "Outbound")' = Append(TextsOf(chat[s], "Outbound"), LineText)
    BY <1>1, <2>2, <2>3, <2>4
  <2>6. Effect(s, kind, FALSE)
    BY <1>1, <2>1, <2>3, <2>5 DEF Effect
  <2> QED BY <2>6
<1>9. CASE Delivered(s, kind)
  <2>1. /\ Allowed(s, kind) /\ Reported(s, kind, TRUE)
        /\ chat' = ChatsAfter(s, kind) /\ app' = AppsAfter(s, kind)
        /\ saved' = IF kind = "FILE" THEN [saved EXCEPT ![o] = Append(@, LineText)] ELSE saved
    BY <1>9, <1>1 DEF Delivered, AllTransmitted
  <2>2. /\ saved'[s] = saved[s]
        /\ saved'[o] = IF kind = "FILE" THEN Append(saved[o], LineText) ELSE saved[o]
    BY <1>1, <1>3, <2>1
  <2>3. app'[s] = AppWith(app[s], s, kind) /\ app'[o] = AppWith(app[o], s, kind)
    BY <1>1, <1>3, <2>1 DEF AppsAfter
  <2>4. \A t, u \in Side : \A d : /\ PostsOf(app[t], u)' = PostsOf(app'[t], u)
                                  /\ TextsOf(chat[t], d)' = TextsOf(chat'[t], d)
    BY DEF PostsOf, TextsOf
  <2>5. CASE kind = "MSG"
    <3>1. /\ chat'[s] = ChatSent(s, kind)
          /\ chat'[o] = ReceivedText(chat[o], o, s, LineText)
      BY <1>1, <1>3, <2>1, <2>5 DEF ChatsAfter
    <3>2. /\ TextsOf(chat'[s], "Inbound") = TextsOf(chat[s], "Inbound")
          /\ TextsOf(chat'[s], "Outbound") = Append(TextsOf(chat[s], "Outbound"), LineText)
      BY <1>2, <2>1, <2>5, <3>1, SentTexts
    <3>3. /\ TextsOf(chat'[o], "Outbound") = TextsOf(chat[o], "Outbound")
          /\ TextsOf(chat'[o], "Inbound") = Append(TextsOf(chat[o], "Inbound"), LineText)
      BY <1>1, <1>2, <3>1, ReceivedTexts
    <3>4. kind \notin AppKind \cup {"FILE"}
      BY <2>5 DEF AppKind
    <3>5. Effect(s, kind, TRUE)
      BY <1>1, <1>4, <2>1, <2>2, <2>3, <2>4, <2>5, <3>2, <3>3, <3>4 DEF Effect
    <3> QED BY <3>5
  <2>6. CASE kind # "MSG"
    <3>1. \A t \in Side : chat'[t].messages = chat[t].messages
      <4>1. kind \notin {"CONNECT", "DISCONNECT"} => chat' = chat
        BY <2>1, <2>6 DEF ChatsAfter
      <4>2. kind = "CONNECT" => /\ chat'[s] = ConnectTo(chat[s], o)
                                /\ chat'[o] = ConnectTo(chat[o], s)
        BY <1>1, <1>3, <2>1 DEF ChatsAfter, ChatSent
      <4>3. kind = "DISCONNECT" => /\ chat'[s] = Disconnected(chat[s])
                                   /\ chat'[o] = Disconnected(chat[o])
        BY <1>1, <1>3, <2>1 DEF ChatsAfter
      <4> QED BY <1>1, <4>1, <4>2, <4>3 DEF ConnectTo, Disconnected
    <3>2. \A t \in Side : \A d : TextsOf(chat'[t], d) = TextsOf(chat[t], d)
      BY <3>1 DEF TextsOf
    <3>3. Effect(s, kind, TRUE)
      BY <1>1, <1>4, <2>1, <2>2, <2>3, <2>4, <2>6, <3>2 DEF Effect
    <3> QED BY <3>3
  <2> QED BY <2>5, <2>6
<1>10. CASE SaveFails(s, kind)
  <2>1. /\ Reported(s, kind, FALSE) /\ saved' = saved /\ chat' = chat
        /\ app' = AppsAfter(s, kind)
    BY <1>10 DEF SaveFails, AllTransmitted
  <2>2. app'[s] = AppWith(app[s], s, kind) /\ app'[o] = AppWith(app[o], s, kind)
    BY <1>1, <1>3, <2>1 DEF AppsAfter
  <2>3. \A t, u \in Side : \A d : /\ PostsOf(app[t], u)' = PostsOf(app'[t], u)
                                  /\ TextsOf(chat[t], d)' = TextsOf(chat[t], d)
    BY <2>1 DEF PostsOf, TextsOf
  <2>4. Effect(s, kind, FALSE)
    BY <1>1, <1>4, <2>1, <2>2, <2>3 DEF Effect
  <2> QED BY <2>4
<1> QED BY <1>5, <1>6, <1>7, <1>8, <1>9, <1>10 DEF Command

\* The report tells the truth about both ends: at each line of any script, whatever
\* was spoilt, refused or could not be saved, what the other station logged and saved
\* is what the lines that are ok sent it, and what it observed its sender recorded.
THEOREM ReportsAreTrue == Spec => []OkIsBoth
<1>1. Init => OkIsBoth
  <2> SUFFICES ASSUME Init, NEW s \in Side PROVE
        /\ TextsOf(chat[Other(s)], "Inbound") = OkTexts(s, {"MSG"})
        /\ saved[Other(s)] = OkTexts(s, {"FILE"})
        /\ IsPartOf(OkTexts(s, AppKind \cup {"FILE"}), PostsOf(app[Other(s)], s))
        /\ IsPartOf(PostsOf(app[Other(s)], s), PostsOf(app[s], s))
        /\ IsPartOf(OkTexts(s, {"MSG"}), TextsOf(chat[s], "Outbound"))
    BY DEF OkIsBoth
  <2>1. Other(s) \in Side
    BY DEF Side, Other
  <2>2. Texts(<<>>) = <<>>
    BY DEF Texts
  <2>3. \A kinds : OkTexts(s, kinds) = <<>>
    BY <2>2, PickedEmpty DEF OkTexts, Init
  <2>4. \A t \in Side : chat[t].messages = <<>> /\ app[t].entries = <<>> /\ saved[t] = <<>>
    BY DEF Init, NewBackend, NewAppModel
  <2>5. \A t \in Side : \A d : TextsOf(chat[t], d) = <<>>
    BY <2>2, <2>4, PickedEmpty DEF TextsOf
  <2>6. \A t, u \in Side : PostsOf(app[t], u) = <<>>
    BY <2>2, <2>4, PickedEmpty DEF PostsOf
  <2> QED BY <2>1, <2>3, <2>4, <2>5, <2>6, PartEmpty
<1>2. TypeOK /\ OkIsBoth /\ [Next]_vars => OkIsBoth'
  <2>1. ASSUME OkIsBoth, UNCHANGED vars PROVE OkIsBoth'
    BY <2>1 DEF OkIsBoth, OkTexts, TextsOf, PostsOf, vars
  <2>2. ASSUME TypeOK, OkIsBoth, NEW s \in Side, NEW kind \in Kind, Command(s, kind)
        PROVE OkIsBoth'
    BY <2>2, CommandEffect, EffectIsTold
  <2> QED BY <2>1, <2>2 DEF Next
<1> QED BY <1>1, <1>2, TypeCorrect, PTL DEF Spec
=============================================================================
