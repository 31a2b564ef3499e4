----------------------------- MODULE LiveProofs -----------------------------
(***************************************************************************)
(* Proofs about the live station.  Of LiveChat, for any number of          *)
(* commands, texts and calls, any failures and any interleaving of the two *)
(* ends: type correctness, the order of frames, what announcements the     *)
(* ends know, and when they disagree about the session.  Of RigPtt, for    *)
(* any number of runs and any command lines: who may have left the         *)
(* transmitter on, and when it is on and off for sure.                     *)
(***************************************************************************)
EXTENDS LiveChat, RigPtt, SubsequenceProofs, SequenceTheorems, TLAPS

-----------------------------------------------------------------------------
(* Type correctness                                                        *)

\* The two nodes are each other's peer.
LEMMA PeerFacts ==
  \A n \in Node : Peer(n) \in Node /\ Peer(n) # n /\ Peer(Peer(n)) = n /\ n \in Call
BY LiveAssumption DEF Node, Peer

\* What the chat operations return has the type of a chat log.
LEMMA SessionTypes ==
  ASSUME NEW c \in Backend, NEW from \in Call
  PROVE  /\ ConnectTo(c, from) \in Backend
         /\ IsConnected(ConnectTo(c, from))
         /\ Disconnected(c) \in Backend
         /\ ~IsConnected(Disconnected(c))
BY ChatAssumption DEF ConnectTo, Disconnected, IsConnected, Backend

\* Recording a text leaves a chat log, with the same peer.
LEMMA ChatTypes ==
  ASSUME NEW c \in Backend, NEW from \in Call, NEW to \in Call, NEW t \in Text
  PROVE  /\ IsConnected(c) => SentText(c, from, t) \in Backend
         /\ ReceivedText(c, to, from, t) \in Backend
         /\ SentText(c, from, t).peer = c.peer
         /\ ReceivedText(c, to, from, t).peer = c.peer
<1>1. c = [peer |-> c.peer, next |-> c.next, messages |-> c.messages]
      /\ c.peer \in Call \cup {NoCall} /\ c.next \in Nat /\ c.messages \in Seq(Message)
  BY DEF Backend
<1>2. ASSUME NEW d \in Direction, NEW u \in Call, NEW v \in Call
      PROVE  PushMessage(c, d, u, v, t) \in Backend
  <2>1. [sequence |-> c.next, direction |-> d, from |-> u, to |-> v, text |-> t] \in Message
    BY <1>1 DEF Message
  <2>2. Append(c.messages,
         [sequence |-> c.next, direction |-> d, from |-> u, to |-> v, text |-> t]) \in Seq(Message)
    BY <2>1, <1>1
  <2> QED BY <1>1, <2>2 DEF PushMessage, Backend
<1>3. IsConnected(c) => c.peer \in Call
  BY <1>1 DEF IsConnected
<1>6. IsConnected(c) => SentText(c, from, t) \in Backend
  BY <1>2, <1>3 DEF SentText, Direction
<1>7. ReceivedText(c, to, from, t) \in Backend
  BY <1>2 DEF ReceivedText, Direction
<1>8. SentText(c, from, t).peer = c.peer /\ ReceivedText(c, to, from, t).peer = c.peer
  BY DEF SentText, ReceivedText, PushMessage
<1> QED BY <1>6, <1>7, <1>8

\* What the app model operations return has the type of an app model.
LEMMA RefusedAppTypes ==
  ASSUME NEW a \in AppModel
  PROVE  RecordRefused(a) \in AppModel
BY DEF RecordRefused, AppModel

\* Recording an entry leaves an app model.
LEMMA AppTypes ==
  ASSUME NEW a \in AppModel, NEW from \in Call, NEW to \in Call \cup {NoCall}, NEW t \in Text
  PROVE  Recorded(a, from, to, t) \in AppModel /\ RecordRefused(a) \in AppModel
<1>1. a.next \in Nat /\ a.entries \in Seq(Entry)
  BY DEF AppModel
<1>2. [sequence |-> a.next, from |-> from, to |-> to, text |-> t] \in Entry
  BY <1>1 DEF Entry
<1>3. Append(a.entries, [sequence |-> a.next, from |-> from, to |-> to, text |-> t]) \in Seq(Entry)
  BY <1>1, <1>2
<1> QED BY <1>1, <1>3 DEF Recorded, RecordRefused, AppModel

\* Reporting a sent or a received packet keeps the type of the packet lists.
LEMMA PacketTypes ==
  ASSUME TypeOK, NEW n \in Node, NEW f \in Frame
  PROVE  /\ packets[n].out \in Seq(Packet) /\ packets[n].in \in Seq(Packet)
         /\ PacketCount(n) \in Nat
         /\ PacketOf(n, f) \in Packet
         /\ [out |-> Append(packets[n].out, PacketOf(n, f)), in |-> packets[n].in]
              \in [out: Seq(Packet), in: Seq(Packet)]
         /\ [out |-> packets[n].out, in |-> Append(packets[n].in, PacketOf(n, f))]
              \in [out: Seq(Packet), in: Seq(Packet)]
<1>1. packets[n] \in [out: Seq(Packet), in: Seq(Packet)]
  BY DEF TypeOK
<1>2. packets[n].out \in Seq(Packet) /\ packets[n].in \in Seq(Packet)
  BY <1>1
<1>3. PacketCount(n) \in Nat
  <2>1. Len(packets[n].out) \in Nat /\ Len(packets[n].in) \in Nat
    BY <1>2, LenProperties
  <2>2. \A x, y \in Nat : x + y \in Nat
    OBVIOUS
  <2>3. Len(packets[n].out) + Len(packets[n].in) \in Nat
    BY <2>1, <2>2
  <2> QED BY <2>3, Zenon DEF PacketCount
<1>4. PacketOf(n, f) \in Packet
  BY <1>3 DEF PacketOf, Packet
<1>5. Append(packets[n].out, PacketOf(n, f)) \in Seq(Packet)
      /\ Append(packets[n].in, PacketOf(n, f)) \in Seq(Packet)
  BY <1>2, <1>4
<1> QED BY <1>2, <1>3, <1>4, <1>5

\* A sent packet is on the wire, or only reported.
LEMMA WrittenTypes ==
  ASSUME TypeOK, NEW n \in Node, NEW f \in Frame, Written(n, f)
  PROVE  /\ packets' \in [Node -> [out: Seq(Packet), in: Seq(Packet)]]
         /\ wire' \in [Node -> Seq(Frame)]
         /\ faults' \in Nat
<1>1. packets' \in [Node -> [out: Seq(Packet), in: Seq(Packet)]]
  BY PacketTypes DEF Written, TypeOK
<1>2. wire' \in [Node -> Seq(Frame)]
  BY DEF Written, TypeOK
<1> QED BY <1>1, <1>2 DEF Written, TypeOK

\* So does a packet that could not be sent,
LEMMA UnwrittenTypes ==
  ASSUME TypeOK, NEW n \in Node, Unwritten(n)
  PROVE  /\ packets' \in [Node -> [out: Seq(Packet), in: Seq(Packet)]]
         /\ wire' \in [Node -> Seq(Frame)]
         /\ faults' \in Nat
BY DEF Unwritten, TypeOK

\* a line shown,
LEMMA ShowTypes ==
  ASSUME TypeOK, NEW n \in Node, NEW line \in Line, Show(n, line)
  PROVE  lines' \in [Node -> Seq(Line)]
BY DEF Show, TypeOK

\* and sending with its two outcomes.
LEMMA SendTypes ==
  ASSUME TypeOK, NEW n \in Node, NEW f \in Frame, NEW l1 \in Line, NEW l2 \in Line,
         SendPayload(n, f, l1, l2)
  PROVE  /\ packets' \in [Node -> [out: Seq(Packet), in: Seq(Packet)]]
         /\ wire' \in [Node -> Seq(Frame)]
         /\ faults' \in Nat
         /\ lines' \in [Node -> Seq(Line)]
BY WrittenTypes, UnwrittenTypes, ShowTypes DEF SendPayload

\* A command leaves the receiving side alone.
LEMMA CommandTypes ==
  ASSUME TypeOK, NEW n \in Node, NEW k, Command(n, k),
         chat' \in [Node -> Backend], app' \in [Node -> AppModel],
         packets' \in [Node -> [out: Seq(Packet), in: Seq(Packet)]],
         wire' \in [Node -> Seq(Frame)], lines' \in [Node -> Seq(Line)], faults' \in Nat
  PROVE  TypeOK'
BY DEF Command, TypeOK

\* A refused command changes the lines only.
LEMMA RefusedTypes ==
  ASSUME TypeOK, NEW n \in Node, Refused(n)
  PROVE  /\ packets' \in [Node -> [out: Seq(Packet), in: Seq(Packet)]]
         /\ wire' \in [Node -> Seq(Frame)]
         /\ faults' \in Nat
         /\ lines' \in [Node -> Seq(Line)]
<1>1. LineOf("refused", 0) \in Line BY DEF LineOf, Line
<1> QED BY <1>1, ShowTypes DEF Refused, TypeOK

\* What a node sends is a frame.
LEMMA FrameOfTypes ==
  ASSUME TypeOK, NEW n \in Node
  PROVE  /\ \A k \in Control : FrameOf(n, k, NoText) \in Frame
         /\ \A k \in AppKind \cup {"MSG"}, t \in Text : FrameOf(n, k, t) \in Frame
<1>1. n \in Call /\ peerCall[n] \in Call
  BY PeerFacts DEF TypeOK
<1> QED BY <1>1 DEF FrameOf, Frame, ControlFrame, TextFrame

\* Taking a frame from the channel.
LEMMA TakeTypes ==
  ASSUME TypeOK, NEW n \in Node, TakeFrame(n)
  PROVE  /\ Head(inbox[n]) \in Frame
         /\ inbox' \in [Node -> Seq(Frame)]
         /\ packets' \in [Node -> [out: Seq(Packet), in: Seq(Packet)]]
<1>1. inbox[n] \in Seq(Frame) /\ inbox[n] # <<>>
  BY DEF TypeOK, TakeFrame
<1>2. Head(inbox[n]) \in Frame /\ Tail(inbox[n]) \in Seq(Frame)
  BY <1>1, HeadTailProperties
<1>3. inbox' \in [Node -> Seq(Frame)]
  BY <1>2 DEF TypeOK, TakeFrame
<1>4. packets' \in [Node -> [out: Seq(Packet), in: Seq(Packet)]]
  BY <1>2, PacketTypes DEF TypeOK, TakeFrame
<1> QED BY <1>2, <1>3, <1>4

\* What receive_frame returns for a frame it takes.
LEMMA AfterTypes ==
  ASSUME TypeOK, NEW n \in Node, NEW f \in Frame
  PROVE  /\ ChatAfter(n, f) \in Backend
         /\ EventOf(n, f) \in Event
<1>0. chat[n] \in Backend /\ chat[n].next \in Nat /\ n \in Call /\ f.from \in Call
  BY PeerFacts DEF TypeOK, Backend, Frame, ControlFrame, TextFrame
<1>1. CASE f.kind = "CONNECT"
  <2>1. ChatAfter(n, f) = ConnectTo(chat[n], f.from) BY <1>1 DEF ChatAfter
  <2>2. ConnectTo(chat[n], f.from) \in Backend
    BY <1>0 DEF ConnectTo, Backend
  <2>3. EventOf(n, f) = [what |-> "connected", sequence |-> 0, frame |-> f]
    BY <1>1 DEF EventOf
  <2> QED BY <2>1, <2>2, <2>3 DEF Event, ChatEvent, AppEvent
<1>2. CASE f.kind = "MSG"
  <2>1. ChatAfter(n, f) = ReceivedText(chat[n], n, f.from, f.text) BY <1>2 DEF ChatAfter
  <2>2. f.text \in Text
    BY <1>2 DEF Frame, ControlFrame, TextFrame, Control
  <2>3. ReceivedText(chat[n], n, f.from, f.text) \in Backend
    BY <1>0, <2>2, ChatTypes
  <2>4. EventOf(n, f) = [what |-> "message", sequence |-> chat[n].next, frame |-> f]
    BY <1>2 DEF EventOf
  <2> QED BY <1>0, <2>1, <2>3, <2>4 DEF Event, ChatEvent, AppEvent
<1>3. CASE f.kind = "DISCONNECT"
  <2>1. ChatAfter(n, f) = Disconnected(chat[n]) BY <1>3 DEF ChatAfter
  <2>2. Disconnected(chat[n]) \in Backend BY <1>0 DEF Disconnected, Backend
  <2>3. EventOf(n, f) = [what |-> "disconnected", sequence |-> 0, frame |-> f]
    BY <1>3 DEF EventOf
  <2> QED BY <2>1, <2>2, <2>3 DEF Event, ChatEvent, AppEvent
<1>4. CASE f.kind \notin {"CONNECT", "MSG", "DISCONNECT"}
  <2>1. ChatAfter(n, f) = chat[n] BY <1>4 DEF ChatAfter
  <2>2. EventOf(n, f) = [what |-> "app", sequence |-> 0, frame |-> f]
    BY <1>4 DEF EventOf
  <2>3. f \in TextFrame
    BY <1>4 DEF Frame, ControlFrame, Control
  <2> QED BY <1>0, <2>1, <2>2, <2>3 DEF Event, AppEvent
<1> QED BY <1>1, <1>2, <1>3, <1>4

\* The lines the terminal shows.
LEMMA LineTypes ==
  /\ \A w \in {"connected", "disconnected", "message", "app", "refused", "unsent", "half open"},
       k \in Nat : LineOf(w, k) \in Line
  /\ \A e \in Event : e.what \in {"connected", "disconnected", "message", "app"} /\ e.sequence \in Nat
                     /\ e.frame \in Frame
BY DEF LineOf, Line, Event, ChatEvent, AppEvent, Frame

\* The initial states have the types.
LEMMA TypeInit == Init => TypeOK
<1> SUFFICES ASSUME Init PROVE TypeOK
  OBVIOUS
<1>1. NewBackend \in Backend
  BY DEF NewBackend, Backend
<1>2. NewAppModel \in AppModel
  BY DEF NewAppModel, AppModel
<1>3. [out |-> <<>>, in |-> <<>>] \in [out: Seq(Packet), in: Seq(Packet)]
  OBVIOUS
<1> QED BY <1>1, <1>2, <1>3 DEF Init, TypeOK

\* A command keeps the types.
LEMMA TypeCommands ==
  ASSUME TypeOK, NEW n \in Node, Commands(n)
  PROVE  TypeOK'
<1> USE FrameOfTypes, LineTypes, CommandTypes
<1>0. /\ n \in Call /\ peerCall[n] \in Call
      /\ chat \in [Node -> Backend] /\ chat[n] \in Backend /\ chat[n].next \in Nat
      /\ app \in [Node -> AppModel] /\ app[n] \in AppModel /\ app[n].next \in Nat
      /\ lines \in [Node -> Seq(Line)] /\ wire \in [Node -> Seq(Frame)] /\ faults \in Nat
      /\ packets \in [Node -> [out: Seq(Packet), in: Seq(Packet)]]
  BY PeerFacts DEF TypeOK, Backend, AppModel
<1>1. ASSUME NEW c \in Call, ConnectRefused(n, c) PROVE TypeOK'
  BY <1>0, <1>1, RefusedTypes DEF ConnectRefused
<1>2. CASE Connect(n)
  <2>1. chat' \in [Node -> Backend]
    BY <1>0, <1>2, SessionTypes DEF Connect
  <2>2. FrameOf(n, "CONNECT", NoText) \in Frame
    BY DEF Control
  <2>3. LineOf("connected", 0) \in Line /\ LineOf("half open", 0) \in Line
    OBVIOUS
  <2> QED BY <1>0, <1>2, <2>1, <2>2, <2>3, SendTypes DEF Connect
<1>3. CASE Disconnect(n)
  <2>1. chat' \in [Node -> Backend]
    BY <1>0, <1>3, SessionTypes DEF Disconnect
  <2>2. FrameOf(n, "DISCONNECT", NoText) \in Frame
    BY DEF Control
  <2>3. LineOf("disconnected", 0) \in Line /\ LineOf("unsent", 0) \in Line
    OBVIOUS
  <2>4. lines' \in [Node -> Seq(Line)]
    BY <1>3, <2>3, ShowTypes DEF Disconnect
  <2>5. /\ packets' \in [Node -> [out: Seq(Packet), in: Seq(Packet)]]
        /\ wire' \in [Node -> Seq(Frame)] /\ faults' \in Nat
    BY <1>3, <2>2, WrittenTypes, UnwrittenTypes DEF Disconnect
  <2> QED BY <1>0, <1>3, <2>1, <2>4, <2>5 DEF Disconnect
<1>4. CASE SendTextRefused(n)
  BY <1>0, <1>4, RefusedTypes DEF SendTextRefused
<1>5. ASSUME NEW t \in Text, SendText(n, t) PROVE TypeOK'
  <2>1. SentText(chat[n], n, t) \in Backend
    BY <1>0, <1>5, ChatTypes DEF SendText
  <2>2. chat' \in [Node -> Backend]
    BY <1>0, <1>5, <2>1 DEF SendText
  <2>3. FrameOf(n, "MSG", t) \in Frame
    OBVIOUS
  <2>4. LineOf("message", chat[n].next) \in Line /\ LineOf("unsent", 0) \in Line
    BY <1>0
  <2>5. /\ packets' \in [Node -> [out: Seq(Packet), in: Seq(Packet)]]
        /\ wire' \in [Node -> Seq(Frame)] /\ faults' \in Nat
        /\ lines' \in [Node -> Seq(Line)]
    BY <1>5, <2>3, <2>4, SendTypes DEF SendText
  <2> QED BY <1>0, <1>5, <2>2, <2>5 DEF SendText
<1>6. ASSUME NEW c \in Call, ReceiveTextRefused(n, c) PROVE TypeOK'
  BY <1>0, <1>6, RefusedTypes DEF ReceiveTextRefused
<1>7. ASSUME NEW c \in Call, NEW t \in Text, ReceiveText(n, c, t) PROVE TypeOK'
  <2>1. chat' \in [Node -> Backend]
    BY <1>0, <1>7, ChatTypes DEF ReceiveText
  <2>2. LineOf("message", chat[n].next) \in Line
    BY <1>0
  <2>3. lines' \in [Node -> Seq(Line)]
    BY <1>7, <2>2, ShowTypes DEF ReceiveText
  <2> QED BY <1>0, <1>7, <2>1, <2>3 DEF ReceiveText
<1>8. ASSUME NEW k \in AppKind, NEW c \in Call \cup {NoCall}, NEW t \in Text, Announce(n, k, c, t)
      PROVE  TypeOK'
  <2>1. app' \in [Node -> AppModel]
    BY <1>0, <1>8, AppTypes DEF Announce
  <2>2. FrameOf(n, k, t) \in Frame
    OBVIOUS
  <2>3. LineOf("app", app[n].next) \in Line /\ LineOf("unsent", 0) \in Line
    BY <1>0
  <2>4. /\ packets' \in [Node -> [out: Seq(Packet), in: Seq(Packet)]]
        /\ wire' \in [Node -> Seq(Frame)] /\ faults' \in Nat
        /\ lines' \in [Node -> Seq(Line)]
    BY <1>8, <2>2, <2>3, SendTypes DEF Announce
  <2> QED BY <1>0, <1>8, <2>1, <2>4 DEF Announce
<1>9. CASE AnnounceRefused(n)
  <2>1. app' \in [Node -> AppModel]
    <3>1. RecordRefused(app[n]) \in AppModel
      BY <1>0, RefusedAppTypes
    <3> QED BY <1>0, <1>9, <3>1 DEF AnnounceRefused
  <2> QED BY <1>0, <1>9, <2>1, RefusedTypes DEF AnnounceRefused
<1>10. Text \ RxText \subseteq Text /\ RxText \subseteq Text /\ "BEACON" \in AppKind /\ "MAIL" \in AppKind
  BY LiveAssumption DEF AppKind
<1> QED BY <1>1, <1>2, <1>3, <1>4, <1>5, <1>6, <1>7, <1>8, <1>9, <1>10 DEF Commands

\* A step of a poll keeps the types.
LEMMA TypePolling ==
  ASSUME TypeOK, NEW n \in Node, Polling(n)
  PROVE  TypeOK'
<1>1. CASE PollBegin(n)
  BY <1>1 DEF PollBegin, TypeOK
<1>2. CASE ReceiveFrame(n)
  <2>1. TakeFrame(n)
    BY <1>2 DEF ReceiveFrame
  <2>2. ChatAfter(n, Head(inbox[n])) \in Backend /\ EventOf(n, Head(inbox[n])) \in Event
    BY <2>1, TakeTypes, AfterTypes
  <2>3. chat' \in [Node -> Backend] /\ collected' \in [Node -> Seq(Event)]
    BY <1>2, <2>2 DEF ReceiveFrame, TypeOK
  <2> QED BY <1>2, <2>1, <2>3, TakeTypes DEF ReceiveFrame, TakeFrame, TypeOK
<1>3. CASE PollFails(n)
  <2>1. TakeFrame(n)
    BY <1>3 DEF PollFails
  <2>2. lines' \in [Node -> Seq(Line)]
    BY <1>3, ShowTypes, LineTypes DEF PollFails
  <2>3. <<>> \in Seq(Event)
    OBVIOUS
  <2>4. /\ collected' \in [Node -> Seq(Event)]
        /\ phase' \in [Node -> {"idle", "polling", "recording"}]
        /\ chat' = chat
    BY <1>3, <2>3 DEF PollFails, TypeOK
  <2> QED BY <2>1, <2>2, <2>4, TakeTypes DEF TakeFrame, TypeOK
<1>4. CASE PollEnd(n)
  BY <1>4 DEF PollEnd, TypeOK
<1>5. Recording(n) => /\ Head(collected[n]) \in Event
                      /\ collected' \in [Node -> Seq(Event)]
                      /\ phase' \in [Node -> {"idle", "polling", "recording"}]
  BY HeadTailProperties DEF Recording, TypeOK
<1>6. CASE RecordChat(n)
  <2>1. Recording(n) /\ Show(n, LineOf(Head(collected[n]).what, Head(collected[n]).sequence))
    BY <1>6 DEF RecordChat
  <2>2. LineOf(Head(collected[n]).what, Head(collected[n]).sequence) \in Line
    BY <1>5, <2>1, LineTypes
  <2>3. lines' \in [Node -> Seq(Line)]
    BY <2>1, <2>2, ShowTypes
  <2> QED BY <1>5, <1>6, <2>1, <2>3 DEF RecordChat, Recording, TypeOK
<1>7. CASE RecordApp(n)
  <2> DEFINE e == Head(collected[n])
             to == IF e.frame.kind = "MAIL" THEN e.frame.to ELSE NoCall
  <2>1. Recording(n) /\ Show(n, LineOf("app", app[n].next)) /\ e.what = "app"
        /\ app' = [app EXCEPT ![n] = Recorded(app[n], e.frame.from, to, e.frame.text)]
    BY <1>7 DEF RecordApp
  <2>2. app \in [Node -> AppModel] /\ app[n] \in AppModel /\ app[n].next \in Nat
    BY DEF TypeOK, AppModel
  <2>3. lines' \in [Node -> Seq(Line)]
    BY <2>1, <2>2, ShowTypes, LineTypes
  <2>4. e \in Event /\ e.frame \in Frame
    BY <1>5, <2>1, LineTypes
  <2>5. e.frame.from \in Call /\ to \in Call \cup {NoCall} /\ e.frame.text \in Text
    BY <2>1, <2>4 DEF Event, ChatEvent, AppEvent, TextFrame
  <2> HIDE DEF e, to
  <2>6. Recorded(app[n], e.frame.from, to, e.frame.text) \in AppModel
    BY <2>2, <2>5, AppTypes
  <2>7. app' \in [Node -> AppModel]
    BY <2>1, <2>2, <2>6
  <2> QED BY <1>5, <2>1, <2>3, <2>7 DEF Recording, TypeOK
<1> QED BY <1>1, <1>2, <1>3, <1>4, <1>6, <1>7 DEF Polling

\* Every step keeps the types.
LEMMA TypeStep == TypeOK /\ [Next]_vars => TypeOK'
<1> SUFFICES ASSUME TypeOK, [Next]_vars PROVE TypeOK'
  OBVIOUS
<1>1. ASSUME NEW n \in Node, Reader(n) PROVE TypeOK'
  <2>1. Peer(n) \in Node /\ wire[Peer(n)] \in Seq(Frame) /\ wire[Peer(n)] # <<>>
    BY <1>1, PeerFacts DEF Reader, TypeOK
  <2>2. Head(wire[Peer(n)]) \in Frame /\ Tail(wire[Peer(n)]) \in Seq(Frame)
    BY <2>1, HeadTailProperties
  <2>3. inbox' \in [Node -> Seq(Frame)]
    <3>1. Append(inbox[n], Head(wire[Peer(n)])) \in Seq(Frame)
      BY <2>2 DEF TypeOK
    <3> QED BY <1>1, <3>1 DEF Reader, TypeOK
  <2>4. wire' \in [Node -> Seq(Frame)]
    BY <1>1, <2>2 DEF Reader, TypeOK
  <2> QED BY <1>1, <2>3, <2>4 DEF Reader, TypeOK
<1>2. ASSUME NEW n \in Node, Quit(n) PROVE TypeOK'
  <2>1. \A k \in 0..Len(wire[n]) : SubSeq(wire[n], 1, k) \in Seq(Frame)
    BY SubSeqProperties DEF TypeOK
  <2>2. wire' \in [Node -> Seq(Frame)]
    BY <1>2, <2>1 DEF Quit, TypeOK
  <2> QED BY <1>2, <2>2 DEF Quit, TypeOK
<1>3. CASE UNCHANGED vars
  BY <1>3 DEF vars, TypeOK
<1> QED BY <1>1, <1>2, <1>3, TypeCommands, TypePolling DEF Next

\* Every variable of LiveChat keeps its type.
THEOREM TypeCorrect == Spec => []TypeOK
BY TypeInit, TypeStep, PTL DEF Spec

-----------------------------------------------------------------------------
(* One direction of the link as four sequences: packets sent, packets got, *)
(* frames in the channel, frames on the wire                               *)

Flow(sent, got, box, line) ==
  /\ Len(got) + Len(box) + Len(line) <= Len(sent)
  /\ \A i \in 1..Len(got) : got[i].frame = sent[i].frame
  /\ \A i \in 1..Len(box) : box[i] = sent[Len(got) + i].frame
  /\ \A i \in 1..Len(line) : line[i] = sent[Len(got) + Len(box) + i].frame

FlowLength(got, box, line) == Len(got) + Len(box) + Len(line)

\* Sending: onto the wire if nothing was lost before, or past it.
LEMMA FlowSend ==
  ASSUME NEW sent \in Seq(Packet), NEW got \in Seq(Packet), NEW box \in Seq(Frame),
         NEW line \in Seq(Frame), NEW p \in Packet, Flow(sent, got, box, line)
  PROVE  /\ Flow(Append(sent, p), got, box, line)
         /\ FlowLength(got, box, line) = Len(sent) =>
              /\ Flow(Append(sent, p), got, box, Append(line, p.frame))
              /\ FlowLength(got, box, Append(line, p.frame)) = Len(Append(sent, p))
<1>1. Len(sent) \in Nat /\ Len(got) \in Nat /\ Len(box) \in Nat /\ Len(line) \in Nat
  BY LenProperties
<1>2. p.frame \in Frame
  BY DEF Packet
<1>3. Len(Append(sent, p)) = Len(sent) + 1 /\ \A i \in 1..Len(sent) : Append(sent, p)[i] = sent[i]
      /\ Append(sent, p)[Len(sent) + 1] = p
  BY AppendProperties
<1>4. Len(Append(line, p.frame)) = Len(line) + 1
      /\ \A i \in 1..Len(line) : Append(line, p.frame)[i] = line[i]
      /\ Append(line, p.frame)[Len(line) + 1] = p.frame
  BY <1>2, AppendProperties
<1>5. Flow(Append(sent, p), got, box, line)
  BY <1>1, <1>3, SMTT(30) DEF Flow
<1>6. ASSUME FlowLength(got, box, line) = Len(sent)
      PROVE  /\ Flow(Append(sent, p), got, box, Append(line, p.frame))
             /\ FlowLength(got, box, Append(line, p.frame)) = Len(Append(sent, p))
  <2>1. Len(sent) = Len(got) + Len(box) + Len(line)
    BY <1>6 DEF FlowLength
  <2>2. ASSUME NEW i \in 1..(Len(line) + 1)
        PROVE  Append(line, p.frame)[i] = Append(sent, p)[Len(got) + Len(box) + i].frame
    <3>1. CASE i \in 1..Len(line)
      <4>1. Append(line, p.frame)[i] = line[i]
        BY <1>4, <3>1
      <4>2. line[i] = Append(sent, p)[Len(got) + Len(box) + i].frame
        BY <1>5, <3>1 DEF Flow
      <4> QED BY <4>1, <4>2
    <3>2. CASE i = Len(line) + 1
      <4>1. Len(got) + Len(box) + i = Len(sent) + 1
        BY <1>1, <2>1, <3>2
      <4>2. Append(sent, p)[Len(got) + Len(box) + i] = p
        BY <1>3, <4>1
      <4>3. Append(line, p.frame)[i] = p.frame
        BY <1>4, <3>2
      <4> QED BY <4>2, <4>3, Zenon
    <3>3. i \in 1..Len(line) \/ i = Len(line) + 1
      BY <1>1
    <3> QED BY <3>1, <3>2, <3>3
  <2>3. Len(got) + Len(box) + Len(Append(line, p.frame)) = Len(Append(sent, p))
    BY <1>1, <1>3, <1>4, <2>1
  <2>4. \A i \in 1..Len(Append(line, p.frame)) :
          Append(line, p.frame)[i] = Append(sent, p)[Len(got) + Len(box) + i].frame
    BY <1>4, <2>2
  <2>5. Len(got) + Len(box) + Len(Append(line, p.frame)) <= Len(Append(sent, p))
    BY <1>1, <1>3, <1>4, <2>1
  <2> QED BY <1>5, <2>3, <2>4, <2>5 DEF Flow, FlowLength
<1> QED BY <1>5, <1>6

\* Reading from the wire into the channel.
LEMMA FlowRead ==
  ASSUME NEW sent \in Seq(Packet), NEW got \in Seq(Packet), NEW box \in Seq(Frame),
         NEW line \in Seq(Frame), Flow(sent, got, box, line), line # <<>>
  PROVE  /\ Flow(sent, got, Append(box, Head(line)), Tail(line))
         /\ FlowLength(got, Append(box, Head(line)), Tail(line)) = FlowLength(got, box, line)
<1>1. Len(sent) \in Nat /\ Len(got) \in Nat /\ Len(box) \in Nat /\ Len(line) \in Nat /\ Len(line) # 0
  BY LenProperties, EmptySeq
<1>2. Head(line) \in Frame /\ Head(line) = line[1] /\ Len(Tail(line)) = Len(line) - 1
      /\ \A i \in 1..Len(Tail(line)) : Tail(line)[i] = line[i + 1]
  BY <1>1, HeadTailProperties
<1>3. Len(Append(box, Head(line))) = Len(box) + 1
      /\ \A i \in 1..Len(box) : Append(box, Head(line))[i] = box[i]
      /\ Append(box, Head(line))[Len(box) + 1] = Head(line)
  BY <1>2, AppendProperties
<1>4. Len(Append(box, Head(line))) + Len(Tail(line)) = Len(box) + Len(line)
  BY <1>1, <1>2, <1>3
<1>5. ASSUME NEW i \in 1..Len(Append(box, Head(line)))
      PROVE  Append(box, Head(line))[i] = sent[Len(got) + i].frame
  <2>1. CASE i \in 1..Len(box)
    BY <1>3, <2>1 DEF Flow
  <2>2. CASE i = Len(box) + 1
    <3>1. line[1] = sent[Len(got) + Len(box) + 1].frame
      BY <1>1 DEF Flow
    <3>2. Len(got) + i = Len(got) + Len(box) + 1
      BY <1>1, <2>2
    <3> QED BY <1>2, <1>3, <2>2, <3>1, <3>2
  <2> QED BY <1>1, <1>3, <2>1, <2>2
<1>6. ASSUME NEW i \in 1..Len(Tail(line))
      PROVE  Tail(line)[i] = sent[Len(got) + Len(Append(box, Head(line))) + i].frame
  <2>1. i + 1 \in 1..Len(line)
    BY <1>1, <1>2
  <2>2. line[i + 1] = sent[Len(got) + Len(box) + (i + 1)].frame
    BY <2>1 DEF Flow
  <2>3. Len(got) + Len(box) + (i + 1) = Len(got) + Len(Append(box, Head(line))) + i
    BY <1>1, <1>3
  <2> QED BY <1>2, <2>2, <2>3
<1>7. FlowLength(got, Append(box, Head(line)), Tail(line)) = FlowLength(got, box, line)
  BY <1>1, <1>2, <1>3 DEF FlowLength
<1>8. Len(got) + Len(Append(box, Head(line))) + Len(Tail(line)) <= Len(sent)
  BY <1>1, <1>2, <1>3 DEF Flow
<1> QED BY <1>5, <1>6, <1>7, <1>8 DEF Flow

\* Taking from the channel and reporting it.
LEMMA FlowTake ==
  ASSUME NEW sent \in Seq(Packet), NEW got \in Seq(Packet), NEW box \in Seq(Frame),
         NEW line \in Seq(Frame), Flow(sent, got, box, line), box # <<>>,
         NEW p \in Packet, p.frame = Head(box)
  PROVE  /\ Flow(sent, Append(got, p), Tail(box), line)
         /\ FlowLength(Append(got, p), Tail(box), line) = FlowLength(got, box, line)
         /\ Len(got) + 1 \in 1..Len(sent)
         /\ Head(box) = sent[Len(got) + 1].frame
<1>1. Len(sent) \in Nat /\ Len(got) \in Nat /\ Len(box) \in Nat /\ Len(line) \in Nat /\ Len(box) # 0
  BY LenProperties, EmptySeq
<1>2. Head(box) = box[1] /\ Len(Tail(box)) = Len(box) - 1
      /\ \A i \in 1..Len(Tail(box)) : Tail(box)[i] = box[i + 1]
  BY <1>1, HeadTailProperties
<1>3. Len(Append(got, p)) = Len(got) + 1
      /\ \A i \in 1..Len(got) : Append(got, p)[i] = got[i]
      /\ Append(got, p)[Len(got) + 1] = p
  BY AppendProperties
<1>4. Head(box) = sent[Len(got) + 1].frame
  BY <1>1, <1>2 DEF Flow
<1> QED BY <1>1, <1>2, <1>3, <1>4 DEF Flow, FlowLength

\* A closed terminal cuts what is on the wire.
LEMMA FlowCut ==
  ASSUME NEW sent \in Seq(Packet), NEW got \in Seq(Packet), NEW box \in Seq(Frame),
         NEW line \in Seq(Frame), Flow(sent, got, box, line), NEW k \in 0..Len(line)
  PROVE  Flow(sent, got, box, SubSeq(line, 1, k))
<1>1. Len(sent) \in Nat /\ Len(got) \in Nat /\ Len(box) \in Nat /\ Len(line) \in Nat /\ k \in Nat /\ k <= Len(line)
  BY LenProperties
<1>2. Len(SubSeq(line, 1, k)) = k
  BY <1>1, SubSeqProperties
<1>3. \A i \in 1..k : SubSeq(line, 1, k)[i] = line[i]
  BY <1>1, SubSeqProperties
<1> QED BY <1>1, <1>2, <1>3 DEF Flow

-----------------------------------------------------------------------------
(* What a step does to the link                                            *)

link == <<packets, wire, inbox, open>>

SentOne(n) ==
  /\ open[n]
  /\ \E f \in Frame : f.from = n /\ f.to = peerCall[n] /\ Written(n, f)
  /\ UNCHANGED <<inbox, open, readerClosed>>

ReadOne(n) ==
  /\ open[n] /\ wire[Peer(n)] # <<>>
  /\ inbox' = [inbox EXCEPT ![n] = Append(@, Head(wire[Peer(n)]))]
  /\ wire' = [wire EXCEPT ![Peer(n)] = Tail(@)]
  /\ UNCHANGED <<packets, open, readerClosed>>

TookOne(n) == TakeFrame(n)

SawEnd(n) ==
  /\ open[n] /\ inbox[n] = <<>>
  /\ \/ UNCHANGED readerClosed
     \/ ReaderEnded(n) /\ readerClosed' = [readerClosed EXCEPT ![n] = TRUE]
  /\ UNCHANGED link

Closed(n) ==
  /\ open' = [open EXCEPT ![n] = FALSE]
  /\ \E k \in 0..Len(wire[n]) : wire' = [wire EXCEPT ![n] = SubSeq(@, 1, k)]
  /\ UNCHANGED <<packets, inbox, readerClosed>>

LinkStep(n) == SentOne(n) \/ ReadOne(n) \/ TookOne(n) \/ SawEnd(n) \/ Closed(n)

\* Every step of LiveChat is one of these or leaves the link alone.
LEMMA LinkSteps ==
  ASSUME TypeOK, [Next]_vars
  PROVE  \/ UNCHANGED <<packets, wire, inbox, open, readerClosed>>
         \/ \E n \in Node : LinkStep(n)
<1>1. ASSUME NEW n \in Node, Commands(n)
      PROVE  UNCHANGED <<packets, wire, inbox, open, readerClosed>> \/ SentOne(n)
  <2>1. open[n] /\ UNCHANGED <<inbox, open, readerClosed>>
    BY <1>1 DEF Commands, Connect, Disconnect, SendTextRefused, SendText, ConnectRefused,
         ReceiveTextRefused, ReceiveText, Announce, AnnounceRefused, Command
  <2>2. ASSUME NEW f, f \in Frame, f.from = n, f.to = peerCall[n], Written(n, f)
        PROVE  SentOne(n)
    BY <2>1, <2>2 DEF SentOne
  <2>3. ASSUME NEW kind, NEW text, \/ kind \in Control /\ text = NoText
                                   \/ kind \in AppKind \cup {"MSG"} /\ text \in Text,
               Written(n, FrameOf(n, kind, text))
        PROVE  SentOne(n)
    <3>1. FrameOf(n, kind, text) \in Frame
      BY <2>3, FrameOfTypes
    <3>2. FrameOf(n, kind, text).from = n /\ FrameOf(n, kind, text).to = peerCall[n]
      BY DEF FrameOf
    <3> QED BY <2>2, <2>3, <3>1, <3>2
  <2>4. ASSUME Unwritten(n) PROVE UNCHANGED <<packets, wire, inbox, open, readerClosed>>
    BY <2>1, <2>4 DEF Unwritten
  <2>5. ASSUME Refused(n) PROVE UNCHANGED <<packets, wire, inbox, open, readerClosed>>
    BY <2>1, <2>5 DEF Refused
  <2>6. ASSUME NEW kind, NEW text, NEW sent, NEW failed,
               \/ kind \in Control /\ text = NoText
               \/ kind \in AppKind \cup {"MSG"} /\ text \in Text,
               SendPayload(n, FrameOf(n, kind, text), sent, failed)
        PROVE  UNCHANGED <<packets, wire, inbox, open, readerClosed>> \/ SentOne(n)
    BY <2>3, <2>4, <2>6 DEF SendPayload
  <2>7. CASE Connect(n)
    BY <2>6, <2>7 DEF Connect, Control
  <2>8. CASE Disconnect(n)
    BY <2>3, <2>4, <2>8 DEF Disconnect, Control
  <2>9. CASE SendTextRefused(n) \/ AnnounceRefused(n)
    BY <2>5, <2>9 DEF SendTextRefused, AnnounceRefused
  <2>10. CASE \E t \in Text \ RxText : SendText(n, t)
    BY <2>6, <2>10 DEF SendText
  <2>11. CASE \E t \in Text \ RxText : Announce(n, "BEACON", NoCall, t)
    BY <2>6, <2>11 DEF Announce, AppKind
  <2>12. CASE \E c \in Call, t \in Text \ RxText : Announce(n, "MAIL", c, t)
    BY <2>6, <2>12 DEF Announce, AppKind
  <2>13. CASE \E c \in Call : ConnectRefused(n, c) \/ ReceiveTextRefused(n, c)
    BY <2>5, <2>13 DEF ConnectRefused, ReceiveTextRefused
  <2>14. CASE \E c \in Call, t \in RxText : ReceiveText(n, c, t)
    BY <2>1, <2>14 DEF ReceiveText
  <2> QED BY <1>1, <2>7, <2>8, <2>9, <2>10, <2>11, <2>12, <2>13, <2>14 DEF Commands
<1>2. ASSUME NEW n \in Node, Reader(n) PROVE ReadOne(n)
  BY <1>2 DEF Reader, ReadOne
<1>3. ASSUME NEW n \in Node, Polling(n)
      PROVE  UNCHANGED <<packets, wire, inbox, open, readerClosed>> \/ TookOne(n) \/ SawEnd(n)
  <2>1. CASE PollBegin(n)
    BY <2>1 DEF PollBegin
  <2>2. CASE ReceiveFrame(n) \/ PollFails(n)
    BY <2>2 DEF ReceiveFrame, PollFails, TookOne
  <2>3. CASE PollEnd(n)
    BY <2>3 DEF PollEnd, SawEnd, link
  <2>4. CASE RecordChat(n) \/ RecordApp(n)
    BY <2>4 DEF RecordChat, RecordApp, Recording
  <2> QED BY <1>3, <2>1, <2>2, <2>3, <2>4 DEF Polling
<1>4. ASSUME NEW n \in Node, Quit(n) PROVE Closed(n)
  BY <1>4 DEF Quit, Closed
<1>5. CASE UNCHANGED vars
  BY <1>5 DEF vars
<1> QED BY <1>1, <1>2, <1>3, <1>4, <1>5 DEF Next, LinkStep

-----------------------------------------------------------------------------
(* FramesInOrder                                                           *)

Channel(n) ==
  /\ Flow(packets[Peer(n)].out, packets[n].in, inbox[n], wire[Peer(n)])
  /\ open[A] /\ open[B] =>
       FlowLength(packets[n].in, inbox[n], wire[Peer(n)]) = Len(packets[Peer(n)].out)
  /\ readerClosed[n] => ~open[Peer(n)] /\ wire[Peer(n)] = <<>> /\ inbox[n] = <<>>

Channels == TypeOK /\ \A n \in Node : Channel(n)

\* The packets and frames of one direction have their types.
LEMMA ChannelTypes ==
  ASSUME TypeOK, NEW n \in Node
  PROVE  /\ packets[Peer(n)].out \in Seq(Packet)
         /\ packets[n].in \in Seq(Packet)
         /\ inbox[n] \in Seq(Frame)
         /\ wire[Peer(n)] \in Seq(Frame)
BY PeerFacts DEF TypeOK

\* A terminal sends: its direction grows, the other one is left alone.
LEMMA ChannelSent ==
  ASSUME Channels, TypeOK', NEW s \in Node, SentOne(s), NEW n \in Node
  PROVE  Channel(n)'
<1>1. PICK f \in Frame : Written(s, f)
  BY DEF SentOne
<1>2. Channel(n) /\ TypeOK
  BY DEF Channels
<1>3. open' = open /\ inbox' = inbox /\ readerClosed' = readerClosed /\ open[s]
  BY DEF SentOne
<1>4. CASE n = s
  <2>1. Peer(n) # s /\ Peer(n) \in Node
    BY <1>4, PeerFacts
  <2>2. packets'[Peer(n)] = packets[Peer(n)] /\ wire'[Peer(n)] = wire[Peer(n)]
    BY <1>1, <2>1, <1>2 DEF Written, TypeOK
  <2>3. packets'[n].in = packets[n].in
    BY <1>1, <1>2, <1>4 DEF Written, TypeOK
  <2> QED BY <1>2, <1>3, <2>2, <2>3 DEF Channel
<1>5. CASE n # s
  <2>1. s = Peer(n) /\ Peer(s) = n
    BY <1>5, LiveAssumption DEF Peer, Node
  <2>2. packets'[n] = packets[n]
    BY <1>1, <1>2, <1>5 DEF Written, TypeOK
  <2>3. PacketOf(s, f) \in Packet /\ PacketOf(s, f).frame = f
    BY <1>2, PacketTypes DEF PacketOf
  <2>4. packets'[s].out = Append(packets[s].out, PacketOf(s, f))
    BY <1>1, <1>2 DEF Written, TypeOK
  <2>5. packets[s].out \in Seq(Packet) /\ packets[n].in \in Seq(Packet)
        /\ inbox[n] \in Seq(Frame) /\ wire[s] \in Seq(Frame)
    BY <1>2, <2>1, ChannelTypes
  <2>6. Flow(packets[s].out, packets[n].in, inbox[n], wire[s])
    BY <1>2, <2>1 DEF Channel
  <2>7. CASE ~open[n]
    <3>1. wire' = wire
      BY <1>1, <2>1, <2>7 DEF Written
    <3>2. Flow(Append(packets[s].out, PacketOf(s, f)), packets[n].in, inbox[n], wire[s])
      BY <2>3, <2>5, <2>6, FlowSend
    <3>3. ~(open[A] /\ open[B])
      BY <2>7 DEF Node
    <3>4. readerClosed[n] => ~open[s] /\ wire[s] = <<>> /\ inbox[n] = <<>>
      BY <1>2, <2>1 DEF Channel
    <3> QED BY <1>3, <2>1, <2>2, <2>4, <3>1, <3>2, <3>3, <3>4 DEF Channel
  <2>8. CASE open[n]
    <3>1. wire'[s] = Append(wire[s], f)
      BY <1>1, <1>2, <2>1, <2>8 DEF Written, TypeOK
    <3>2. FlowLength(packets[n].in, inbox[n], wire[s]) = Len(packets[s].out)
      BY <1>2, <1>3, <2>1, <2>8 DEF Channel, Peer, Node
    <3>3. /\ Flow(Append(packets[s].out, PacketOf(s, f)), packets[n].in, inbox[n],
                  Append(wire[s], f))
          /\ FlowLength(packets[n].in, inbox[n], Append(wire[s], f))
               = Len(Append(packets[s].out, PacketOf(s, f)))
      <4>1. PICK p \in Packet : p = PacketOf(s, f)
        BY <2>3, Zenon
      <4>2. p.frame = f
        BY <2>3, <4>1, Zenon
      <4>3. /\ Flow(Append(packets[s].out, p), packets[n].in, inbox[n],
                    Append(wire[s], p.frame))
            /\ FlowLength(packets[n].in, inbox[n], Append(wire[s], p.frame))
                 = Len(Append(packets[s].out, p))
        BY <2>5, <2>6, <3>2, FlowSend, Zenon
      <4> QED BY <4>1, <4>2, <4>3, Zenon
    <3>4. ~readerClosed[n]
      BY <1>2, <1>3, <2>1 DEF Channel
    <3> QED BY <1>3, <2>1, <2>2, <2>4, <3>1, <3>3, <3>4 DEF Channel
  <2> QED BY <2>7, <2>8
<1> QED BY <1>4, <1>5

\* The reader thread moves a frame, and has not ended.
LEMMA ChannelRead ==
  ASSUME Channels, TypeOK', NEW s \in Node, ReadOne(s), NEW n \in Node
  PROVE  Channel(n)'
<1>1. Channel(n) /\ TypeOK
  BY DEF Channels
<1>2. CASE n = s
  <2>1. /\ inbox'[n] = Append(inbox[n], Head(wire[Peer(n)]))
        /\ wire'[Peer(n)] = Tail(wire[Peer(n)])
        /\ wire[Peer(n)] # <<>>
        /\ packets' = packets /\ open' = open /\ readerClosed' = readerClosed
    BY <1>1, <1>2, PeerFacts DEF ReadOne, TypeOK
  <2>2. Flow(packets[Peer(n)].out, packets[n].in, inbox[n], wire[Peer(n)])
    BY <1>1 DEF Channel
  <2>3. /\ Flow(packets[Peer(n)].out, packets[n].in, inbox'[n], wire'[Peer(n)])
        /\ FlowLength(packets[n].in, inbox'[n], wire'[Peer(n)])
             = FlowLength(packets[n].in, inbox[n], wire[Peer(n)])
    BY <1>1, <2>1, <2>2, ChannelTypes, FlowRead
  <2> QED BY <1>1, <2>1, <2>3 DEF Channel
<1>3. CASE n # s
  <2>1. Peer(n) \in Node /\ Peer(s) \in Node /\ Peer(n) # Peer(s)
    BY <1>3, PeerFacts
  <2>2. inbox'[n] = inbox[n]
    BY <1>1, <1>3 DEF ReadOne, TypeOK
  <2>3. wire'[Peer(n)] = wire[Peer(n)]
    BY <1>1, <2>1 DEF ReadOne, TypeOK
  <2> QED BY <1>1, <2>2, <2>3 DEF Channel, ReadOne
<1> QED BY <1>2, <1>3

\* The node takes a frame from the channel and reports the packet.
LEMMA ChannelTook ==
  ASSUME Channels, TypeOK', NEW s \in Node, TookOne(s), NEW n \in Node
  PROVE  Channel(n)'
<1>1. Channel(n) /\ TypeOK
  BY DEF Channels
<1>2. wire' = wire /\ open' = open /\ readerClosed' = readerClosed
  BY DEF TookOne, TakeFrame
<1>3. \A m \in Node : packets'[m].out = packets[m].out
  BY <1>1 DEF TookOne, TakeFrame, TypeOK
<1>4. CASE n = s
  <2>1. /\ inbox[n] # <<>> /\ inbox'[n] = Tail(inbox[n])
        /\ packets'[n].in = Append(packets[n].in, PacketOf(n, Head(inbox[n])))
    BY <1>1, <1>4 DEF TookOne, TakeFrame, TypeOK
  <2>2. Head(inbox[n]) \in Frame
    BY <1>1, <1>4, TakeTypes DEF TookOne
  <2>3. PacketOf(n, Head(inbox[n])) \in Packet /\ PacketOf(n, Head(inbox[n])).frame = Head(inbox[n])
    BY <1>1, <2>2, PacketTypes DEF PacketOf
  <2>4. Flow(packets[Peer(n)].out, packets[n].in, inbox[n], wire[Peer(n)])
    BY <1>1 DEF Channel
  <2>5. /\ Flow(packets[Peer(n)].out, packets'[n].in, inbox'[n], wire[Peer(n)])
        /\ FlowLength(packets'[n].in, inbox'[n], wire[Peer(n)])
             = FlowLength(packets[n].in, inbox[n], wire[Peer(n)])
    BY <1>1, <2>1, <2>3, <2>4, ChannelTypes, FlowTake
  <2>6. packets'[Peer(n)].out = packets[Peer(n)].out
    BY <1>3, PeerFacts
  <2>7. ~readerClosed[n]
    BY <1>1, <2>1 DEF Channel
  <2> QED BY <1>1, <1>2, <2>5, <2>6, <2>7 DEF Channel
<1>5. CASE n # s
  <2>1. inbox'[n] = inbox[n] /\ packets'[n] = packets[n]
    BY <1>1, <1>5 DEF TookOne, TakeFrame, TypeOK
  <2>2. packets'[Peer(n)].out = packets[Peer(n)].out
    BY <1>3, PeerFacts
  <2> QED BY <1>1, <1>2, <2>1, <2>2 DEF Channel
<1> QED BY <1>4, <1>5

\* The node sees an empty channel, and perhaps that its reader has ended.
LEMMA ChannelSawEnd ==
  ASSUME Channels, TypeOK', NEW s \in Node, SawEnd(s), NEW n \in Node
  PROVE  Channel(n)'
<1>1. Channel(n) /\ TypeOK
  BY DEF Channels
<1>2. packets' = packets /\ wire' = wire /\ inbox' = inbox /\ open' = open /\ inbox[s] = <<>>
  BY DEF SawEnd, link
<1>3. readerClosed'[n] => readerClosed[n] \/ (n = s /\ ReaderEnded(s))
  BY <1>1 DEF SawEnd, TypeOK
<1> QED BY <1>1, <1>2, <1>3 DEF Channel, ReaderEnded

\* A terminal is closed.
LEMMA ChannelClosed ==
  ASSUME Channels, TypeOK', NEW s \in Node, Closed(s), NEW n \in Node
  PROVE  Channel(n)'
<1>1. Channel(n) /\ TypeOK
  BY DEF Channels
<1>2. packets' = packets /\ inbox' = inbox /\ readerClosed' = readerClosed
      /\ ~open'[s] /\ \A m \in Node : open'[m] => open[m]
  BY <1>1 DEF Closed, TypeOK
<1>3. PICK k \in 0..Len(wire[s]) : wire' = [wire EXCEPT ![s] = SubSeq(@, 1, k)]
  BY DEF Closed
<1>4. ~(open'[A] /\ open'[B])
  BY <1>2 DEF Node
<1>5. CASE n = s
  <2>1. wire'[Peer(n)] = wire[Peer(n)]
    BY <1>1, <1>3, <1>5, PeerFacts DEF TypeOK
  <2> QED BY <1>1, <1>2, <1>4, <2>1, PeerFacts DEF Channel
<1>6. CASE n # s
  <2>1. s = Peer(n)
    BY <1>6, LiveAssumption DEF Peer, Node
  <2>2. wire'[s] = SubSeq(wire[s], 1, k)
    BY <1>1, <1>3 DEF TypeOK
  <2>3. Flow(packets[s].out, packets[n].in, inbox[n], wire[s])
    BY <1>1, <2>1 DEF Channel
  <2>4. Flow(packets[s].out, packets[n].in, inbox[n], SubSeq(wire[s], 1, k))
    BY <1>1, <2>1, <2>3, ChannelTypes, FlowCut
  <2>5. readerClosed[n] => wire'[s] = <<>> /\ inbox[n] = <<>>
    <3>1. readerClosed[n] => wire[s] = <<>> /\ inbox[n] = <<>>
      BY <1>1, <2>1 DEF Channel
    <3>2. wire[s] = <<>> => k = 0
      OBVIOUS
    <3>3. k = 0 => SubSeq(wire[s], 1, k) = <<>>
      OBVIOUS
    <3> QED BY <2>2, <3>1, <3>2, <3>3
  <2> QED BY <1>2, <1>4, <2>1, <2>2, <2>4, <2>5 DEF Channel
<1> QED BY <1>5, <1>6

\* The frame a node takes is the next one its peer sent.
LEMMA TakenWasSent ==
  ASSUME Channels, NEW s \in Node, TakeFrame(s)
  PROVE  /\ Head(inbox[s]) \in Frame
         /\ Len(packets[s].in) + 1 \in 1..Len(packets[Peer(s)].out)
         /\ Head(inbox[s]) = packets[Peer(s)].out[Len(packets[s].in) + 1].frame
<1>1. TypeOK /\ Channel(s)
  BY DEF Channels
<1>2. Head(inbox[s]) \in Frame
  BY <1>1, TakeTypes
<1>3. PacketOf(s, Head(inbox[s])) \in Packet
  BY <1>1, <1>2, PacketTypes, Zenon
<1>4. PacketOf(s, Head(inbox[s])).frame = Head(inbox[s])
  BY DEF PacketOf
<1> DEFINE sent == packets[Peer(s)].out
           got == packets[s].in
           box == inbox[s]
           line == wire[Peer(s)]
           p == PacketOf(s, Head(inbox[s]))
<1>5. sent \in Seq(Packet) /\ got \in Seq(Packet) /\ box \in Seq(Frame) /\ line \in Seq(Frame)
  BY <1>1, ChannelTypes
<1>6. Flow(sent, got, box, line) /\ box # <<>>
  BY <1>1 DEF Channel, TakeFrame
<1>7. p \in Packet /\ p.frame = Head(box)
  BY <1>3, <1>4
<1>8. Len(got) + 1 \in 1..Len(sent) /\ Head(box) = sent[Len(got) + 1].frame
  <2> HIDE DEF sent, got, box, line, p
  <2> QED BY <1>5, <1>6, <1>7, FlowTake
<1> QED BY <1>2, <1>8

\* At first nothing was sent.
LEMMA ChannelInit == Init => Channels
<1> SUFFICES ASSUME Init PROVE Channels
  OBVIOUS
<1>1. TypeOK
  BY TypeInit
<1>2. ASSUME NEW n \in Node PROVE Channel(n)
  <2>1. packets[Peer(n)].out = <<>> /\ packets[n].in = <<>> /\ inbox[n] = <<>>
        /\ wire[Peer(n)] = <<>> /\ ~readerClosed[n]
    BY PeerFacts DEF Init
  <2>2. Flow(<<>>, <<>>, <<>>, <<>>) /\ FlowLength(<<>>, <<>>, <<>>) = Len(<<>>)
    BY DEF Flow, FlowLength
  <2> QED BY <2>1, <2>2 DEF Channel
<1> QED BY <1>1, <1>2 DEF Channels

\* Every step keeps both directions in order.
LEMMA ChannelStep == Channels /\ [Next]_vars => Channels'
<1> SUFFICES ASSUME Channels, [Next]_vars PROVE Channels'
  OBVIOUS
<1>1. TypeOK /\ TypeOK'
  BY TypeStep DEF Channels
<1>2. CASE UNCHANGED <<packets, wire, inbox, open, readerClosed>>
  BY <1>1, <1>2 DEF Channels, Channel
<1>3. ASSUME NEW s \in Node, LinkStep(s), NEW n \in Node PROVE Channel(n)'
  BY <1>1, <1>3, ChannelSent, ChannelRead, ChannelTook, ChannelSawEnd, ChannelClosed DEF LinkStep
<1> QED BY <1>1, <1>2, <1>3, LinkSteps DEF Channels

\* Between the two terminals no frame is lost, repeated or passed by another one,
\* whatever the users do and however long the session lasts.
THEOREM InOrder == Spec => []FramesInOrder
<1>1. Channels => FramesInOrder
  <2> SUFFICES ASSUME Channels, NEW n \in Node
               PROVE  LET sent == packets[Peer(n)].out
                          got == packets[n].in
                          seen == Len(got) + Len(inbox[n])
                      IN  /\ seen + Len(wire[Peer(n)]) <= Len(sent)
                          /\ open[A] /\ open[B] => seen + Len(wire[Peer(n)]) = Len(sent)
                          /\ \A i \in DOMAIN got : got[i].frame = sent[i].frame
                          /\ \A i \in DOMAIN inbox[n] : inbox[n][i] = sent[Len(got) + i].frame
                          /\ \A i \in DOMAIN wire[Peer(n)] :
                               wire[Peer(n)][i] = sent[seen + i].frame
                          /\ readerClosed[n] => wire[Peer(n)] = <<>> /\ inbox[n] = <<>>
    BY DEF FramesInOrder
  <2>1. Channel(n) /\ TypeOK
    BY DEF Channels
  <2>2. DOMAIN packets[n].in = 1..Len(packets[n].in) /\ DOMAIN inbox[n] = 1..Len(inbox[n])
        /\ DOMAIN wire[Peer(n)] = 1..Len(wire[Peer(n)])
    BY <2>1, ChannelTypes, LenProperties
  <2> QED BY <2>1, <2>2 DEF Channel, Flow, FlowLength
<1> QED BY <1>1, ChannelInit, ChannelStep, PTL DEF Spec

-----------------------------------------------------------------------------
(* ObservedWasPosted                                                       *)

\* Among these entries is n's own for what frame f announces.
Owns(entries, n, f) ==
  \E j \in 1..Len(entries) :
    /\ entries[j].from = n /\ entries[j].text = f.text
    /\ entries[j].to = NoCall <=> f.kind = "BEACON"

Related(ea, eb, n, m) ==
  \A i \in 1..Len(ea) : ea[i].from # n =>
    /\ ea[i].from = m
    /\ \E j \in 1..Len(eb) :
         /\ eb[j].from = m /\ eb[j].text = ea[i].text
         /\ eb[j].to = NoCall <=> ea[i].to = NoCall

\* An entry more: what is owned stays owned, and the entry itself is.
LEMMA OwnsMore ==
  ASSUME NEW es \in Seq(Entry), NEW e \in Entry, NEW n, NEW f
  PROVE  /\ Owns(es, n, f) => Owns(Append(es, e), n, f)
         /\ e.from = n /\ e.text = f.text /\ (e.to = NoCall <=> f.kind = "BEACON")
              => Owns(Append(es, e), n, f)
<1>1. Len(es) \in Nat /\ Len(Append(es, e)) = Len(es) + 1
      /\ (\A i \in 1..Len(es) : Append(es, e)[i] = es[i]) /\ Append(es, e)[Len(es) + 1] = e
  BY LenProperties, AppendProperties
<1>2. Len(es) + 1 \in 1..Len(Append(es, e)) /\ \A i \in 1..Len(es) : i \in 1..Len(Append(es, e))
  BY <1>1
<1>3. ASSUME Owns(es, n, f) PROVE Owns(Append(es, e), n, f)
  BY <1>1, <1>2, <1>3 DEF Owns
<1>4. ASSUME e.from = n, e.text = f.text, e.to = NoCall <=> f.kind = "BEACON"
      PROVE  Owns(Append(es, e), n, f)
  BY <1>1, <1>2, <1>4 DEF Owns
<1> QED BY <1>3, <1>4

\* An entry more, of one's own, of the peer's, or seen from the peer.
LEMMA RelatedMore ==
  ASSUME NEW ea \in Seq(Entry), NEW eb \in Seq(Entry), NEW n, NEW m, NEW e \in Entry,
         Related(ea, eb, n, m)
  PROVE  /\ Related(ea, Append(eb, e), n, m)
         /\ e.from = n => Related(Append(ea, e), eb, n, m)
         /\ \A f \in Frame :
              /\ Owns(eb, m, f) /\ e.from = m /\ e.text = f.text
              /\ e.to = NoCall <=> f.kind = "BEACON"
              => Related(Append(ea, e), eb, n, m)
<1>1. Len(ea) \in Nat /\ Len(eb) \in Nat
  BY LenProperties
<1>2. Len(Append(ea, e)) = Len(ea) + 1 /\ (\A i \in 1..Len(ea) : Append(ea, e)[i] = ea[i])
      /\ Append(ea, e)[Len(ea) + 1] = e
  BY AppendProperties
<1>3. Len(Append(eb, e)) = Len(eb) + 1 /\ (\A i \in 1..Len(eb) : Append(eb, e)[i] = eb[i])
  BY AppendProperties
<1>4. Related(ea, Append(eb, e), n, m)
  <2>1. \A j \in 1..Len(eb) : j \in 1..Len(Append(eb, e)) /\ Append(eb, e)[j] = eb[j]
    BY <1>1, <1>3
  <2>2. ASSUME NEW i \in 1..Len(ea), ea[i].from # n
        PROVE  /\ ea[i].from = m
               /\ \E j \in 1..Len(Append(eb, e)) :
                    /\ Append(eb, e)[j].from = m /\ Append(eb, e)[j].text = ea[i].text
                    /\ Append(eb, e)[j].to = NoCall <=> ea[i].to = NoCall
    <3>1. PICK j \in 1..Len(eb) :
            /\ eb[j].from = m /\ eb[j].text = ea[i].text
            /\ eb[j].to = NoCall <=> ea[i].to = NoCall
      BY <2>2 DEF Related
    <3>2. ea[i].from = m
      BY <2>2 DEF Related
    <3> QED BY <2>1, <3>1, <3>2
  <2> QED BY <2>2, Zenon DEF Related
<1>5. \A i \in 1..Len(Append(ea, e)) : i \in 1..Len(ea) \/ i = Len(ea) + 1
  BY <1>1, <1>2
<1>6. ASSUME e.from = n PROVE Related(Append(ea, e), eb, n, m)
  BY <1>2, <1>5, <1>6 DEF Related
<1>7. ASSUME NEW f \in Frame, Owns(eb, m, f), e.from = m, e.text = f.text,
             e.to = NoCall <=> f.kind = "BEACON"
      PROVE  Related(Append(ea, e), eb, n, m)
  <2>1. \E j \in 1..Len(eb) : /\ eb[j].from = m /\ eb[j].text = e.text
                              /\ eb[j].to = NoCall <=> e.to = NoCall
    BY <1>7 DEF Owns
  <2>2. ASSUME NEW i \in 1..Len(Append(ea, e)), Append(ea, e)[i].from # n
        PROVE  /\ Append(ea, e)[i].from = m
               /\ \E j \in 1..Len(eb) :
                    /\ eb[j].from = m /\ eb[j].text = Append(ea, e)[i].text
                    /\ eb[j].to = NoCall <=> Append(ea, e)[i].to = NoCall
    <3>1. CASE i \in 1..Len(ea)
      BY <1>2, <2>2, <3>1 DEF Related
    <3>2. CASE i = Len(ea) + 1
      BY <1>2, <1>7, <2>1, <3>2
    <3> QED BY <1>5, <3>1, <3>2
  <2> QED BY <2>2, Zenon DEF Related
<1> QED BY <1>4, <1>6, <1>7, Zenon

FromSelf(n) ==
  \A i \in 1..Len(packets[n].out) : packets[n].out[i].frame.from = n

OutPosted(n) ==
  \A i \in 1..Len(packets[n].out) :
    packets[n].out[i].frame.kind \in AppKind
      => Owns(app[n].entries, n, packets[n].out[i].frame)

EventPosted(entries, m, e) ==
  e.what = "app" =>
    /\ e.frame.kind \in AppKind /\ e.frame.from = m
    /\ Owns(entries, m, e.frame)

EventsPosted(n) ==
  \A i \in 1..Len(collected[n]) : EventPosted(app[Peer(n)].entries, Peer(n), collected[n][i])

Posted(n) ==
  /\ FromSelf(n) /\ OutPosted(n) /\ EventsPosted(n)
  /\ Related(app[n].entries, app[Peer(n)].entries, n, Peer(n))

PostedInv == Channels /\ \A n \in Node : Posted(n)

\* Entries only ever grow.
Grown(n) ==
  \/ app'[n].entries = app[n].entries
  \/ \E e \in Entry : app'[n].entries = Append(app[n].entries, e)

\* The entries of an app model are a sequence.
LEMMA EntriesType ==
  ASSUME TypeOK, NEW n \in Node
  PROVE  app[n].entries \in Seq(Entry) /\ app[n].next \in Nat
BY DEF TypeOK, AppModel

\* A frame whose packet is sent now is either not an announcement or has its
\* entry already: what sending needs.
LEMMA PostedWritten ==
  ASSUME TypeOK, NEW s \in Node, FromSelf(s), OutPosted(s), NEW f \in Frame, f.from = s,
         Written(s, f), Grown(s),
         f.kind \in AppKind => Owns(app'[s].entries, s, f)
  PROVE  FromSelf(s)' /\ OutPosted(s)'
<1>1. packets[s].out \in Seq(Packet) /\ PacketOf(s, f) \in Packet /\ PacketOf(s, f).frame = f
  BY PacketTypes DEF PacketOf
<1>2. packets'[s].out = Append(packets[s].out, PacketOf(s, f))
  BY DEF Written, TypeOK
<1>3. /\ Len(packets[s].out) \in Nat /\ Len(packets'[s].out) = Len(packets[s].out) + 1
      /\ \A i \in 1..Len(packets[s].out) : packets'[s].out[i] = packets[s].out[i]
      /\ packets'[s].out[Len(packets[s].out) + 1] = PacketOf(s, f)
  BY <1>1, <1>2, LenProperties, AppendProperties
<1>4. \A i \in 1..Len(packets'[s].out) : i \in 1..Len(packets[s].out) \/ i = Len(packets[s].out) + 1
  BY <1>3
<1>5. FromSelf(s)'
  BY <1>1, <1>3, <1>4 DEF FromSelf
<1>6. ASSUME NEW i \in 1..Len(packets'[s].out), packets'[s].out[i].frame.kind \in AppKind
      PROVE  Owns(app'[s].entries, s, packets'[s].out[i].frame)
  <2>1. CASE i \in 1..Len(packets[s].out)
    <3>1. Owns(app[s].entries, s, packets'[s].out[i].frame)
      BY <1>3, <1>6, <2>1 DEF OutPosted
    <3> QED BY <3>1, EntriesType, OwnsMore DEF Grown
  <2>2. CASE i = Len(packets[s].out) + 1
    BY <1>1, <1>3, <1>6, <2>2
  <2> QED BY <1>4, <2>1, <2>2
<1>7. OutPosted(s)'
  BY <1>6, Zenon DEF OutPosted
<1> QED BY <1>5, <1>7

\* Nothing about what is sent changes, and entries only grow.
LEMMA PostedGrown ==
  ASSUME TypeOK, NEW n \in Node, \A m \in Node : Grown(m)
  PROVE  /\ FromSelf(n) /\ OutPosted(n) /\ packets'[n].out = packets[n].out
              => FromSelf(n)' /\ OutPosted(n)'
         /\ \A e \in Event : EventPosted(app[Peer(n)].entries, Peer(n), e)
                             => EventPosted(app'[Peer(n)].entries, Peer(n), e)
<1>1. \A m \in Node : \A f : Owns(app[m].entries, m, f) => Owns(app'[m].entries, m, f)
  BY EntriesType, OwnsMore DEF Grown
<1>2. ASSUME FromSelf(n), OutPosted(n), packets'[n].out = packets[n].out
      PROVE  FromSelf(n)' /\ OutPosted(n)'
  BY <1>1, <1>2 DEF FromSelf, OutPosted
<1>3. \A e \in Event : EventPosted(app[Peer(n)].entries, Peer(n), e)
                     => EventPosted(app'[Peer(n)].entries, Peer(n), e)
  BY <1>1, PeerFacts DEF EventPosted
<1> QED BY <1>2, <1>3

\* A command records before it sends.
LEMMA PostedCommands ==
  ASSUME PostedInv, TypeOK', NEW s \in Node, Commands(s), NEW n \in Node
  PROVE  Posted(n)'
<1>1. TypeOK /\ Posted(n) /\ Posted(s)
  BY DEF PostedInv, Channels
<1>2. collected' = collected
  BY DEF Commands, Connect, Disconnect, SendTextRefused, SendText, ConnectRefused,
       ReceiveTextRefused, ReceiveText, Announce, AnnounceRefused, Command
<1>3. ASSUME NEW kind, NEW text, NEW sent, NEW failed,
             \/ kind \in Control /\ text = NoText
             \/ kind \in AppKind \cup {"MSG"} /\ text \in Text,
             \/ SendPayload(s, FrameOf(s, kind, text), sent, failed)
             \/ Written(s, FrameOf(s, kind, text)) \/ Unwritten(s),
             Grown(s),
             kind \in AppKind => Owns(app'[s].entries, s, FrameOf(s, kind, text))
      PROVE  /\ FromSelf(s)' /\ OutPosted(s)'
             /\ \A m \in Node : m # s => packets'[m] = packets[m]
  <2>1. FrameOf(s, kind, text) \in Frame
    BY <1>1, <1>3, FrameOfTypes
  <2>2. FrameOf(s, kind, text).from = s /\ FrameOf(s, kind, text).kind = kind
    BY DEF FrameOf
  <2>3. FromSelf(s) /\ OutPosted(s)
    BY <1>1 DEF Posted
  <2>4. CASE Written(s, FrameOf(s, kind, text))
    <3>1. FromSelf(s)' /\ OutPosted(s)'
      BY <1>1, <1>3, <2>1, <2>2, <2>3, <2>4, PostedWritten
    <3>2. \A m \in Node : m # s => packets'[m] = packets[m]
      BY <1>1, <2>4 DEF Written, TypeOK
    <3> QED BY <3>1, <3>2
  <2>5. CASE Unwritten(s)
    <3>1. packets' = packets
      BY <2>5 DEF Unwritten
    <3>2. \A f : Owns(app[s].entries, s, f) => Owns(app'[s].entries, s, f)
      BY <1>1, <1>3, EntriesType, OwnsMore DEF Grown
    <3> QED BY <2>3, <3>1, <3>2 DEF FromSelf, OutPosted
  <2> QED BY <1>3, <2>4, <2>5 DEF SendPayload
<1>4. ASSUME app' = app
      PROVE  \A m \in Node : Grown(m)
  BY <1>4 DEF Grown
<1>5. /\ \A m \in Node : Grown(m)
      /\ \A m \in Node : m # s => packets'[m] = packets[m] /\ app'[m] = app[m]
      /\ FromSelf(s)' /\ OutPosted(s)'
      /\ \/ app'[s].entries = app[s].entries
         \/ \E e \in Entry : e.from = s /\ app'[s].entries = Append(app[s].entries, e)
  <2>1. ASSUME app' = app, packets' = packets
        PROVE  FromSelf(s)' /\ OutPosted(s)'
    BY <1>1, <2>1 DEF Posted, FromSelf, OutPosted
  <2>2. ASSUME NEW kind \in AppKind, NEW to \in Call \cup {NoCall}, NEW t \in Text,
               kind = "BEACON" <=> to = NoCall, Announce(s, kind, to, t)
        PROVE  <1>5!1 /\ <1>5!2 /\ <1>5!3 /\ <1>5!4
    <3> DEFINE e == [sequence |-> app[s].next, from |-> s, to |-> to, text |-> t]
    <3>1. e \in Entry /\ e.from = s /\ e.text = t /\ e.to = to
      BY <1>1, EntriesType, PeerFacts DEF Entry
    <3>2. app'[s].entries = Append(app[s].entries, e)
          /\ \A m \in Node : m # s => app'[m] = app[m]
      BY <1>1, <2>2 DEF Announce, Recorded, TypeOK
    <3> HIDE DEF e
    <3>3. \A m \in Node : Grown(m)
      BY <3>1, <3>2 DEF Grown
    <3>4. FrameOf(s, kind, t).text = t /\ FrameOf(s, kind, t).kind = kind
      BY DEF FrameOf
    <3>5. Owns(app'[s].entries, s, FrameOf(s, kind, t))
      BY <1>1, <2>2, <3>1, <3>2, <3>4, EntriesType, OwnsMore
    <3>6. \E l1, l2 : SendPayload(s, FrameOf(s, kind, t), l1, l2)
      BY <2>2 DEF Announce
    <3>7. /\ FromSelf(s)' /\ OutPosted(s)'
          /\ \A m \in Node : m # s => packets'[m] = packets[m]
      BY <1>3, <3>3, <3>5, <3>6
    <3> QED BY <3>1, <3>2, <3>3, <3>7
  <2>3. CASE AnnounceRefused(s)
    <3>1. packets' = packets
      BY <2>3 DEF AnnounceRefused, Refused
    <3>2. app'[s].entries = app[s].entries /\ \A m \in Node : m # s => app'[m] = app[m]
      BY <1>1, <2>3 DEF AnnounceRefused, RecordRefused, TypeOK
    <3>3. \A m \in Node : Grown(m)
      BY <3>2 DEF Grown
    <3>4. FromSelf(s)' /\ OutPosted(s)'
      BY <1>1, <3>1, <3>2 DEF Posted, FromSelf, OutPosted
    <3> QED BY <3>1, <3>2, <3>3, <3>4
  <2>4. CASE Connect(s)
    <3>1. app' = app /\ \E l1, l2 : SendPayload(s, FrameOf(s, "CONNECT", NoText), l1, l2)
      BY <2>4 DEF Connect
    <3> QED BY <1>3, <1>4, <3>1 DEF Control, AppKind
  <2>5. CASE Disconnect(s)
    <3>1. app' = app
          /\ (Written(s, FrameOf(s, "DISCONNECT", NoText)) \/ Unwritten(s))
      BY <2>5 DEF Disconnect
    <3> QED BY <1>3, <1>4, <3>1 DEF Control, AppKind
  <2>6. ASSUME NEW t \in Text \ RxText, SendText(s, t)
        PROVE  <1>5!1 /\ <1>5!2 /\ <1>5!3 /\ <1>5!4
    <3>1. app' = app /\ \E l1, l2 : SendPayload(s, FrameOf(s, "MSG", t), l1, l2)
      BY <2>6 DEF SendText
    <3> QED BY <1>3, <1>4, <3>1 DEF Control, AppKind
  <2>7. CASE \/ SendTextRefused(s)
             \/ \E c \in Call : ConnectRefused(s, c) \/ ReceiveTextRefused(s, c)
             \/ \E c \in Call, t \in RxText : ReceiveText(s, c, t)
    <3>1. app' = app /\ packets' = packets
      BY <2>7 DEF SendTextRefused, ConnectRefused, ReceiveTextRefused, ReceiveText, Refused
    <3> QED BY <1>4, <2>1, <3>1
  <2>8. CASE \E t \in Text \ RxText : Announce(s, "BEACON", NoCall, t)
    BY <2>2, <2>8 DEF AppKind
  <2>9. CASE \E c \in Call, t \in Text \ RxText : Announce(s, "MAIL", c, t)
    BY <2>2, <2>9, ChatAssumption DEF AppKind
  <2> QED BY <2>3, <2>4, <2>5, <2>6, <2>7, <2>8, <2>9 DEF Commands
<1>6. EventsPosted(n)'
  <2>1. collected[n] \in Seq(Event)
    BY <1>1 DEF TypeOK
  <2>2. \A i \in 1..Len(collected[n]) : collected[n][i] \in Event
    BY <2>1, ElementOfSeq
  <2> QED BY <1>1, <1>2, <1>5, <2>2, PostedGrown DEF EventsPosted, Posted
<1>7. FromSelf(n)' /\ OutPosted(n)'
  BY <1>1, <1>5, PostedGrown DEF Posted
<1>8. Related(app'[n].entries, app'[Peer(n)].entries, n, Peer(n))
  <2>1. Related(app[n].entries, app[Peer(n)].entries, n, Peer(n))
    BY <1>1 DEF Posted
  <2>2. CASE n = s
    <3>1. app'[Peer(n)] = app[Peer(n)]
      BY <1>5, <2>2, PeerFacts
    <3>2. app[n].entries \in Seq(Entry) /\ app[Peer(n)].entries \in Seq(Entry)
      BY <1>1, EntriesType, PeerFacts
    <3>3. CASE app'[n].entries = app[n].entries
      BY <2>1, <3>1, <3>3
    <3>4. ASSUME NEW e \in Entry, e.from = n, app'[n].entries = Append(app[n].entries, e)
          PROVE  Related(app'[n].entries, app[Peer(n)].entries, n, Peer(n))
      BY <2>1, <3>2, <3>4, RelatedMore
    <3> QED BY <1>5, <2>2, <3>1, <3>3, <3>4
  <2>3. CASE n # s
    <3>1. s = Peer(n) /\ app'[n] = app[n]
      BY <1>5, <2>3, LiveAssumption DEF Peer, Node
    <3> QED BY <1>1, <1>5, <2>1, <3>1, EntriesType, RelatedMore
  <2> QED BY <2>2, <2>3
<1> QED BY <1>6, <1>7, <1>8 DEF Posted

\* Reading from the wire, closing a terminal, beginning and ending a poll leave
\* the packets, the events and the entries alone.
LEMMA PostedSame ==
  ASSUME PostedInv, packets' = packets, collected' = collected, app' = app, NEW n \in Node
  PROVE  Posted(n)'
<1>1. Posted(n)
  BY DEF PostedInv
<1>2. (FromSelf(n) /\ OutPosted(n))'
  BY <1>1 DEF Posted, FromSelf, OutPosted
<1>3. EventsPosted(n)'
  BY <1>1 DEF Posted, EventsPosted, EventPosted
<1>4. Related(app[n].entries, app[Peer(n)].entries, n, Peer(n))'
  BY <1>1 DEF Posted
<1> QED BY <1>2, <1>3, <1>4 DEF Posted

\* The frame a node takes is one its peer sent, so it announces what the peer owns.
LEMMA PostedTaken ==
  ASSUME PostedInv, NEW s \in Node, TakeFrame(s)
  PROVE  /\ Head(inbox[s]) \in Frame /\ Head(inbox[s]).from = Peer(s)
         /\ Head(inbox[s]).kind \in AppKind
              => Owns(app[Peer(s)].entries, Peer(s), Head(inbox[s]))
<1>1. Channels /\ Posted(Peer(s)) /\ Peer(s) \in Node
  BY PeerFacts DEF PostedInv
<1>2. /\ Head(inbox[s]) \in Frame
      /\ Len(packets[s].in) + 1 \in 1..Len(packets[Peer(s)].out)
      /\ Head(inbox[s]) = packets[Peer(s)].out[Len(packets[s].in) + 1].frame
  BY <1>1, TakenWasSent
<1> QED BY <1>1, <1>2 DEF Posted, FromSelf, OutPosted

\* A frame that is taken, accepted or not.
LEMMA PostedReceive ==
  ASSUME PostedInv, TypeOK', NEW s \in Node, ReceiveFrame(s) \/ PollFails(s), NEW n \in Node
  PROVE  Posted(n)'
<1>1. TypeOK /\ Posted(n)
  BY DEF PostedInv, Channels
<1>2. TakeFrame(s) /\ app' = app /\ \A m \in Node : Grown(m)
  BY DEF ReceiveFrame, PollFails, TakeFrame, Grown
<1>3. packets'[n].out = packets[n].out
  BY <1>1, <1>2 DEF TakeFrame, TypeOK
<1>4. FromSelf(n)' /\ OutPosted(n)'
  BY <1>1, <1>2, <1>3, PostedGrown DEF Posted
<1>5. Related(app'[n].entries, app'[Peer(n)].entries, n, Peer(n))
  BY <1>1, <1>2 DEF Posted
<1>6. collected[n] \in Seq(Event)
  BY <1>1 DEF TypeOK
<1>7. \A i \in 1..Len(collected[n]) : EventPosted(app'[Peer(n)].entries, Peer(n), collected[n][i])
  <2>1. \A i \in 1..Len(collected[n]) : EventPosted(app[Peer(n)].entries, Peer(n), collected[n][i])
    BY <1>1 DEF Posted, EventsPosted
  <2> QED BY <1>2, <2>1 DEF EventPosted
<1>8. CASE collected'[n] = collected[n]
  BY <1>4, <1>5, <1>7, <1>8 DEF Posted, EventsPosted
<1>9. CASE n = s /\ PollFails(s)
  <2>1. collected'[n] = <<>>
    BY <1>1, <1>9 DEF PollFails, TypeOK
  <2>2. EventsPosted(n)'
    BY <2>1 DEF EventsPosted
  <2> QED BY <1>4, <1>5, <2>2 DEF Posted
<1>10. CASE n = s /\ ReceiveFrame(s)
  <2>1. /\ Head(inbox[n]) \in Frame /\ Head(inbox[n]).from = Peer(n)
        /\ Head(inbox[n]).kind \in AppKind
              => Owns(app[Peer(n)].entries, Peer(n), Head(inbox[n]))
    BY <1>2, <1>10, PostedTaken
  <2>2. EventOf(n, Head(inbox[n])) \in Event
    BY <1>1, <2>1, AfterTypes
  <2>3. collected'[n] = Append(collected[n], EventOf(n, Head(inbox[n])))
    BY <1>1, <1>10 DEF ReceiveFrame, TypeOK
  <2>4. EventPosted(app'[Peer(n)].entries, Peer(n), EventOf(n, Head(inbox[n])))
    <3>1. EventOf(n, Head(inbox[n])).frame = Head(inbox[n])
      BY DEF EventOf
    <3>2. EventOf(n, Head(inbox[n])).what = "app" => Head(inbox[n]).kind \in AppKind
      BY <2>1 DEF EventOf, Frame, ControlFrame, TextFrame, Control, AppKind
    <3> QED BY <1>2, <2>1, <3>1, <3>2 DEF EventPosted
  <2>5. EventsPosted(n)'
    <3>1. PICK e \in Event : e = EventOf(n, Head(inbox[n]))
      BY <2>2
    <3>2. /\ Len(collected[n]) \in Nat /\ Len(collected'[n]) = Len(collected[n]) + 1
          /\ \A i \in 1..Len(collected[n]) : collected'[n][i] = collected[n][i]
          /\ collected'[n][Len(collected[n]) + 1] = e
      BY <1>6, <2>3, <3>1, LenProperties, AppendProperties
    <3>3. \A i \in 1..Len(collected'[n]) : i \in 1..Len(collected[n]) \/ i = Len(collected[n]) + 1
      BY <3>2
    <3>4. \A i \in 1..Len(collected'[n]) : EventPosted(app'[Peer(n)].entries, Peer(n), collected'[n][i])
      BY <1>7, <2>4, <3>1, <3>2, <3>3 DEF EventPosted
    <3> QED BY <3>4 DEF EventsPosted
  <2> QED BY <1>4, <1>5, <2>5 DEF Posted
<1>11. n # s => collected'[n] = collected[n]
  BY <1>1 DEF ReceiveFrame, PollFails, TypeOK
<1> QED BY <1>8, <1>9, <1>10, <1>11

\* An event that is recorded was posted by the peer.
LEMMA PostedRecord ==
  ASSUME PostedInv, TypeOK', NEW s \in Node, RecordChat(s) \/ RecordApp(s), NEW n \in Node
  PROVE  Posted(n)'
<1>1. TypeOK /\ Posted(n) /\ Posted(s)
  BY DEF PostedInv, Channels
<1>2. Recording(s) /\ packets' = packets
  BY DEF RecordChat, RecordApp, Recording
<1>3. collected[s] \in Seq(Event) /\ collected[s] # <<>>
  BY <1>1, <1>2 DEF TypeOK, Recording
<1>4. Head(collected[s]) \in Event /\ EventPosted(app[Peer(s)].entries, Peer(s), Head(collected[s]))
  <2>1. Head(collected[s]) = collected[s][1] /\ 1 \in 1..Len(collected[s])
        /\ Head(collected[s]) \in Event
    BY <1>3, HeadTailProperties, LenProperties, EmptySeq
  <2> QED BY <1>1, <2>1 DEF Posted, EventsPosted
<1>5. /\ \A m \in Node : Grown(m)
      /\ \A m \in Node : m # s => app'[m] = app[m]
      /\ \/ app' = app
         \/ \E e \in Entry, f \in Frame :
              /\ app'[s].entries = Append(app[s].entries, e)
              /\ Owns(app[Peer(s)].entries, Peer(s), f) /\ e.from = Peer(s) /\ e.text = f.text
              /\ e.to = NoCall <=> f.kind = "BEACON"
  <2>1. CASE RecordChat(s)
    BY <2>1 DEF RecordChat, Grown
  <2>2. CASE RecordApp(s)
    <3> DEFINE f == Head(collected[s]).frame
               to == IF f.kind = "MAIL" THEN f.to ELSE NoCall
               e == [sequence |-> app[s].next, from |-> f.from, to |-> to, text |-> f.text]
    <3>1. Head(collected[s]).what = "app"
      BY <2>2 DEF RecordApp
    <3>2. f \in TextFrame
      BY <1>4, <3>1 DEF Event, ChatEvent, AppEvent
    <3>3. f.kind \in AppKind /\ f.from = Peer(s) /\ Owns(app[Peer(s)].entries, Peer(s), f)
      BY <1>4, <3>1 DEF EventPosted
    <3>4. to \in Call \cup {NoCall} /\ (to = NoCall <=> f.kind = "BEACON")
      BY <3>2, <3>3, ChatAssumption DEF TextFrame, AppKind
    <3>5. f.from \in Call /\ f.text \in Text /\ f \in Frame
      BY <3>2 DEF TextFrame, Frame
    <3>6. app'[s].entries = Append(app[s].entries, e)
          /\ \A m \in Node : m # s => app'[m] = app[m]
      BY <1>1, <2>2 DEF RecordApp, Recorded, TypeOK
    <3> HIDE DEF f, to
    <3>7. e \in Entry /\ e.from = Peer(s) /\ e.text = f.text /\ e.to = to
      BY <1>1, <3>3, <3>4, <3>5, EntriesType DEF Entry
    <3> HIDE DEF e
    <3>8. \A m \in Node : Grown(m)
      BY <3>6, <3>7 DEF Grown
    <3>9. Owns(app[Peer(s)].entries, Peer(s), f) /\ (e.to = NoCall <=> f.kind = "BEACON")
      BY <3>3, <3>4, <3>7
    <3> QED BY <3>5, <3>6, <3>7, <3>8, <3>9
  <2> QED BY <2>1, <2>2
<1>6. FromSelf(n)' /\ OutPosted(n)'
  BY <1>1, <1>2, <1>5, PostedGrown DEF Posted
<1>7. EventsPosted(n)'
  <2>1. \A i \in 1..Len(collected[n]) : EventPosted(app'[Peer(n)].entries, Peer(n), collected[n][i])
    <3>1. \A i \in 1..Len(collected[n]) : collected[n][i] \in Event
      BY <1>1, ElementOfSeq DEF TypeOK
    <3> QED BY <1>1, <1>5, <3>1, PostedGrown DEF Posted, EventsPosted
  <2>2. CASE n = s
    <3>1. collected'[n] = Tail(collected[n])
      BY <1>1, <1>2, <2>2 DEF Recording, TypeOK
    <3>2. /\ Len(collected[n]) \in Nat /\ Len(collected'[n]) = Len(collected[n]) - 1
          /\ \A i \in 1..Len(collected'[n]) : collected'[n][i] = collected[n][i + 1]
      BY <1>3, <2>2, <3>1, LenProperties, HeadTailProperties
    <3>3. \A i \in 1..Len(collected'[n]) : EventPosted(app'[Peer(n)].entries, Peer(n), collected'[n][i])
      <4>1. \A i \in 1..Len(collected'[n]) : i + 1 \in 1..Len(collected[n])
        BY <3>2
      <4> QED BY <2>1, <3>2, <4>1 DEF EventPosted
    <3> QED BY <3>3 DEF EventsPosted
  <2>3. CASE n # s
    <3>1. collected'[n] = collected[n]
      BY <1>1, <1>2, <2>3 DEF Recording, TypeOK
    <3> QED BY <2>1, <3>1 DEF EventsPosted, EventPosted
  <2> QED BY <2>2, <2>3
<1>8. Related(app'[n].entries, app'[Peer(n)].entries, n, Peer(n))
  <2>0. Related(app[n].entries, app[Peer(n)].entries, n, Peer(n))
        /\ app[n].entries \in Seq(Entry) /\ app[Peer(n)].entries \in Seq(Entry)
    BY <1>1, EntriesType, PeerFacts DEF Posted
  <2>1. CASE app' = app
    BY <2>0, <2>1
  <2>2. ASSUME NEW e \in Entry, NEW f \in Frame,
               app'[s].entries = Append(app[s].entries, e),
               Owns(app[Peer(s)].entries, Peer(s), f), e.from = Peer(s), e.text = f.text,
               e.to = NoCall <=> f.kind = "BEACON"
        PROVE  Related(app'[n].entries, app'[Peer(n)].entries, n, Peer(n))
    <3>1. CASE n = s
      <4>1. app'[Peer(n)] = app[Peer(n)]
        BY <1>5, <3>1, PeerFacts
      <4>2. Related(Append(app[n].entries, e), app[Peer(n)].entries, n, Peer(n))
        BY <2>0, <2>2, <3>1, RelatedMore
      <4> QED BY <2>2, <3>1, <4>1, <4>2
    <3>2. CASE n # s
      <4>1. s = Peer(n) /\ app'[n] = app[n]
        BY <1>5, <3>2, LiveAssumption DEF Peer, Node
      <4> QED BY <2>0, <2>2, <4>1, RelatedMore
    <3> QED BY <3>1, <3>2
  <2> QED BY <1>5, <2>1, <2>2
<1> QED BY <1>6, <1>7, <1>8 DEF Posted

\* At first nothing was posted.
LEMMA PostedInit == Init => PostedInv
<1> SUFFICES ASSUME Init, NEW n \in Node PROVE Posted(n)
  BY ChannelInit DEF PostedInv
<1>1. packets[n].out = <<>> /\ collected[n] = <<>> /\ app[n].entries = <<>>
  BY DEF Init, NewAppModel
<1> QED BY <1>1 DEF Posted, FromSelf, OutPosted, EventsPosted, Related

\* Every step keeps what is on the way owned by its sender.
LEMMA PostedStep == PostedInv /\ [Next]_vars => PostedInv'
<1> SUFFICES ASSUME PostedInv, [Next]_vars PROVE PostedInv'
  OBVIOUS
<1>1. Channels /\ Channels' /\ TypeOK'
  BY ChannelStep DEF PostedInv, Channels
<1>2. ASSUME NEW n \in Node PROVE Posted(n)'
  <2>1. ASSUME NEW s \in Node, Commands(s) PROVE Posted(n)'
    BY <1>1, <2>1, PostedCommands
  <2>2. ASSUME NEW s \in Node, Reader(s) \/ Quit(s) \/ PollBegin(s) \/ PollEnd(s)
        PROVE  Posted(n)'
    <3>1. packets' = packets /\ collected' = collected /\ app' = app
      BY <2>2 DEF Reader, Quit, PollBegin, PollEnd
    <3> QED BY <3>1, PostedSame
  <2>3. ASSUME NEW s \in Node, ReceiveFrame(s) \/ PollFails(s) PROVE Posted(n)'
    BY <1>1, <2>3, PostedReceive
  <2>4. ASSUME NEW s \in Node, RecordChat(s) \/ RecordApp(s) PROVE Posted(n)'
    BY <1>1, <2>4, PostedRecord
  <2>5. CASE UNCHANGED vars
    BY <2>5, PostedSame DEF vars
  <2> QED BY <2>1, <2>2, <2>3, <2>4, <2>5 DEF Next, Polling
<1> QED BY <1>1, <1>2 DEF PostedInv

\* Whatever the peer's calls, announcements and failures: nothing is observed that
\* the peer does not have as its own.
THEOREM Posting == Spec => []ObservedWasPosted
<1>1. PostedInv => ObservedWasPosted
  <2> SUFFICES ASSUME PostedInv, NEW n \in Node, NEW i \in DOMAIN app[n].entries,
                      app[n].entries[i].from # n
               PROVE  /\ app[n].entries[i].from = Peer(n)
                      /\ \E j \in DOMAIN app[Peer(n)].entries :
                           /\ app[Peer(n)].entries[j].from = Peer(n)
                           /\ app[Peer(n)].entries[j].text = app[n].entries[i].text
                           /\ app[Peer(n)].entries[j].to = NoCall
                                <=> app[n].entries[i].to = NoCall
    BY Zenon DEF ObservedWasPosted
  <2>1. TypeOK /\ Posted(n)
    BY DEF PostedInv, Channels
  <2>2. DOMAIN app[n].entries = 1..Len(app[n].entries)
        /\ DOMAIN app[Peer(n)].entries = 1..Len(app[Peer(n)].entries)
    BY <2>1, EntriesType, PeerFacts, LenProperties
  <2> QED BY <2>1, <2>2 DEF Posted, Related
<1> QED BY <1>1, PostedInit, PostedStep, PTL DEF Spec

-----------------------------------------------------------------------------
(***************************************************************************)
(* When the ends disagree about the session.                               *)
(*                                                                         *)
(* A node is connected exactly if the last session packet it sent or got   *)
(* is a CONNECT (Mode).  When nothing is under way both nodes have the     *)
(* same packets, and disagree only about which one was last; what they got *)
(* they got in the order it was sent (InOrder), so they can disagree only  *)
(* about two packets neither sender of which had seen the other (Causal).  *)
(***************************************************************************)

-----------------------------------------------------------------------------
(* The numbers of the packets a node sent and got                          *)

Numbered(out, in) ==
  /\ \A i \in 1..Len(out) : out[i].sequence \in 1..(Len(out) + Len(in))
  /\ \A j \in 1..Len(in) : in[j].sequence \in 1..(Len(out) + Len(in))
  /\ \A i \in 1..Len(out), j \in 1..Len(in) : out[i].sequence # in[j].sequence
  /\ \A i, k \in 1..Len(out) : i < k => out[i].sequence < out[k].sequence
  /\ \A j, k \in 1..Len(in) : j < k => in[j].sequence < in[k].sequence

\* The next number goes to a packet sent or to a packet got.
LEMMA NumberedMore ==
  ASSUME NEW out \in Seq(Packet), NEW in \in Seq(Packet), Numbered(out, in),
         NEW p \in Packet, p.sequence = Len(out) + Len(in) + 1
  PROVE  Numbered(Append(out, p), in) /\ Numbered(out, Append(in, p))
<1>1. Len(out) \in Nat /\ Len(in) \in Nat
  BY LenProperties
<1>2. Len(Append(out, p)) = Len(out) + 1 /\ \A i \in 1..Len(out) : Append(out, p)[i] = out[i]
      /\ Append(out, p)[Len(out) + 1] = p
  BY AppendProperties
<1>3. Len(Append(in, p)) = Len(in) + 1 /\ \A i \in 1..Len(in) : Append(in, p)[i] = in[i]
      /\ Append(in, p)[Len(in) + 1] = p
  BY AppendProperties
<1>4. Numbered(Append(out, p), in)
  BY <1>1, <1>2 DEF Numbered
<1>5. Numbered(out, Append(in, p))
  BY <1>1, <1>3, SMTT(30) DEF Numbered
<1> QED BY <1>4, <1>5

\* If one node sent its i-th packet after it got the j-th of the other, the other
\* got that i-th packet after it sent its j-th.
Causal(outA, inA, outB, inB) ==
  \A i \in 1..Len(outA), j \in 1..Len(inA) :
    i <= Len(inB) /\ j <= Len(outB) /\ inA[j].sequence < outA[i].sequence
      => ~(inB[i].sequence < outB[j].sequence)

\* A packet sent now is got by nobody yet.
LEMMA CausalSend ==
  ASSUME NEW outA \in Seq(Packet), NEW inA \in Seq(Packet),
         NEW outB \in Seq(Packet), NEW inB \in Seq(Packet),
         Causal(outA, inA, outB, inB), NEW p \in Packet,
         Len(inB) <= Len(outA), Len(inA) <= Len(outB)
  PROVE  /\ Causal(Append(outA, p), inA, outB, inB)
         /\ Causal(outA, inA, Append(outB, p), inB)
<1>1. Len(outA) \in Nat /\ Len(inA) \in Nat /\ Len(outB) \in Nat /\ Len(inB) \in Nat
  BY LenProperties
<1>2. Len(Append(outA, p)) = Len(outA) + 1 /\ \A i \in 1..Len(outA) : Append(outA, p)[i] = outA[i]
  BY AppendProperties
<1>3. Len(Append(outB, p)) = Len(outB) + 1 /\ \A i \in 1..Len(outB) : Append(outB, p)[i] = outB[i]
  BY AppendProperties
<1>4. Causal(Append(outA, p), inA, outB, inB)
  BY <1>1, <1>2 DEF Causal
<1>5. Causal(outA, inA, Append(outB, p), inB)
  BY <1>1, <1>3 DEF Causal
<1> QED BY <1>4, <1>5

\* A packet got now is got after all that was sent.
LEMMA CausalTake ==
  ASSUME NEW outA \in Seq(Packet), NEW inA \in Seq(Packet),
         NEW outB \in Seq(Packet), NEW inB \in Seq(Packet),
         Causal(outA, inA, outB, inB), NEW p \in Packet
  PROVE  /\ Numbered(outA, inA) /\ p.sequence = Len(outA) + Len(inA) + 1
              => Causal(outA, Append(inA, p), outB, inB)
         /\ Numbered(outB, inB) /\ p.sequence = Len(outB) + Len(inB) + 1
              => Causal(outA, inA, outB, Append(inB, p))
<1>1. Len(outA) \in Nat /\ Len(inA) \in Nat /\ Len(outB) \in Nat /\ Len(inB) \in Nat
  BY LenProperties
<1>2. Len(Append(inA, p)) = Len(inA) + 1 /\ \A i \in 1..Len(inA) : Append(inA, p)[i] = inA[i]
      /\ Append(inA, p)[Len(inA) + 1] = p
  BY AppendProperties
<1>3. Len(Append(inB, p)) = Len(inB) + 1 /\ \A i \in 1..Len(inB) : Append(inB, p)[i] = inB[i]
      /\ Append(inB, p)[Len(inB) + 1] = p
  BY AppendProperties
<1>4. ASSUME Numbered(outA, inA), p.sequence = Len(outA) + Len(inA) + 1
      PROVE  Causal(outA, Append(inA, p), outB, inB)
  BY <1>1, <1>2, <1>4 DEF Causal, Numbered
<1>5. ASSUME Numbered(outB, inB), p.sequence = Len(outB) + Len(inB) + 1
      PROVE  Causal(outA, inA, outB, Append(inB, p))
  BY <1>1, <1>3, <1>5 DEF Causal, Numbered
<1> QED BY <1>4, <1>5

-----------------------------------------------------------------------------
(* The last session packet                                                 *)

IsControl(p) == p.frame.kind \in Control

NoControl(ps) == \A i \in 1..Len(ps) : ~IsControl(ps[i])

LastControl(ps, i) ==
  /\ i \in 1..Len(ps) /\ IsControl(ps[i])
  /\ \A k \in 1..Len(ps) : IsControl(ps[k]) => k <= i

HasLast(ps) == NoControl(ps) \/ \E i \in 1..Len(ps) : LastControl(ps, i)

\* Packet p is numbered after every session packet of ps.
After(p, ps) == \A k \in 1..Len(ps) : IsControl(ps[k]) => ps[k].sequence < p.sequence

\* The last session packet sent or got, if any, tells whether there is a session.
Mode(out, in, up) ==
  /\ NoControl(out) /\ NoControl(in) => ~up
  /\ \A i \in 1..Len(out) :
       LastControl(out, i) /\ After(out[i], in) => (up <=> out[i].frame.kind = "CONNECT")
  /\ \A j \in 1..Len(in) :
       LastControl(in, j) /\ After(in[j], out) => (up <=> in[j].frame.kind = "CONNECT")

\* A packet more: it is the last session packet, or it is none.
LEMMA LastMore ==
  ASSUME NEW ps \in Seq(Packet), NEW p \in Packet
  PROVE  /\ IsControl(p) => LastControl(Append(ps, p), Len(ps) + 1)
         /\ IsControl(p) => ~NoControl(Append(ps, p))
         /\ IsControl(p) => \A i \in 1..Len(Append(ps, p)) :
                              LastControl(Append(ps, p), i) => i = Len(ps) + 1
         /\ ~IsControl(p) => /\ NoControl(Append(ps, p)) <=> NoControl(ps)
                             /\ \A i \in 1..Len(Append(ps, p)) :
                                  LastControl(Append(ps, p), i) => i \in 1..Len(ps) /\ LastControl(ps, i)
         /\ HasLast(ps) => HasLast(Append(ps, p))
<1>1. Len(ps) \in Nat /\ Len(Append(ps, p)) = Len(ps) + 1
      /\ (\A i \in 1..Len(ps) : Append(ps, p)[i] = ps[i]) /\ Append(ps, p)[Len(ps) + 1] = p
  BY LenProperties, AppendProperties
<1>2. \A i \in 1..Len(Append(ps, p)) : i \in 1..Len(ps) \/ i = Len(ps) + 1
  BY <1>1
<1>3. /\ Len(ps) + 1 \in 1..Len(Append(ps, p))
      /\ \A i \in 1..Len(ps) : i \in 1..Len(Append(ps, p)) /\ i <= Len(ps) + 1 /\ ~(Len(ps) + 1 <= i)
      /\ Len(ps) + 1 <= Len(ps) + 1
  BY <1>1
<1>4. ASSUME IsControl(p) PROVE LastControl(Append(ps, p), Len(ps) + 1)
  BY <1>1, <1>2, <1>3, <1>4 DEF LastControl
<1>5. ASSUME IsControl(p) PROVE ~NoControl(Append(ps, p))
  BY <1>1, <1>3, <1>5 DEF NoControl
<1>6. ASSUME IsControl(p), NEW i \in 1..Len(Append(ps, p)), LastControl(Append(ps, p), i)
      PROVE  i = Len(ps) + 1
  BY <1>1, <1>2, <1>3, <1>6 DEF LastControl
<1>7. ASSUME ~IsControl(p) PROVE NoControl(Append(ps, p)) <=> NoControl(ps)
  BY <1>1, <1>2, <1>3, <1>7 DEF NoControl
<1>8. ASSUME ~IsControl(p), NEW i \in 1..Len(Append(ps, p)), LastControl(Append(ps, p), i)
      PROVE  i \in 1..Len(ps) /\ LastControl(ps, i)
  BY <1>1, <1>2, <1>3, <1>8 DEF LastControl
<1>9. ASSUME ~IsControl(p), NEW i \in 1..Len(ps), LastControl(ps, i)
      PROVE  LastControl(Append(ps, p), i)
  BY <1>1, <1>2, <1>3, <1>9 DEF LastControl
<1>10. HasLast(ps) => HasLast(Append(ps, p))
  <2>1. CASE IsControl(p)
    BY <1>3, <1>4, <2>1 DEF HasLast
  <2>2. CASE ~IsControl(p)
    BY <1>3, <1>7, <1>9, <2>2 DEF HasLast
  <2> QED BY <2>1, <2>2
<1> QED BY <1>4, <1>5, <1>6, <1>7, <1>8, <1>10

\* Sending and getting a packet, and what it does to the session.
LEMMA ModeSend ==
  ASSUME NEW out \in Seq(Packet), NEW in \in Seq(Packet), NEW p \in Packet,
         NEW up \in BOOLEAN, NEW up1 \in BOOLEAN, Numbered(out, in), Mode(out, in, up),
         p.sequence = Len(out) + Len(in) + 1,
         IsControl(p) => (up1 <=> p.frame.kind = "CONNECT"),
         ~IsControl(p) => (up1 <=> up)
  PROVE  Mode(Append(out, p), in, up1)
<1>1. Len(out) \in Nat /\ Len(in) \in Nat /\ Len(Append(out, p)) = Len(out) + 1
      /\ (\A i \in 1..Len(out) : Append(out, p)[i] = out[i]) /\ Append(out, p)[Len(out) + 1] = p
  BY LenProperties, AppendProperties
<1>2. \A j \in 1..Len(in) : in[j].sequence \in Nat /\ in[j].sequence < p.sequence
  BY <1>1 DEF Numbered
<1>3. CASE IsControl(p)
  <2>1. \A j \in 1..Len(in) : ~After(in[j], Append(out, p))
    <3>1. Len(out) + 1 \in 1..Len(Append(out, p))
      BY <1>1
    <3>2. \A j \in 1..Len(in) : ~(p.sequence < in[j].sequence)
      BY <1>1, <1>2
    <3> QED BY <1>1, <1>3, <3>1, <3>2 DEF After
  <2> QED BY <1>1, <1>3, <2>1, LastMore DEF Mode
<1>4. CASE ~IsControl(p)
  <2>1. \A i \in 1..Len(out) : i \in 1..Len(Append(out, p))
    BY <1>1
  <2>2. \A j \in 1..Len(in) : After(in[j], Append(out, p)) => After(in[j], out)
    BY <1>1, <2>1 DEF After
  <2>3. NoControl(Append(out, p)) <=> NoControl(out)
    BY <1>4, LastMore
  <2>4. \A i \in 1..Len(Append(out, p)) :
          LastControl(Append(out, p), i) => i \in 1..Len(out) /\ LastControl(out, i)
    BY <1>4, LastMore
  <2> QED BY <1>1, <1>4, <2>2, <2>3, <2>4 DEF Mode
<1> QED BY <1>3, <1>4

\* Sent and got play the same part.
LEMMA ModeSwap ==
  ASSUME NEW out, NEW in, NEW up
  PROVE  /\ Mode(out, in, up) => Mode(in, out, up)
         /\ Numbered(out, in) /\ Len(out) \in Nat /\ Len(in) \in Nat => Numbered(in, out)
<1>1. Mode(out, in, up) => Mode(in, out, up)
  BY DEF Mode
<1>2. ASSUME Numbered(out, in), Len(out) \in Nat, Len(in) \in Nat PROVE Numbered(in, out)
  <2>1. Len(out) + Len(in) = Len(in) + Len(out)
    BY <1>2
  <2> QED BY <1>2, <2>1, Zenon DEF Numbered
<1> QED BY <1>1, <1>2

-----------------------------------------------------------------------------
(* Two nodes that have got all the other sent                              *)

Crossing(outA, inA, outB, inB) ==
  \E i \in 1..Len(outA), j \in 1..Len(outB) :
    /\ LastControl(outA, i) /\ LastControl(outB, j)
    /\ outA[i].frame.kind # outB[j].frame.kind
    /\ outA[i].sequence < inA[j].sequence
    /\ outB[j].sequence < inB[i].sequence

\* got is what was sent, frame by frame.
SameFrames(got, sent) ==
  Len(got) = Len(sent) /\ \A i \in 1..Len(sent) : got[i].frame = sent[i].frame

\* What was got has its last session packet where what was sent has it.
LEMMA SameLast ==
  ASSUME NEW got, NEW sent, SameFrames(got, sent)
  PROVE  /\ NoControl(got) <=> NoControl(sent)
         /\ \A i : LastControl(got, i) <=> LastControl(sent, i)
<1>1. \A i \in 1..Len(sent) : IsControl(got[i]) <=> IsControl(sent[i])
  BY DEF SameFrames, IsControl
<1>2. Len(got) = Len(sent)
  BY DEF SameFrames
<1>3. NoControl(got) <=> NoControl(sent)
  BY <1>1, <1>2 DEF NoControl
<1>4. \A i : LastControl(got, i) <=> LastControl(sent, i)
  BY <1>1, <1>2 DEF LastControl
<1> QED BY <1>3, <1>4

\* The last of two last session packets is after every session packet.
LEMMA LastAfter ==
  ASSUME NEW out \in Seq(Packet), NEW in \in Seq(Packet), Numbered(out, in),
         NEW i \in 1..Len(out), NEW j \in 1..Len(in), LastControl(out, i), LastControl(in, j)
  PROVE  /\ out[i].sequence < in[j].sequence => After(in[j], out)
         /\ in[j].sequence < out[i].sequence => After(out[i], in)
         /\ out[i].sequence < in[j].sequence \/ in[j].sequence < out[i].sequence
<1>1. Len(out) \in Nat /\ Len(in) \in Nat
  BY LenProperties
<1>2. /\ \A k \in 1..Len(out) : out[k].sequence \in Nat
      /\ \A k \in 1..Len(in) : in[k].sequence \in Nat
  BY <1>1 DEF Numbered
<1>3. ASSUME out[i].sequence < in[j].sequence, NEW k \in 1..Len(out), IsControl(out[k])
      PROVE  out[k].sequence < in[j].sequence
  <2>1. k = i \/ k < i
    BY <1>1, <1>3 DEF LastControl
  <2>2. k < i => out[k].sequence < out[i].sequence
    BY DEF Numbered
  <2> QED BY <1>2, <1>3, <2>1, <2>2
<1>4. ASSUME in[j].sequence < out[i].sequence, NEW k \in 1..Len(in), IsControl(in[k])
      PROVE  in[k].sequence < out[i].sequence
  <2>1. k = j \/ k < j
    BY <1>1, <1>4 DEF LastControl
  <2>2. k < j => in[k].sequence < in[j].sequence
    BY DEF Numbered
  <2> QED BY <1>2, <1>4, <2>1, <2>2
<1>5. out[i].sequence < in[j].sequence \/ in[j].sequence < out[i].sequence
  <2>1. out[i].sequence # in[j].sequence
    BY DEF Numbered
  <2> QED BY <1>2, <2>1
<1> QED BY <1>3, <1>4, <1>5 DEF After

\* The heart of the matter: which of the last two packets came last at each end.
LEMMA Split ==
  ASSUME NEW outA \in Seq(Packet), NEW inA \in Seq(Packet),
         NEW outB \in Seq(Packet), NEW inB \in Seq(Packet),
         NEW upA \in BOOLEAN, NEW upB \in BOOLEAN,
         SameFrames(inA, outB), SameFrames(inB, outA),
         Numbered(outA, inA), Numbered(outB, inB), Causal(outA, inA, outB, inB),
         Mode(outA, inA, upA), Mode(outB, inB, upB), HasLast(outA), HasLast(outB)
  PROVE  (upA # upB) <=> Crossing(outA, inA, outB, inB)
<1>1. /\ Len(outA) \in Nat /\ Len(inA) = Len(outB) /\ Len(outB) \in Nat /\ Len(inB) = Len(outA)
  BY LenProperties DEF SameFrames
<1>2. /\ NoControl(inA) <=> NoControl(outB)
      /\ NoControl(inB) <=> NoControl(outA)
      /\ \A i : LastControl(inA, i) <=> LastControl(outB, i)
      /\ \A i : LastControl(inB, i) <=> LastControl(outA, i)
  BY SameLast
<1>3. \A ps, i, p : NoControl(ps) => ~LastControl(ps, i) /\ After(p, ps)
  BY DEF NoControl, LastControl, After
<1>4. CASE NoControl(outA) /\ NoControl(outB)
  <2>1. ~upA /\ ~upB
    BY <1>2, <1>4 DEF Mode
  <2>2. ~Crossing(outA, inA, outB, inB)
    BY <1>3, <1>4 DEF Crossing
  <2> QED BY <2>1, <2>2
<1>5. ASSUME NoControl(outB), NEW i \in 1..Len(outA), LastControl(outA, i)
      PROVE  (upA # upB) <=> Crossing(outA, inA, outB, inB)
  <2>1. upA <=> outA[i].frame.kind = "CONNECT"
    BY <1>2, <1>3, <1>5 DEF Mode
  <2>2. upB <=> inB[i].frame.kind = "CONNECT"
    BY <1>1, <1>2, <1>3, <1>5 DEF Mode
  <2>3. inB[i].frame = outA[i].frame
    BY <1>5 DEF SameFrames
  <2>4. ~Crossing(outA, inA, outB, inB)
    BY <1>3, <1>5 DEF Crossing
  <2> QED BY <2>1, <2>2, <2>3, <2>4
<1>6. ASSUME NoControl(outA), NEW j \in 1..Len(outB), LastControl(outB, j)
      PROVE  (upA # upB) <=> Crossing(outA, inA, outB, inB)
  <2>1. upB <=> outB[j].frame.kind = "CONNECT"
    BY <1>2, <1>3, <1>6 DEF Mode
  <2>2. upA <=> inA[j].frame.kind = "CONNECT"
    BY <1>1, <1>2, <1>3, <1>6 DEF Mode
  <2>3. inA[j].frame = outB[j].frame
    BY <1>6 DEF SameFrames
  <2>4. ~Crossing(outA, inA, outB, inB)
    BY <1>3, <1>6 DEF Crossing
  <2> QED BY <2>1, <2>2, <2>3, <2>4
<1>7. ASSUME NEW i \in 1..Len(outA), LastControl(outA, i),
             NEW j \in 1..Len(outB), LastControl(outB, j)
      PROVE  (upA # upB) <=> Crossing(outA, inA, outB, inB)
  <2>1. j \in 1..Len(inA) /\ i \in 1..Len(inB) /\ LastControl(inA, j) /\ LastControl(inB, i)
    BY <1>1, <1>2, <1>7
  <2>2. inA[j].frame = outB[j].frame /\ inB[i].frame = outA[i].frame
    BY <1>7 DEF SameFrames
  <2>3. /\ outA[i].frame.kind \in {"CONNECT", "DISCONNECT"}
        /\ outB[j].frame.kind \in {"CONNECT", "DISCONNECT"}
    BY <1>7 DEF LastControl, IsControl, Control
  <2>4. \A k \in 1..Len(outA) : LastControl(outA, k) => k = i
    BY <1>1, <1>7 DEF LastControl
  <2>5. \A k \in 1..Len(outB) : LastControl(outB, k) => k = j
    BY <1>1, <1>7 DEF LastControl
  <2>6. /\ outA[i].sequence < inA[j].sequence => After(inA[j], outA)
        /\ inA[j].sequence < outA[i].sequence => After(outA[i], inA)
        /\ outA[i].sequence < inA[j].sequence \/ inA[j].sequence < outA[i].sequence
    BY <1>7, <2>1, LastAfter
  <2>7. /\ outB[j].sequence < inB[i].sequence => After(inB[i], outB)
        /\ inB[i].sequence < outB[j].sequence => After(outB[j], inB)
        /\ outB[j].sequence < inB[i].sequence \/ inB[i].sequence < outB[j].sequence
    BY <1>7, <2>1, LastAfter
  <2>8. /\ After(inA[j], outA) => (upA <=> outB[j].frame.kind = "CONNECT")
        /\ After(outA[i], inA) => (upA <=> outA[i].frame.kind = "CONNECT")
    BY <1>7, <2>1, <2>2 DEF Mode
  <2>9. /\ After(inB[i], outB) => (upB <=> outA[i].frame.kind = "CONNECT")
        /\ After(outB[j], inB) => (upB <=> outB[j].frame.kind = "CONNECT")
    BY <1>7, <2>1, <2>2 DEF Mode
  <2>10. inA[j].sequence < outA[i].sequence => ~(inB[i].sequence < outB[j].sequence)
    BY <1>1, <1>7, <2>1 DEF Causal
  <2>11. /\ outA[i].sequence \in Nat /\ inA[j].sequence \in Nat
         /\ outB[j].sequence \in Nat /\ inB[i].sequence \in Nat
    BY <1>1, <1>7, <2>1 DEF Numbered
  <2>12. Crossing(outA, inA, outB, inB) <=>
           /\ outA[i].frame.kind # outB[j].frame.kind
           /\ outA[i].sequence < inA[j].sequence
           /\ outB[j].sequence < inB[i].sequence
    BY <1>7, <2>4, <2>5 DEF Crossing
  <2>13. CASE outA[i].sequence < inA[j].sequence /\ outB[j].sequence < inB[i].sequence
    BY <2>3, <2>6, <2>7, <2>8, <2>9, <2>12, <2>13
  <2>14. CASE inA[j].sequence < outA[i].sequence
    <3>1. outB[j].sequence < inB[i].sequence /\ ~(outA[i].sequence < inA[j].sequence)
      BY <2>7, <2>10, <2>11, <2>14
    <3> QED BY <2>6, <2>7, <2>8, <2>9, <2>12, <2>14, <3>1
  <2>15. CASE inB[i].sequence < outB[j].sequence
    <3>1. outA[i].sequence < inA[j].sequence /\ ~(outB[j].sequence < inB[i].sequence)
      BY <2>6, <2>10, <2>11, <2>15
    <3> QED BY <2>6, <2>7, <2>8, <2>9, <2>12, <2>15, <3>1
  <2> QED BY <2>6, <2>7, <2>13, <2>14, <2>15
<1> QED BY <1>4, <1>5, <1>6, <1>7 DEF HasLast

-----------------------------------------------------------------------------
(* What a step does to a node's packets and session                        *)

Up(n) == IsConnected(chat[n])
HalfOpen(n) == LineOf("half open", 0) \in Reported(n)

Same(n) == packets'[n] = packets[n] /\ (Up(n)' <=> Up(n))

Opened(n) == HalfOpen(n)' /\ packets'[n] = packets[n]

Sends(n) == \E f \in Frame :
  /\ f.from = n /\ f.to = peerCall[n]
  /\ packets'[n].out = Append(packets[n].out, PacketOf(n, f)) /\ packets'[n].in = packets[n].in
  /\ f.kind \in Control => (Up(n)' <=> f.kind = "CONNECT")
  /\ f.kind \notin Control => (Up(n)' <=> Up(n))

Gets(n) ==
  /\ TakeFrame(n)
  /\ RouteOk(n, Head(inbox[n])) /\ Head(inbox[n]).kind \in Control
       => (Up(n)' <=> Head(inbox[n]).kind = "CONNECT")
  /\ Head(inbox[n]).kind \notin Control => (Up(n)' <=> Up(n))

NodeStep(n) == Same(n) \/ Opened(n) \/ Sends(n) \/ Gets(n)

\* What was shown stays shown.
LEMMA ShowKeeps ==
  ASSUME TypeOK, NEW n \in Node, NEW line \in Line, Show(n, line)
  PROVE  /\ \A m \in Node : HalfOpen(m) => HalfOpen(m)'
         /\ line = LineOf("half open", 0) => HalfOpen(n)'
<1>1. lines[n] \in Seq(Line) /\ lines'[n] = Append(lines[n], line)
  BY DEF TypeOK, Show
<1>2. /\ Len(lines[n]) \in Nat /\ Len(lines'[n]) = Len(lines[n]) + 1
      /\ DOMAIN lines[n] = 1..Len(lines[n]) /\ DOMAIN lines'[n] = 1..Len(lines'[n])
      /\ \A i \in 1..Len(lines[n]) : lines'[n][i] = lines[n][i]
      /\ lines'[n][Len(lines[n]) + 1] = line
  <2>1. lines'[n] \in Seq(Line)
    BY <1>1, AppendProperties
  <2> QED BY <1>1, <2>1, LenProperties, AppendProperties
<1>3. \A i \in DOMAIN lines[n] : i \in DOMAIN lines'[n] /\ lines'[n][i] = lines[n][i]
  BY <1>2
<1>4. Len(lines[n]) + 1 \in DOMAIN lines'[n]
  BY <1>2
<1>5. HalfOpen(n) => HalfOpen(n)'
  BY <1>3 DEF HalfOpen, Reported, LineOf
<1>6. line = LineOf("half open", 0) => HalfOpen(n)'
  BY <1>2, <1>4 DEF HalfOpen, Reported, LineOf
<1>7. ASSUME NEW m \in Node, m # n PROVE lines'[m] = lines[m]
  BY <1>7 DEF TypeOK, Show
<1>8. ASSUME NEW m \in Node, m # n PROVE HalfOpen(m) => HalfOpen(m)'
  BY <1>7, <1>8 DEF HalfOpen, Reported, LineOf
<1> QED BY <1>5, <1>6, <1>8

\* What the other end and the sender of a frame see.
LEMMA SendCases ==
  ASSUME TypeOK, NEW n \in Node, NEW f \in Frame, f.from = n, f.to = peerCall[n],
         Written(n, f) \/ Unwritten(n),
         Written(n, f) /\ f.kind \in Control => (Up(n)' <=> f.kind = "CONNECT"),
         Written(n, f) /\ f.kind \notin Control => (Up(n)' <=> Up(n)),
         Unwritten(n) => HalfOpen(n)' \/ (Up(n)' <=> Up(n))
  PROVE  NodeStep(n) /\ \A m \in Node : m # n => packets'[m] = packets[m]
<1>1. CASE Written(n, f)
  <2>1. packets'[n].out = Append(packets[n].out, PacketOf(n, f)) /\ packets'[n].in = packets[n].in
    BY <1>1 DEF Written, TypeOK
  <2>2. \A m \in Node : m # n => packets'[m] = packets[m]
    BY <1>1 DEF Written, TypeOK
  <2>3. Sends(n)
    BY <1>1, <2>1 DEF Sends
  <2> QED BY <2>2, <2>3 DEF NodeStep
<1>2. CASE Unwritten(n)
  <2>1. packets' = packets
    BY <1>2 DEF Unwritten
  <2> QED BY <1>2, <2>1 DEF NodeStep, Same, Opened
<1> QED BY <1>1, <1>2

NodeSteps(s) ==
  /\ NodeStep(s)
  /\ \A m \in Node : m # s => Same(m)
  /\ \A m \in Node : HalfOpen(m) => HalfOpen(m)'

\* A command is one of these steps.
LEMMA SplitCommands ==
  ASSUME TypeOK, TypeOK', NEW s \in Node, Commands(s)
  PROVE  peerCall' = peerCall /\ NodeSteps(s)
<1>1. peerCall' = peerCall
  BY DEF Commands, Connect, Disconnect, SendTextRefused, SendText, ConnectRefused,
       ReceiveTextRefused, ReceiveText, Announce, AnnounceRefused, Command
<1>2. chat[s] \in Backend /\ peerCall[s] \in Call /\ s \in Call /\ chat[s].next \in Nat
  BY PeerFacts DEF TypeOK, Backend
<1>3. /\ FrameOf(s, "CONNECT", NoText) \in Frame /\ FrameOf(s, "DISCONNECT", NoText) \in Frame
      /\ \A k \in AppKind \cup {"MSG"}, t \in Text : FrameOf(s, k, t) \in Frame
  BY FrameOfTypes DEF Control
<1>4. \A k, t : FrameOf(s, k, t).kind = k /\ FrameOf(s, k, t).from = s
                /\ FrameOf(s, k, t).to = peerCall[s]
  BY DEF FrameOf
<1>5. \A w \in {"connected", "disconnected", "message", "app", "refused", "unsent", "half open"},
        k \in Nat : LineOf(w, k) \in Line
  BY LineTypes
<1>6. /\ "CONNECT" \in Control /\ "DISCONNECT" \in Control /\ "DISCONNECT" # "CONNECT"
      /\ "MSG" \notin Control /\ \A k \in AppKind : k \notin Control
  BY DEF Control, AppKind
<1>7. ASSUME NEW m \in Node, chat'[m] = chat[m] \/ chat'[m].peer = chat[m].peer
      PROVE  Up(m)' <=> Up(m)
  BY <1>7 DEF Up, IsConnected
<1>8. ASSUME NEW f \in Frame, NEW l1 \in Line, NEW l2 \in Line, SendPayload(s, f, l1, l2)
      PROVE  /\ \A m \in Node : HalfOpen(m) => HalfOpen(m)'
             /\ Written(s, f) \/ Unwritten(s)
             /\ ~Written(s, f) /\ l2 = LineOf("half open", 0) => HalfOpen(s)'
  BY <1>8, ShowKeeps DEF SendPayload
<1>9. ASSUME packets' = packets, \A m \in Node : chat'[m] = chat[m] \/ chat'[m].peer = chat[m].peer,
             NEW line \in Line, Show(s, line)
      PROVE  NodeSteps(s)
  BY <1>7, <1>9, ShowKeeps DEF NodeSteps, NodeStep, Same
<1>10. CASE Connect(s)
  <2>1. chat'[s] = ConnectTo(chat[s], peerCall[s]) /\ \A m \in Node : m # s => chat'[m] = chat[m]
    BY <1>10 DEF Connect, TypeOK
  <2>2. Up(s)'
    BY <1>2, <2>1, SessionTypes DEF Up, IsConnected
  <2>3. SendPayload(s, FrameOf(s, "CONNECT", NoText), LineOf("connected", 0), LineOf("half open", 0))
    BY <1>10 DEF Connect
  <2>4. (Written(s, FrameOf(s, "CONNECT", NoText)) \/ Unwritten(s))
        /\ \A m \in Node : HalfOpen(m) => HalfOpen(m)'
    BY <1>3, <1>5, <2>3, <1>8
  <2>5. ~Written(s, FrameOf(s, "CONNECT", NoText)) => HalfOpen(s)'
    BY <1>3, <1>5, <2>3, <1>8
  <2>6. CASE Written(s, FrameOf(s, "CONNECT", NoText))
    <3>1. /\ packets'[s].out = Append(packets[s].out, PacketOf(s, FrameOf(s, "CONNECT", NoText)))
          /\ packets'[s].in = packets[s].in
          /\ \A m \in Node : m # s => packets'[m] = packets[m]
      BY <2>6 DEF Written, TypeOK
    <3>2. Sends(s)
      BY <1>3, <1>4, <1>6, <2>2, <3>1 DEF Sends
    <3> QED BY <1>1, <1>7, <2>1, <2>4, <3>1, <3>2 DEF NodeSteps, NodeStep, Same
  <2>7. CASE ~Written(s, FrameOf(s, "CONNECT", NoText))
    <3>1. packets' = packets /\ HalfOpen(s)'
      BY <2>4, <2>5, <2>7 DEF Unwritten
    <3> QED BY <1>1, <1>7, <2>1, <2>4, <3>1 DEF NodeSteps, NodeStep, Same, Opened
  <2> QED BY <2>6, <2>7
<1>11. CASE Disconnect(s)
  <2>1. CASE /\ Written(s, FrameOf(s, "DISCONNECT", NoText))
             /\ chat' = [chat EXCEPT ![s] = Disconnected(chat[s])]
             /\ Show(s, LineOf("disconnected", 0))
    <3>1. chat'[s] = Disconnected(chat[s]) /\ \A m \in Node : m # s => chat'[m] = chat[m]
      BY <2>1 DEF TypeOK
    <3>2. ~Up(s)'
      BY <1>2, <3>1, SessionTypes DEF Up, IsConnected
    <3>3. /\ packets'[s].out = Append(packets[s].out, PacketOf(s, FrameOf(s, "DISCONNECT", NoText)))
          /\ packets'[s].in = packets[s].in
          /\ \A m \in Node : m # s => packets'[m] = packets[m]
      BY <2>1 DEF Written, TypeOK
    <3>4. Sends(s)
      BY <1>3, <1>4, <1>6, <3>2, <3>3 DEF Sends
    <3>5. \A m \in Node : HalfOpen(m) => HalfOpen(m)'
      BY <1>5, <2>1, ShowKeeps
    <3> QED BY <1>1, <1>7, <3>1, <3>3, <3>4, <3>5 DEF NodeSteps, NodeStep, Same
  <2>2. CASE Unwritten(s) /\ Show(s, LineOf("unsent", 0)) /\ chat' = chat
    BY <1>1, <1>5, <1>9, <2>2 DEF Unwritten
  <2> QED BY <1>11, <2>1, <2>2 DEF Disconnect
<1>12. ASSUME NEW k \in AppKind \cup {"MSG"}, NEW t \in Text, NEW q \in Nat,
              NEW w \in {"message", "app"},
              SendPayload(s, FrameOf(s, k, t), LineOf(w, q), LineOf("unsent", 0)),
              \A m \in Node : chat'[m] = chat[m] \/ chat'[m].peer = chat[m].peer
       PROVE  NodeSteps(s)
  <2>1. \A m \in Node : (Up(m)' <=> Up(m))
    BY <1>7, <1>12
  <2>2. FrameOf(s, k, t) \in Frame /\ FrameOf(s, k, t).kind \notin Control
    BY <1>3, <1>4, <1>6
  <2>3. /\ \A m \in Node : HalfOpen(m) => HalfOpen(m)'
        /\ Written(s, FrameOf(s, k, t)) \/ Unwritten(s)
    BY <1>5, <1>8, <1>12, <2>2
  <2>4. NodeStep(s) /\ \A m \in Node : m # s => packets'[m] = packets[m]
    BY <1>4, <2>1, <2>2, <2>3, SendCases
  <2> QED BY <2>1, <2>3, <2>4 DEF NodeSteps, Same
<1>13. ASSUME NEW t \in Text, SendText(s, t) PROVE NodeSteps(s)
  <2>1. SentText(chat[s], s, t).peer = chat[s].peer
    BY DEF SentText, PushMessage
  <2>2. \A m \in Node : chat'[m] = chat[m] \/ chat'[m].peer = chat[m].peer
    BY <1>13, <2>1 DEF SendText, TypeOK
  <2> QED BY <1>2, <1>12, <1>13, <2>2 DEF SendText
<1>14. ASSUME NEW k \in AppKind, NEW to, NEW t \in Text, Announce(s, k, to, t)
       PROVE  NodeSteps(s)
  <2>1. chat' = chat /\ app[s].next \in Nat
    BY <1>14, EntriesType DEF Announce
  <2> QED BY <1>12, <1>14, <2>1 DEF Announce
<1>15. ASSUME NEW c \in Call, NEW t \in RxText, ReceiveText(s, c, t) PROVE NodeSteps(s)
  <2>1. ReceivedText(chat[s], s, c, t).peer = chat[s].peer
    BY DEF ReceivedText, PushMessage
  <2>2. \A m \in Node : chat'[m] = chat[m] \/ chat'[m].peer = chat[m].peer
    BY <1>15, <2>1 DEF ReceiveText, TypeOK
  <2>3. packets' = packets /\ Show(s, LineOf("message", chat[s].next))
    BY <1>15 DEF ReceiveText
  <2> QED BY <1>2, <1>5, <1>9, <2>2, <2>3
<1>16. ASSUME Refused(s), chat' = chat PROVE NodeSteps(s)
  BY <1>5, <1>9, <1>16 DEF Refused
<1>17. CASE SendTextRefused(s) \/ AnnounceRefused(s)
  BY <1>1, <1>16, <1>17 DEF SendTextRefused, AnnounceRefused
<1>18. CASE \E c \in Call : ConnectRefused(s, c) \/ ReceiveTextRefused(s, c)
  BY <1>1, <1>16, <1>18 DEF ConnectRefused, ReceiveTextRefused
<1>19. "BEACON" \in AppKind /\ "MAIL" \in AppKind
  BY DEF AppKind
<1> QED BY <1>1, <1>10, <1>11, <1>13, <1>14, <1>15, <1>17, <1>18, <1>19 DEF Commands

\* A step of a poll is one of these steps.
LEMMA SplitPolling ==
  ASSUME TypeOK, TypeOK', NEW s \in Node, Polling(s)
  PROVE  peerCall' = peerCall /\ NodeSteps(s)
<1>1. ASSUME packets' = packets, chat' = chat,
             lines' = lines \/ \E line \in Line : Show(s, line)
      PROVE  NodeSteps(s)
  <2>1. \A m \in Node : Same(m)
    BY <1>1 DEF Same, Up, IsConnected
  <2>2. \A m \in Node : HalfOpen(m) => HalfOpen(m)'
    <3>1. lines' = lines => \A m \in Node : HalfOpen(m) => HalfOpen(m)'
      BY DEF HalfOpen, Reported, LineOf
    <3> QED BY <1>1, <3>1, ShowKeeps
  <2> QED BY <2>1, <2>2 DEF NodeSteps, NodeStep
<1>2. CASE PollBegin(s) \/ PollEnd(s)
  <2>1. peerCall' = peerCall /\ packets' = packets /\ chat' = chat /\ lines' = lines
    BY <1>2 DEF PollBegin, PollEnd
  <2> QED BY <1>1, <2>1
<1>3. CASE RecordChat(s) \/ RecordApp(s)
  <2>1. Recording(s) /\ collected[s] \in Seq(Event)
    BY <1>3 DEF RecordChat, RecordApp, TypeOK
  <2>2. peerCall' = peerCall /\ packets' = packets /\ chat' = chat /\ collected[s] # <<>>
    BY <2>1 DEF Recording
  <2>3. Head(collected[s]) \in Event
    BY <2>1, <2>2, HeadTailProperties
  <2>4. \E line \in Line : Show(s, line)
    <3>1. CASE RecordChat(s)
      BY <2>3, <3>1, LineTypes DEF RecordChat
    <3>2. CASE RecordApp(s)
      BY <3>2, LineTypes, EntriesType DEF RecordApp
    <3> QED BY <1>3, <3>1, <3>2
  <2> QED BY <1>1, <2>2, <2>4
<1>4. CASE ReceiveFrame(s) \/ PollFails(s)
  <2> DEFINE f == Head(inbox[s])
  <2>1. TakeFrame(s) /\ peerCall' = peerCall
    BY <1>4 DEF ReceiveFrame, PollFails, TakeFrame
  <2>2. \A m \in Node : m # s => packets'[m] = packets[m] /\ chat'[m] = chat[m]
    BY <1>4 DEF ReceiveFrame, PollFails, TakeFrame, TypeOK
  <2>3. f \in Frame /\ chat[s] \in Backend /\ f.from \in Call
    BY <2>1, TakeTypes DEF TypeOK, Frame, ControlFrame, TextFrame
  <2>4. \A m \in Node : HalfOpen(m) => HalfOpen(m)'
    <3>1. lines' = lines => \A m \in Node : HalfOpen(m) => HalfOpen(m)'
      BY DEF HalfOpen, Reported, LineOf
    <3>2. lines' = lines \/ Show(s, LineOf("refused", 0))
      BY <1>4 DEF ReceiveFrame, PollFails
    <3> QED BY <3>1, <3>2, ShowKeeps, LineTypes
  <2>5. \A m \in Node : m # s => Same(m)
    BY <2>2 DEF Same, Up, IsConnected
  <2>6. /\ RouteOk(s, f) /\ f.kind \in Control => (Up(s)' <=> f.kind = "CONNECT")
        /\ f.kind \notin Control => (Up(s)' <=> Up(s))
    <3>1. CASE PollFails(s)
      <4>1. (Up(s)' <=> Up(s)) /\ ~FrameOk(s, f)
        BY <3>1 DEF PollFails, Up, IsConnected
      <4>2. RouteOk(s, f) /\ f.kind \in Control => f.kind = "CONNECT" /\ Up(s)
        BY <4>1 DEF FrameOk, Control, Up
      <4> QED BY <4>1, <4>2
    <3>2. CASE ReceiveFrame(s)
      <4>1. chat'[s] = ChatAfter(s, f)
        BY <3>2 DEF ReceiveFrame, TypeOK
      <4>2. CASE f.kind = "CONNECT"
        <5>1. chat'[s] = ConnectTo(chat[s], f.from)
          BY <4>1, <4>2 DEF ChatAfter
        <5>2. Up(s)'
          BY <2>3, <5>1, SessionTypes DEF Up, IsConnected
        <5> QED BY <4>2, <5>2 DEF Control
      <4>3. CASE f.kind = "DISCONNECT"
        <5>1. chat'[s] = Disconnected(chat[s])
          BY <4>1, <4>3 DEF ChatAfter
        <5>2. ~Up(s)'
          BY <2>3, <5>1, SessionTypes DEF Up, IsConnected
        <5> QED BY <4>3, <5>2 DEF Control
      <4>4. CASE f.kind = "MSG"
        <5>1. chat'[s] = ReceivedText(chat[s], s, f.from, f.text)
          BY <4>1, <4>4 DEF ChatAfter
        <5>2. chat'[s].peer = chat[s].peer
          BY <5>1 DEF ReceivedText, PushMessage
        <5> QED BY <4>4, <5>2 DEF Control, Up, IsConnected
      <4>5. CASE f.kind \notin {"CONNECT", "DISCONNECT", "MSG"}
        <5>1. chat'[s] = chat[s]
          BY <4>1, <4>5 DEF ChatAfter
        <5> QED BY <4>5, <5>1 DEF Control, Up, IsConnected
      <4> QED BY <4>2, <4>3, <4>4, <4>5
    <3> QED BY <1>4, <3>1, <3>2
  <2>7. Gets(s)
    BY <2>1, <2>6 DEF Gets
  <2> QED BY <2>1, <2>4, <2>5, <2>7 DEF NodeSteps, NodeStep
<1> QED BY <1>2, <1>3, <1>4 DEF Polling

\* Every step is one of these steps at one node.
LEMMA SplitSteps ==
  ASSUME TypeOK, TypeOK', [Next]_vars
  PROVE  peerCall' = peerCall /\ \E s \in Node : NodeSteps(s)
<1>1. ASSUME NEW s \in Node, Commands(s) \/ Polling(s)
      PROVE  peerCall' = peerCall /\ NodeSteps(s)
  BY <1>1, SplitCommands, SplitPolling
<1>2. CASE UNCHANGED vars \/ \E s \in Node : Reader(s) \/ Quit(s)
  <2>1. peerCall' = peerCall /\ packets' = packets /\ chat' = chat /\ lines' = lines
    BY <1>2 DEF vars, Reader, Quit
  <2>2. \A m \in Node : Same(m) /\ (HalfOpen(m) => HalfOpen(m)')
    BY <2>1 DEF Same, Up, IsConnected, HalfOpen, Reported, LineOf
  <2> QED BY <2>1, <2>2 DEF NodeSteps, NodeStep, Node
<1> QED BY <1>1, <1>2 DEF Next

-----------------------------------------------------------------------------
(* The invariant                                                           *)

Addressed(n) ==
  \A i \in 1..Len(packets[n].out) :
    /\ packets[n].out[i].frame.from = n /\ packets[n].out[i].frame.to = peerCall[n]

Session(n) ==
  /\ Addressed(n)
  /\ Numbered(packets[n].out, packets[n].in)
  /\ HasLast(packets[n].out)
  /\ Routed /\ ~HalfOpen(n) => Mode(packets[n].out, packets[n].in, Up(n))

Caused == Causal(packets[A].out, packets[A].in, packets[B].out, packets[B].in)

SplitInv == Channels /\ Caused /\ \A n \in Node : Session(n)

\* The packets of a node are sequences.
LEMMA PacketSeqs ==
  ASSUME TypeOK, NEW n \in Node
  PROVE  /\ packets[n].out \in Seq(Packet) /\ packets[n].in \in Seq(Packet)
         /\ Up(n) \in BOOLEAN
         /\ PacketCount(n) = Len(packets[n].out) + Len(packets[n].in)
BY DEF TypeOK, Up, IsConnected, PacketCount

\* Nothing happened to the packets and the session of a node.
LEMMA SessionSame ==
  ASSUME SplitInv, TypeOK', NEW n \in Node, Same(n), peerCall' = peerCall,
         HalfOpen(n) => HalfOpen(n)'
  PROVE  Session(n)'
<1>1. Session(n) /\ packets'[n] = packets[n] /\ (Routed' <=> Routed) /\ (Up(n)' <=> Up(n))
  BY DEF SplitInv, Same, Routed
<1>2. Up(n) \in BOOLEAN /\ Up(n)' \in BOOLEAN
  BY DEF Up, IsConnected
<1>3. Addressed(n)' /\ Numbered(packets[n].out, packets[n].in)' /\ HasLast(packets[n].out)'
  BY <1>1 DEF Session, Addressed
<1>4. ASSUME Routed', ~HalfOpen(n)' PROVE Mode(packets'[n].out, packets'[n].in, Up(n)')
  <2>1. Mode(packets[n].out, packets[n].in, Up(n))
    BY <1>1, <1>4 DEF Session
  <2>2. Up(n)' = Up(n)
    BY <1>1, <1>2
  <2> QED BY <1>1, <2>1, <2>2
<1> QED BY <1>3, <1>4 DEF Session

\* A failed CONNECT: nothing is claimed of this node any more.
LEMMA SessionOpened ==
  ASSUME SplitInv, TypeOK', NEW n \in Node, Opened(n), peerCall' = peerCall
  PROVE  Session(n)'
<1>1. Session(n) /\ packets'[n] = packets[n] /\ HalfOpen(n)'
  BY DEF SplitInv, Opened
<1> QED BY <1>1 DEF Session, Addressed

\* A node sends.
LEMMA SessionSends ==
  ASSUME SplitInv, TypeOK', NEW n \in Node, Sends(n), peerCall' = peerCall,
         HalfOpen(n) => HalfOpen(n)'
  PROVE  Session(n)'
<1>1. PICK f \in Frame :
        /\ f.from = n /\ f.to = peerCall[n]
        /\ packets'[n].out = Append(packets[n].out, PacketOf(n, f))
        /\ packets'[n].in = packets[n].in
        /\ f.kind \in Control => (Up(n)' <=> f.kind = "CONNECT")
        /\ f.kind \notin Control => (Up(n)' <=> Up(n))
  BY DEF Sends
<1>2. TypeOK /\ Session(n)
  BY DEF SplitInv, Channels
<1>3. /\ packets[n].out \in Seq(Packet) /\ packets[n].in \in Seq(Packet)
      /\ Up(n) \in BOOLEAN /\ Up(n)' \in BOOLEAN
  BY <1>2, PacketSeqs DEF Up, IsConnected
<1>4. PICK p \in Packet : /\ p = PacketOf(n, f) /\ p.frame = f
                          /\ p.sequence = Len(packets[n].out) + Len(packets[n].in) + 1
  BY <1>2, PacketTypes DEF PacketOf, PacketCount
<1>5. packets'[n].out = Append(packets[n].out, p)
  BY <1>1, <1>4
<1>6. Numbered(packets'[n].out, packets'[n].in)
  BY <1>1, <1>2, <1>3, <1>4, <1>5, NumberedMore DEF Session
<1>7. HasLast(packets'[n].out)
  BY <1>2, <1>3, <1>5, LastMore DEF Session
<1>8. Addressed(n)'
  <2>1. /\ Len(packets[n].out) \in Nat /\ Len(packets'[n].out) = Len(packets[n].out) + 1
        /\ \A i \in 1..Len(packets[n].out) : packets'[n].out[i] = packets[n].out[i]
        /\ packets'[n].out[Len(packets[n].out) + 1] = p
    BY <1>3, <1>5, LenProperties, AppendProperties
  <2>2. \A i \in 1..Len(packets'[n].out) : i \in 1..Len(packets[n].out) \/ i = Len(packets[n].out) + 1
    BY <2>1
  <2> QED BY <1>1, <1>2, <1>4, <2>1, <2>2 DEF Session, Addressed
<1>9. ASSUME Routed', ~HalfOpen(n)' PROVE Mode(packets'[n].out, packets'[n].in, Up(n)')
  <2>1. Mode(packets[n].out, packets[n].in, Up(n)) /\ Numbered(packets[n].out, packets[n].in)
    BY <1>2, <1>9 DEF Session, Routed
  <2>2. /\ IsControl(p) => (Up(n)' <=> p.frame.kind = "CONNECT")
        /\ ~IsControl(p) => (Up(n)' <=> Up(n))
    BY <1>1, <1>4 DEF IsControl
  <2>3. Mode(Append(packets[n].out, p), packets[n].in, Up(n)')
    BY <1>3, <1>4, <2>1, <2>2, ModeSend
  <2> QED BY <1>1, <1>5, <2>3
<1> QED BY <1>6, <1>7, <1>8, <1>9 DEF Session

\* With both nodes configured for each other, no frame fails the route check.
LEMMA GetsRouted ==
  ASSUME SplitInv, NEW n \in Node, TakeFrame(n)
  PROVE  /\ Head(inbox[n]) \in Frame
         /\ Routed => RouteOk(n, Head(inbox[n]))
<1>1. Session(Peer(n)) /\ Peer(n) \in Node
  BY PeerFacts DEF SplitInv
<1>2. /\ Head(inbox[n]) \in Frame
      /\ Len(packets[n].in) + 1 \in 1..Len(packets[Peer(n)].out)
      /\ Head(inbox[n]) = packets[Peer(n)].out[Len(packets[n].in) + 1].frame
  BY TakenWasSent DEF SplitInv
<1>3. Head(inbox[n]).from = Peer(n) /\ Head(inbox[n]).to = peerCall[Peer(n)]
  BY <1>1, <1>2 DEF Session, Addressed
<1>4. Routed => peerCall[n] = Peer(n) /\ peerCall[Peer(n)] = n
  BY PeerFacts DEF Routed
<1> QED BY <1>2, <1>3, <1>4 DEF RouteOk

\* A node gets.
LEMMA SessionGets ==
  ASSUME SplitInv, TypeOK', NEW n \in Node, Gets(n), peerCall' = peerCall,
         HalfOpen(n) => HalfOpen(n)'
  PROVE  Session(n)'
<1>1. TypeOK /\ Session(n) /\ TakeFrame(n)
  BY DEF SplitInv, Channels, Gets
<1>2. /\ packets[n].out \in Seq(Packet) /\ packets[n].in \in Seq(Packet)
      /\ Up(n) \in BOOLEAN /\ Up(n)' \in BOOLEAN
  BY <1>1, PacketSeqs DEF Up, IsConnected
<1>3. Head(inbox[n]) \in Frame /\ (Routed => RouteOk(n, Head(inbox[n])))
  BY <1>1, GetsRouted
<1>4. PICK p \in Packet : /\ p = PacketOf(n, Head(inbox[n])) /\ p.frame = Head(inbox[n])
                          /\ p.sequence = Len(packets[n].out) + Len(packets[n].in) + 1
  BY <1>1, <1>3, PacketTypes DEF PacketOf, PacketCount
<1>5. packets'[n].in = Append(packets[n].in, p) /\ packets'[n].out = packets[n].out
  BY <1>1, <1>4 DEF TakeFrame, TypeOK
<1>6. Numbered(packets'[n].out, packets'[n].in)
  BY <1>1, <1>2, <1>4, <1>5, NumberedMore DEF Session
<1>7. HasLast(packets'[n].out) /\ Addressed(n)'
  BY <1>1, <1>5 DEF Session, Addressed
<1>8. ASSUME Routed', ~HalfOpen(n)' PROVE Mode(packets'[n].out, packets'[n].in, Up(n)')
  <2>1. Routed /\ Mode(packets[n].out, packets[n].in, Up(n))
        /\ Numbered(packets[n].out, packets[n].in)
    BY <1>1, <1>8 DEF Session, Routed
  <2>2. /\ IsControl(p) => (Up(n)' <=> p.frame.kind = "CONNECT")
        /\ ~IsControl(p) => (Up(n)' <=> Up(n))
    BY <1>3, <1>4, <2>1 DEF IsControl, Gets
  <2>3. /\ Len(packets[n].out) \in Nat /\ Len(packets[n].in) \in Nat
        /\ p.sequence = Len(packets[n].in) + Len(packets[n].out) + 1
    <3>1. Len(packets[n].out) \in Nat /\ Len(packets[n].in) \in Nat
      BY <1>2, LenProperties
    <3>2. \A x, y \in Nat : x + y + 1 = y + x + 1
      OBVIOUS
    <3> QED BY <1>4, <3>1, <3>2
  <2>4. Mode(packets[n].in, packets[n].out, Up(n)) /\ Numbered(packets[n].in, packets[n].out)
    BY <2>1, <2>3, ModeSwap
  <2>5. Mode(Append(packets[n].in, p), packets[n].out, Up(n)')
    BY <1>2, <2>2, <2>3, <2>4, ModeSend
  <2> QED BY <1>5, <2>5, ModeSwap
<1> QED BY <1>6, <1>7, <1>8 DEF Session

\* What a node sends now, it sends after all it got; what it gets now, after all
\* it sent.
LEMMA CausedStep ==
  ASSUME SplitInv, TypeOK', NEW s \in Node, NodeSteps(s)
  PROVE  Caused'
<1>1. TypeOK /\ Caused /\ A \in Node /\ B \in Node /\ A # B
      /\ Numbered(packets[A].out, packets[A].in) /\ Numbered(packets[B].out, packets[B].in)
  BY LiveAssumption DEF SplitInv, Channels, Session, Node
<1>2. /\ packets[A].out \in Seq(Packet) /\ packets[A].in \in Seq(Packet)
      /\ packets[B].out \in Seq(Packet) /\ packets[B].in \in Seq(Packet)
  BY <1>1, PacketSeqs
<1>3. Len(packets[B].in) <= Len(packets[A].out) /\ Len(packets[A].in) <= Len(packets[B].out)
  <2>1. Channel(A) /\ Channel(B) /\ Peer(A) = B /\ Peer(B) = A
    BY <1>1 DEF SplitInv, Channels, Peer
  <2>2. \A n \in Node : Len(packets[n].in) \in Nat /\ Len(packets[n].out) \in Nat
                        /\ Len(inbox[n]) \in Nat /\ Len(wire[n]) \in Nat
    BY <1>1, LenProperties DEF TypeOK
  <2>3. \A a, b, c, d \in Nat : a + b + c <= d => a <= d
    OBVIOUS
  <2>4. /\ Len(packets[A].in) + Len(inbox[A]) + Len(wire[B]) <= Len(packets[B].out)
        /\ Len(packets[B].in) + Len(inbox[B]) + Len(wire[A]) <= Len(packets[A].out)
    BY <2>1 DEF Channel, Flow
  <2> QED BY <1>1, <2>2, <2>3, <2>4
<1>4. ASSUME NEW n \in Node, NodeStep(n)
      PROVE  \/ packets'[n] = packets[n]
             \/ \E p \in Packet :
                  /\ p.sequence = Len(packets[n].out) + Len(packets[n].in) + 1
                  /\ \/ /\ packets'[n].out = Append(packets[n].out, p)
                        /\ packets'[n].in = packets[n].in
                     \/ /\ packets'[n].in = Append(packets[n].in, p)
                        /\ packets'[n].out = packets[n].out
  <2>1. \A f \in Frame : PacketOf(n, f) \in Packet
                         /\ PacketOf(n, f).sequence = Len(packets[n].out) + Len(packets[n].in) + 1
    BY <1>1, PacketTypes DEF PacketOf, PacketCount
  <2>2. CASE Sends(n)
    BY <2>1, <2>2 DEF Sends
  <2>3. CASE Gets(n)
    <3>1. Head(inbox[n]) \in Frame
      BY <2>3, GetsRouted DEF Gets
    <3>2. packets'[n].in = Append(packets[n].in, PacketOf(n, Head(inbox[n])))
          /\ packets'[n].out = packets[n].out
      BY <1>1, <2>3 DEF Gets, TakeFrame, TypeOK
    <3> QED BY <2>1, <3>1, <3>2
  <2> QED BY <1>4, <2>2, <2>3 DEF NodeStep, Same, Opened
<1>5. NodeStep(s) /\ \A m \in Node : m # s => packets'[m] = packets[m]
  BY DEF NodeSteps, Same
<1>6. Causal(packets[A].out, packets[A].in, packets[B].out, packets[B].in)
  BY <1>1 DEF Caused
<1>7. CASE packets'[A] = packets[A] /\ packets'[B] = packets[B]
  BY <1>6, <1>7 DEF Caused
<1>8. ASSUME NEW p \in Packet, p.sequence = Len(packets[A].out) + Len(packets[A].in) + 1,
             packets'[B] = packets[B],
             \/ packets'[A].out = Append(packets[A].out, p) /\ packets'[A].in = packets[A].in
             \/ packets'[A].in = Append(packets[A].in, p) /\ packets'[A].out = packets[A].out
      PROVE  Caused'
  <2>1. Causal(Append(packets[A].out, p), packets[A].in, packets[B].out, packets[B].in)
    BY <1>2, <1>3, <1>6, CausalSend
  <2>2. Causal(packets[A].out, Append(packets[A].in, p), packets[B].out, packets[B].in)
    BY <1>1, <1>2, <1>6, <1>8, CausalTake
  <2> QED BY <1>8, <2>1, <2>2 DEF Caused
<1>9. ASSUME NEW p \in Packet, p.sequence = Len(packets[B].out) + Len(packets[B].in) + 1,
             packets'[A] = packets[A],
             \/ packets'[B].out = Append(packets[B].out, p) /\ packets'[B].in = packets[B].in
             \/ packets'[B].in = Append(packets[B].in, p) /\ packets'[B].out = packets[B].out
      PROVE  Caused'
  <2>1. Causal(packets[A].out, packets[A].in, Append(packets[B].out, p), packets[B].in)
    BY <1>2, <1>3, <1>6, CausalSend
  <2>2. Causal(packets[A].out, packets[A].in, packets[B].out, Append(packets[B].in, p))
    BY <1>1, <1>2, <1>6, <1>9, CausalTake
  <2> QED BY <1>9, <2>1, <2>2 DEF Caused
<1>10. s = A \/ s = B
  BY DEF Node
<1> QED BY <1>1, <1>4, <1>5, <1>7, <1>8, <1>9, <1>10

\* Arithmetic for empty channels.
LEMMA PlusZero == \A x, y, z \in Nat : y = 0 /\ z = 0 => x + y + z = x
OBVIOUS

\* At first nobody sent anything and nobody is connected.
LEMMA SplitInit == Init => SplitInv
<1> SUFFICES ASSUME Init PROVE SplitInv
  OBVIOUS
<1>1. \A n \in Node : packets[n].out = <<>> /\ packets[n].in = <<>> /\ ~Up(n)
  BY DEF Init, Up, IsConnected, NewBackend
<1>2. ASSUME NEW n \in Node PROVE Session(n)
  <2>1. Addressed(n)
    BY <1>1 DEF Addressed
  <2>2. Numbered(<<>>, <<>>) /\ HasLast(<<>>)
    BY DEF Numbered, HasLast, NoControl
  <2>3. Mode(<<>>, <<>>, FALSE)
    BY DEF Mode
  <2>4. Up(n) = FALSE
    BY <1>1 DEF Up, IsConnected
  <2> QED BY <1>1, <2>1, <2>2, <2>3, <2>4 DEF Session
<1>3. Caused
  <2>1. A \in Node /\ B \in Node
    BY DEF Node
  <2> QED BY <1>1, <2>1 DEF Caused, Causal
<1> QED BY <1>2, <1>3, ChannelInit DEF SplitInv

\* Every step keeps the invariant.
LEMMA SplitStep == SplitInv /\ [Next]_vars => SplitInv'
<1> SUFFICES ASSUME SplitInv, [Next]_vars PROVE SplitInv'
  OBVIOUS
<1>1. Channels' /\ TypeOK /\ TypeOK'
  BY ChannelStep DEF SplitInv, Channels
<1>2. PICK s \in Node : NodeSteps(s)
  BY <1>1, SplitSteps
<1>3. peerCall' = peerCall
  BY <1>1, SplitSteps
<1>4. ASSUME NEW n \in Node PROVE Session(n)'
  <2>1. (HalfOpen(n) => HalfOpen(n)') /\ (Same(n) \/ NodeStep(n))
    BY <1>2 DEF NodeSteps
  <2> QED BY <1>1, <1>3, <2>1, SessionSame, SessionOpened, SessionSends, SessionGets DEF NodeStep
<1> QED BY <1>1, <1>2, <1>4, CausedStep DEF SplitInv

\* However the calls of the two ends interleave with what is on the way, the only
\* history that leaves one end connected alone is a CONNECT crossing a DISCONNECT.
THEOREM Splitting == Spec => []OnlyCrossingSplits
<1>1. SplitInv => OnlyCrossingSplits
  <2> SUFFICES ASSUME SplitInv, Quiet, Routed,
                      \A n \in Node : LineOf("half open", 0) \notin Reported(n)
               PROVE  (IsConnected(chat[A]) # IsConnected(chat[B])) <=> Crossed
    BY DEF OnlyCrossingSplits
  <2>1. TypeOK /\ A \in Node /\ B \in Node /\ Peer(A) = B /\ Peer(B) = A
    BY LiveAssumption DEF SplitInv, Channels, Node, Peer
  <2>2. /\ packets[A].out \in Seq(Packet) /\ packets[A].in \in Seq(Packet)
        /\ packets[B].out \in Seq(Packet) /\ packets[B].in \in Seq(Packet)
        /\ Up(A) \in BOOLEAN /\ Up(B) \in BOOLEAN
    BY <2>1, PacketSeqs
  <2>3. SameFrames(packets[A].in, packets[B].out) /\ SameFrames(packets[B].in, packets[A].out)
    <3>1. \A n \in Node : open[n] /\ wire[n] = <<>> /\ inbox[n] = <<>>
      BY DEF Quiet
    <3>2. ASSUME NEW n \in Node PROVE SameFrames(packets[n].in, packets[Peer(n)].out)
      <4>1. Channel(n) /\ Peer(n) \in Node
        BY PeerFacts DEF SplitInv, Channels
      <4>2. Len(packets[n].in) \in Nat
        BY <2>1, PacketSeqs, LenProperties
      <4>3. Len(packets[n].in) = Len(packets[Peer(n)].out)
        <5>1. FlowLength(packets[n].in, inbox[n], wire[Peer(n)]) = Len(packets[Peer(n)].out)
          BY <2>1, <3>1, <4>1 DEF Channel
        <5>2. Len(inbox[n]) = 0 /\ Len(wire[Peer(n)]) = 0
          BY <3>1, <4>1, EmptySeq
        <5>3. Len(packets[n].in) + Len(inbox[n]) + Len(wire[Peer(n)]) = Len(packets[Peer(n)].out)
          BY <5>1, Zenon DEF FlowLength
        <5>4. Len(inbox[n]) \in Nat /\ Len(wire[Peer(n)]) \in Nat
          BY <2>1, <4>1, LenProperties DEF TypeOK
        <5> QED BY <4>2, <5>2, <5>3, <5>4, PlusZero, Zenon
      <4>4. \A i \in 1..Len(packets[n].in) : packets[n].in[i].frame = packets[Peer(n)].out[i].frame
        BY <4>1 DEF Channel, Flow
      <4> QED BY <4>3, <4>4 DEF SameFrames
    <3> QED BY <2>1, <3>2
  <2>4. /\ Numbered(packets[A].out, packets[A].in) /\ Numbered(packets[B].out, packets[B].in)
        /\ HasLast(packets[A].out) /\ HasLast(packets[B].out)
        /\ Mode(packets[A].out, packets[A].in, Up(A))
        /\ Mode(packets[B].out, packets[B].in, Up(B))
        /\ Causal(packets[A].out, packets[A].in, packets[B].out, packets[B].in)
    BY <2>1 DEF SplitInv, Session, Caused, HalfOpen
  <2>5. (Up(A) # Up(B)) <=> Crossing(packets[A].out, packets[A].in, packets[B].out, packets[B].in)
    BY <2>2, <2>3, <2>4, Split
  <2>6. Crossed <=> Crossing(packets[A].out, packets[A].in, packets[B].out, packets[B].in)
    <3>1. DOMAIN packets[A].out = 1..Len(packets[A].out)
          /\ DOMAIN packets[B].out = 1..Len(packets[B].out)
      BY <2>2, LenProperties
    <3>2. /\ \A i : i \in ControlSent(A) /\ (\A k \in ControlSent(A) : k <= i)
                      <=> LastControl(packets[A].out, i)
          /\ \A i : i \in ControlSent(B) /\ (\A k \in ControlSent(B) : k <= i)
                      <=> LastControl(packets[B].out, i)
      BY <3>1 DEF ControlSent, LastControl, IsControl
    <3>3. \A i : /\ LastControl(packets[A].out, i) => i \in 1..Len(packets[A].out)
                 /\ LastControl(packets[B].out, i) => i \in 1..Len(packets[B].out)
      BY DEF LastControl
    <3> QED BY <3>2, <3>3 DEF Crossed, Crossing
  <2> QED BY <2>5, <2>6 DEF Up
<1> QED BY <1>1, SplitInit, SplitStep, PTL DEF Spec

-----------------------------------------------------------------------------
(***************************************************************************)
(* What the terminal shows of the log.                                     *)
(*                                                                         *)
(* A log numbers its messages upwards.  The events of the poll under way   *)
(* are newer than every message on the screen and are shown oldest first;  *)
(* a message gets past the screen only along with an error (View).         *)
(***************************************************************************)

IsText(x) == x.what = "message"

\* Numbers go up along a list of lines or events, all below next.
Upward(list, next) ==
  /\ \A i \in 1..Len(list) : IsText(list[i]) => list[i].sequence < next
  /\ \A i, j \in 1..Len(list) :
       i < j /\ IsText(list[i]) /\ IsText(list[j]) => list[i].sequence < list[j].sequence

\* The number is on the screen or among the events, or the screen has an error.
Accounted(k, shown, events) ==
  \/ \E i \in 1..Len(shown) : shown[i] = LineOf("message", k)
  \/ \E i \in 1..Len(events) : IsText(events[i]) /\ events[i].sequence = k
  \/ \E i \in 1..Len(shown) : shown[i] \in Errors

View(log, next, shown, events) ==
  /\ \A k \in 1..Len(log) : log[k].sequence < next
  /\ Upward(shown, next)
  /\ Upward(events, next)
  /\ \A i \in 1..Len(shown), j \in 1..Len(events) :
       IsText(shown[i]) /\ IsText(events[j]) => shown[i].sequence < events[j].sequence
  /\ \A k \in 1..Len(log) : Accounted(log[k].sequence, shown, events)

\* The list goes on upwards with what has the number next, or has none.
LEMMA UpwardMore ==
  ASSUME NEW S, NEW list \in Seq(S), NEW e \in S, NEW next \in Nat, NEW after \in Nat,
         Upward(list, next), next <= after,
         \A i \in 1..Len(list) : list[i].sequence \in Nat,
         IsText(e) => /\ e.sequence \in Nat /\ e.sequence < after
                      /\ \A i \in 1..Len(list) : IsText(list[i]) => list[i].sequence < e.sequence
  PROVE  Upward(Append(list, e), after)
<1> DEFINE N == Len(list)
           more == Append(list, e)
<1>1. /\ N \in Nat /\ Len(more) = N + 1
      /\ \A i \in 1..N : more[i] = list[i]
      /\ more[N + 1] = e
  BY AppendProperties, LenProperties
<1> HIDE DEF N, more
<1>2. \A i \in 1..(N + 1) : IsText(more[i]) => more[i].sequence < after
  <2> TAKE i \in 1..(N + 1)
  <2>1. CASE i = N + 1
    BY <1>1, <2>1
  <2>2. CASE i # N + 1
    <3>1. i \in 1..N
      BY <1>1, <2>2
    <3> QED BY <1>1, <3>1 DEF Upward, N
  <2> QED BY <2>1, <2>2
<1>3. ASSUME NEW i \in 1..(N + 1), NEW j \in 1..(N + 1), i < j, IsText(more[i]), IsText(more[j])
      PROVE  more[i].sequence < more[j].sequence
  <2>1. i \in 1..N /\ more[i] = list[i]
    BY <1>1, <1>3
  <2>2. CASE j = N + 1
    BY <1>1, <1>3, <2>1, <2>2 DEF N
  <2>3. CASE j # N + 1
    <3>1. j \in 1..N /\ more[j] = list[j]
      BY <1>1, <2>3
    <3> QED BY <1>3, <2>1, <3>1 DEF Upward, N
  <2> QED BY <2>2, <2>3
<1>4. Upward(more, after)
  BY <1>1, <1>2, <1>3 DEF Upward
<1> QED BY <1>4 DEF more

\* A line more on the screen, or an event more, takes away nothing.
LEMMA AccountedMore ==
  ASSUME NEW k, NEW shown \in Seq(Line), NEW events \in Seq(Event),
         Accounted(k, shown, events)
  PROVE  /\ \A l \in Line : Accounted(k, Append(shown, l), events)
         /\ \A e \in Event : Accounted(k, shown, Append(events, e))
<1>1. Len(shown) \in Nat /\ Len(events) \in Nat
  BY LenProperties
<1>2. ASSUME NEW l \in Line PROVE Accounted(k, Append(shown, l), events)
  <2>1. /\ Len(Append(shown, l)) = Len(shown) + 1
        /\ \A i \in 1..Len(shown) : i \in 1..(Len(shown) + 1) /\ Append(shown, l)[i] = shown[i]
    BY <1>1, AppendProperties
  <2> QED BY <2>1 DEF Accounted
<1>3. ASSUME NEW e \in Event PROVE Accounted(k, shown, Append(events, e))
  <2>1. /\ Len(Append(events, e)) = Len(events) + 1
        /\ \A i \in 1..Len(events) : i \in 1..(Len(events) + 1) /\ Append(events, e)[i] = events[i]
    BY <1>1, AppendProperties
  <2> QED BY <2>1 DEF Accounted
<1> QED BY <1>2, <1>3

\* What was just put on the screen is accounted for; so is all once an error is there.
LEMMA AccountedNow ==
  ASSUME NEW shown \in Seq(Line), NEW l \in Line, NEW events
  PROVE  /\ \A k : l = LineOf("message", k) => Accounted(k, Append(shown, l), events)
         /\ l \in Errors => \A k : Accounted(k, Append(shown, l), events)
<1>1. /\ Len(shown) \in Nat /\ Len(Append(shown, l)) = Len(shown) + 1
      /\ Append(shown, l)[Len(shown) + 1] = l
  BY AppendProperties, LenProperties
<1>2. Len(shown) + 1 \in 1..Len(Append(shown, l))
  BY <1>1
<1> QED BY <1>1, <1>2 DEF Accounted

LEMMA LineNumbers ==
  /\ \A shown \in Seq(Line) : \A i \in 1..Len(shown) : shown[i].sequence \in Nat
  /\ \A events \in Seq(Event) : \A i \in 1..Len(events) : events[i].sequence \in Nat
<1>1. \A l \in Line : l.sequence \in Nat
  BY DEF Line
<1>2. \A e \in Event : e.sequence \in Nat
  BY DEF Event, ChatEvent, AppEvent
<1> QED BY <1>1, <1>2, ElementOfSeq

\* A line that is not a message goes on the screen.
LEMMA ViewLine ==
  ASSUME NEW log \in Seq(Message), NEW next \in Nat, NEW shown \in Seq(Line),
         NEW events \in Seq(Event), View(log, next, shown, events),
         NEW l \in Line, ~IsText(l)
  PROVE  View(log, next, Append(shown, l), events)
<1> DEFINE more == Append(shown, l)
<1>1. /\ Len(shown) \in Nat /\ Len(more) = Len(shown) + 1
      /\ \A i \in 1..Len(shown) : more[i] = shown[i]
      /\ more[Len(shown) + 1] = l
  BY AppendProperties, LenProperties
<1>2. Upward(more, next)
  BY UpwardMore, LineNumbers DEF View
<1>3. \A k \in 1..Len(log) : Accounted(log[k].sequence, more, events)
  BY AccountedMore DEF View
<1> HIDE DEF more
<1>4. \A i \in 1..Len(more), j \in 1..Len(events) :
        IsText(more[i]) /\ IsText(events[j]) => more[i].sequence < events[j].sequence
  <2> TAKE i \in 1..Len(more), j \in 1..Len(events)
  <2>1. CASE i = Len(shown) + 1
    BY <1>1, <2>1
  <2>2. CASE i # Len(shown) + 1
    <3>1. i \in 1..Len(shown)
      BY <1>1, <2>2
    <3> QED BY <1>1, <3>1 DEF View
  <2> QED BY <2>1, <2>2
<1>5. View(log, next, more, events)
  BY <1>2, <1>3, <1>4 DEF View
<1> QED BY <1>5 DEF more

\* A message goes to the log ...
LEMMA LogNumbers ==
  ASSUME NEW log \in Seq(Message), NEW next \in Nat, NEW m \in Message, m.sequence = next,
         \A k \in 1..Len(log) : log[k].sequence < next
  PROVE  /\ \A k \in 1..Len(Append(log, m)) : Append(log, m)[k].sequence < next + 1
         /\ \A k \in 1..Len(Append(log, m)) :
              \/ k \in 1..Len(log) /\ Append(log, m)[k] = log[k]
              \/ Append(log, m)[k] = m
<1> DEFINE more == Append(log, m)
<1>1. /\ Len(log) \in Nat /\ Len(more) = Len(log) + 1
      /\ \A k \in 1..Len(log) : more[k] = log[k]
      /\ more[Len(log) + 1] = m
  BY AppendProperties, LenProperties
<1> HIDE DEF more
<1>2. \A k \in 1..Len(more) : \/ k \in 1..Len(log) /\ more[k] = log[k]
                              \/ more[k] = m
  BY <1>1
<1>3. \A k \in 1..Len(log) : log[k].sequence \in Nat
  <2>1. \A x \in Message : x.sequence \in Nat
    BY DEF Message
  <2> QED BY <2>1, ElementOfSeq
<1>4. ASSUME NEW k \in 1..Len(more) PROVE more[k].sequence < next + 1
  <2>1. CASE more[k] = m
    BY <2>1
  <2>2. CASE k \in 1..Len(log) /\ more[k] = log[k]
    <3>1. log[k].sequence \in Nat /\ log[k].sequence < next
      BY <1>3, <2>2
    <3> QED BY <2>2, <3>1
  <2> QED BY <1>2, <2>1, <2>2
<1> QED BY <1>2, <1>4 DEF more

\* ... and to the screen, or an error goes there, when no poll is under way ...
LEMMA ViewSaid ==
  ASSUME NEW log \in Seq(Message), NEW next \in Nat, NEW shown \in Seq(Line),
         View(log, next, shown, <<>>),
         NEW m \in Message, m.sequence = next, NEW l \in Line,
         l = LineOf("message", next) \/ (l \in Errors /\ ~IsText(l))
  PROVE  View(Append(log, m), next + 1, Append(shown, l), <<>>)
<1> DEFINE more == Append(log, m)
           screen == Append(shown, l)
<1>1. <<>> \in Seq(Event) /\ Len(<<>>) = 0
  BY EmptySeq
<1>2. /\ \A k \in 1..Len(more) : more[k].sequence < next + 1
      /\ \A k \in 1..Len(more) : (k \in 1..Len(log) /\ more[k] = log[k]) \/ more[k] = m
  BY LogNumbers DEF View
<1>3. Upward(screen, next + 1)
  <2>1. Upward(shown, next) /\ next + 1 \in Nat /\ next <= next + 1
    BY DEF View
  <2>2. IsText(l) => l.sequence = next
    BY DEF LineOf
  <2>3. \A i \in 1..Len(shown) : IsText(shown[i]) => shown[i].sequence < next
    BY <2>1 DEF Upward
  <2> QED BY <2>1, <2>2, <2>3, UpwardMore, LineNumbers
<1>4. \A k \in 1..Len(more) : Accounted(more[k].sequence, screen, <<>>)
  <2>1. \A k \in 1..Len(log) : Accounted(log[k].sequence, screen, <<>>)
    BY <1>1, AccountedMore DEF View
  <2>2. Accounted(next, screen, <<>>)
    BY AccountedNow
  <2> QED BY <1>2, <2>1, <2>2
<1>5. Upward(<<>>, next + 1)
  BY <1>1 DEF Upward
<1> HIDE DEF more, screen
<1>6. View(more, next + 1, screen, <<>>)
  BY <1>1, <1>2, <1>3, <1>4, <1>5 DEF View
<1> QED BY <1>6 DEF more, screen

\* ... or, taken from the peer, to the events.
LEMMA ViewHeard ==
  ASSUME NEW log \in Seq(Message), NEW next \in Nat, NEW shown \in Seq(Line),
         NEW events \in Seq(Event), View(log, next, shown, events),
         NEW m \in Message, m.sequence = next,
         NEW e \in Event, IsText(e), e.sequence = next
  PROVE  View(Append(log, m), next + 1, shown, Append(events, e))
<1> DEFINE more == Append(log, m)
           coming == Append(events, e)
<1>1. /\ Len(events) \in Nat /\ Len(coming) = Len(events) + 1
      /\ \A i \in 1..Len(events) : coming[i] = events[i]
      /\ coming[Len(events) + 1] = e
  BY AppendProperties, LenProperties
<1>2. /\ \A k \in 1..Len(more) : more[k].sequence < next + 1
      /\ \A k \in 1..Len(more) : (k \in 1..Len(log) /\ more[k] = log[k]) \/ more[k] = m
  BY LogNumbers DEF View
<1>3. Upward(coming, next + 1)
  <2>1. Upward(events, next) /\ next + 1 \in Nat /\ next <= next + 1
    BY DEF View
  <2>2. \A i \in 1..Len(events) : IsText(events[i]) => events[i].sequence < next
    BY <2>1 DEF Upward
  <2> QED BY <2>1, <2>2, UpwardMore, LineNumbers
<1>4. Upward(shown, next + 1)
  BY LineNumbers DEF View, Upward
<1>5. \A k \in 1..Len(more) : Accounted(more[k].sequence, shown, coming)
  <2>1. \A k \in 1..Len(log) : Accounted(log[k].sequence, shown, coming)
    BY AccountedMore DEF View
  <2>2. Accounted(next, shown, coming)
    <3>1. Len(events) + 1 \in 1..Len(coming) /\ coming[Len(events) + 1] = e
      BY <1>1
    <3> QED BY <3>1 DEF Accounted
  <2> QED BY <1>2, <2>1, <2>2
<1> HIDE DEF more, coming
<1>6. \A i \in 1..Len(shown), j \in 1..Len(coming) :
        IsText(shown[i]) /\ IsText(coming[j]) => shown[i].sequence < coming[j].sequence
  <2> TAKE i \in 1..Len(shown), j \in 1..Len(coming)
  <2>1. CASE j = Len(events) + 1
    BY <1>1, <2>1 DEF View, Upward
  <2>2. CASE j # Len(events) + 1
    <3>1. j \in 1..Len(events)
      BY <1>1, <2>2
    <3> QED BY <1>1, <3>1 DEF View
  <2> QED BY <2>1, <2>2
<1>7. View(more, next + 1, shown, coming)
  BY <1>2, <1>3, <1>4, <1>5, <1>6 DEF View
<1> QED BY <1>7 DEF more, coming

\* An event that is not a message comes behind the others.
LEMMA ViewEvent ==
  ASSUME NEW log \in Seq(Message), NEW next \in Nat, NEW shown \in Seq(Line),
         NEW events \in Seq(Event), View(log, next, shown, events),
         NEW e \in Event, ~IsText(e)
  PROVE  View(log, next, shown, Append(events, e))
<1> DEFINE coming == Append(events, e)
<1>1. /\ Len(events) \in Nat /\ Len(coming) = Len(events) + 1
      /\ \A i \in 1..Len(events) : coming[i] = events[i]
      /\ coming[Len(events) + 1] = e
  BY AppendProperties, LenProperties
<1>2. Upward(coming, next)
  BY UpwardMore, LineNumbers DEF View
<1>3. \A k \in 1..Len(log) : Accounted(log[k].sequence, shown, coming)
  BY AccountedMore DEF View
<1> HIDE DEF coming
<1>4. \A i \in 1..Len(shown), j \in 1..Len(coming) :
        IsText(shown[i]) /\ IsText(coming[j]) => shown[i].sequence < coming[j].sequence
  <2> TAKE i \in 1..Len(shown), j \in 1..Len(coming)
  <2>1. CASE j = Len(events) + 1
    BY <1>1, <2>1
  <2>2. CASE j # Len(events) + 1
    <3>1. j \in 1..Len(events)
      BY <1>1, <2>2
    <3> QED BY <1>1, <3>1 DEF View
  <2> QED BY <2>1, <2>2
<1>5. View(log, next, shown, coming)
  BY <1>2, <1>3, <1>4 DEF View
<1> QED BY <1>5 DEF coming

\* The oldest event goes on the screen.
LEMMA ViewRecord ==
  ASSUME NEW log \in Seq(Message), NEW next \in Nat, NEW shown \in Seq(Line),
         NEW events \in Seq(Event), View(log, next, shown, events), events # <<>>,
         NEW l \in Line,
         \/ IsText(Head(events)) /\ l = LineOf("message", Head(events).sequence)
         \/ ~IsText(Head(events)) /\ ~IsText(l)
  PROVE  View(log, next, Append(shown, l), Tail(events))
<1> DEFINE screen == Append(shown, l)
           rest == Tail(events)
           e == Head(events)
<1>1. /\ Len(shown) \in Nat /\ Len(screen) = Len(shown) + 1
      /\ \A i \in 1..Len(shown) : screen[i] = shown[i]
      /\ screen[Len(shown) + 1] = l
  BY AppendProperties, LenProperties
<1>2. /\ rest \in Seq(Event) /\ Len(events) \in Nat /\ Len(rest) = Len(events) - 1
      /\ \A j \in 1..Len(rest) : j + 1 \in 1..Len(events) /\ rest[j] = events[j + 1]
      /\ 1 \in 1..Len(events) /\ e = events[1]
  BY HeadTailProperties, LenProperties, EmptySeq
<1>3. IsText(l) => IsText(e) /\ l.sequence = e.sequence
  BY DEF LineOf
<1>4. screen \in Seq(Line) /\ e.sequence \in Nat
  BY <1>2, LineNumbers
<1>5. Upward(screen, next)
  <2>1. IsText(l) => /\ l.sequence \in Nat /\ l.sequence < next
                     /\ \A i \in 1..Len(shown) : IsText(shown[i]) => shown[i].sequence < l.sequence
    BY <1>2, <1>3, <1>4 DEF View, Upward
  <2>2. Upward(shown, next)
    BY DEF View
  <2> QED BY <2>1, <2>2, UpwardMore, LineNumbers
<1>6. \A k \in 1..Len(log) : Accounted(log[k].sequence, screen, rest)
  <2> TAKE k \in 1..Len(log)
  <2>1. Accounted(log[k].sequence, screen, events)
    BY AccountedMore DEF View
  <2>2. CASE \E i \in 1..Len(screen) : screen[i] = LineOf("message", log[k].sequence)
    BY <2>2 DEF Accounted
  <2>3. CASE \E i \in 1..Len(screen) : screen[i] \in Errors
    BY <2>3 DEF Accounted
  <2>4. CASE \E i \in 1..Len(events) : IsText(events[i]) /\ events[i].sequence = log[k].sequence
    <3>1. PICK i \in 1..Len(events) : IsText(events[i]) /\ events[i].sequence = log[k].sequence
      BY <2>4
    <3>2. CASE i = 1
      <4>1. l = LineOf("message", log[k].sequence)
        BY <1>2, <3>1, <3>2
      <4> QED BY <4>1, AccountedNow
    <3>3. CASE i # 1
      <4>1. i - 1 \in 1..Len(rest) /\ rest[i - 1] = events[i]
        BY <1>2, <3>1, <3>3
      <4> QED BY <3>1, <4>1 DEF Accounted
    <3> QED BY <3>2, <3>3
  <2> QED BY <2>1, <2>2, <2>3, <2>4 DEF Accounted
<1>7. Upward(rest, next)
  <2>1. \A j \in 1..Len(rest) : IsText(rest[j]) => rest[j].sequence < next
    BY <1>2 DEF View, Upward
  <2>2. \A i, j \in 1..Len(rest) : i < j => i + 1 < j + 1
    BY <1>2
  <2>3. \A i, j \in 1..Len(rest) :
          i < j /\ IsText(rest[i]) /\ IsText(rest[j]) => rest[i].sequence < rest[j].sequence
    BY <1>2, <2>2 DEF View, Upward
  <2> QED BY <2>1, <2>3 DEF Upward
<1> HIDE DEF screen, rest, e
<1>8. \A i \in 1..Len(screen), j \in 1..Len(rest) :
        IsText(screen[i]) /\ IsText(rest[j]) => screen[i].sequence < rest[j].sequence
  <2> TAKE i \in 1..Len(screen), j \in 1..Len(rest)
  <2>1. CASE i = Len(shown) + 1
    <3>1. 1 < j + 1
      BY <1>2
    <3> QED BY <1>1, <1>2, <1>3, <2>1, <3>1 DEF View, Upward
  <2>2. CASE i # Len(shown) + 1
    <3>1. i \in 1..Len(shown)
      BY <1>1, <2>2
    <3> QED BY <1>1, <1>2, <3>1 DEF View
  <2> QED BY <2>1, <2>2
<1>9. View(log, next, screen, rest)
  BY <1>5, <1>6, <1>7, <1>8 DEF View
<1> QED BY <1>9 DEF screen, rest

\* An error ends the poll: its events are dropped.
LEMMA ViewFailed ==
  ASSUME NEW log \in Seq(Message), NEW next \in Nat, NEW shown \in Seq(Line),
         NEW events \in Seq(Event), View(log, next, shown, events),
         NEW l \in Line, l \in Errors, ~IsText(l)
  PROVE  View(log, next, Append(shown, l), <<>>)
<1>1. View(log, next, Append(shown, l), events)
  BY ViewLine
<1>2. Len(<<>>) = 0 /\ Upward(<<>>, next)
  BY EmptySeq DEF Upward
<1>3. \A k : Accounted(k, Append(shown, l), <<>>)
  BY AccountedNow
<1> QED BY <1>1, <1>2, <1>3 DEF View

\* Between polls nothing is left to show.
Screen(n) ==
  /\ View(chat[n].messages, chat[n].next, lines[n], collected[n])
  /\ phase[n] = "idle" => collected[n] = <<>>

ScreenInv == TypeOK /\ \A n \in Node : Screen(n)

\* The log and the screen of the other end are not touched.
SameScreen(n) ==
  /\ chat'[n].messages = chat[n].messages /\ chat'[n].next = chat[n].next
  /\ lines'[n] = lines[n] /\ collected'[n] = collected[n] /\ phase'[n] = phase[n]

LEMMA ScreenSame ==
  ASSUME NEW n \in Node, Screen(n), SameScreen(n)
  PROVE  Screen(n)'
BY DEF Screen, SameScreen

LEMMA ScreenTypes ==
  ASSUME TypeOK, NEW n \in Node
  PROVE  /\ chat[n].messages \in Seq(Message) /\ chat[n].next \in Nat
         /\ lines[n] \in Seq(Line) /\ collected[n] \in Seq(Event)
         /\ chat[n] \in Backend
BY DEF TypeOK, Backend

\* Which lines are errors, and which are messages.
LEMMA ErrorLines ==
  /\ \A w \in {"refused", "unsent", "half open"} :
       LineOf(w, 0) \in Line /\ LineOf(w, 0) \in Errors /\ ~IsText(LineOf(w, 0))
  /\ \A w \in {"connected", "disconnected", "app"}, k \in Nat :
       LineOf(w, k) \in Line /\ ~IsText(LineOf(w, k))
  /\ \A k \in Nat : LineOf("message", k) \in Line
BY DEF LineOf, Line, Errors, IsText

\* What sending and taking a text add to the log.
LEMMA PushedOne ==
  ASSUME NEW c \in Backend, NEW n \in Call, NEW from \in Call, NEW t \in Text
  PROVE  /\ IsConnected(c) => \E m \in Message :
              /\ m.sequence = c.next
              /\ SentText(c, n, t).messages = Append(c.messages, m)
              /\ SentText(c, n, t).next = c.next + 1
         /\ \E m \in Message :
              /\ m.sequence = c.next
              /\ ReceivedText(c, n, from, t).messages = Append(c.messages, m)
              /\ ReceivedText(c, n, from, t).next = c.next + 1
<1>1. c.next \in Nat /\ c.peer \in Call \cup {NoCall}
  BY DEF Backend
<1>2. ASSUME NEW d \in Direction, NEW u \in Call, NEW v \in Call
      PROVE  \E m \in Message : /\ m.sequence = c.next
                                /\ PushMessage(c, d, u, v, t).messages = Append(c.messages, m)
                                /\ PushMessage(c, d, u, v, t).next = c.next + 1
  <2> DEFINE m == [sequence |-> c.next, direction |-> d, from |-> u, to |-> v, text |-> t]
  <2>1. m \in Message /\ m.sequence = c.next
    BY <1>1 DEF Message
  <2>2. /\ PushMessage(c, d, u, v, t).messages = Append(c.messages, m)
        /\ PushMessage(c, d, u, v, t).next = c.next + 1
    BY DEF PushMessage
  <2> QED BY <2>1, <2>2
<1>3. "Inbound" \in Direction /\ "Outbound" \in Direction
  BY DEF Direction
<1>4. IsConnected(c) => c.peer \in Call
  BY <1>1 DEF IsConnected
<1> QED BY <1>2, <1>3, <1>4 DEF SentText, ReceivedText

\* A command shows a line that is not a message, or a message it logged, or an error.
LEMMA ScreenCommands ==
  ASSUME ScreenInv, NEW s \in Node, Commands(s)
  PROVE  Screen(s)' /\ \A m \in Node : m # s => SameScreen(m)
<1>1. TypeOK /\ Screen(s) /\ s \in Call /\ chat[s] \in Backend /\ peerCall[s] \in Call
  BY PeerFacts DEF ScreenInv, TypeOK
<1>2. phase[s] = "idle" /\ phase' = phase /\ collected' = collected
  BY DEF Commands, Connect, Disconnect, SendTextRefused, SendText, ConnectRefused,
       ReceiveTextRefused, ReceiveText, Announce, AnnounceRefused, Command
<1>3. collected[s] = <<>>
  BY <1>1, <1>2 DEF Screen
<1>4. ASSUME NEW l \in Line, Show(s, l)
      PROVE  lines'[s] = Append(lines[s], l) /\ \A m \in Node : m # s => lines'[m] = lines[m]
  BY <1>1, <1>4 DEF TypeOK, Show
<1>5. ASSUME NEW l \in Line, Show(s, l), ~IsText(l),
             \A m \in Node : /\ chat'[m].messages = chat[m].messages
                             /\ chat'[m].next = chat[m].next
      PROVE  Screen(s)' /\ \A m \in Node : m # s => SameScreen(m)
  <2>1. View(chat[s].messages, chat[s].next, Append(lines[s], l), collected[s])
    BY <1>1, <1>5, ScreenTypes, ViewLine DEF Screen
  <2> QED BY <1>2, <1>3, <1>4, <1>5, <2>1 DEF Screen, SameScreen
<1>6. ASSUME NEW l \in Line, Show(s, l),
             l = LineOf("message", chat[s].next) \/ (l \in Errors /\ ~IsText(l)),
             NEW m \in Message, m.sequence = chat[s].next,
             chat'[s].messages = Append(chat[s].messages, m), chat'[s].next = chat[s].next + 1,
             \A o \in Node : o # s => chat'[o] = chat[o]
      PROVE  Screen(s)' /\ \A o \in Node : o # s => SameScreen(o)
  <2>1. View(Append(chat[s].messages, m), chat[s].next + 1, Append(lines[s], l), <<>>)
    BY <1>1, <1>3, <1>6, ScreenTypes, ViewSaid DEF Screen
  <2> QED BY <1>2, <1>3, <1>4, <1>6, <2>1 DEF Screen, SameScreen
<1>7. ASSUME NEW f, NEW l1 \in Line, NEW l2 \in Line, SendPayload(s, f, l1, l2)
      PROVE  Show(s, l1) \/ Show(s, l2)
  BY <1>7 DEF SendPayload
<1>8. CASE Connect(s)
  <2>1. chat' = [chat EXCEPT ![s] = ConnectTo(chat[s], peerCall[s])]
    BY <1>8 DEF Connect
  <2>2. \A m \in Node : chat'[m].messages = chat[m].messages /\ chat'[m].next = chat[m].next
    BY <1>1, <2>1 DEF TypeOK, ConnectTo
  <2>3. Show(s, LineOf("connected", 0)) \/ Show(s, LineOf("half open", 0))
    BY <1>7, <1>8, ErrorLines DEF Connect
  <2> QED BY <1>5, <2>2, <2>3, ErrorLines
<1>9. CASE Disconnect(s)
  <2>1. chat' = chat \/ chat' = [chat EXCEPT ![s] = Disconnected(chat[s])]
    BY <1>9 DEF Disconnect
  <2>2. \A m \in Node : chat'[m] = chat[m] \/ chat'[m] = Disconnected(chat[m])
    BY <1>1, <2>1 DEF TypeOK
  <2>3. \A m \in Node : chat'[m].messages = chat[m].messages /\ chat'[m].next = chat[m].next
    <3>1. \A c : Disconnected(c).messages = c.messages /\ Disconnected(c).next = c.next
      BY DEF Disconnected
    <3> QED BY <2>2, <3>1
  <2>4. Show(s, LineOf("disconnected", 0)) \/ Show(s, LineOf("unsent", 0))
    BY <1>9 DEF Disconnect
  <2> QED BY <1>5, <2>3, <2>4, ErrorLines
<1>10. CASE \E t \in Text \ RxText : SendText(s, t)
  <2>1. PICK t \in Text \ RxText : SendText(s, t)
    BY <1>10
  <2>2. /\ IsConnected(chat[s])
        /\ chat' = [chat EXCEPT ![s] = SentText(chat[s], s, t)]
        /\ Show(s, LineOf("message", chat[s].next)) \/ Show(s, LineOf("unsent", 0))
    BY <1>1, <1>7, <2>1, ErrorLines, ScreenTypes DEF SendText
  <2>3. chat'[s] = SentText(chat[s], s, t) /\ \A o \in Node : o # s => chat'[o] = chat[o]
    BY <1>1, <2>2 DEF TypeOK
  <2>4. PICK m \in Message : /\ m.sequence = chat[s].next
                             /\ SentText(chat[s], s, t).messages = Append(chat[s].messages, m)
                             /\ SentText(chat[s], s, t).next = chat[s].next + 1
    BY <1>1, <2>2, PushedOne
  <2> QED BY <1>1, <1>6, <2>2, <2>3, <2>4, ErrorLines, ScreenTypes
<1>11. CASE \E c \in Call, t \in RxText : ReceiveText(s, c, t)
  <2>1. PICK c \in Call, t \in RxText : ReceiveText(s, c, t)
    BY <1>11
  <2>2. /\ chat' = [chat EXCEPT ![s] = ReceivedText(chat[s], s, c, t)]
        /\ Show(s, LineOf("message", chat[s].next))
    BY <2>1 DEF ReceiveText
  <2>3. chat'[s] = ReceivedText(chat[s], s, c, t) /\ \A o \in Node : o # s => chat'[o] = chat[o]
    BY <1>1, <2>2 DEF TypeOK
  <2>4. t \in Text
    BY LiveAssumption
  <2>5. PICK m \in Message : /\ m.sequence = chat[s].next
                             /\ ReceivedText(chat[s], s, c, t).messages = Append(chat[s].messages, m)
                             /\ ReceivedText(chat[s], s, c, t).next = chat[s].next + 1
    BY <1>1, <2>1, <2>4, PushedOne
  <2> QED BY <1>1, <1>6, <2>2, <2>3, <2>5, ErrorLines, ScreenTypes
<1>12. CASE \E k \in AppKind : \E to, t : Announce(s, k, to, t)
  <2>0. PICK k \in AppKind : \E to, t : Announce(s, k, to, t)
    BY <1>12
  <2>1. PICK to, t : Announce(s, k, to, t)
    BY <2>0
  <2>2. chat' = chat /\ app[s].next \in Nat
    BY <1>1, <2>1, EntriesType DEF Announce
  <2>3. Show(s, LineOf("app", app[s].next)) \/ Show(s, LineOf("unsent", 0))
    BY <1>7, <2>1, <2>2, ErrorLines DEF Announce
  <2> QED BY <1>5, <2>2, <2>3, ErrorLines
<1>13. CASE SendTextRefused(s) \/ AnnounceRefused(s)
            \/ \E c \in Call : ConnectRefused(s, c) \/ ReceiveTextRefused(s, c)
  <2>1. chat' = chat /\ Show(s, LineOf("refused", 0))
    BY <1>13 DEF SendTextRefused, AnnounceRefused, ConnectRefused, ReceiveTextRefused, Refused
  <2> QED BY <1>5, <2>1, ErrorLines
<1>14. "BEACON" \in AppKind /\ "MAIL" \in AppKind
  BY DEF AppKind
<1> QED BY <1>8, <1>9, <1>10, <1>11, <1>12, <1>13, <1>14 DEF Commands

\* A poll logs and collects, drops and says so, or shows what it collected.
LEMMA ScreenPolling ==
  ASSUME ScreenInv, NEW s \in Node, Polling(s)
  PROVE  Screen(s)' /\ \A m \in Node : m # s => SameScreen(m)
<1>1. /\ TypeOK /\ Screen(s) /\ s \in Call /\ chat[s] \in Backend /\ peerCall[s] \in Call
      /\ phase \in [Node -> {"idle", "polling", "recording"}]
  BY PeerFacts DEF ScreenInv, TypeOK
<1>2. CASE PollBegin(s) \/ PollEnd(s)
  <2>1. chat' = chat /\ lines' = lines /\ collected' = collected
    BY <1>2 DEF PollBegin, PollEnd
  <2>2. /\ \A m \in Node : m # s => phase'[m] = phase[m]
        /\ phase'[s] = "idle" => collected[s] = <<>>
    BY <1>1, <1>2 DEF PollBegin, PollEnd
  <2> QED BY <1>1, <2>1, <2>2 DEF Screen, SameScreen
<1>3. CASE ReceiveFrame(s)
  <2> DEFINE f == Head(inbox[s])
  <2>1. /\ TakeFrame(s) /\ phase[s] = "polling" /\ phase' = phase /\ lines' = lines
        /\ chat' = [chat EXCEPT ![s] = ChatAfter(s, f)]
        /\ collected' = [collected EXCEPT ![s] = Append(collected[s], EventOf(s, f))]
    BY <1>3 DEF ReceiveFrame, TakeFrame
  <2>2. /\ chat'[s] = ChatAfter(s, f) /\ collected'[s] = Append(collected[s], EventOf(s, f))
        /\ \A m \in Node : m # s => SameScreen(m)
    BY <1>1, <2>1 DEF SameScreen, TypeOK
  <2>3. f \in Frame /\ f.from \in Call /\ EventOf(s, f) \in Event
    BY <1>1, <2>1, TakeTypes, AfterTypes DEF Frame, ControlFrame, TextFrame
  <2> HIDE DEF f
  <2>4. CASE f.kind = "MSG"
    <3>1. f.text \in Text
      BY <2>3, <2>4 DEF Frame, ControlFrame, TextFrame, Control
    <3>2. ChatAfter(s, f) = ReceivedText(chat[s], s, f.from, f.text)
      BY <2>4 DEF ChatAfter
    <3>3. IsText(EventOf(s, f)) /\ EventOf(s, f).sequence = chat[s].next
      BY <2>4 DEF EventOf, IsText
    <3>4. PICK m \in Message : /\ m.sequence = chat[s].next
                               /\ ChatAfter(s, f).messages = Append(chat[s].messages, m)
                               /\ ChatAfter(s, f).next = chat[s].next + 1
      BY <1>1, <2>3, <3>1, <3>2, PushedOne
    <3>5. View(Append(chat[s].messages, m), chat[s].next + 1, lines[s],
               Append(collected[s], EventOf(s, f)))
      BY <1>1, <2>3, <3>3, <3>4, ScreenTypes, ViewHeard DEF Screen
    <3> QED BY <1>1, <2>1, <2>2, <3>4, <3>5 DEF Screen
  <2>5. CASE f.kind # "MSG"
    <3>1. ChatAfter(s, f).messages = chat[s].messages /\ ChatAfter(s, f).next = chat[s].next
      BY <2>5 DEF ChatAfter, ConnectTo, Disconnected
    <3>2. ~IsText(EventOf(s, f))
      BY <2>5 DEF EventOf, IsText
    <3>3. View(chat[s].messages, chat[s].next, lines[s], Append(collected[s], EventOf(s, f)))
      BY <1>1, <2>3, <3>2, ScreenTypes, ViewEvent DEF Screen
    <3> QED BY <1>1, <2>1, <2>2, <3>1, <3>3 DEF Screen
  <2> QED BY <2>4, <2>5
<1>4. CASE PollFails(s)
  <2>1. /\ chat' = chat /\ Show(s, LineOf("refused", 0))
        /\ collected' = [collected EXCEPT ![s] = <<>>] /\ phase' = [phase EXCEPT ![s] = "idle"]
    BY <1>4 DEF PollFails, TakeFrame
  <2>2. /\ lines'[s] = Append(lines[s], LineOf("refused", 0)) /\ collected'[s] = <<>>
        /\ \A m \in Node : m # s => SameScreen(m)
    BY <1>1, <2>1 DEF SameScreen, TypeOK, Show
  <2>3. View(chat[s].messages, chat[s].next, Append(lines[s], LineOf("refused", 0)), <<>>)
    BY <1>1, ScreenTypes, ErrorLines, ViewFailed DEF Screen
  <2> QED BY <1>1, <2>1, <2>2, <2>3 DEF Screen
<1>5. CASE RecordChat(s) \/ RecordApp(s)
  <2> DEFINE e == Head(collected[s])
  <2>1. Recording(s) /\ collected[s] \in Seq(Event) /\ collected[s] # <<>>
    BY <1>1, <1>5 DEF RecordChat, RecordApp, Recording, TypeOK
  <2>2. e \in Event /\ e.sequence \in Nat
        /\ e.what \in {"connected", "disconnected", "message", "app"}
    <3>1. e \in Event
      BY <2>1, HeadTailProperties
    <3> QED BY <3>1, LineTypes
  <2>3. \E l \in Line :
          /\ Show(s, l)
          /\ \/ IsText(e) /\ l = LineOf("message", e.sequence)
             \/ ~IsText(e) /\ ~IsText(l)
    <3>1. CASE RecordChat(s)
      <4>1. Show(s, LineOf(e.what, e.sequence)) /\ e.what # "app"
        BY <3>1 DEF RecordChat
      <4>2. CASE IsText(e)
        BY <2>2, <4>1, <4>2, ErrorLines DEF IsText
      <4>3. CASE ~IsText(e)
        <5>1. e.what \in {"connected", "disconnected"}
          BY <2>2, <4>1, <4>3 DEF IsText
        <5> QED BY <2>2, <4>1, <4>3, <5>1, ErrorLines
      <4> QED BY <4>2, <4>3
    <3>2. CASE RecordApp(s)
      <4>1. Show(s, LineOf("app", app[s].next)) /\ e.what = "app" /\ app[s].next \in Nat
        BY <1>1, <3>2, EntriesType DEF RecordApp
      <4>2. ~IsText(e)
        BY <4>1 DEF IsText
      <4> QED BY <4>1, <4>2, ErrorLines
    <3> QED BY <1>5, <3>1, <3>2
  <2>4. PICK l \in Line :
          /\ Show(s, l)
          /\ \/ IsText(e) /\ l = LineOf("message", e.sequence)
             \/ ~IsText(e) /\ ~IsText(l)
    BY <2>3
  <2>5. /\ chat' = chat /\ collected' = [collected EXCEPT ![s] = Tail(collected[s])]
        /\ phase' = [phase EXCEPT ![s] = IF Len(collected[s]) = 1 THEN "idle" ELSE "recording"]
    BY <2>1 DEF Recording
  <2>6. /\ lines'[s] = Append(lines[s], l) /\ collected'[s] = Tail(collected[s])
        /\ \A m \in Node : m # s => SameScreen(m)
    BY <1>1, <2>4, <2>5 DEF SameScreen, TypeOK, Show
  <2>7. phase'[s] = "idle" => Tail(collected[s]) = <<>>
    <3>1. phase'[s] = IF Len(collected[s]) = 1 THEN "idle" ELSE "recording"
      BY <1>1, <2>5
    <3>2. Tail(collected[s]) \in Seq(Event) /\ Len(Tail(collected[s])) = Len(collected[s]) - 1
      BY <2>1, HeadTailProperties
    <3>3. Len(Tail(collected[s])) = 0 => Tail(collected[s]) = <<>>
      BY <3>2, EmptySeq
    <3> QED BY <3>1, <3>2, <3>3
  <2>8. View(chat[s].messages, chat[s].next, Append(lines[s], l), Tail(collected[s]))
    BY <1>1, <2>1, <2>4, ScreenTypes, ViewRecord DEF Screen
  <2> QED BY <2>5, <2>6, <2>7, <2>8 DEF Screen
<1> QED BY <1>2, <1>3, <1>4, <1>5 DEF Polling

LEMMA ScreenStep == ScreenInv /\ [Next]_vars => ScreenInv'
<1> SUFFICES ASSUME ScreenInv, [Next]_vars PROVE ScreenInv'
  OBVIOUS
<1>1. TypeOK'
  BY TypeStep DEF ScreenInv
<1>2. CASE \E s \in Node : Commands(s) \/ Polling(s)
  <2>1. PICK s \in Node : Commands(s) \/ Polling(s)
    BY <1>2
  <2>2. Screen(s)' /\ \A m \in Node : m # s => SameScreen(m)
    BY <2>1, ScreenCommands, ScreenPolling
  <2>3. \A m \in Node : Screen(m)'
    BY <2>2, ScreenSame DEF ScreenInv
  <2> QED BY <1>1, <2>3 DEF ScreenInv
<1>3. CASE UNCHANGED vars \/ \E s \in Node : Reader(s) \/ Quit(s)
  <2>1. chat' = chat /\ lines' = lines /\ collected' = collected /\ phase' = phase
    BY <1>3 DEF vars, Reader, Quit
  <2>2. \A m \in Node : Screen(m)'
    BY <2>1, ScreenSame DEF ScreenInv, SameScreen
  <2> QED BY <1>1, <2>2 DEF ScreenInv
<1> QED BY <1>2, <1>3 DEF Next

\* The screen tells the log: at both ends, whatever is sent, received, refused or
\* lost, messages are shown in the order of the log, each of them unless its poll is
\* still under way or an error was shown.
THEOREM Showing == Spec => []LogIsShown
<1>1. Init => ScreenInv
  <2> SUFFICES ASSUME Init, NEW n \in Node PROVE Screen(n)
    BY TypeInit DEF ScreenInv
  <2>1. chat[n].messages = <<>> /\ lines[n] = <<>> /\ collected[n] = <<>>
    BY DEF Init, NewBackend
  <2>2. Len(<<>>) = 0
    BY EmptySeq
  <2> QED BY <2>1, <2>2 DEF Screen, View, Upward
<1>2. ScreenInv => LogIsShown
  <2> SUFFICES ASSUME ScreenInv, NEW n \in Node
      PROVE  /\ \A i, j \in DOMAIN lines[n] :
                  i < j /\ lines[n][i].what = "message" /\ lines[n][j].what = "message"
                    => lines[n][i].sequence < lines[n][j].sequence
             /\ \A k \in DOMAIN chat[n].messages :
                  \/ LineOf("message", chat[n].messages[k].sequence) \in Reported(n)
                  \/ \E i \in DOMAIN collected[n] :
                       /\ collected[n][i].what = "message"
                       /\ collected[n][i].sequence = chat[n].messages[k].sequence
                  \/ Reported(n) \cap Errors # {}
    BY DEF LogIsShown
  <2>1. View(chat[n].messages, chat[n].next, lines[n], collected[n]) /\ TypeOK
    BY DEF ScreenInv, Screen
  <2>2. /\ DOMAIN lines[n] = 1..Len(lines[n])
        /\ DOMAIN chat[n].messages = 1..Len(chat[n].messages)
        /\ DOMAIN collected[n] = 1..Len(collected[n])
    BY <2>1, ScreenTypes, LenProperties
  <2>3. \A i, j \in DOMAIN lines[n] :
          i < j /\ lines[n][i].what = "message" /\ lines[n][j].what = "message"
            => lines[n][i].sequence < lines[n][j].sequence
    BY <2>1, <2>2 DEF View, Upward, IsText
  <2>4. ASSUME NEW k \in DOMAIN chat[n].messages
        PROVE  \/ LineOf("message", chat[n].messages[k].sequence) \in Reported(n)
               \/ \E i \in DOMAIN collected[n] :
                    /\ collected[n][i].what = "message"
                    /\ collected[n][i].sequence = chat[n].messages[k].sequence
               \/ Reported(n) \cap Errors # {}
    <3>1. Accounted(chat[n].messages[k].sequence, lines[n], collected[n])
      BY <2>1, <2>2 DEF View
    <3>2. \A i \in 1..Len(lines[n]) : lines[n][i] \in Reported(n)
      BY <2>2 DEF Reported
    <3> QED BY <2>2, <3>1, <3>2 DEF Accounted, IsText
  <2> QED BY <2>3, <2>4
<1> QED BY <1>1, <1>2, ScreenStep, PTL DEF Spec
-----------------------------------------------------------------------------
(* LiveChat implements TalkPromise.                                        *)
(*                                                                         *)
(* What a text is to TalkPromise is told by the packets and logs alone:    *)
(* the texts a node said are those of the MSG packets it sent, and as many *)
(* came up as MSG packets it got.  What it got is what its peer sent, from *)
(* the first (Channels), so the MSG packet it takes now holds the next     *)
(* text.  It takes it exactly if it listens: with both ends configured for *)
(* each other the route is right (GetsRouted) and a session is one with    *)
(* the peer (PeerIsSet).                                                   *)

(***************************************************************************)
(* Texts of packets and of logs                                            *)

TextsIn(reports) == [i \in DOMAIN Msgs(reports) |-> Msgs(reports)[i].frame.text]

PeersIn(log) == Picked(log, {i \in DOMAIN log : FromPeer(log[i])})
HeardIn(log) == [i \in DOMAIN PeersIn(log) |-> PeersIn(log)[i].text]

\* What the node said and heard, by its packets and its log.
LEMMA TalkIsIn ==
  \A n : Said(n) = TextsIn(packets[n].out) /\ Heard(n) = HeardIn(chat[n].messages)
BY DEF Said, Heard, TextsIn, HeardIn, PeersIn

\* A packet more is a text more if it is a MSG packet.
LEMMA MsgsMore ==
  ASSUME NEW s \in Seq(Packet), NEW p \in Packet
  PROVE  /\ Msgs(s) \in Seq(Packet)
         /\ Msgs(Append(s, p)) = IF IsMsg(p) THEN Append(Msgs(s), p) ELSE Msgs(s)
<1> DEFINE t == Append(s, p)
           D == {i \in DOMAIN s : IsMsg(s[i])}
           E == {i \in DOMAIN t : IsMsg(t[i])}
<1>1. /\ DOMAIN s = 1..Len(s) /\ DOMAIN t = 1..(Len(s) + 1) /\ Len(s) \in Nat
      /\ \A i \in 1..Len(s) : t[i] = s[i]
      /\ t[Len(s) + 1] = p
  BY AppendProperties, LenProperties
<1>2. \A n \in 1..Len(s) : n \in D <=> n \in E
  BY <1>1
<1>3. Len(s) + 1 \in E <=> IsMsg(p)
  BY <1>1
<1>4. Msgs(s) = Picked(s, D) /\ Msgs(t) = Picked(t, E)
  BY DEF Msgs
<1>5. Picked(s, D) \in Seq(Packet)
  <2> HIDE DEF D
  <2> QED BY PickedType
<1>6. Picked(Append(s, p), E) = IF Len(s) + 1 \in E THEN Append(Picked(s, D), p) ELSE Picked(s, D)
  <2> HIDE DEF D, E
  <2> QED BY <1>2, PickedMore
<1> HIDE DEF D, E
<1> QED BY <1>3, <1>4, <1>5, <1>6

LEMMA TextsInMore ==
  ASSUME NEW s \in Seq(Packet), NEW p \in Packet
  PROVE  TextsIn(Append(s, p)) = IF IsMsg(p) THEN Append(TextsIn(s), p.frame.text) ELSE TextsIn(s)
<1>1. CASE ~IsMsg(p)
  BY <1>1, MsgsMore DEF TextsIn
<1>2. CASE IsMsg(p)
  <2> DEFINE m == Msgs(s)
  <2>1. m \in Seq(Packet) /\ Msgs(Append(s, p)) = Append(m, p)
    BY <1>2, MsgsMore
  <2>2. TextsIn(s) = [i \in DOMAIN m |-> m[i].frame.text]
        /\ TextsIn(Append(s, p)) = [i \in DOMAIN Append(m, p) |-> Append(m, p)[i].frame.text]
    BY <2>1 DEF TextsIn
  <2> HIDE DEF m
  <2>3. [i \in DOMAIN Append(m, p) |-> Append(m, p)[i].frame.text]
          = Append([i \in DOMAIN m |-> m[i].frame.text], p.frame.text)
    BY <2>1
  <2> QED BY <1>2, <2>2, <2>3
<1> QED BY <1>1, <1>2

\* The MSG packet that follows those got is the text that follows those that came up.
LEMMA TextNext ==
  ASSUME NEW s \in Seq(Packet), NEW t \in Seq(Packet),
         Len(s) + 1 \in 1..Len(t), IsMsg(t[Len(s) + 1]),
         \A i \in 1..Len(s) : s[i].frame = t[i].frame
  PROVE  /\ Len(Msgs(s)) + 1 \in 1..Len(TextsIn(t))
         /\ TextsIn(t)[Len(Msgs(s)) + 1] = t[Len(s) + 1].frame.text
<1> DEFINE D == {i \in DOMAIN s : IsMsg(s[i])}
           E == {i \in DOMAIN t : IsMsg(t[i])}
<1>1. DOMAIN s = 1..Len(s) /\ DOMAIN t = 1..Len(t) /\ Len(s) \in Nat /\ Len(t) \in Nat
  BY LenProperties
<1>2. \A n \in 1..Len(s) : n \in D <=> n \in E
  BY <1>1 DEF IsMsg
<1>3. Len(s) + 1 \in E
  BY <1>1
<1>4. Msgs(s) = Picked(s, D) /\ Msgs(t) = Picked(t, E)
  BY DEF Msgs
<1>5. /\ Len(Picked(s, D)) + 1 \in 1..Len(Picked(t, E))
      /\ Picked(t, E)[Len(Picked(s, D)) + 1] = t[Len(s) + 1]
  <2> HIDE DEF D, E
  <2> QED BY <1>2, <1>3, PickedNext
<1>6. Msgs(t) \in Seq(Packet)
  <2> HIDE DEF E
  <2> QED BY <1>4, PickedType
<1> HIDE DEF D, E
<1>7. DOMAIN Msgs(t) = 1..Len(Msgs(t)) /\ Len(TextsIn(t)) = Len(Msgs(t))
  BY <1>6 DEF TextsIn
<1> QED BY <1>4, <1>5, <1>7 DEF TextsIn

\* A message more is a text more from the peer if it came from the peer.
LEMMA HeardInMore ==
  ASSUME NEW s \in Seq(Message), NEW p \in Message
  PROVE  HeardIn(Append(s, p)) = IF FromPeer(p) THEN Append(HeardIn(s), p.text) ELSE HeardIn(s)
<1> DEFINE t == Append(s, p)
           D == {i \in DOMAIN s : FromPeer(s[i])}
           E == {i \in DOMAIN t : FromPeer(t[i])}
<1>1. /\ DOMAIN s = 1..Len(s) /\ DOMAIN t = 1..(Len(s) + 1) /\ Len(s) \in Nat
      /\ \A i \in 1..Len(s) : t[i] = s[i]
      /\ t[Len(s) + 1] = p
  BY AppendProperties, LenProperties
<1>2. \A n \in 1..Len(s) : n \in D <=> n \in E
  BY <1>1
<1>3. Len(s) + 1 \in E <=> FromPeer(p)
  BY <1>1
<1>4. PeersIn(s) = Picked(s, D) /\ PeersIn(t) = Picked(t, E)
  BY DEF PeersIn
<1>5. Picked(s, D) \in Seq(Message)
  <2> HIDE DEF D
  <2> QED BY PickedType
<1>6. Picked(Append(s, p), E) = IF Len(s) + 1 \in E THEN Append(Picked(s, D), p) ELSE Picked(s, D)
  <2> HIDE DEF D, E
  <2> QED BY <1>2, PickedMore
<1> HIDE DEF D, E
<1>7. CASE ~FromPeer(p)
  BY <1>3, <1>4, <1>6, <1>7 DEF HeardIn
<1>8. CASE FromPeer(p)
  <2> DEFINE m == PeersIn(s)
  <2>1. m \in Seq(Message) /\ PeersIn(Append(s, p)) = Append(m, p)
    BY <1>3, <1>4, <1>5, <1>6, <1>8
  <2>2. HeardIn(s) = [i \in DOMAIN m |-> m[i].text]
        /\ HeardIn(Append(s, p)) = [i \in DOMAIN Append(m, p) |-> Append(m, p)[i].text]
    BY <2>1 DEF HeardIn
  <2> HIDE DEF m
  <2>3. [i \in DOMAIN Append(m, p) |-> Append(m, p)[i].text]
          = Append([i \in DOMAIN m |-> m[i].text], p.text)
    BY <2>1
  <2> QED BY <1>8, <2>2, <2>3
<1> QED BY <1>7, <1>8

-----------------------------------------------------------------------------
(* What a step is to TalkPromise                                           *)

Listening(n) == Up(n) /\ Routed

NothingSaid(n) ==
  /\ Said(n)' = Said(n) /\ Heard(n)' = Heard(n)
  /\ Len(Msgs(packets[n].in))' = Len(Msgs(packets[n].in))

SaysOne(n) ==
  /\ \E t \in Text \ RxText : Said(n)' = Append(Said(n), t)
  /\ Heard(n)' = Heard(n) /\ Len(Msgs(packets[n].in))' = Len(Msgs(packets[n].in))
  /\ Listening(n)' <=> Listening(n)

ComesUp(n) ==
  /\ Len(Msgs(packets[n].in)) < Len(Said(Peer(n)))
  /\ Len(Msgs(packets[n].in))' = Len(Msgs(packets[n].in)) + 1
  /\ Said(n)' = Said(n)
  /\ Listening(n)' <=> Listening(n)
  /\ IF Listening(n)
     THEN Heard(n)' = Append(Heard(n), Said(Peer(n))[Len(Msgs(packets[n].in)) + 1])
     ELSE Heard(n)' = Heard(n)

TalkAlone(n) ==
  \A m \in Node : m # n => NothingSaid(m) /\ (Listening(m)' <=> Listening(m))

talk == << [n \in Node |-> Said(n)], [n \in Node |-> Heard(n)],
           [n \in Node |-> Len(Msgs(packets[n].in))],
           [n \in Node |-> IsConnected(chat[n]) /\ Routed] >>

\* Each of these is a step of TalkPromise, or none.
LEMMA TalkSteps ==
  ASSUME NEW s \in Node, TalkAlone(s), NothingSaid(s) \/ SaysOne(s) \/ ComesUp(s)
  PROVE  [Promise!Next]_talk
<1> DEFINE said == [n \in Node |-> Said(n)]
           heard == [n \in Node |-> Heard(n)]
           upto == [n \in Node |-> Len(Msgs(packets[n].in))]
           listening == [n \in Node |-> IsConnected(chat[n]) /\ Routed]
<1>1. \A n \in Node : /\ said[n] = Said(n) /\ said'[n] = Said(n)'
                      /\ heard[n] = Heard(n) /\ heard'[n] = Heard(n)'
                      /\ upto[n] = Len(Msgs(packets[n].in))
                      /\ upto'[n] = Len(Msgs(packets[n].in))'
                      /\ listening[n] = Listening(n) /\ listening'[n] = Listening(n)'
                      /\ listening[n] \in BOOLEAN /\ listening'[n] \in BOOLEAN
  BY DEF Listening, Up, IsConnected
<1>2. Peer(s) \in Node
  BY PeerFacts
<1>02. ASSUME \A n \in Node : n # s => Said(n)' = Said(n),
              NEW v, Said(s)' = v
       PROVE  said' = [said EXCEPT ![s] = v]
  BY <1>02
<1>03. ASSUME \A n \in Node : n # s => Heard(n)' = Heard(n),
              NEW v, Heard(s)' = v
       PROVE  heard' = [heard EXCEPT ![s] = v]
  BY <1>03
<1>04. ASSUME \A n \in Node : n # s => Len(Msgs(packets[n].in))' = Len(Msgs(packets[n].in)),
              NEW v, Len(Msgs(packets[s].in))' = v
       PROVE  upto' = [upto EXCEPT ![s] = v]
  BY <1>04
<1>3. CASE NothingSaid(s)
  <2>1. said' = said /\ heard' = heard /\ upto' = upto
    BY <1>3 DEF TalkAlone, NothingSaid
  <2>2. CASE Listening(s)' <=> Listening(s)
    <3>1. listening' = listening
      BY <1>1, <2>2 DEF TalkAlone
    <3> QED BY <2>1, <3>1 DEF talk
  <2>3. CASE ~(Listening(s)' <=> Listening(s))
    <3>1. listening' = [listening EXCEPT ![s] = ~@]
      BY <1>1, <2>3 DEF TalkAlone
    <3>2. Promise!Tune(s)
      BY <2>1, <3>1 DEF Promise!Tune
    <3> QED BY <3>2 DEF Promise!Next
  <2> QED BY <2>2, <2>3
<1>4. CASE SaysOne(s)
  <2>1. PICK t \in Text \ RxText : Said(s)' = Append(Said(s), t)
    BY <1>4 DEF SaysOne
  <2>2. said' = [said EXCEPT ![s] = Append(@, t)]
    <3>1. said' = [said EXCEPT ![s] = Append(Said(s), t)]
      BY <1>02, <2>1 DEF TalkAlone, NothingSaid
    <3>2. Said(s) = said[s]
      BY <1>1
    <3> HIDE DEF said
    <3> QED BY <3>1, <3>2
  <2>20. heard' = heard /\ upto' = upto
    BY <1>4 DEF TalkAlone, NothingSaid, SaysOne
  <2>3. listening' = listening
    BY <1>1, <1>4 DEF TalkAlone, SaysOne
  <2>4. Promise!Say(s)
    BY <2>2, <2>20, <2>3 DEF Promise!Say
  <2> QED BY <2>4 DEF Promise!Next
<1>5. CASE ComesUp(s)
  <2>0. said' = said
    BY <1>5 DEF TalkAlone, NothingSaid, ComesUp
  <2>1. said' = said /\ upto' = [upto EXCEPT ![s] = @ + 1] /\ upto[s] < Len(said[Peer(s)])
    <3>1. upto' = [upto EXCEPT ![s] = Len(Msgs(packets[s].in)) + 1]
      BY <1>04, <1>5 DEF TalkAlone, NothingSaid, ComesUp
    <3>2. Len(Msgs(packets[s].in)) = upto[s] /\ Said(Peer(s)) = said[Peer(s)]
      BY <1>1, <1>2
    <3>3. Len(Msgs(packets[s].in)) < Len(Said(Peer(s)))
      BY <1>5 DEF ComesUp
    <3> HIDE DEF said, upto
    <3> QED BY <2>0, <3>1, <3>2, <3>3
  <2>2. listening' = listening
    BY <1>1, <1>5 DEF TalkAlone, ComesUp
  <2>3. CASE Listening(s)
    <3>1. heard' = [heard EXCEPT ![s] = Append(@, said[Peer(s)][upto[s] + 1])] /\ listening[s]
      <4>1. heard' = [heard EXCEPT ![s] =
              Append(Heard(s), Said(Peer(s))[Len(Msgs(packets[s].in)) + 1])]
        BY <1>03, <1>5, <2>3 DEF TalkAlone, NothingSaid, ComesUp
      <4>2. /\ Len(Msgs(packets[s].in)) = upto[s] /\ Said(Peer(s)) = said[Peer(s)]
            /\ Heard(s) = heard[s] /\ listening[s]
        BY <1>1, <1>2, <2>3
      <4> HIDE DEF said, upto, heard, listening
      <4> QED BY <4>1, <4>2
    <3>2. Promise!Hear(s)
      BY <2>1, <2>2, <3>1 DEF Promise!Hear, Promise!NextText
    <3> QED BY <3>2 DEF Promise!Next
  <2>4. CASE ~Listening(s)
    <3>1. heard' = heard /\ ~listening[s]
      BY <1>1, <1>5, <2>4 DEF TalkAlone, NothingSaid, ComesUp
    <3>2. Promise!Miss(s)
      BY <2>1, <2>2, <3>1 DEF Promise!Miss
    <3> QED BY <3>2 DEF Promise!Next
  <2> QED BY <2>3, <2>4
<1> QED BY <1>3, <1>4, <1>5

-----------------------------------------------------------------------------
(* What a step does to packets and logs                                    *)

OutMore(n, f) ==
  packets'[n].out = Append(packets[n].out, PacketOf(n, f)) /\ packets'[n].in = packets[n].in

\* No text is sent, taken or logged as the peer's; the session may change.
Untold(n) ==
  /\ Heard(n)' = Heard(n)
  /\ chat'[n].peer \in {NoCall, peerCall[n], chat[n].peer}
  /\ packets'[n] = packets[n] \/ \E f \in Frame : f.kind # "MSG" /\ OutMore(n, f)

Tells(n) ==
  /\ Heard(n)' = Heard(n)
  /\ chat'[n].peer = chat[n].peer
  /\ \E f \in Frame : f.kind = "MSG" /\ f.text \in Text \ RxText /\ OutMore(n, f)

TakesOne(n) ==
  /\ TakeFrame(n)
  /\ chat'[n] = IF FrameOk(n, Head(inbox[n])) THEN ChatAfter(n, Head(inbox[n])) ELSE chat[n]

TalkKind(s) ==
  /\ peerCall' = peerCall
  /\ \A m \in Node : m # s => packets'[m] = packets[m] /\ chat'[m] = chat[m]
  /\ Untold(s) \/ Tells(s) \/ TakesOne(s)

\* The message that sending or taking a text adds.
LEMMA PushedText ==
  ASSUME NEW c \in Backend, NEW n \in Call, NEW from \in Call, NEW t \in Text
  PROVE  /\ IsConnected(c) => \E m \in Message :
              ~FromPeer(m) /\ SentText(c, n, t).messages = Append(c.messages, m)
         /\ \E m \in Message :
              /\ m.text = t /\ (FromPeer(m) <=> t \notin RxText)
              /\ ReceivedText(c, n, from, t).messages = Append(c.messages, m)
         /\ SentText(c, n, t).peer = c.peer /\ ReceivedText(c, n, from, t).peer = c.peer
<1>1. c.next \in Nat /\ c.peer \in Call \cup {NoCall}
  BY DEF Backend
<1>2. ASSUME NEW d \in Direction, NEW u \in Call, NEW v \in Call
      PROVE  \E m \in Message : /\ m.direction = d /\ m.text = t
                                /\ PushMessage(c, d, u, v, t).messages = Append(c.messages, m)
  <2> DEFINE m == [sequence |-> c.next, direction |-> d, from |-> u, to |-> v, text |-> t]
  <2>1. m \in Message /\ m.direction = d /\ m.text = t
    BY <1>1, <1>2 DEF Message
  <2>2. PushMessage(c, d, u, v, t).messages = Append(c.messages, m)
    BY DEF PushMessage
  <2> QED BY <2>1, <2>2
<1>3. "Inbound" \in Direction /\ "Outbound" \in Direction
  BY DEF Direction
<1>4. IsConnected(c) => c.peer \in Call
  BY <1>1 DEF IsConnected
<1>5. IsConnected(c) => \E m \in Message :
        ~FromPeer(m) /\ SentText(c, n, t).messages = Append(c.messages, m)
  <2> SUFFICES ASSUME IsConnected(c)
      PROVE \E m \in Message : ~FromPeer(m) /\ SentText(c, n, t).messages = Append(c.messages, m)
    OBVIOUS
  <2>1. PICK m \in Message : /\ m.direction = "Outbound"
                             /\ SentText(c, n, t).messages = Append(c.messages, m)
    BY <1>2, <1>3, <1>4 DEF SentText
  <2> QED BY <2>1 DEF FromPeer
<1>6. \E m \in Message : /\ m.text = t /\ (FromPeer(m) <=> t \notin RxText)
                         /\ ReceivedText(c, n, from, t).messages = Append(c.messages, m)
  <2>1. PICK m \in Message : /\ m.direction = "Inbound" /\ m.text = t
                             /\ ReceivedText(c, n, from, t).messages = Append(c.messages, m)
    BY <1>2, <1>3 DEF ReceivedText
  <2> QED BY <2>1 DEF FromPeer
<1>7. SentText(c, n, t).peer = c.peer /\ ReceivedText(c, n, from, t).peer = c.peer
  BY DEF SentText, ReceivedText, PushMessage
<1> QED BY <1>5, <1>6, <1>7

\* What is not from the peer is not heard from it.
LEMMA LogHeard ==
  ASSUME TypeOK, NEW n \in Node,
         \/ chat'[n].messages = chat[n].messages
         \/ \E m \in Message : ~FromPeer(m) /\ chat'[n].messages = Append(chat[n].messages, m)
  PROVE  Heard(n)' = Heard(n)
<1>1. chat[n].messages \in Seq(Message)
  BY ScreenTypes
<1>2. HeardIn(chat'[n].messages) = HeardIn(chat[n].messages)
  BY <1>1, HeardInMore
<1>3. Heard(n)' = HeardIn(chat'[n].messages) /\ Heard(n) = HeardIn(chat[n].messages)
  BY DEF Heard, HeardIn, PeersIn
<1> QED BY <1>2, <1>3

\* A command sends a text, or nothing is told.
LEMMA TalkCommands ==
  ASSUME TypeOK, NEW s \in Node, Commands(s)
  PROVE  TalkKind(s)
<1>1. peerCall' = peerCall
  BY DEF Commands, Connect, Disconnect, SendTextRefused, SendText, ConnectRefused,
       ReceiveTextRefused, ReceiveText, Announce, AnnounceRefused, Command
<1>2. chat[s] \in Backend /\ peerCall[s] \in Call /\ s \in Call
  BY PeerFacts DEF TypeOK
<1>3. /\ FrameOf(s, "CONNECT", NoText) \in Frame /\ FrameOf(s, "DISCONNECT", NoText) \in Frame
      /\ \A k \in AppKind \cup {"MSG"}, t \in Text : FrameOf(s, k, t) \in Frame
  BY FrameOfTypes DEF Control
<1>4. \A k, t : FrameOf(s, k, t).kind = k /\ FrameOf(s, k, t).text = t
  BY DEF FrameOf
<1>5. ASSUME NEW f \in Frame, Written(s, f)
      PROVE  OutMore(s, f) /\ \A m \in Node : m # s => packets'[m] = packets[m]
  BY <1>5 DEF Written, TypeOK, OutMore
<1>6. ASSUME NEW f, NEW l1, NEW l2, SendPayload(s, f, l1, l2)
      PROVE  Written(s, f) \/ packets' = packets
  BY <1>6 DEF SendPayload, Unwritten
<1>7. ASSUME NEW f \in Frame, f.kind # "MSG", Written(s, f) \/ packets' = packets,
             \A m \in Node : m # s => chat'[m] = chat[m],
             chat'[s].messages = chat[s].messages,
             chat'[s].peer \in {NoCall, peerCall[s], chat[s].peer}
      PROVE  TalkKind(s)
  <2>1. Heard(s)' = Heard(s)
    BY <1>7, LogHeard
  <2>2. Untold(s)
    BY <1>5, <1>7, <2>1 DEF Untold
  <2> QED BY <1>1, <1>5, <1>7, <2>2 DEF TalkKind
<1>8. CASE Connect(s)
  <2>1. chat'[s] = ConnectTo(chat[s], peerCall[s]) /\ \A m \in Node : m # s => chat'[m] = chat[m]
    BY <1>8 DEF Connect, TypeOK
  <2>2. chat'[s].messages = chat[s].messages /\ chat'[s].peer = peerCall[s]
    BY <2>1 DEF ConnectTo
  <2>3. Written(s, FrameOf(s, "CONNECT", NoText)) \/ packets' = packets
    BY <1>6, <1>8 DEF Connect
  <2> QED BY <1>3, <1>4, <1>7, <2>1, <2>2, <2>3
<1>9. CASE Disconnect(s)
  <2>1. chat'[s] = chat[s] \/ chat'[s] = Disconnected(chat[s])
    BY <1>9 DEF Disconnect, TypeOK
  <2>2. \A m \in Node : m # s => chat'[m] = chat[m]
    BY <1>9 DEF Disconnect, TypeOK
  <2>3. chat'[s].messages = chat[s].messages /\ chat'[s].peer \in {NoCall, chat[s].peer}
    BY <2>1 DEF Disconnected
  <2>4. Written(s, FrameOf(s, "DISCONNECT", NoText)) \/ packets' = packets
    BY <1>9 DEF Disconnect, Unwritten
  <2> QED BY <1>3, <1>4, <1>7, <2>2, <2>3, <2>4
<1>10. ASSUME NEW t \in Text \ RxText, SendText(s, t) PROVE TalkKind(s)
  <2>1. chat'[s] = SentText(chat[s], s, t) /\ \A m \in Node : m # s => chat'[m] = chat[m]
    BY <1>10 DEF SendText, TypeOK
  <2>2. IsConnected(chat[s]) /\ t \in Text /\ t \notin RxText
    BY <1>10 DEF SendText
  <2>3. Heard(s)' = Heard(s) /\ chat'[s].peer = chat[s].peer
    BY <1>2, <2>1, <2>2, PushedText, LogHeard
  <2>4. Written(s, FrameOf(s, "MSG", t)) \/ packets' = packets
    BY <1>6, <1>10 DEF SendText
  <2>5. CASE Written(s, FrameOf(s, "MSG", t))
    <3>1. FrameOf(s, "MSG", t) \in Frame
      BY <1>3, <2>2
    <3>2. Tells(s)
      BY <1>4, <1>5, <2>2, <2>3, <2>5, <3>1 DEF Tells
    <3> QED BY <1>1, <1>5, <2>1, <2>5, <3>1, <3>2 DEF TalkKind
  <2>6. CASE packets' = packets
    <3>1. Untold(s)
      BY <2>3, <2>6 DEF Untold
    <3> QED BY <1>1, <2>1, <2>6, <3>1 DEF TalkKind
  <2> QED BY <2>4, <2>5, <2>6
<1>11. ASSUME NEW c \in Call, NEW t \in RxText, ReceiveText(s, c, t) PROVE TalkKind(s)
  <2>1. chat'[s] = ReceivedText(chat[s], s, c, t) /\ \A m \in Node : m # s => chat'[m] = chat[m]
    BY <1>11 DEF ReceiveText, TypeOK
  <2>2. t \in Text /\ t \in RxText
    BY LiveAssumption, <1>11
  <2>3. Heard(s)' = Heard(s) /\ chat'[s].peer = chat[s].peer
    BY <1>2, <2>1, <2>2, PushedText, LogHeard
  <2>4. packets' = packets
    BY <1>11 DEF ReceiveText
  <2> QED BY <1>1, <2>1, <2>3, <2>4 DEF TalkKind, Untold
<1>12. ASSUME NEW k \in AppKind, NEW to, NEW t \in Text, Announce(s, k, to, t)
       PROVE  TalkKind(s)
  <2>1. chat' = chat /\ (Written(s, FrameOf(s, k, t)) \/ packets' = packets)
    BY <1>6, <1>12 DEF Announce
  <2>2. FrameOf(s, k, t) \in Frame /\ FrameOf(s, k, t).kind # "MSG"
    BY <1>3, <1>4, <1>12 DEF AppKind
  <2> QED BY <1>7, <2>1, <2>2
<1>13. CASE SendTextRefused(s) \/ AnnounceRefused(s)
            \/ \E c \in Call : ConnectRefused(s, c) \/ ReceiveTextRefused(s, c)
  <2>1. chat' = chat /\ packets' = packets
    BY <1>13 DEF SendTextRefused, AnnounceRefused, ConnectRefused, ReceiveTextRefused, Refused
  <2> QED BY <1>3, <1>4, <1>7, <2>1
<1>14. "BEACON" \in AppKind /\ "MAIL" \in AppKind
  BY DEF AppKind
<1> QED BY <1>8, <1>9, <1>10, <1>11, <1>12, <1>13, <1>14 DEF Commands

\* Every step tells a text, takes a frame, or tells nothing.
LEMMA TalkKinds ==
  ASSUME TypeOK, [Next]_vars
  PROVE  \E s \in Node : TalkKind(s)
<1>1. ASSUME NEW s \in Node, Commands(s) PROVE TalkKind(s)
  BY <1>1, TalkCommands
<1>2. ASSUME NEW s \in Node, ReceiveFrame(s) \/ PollFails(s) PROVE TalkKind(s)
  <2>1. TakeFrame(s) /\ peerCall' = peerCall
    BY <1>2 DEF ReceiveFrame, PollFails, TakeFrame
  <2>2. \A m \in Node : m # s => packets'[m] = packets[m] /\ chat'[m] = chat[m]
    BY <1>2 DEF ReceiveFrame, PollFails, TakeFrame, TypeOK
  <2>3. chat'[s] = IF FrameOk(s, Head(inbox[s])) THEN ChatAfter(s, Head(inbox[s])) ELSE chat[s]
    BY <1>2 DEF ReceiveFrame, PollFails, TypeOK
  <2> QED BY <2>1, <2>2, <2>3 DEF TalkKind, TakesOne
<1>3. ASSUME NEW s \in Node,
             \/ UNCHANGED vars \/ Reader(s) \/ Quit(s) \/ PollBegin(s) \/ PollEnd(s)
             \/ RecordChat(s) \/ RecordApp(s)
      PROVE  TalkKind(s)
  <2>1. peerCall' = peerCall /\ packets' = packets /\ chat' = chat
    BY <1>3 DEF vars, Reader, Quit, PollBegin, PollEnd, RecordChat, RecordApp, Recording
  <2>2. Heard(s)' = Heard(s)
    BY <2>1, LogHeard
  <2> QED BY <2>1, <2>2 DEF TalkKind, Untold
<1>4. A \in Node
  BY DEF Node
<1> QED BY <1>1, <1>2, <1>3, <1>4 DEF Next, Polling

-----------------------------------------------------------------------------
(* The inductive invariant behind KeepsTalk                                *)

\* A session is one with the peer the node is configured for.
PeerIsSet(n) == chat[n].peer \in {NoCall, peerCall[n]}

\* What a node sends as a text is none of the texts for /rx.
SaidTexts(n) ==
  \A i \in 1..Len(packets[n].out) :
    IsMsg(packets[n].out[i]) => packets[n].out[i].frame.text \in Text \ RxText

TalkInv == SplitInv /\ \A n \in Node : PeerIsSet(n) /\ SaidTexts(n)

\* A packet more.
LEMMA SaidTextsMore ==
  ASSUME TypeOK, NEW n \in Node, SaidTexts(n), NEW f \in Frame, OutMore(n, f),
         f.kind = "MSG" => f.text \in Text \ RxText
  PROVE  SaidTexts(n)'
<1> DEFINE p == PacketOf(n, f)
<1>1. p \in Packet /\ p.frame = f
  BY PacketTypes DEF PacketOf
<1>2. packets[n].out \in Seq(Packet) /\ packets'[n].out = Append(packets[n].out, p)
  BY PacketSeqs DEF OutMore
<1> HIDE DEF p
<1>3. /\ Len(packets[n].out) \in Nat /\ Len(packets'[n].out) = Len(packets[n].out) + 1
      /\ \A i \in 1..Len(packets[n].out) : packets'[n].out[i] = packets[n].out[i]
      /\ packets'[n].out[Len(packets[n].out) + 1] = p
  BY <1>2, LenProperties, AppendProperties
<1>4. \A i \in 1..Len(packets'[n].out) : i \in 1..Len(packets[n].out) \/ i = Len(packets[n].out) + 1
  BY <1>3
<1> QED BY <1>1, <1>3, <1>4 DEF SaidTexts, IsMsg

\* The parts of a chat after a frame is taken.
LEMMA AfterPeer ==
  ASSUME NEW n \in Node, NEW f
  PROVE  /\ f.kind = "CONNECT" => ChatAfter(n, f) = ConnectTo(chat[n], f.from)
         /\ f.kind = "MSG" => ChatAfter(n, f) = ReceivedText(chat[n], n, f.from, f.text)
         /\ f.kind \notin {"CONNECT", "MSG"} =>
              ChatAfter(n, f) = Disconnected(chat[n]) \/ ChatAfter(n, f) = chat[n]
BY DEF ChatAfter

\* Every step keeps it.
LEMMA TalkInvStep ==
  ASSUME TalkInv, [Next]_vars
  PROVE  TalkInv'
<1>1. SplitInv' /\ TypeOK
  BY SplitStep DEF TalkInv, SplitInv, Channels
<1>2. PICK s \in Node : TalkKind(s)
  BY <1>1, TalkKinds
<1>3. ASSUME NEW m \in Node, m # s PROVE PeerIsSet(m)' /\ SaidTexts(m)'
  <2>1. packets'[m] = packets[m] /\ chat'[m] = chat[m] /\ peerCall' = peerCall
    BY <1>2, <1>3 DEF TalkKind
  <2> QED BY <2>1 DEF TalkInv, PeerIsSet, SaidTexts
<1>4. PeerIsSet(s) /\ SaidTexts(s) /\ peerCall' = peerCall
  BY <1>2 DEF TalkInv, TalkKind
<1>5. ASSUME Untold(s) PROVE PeerIsSet(s)' /\ SaidTexts(s)'
  <2>1. PeerIsSet(s)'
    BY <1>4, <1>5 DEF Untold, PeerIsSet
  <2>2. SaidTexts(s)'
    <3>1. CASE packets'[s] = packets[s]
      BY <1>4, <3>1 DEF SaidTexts
    <3>2. CASE \E f \in Frame : f.kind # "MSG" /\ OutMore(s, f)
      BY <1>1, <1>4, <3>2, SaidTextsMore
    <3> QED BY <1>5, <3>1, <3>2 DEF Untold
  <2> QED BY <2>1, <2>2
<1>6. ASSUME Tells(s) PROVE PeerIsSet(s)' /\ SaidTexts(s)'
  <2>1. PeerIsSet(s)'
    BY <1>4, <1>6 DEF Tells, PeerIsSet
  <2>2. SaidTexts(s)'
    BY <1>1, <1>4, <1>6, SaidTextsMore DEF Tells
  <2> QED BY <2>1, <2>2
<1>7. ASSUME TakesOne(s) PROVE PeerIsSet(s)' /\ SaidTexts(s)'
  <2> DEFINE f == Head(inbox[s])
  <2>1. packets'[s].out = packets[s].out
    BY <1>1, <1>7 DEF TakesOne, TakeFrame, TypeOK
  <2>2. SaidTexts(s)'
    BY <1>4, <2>1 DEF SaidTexts
  <2>3. CASE ~FrameOk(s, f)
    BY <1>4, <1>7, <2>2, <2>3 DEF TakesOne, PeerIsSet
  <2>4. CASE FrameOk(s, f)
    <3>1. chat'[s] = ChatAfter(s, f) /\ f.from = peerCall[s]
      BY <1>7, <2>4 DEF TakesOne, FrameOk, RouteOk
    <3> HIDE DEF f
    <3>2. chat'[s].peer \in {NoCall, chat[s].peer, f.from}
      <4>1. CASE f.kind = "CONNECT"
        BY <3>1, <4>1, AfterPeer DEF ConnectTo
      <4>2. CASE f.kind = "MSG"
        <5>1. ReceivedText(chat[s], s, f.from, f.text).peer = chat[s].peer
          BY DEF ReceivedText, PushMessage
        <5> QED BY <3>1, <4>2, <5>1, AfterPeer
      <4>3. CASE f.kind \notin {"CONNECT", "MSG"}
        BY <3>1, <4>3, AfterPeer DEF Disconnected
      <4> QED BY <4>1, <4>2, <4>3
    <3> QED BY <1>4, <2>2, <3>1, <3>2 DEF PeerIsSet
  <2> QED BY <2>3, <2>4
<1> QED BY <1>1, <1>2, <1>3, <1>5, <1>6, <1>7 DEF TalkInv, TalkKind

-----------------------------------------------------------------------------
(* The steps, as TalkPromise sees them                                     *)

\* A node whose packets and chat stay says and hears nothing.
LEMMA QuietNode ==
  ASSUME NEW n \in Node, packets'[n] = packets[n], chat'[n] = chat[n], peerCall' = peerCall
  PROVE  NothingSaid(n) /\ (Listening(n)' <=> Listening(n))
BY DEF NothingSaid, Said, Heard, Msgs, Listening, Up, IsConnected, Routed

\* What is sent adds to what was said.
LEMMA SaidMore ==
  ASSUME TypeOK, NEW n \in Node, NEW f \in Frame, OutMore(n, f)
  PROVE  /\ Said(n)' = IF f.kind = "MSG" THEN Append(Said(n), f.text) ELSE Said(n)
         /\ Len(Msgs(packets[n].in))' = Len(Msgs(packets[n].in))
<1> DEFINE p == PacketOf(n, f)
<1>1. p \in Packet /\ p.frame = f
  BY PacketTypes DEF PacketOf
<1>2. packets[n].out \in Seq(Packet) /\ packets'[n].out = Append(packets[n].out, p)
      /\ packets'[n].in = packets[n].in
  BY PacketSeqs DEF OutMore
<1>3. Said(n) = TextsIn(packets[n].out) /\ Said(n)' = TextsIn(packets'[n].out)
  BY DEF Said, TextsIn
<1> HIDE DEF p
<1>4. TextsIn(packets'[n].out) = IF IsMsg(p) THEN Append(TextsIn(packets[n].out), p.frame.text)
                                 ELSE TextsIn(packets[n].out)
  BY <1>1, <1>2, TextsInMore
<1>5. Len(Msgs(packets[n].in))' = Len(Msgs(packets[n].in))
  BY <1>2
<1> QED BY <1>1, <1>3, <1>4, <1>5 DEF IsMsg

\* A node that takes a frame: a text of its peer comes up, or none.
LEMMA TakesText ==
  ASSUME TalkInv, NEW s \in Node, TakesOne(s), peerCall' = peerCall
  PROVE  NothingSaid(s) \/ ComesUp(s)
<1> DEFINE f == Head(inbox[s])
           out == packets[Peer(s)].out
           got == packets[s].in
           p == PacketOf(s, f)
<1>1. /\ TypeOK /\ Channels /\ SplitInv /\ TakeFrame(s) /\ PeerIsSet(s)
      /\ Peer(s) \in Node /\ Session(Peer(s)) /\ SaidTexts(Peer(s))
  BY PeerFacts DEF TalkInv, SplitInv, Channels, TakesOne
<1>2. /\ f \in Frame /\ Len(got) + 1 \in 1..Len(out) /\ f = out[Len(got) + 1].frame
      /\ (Routed => RouteOk(s, f))
  BY <1>1, TakenWasSent, GetsRouted
<1>3. out \in Seq(Packet) /\ got \in Seq(Packet) /\ p \in Packet /\ p.frame = f
  BY <1>1, <1>2, ChannelTypes, PacketTypes DEF PacketOf
<1>4. packets'[s].out = packets[s].out /\ packets'[s].in = Append(got, p)
  BY <1>1 DEF TakeFrame, TypeOK
<1>5. Said(s)' = Said(s)
  BY <1>4 DEF Said, Msgs
<1>6. Said(Peer(s)) = TextsIn(out)
  BY DEF Said, TextsIn
<1>7. chat'[s] = IF FrameOk(s, f) THEN ChatAfter(s, f) ELSE chat[s]
  BY DEF TakesOne
<1>8. Len(Msgs(got)) \in Nat /\ Msgs(Append(got, p)) = IF IsMsg(p) THEN Append(Msgs(got), p) ELSE Msgs(got)
  <2> HIDE DEF got, p
  <2>1. Msgs(got) \in Seq(Packet)
    BY <1>3, MsgsMore
  <2> QED BY <1>3, <2>1, MsgsMore, LenProperties
<1>9. CASE f.kind # "MSG"
  <2>1. Len(Msgs(packets[s].in))' = Len(Msgs(packets[s].in))
    BY <1>3, <1>4, <1>8, <1>9 DEF IsMsg
  <2>2. chat'[s].messages = chat[s].messages
    <3> HIDE DEF f
    <3> QED BY <1>7, <1>9, AfterPeer DEF ConnectTo, Disconnected
  <2>3. Heard(s)' = Heard(s)
    BY <1>1, <2>2, LogHeard
  <2> QED BY <1>5, <2>1, <2>3 DEF NothingSaid
<1>10. CASE f.kind = "MSG"
  <2>1. Len(Msgs(packets[s].in))' = Len(Msgs(packets[s].in)) + 1
    <3>1. Len(Append(Msgs(got), p)) = Len(Msgs(got)) + 1
      <4> HIDE DEF got, p
      <4>1. Msgs(got) \in Seq(Packet)
        BY <1>3, MsgsMore
      <4> QED BY <1>3, <4>1, AppendProperties
    <3> QED BY <1>3, <1>4, <1>8, <1>10, <3>1 DEF IsMsg
  <2>2. /\ Len(Msgs(got)) + 1 \in 1..Len(TextsIn(out))
        /\ TextsIn(out)[Len(Msgs(got)) + 1] = f.text
    <3>1. \A i \in 1..Len(got) : got[i].frame = out[i].frame
      BY <1>1 DEF Channels, Channel, Flow
    <3>2. IsMsg(out[Len(got) + 1])
      BY <1>2, <1>10 DEF IsMsg
    <3> HIDE DEF out, got, f
    <3> QED BY <1>2, <1>3, <3>1, <3>2, TextNext
  <2>3. Len(Msgs(packets[s].in)) < Len(Said(Peer(s)))
    BY <1>6, <1>8, <2>2
  <2>4. f.text \in Text \ RxText
    BY <1>1, <1>2, <1>10 DEF SaidTexts, IsMsg
  <2>5. f.from = Peer(s) /\ f.to = peerCall[Peer(s)]
    BY <1>1, <1>2 DEF Session, Addressed
  <2>6. FrameOk(s, f) <=> Listening(s)
    <3>1. ASSUME FrameOk(s, f) PROVE Listening(s)
      <4>1. IsConnected(chat[s]) /\ f.from = peerCall[s] /\ f.to = s
        BY <1>10, <3>1 DEF FrameOk, RouteOk, Accepts
      <4>2. Routed
        BY <2>5, <4>1 DEF Routed, Node, Peer
      <4> QED BY <4>1, <4>2 DEF Listening, Up
    <3>2. ASSUME Listening(s) PROVE FrameOk(s, f)
      <4>1. RouteOk(s, f) /\ IsConnected(chat[s])
        BY <1>2, <3>2 DEF Listening, Up
      <4>2. chat[s].peer = f.from
        BY <1>1, <4>1 DEF PeerIsSet, IsConnected, RouteOk
      <4> QED BY <1>10, <4>1, <4>2 DEF FrameOk, Accepts
    <3> QED BY <3>1, <3>2
  <2>7. CASE FrameOk(s, f)
    <3>1. chat'[s] = ReceivedText(chat[s], s, f.from, f.text)
      BY <1>7, <1>10, <2>7, AfterPeer
    <3>2. chat[s] \in Backend /\ s \in Call /\ f.from \in Call /\ f.text \in Text
      BY <1>1, <1>2, <2>4, PeerFacts DEF TypeOK, Frame, ControlFrame, TextFrame
    <3>3. chat'[s].peer = chat[s].peer
      BY <3>1, <3>2, PushedText
    <3>4. PICK m \in Message : m.text = f.text /\ FromPeer(m)
                               /\ chat'[s].messages = Append(chat[s].messages, m)
      BY <2>4, <3>1, <3>2, PushedText
    <3>5. Heard(s)' = Append(Heard(s), f.text)
      <4>1. HeardIn(Append(chat[s].messages, m)) = Append(HeardIn(chat[s].messages), f.text)
        BY <1>1, <3>4, ScreenTypes, HeardInMore
      <4>2. Heard(s)' = HeardIn(chat'[s].messages) /\ Heard(s) = HeardIn(chat[s].messages)
        BY DEF Heard, HeardIn, PeersIn
      <4> QED BY <3>4, <4>1, <4>2
    <3>6. Listening(s)' <=> Listening(s)
      BY <3>3 DEF Listening, Up, IsConnected, Routed
    <3> QED BY <1>5, <1>6, <2>1, <2>2, <2>3, <2>6, <2>7, <3>5, <3>6 DEF ComesUp
  <2>8. CASE ~FrameOk(s, f)
    <3>1. chat'[s] = chat[s]
      BY <1>7, <2>8
    <3>2. Heard(s)' = Heard(s) /\ (Listening(s)' <=> Listening(s))
      BY <3>1 DEF Heard, Listening, Up, IsConnected, Routed
    <3> QED BY <1>5, <2>1, <2>3, <2>6, <2>8, <3>2 DEF ComesUp
  <2> QED BY <2>7, <2>8
<1> QED BY <1>9, <1>10

\* Every step of LiveChat is a step of TalkPromise, or none.
LEMMA TalkNext ==
  ASSUME TalkInv, [Next]_vars
  PROVE  [Promise!Next]_talk
<1>1. TypeOK
  BY DEF TalkInv, SplitInv, Channels
<1>2. PICK s \in Node : TalkKind(s)
  BY <1>1, TalkKinds
<1>3. peerCall' = peerCall /\ TalkAlone(s)
  BY <1>2, QuietNode DEF TalkKind, TalkAlone
<1>4. CASE Untold(s)
  <2>1. CASE packets'[s] = packets[s]
    <3>1. Said(s)' = Said(s) /\ Len(Msgs(packets[s].in))' = Len(Msgs(packets[s].in))
      BY <2>1 DEF Said, Msgs
    <3> QED BY <1>3, <1>4, <3>1, TalkSteps DEF NothingSaid, Untold
  <2>2. CASE \E f \in Frame : f.kind # "MSG" /\ OutMore(s, f)
    <3>1. Said(s)' = Said(s) /\ Len(Msgs(packets[s].in))' = Len(Msgs(packets[s].in))
      BY <1>1, <2>2, SaidMore
    <3> QED BY <1>3, <1>4, <3>1, TalkSteps DEF NothingSaid, Untold
  <2> QED BY <1>4, <2>1, <2>2 DEF Untold
<1>5. CASE Tells(s)
  <2>1. PICK f \in Frame : f.kind = "MSG" /\ f.text \in Text \ RxText /\ OutMore(s, f)
    BY <1>5 DEF Tells
  <2>2. Said(s)' = Append(Said(s), f.text) /\ Len(Msgs(packets[s].in))' = Len(Msgs(packets[s].in))
    BY <1>1, <2>1, SaidMore
  <2>3. Listening(s)' <=> Listening(s)
    BY <1>3, <1>5 DEF Tells, Listening, Up, IsConnected, Routed
  <2>4. SaysOne(s)
    BY <1>5, <2>1, <2>2, <2>3 DEF SaysOne, Tells
  <2> QED BY <1>3, <2>4, TalkSteps
<1>6. CASE TakesOne(s)
  BY <1>3, <1>6, TakesText, TalkSteps
<1> QED BY <1>2, <1>4, <1>5, <1>6 DEF TalkKind

\* At first nothing was said, heard or connected.
LEMMA TalkInit == Init => TalkInv /\ Promise!Init
<1> SUFFICES ASSUME Init PROVE TalkInv /\ Promise!Init
  OBVIOUS
<1>1. \A n \in Node : /\ packets[n].out = <<>> /\ packets[n].in = <<>>
                      /\ chat[n].messages = <<>> /\ chat[n].peer = NoCall
  BY DEF Init, NewBackend
<1>2. Len(<<>>) = 0 /\ Msgs(<<>>) = <<>> /\ DOMAIN <<>> = {}
  BY EmptySeq, PickedEmpty DEF Msgs
<1>3. TalkInv
  BY <1>1, <1>2, SplitInit DEF TalkInv, PeerIsSet, SaidTexts
<1>4. \A n \in Node : Said(n) = <<>> /\ Heard(n) = <<>> /\ Len(Msgs(packets[n].in)) = 0
  BY <1>1, <1>2, PickedEmpty DEF Said, Heard
<1>5. \A n \in Node : ~IsConnected(chat[n])
  BY <1>1 DEF IsConnected
<1> QED BY <1>3, <1>4, <1>5 DEF Promise!Init

\* LiveChat implements TalkPromise, for any calls, texts and numbers of commands
\* and faults: what one end says comes up at the other end once and in order, and
\* is logged there exactly if that end has a session then.
THEOREM Talking == Spec => KeepsTalk
<1>1. TalkInv /\ [Next]_vars => TalkInv'
  BY TalkInvStep
<1>2. TalkInv /\ [Next]_vars =>
        [Promise!Next]_(Promise!vars)
  BY TalkNext DEF talk, Promise!vars
<1> QED BY <1>1, <1>2, TalkInit, PTL DEF Spec, KeepsTalk, Promise!Spec

-----------------------------------------------------------------------------
(* Keying the transmitter: the inductive invariant, of the record of a run *)

\* Command lines that end with the radio set to receive.
Returns(u) ==
  u.command = "ptt-rx" \/ (u.command = "live-audio" /\ u.live /\ u.keyPtt)

MayTransmit(u) ==
  u.allow /\ (u.command = "ptt-tx" \/ (u.command = "live-audio" /\ u.live))

WentWrong(r) == r.result \in {"error", "died"}

\* The run has the radio keyed, or could have.
Holds(r) ==
  \/ r.use.command = "ptt-tx" \/ WentWrong(r)
  \/ r.use.keyPtt /\ r.at \in {"keying", "opening", "playing"}
  \/ r.use.keyPtt /\ r.at = "releasing" /\ r.reply # "ok"

\* The run was told that the radio transmits, and that it receives again.
InHand(r) ==
  r.use.keyPtt /\ (r.at \in {"opening", "playing"} \/ (r.at = "keying" /\ r.reply = "ok"))

Released(r) ==
  /\ Returns(r.use)
  /\ \/ r.at \in {"setting", "releasing"} /\ r.reply = "ok"
     \/ r.at = "ended" /\ r.result = "ok"

Local(r) ==
  /\ r.at = "ended" <=> r.result # "none"
  /\ r.at \in {"opening", "playing"} => r.reply = "unasked"
  /\ r.at # "ended" => Armed(r.use) /\ ~DryRun(r.use)
  /\ r.at \in {"keying", "releasing"} => r.use.command = "live-audio" /\ r.use.keyPtt
  /\ r.at \in {"opening", "playing"} => r.use.command = "live-audio"
  /\ r.at = "setting" => r.use.command # "live-audio"
  /\ "tx" \in r.lost =>
       /\ MayTransmit(r.use)
       /\ r.use.command = "ptt-tx" \/ WentWrong(r) \/ (r.at = "keying" /\ r.reply = "error")
  /\ "rx" \in r.lost => r.use.command = "ptt-rx" \/ r.at \in {"releasing", "ended"}

Locals == run \in Seq(Run) /\ \A i \in Runs : Local(run[i])

Owed(c) == (Awaits(c.run) /\ CommandOf(c.run) = c) \/ c.ptt \in run[c.run].lost
Pendings == pending \subseteq [run: Runs, ptt: Ptt] /\ \A c \in pending : Owed(c)

Besides ==
  \A i \in Runs :
    /\ run[i].beside \subseteq 1..(i - 1)
    /\ \A j \in 1..(i - 1) : j \notin run[i].beside => Ended(j)

Holder == radio = "tx" => \E i \in Runs : MayTransmit(run[i].use) /\ Holds(run[i])

GivenUp(i, ptt) == \E j \in 1..(i - 1) : ptt \in run[j].lost

KeyedWhileInHand ==
  \A i \in Runs : Alone(i) /\ InHand(run[i]) /\ radio = "rx" => GivenUp(i, "rx")

ReceivingOnceReleased ==
  \A i \in Runs : Alone(i) /\ Released(run[i]) /\ radio = "tx" => GivenUp(i, "tx")

IInv ==
  /\ Locals /\ Pendings /\ radio \in Ptt /\ Besides
  /\ Holder /\ KeyedWhileInHand /\ ReceivingOnceReleased

-----------------------------------------------------------------------------
(* Steps that move one run                                                 *)

\* Replacing one run leaves the others.
LEMMA Replaced ==
  ASSUME NEW s \in Seq(Run), NEW i \in DOMAIN s, NEW r \in Run, NEW t,
         t = [s EXCEPT ![i] = r]
  PROVE  /\ t \in Seq(Run) /\ Len(t) = Len(s) /\ DOMAIN t = DOMAIN s
         /\ t[i] = r
         /\ \A j \in DOMAIN s : j # i => t[j] = s[j]
OBVIOUS

\* What a step that moves the run i to r, and may send s, must keep for the invariant.
Moves(i, r, s) ==
  /\ run' = [run EXCEPT ![i] = r]
  /\ r \in Run /\ Local(r)
  /\ r.use = run[i].use /\ r.beside = run[i].beside /\ run[i].lost \subseteq r.lost
  /\ Ended(i) => r.at = "ended"
  /\ Awaits(i) => PttOf(i) \in r.lost
  /\ Holds(run[i]) => Holds(r)
  /\ InHand(r) => InHand(run[i])
  /\ Released(r) => Released(run[i])
  /\ pending' = pending \cup s
  /\ radio' = radio

\* Such a step keeps the invariant.
LEMMA MovesKeep ==
  ASSUME IInv, NEW i \in Runs, NEW r, NEW s, Moves(i, r, s),
         \A c \in s : c \in [run: Runs, ptt: Ptt] /\ Owed(c)'
  PROVE  IInv'
<1> DEFINE t == run'
<1>1. run \in Seq(Run) /\ r \in Run /\ t = [run EXCEPT ![i] = r]
  BY DEF IInv, Locals, Moves
<1>2. /\ t \in Seq(Run) /\ Len(t) = Len(run) /\ Runs' = Runs /\ t[i] = r
      /\ \A j \in Runs : j # i => t[j] = run[j]
  BY <1>1, Replaced DEF Runs
<1> HIDE DEF t
<1>3. \A j \in Runs : t[j].use = run[j].use /\ t[j].beside = run[j].beside
                      /\ run[j].lost \subseteq t[j].lost /\ (Ended(j) => t[j].at = "ended")
  <2>1. ASSUME NEW j \in Runs, j # i
        PROVE  t[j].use = run[j].use /\ t[j].beside = run[j].beside
               /\ run[j].lost \subseteq t[j].lost /\ (Ended(j) => t[j].at = "ended")
    <3>1. t[j] = run[j]
      BY <1>2, <2>1
    <3> QED BY <3>1 DEF Ended
  <2>2. t[i].use = run[i].use /\ t[i].beside = run[i].beside
        /\ run[i].lost \subseteq t[i].lost /\ (Ended(i) => t[i].at = "ended")
    <3>1. t[i] = r
      BY <1>2
    <3> QED BY <3>1 DEF Moves
  <2> QED BY <2>1, <2>2
<1>4. Locals'
  BY <1>2 DEF IInv, Locals, Moves, t
<1>5. Pendings'
  <2>1. ASSUME NEW c \in pending PROVE Owed(c)'
    <3>1. c.run \in Runs /\ Owed(c)
      BY DEF IInv, Pendings
    <3>2. CASE c.ptt \in run[c.run].lost
      BY <1>3, <3>1, <3>2 DEF Owed, t
    <3>3. CASE Awaits(c.run) /\ CommandOf(c.run) = c /\ c.run = i
      <4>1. c.ptt = PttOf(i)
        BY <3>3 DEF CommandOf
      <4> QED BY <1>2, <3>3, <4>1 DEF Moves, Owed, t
    <3>4. CASE Awaits(c.run) /\ CommandOf(c.run) = c /\ c.run # i
      <4>1. t[c.run] = run[c.run]
        BY <1>2, <3>1, <3>4
      <4> QED BY <3>4, <4>1 DEF Owed, Awaits, CommandOf, PttOf, Sets, t
    <3> QED BY <3>1, <3>2, <3>3, <3>4 DEF Owed
  <2> QED BY <1>2, <2>1 DEF IInv, Pendings, Moves, t
<1>6. Besides'
  <2>1. ASSUME NEW k \in Runs, NEW j \in 1..(k - 1) PROVE j \in Runs
    BY <1>1, <2>1 DEF Runs
  <2> QED BY <1>2, <1>3, <2>1 DEF IInv, Besides, Ended, Runs, t
<1>7. Holder'
  <2>1. ASSUME NEW j \in Runs, Holds(run[j]) PROVE Holds(t[j])
    BY <1>2, <2>1 DEF Moves
  <2> QED BY <1>2, <1>3, <2>1 DEF IInv, Holder, Moves, t
<1>8. ASSUME NEW k \in Runs PROVE /\ Alone(k)' => Alone(k)
                                  /\ \A ptt \in Ptt : GivenUp(k, ptt) => GivenUp(k, ptt)'
  <2>1. Alone(k)' => Alone(k)
    BY <1>2, <1>3 DEF Alone, t
  <2>2. ASSUME NEW j \in 1..(k - 1) PROVE j \in Runs
    BY <1>1, <2>2 DEF Runs
  <2> QED BY <1>3, <2>1, <2>2 DEF GivenUp, t
<1>9. ASSUME NEW k \in Runs
      PROVE  /\ InHand(t[k]) => InHand(run[k])
             /\ Released(t[k]) => Released(run[k])
  BY <1>2 DEF Moves
<1>10. KeyedWhileInHand' /\ ReceivingOnceReleased'
  BY <1>2, <1>8, <1>9 DEF IInv, KeyedWhileInHand, ReceivingOnceReleased, Moves, Ptt, t
<1> QED BY <1>4, <1>5, <1>6, <1>7, <1>10 DEF IInv, Moves

-----------------------------------------------------------------------------
(* The steps                                                               *)

\* What the invariant says of a run.
LEMMA RunFacts ==
  ASSUME IInv, NEW i \in Runs
  PROVE  run \in Seq(Run) /\ run[i] \in Run /\ Local(run[i])
BY DEF IInv, Locals, Runs

\* A PTT command sent, given up on, or answered.
LEMMA AskKeeps ==
  ASSUME IInv, NEW i \in Runs, Ask(i) PROVE IInv'
<1> DEFINE r == [run[i] EXCEPT !.reply = "none"]
<1>1. run[i] \in Run /\ Local(run[i])
  BY RunFacts
<1>2. Moves(i, r, {CommandOf(i)})
  BY <1>1 DEF Ask, Moves, Run, Local, Holds, InHand, Released, WentWrong, Ended, Awaits, Sets
<1>3. run'[i] = r
  BY <1>2, RunFacts DEF Moves, Runs
<1>4. ASSUME NEW c \in {CommandOf(i)}
      PROVE  c \in [run: Runs, ptt: Ptt] /\ Owed(c)'
  <2>1. c = [run |-> i, ptt |-> PttOf(i)] /\ PttOf(i) \in Ptt
    BY DEF CommandOf, PttOf, Ptt
  <2>2. Awaits(i)' /\ PttOf(i)' = PttOf(i)
    BY <1>1, <1>3 DEF Ask, Awaits, Sets, PttOf, Run
  <2>3. c.run = i /\ CommandOf(i)' = c
    BY <2>1, <2>2 DEF CommandOf
  <2> QED BY <2>1, <2>2, <2>3 DEF Owed
<1> QED BY <1>2, <1>4, MovesKeep

LEMMA AskFailsKeeps ==
  ASSUME IInv, NEW i \in Runs, AskFails(i) PROVE IInv'
<1> DEFINE r == [run[i] EXCEPT !.reply = "error"]
<1>1. run[i] \in Run /\ Local(run[i])
  BY RunFacts
<1>2. Moves(i, r, {})
  BY <1>1 DEF AskFails, Moves, Run, Local, Holds, InHand, Released, WentWrong, Ended, Awaits, Sets
<1> QED BY <1>2, MovesKeep

LEMMA TimesOutKeeps ==
  ASSUME IInv, NEW i \in Runs, TimesOut(i) PROVE IInv'
<1> DEFINE r == [run[i] EXCEPT !.reply = "error", !.lost = @ \cup {PttOf(i)}]
<1>1. run[i] \in Run /\ Local(run[i])
  BY RunFacts
<1>2. PttOf(i) \in Ptt
  BY DEF PttOf, Ptt
<1>3. r \in Run
  BY <1>1, <1>2 DEF Run
<1>4. Local(r)
  BY <1>1 DEF TimesOut, Run, Use, Local, Awaits, Sets, PttOf, Armed, DryRun, MayTransmit, WentWrong
<1>5. Moves(i, r, {})
  BY <1>1, <1>3, <1>4
     DEF TimesOut, Moves, Run, Holds, InHand, Released, WentWrong, Ended, Awaits, Sets
<1> QED BY <1>5, MovesKeep

\* The end of a run that sets PTT, fails to key, plays without keying, or has released.
LEMMA EndKeeps ==
  ASSUME IInv, NEW i \in Runs, NEW result \in {"ok", "error"},
         run[i].at # "ended", ~Awaits(i), End(i, result), UNCHANGED <<pending, radio>>,
         Holds(run[i]) => run[i].use.command = "ptt-tx" \/ result = "error",
         result = "ok" /\ Returns(run[i].use) => Released(run[i]),
         result = "ok" => run[i].reply # "error" \/ run[i].at # "keying"
  PROVE  IInv'
<1> DEFINE r == Final(run[i], result)
<1>1. run[i] \in Run /\ Local(run[i])
  BY RunFacts
<1>2. /\ r \in Run /\ r.use = run[i].use /\ r.beside = run[i].beside /\ r.lost = run[i].lost
      /\ r.at = "ended" /\ r.result = result
  BY <1>1 DEF Final, Run, Phase
<1>3. Local(r)
  BY <1>1, <1>2 DEF Local, WentWrong
<1>4. Moves(i, r, {})
  BY <1>1, <1>2, <1>3 DEF End, Moves, Holds, InHand, Released, WentWrong, Ended
<1> QED BY <1>4, MovesKeep

LEMMA SetEndsKeeps ==
  ASSUME IInv, NEW i \in Runs, SetEnds(i) PROVE IInv'
<1>1. run[i] \in Run /\ Local(run[i])
  BY RunFacts
<1>2. /\ run[i].at = "setting" /\ run[i].reply \in {"ok", "error"} /\ ~Awaits(i)
      /\ run[i].result = "none" /\ run[i].use.command # "live-audio"
  BY <1>1 DEF SetEnds, Awaits, Local
<1>3. Holds(run[i]) => run[i].use.command = "ptt-tx"
  BY <1>2 DEF Holds, WentWrong
<1>4. run[i].reply = "ok" /\ Returns(run[i].use) => Released(run[i])
  BY <1>2 DEF Released
<1> QED BY <1>2, <1>3, <1>4, EndKeeps DEF SetEnds

LEMMA KeyFailsKeeps ==
  ASSUME IInv, NEW i \in Runs, KeyFails(i) PROVE IInv'
BY EndKeeps DEF KeyFails, Awaits

\* A run that keys holds the radio until it has released it.
LEMMA ReleaseKeeps ==
  ASSUME IInv, NEW i \in Runs, Release(i) PROVE IInv'
<1>1. run[i] \in Run /\ Local(run[i])
  BY RunFacts
<1>2. /\ run[i].at = "releasing" /\ run[i].reply \in {"ok", "error"} /\ ~Awaits(i)
      /\ run[i].result = "none" /\ run[i].use.command = "live-audio"
  BY <1>1 DEF Release, Awaits, Local
<1>3. ReleaseResult(i) \in {"ok", "error"} /\ (ReleaseResult(i) = "ok" => run[i].reply = "ok")
  BY <1>2 DEF ReleaseResult
<1>4. Holds(run[i]) => ReleaseResult(i) = "error"
  BY <1>2, <1>3 DEF Holds, WentWrong, ReleaseResult
<1>5. ReleaseResult(i) = "ok" /\ Returns(run[i].use) => Released(run[i])
  BY <1>2, <1>3 DEF Released
<1> HIDE DEF ReleaseResult
<1> QED BY <1>2, <1>3, <1>4, <1>5, EndKeeps DEF Release

LEMMA StreamsEndKeeps ==
  ASSUME IInv, NEW i \in Runs, NEW streams \in {"ok", "error"},
         run[i].at \in {"opening", "playing"},
         StreamsEnd(i, streams), UNCHANGED <<pending, radio>>
  PROVE  IInv'
<1>1. run[i] \in Run /\ Local(run[i])
  BY RunFacts
<1>2. /\ run[i].reply = "unasked" /\ run[i].result = "none" /\ ~Awaits(i)
      /\ run[i].use.command = "live-audio"
  BY <1>1 DEF Local, Awaits
<1>3. CASE run[i].use.keyPtt
  <2> DEFINE r == [run[i] EXCEPT !.streams = streams, !.at = "releasing"]
  <2>1. /\ r \in Run /\ r.use = run[i].use /\ r.beside = run[i].beside /\ r.lost = run[i].lost
        /\ r.at = "releasing" /\ r.reply = "unasked" /\ r.result = "none"
    BY <1>1, <1>2 DEF Run, Phase
  <2>2. run' = [run EXCEPT ![i] = r]
    BY <1>3 DEF StreamsEnd
  <2> HIDE DEF r
  <2>3. Local(r)
    BY <1>1, <1>2, <1>3, <2>1 DEF Local, WentWrong
  <2>4. Moves(i, r, {})
    BY <1>1, <1>2, <1>3, <2>1, <2>2, <2>3 DEF Moves, Holds, InHand, Released, WentWrong, Ended
  <2> QED BY <2>4, MovesKeep
<1>4. CASE ~run[i].use.keyPtt
  <2>1. ~Holds(run[i]) /\ ~Returns(run[i].use)
    BY <1>2, <1>4 DEF Holds, Returns, WentWrong
  <2>2. End(i, streams)
    BY <1>4 DEF StreamsEnd
  <2> QED BY <1>2, <2>1, <2>2, EndKeeps
<1> QED BY <1>3, <1>4

\* From the confirmed keying to the end of the playing.
LEMMA PlayingKeeps ==
  ASSUME IInv, NEW i \in Runs,
         Keyed(i) \/ OpenFails(i) \/ Play(i) \/ FillOutput(i) \/ StopPlaying(i)
  PROVE  IInv'
<1>1. run[i] \in Run /\ Local(run[i])
  BY RunFacts
<1>2. CASE OpenFails(i) \/ StopPlaying(i)
  BY <1>2, StreamsEndKeeps DEF OpenFails, StopPlaying
<1>3. ASSUME NEW r, run' = [run EXCEPT ![i] = r], UNCHANGED <<pending, radio>>,
             r \in Run, Local(r), r.use = run[i].use, r.beside = run[i].beside,
             r.lost = run[i].lost, r.result = run[i].result, r.result = "none",
             r.at \in {"opening", "playing"}, r.use.keyPtt => InHand(run[i]), ~Awaits(i)
      PROVE  IInv'
  <2>1. ~Ended(i)
    BY <1>1, <1>3 DEF Local, Ended
  <2>2. (Holds(run[i]) => Holds(r)) /\ (InHand(r) => InHand(run[i])) /\ ~Released(r)
    BY <1>3 DEF Holds, InHand, Released, WentWrong
  <2>3. Moves(i, r, {})
    BY <1>3, <2>1, <2>2 DEF Moves
  <2> QED BY <2>3, MovesKeep
<1>4. CASE Keyed(i)
  <2> DEFINE r == [run[i] EXCEPT !.at = "opening", !.reply = "unasked"]
  <2>1. /\ r \in Run /\ r.use = run[i].use /\ r.beside = run[i].beside /\ r.lost = run[i].lost
        /\ r.at = "opening" /\ r.reply = "unasked" /\ r.result = run[i].result
        /\ run' = [run EXCEPT ![i] = r]
    BY <1>1, <1>4 DEF Keyed, Run, Phase
  <2> HIDE DEF r
  <2>2. run[i].at = "keying" /\ run[i].reply = "ok" /\ r.result = "none"
    BY <1>1, <1>4, <2>1 DEF Keyed, Local
  <2>3. Local(r)
    BY <1>1, <2>1, <2>2 DEF Local, WentWrong
  <2> QED BY <1>3, <1>4, <2>1, <2>2, <2>3 DEF Keyed, InHand, Awaits
<1>5. CASE Play(i)
  <2> DEFINE r == [run[i] EXCEPT !.at = "playing"]
  <2>1. /\ r \in Run /\ r.use = run[i].use /\ r.beside = run[i].beside /\ r.lost = run[i].lost
        /\ r.at = "playing" /\ r.reply = run[i].reply /\ r.result = run[i].result
        /\ run' = [run EXCEPT ![i] = r]
    BY <1>1, <1>5 DEF Play, Run, Phase
  <2> HIDE DEF r
  <2>2. run[i].at = "opening" /\ r.result = "none"
    BY <1>1, <1>5, <2>1 DEF Play, Local
  <2>3. Local(r)
    BY <1>1, <2>1, <2>2 DEF Local, WentWrong
  <2> QED BY <1>3, <1>5, <2>1, <2>2, <2>3 DEF Play, InHand, Awaits, Sets
<1>6. CASE FillOutput(i)
  <2> DEFINE r == [run[i] EXCEPT !.cursor = @ + 1]
  <2>1. /\ r \in Run /\ r.use = run[i].use /\ r.beside = run[i].beside /\ r.lost = run[i].lost
        /\ r.at = run[i].at /\ r.reply = run[i].reply /\ r.result = run[i].result
        /\ run' = [run EXCEPT ![i] = r]
    BY <1>1, <1>6 DEF FillOutput, Run
  <2> HIDE DEF r
  <2>2. run[i].at = "playing" /\ r.result = "none"
    BY <1>1, <1>6, <2>1 DEF FillOutput, Local
  <2>3. Local(r)
    BY <1>1, <2>1 DEF Local, WentWrong
  <2> QED BY <1>3, <1>6, <2>1, <2>2, <2>3 DEF FillOutput, InHand, Awaits, Sets
<1> QED BY <1>2, <1>4, <1>5, <1>6

LEMMA DiesKeeps ==
  ASSUME IInv, NEW i \in Runs, Dies(i) PROVE IInv'
<1> DEFINE lost == IF Awaits(i) THEN {PttOf(i)} ELSE {}
           r == [Final(run[i], "died") EXCEPT !.lost = @ \cup lost]
<1>1. run[i] \in Run /\ Local(run[i]) /\ run[i].at # "ended"
  BY RunFacts DEF Dies, Ended
<1>2. run' = [run EXCEPT ![i] = r] /\ UNCHANGED <<pending, radio>>
  BY DEF Dies
<1>3. lost \subseteq Ptt /\ (Awaits(i) => PttOf(i) \in lost)
      /\ ("tx" \in lost => PttOf(i) = "tx" /\ Sets(i)) /\ ("rx" \in lost => Sets(i))
  BY DEF PttOf, Ptt, Awaits
<1> HIDE DEF lost
<1>4. /\ r \in Run /\ r.use = run[i].use /\ r.beside = run[i].beside
      /\ r.lost = run[i].lost \cup lost /\ r.at = "ended" /\ r.result = "died"
  BY <1>1, <1>3 DEF Final, Run, Phase
<1> HIDE DEF r
<1>5. "tx" \in lost => MayTransmit(r.use)
  <2>1. r.use \in Use
    BY <1>4 DEF Run
  <2> QED BY <1>1, <1>3, <1>4, <2>1
          DEF PttOf, Sets, Local, MayTransmit, Armed, DryRun, Use
<1>6. Local(r)
  BY <1>1, <1>3, <1>4, <1>5 DEF Local, WentWrong
<1>7. Moves(i, r, {})
  BY <1>1, <1>2, <1>3, <1>4, <1>6 DEF Moves, Holds, InHand, Released, WentWrong, Ended
<1> QED BY <1>7, MovesKeep

-----------------------------------------------------------------------------
(* rigctld                                                                 *)

\* A run that did not go on beside i had ended: what it sent and rigctld still has, it
\* gave up on.
LEMMA EarlierGaveUp ==
  ASSUME IInv, NEW i \in Runs, Alone(i), NEW c \in pending, c.run # i
  PROVE  GivenUp(i, c.ptt)
<1>1. run \in Seq(Run) /\ c.run \in Runs /\ Owed(c)
  BY DEF IInv, Locals, Pendings
<1>2. c.run \in 1..(i - 1) /\ c.run \notin run[i].beside
  BY <1>1 DEF Alone, Runs
<1>3. Ended(c.run)
  BY <1>2 DEF IInv, Besides
<1>4. c.ptt \in run[c.run].lost
  BY <1>1, <1>3 DEF Owed, Awaits, Sets, Ended
<1> QED BY <1>2, <1>4 DEF GivenUp

\* A command on its way that keys is of a run that may transmit and still holds the radio.
LEMMA PendingTx ==
  ASSUME IInv, NEW c \in pending, c.ptt = "tx"
  PROVE  /\ MayTransmit(run[c.run].use)
         /\ \/ run[c.run].use.command = "ptt-tx" \/ WentWrong(run[c.run])
            \/ run[c.run].at = "keying" /\ run[c.run].use.keyPtt
<1>1. c.run \in Runs /\ Owed(c)
  BY DEF IInv, Pendings
<1> DEFINE r == run[c.run]
<1>2. r \in Run /\ Local(r) /\ r.use \in Use
  BY <1>1, RunFacts DEF Run
<1>3. CASE "tx" \in r.lost
  BY <1>2, <1>3 DEF Local
<1>4. CASE Awaits(c.run) /\ CommandOf(c.run) = c
  <2>1. Sets(c.run) /\ PttOf(c.run) = "tx"
    BY <1>4 DEF Awaits, CommandOf
  <2> QED BY <1>2, <2>1 DEF Sets, PttOf, Local, MayTransmit, Armed, DryRun, Use
<1> QED BY <1>1, <1>3, <1>4 DEF Owed

\* And one that releases is of a run that is not, or no longer, keyed.
LEMMA PendingRx ==
  ASSUME IInv, NEW c \in pending, c.ptt = "rx"
  PROVE  ~InHand(run[c.run])
<1>1. c.run \in Runs /\ Owed(c)
  BY DEF IInv, Pendings
<1> DEFINE r == run[c.run]
<1>2. r \in Run /\ Local(r)
  BY <1>1, RunFacts
<1>3. CASE "rx" \in r.lost
  BY <1>2, <1>3 DEF Local, InHand
<1>4. CASE Awaits(c.run) /\ CommandOf(c.run) = c
  <2>1. Sets(c.run) /\ PttOf(c.run) = "rx"
    BY <1>4 DEF Awaits, CommandOf
  <2> QED BY <2>1 DEF Sets, PttOf, InHand
<1> QED BY <1>1, <1>3, <1>4 DEF Owed

\* An answer changes nothing of a run but what it was told.
LEMMA Answered ==
  ASSUME IInv, NEW c \in pending, NEW reply \in {"ok", "error"}, Answers(c, reply)
  PROVE  /\ run' \in Seq(Run) /\ Runs' = Runs /\ Len(run') = Len(run)
         /\ \A j \in Runs :
              /\ Local(run'[j])
              /\ run'[j] = [run[j] EXCEPT !.reply = run'[j].reply]
              /\ run'[j].reply # run[j].reply =>
                   j = c.run /\ Awaits(j) /\ CommandOf(j) = c /\ run'[j].reply = reply
              /\ Awaits(j) /\ CommandOf(j) = c => run'[j].reply = reply
<1>1. c.run \in Runs /\ run \in Seq(Run)
  BY DEF IInv, Locals, Pendings
<1>2. \A j \in Runs : run[j] \in Run /\ Local(run[j])
  BY RunFacts
<1>3. CASE Awaits(c.run) /\ CommandOf(c.run) = c
  <2> DEFINE r == [run[c.run] EXCEPT !.reply = reply]
  <2>1. r \in Run /\ run' = [run EXCEPT ![c.run] = r]
    BY <1>1, <1>2, <1>3, SMTT(30) DEF Answers, Run
  <2>2. /\ run' \in Seq(Run) /\ Len(run') = Len(run) /\ Runs' = Runs /\ run'[c.run] = r
        /\ \A j \in Runs : j # c.run => run'[j] = run[j]
    BY <1>1, <2>1, Replaced DEF Runs
  <2>3. Sets(c.run) /\ run[c.run].reply = "none" /\ r = [run[c.run] EXCEPT !.reply = r.reply]
        /\ r.reply = reply
    BY <1>1, <1>2, <1>3 DEF Awaits, Run
  <2>4. Local(r)
    BY <1>1, <1>2, <2>3 DEF Local, Sets, Run, WentWrong
  <2>5. \A j \in Runs : CommandOf(j) = c => j = c.run
    BY DEF CommandOf
  <2>6. ASSUME NEW j \in Runs, j # c.run
        PROVE  Local(run'[j]) /\ run'[j] = [run[j] EXCEPT !.reply = run'[j].reply]
    BY <1>2, <2>2, <2>6 DEF Run
  <2> QED BY <1>1, <1>3, <2>2, <2>3, <2>4, <2>5, <2>6
<1>4. CASE ~(Awaits(c.run) /\ CommandOf(c.run) = c)
  <2>1. run' = run
    BY <1>4 DEF Answers
  <2>2. \A j \in Runs : CommandOf(j) = c => j = c.run
    BY DEF CommandOf
  <2>3. \A j \in Runs : run[j] = [run[j] EXCEPT !.reply = run[j].reply]
    BY <1>2 DEF Run
  <2> QED BY <1>1, <1>2, <1>4, <2>1, <2>2, <2>3 DEF Runs
<1> QED BY <1>3, <1>4

\* An answer to a command that was carried out, or was not and is an error.
LEMMA AnswersKeep ==
  ASSUME IInv, NEW c \in pending, NEW reply \in {"ok", "error"}, Answers(c, reply),
         pending' = pending \ {c},
         radio' = c.ptt \/ (radio' = radio /\ reply = "error")
  PROVE  IInv'
<1> DEFINE t == run'
<1>1. /\ t \in Seq(Run) /\ Runs' = Runs /\ Len(t) = Len(run) /\ run \in Seq(Run)
      /\ \A j \in Runs :
           /\ Local(t[j])
           /\ t[j] = [run[j] EXCEPT !.reply = t[j].reply]
           /\ t[j].reply # run[j].reply =>
                j = c.run /\ Awaits(j) /\ CommandOf(j) = c /\ t[j].reply = reply
           /\ Awaits(j) /\ CommandOf(j) = c => t[j].reply = reply
  BY Answered, ZenonT(60) DEF IInv, Locals
<1> HIDE DEF t
<1>2. ASSUME NEW j \in Runs
      PROVE  /\ run[j] \in Run /\ Local(run[j])
             /\ t[j].use = run[j].use /\ t[j].at = run[j].at /\ t[j].result = run[j].result
             /\ t[j].beside = run[j].beside /\ t[j].lost = run[j].lost
  <2>1. run[j] \in Run /\ Local(run[j])
    BY RunFacts
  <2>2. t[j] = [run[j] EXCEPT !.reply = t[j].reply]
    BY <1>1
  <2> QED BY <2>1, <2>2 DEF Run
<1>3. c \in [run: Runs, ptt: Ptt] /\ c.run \in Runs /\ c.ptt \in Ptt /\ radio' \in Ptt
  BY DEF IInv, Pendings
<1>4. Locals'
  BY <1>1 DEF Locals, t
<1>5. Pendings'
  <2>1. ASSUME NEW d \in pending, d # c PROVE Owed(d)'
    <3>1. d.run \in Runs /\ Owed(d)
      BY DEF IInv, Pendings
    <3>2. CASE d.ptt \in run[d.run].lost
      BY <1>2, <3>1, <3>2 DEF Owed, t
    <3>3. CASE Awaits(d.run) /\ CommandOf(d.run) = d
      <4>1. t[d.run].reply = run[d.run].reply
        BY <1>1, <2>1, <3>1, <3>3
      <4>2. t[d.run].at = run[d.run].at /\ t[d.run].use = run[d.run].use
        BY <1>2, <3>1
      <4> QED BY <3>3, <4>1, <4>2 DEF Owed, Awaits, CommandOf, PttOf, Sets, t
    <3> QED BY <3>1, <3>2, <3>3 DEF Owed
  <2> QED BY <1>1, <2>1 DEF IInv, Pendings
<1>6. Besides'
  <2>1. ASSUME NEW k \in Runs, NEW j \in 1..(k - 1) PROVE j \in Runs
    BY <1>1, <2>1 DEF Runs
  <2> QED BY <1>1, <1>2, <2>1 DEF IInv, Besides, Ended, t
<1>7. Holder'
  <2>1. CASE radio' = c.ptt
    <3> SUFFICES ASSUME c.ptt = "tx"
                 PROVE  MayTransmit(t[c.run].use) /\ Holds(t[c.run])
      BY <1>1, <1>3, <2>1 DEF Holder, t
    <3> QED BY <1>2, <1>3, PendingTx DEF Holds, WentWrong
  <2>2. CASE radio' = radio /\ reply = "error"
    <3>1. ASSUME NEW j \in Runs, Holds(run[j]) PROVE Holds(t[j])
      BY <1>1, <1>2, <2>2, <3>1 DEF Holds, WentWrong
    <3> QED BY <1>1, <1>2, <2>2, <3>1 DEF IInv, Holder, t
  <2> QED BY <2>1, <2>2
<1>8. ASSUME NEW i \in Runs, Alone(i)'
      PROVE  Alone(i) /\ \A ptt \in Ptt : GivenUp(i, ptt) => GivenUp(i, ptt)'
  <2>1. Alone(i)
    BY <1>1, <1>2, <1>8 DEF Alone, t
  <2>2. ASSUME NEW j \in 1..(i - 1) PROVE j \in Runs
    BY <1>1, <2>2 DEF Runs
  <2> QED BY <1>2, <2>1, <2>2 DEF GivenUp, t
<1>9. KeyedWhileInHand'
  <2> SUFFICES ASSUME NEW i \in Runs, Alone(i)', InHand(t[i]), radio' = "rx"
               PROVE  GivenUp(i, "rx")'
    BY <1>1 DEF KeyedWhileInHand, t
  <2>1. CASE radio' = c.ptt /\ c.run = i
    <3>1. ~InHand(run[i])
      BY <2>1, PendingRx
    <3>2. t[i].reply # run[i].reply
      BY <1>2, <3>1 DEF InHand
    <3>3. CommandOf(i) = c /\ Awaits(i)
      BY <1>1, <3>2
    <3>4. PttOf(i) = "rx" /\ Sets(i)
      BY <2>1, <3>3 DEF CommandOf, Awaits
    <3> QED BY <1>2, <3>4 DEF PttOf, Sets, InHand
  <2>2. CASE radio' = c.ptt /\ c.run # i
    BY <1>8, <2>2, EarlierGaveUp DEF Ptt
  <2>3. CASE radio' = radio /\ reply = "error"
    <3>1. InHand(run[i])
      BY <1>1, <1>2, <2>3 DEF InHand
    <3> QED BY <1>8, <2>3, <3>1 DEF IInv, KeyedWhileInHand, Ptt
  <2> QED BY <2>1, <2>2, <2>3
<1>10. ReceivingOnceReleased'
  <2> SUFFICES ASSUME NEW i \in Runs, Alone(i)', Released(t[i]), radio' = "tx"
               PROVE  GivenUp(i, "tx")'
    BY <1>1 DEF ReceivingOnceReleased, t
  <2>1. CASE radio' = c.ptt /\ c.run = i
    <3>1. \/ run[i].use.command = "ptt-tx" \/ WentWrong(run[i])
          \/ run[i].at = "keying"
      BY <2>1, PendingTx
    <3> QED BY <1>2, <3>1 DEF Released, Returns, WentWrong, Local
  <2>2. CASE radio' = c.ptt /\ c.run # i
    BY <1>8, <2>2, EarlierGaveUp DEF Ptt
  <2>3. CASE radio' = radio /\ reply = "error"
    <3>1. Released(run[i])
      BY <1>1, <1>2, <2>3 DEF Released
    <3> QED BY <1>8, <2>3, <3>1 DEF IInv, ReceivingOnceReleased, Ptt
  <2> QED BY <2>1, <2>2, <2>3
<1> QED BY <1>3, <1>4, <1>5, <1>6, <1>7, <1>9, <1>10 DEF IInv

LEMMA RigKeeps ==
  ASSUME IInv, Rig PROVE IInv'
<1>1. PICK c \in pending : RigSets(c) \/ RigRefuses(c)
  BY DEF Rig
<1> QED BY <1>1, AnswersKeep DEF RigSets, RigRefuses

-----------------------------------------------------------------------------
(* A new run                                                               *)

LEMMA InvokeKeeps ==
  ASSUME IInv, NEW u \in Uses, Invoke(u), RigAssumption
  PROVE  IInv'
<1> DEFINE t == run'
           n == Len(run) + 1
           r == Started(u)
<1>1. run \in Seq(Run) /\ Runs = 1..Len(run) /\ Len(run) \in Nat
  BY DEF IInv, Locals, Runs
<1>2. u \in Use
  BY DEF RigAssumption
<1>3. /\ r.use = u /\ r.lost = {} /\ r.reply = "unasked" /\ r.cursor = 0
      /\ r.beside = {i \in Runs : ~Ended(i)} /\ r.streams = "ok"
      /\ r \in Run
  BY <1>1, <1>2 DEF Started, Run, Phase, FirstPhase
<1>4. IF ~DryRun(u) /\ Armed(u)
      THEN r.at = FirstPhase(u) /\ r.result = "none"
      ELSE r.at = "ended" /\ r.result = IF DryRun(u) THEN "ok" ELSE "error"
  BY DEF Started
<1>5. t = Append(run, r) /\ pending' = pending /\ radio' = radio
  BY DEF Invoke
<1> HIDE DEF r
<1>6. ~InHand(r) /\ ~Released(r)
  <2>1. CASE ~DryRun(u) /\ Armed(u)
    BY <1>2, <1>3, <1>4, <2>1 DEF InHand, Released, FirstPhase
  <2>2. CASE ~(~DryRun(u) /\ Armed(u))
    BY <1>2, <1>3, <1>4, <2>2 DEF InHand, Released, Returns, DryRun, Use
  <2> QED BY <2>1, <2>2
<1>7. Local(r)
  <2>1. CASE ~DryRun(u) /\ Armed(u)
    <3>1. \/ r.at = "setting" /\ u.command # "live-audio"
          \/ r.at = "keying" /\ u.command = "live-audio" /\ u.keyPtt
          \/ r.at = "opening" /\ u.command = "live-audio"
      BY <1>4, <2>1 DEF FirstPhase
    <3> QED BY <1>3, <1>4, <2>1, <3>1 DEF Local
  <2>2. CASE ~(~DryRun(u) /\ Armed(u))
    BY <1>2, <1>3, <1>4, <2>2 DEF Local
  <2> QED BY <2>1, <2>2
<1>8. /\ t \in Seq(Run) /\ Len(t) = n /\ Runs' = 1..n /\ t[n] = r
      /\ \A j \in Runs : t[j] = run[j]
  BY <1>1, <1>3, <1>5 DEF Runs
<1> HIDE DEF t
<1>9. Locals'
  <2>1. \A j \in 1..n : Local(t[j])
    BY <1>1, <1>7, <1>8 DEF IInv, Locals
  <2> QED BY <1>8, <2>1 DEF Locals, t
<1>10. Pendings'
  <2>1. ASSUME NEW c \in pending PROVE Owed(c)' /\ c \in [run: Runs', ptt: Ptt]
    <3>1. c \in [run: Runs, ptt: Ptt] /\ Owed(c)
      BY DEF IInv, Pendings
    <3>2. t[c.run] = run[c.run] /\ c.run \in Runs'
      BY <1>1, <1>8, <3>1
    <3> QED BY <3>1, <3>2 DEF Owed, Awaits, CommandOf, PttOf, Sets, t
  <2> QED BY <1>5, <2>1 DEF Pendings
<1>11. Besides'
  <2>1. ASSUME NEW i \in Runs
        PROVE  /\ t[i].beside \subseteq 1..(i - 1)
               /\ \A j \in 1..(i - 1) : j \notin t[i].beside => t[j].at = "ended"
    <3>1. \A j \in 1..(i - 1) : j \in Runs
      BY <1>1
    <3> QED BY <1>8, <3>1 DEF IInv, Besides, Ended
  <2>2. /\ t[n].beside \subseteq 1..(n - 1)
        /\ \A j \in 1..(n - 1) : j \notin t[n].beside => t[j].at = "ended"
    <3>1. 1..(n - 1) = Runs
      BY <1>1
    <3> QED BY <1>3, <1>8, <3>1 DEF Ended
  <2>3. \A i \in 1..n : i \in Runs \/ i = n
    BY <1>1
  <2> QED BY <1>8, <2>1, <2>2, <2>3 DEF Besides, Ended, t
<1>12. Holder'
  <2>1. \A i \in Runs : i \in Runs' /\ t[i] = run[i]
    BY <1>1, <1>8
  <2> QED BY <1>5, <2>1 DEF IInv, Holder, t
<1>13. ASSUME NEW i \in Runs', Alone(i)' PROVE ~InHand(t[i]) /\ ~Released(t[i])
  <2>1. i = n
    BY <1>8, <1>13 DEF Alone, t
  <2> QED BY <1>6, <1>8, <2>1
<1>14. KeyedWhileInHand' /\ ReceivingOnceReleased'
  BY <1>13 DEF KeyedWhileInHand, ReceivingOnceReleased, t
<1> QED BY <1>5, <1>9, <1>10, <1>11, <1>12, <1>14 DEF IInv

-----------------------------------------------------------------------------
(* The specification                                                       *)

LEMMA InitHolds == RigInit => IInv
BY DEF RigInit, IInv, Locals, Pendings, Besides, Holder, KeyedWhileInHand, ReceivingOnceReleased,
       Runs, Ptt

LEMMA StepKeeps ==
  ASSUME RigAssumption, IInv, [RigNext]_rigVars PROVE IInv'
<1>1. CASE \E u \in Uses : Invoke(u)
  BY <1>1, InvokeKeeps
<1>2. ASSUME NEW i \in Runs, Step(i) PROVE IInv'
  BY <1>2, AskKeeps, AskFailsKeeps, TimesOutKeeps, SetEndsKeeps, KeyFailsKeeps, PlayingKeeps,
     ReleaseKeeps DEF Step
<1>3. CASE \E i \in Runs : FillOutput(i) \/ Dies(i)
  BY <1>3, PlayingKeeps, DiesKeeps
<1>4. CASE Rig
  BY <1>4, RigKeeps
<1>5. CASE UNCHANGED rigVars
  BY <1>5 DEF rigVars, IInv, Locals, Pendings, Owed, Awaits, CommandOf, PttOf, Sets, Besides, Ended,
              Holder, KeyedWhileInHand, ReceivingOnceReleased, Alone, GivenUp, Runs
<1> QED BY <1>1, <1>2, <1>3, <1>4, <1>5 DEF RigNext

LEMMA AlwaysIInv == RigSpec => []IInv
<1>1. IInv /\ [RigNext]_rigVars => IInv'
  BY StepKeeps, RigAssumption
<1> QED BY InitHolds, <1>1, PTL DEF RigSpec

\* Whatever the runs, their types hold, a run has a result just when it has ended, and a
\* PTT command on its way is awaited or was given up on.
THEOREM RigTypeCorrect == RigSpec => []RigTypeOK
<1>1. IInv => RigTypeOK
  <2> SUFFICES ASSUME IInv PROVE RigTypeOK
    OBVIOUS
  <2>1. ASSUME NEW i \in Runs
        PROVE  /\ Ended(i) <=> run[i].result # "none"
               /\ run[i].at \in {"opening", "playing"} => run[i].reply = "unasked"
               /\ run[i].beside \subseteq 1..(i - 1)
    BY RunFacts DEF Local, Ended, IInv, Besides
  <2> QED BY <2>1 DEF RigTypeOK, IInv, Locals, Pendings, Owed
<1> QED BY AlwaysIInv, <1>1, PTL

\* The transmitter is never left on behind runs that all reported success: however many
\* runs overlap, whatever they were given and however late rigctld is, when all have
\* ended and the radio transmits there was a ptt-tx, or a live-audio run that failed.
THEOREM NobodyKeyed == RigSpec => []NobodyKeyedSilently
<1>1. IInv => NobodyKeyedSilently
  <2> SUFFICES ASSUME IInv, \A i \in Runs : Ended(i), radio = "tx"
               PROVE  \E i \in Runs : Transmits(i) /\ (run[i].use.command = "ptt-tx"
                                                         \/ run[i].result # "ok")
    BY DEF NobodyKeyedSilently
  <2>1. PICK i \in Runs : MayTransmit(run[i].use) /\ Holds(run[i])
    BY DEF IInv, Holder
  <2>2. run[i].at = "ended"
    BY DEF Ended
  <2> QED BY <2>1, <2>2 DEF MayTransmit, Transmits, Holds, WentWrong
<1> QED BY AlwaysIInv, <1>1, PTL

\* A run that keys and has the radio for itself plays into a keyed transmitter, unless
\* an earlier one gave up on a release that was carried out late.
THEOREM KeyedWhilePlaying == RigSpec => []PlaysKeyed
<1>1. IInv => PlaysKeyed
  BY DEF IInv, KeyedWhileInHand, PlaysKeyed, InHand, GivenUp
<1> QED BY AlwaysIInv, <1>1, PTL

\* After a run that reported the release and had the radio for itself the radio
\* receives, unless an earlier one gave up on a keying that was carried out late.
THEOREM ReleasedWhenOk == RigSpec => []OkReleases
<1>1. IInv => OkReleases
  BY DEF IInv, ReceivingOnceReleased, OkReleases, Released, Returns, DryRun, Ended, GivenUp
<1> QED BY AlwaysIInv, <1>1, PTL
=============================================================================
