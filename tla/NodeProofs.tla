------------------------------ MODULE NodeProofs ------------------------------
(***************************************************************************)
(* What the reports of two scripted processes are worth, for all scripts:  *)
(* what one recorded as received the other recorded as sent, a saved file  *)
(* came whole, and two scripts that report ok tell one story.              *)
(*                                                                         *)
(* All of it rests on the frames.  What a process records when it sends    *)
(* stands in the frames it has yet to write, that are on the wire or that  *)
(* the other one took; the frames of a file stay in order until they are   *)
(* taken, whatever failed before; and while nothing failed each record is  *)
(* a function of the frames alone.                                         *)
(*                                                                         *)
(* Two scripts that are the two sides of one conversation need no reports: *)
(* what a process has said and heard is a beginning of what all its lines  *)
(* say and hear, and the one says what the other hears, so each frame that *)
(* arrives is the one its line waits for.                                  *)
(***************************************************************************)
EXTENDS SessionLogs, SubsequenceProofs, TLAPS

-----------------------------------------------------------------------------
(* The frames                                                              *)

FrameIn == [x \in Packet |-> x.frame]
Frames(reports) == Mapped(reports, FrameIn)

\* The frames a process reported as read and as written.
In(n) == Frames(packets[n].in)
Out(n) == Frames(packets[n].out)

\* The frames a process may write.
Written(n) == {f \in Frame : /\ f.from = n /\ f.to = peerCall[n]
                             /\ f.part = 0 <=> f.kind # "CHUNK"
                             /\ f.text = NoText <=> f.kind \in Plain}

Sends(n) == phase[n] \in {"writing", "blocked", "lost"}

NodeOK(n) ==
  /\ results[n] \in Seq(BOOLEAN)
  /\ phase[n] \in {"next", "writing", "blocked", "lost", "chunks", "ended"}
  /\ chat[n] \in Backend /\ app[n] \in AppModel
  /\ packets[n] \in [out: Seq(Packet), in: Seq(Packet)]
  /\ In(n) \in Seq(Written(Peer(n))) /\ Out(n) \in Seq(Written(n))
  /\ wire[n] \in Seq(Written(n)) /\ queue[n] \in Seq(Written(n))
  /\ transfer[n] \in Seq(Written(Peer(n)))
  /\ saved[n] \in Seq(Text)

\* What a process has at hand fits what it is at.
AtHand(n) ==
  /\ Len(results[n]) <= Len(script[n])
  /\ Sends(n) <=> queue[n] # <<>>
  /\ Sends(n) => HasLine(n) /\ Line(n).send
  /\ phase[n] # "chunks" => transfer[n] = <<>>
  /\ phase[n] = "chunks" => HasLine(n) /\ ~Line(n).send /\ Line(n).kind = "FILE"
  /\ Ended(n) => ~HasLine(n)
  /\ phase[n] = "lost" => Ended(Peer(n))

Domains ==
  /\ DOMAIN results = Node /\ DOMAIN phase = Node /\ DOMAIN chat = Node /\ DOMAIN app = Node
  /\ DOMAIN packets = Node /\ DOMAIN wire = Node /\ DOMAIN queue = Node
  /\ DOMAIN transfer = Node /\ DOMAIN saved = Node

TypeInv ==
  /\ setup \in Setup /\ Domains
  /\ \A n \in Node : NodeOK(n) /\ AtHand(n)

\* A process and the other one.
LEMMA Peers ==
  ASSUME NEW n \in Node
  PROVE  /\ Peer(n) \in Node /\ Peer(n) # n /\ Peer(Peer(n)) = n
         /\ n \in Call /\ Peer(n) \in Call
         /\ \A m \in Node : m = n \/ m = Peer(n)
BY ScriptAssumption DEF Node, Peer

\* One report more is one frame more.
LEMMA FramesMore ==
  ASSUME NEW reports \in Seq(Packet), NEW x \in Packet
  PROVE  Frames(Append(reports, x)) = Append(Frames(reports), x.frame)
<1>1. FrameIn[x] = x.frame
  BY DEF FrameIn
<1>2. Mapped(Append(reports, x), FrameIn) = Append(Mapped(reports, FrameIn), FrameIn[x])
  BY MappedMore, ZenonT(60)
<1> QED BY <1>1, <1>2 DEF Frames

\* The first of some frames.
LEMMA FirstOfMany ==
  ASSUME NEW S, NEW s \in Seq(S), s # <<>>
  PROVE  /\ Head(s) \in S /\ Tail(s) \in Seq(S) /\ s = <<Head(s)>> \o Tail(s)
         /\ Len(Tail(s)) = Len(s) - 1 /\ Len(s) \in Nat \ {0} /\ s[1] = Head(s)
         /\ \A i \in 1..(Len(s) - 1) : Tail(s)[i] = s[i + 1]
<1>1. Head(s) \in S /\ Tail(s) \in Seq(S)
  OBVIOUS
<1>2. /\ Len(Tail(s)) = Len(s) - 1 /\ Len(s) \in Nat \ {0} /\ s[1] = Head(s)
      /\ \A i \in 1..(Len(s) - 1) : Tail(s)[i] = s[i + 1]
  BY HeadTailProperties, LenProperties
<1> DEFINE one == <<Head(s)>>
           t == one \o Tail(s)
<1>3. one \in Seq(S) /\ Len(one) = 1 /\ one[1] = Head(s)
  BY <1>1
<1> HIDE DEF one
<1>4. /\ t \in Seq(S) /\ Len(t) = Len(s)
      /\ \A i \in 1..Len(s) : t[i] = IF i <= 1 THEN one[i] ELSE Tail(s)[i - 1]
  <2>1. /\ t \in Seq(S) /\ Len(t) = Len(one) + Len(Tail(s))
        /\ \A i \in 1..(Len(one) + Len(Tail(s))) :
             t[i] = IF i <= Len(one) THEN one[i] ELSE Tail(s)[i - Len(one)]
    BY <1>1, <1>3, ConcatProperties, Zenon
  <2>2. Len(one) + Len(Tail(s)) = Len(s)
    BY <1>2, <1>3
  <2> QED BY <1>3, <2>1, <2>2
<1> HIDE DEF t
<1>5. ASSUME NEW i \in 1..Len(s) PROVE t[i] = s[i]
  <2>1. CASE i = 1
    BY <1>2, <1>3, <1>4, <2>1
  <2>2. CASE i # 1
    <3>1. i - 1 \in 1..(Len(s) - 1) /\ (i - 1) + 1 = i /\ ~(i <= 1)
      BY <1>2, <2>2
    <3> QED BY <1>2, <1>4, <3>1
  <2> QED BY <2>1, <2>2
<1>6. t = s
  BY <1>4, <1>5, SeqEqual
<1> QED BY <1>1, <1>2, <1>6 DEF t, one

\* The line under way is a command.
LEMMA LineFacts ==
  ASSUME TypeInv, NEW n \in Node, HasLine(n)
  PROVE  /\ Line(n) \in Command /\ peerCall[n] \in Call /\ script[n] \in Seq(Command)
         /\ Len(results[n]) \in Nat /\ Len(script[n]) \in Nat
         /\ Line(n).kind \in Kind /\ Line(n).send \in BOOLEAN
         /\ Line(n).kind \notin Plain => Line(n).text \in Text
         /\ Line(n).text \in Text \cup {NoText}
         /\ Line(n).text = NoText <=> Line(n).kind \in Plain
<1>1. script[n] \in Seq(Command) /\ peerCall[n] \in Call
  BY DEF TypeInv, Setup, script, peerCall
<1>2. results[n] \in Seq(BOOLEAN)
  BY DEF TypeInv, NodeOK
<1>3. Len(results[n]) \in Nat /\ Len(script[n]) \in Nat
  BY <1>1, <1>2, LenProperties
<1>4. Line(n) \in Command
  BY <1>1, <1>3, ElementOfSeq DEF HasLine, Line
<1> QED BY <1>1, <1>3, <1>4, ScriptAssumption DEF Command

\* The frames of a command.
LEMMA FramesOfFacts ==
  ASSUME TypeInv, NEW n \in Node, HasLine(n)
  PROVE  FramesOf(n, Line(n)) \in Seq(Written(n)) /\ FramesOf(n, Line(n)) # <<>>
<1>1. PICK c : c = Line(n)
  OBVIOUS
<1>2. /\ c \in Command /\ c.kind \in Kind /\ c.text \in Text \cup {NoText}
      /\ c.text = NoText <=> c.kind \in Plain
      /\ peerCall[n] \in Call /\ n \in Call
  BY <1>1, LineFacts, Peers, Zenon
<1>3. CASE c.kind = "FILE"
  <2>1. PICK L : L = Chunks[c.text] /\ L \in Nat \ {0}
    BY <1>2, <1>3, ScriptAssumption DEF Plain
  <2>2. FrameOf(n, "OFFER", c.text, 0) \in Written(n)
    BY <1>2, <1>3 DEF FrameOf, Written, Frame, Kind, AppKind, Plain
  <2>3. \A i \in 1..L : FrameOf(n, "CHUNK", c.text, i) \in Written(n)
    BY <1>2, <1>3, <2>1 DEF FrameOf, Written, Frame, Kind, AppKind, Plain
  <2>4. [i \in 1..L |-> FrameOf(n, "CHUNK", c.text, i)] \in Seq(Written(n))
    BY <2>1, <2>3
  <2>5. PICK w, a, b : /\ w = Written(n) /\ a = FrameOf(n, "OFFER", c.text, 0)
                       /\ b = [i \in 1..L |-> FrameOf(n, "CHUNK", c.text, i)]
    BY Zenon
  <2>6. <<a>> \o b \in Seq(w) /\ <<a>> \o b # <<>>
    <3>1. <<a>> \in Seq(w) /\ Len(<<a>>) = 1 /\ b \in Seq(w) /\ Len(b) \in Nat
      <4>1. a \in w /\ b \in Seq(w)
        BY <2>2, <2>4, <2>5
      <4> QED BY <4>1, LenProperties
    <3>2. <<a>> \o b \in Seq(w) /\ Len(<<a>> \o b) = 1 + Len(b)
      BY <3>1, ConcatProperties
    <3> QED BY <3>1, <3>2
  <2> QED BY <1>1, <1>3, <2>1, <2>5, <2>6 DEF FramesOf
<1>4. CASE c.kind # "FILE"
  <2>1. FrameOf(n, c.kind, c.text, 0) \in Written(n)
    BY <1>2, <1>4 DEF FrameOf, Written, Frame, Kind, AppKind, Plain
  <2> QED BY <1>1, <1>4, <2>1 DEF FramesOf
<1> QED BY <1>3, <1>4

-----------------------------------------------------------------------------
(* What each kind of step does                                             *)

\* Nothing of process n changed.
Same(n) ==
  /\ results'[n] = results[n] /\ phase'[n] = phase[n] /\ chat'[n] = chat[n]
  /\ app'[n] = app[n] /\ packets'[n] = packets[n] /\ wire'[n] = wire[n]
  /\ queue'[n] = queue[n] /\ transfer'[n] = transfer[n] /\ saved'[n] = saved[n]

\* A command that sends begins.
LEMMA BeginFacts ==
  ASSUME TypeInv, NEW n \in Node, SendBegin(n)
  PROVE  /\ setup' = setup /\ Domains' /\ Same(Peer(n))
         /\ phase[n] = "next" /\ HasLine(n) /\ Line(n).send /\ queue[n] = <<>>
         /\ phase'[n] = "writing" /\ queue'[n] = FramesOf(n, Line(n))
         /\ Allowed(n, Line(n))
         /\ chat'[n] = ChatSent(n, Line(n)) /\ app'[n] = AppSent(n, Line(n))
         /\ results'[n] = results[n] /\ packets'[n] = packets[n] /\ wire'[n] = wire[n]
         /\ transfer'[n] = transfer[n] /\ saved'[n] = saved[n]
BY Peers DEF SendBegin, Starts, TypeInv, AtHand, Sends, Domains, Same

\* A line is done with, and has failed, without a frame: a command was refused or the
\* stream has come to its end.
Fails(n) == SendRefused(n) \/ RequestRefused(n) \/ HungUp(n)

\* A line that fails leaves a false result and moves no frame.
LEMMA FailsFacts ==
  ASSUME TypeInv, NEW n \in Node, Fails(n)
  PROVE  /\ setup' = setup /\ Domains' /\ Same(Peer(n))
         /\ phase[n] \in {"next", "chunks"} /\ HasLine(n) /\ queue[n] = <<>>
         /\ phase'[n] = "next" /\ queue'[n] = queue[n] /\ transfer'[n] = <<>>
         /\ results'[n] = Append(results[n], FALSE)
         /\ chat'[n] = chat[n] /\ packets'[n] = packets[n] /\ wire'[n] = wire[n]
         /\ saved'[n] = saved[n]
         /\ app'[n] = app[n] \/ app'[n] = RecordRefused(app[n])
<1>1. CASE SendRefused(n)
  BY <1>1, Peers, Zenon DEF SendRefused, Starts, Ok, TypeInv, AtHand, Sends, Domains, Same
<1>2. CASE RequestRefused(n)
  <2>1. PICK a \in {app[n], RecordRefused(app[n])} : app' = [app EXCEPT ![n] = a]
    BY <1>2, Zenon DEF RequestRefused
  <2>2. /\ app'[n] = app[n] \/ app'[n] = RecordRefused(app[n])
        /\ app'[Peer(n)] = app[Peer(n)] /\ DOMAIN app' = Node
    BY <2>1, Peers DEF TypeInv, Domains
  <2> QED
    BY <1>2, <2>2, Peers, Zenon
      DEF RequestRefused, Starts, Ok, TypeInv, AtHand, Sends, Domains, Same
<1>3. CASE HungUp(n)
  BY <1>3, Peers, Zenon DEF HungUp, Expects, Starts, Ok, TypeInv, AtHand, Sends, Domains, Same
<1> QED BY <1>1, <1>2, <1>3, Zenon DEF Fails

\* A frame goes on the wire, or the process finds that there is nobody to read it; the
\* end of the other's stream may then be cut.
LEMMA FrameFacts ==
  ASSUME TypeInv, NEW n \in Node, FrameBegin(n)
  PROVE  /\ setup' = setup /\ Domains'
         /\ phase[n] = "writing" /\ queue[n] # <<>>
         /\ results' = results /\ chat' = chat /\ app' = app /\ packets' = packets
         /\ queue' = queue /\ transfer' = transfer /\ saved' = saved
         /\ phase'[Peer(n)] = phase[Peer(n)]
         /\ \/ /\ ~Ended(Peer(n)) /\ phase'[n] = "blocked"
               /\ wire'[n] = Append(wire[n], Head(queue[n])) /\ wire'[Peer(n)] = wire[Peer(n)]
            \/ /\ Ended(Peer(n)) /\ phase'[n] = "lost"
               /\ wire'[n] = wire[n]
               /\ \E k \in 0..Len(wire[Peer(n)]) :
                    wire'[Peer(n)] = SubSeq(wire[Peer(n)], 1, k)
<1>1. CASE Ended(Peer(n))
  BY <1>1, Peers DEF FrameBegin, Reset, TypeInv, AtHand, Sends, Domains
<1>2. CASE ~Ended(Peer(n))
  BY <1>2, Peers DEF FrameBegin, TypeInv, AtHand, Sends, Domains
<1> QED BY <1>1, <1>2

\* A report more.
MoreOut(n, x) == [packets EXCEPT ![n].out = Append(@, x)]
MoreIn(n, x) == [packets EXCEPT ![n].in = Append(@, x)]

\* One more packet in a report is one more frame read or written.
LEMMA ReportMore ==
  ASSUME TypeInv, NEW n \in Node, NEW f \in Frame, NEW x, x = PacketOf(n, f)
  PROVE  /\ packets' = MoreOut(n, x) =>
              /\ packets'[n].out = Append(packets[n].out, x) /\ packets'[n].in = packets[n].in
              /\ packets'[n] \in [out: Seq(Packet), in: Seq(Packet)]
              /\ Out(n)' = Append(Out(n), f) /\ In(n)' = In(n)
         /\ packets' = MoreIn(n, x) =>
              /\ packets'[n].in = Append(packets[n].in, x) /\ packets'[n].out = packets[n].out
              /\ packets'[n] \in [out: Seq(Packet), in: Seq(Packet)]
              /\ In(n)' = Append(In(n), f) /\ Out(n)' = Out(n)
         /\ x \in Packet /\ x.frame = f
<1>1. PICK a, b \in Seq(Packet) : packets[n] = [out |-> a, in |-> b]
  BY DEF TypeInv, NodeOK
<1>2. packets[n].out = a /\ packets[n].in = b /\ n \in DOMAIN packets
  BY <1>1 DEF TypeInv, Domains
<1>3. PICK k \in Nat : k = Len(packets[n].out) + Len(packets[n].in) + 1
  <2>1. \A i, j \in Nat : i + j + 1 \in Nat
    OBVIOUS
  <2> QED BY <1>2, <2>1, LenProperties
<1>4. x = [sequence |-> k, frame |-> f]
  BY <1>3 DEF PacketOf
<1>5. x \in Packet /\ x.frame = f
  BY <1>4 DEF Packet
<1>6. PICK c, d \in Seq(Packet) : c = Append(a, x) /\ d = Append(b, x)
  BY <1>5, AppendProperties, Zenon
<1>7. /\ [[out |-> a, in |-> b] EXCEPT !.out = c] = [out |-> c, in |-> b]
      /\ [[out |-> a, in |-> b] EXCEPT !.in = d] = [out |-> a, in |-> d]
  OBVIOUS
<1>8. ASSUME packets' = MoreOut(n, x)
      PROVE  packets'[n] = [out |-> c, in |-> b]
  <2>1. packets'[n] = [packets[n] EXCEPT !.out = c]
    BY <1>2, <1>6, <1>8 DEF MoreOut
  <2> QED BY <1>1, <1>7, <2>1, Zenon
<1>9. ASSUME packets' = MoreIn(n, x)
      PROVE  packets'[n] = [out |-> a, in |-> d]
  <2>1. packets'[n] = [packets[n] EXCEPT !.in = d]
    BY <1>2, <1>6, <1>9 DEF MoreIn
  <2> QED BY <1>1, <1>7, <2>1, Zenon
<1>10. /\ Frames(Append(a, x)) = Append(Frames(a), f)
       /\ Frames(Append(b, x)) = Append(Frames(b), f)
  BY <1>5, FramesMore
<1>11. \A o, i \in Seq(Packet) :
         packets'[n] = [out |-> o, in |-> i] =>
           /\ packets'[n].out = o /\ packets'[n].in = i
           /\ packets'[n] \in [out: Seq(Packet), in: Seq(Packet)]
           /\ Out(n)' = Frames(o) /\ In(n)' = Frames(i)
  BY DEF In, Out
<1>12. Out(n) = Frames(a) /\ In(n) = Frames(b)
  BY <1>2 DEF In, Out
<1> QED BY <1>2, <1>5, <1>6, <1>8, <1>9, <1>10, <1>11, <1>12, Zenon

\* The write of a frame returns; with the last one the command is done.
LEMMA WrittenFacts ==
  ASSUME TypeInv, NEW n \in Node, FrameEnd(n) \/ SendEnd(n)
  PROVE  /\ setup' = setup /\ Domains' /\ Same(Peer(n))
         /\ phase[n] \in {"blocked", "lost"} /\ queue[n] # <<>>
         /\ Out(n)' = Append(Out(n), Head(queue[n])) /\ In(n)' = In(n)
         /\ packets'[n] \in [out: Seq(Packet), in: Seq(Packet)] /\ packets'[n].in = packets[n].in
         /\ queue'[n] = Tail(queue[n])
         /\ app'[n] = app[n] /\ wire'[n] = wire[n]
         /\ transfer'[n] = transfer[n] /\ saved'[n] = saved[n]
         /\ \/ /\ Tail(queue[n]) # <<>> /\ phase'[n] = "writing"
               /\ results'[n] = results[n] /\ chat'[n] = chat[n]
            \/ /\ Tail(queue[n]) = <<>> /\ phase'[n] = "next"
               /\ results'[n] = Append(results[n], TRUE)
               /\ chat'[n] = chat[n] \/ chat'[n] = Disconnected(chat[n])
<1>1. /\ phase[n] \in {"blocked", "lost"} /\ queue[n] # <<>> /\ queue[n] \in Seq(Written(n))
      /\ DOMAIN packets = Node
  BY Zenon DEF FrameEnd, SendEnd, FrameWritten, TypeInv, NodeOK, AtHand, Sends, Domains
<1>2. PICK f \in Frame : f = Head(queue[n])
  BY <1>1, FirstOfMany DEF Written
<1>3. PICK x : x = PacketOf(n, f)
  OBVIOUS
<1>4. packets' = MoreOut(n, x)
  BY <1>2, <1>3, Zenon DEF FrameEnd, SendEnd, FrameWritten, MoreOut
<1>5. packets'[Peer(n)] = packets[Peer(n)] /\ DOMAIN packets' = Node
  BY <1>1, <1>4, Peers DEF MoreOut
<1>6. /\ packets'[n].in = packets[n].in
      /\ packets'[n] \in [out: Seq(Packet), in: Seq(Packet)]
      /\ Out(n)' = Append(Out(n), Head(queue[n])) /\ In(n)' = In(n)
  BY <1>2, <1>3, <1>4, ReportMore
<1>7. CASE FrameEnd(n)
  BY <1>1, <1>5, <1>6, <1>7, Peers, Zenon DEF FrameEnd, FrameWritten, TypeInv, Domains, Same
<1>8. CASE SendEnd(n)
  <2>1. chat'[n] \in {chat[n], Disconnected(chat[n])} /\ chat'[Peer(n)] = chat[Peer(n)]
        /\ DOMAIN chat' = Node
    BY <1>8, Peers DEF SendEnd, TypeInv, Domains
  <2> QED
    BY <1>1, <1>5, <1>6, <1>8, <2>1, Peers, Zenon
       DEF SendEnd, FrameWritten, Ok, TypeInv, Domains, Same
<1> QED BY <1>7, <1>8, Zenon

\* A command that sends fails.
LEMMA SendFailsFacts ==
  ASSUME TypeInv, NEW n \in Node, SendFails(n)
  PROVE  /\ setup' = setup /\ Domains' /\ Same(Peer(n))
         /\ phase[n] \in {"writing", "lost"} /\ phase'[n] = "next" /\ queue'[n] = <<>>
         /\ HasLine(n)
         /\ results'[n] = Append(results[n], FALSE)
         /\ chat'[n] = chat[n] /\ app'[n] = app[n] /\ packets'[n] = packets[n]
         /\ wire'[n] = wire[n] /\ transfer'[n] = transfer[n] /\ saved'[n] = saved[n]
BY Peers, Zenon DEF SendFails, Ok, TypeInv, AtHand, Sends, Domains, Same

\* The first frame of the other's is taken.
Takes(n) ==
  /\ wire[Peer(n)] # <<>> /\ Arrived(n) \in Written(Peer(n))
  /\ wire'[Peer(n)] = Tail(wire[Peer(n)]) /\ wire'[n] = wire[n]
  /\ In(n)' = Append(In(n), Arrived(n)) /\ Out(n)' = Out(n)
  /\ packets'[n] \in [out: Seq(Packet), in: Seq(Packet)]
  /\ \E x \in Packet : x.frame = Arrived(n) /\ packets'[n].in = Append(packets[n].in, x)
  /\ packets'[Peer(n)] = packets[Peer(n)]

\* A frame that is taken goes from the wire to what was read.
LEMMA TakeFacts ==
  ASSUME TypeInv, NEW n \in Node, TakeFrame(n)
  PROVE  Takes(n) /\ DOMAIN packets' = Node /\ DOMAIN wire' = Node
<1>1. /\ wire[Peer(n)] # <<>> /\ wire[Peer(n)] \in Seq(Written(Peer(n)))
      /\ DOMAIN packets = Node /\ DOMAIN wire = Node
  BY Peers DEF TakeFrame, TypeInv, NodeOK, Domains
<1>2. PICK f \in Frame : f = Arrived(n) /\ f \in Written(Peer(n))
  BY <1>1, FirstOfMany DEF Written, Arrived
<1>3. PICK x : x = PacketOf(n, f)
  OBVIOUS
<1>4. packets' = MoreIn(n, x)
  BY <1>2, <1>3 DEF TakeFrame, Arrived, MoreIn
<1>5. packets'[Peer(n)] = packets[Peer(n)] /\ DOMAIN packets' = Node
  BY <1>1, <1>4, Peers DEF MoreIn
<1>6. /\ packets'[n] \in [out: Seq(Packet), in: Seq(Packet)]
      /\ packets'[n].in = Append(packets[n].in, x)
      /\ In(n)' = Append(In(n), f) /\ Out(n)' = Out(n)
  BY <1>3, <1>4, ReportMore
<1>7. x \in Packet /\ x.frame = f
  BY <1>3, ReportMore
<1>8. /\ wire'[Peer(n)] = Tail(wire[Peer(n)]) /\ wire'[n] = wire[n] /\ DOMAIN wire' = Node
  BY <1>1, Peers DEF TakeFrame
<1> QED BY <1>1, <1>2, <1>5, <1>6, <1>7, <1>8 DEF Takes

\* What a process that takes a frame makes of it: the frame is what it wants, it is the
\* offer of a file, a chunk that is kept, the last one of the file, or it fails the line.
Meets(n) ==
  /\ phase[n] = "next" /\ Line(n).kind # "FILE"
  /\ Expected(n, Line(n), Arrived(n)) /\ Applies(n, Arrived(n))
  /\ chat'[n] = ChatGot(n, Arrived(n)) /\ app'[n] = AppGot(n, Arrived(n))
  /\ results'[n] = Append(results[n], TRUE) /\ phase'[n] = "next"
  /\ transfer'[n] = transfer[n] /\ saved'[n] = saved[n]

Opens(n) ==
  /\ phase[n] = "next" /\ Line(n).kind = "FILE"
  /\ Expected(n, Line(n), Arrived(n))
  /\ chat'[n] = ChatGot(n, Arrived(n)) /\ app'[n] = AppGot(n, Arrived(n))
  /\ results'[n] = results[n] /\ phase'[n] = "chunks"
  /\ transfer'[n] = <<Arrived(n)>> /\ saved'[n] = saved[n]

Keeps(n) ==
  /\ phase[n] = "chunks" /\ IsChunk(n, Arrived(n))
  /\ chat'[n] = chat[n] /\ app'[n] = app[n]
  /\ results'[n] = results[n] /\ phase'[n] = "chunks"
  /\ transfer'[n] = Append(transfer[n], Arrived(n)) /\ saved'[n] = saved[n]

Saves(n) ==
  /\ phase[n] = "chunks" /\ IsChunk(n, Arrived(n))
  /\ Whole(Append(transfer[n], Arrived(n)), Line(n).text)
  /\ chat'[n] = chat[n] /\ app'[n] = app[n]
  /\ results'[n] = Append(results[n], TRUE) /\ phase'[n] = "next"
  /\ transfer'[n] = <<>> /\ saved'[n] = Append(saved[n], Line(n).text)

Misses(n) ==
  /\ phase[n] \in {"next", "chunks"}
  /\ chat'[n] = chat[n] /\ app'[n] = app[n]
  /\ results'[n] = Append(results[n], FALSE) /\ phase'[n] = "next"
  /\ transfer'[n] = <<>> /\ saved'[n] = saved[n]

Reads(n) ==
  \/ ExpectMet(n) \/ ExpectMissed(n)
  \/ ChunkKept(n) \/ FileSaved(n) \/ SaveFails(n) \/ ChunkMissed(n)

\* What a read does to the variables of a process.
LEMMA ReadFacts ==
  ASSUME TypeInv, NEW n \in Node, Reads(n)
  PROVE  /\ setup' = setup /\ Domains' /\ Takes(n)
         /\ results'[Peer(n)] = results[Peer(n)] /\ phase'[Peer(n)] = phase[Peer(n)]
         /\ chat'[Peer(n)] = chat[Peer(n)] /\ app'[Peer(n)] = app[Peer(n)]
         /\ queue'[Peer(n)] = queue[Peer(n)] /\ transfer'[Peer(n)] = transfer[Peer(n)]
         /\ saved'[Peer(n)] = saved[Peer(n)]
         /\ HasLine(n) /\ ~Line(n).send /\ queue[n] = <<>> /\ queue'[n] = queue[n]
         /\ Meets(n) \/ Opens(n) \/ Keeps(n) \/ Saves(n) \/ Misses(n)
<1>1. TakeFrame(n)
  BY Zenon
    DEF Reads, ExpectMet, ExpectMissed, ChunkKept, FileSaved, SaveFails, ChunkMissed, ChunkTaken
<1>2. Takes(n) /\ DOMAIN packets' = Node /\ DOMAIN wire' = Node
  BY <1>1, TakeFacts
<1>3. PICK f : f = Arrived(n)
  OBVIOUS
<1>4. AtHand(n) /\ Domains
  BY DEF TypeInv
<1>5. CASE ExpectMet(n)
  <2>1. CASE Line(n).kind = "FILE"
    BY <1>2, <1>4, <1>5, <2>1, Peers
       DEF ExpectMet, Expects, Starts, AtHand, Sends, Domains, Opens
  <2>2. CASE Line(n).kind # "FILE"
    <3>1. /\ phase[n] = "next" /\ HasLine(n) /\ ~Line(n).send
          /\ Expected(n, Line(n), Arrived(n)) /\ Applies(n, Arrived(n))
          /\ chat' = [chat EXCEPT ![n] = ChatGot(n, Arrived(n))]
          /\ app' = [app EXCEPT ![n] = AppGot(n, Arrived(n))]
          /\ Ok(n, TRUE)
          /\ UNCHANGED <<setup, queue, saved, transfer>>
      BY <1>5, <2>2, Zenon DEF ExpectMet, Expects, Starts
    <3> QED BY <1>2, <1>4, <2>2, <3>1, Peers, Zenon DEF Ok, AtHand, Sends, Domains, Meets
  <2> QED BY <2>1, <2>2
<1>6. CASE ExpectMissed(n)
  BY <1>2, <1>4, <1>6, Peers, Zenon
     DEF ExpectMissed, Expects, Starts, Ok, AtHand, Sends, Domains, Misses
<1>7. CASE ChunkKept(n)
  BY <1>2, <1>4, <1>7, Peers
     DEF ChunkKept, ChunkTaken, AtHand, Sends, Domains, Keeps
<1>8. CASE FileSaved(n)
  <2>1. PICK whole : whole = Whole(Append(transfer[n], f), Line(n).text)
    OBVIOUS
  <2>2. /\ whole \in BOOLEAN
        /\ Ok(n, whole)
        /\ saved' = IF whole THEN [saved EXCEPT ![n] = Append(@, Line(n).text)] ELSE saved
        /\ phase[n] = "chunks" /\ IsChunk(n, f)
        /\ UNCHANGED <<setup, chat, app, queue>>
        /\ transfer' = [transfer EXCEPT ![n] = <<>>]
    BY <1>3, <1>8, <2>1, Zenon DEF FileSaved, ChunkTaken, Whole
  <2>3. CASE whole
    BY <1>2, <1>3, <1>4, <2>1, <2>2, <2>3, Peers, Zenon DEF Ok, AtHand, Sends, Domains, Saves
  <2>4. CASE ~whole
    BY <1>2, <1>4, <2>2, <2>4, Peers, Zenon DEF Ok, AtHand, Sends, Domains, Misses
  <2> QED BY <2>2, <2>3, <2>4
<1>9. CASE SaveFails(n)
  BY <1>2, <1>4, <1>9, Peers, Zenon
     DEF SaveFails, Ok, AtHand, Sends, Domains, Misses
<1>10. CASE ChunkMissed(n)
  BY <1>2, <1>4, <1>10, Peers, Zenon
     DEF ChunkMissed, Ok, AtHand, Sends, Domains, Misses
<1> QED BY <1>5, <1>6, <1>7, <1>8, <1>9, <1>10 DEF Reads

\* A process ends.
LEMMA FinishFacts ==
  ASSUME TypeInv, NEW n \in Node, Finish(n)
  PROVE  /\ setup' = setup /\ Domains'
         /\ results' = results /\ chat' = chat /\ app' = app /\ packets' = packets
         /\ queue' = queue /\ transfer' = transfer /\ saved' = saved
         /\ phase[n] = "next" /\ phase'[n] = "ended" /\ ~HasLine(n)
         /\ phase'[Peer(n)] = IF phase[Peer(n)] = "blocked" /\ wire[Peer(n)] # <<>>
                              THEN "lost" ELSE phase[Peer(n)]
         /\ wire'[Peer(n)] = <<>>
         /\ \E k \in 0..Len(wire[n]) : wire'[n] = SubSeq(wire[n], 1, k)
<1>1. Domains /\ wire[n] \in Seq(Written(n))
  BY DEF TypeInv, NodeOK
<1>2. PICK p \in Node : p = Peer(n) /\ p # n /\ Peer(p) = n
  BY Peers
<1>3. /\ phase'[n] = "ended" /\ DOMAIN phase' = Node
      /\ phase'[p] = IF phase[p] = "blocked" /\ wire[p] # <<>> THEN "lost" ELSE phase[p]
  BY <1>1, <1>2 DEF Finish, Domains
<1>4. /\ wire'[p] = <<>> /\ DOMAIN wire' = Node
      /\ \E k \in 0..Len(wire[n]) : wire'[n] = SubSeq(wire[n], 1, k)
  <2>1. CASE wire[p] = <<>>
    <3>1. wire' = wire
      BY <1>2, <2>1 DEF Finish
    <3>2. Len(wire[n]) \in 0..Len(wire[n]) /\ wire[n] = SubSeq(wire[n], 1, Len(wire[n]))
      <4>1. PICK w, S : w = wire[n] /\ S = Written(n)
        OBVIOUS
      <4>2. w \in Seq(S)
        BY <1>1, <4>1
      <4>3. Len(w) \in 0..Len(w) /\ SubSeq(w, 1, Len(w)) = w
        BY <4>2, LenProperties
      <4> QED BY <4>1, <4>3
    <3> QED BY <1>1, <2>1, <3>1, <3>2, Zenon DEF Domains
  <2>2. CASE wire[p] # <<>>
    <3>1. PICK k \in 0..Len([wire EXCEPT ![p] = <<>>][n]) :
            wire' = [[wire EXCEPT ![p] = <<>>] EXCEPT ![n] = SubSeq(@, 1, k)]
      BY <1>2, <2>2 DEF Finish, Reset
    <3>2. [wire EXCEPT ![p] = <<>>][n] = wire[n]
      BY <1>1, <1>2 DEF Domains
    <3> QED BY <1>1, <1>2, <3>1, <3>2 DEF Domains
  <2> QED BY <2>1, <2>2
<1> QED BY <1>1, <1>2, <1>3, <1>4 DEF Finish, Domains

-----------------------------------------------------------------------------
(* Every variable keeps its type, and what a process has at hand fits      *)

\* What a script may be and what it may send do not change.
LEMMA Settled ==
  ASSUME setup' = setup, NEW n
  PROVE  Written(n)' = Written(n) /\ script' = script /\ peerCall' = peerCall
BY DEF Written, script, peerCall

\* The process that does not step, when nothing of its own changes.
LEMMA SameKeeps ==
  ASSUME TypeInv, NEW n \in Node, setup' = setup, Same(n), ~Ended(Peer(n))
  PROVE  (NodeOK(n) /\ AtHand(n))'
<1>1. /\ Written(n)' = Written(n) /\ Written(Peer(n))' = Written(Peer(n))
      /\ script' = script
  BY Settled
<1>2. In(n)' = In(n) /\ Out(n)' = Out(n)
  BY DEF Same, In, Out
<1>3. NodeOK(n) /\ AtHand(n)
  BY DEF TypeInv
<1>4. NodeOK(n)'
  BY <1>1, <1>2, <1>3 DEF NodeOK, Same
<1>5. AtHand(n)'
  BY <1>1, <1>3 DEF AtHand, Same, HasLine, Line, Sends, Ended
<1> QED BY <1>4, <1>5

\* Both processes, each by its own.
LEMMA BothKeep ==
  ASSUME TypeInv, NEW n \in Node, setup' = setup, Domains',
         (NodeOK(n) /\ AtHand(n))', (NodeOK(Peer(n)) /\ AtHand(Peer(n)))'
  PROVE  TypeInv'
<1>1. \A m \in Node : (NodeOK(m) /\ AtHand(m))'
  <2> SUFFICES ASSUME NEW m \in Node PROVE (NodeOK(m) /\ AtHand(m))'
    OBVIOUS
  <2>1. CASE m = n
    BY <2>1
  <2>2. CASE m = Peer(n)
    BY <2>2
  <2> QED BY <2>1, <2>2, Peers
<1>2. Node' = Node
  BY DEF Node
<1> QED BY <1>1, <1>2 DEF TypeInv

\* A line with a result more.
LEMMA ResultMore ==
  ASSUME TypeInv, NEW n \in Node, NEW ok \in BOOLEAN, setup' = setup, HasLine(n),
         results'[n] = Append(results[n], ok)
  PROVE  /\ results'[n] \in Seq(BOOLEAN) /\ Len(results'[n]) = Len(results[n]) + 1
         /\ Len(results'[n]) <= Len(script'[n])
<1>1. results[n] \in Seq(BOOLEAN) /\ script[n] \in Seq(Command) /\ script' = script
  BY Settled DEF TypeInv, NodeOK, Setup, script
<1>2. results'[n] \in Seq(BOOLEAN) /\ Len(results'[n]) = Len(results[n]) + 1
  BY <1>1, AppendProperties
<1>3. Len(results[n]) \in Nat /\ Len(script[n]) \in Nat
  BY <1>1, LenProperties
<1> QED BY <1>1, <1>2, <1>3 DEF HasLine

\* The logs and entries that a step may leave.
LEMMA LogTypes ==
  ASSUME TypeInv, NEW n \in Node
  PROVE  /\ Disconnected(chat[n]) \in Backend
         /\ RecordRefused(app[n]) \in AppModel
         /\ HasLine(n) /\ Allowed(n, Line(n)) => ChatSent(n, Line(n)) \in Backend
         /\ HasLine(n) => AppSent(n, Line(n)) \in AppModel
         /\ \A f \in Written(Peer(n)) : ChatGot(n, f) \in Backend /\ AppGot(n, f) \in AppModel
<1>1. PICK p \in Call \cup {NoCall}, next \in Nat, list \in Seq(Message) :
        /\ chat[n] = [peer |-> p, next |-> next, messages |-> list]
        /\ chat[n].peer = p /\ chat[n].next = next /\ chat[n].messages = list
  <2>1. chat[n] \in Backend
    BY DEF TypeInv, NodeOK
  <2>2. chat[n] = [peer |-> chat[n].peer, next |-> chat[n].next, messages |-> chat[n].messages]
    BY <2>1 DEF Backend
  <2> QED BY <2>1, <2>2, Zenon DEF Backend
<1>2. PICK number \in Nat, entries \in Seq(Entry) :
        app[n].next = number /\ app[n].entries = entries
  BY Zenon DEF TypeInv, NodeOK, AppModel
<1>3. n \in Call
  BY Peers, Zenon
<1>4. Disconnected(chat[n]) \in Backend
  BY <1>1 DEF Disconnected, Backend
<1>5. RecordRefused(app[n]) \in AppModel
  <2>1. number + 1 \in Nat
    OBVIOUS
  <2> QED BY <1>2, <2>1 DEF RecordRefused, AppModel
<1>6. \A call \in Call : ConnectTo(chat[n], call) \in Backend
  BY <1>1 DEF ConnectTo, Backend
<1>7. \A d \in Direction : \A from, to \in Call : \A text \in Text :
        PushMessage(chat[n], d, from, to, text) \in Backend
  <2> SUFFICES ASSUME NEW d \in Direction, NEW from \in Call, NEW to \in Call, NEW text \in Text
               PROVE  PushMessage(chat[n], d, from, to, text) \in Backend
    OBVIOUS
  <2>1. PICK m : m = [sequence |-> next, direction |-> d, from |-> from, to |-> to, text |-> text]
    BY Zenon
  <2>2. m \in Message
    BY <2>1 DEF Message
  <2>3. PICK more \in Seq(Message) : more = Append(list, m)
    BY <2>2, AppendProperties, Zenon
  <2>4. next + 1 \in Nat
    OBVIOUS
  <2>5. PushMessage(chat[n], d, from, to, text) = [peer |-> p, next |-> next + 1, messages |-> more]
    BY <1>1, <2>1, <2>3 DEF PushMessage
  <2> QED BY <2>4, <2>5 DEF Backend
<1>8. \A from \in Call : \A to \in Call \cup {NoCall} : \A text \in Text :
        Recorded(app[n], from, to, text) \in AppModel
  <2> SUFFICES ASSUME NEW from \in Call, NEW to \in Call \cup {NoCall}, NEW text \in Text
               PROVE  Recorded(app[n], from, to, text) \in AppModel
    OBVIOUS
  <2>1. PICK e : e = [sequence |-> number, from |-> from, to |-> to, text |-> text]
    BY Zenon
  <2>2. e \in Entry
    BY <2>1 DEF Entry
  <2>3. PICK more \in Seq(Entry) : more = Append(entries, e)
    BY <2>2, AppendProperties, Zenon
  <2>4. number + 1 \in Nat
    OBVIOUS
  <2>5. Recorded(app[n], from, to, text) = [next |-> number + 1, entries |-> more]
    BY <1>2, <2>1, <2>3 DEF Recorded
  <2> QED BY <2>4, <2>5 DEF AppModel
<1>9. chat[n] \in Backend /\ app[n] \in AppModel
  BY DEF TypeInv, NodeOK
<1>10. ASSUME HasLine(n), Allowed(n, Line(n)) PROVE ChatSent(n, Line(n)) \in Backend
  <2>1. PICK c : c = Line(n)
    OBVIOUS
  <2>2. c.kind \notin Plain => c.text \in Text
    BY <1>10, <2>1, LineFacts
  <2>3. peerCall[n] \in Call
    BY <1>10, LineFacts
  <2>4. c.kind = "MSG" => p \in Call /\ c.text \in Text /\ "Outbound" \in Direction
    BY <1>1, <1>10, <2>1, <2>2 DEF Allowed, IsConnected, Plain, Direction
  <2>5. c.kind = "MSG" => SentText(chat[n], n, c.text) \in Backend
    BY <1>1, <1>3, <1>7, <2>4 DEF SentText
  <2> QED BY <1>6, <1>9, <2>1, <2>3, <2>5 DEF ChatSent
<1>11. ASSUME HasLine(n) PROVE AppSent(n, Line(n)) \in AppModel
  <2>1. PICK c : c = Line(n)
    OBVIOUS
  <2>2. (c.kind \notin Plain => c.text \in Text) /\ peerCall[n] \in Call
    BY <1>11, <2>1, LineFacts
  <2>3. AppAddressee(peerCall[n], c.kind) \in Call \cup {NoCall}
    BY <2>2 DEF AppAddressee
  <2> QED BY <1>3, <1>8, <1>9, <2>1, <2>2, <2>3, Zenon DEF AppSent, Plain, AppKind
<1>12. ASSUME NEW f \in Written(Peer(n))
       PROVE  ChatGot(n, f) \in Backend /\ AppGot(n, f) \in AppModel
  <2>1. f.from \in Call /\ (f.kind \notin Plain => f.text \in Text)
    BY DEF Written, Frame
  <2>2. ChatGot(n, f) \in Backend
    <3>1. f.kind = "MSG" => f.text \in Text /\ "Inbound" \in Direction
      BY <2>1 DEF Plain, Direction
    <3>2. f.kind = "MSG" => ReceivedText(chat[n], n, f.from, f.text) \in Backend
      BY <1>3, <1>7, <2>1, <3>1 DEF ReceivedText
    <3> QED BY <1>4, <1>6, <1>9, <2>1, <3>2 DEF ChatGot
  <2>3. AppGot(n, f) \in AppModel
    <3>1. AppAddressee(n, f.kind) \in Call \cup {NoCall}
      BY <1>3 DEF AppAddressee
    <3> QED BY <1>8, <1>9, <2>1, <3>1, Zenon DEF AppGot, AppKind, Plain
  <2> QED BY <2>2, <2>3
<1> QED BY <1>4, <1>5, <1>10, <1>11, <1>12

\* At first every variable is in its domain.
LEMMA InitType == Init => TypeInv
<1> SUFFICES ASSUME Init PROVE TypeInv
  OBVIOUS
<1>1. Domains /\ setup \in Setup
  BY ScriptAssumption DEF Init, Domains
<1>2. ASSUME NEW n \in Node PROVE NodeOK(n) /\ AtHand(n)
  <2>1. /\ results[n] = <<>> /\ phase[n] = "next" /\ chat[n] = NewBackend /\ app[n] = NewAppModel
        /\ packets[n] = [out |-> <<>>, in |-> <<>>] /\ wire[n] = <<>> /\ queue[n] = <<>>
        /\ transfer[n] = <<>> /\ saved[n] = <<>>
    BY DEF Init
  <2>2. \A S : <<>> \in Seq(S)
    BY EmptySeq
  <2>3. packets[n].out = <<>> /\ packets[n].in = <<>>
        /\ packets[n] \in [out: Seq(Packet), in: Seq(Packet)]
    BY <2>1, <2>2
  <2>4. In(n) = <<>> /\ Out(n) = <<>>
    BY <2>3 DEF In, Out, Frames, Mapped
  <2>5. chat[n] \in Backend /\ app[n] \in AppModel
    BY <2>1, <2>2 DEF NewBackend, Backend, NewAppModel, AppModel
  <2>6. Len(results[n]) <= Len(script[n])
    <3>1. script[n] \in Seq(Command)
      BY <1>1 DEF Setup, script
    <3>2. Len(script[n]) \in Nat /\ Len(<<>>) = 0
      BY <3>1, LenProperties
    <3> QED BY <2>1, <3>2
  <2>7. NodeOK(n)
    BY <2>1, <2>2, <2>3, <2>4, <2>5 DEF NodeOK
  <2>8. AtHand(n)
    BY <2>1, <2>6 DEF AtHand, Sends, Ended
  <2> QED BY <2>7, <2>8
<1> QED BY <1>1, <1>2 DEF TypeInv

\* Each action keeps the types of the variables it changes.
LEMMA BeginType ==
  ASSUME TypeInv, NEW n \in Node, SendBegin(n)
  PROVE  TypeInv'
<1>1. /\ setup' = setup /\ Domains' /\ Same(Peer(n))
      /\ phase[n] = "next" /\ HasLine(n) /\ Line(n).send
      /\ phase'[n] = "writing" /\ queue'[n] = FramesOf(n, Line(n))
      /\ Allowed(n, Line(n))
      /\ chat'[n] = ChatSent(n, Line(n)) /\ app'[n] = AppSent(n, Line(n))
      /\ results'[n] = results[n] /\ packets'[n] = packets[n] /\ wire'[n] = wire[n]
      /\ transfer'[n] = transfer[n] /\ saved'[n] = saved[n]
  BY BeginFacts
<1>2. /\ Written(n)' = Written(n) /\ Written(Peer(n))' = Written(Peer(n)) /\ script' = script
  BY <1>1, Settled
<1>3. In(n)' = In(n) /\ Out(n)' = Out(n)
  BY <1>1 DEF In, Out
<1>4. NodeOK(n) /\ AtHand(n)
  BY DEF TypeInv
<1>5. queue'[n] \in Seq(Written(n)) /\ queue'[n] # <<>>
  BY <1>1, FramesOfFacts
<1>6. chat'[n] \in Backend /\ app'[n] \in AppModel
  BY <1>1, LogTypes
<1>7. NodeOK(n)'
  BY <1>1, <1>2, <1>3, <1>4, <1>5, <1>6 DEF NodeOK
<1>8. AtHand(n)'
  BY <1>1, <1>2, <1>4, <1>5 DEF AtHand, HasLine, Line, Sends, Ended
<1>9. (NodeOK(Peer(n)) /\ AtHand(Peer(n)))'
  <2>1. ~Ended(n)
    BY <1>1 DEF Ended
  <2> QED BY <1>1, <2>1, Peers, SameKeeps
<1> QED BY <1>1, <1>7, <1>8, <1>9, BothKeep

\* A line that fails keeps the types.
LEMMA FailsType ==
  ASSUME TypeInv, NEW n \in Node, Fails(n)
  PROVE  TypeInv'
<1>1. /\ setup' = setup /\ Domains' /\ Same(Peer(n))
      /\ phase[n] \in {"next", "chunks"} /\ HasLine(n) /\ queue[n] = <<>>
      /\ phase'[n] = "next" /\ queue'[n] = queue[n] /\ transfer'[n] = <<>>
      /\ results'[n] = Append(results[n], FALSE)
      /\ chat'[n] = chat[n] /\ packets'[n] = packets[n] /\ wire'[n] = wire[n]
      /\ saved'[n] = saved[n]
      /\ app'[n] = app[n] \/ app'[n] = RecordRefused(app[n])
  BY FailsFacts, Zenon
<1>2. /\ Written(n)' = Written(n) /\ Written(Peer(n))' = Written(Peer(n))
  BY <1>1, Settled
<1>3. In(n)' = In(n) /\ Out(n)' = Out(n)
  BY <1>1 DEF In, Out
<1>4. NodeOK(n) /\ AtHand(n)
  BY DEF TypeInv
<1>5. results'[n] \in Seq(BOOLEAN) /\ Len(results'[n]) <= Len(script'[n])
  BY <1>1, ResultMore, Zenon
<1>6. app'[n] \in AppModel
  BY <1>1, <1>4, LogTypes DEF NodeOK
<1>7. <<>> \in Seq(Written(Peer(n)))
  BY EmptySeq
<1>8. NodeOK(n)'
  BY <1>1, <1>2, <1>3, <1>4, <1>5, <1>6, <1>7 DEF NodeOK
<1>9. AtHand(n)'
  BY <1>1, <1>4, <1>5, Settled DEF AtHand, Sends, Ended
<1>10. (NodeOK(Peer(n)) /\ AtHand(Peer(n)))'
  <2>1. ~Ended(n)
    BY <1>1 DEF Ended
  <2> QED BY <1>1, <2>1, Peers, SameKeeps
<1> QED BY <1>1, <1>8, <1>9, <1>10, BothKeep

\* A frame that goes on the wire keeps the types.
LEMMA FrameType ==
  ASSUME TypeInv, NEW n \in Node, FrameBegin(n)
  PROVE  TypeInv'
<1>1. PICK p \in Node : p = Peer(n) /\ n = Peer(p)
  BY Peers
<1>2. /\ setup' = setup /\ Domains'
      /\ phase[n] = "writing" /\ queue[n] # <<>>
      /\ results' = results /\ chat' = chat /\ app' = app /\ packets' = packets
      /\ queue' = queue /\ transfer' = transfer /\ saved' = saved
      /\ phase'[p] = phase[p]
      /\ \/ /\ ~Ended(p) /\ phase'[n] = "blocked"
            /\ wire'[n] = Append(wire[n], Head(queue[n])) /\ wire'[p] = wire[p]
         \/ /\ Ended(p) /\ phase'[n] = "lost"
            /\ wire'[n] = wire[n]
            /\ \E k \in 0..Len(wire[p]) : wire'[p] = SubSeq(wire[p], 1, k)
  BY <1>1, FrameFacts
<1>3. /\ \A m \in Node : Written(m)' = Written(m) /\ In(m)' = In(m) /\ Out(m)' = Out(m)
      /\ script' = script
  BY <1>2, Settled DEF In, Out
<1>4. NodeOK(n) /\ AtHand(n) /\ NodeOK(p) /\ AtHand(p)
  BY DEF TypeInv
<1>5. wire'[n] \in Seq(Written(n)) /\ wire'[p] \in Seq(Written(p))
  <2>1. wire[n] \in Seq(Written(n)) /\ wire[p] \in Seq(Written(p)) /\ Head(queue[n]) \in Written(n)
    BY <1>2, <1>4, FirstOfMany, Zenon DEF NodeOK
  <2>2. Append(wire[n], Head(queue[n])) \in Seq(Written(n))
    BY <2>1, AppendProperties
  <2>3. \A k \in 0..Len(wire[p]) : SubSeq(wire[p], 1, k) \in Seq(Written(p))
    BY <2>1, BeginningAndRest
  <2> QED BY <1>2, <2>1, <2>2, <2>3, Zenon
<1>6. NodeOK(n)' /\ NodeOK(p)'
  BY <1>1, <1>2, <1>3, <1>4, <1>5, Zenon DEF NodeOK
<1>7. AtHand(n)' /\ AtHand(p)'
  BY <1>1, <1>2, <1>3, <1>4 DEF AtHand, HasLine, Line, Sends, Ended
<1> QED BY <1>1, <1>2, <1>6, <1>7, BothKeep

\* A frame that was written keeps the types.
LEMMA WrittenType ==
  ASSUME TypeInv, NEW n \in Node, FrameEnd(n) \/ SendEnd(n)
  PROVE  TypeInv'
<1>1. /\ setup' = setup /\ Domains' /\ Same(Peer(n))
      /\ phase[n] \in {"blocked", "lost"} /\ queue[n] # <<>>
      /\ Out(n)' = Append(Out(n), Head(queue[n])) /\ In(n)' = In(n)
      /\ packets'[n] \in [out: Seq(Packet), in: Seq(Packet)]
      /\ queue'[n] = Tail(queue[n])
      /\ app'[n] = app[n] /\ wire'[n] = wire[n]
      /\ transfer'[n] = transfer[n] /\ saved'[n] = saved[n]
      /\ \/ /\ Tail(queue[n]) # <<>> /\ phase'[n] = "writing"
            /\ results'[n] = results[n] /\ chat'[n] = chat[n]
         \/ /\ Tail(queue[n]) = <<>> /\ phase'[n] = "next"
            /\ results'[n] = Append(results[n], TRUE)
            /\ chat'[n] = chat[n] \/ chat'[n] = Disconnected(chat[n])
  BY WrittenFacts, Zenon
<1>2. /\ Written(n)' = Written(n) /\ Written(Peer(n))' = Written(Peer(n)) /\ script' = script
  BY <1>1, Settled
<1>3. NodeOK(n) /\ AtHand(n)
  BY DEF TypeInv
<1>4. Out(n)' \in Seq(Written(n)) /\ Tail(queue[n]) \in Seq(Written(n))
  <2>1. Head(queue[n]) \in Written(n) /\ Tail(queue[n]) \in Seq(Written(n))
    BY <1>1, <1>3, FirstOfMany DEF NodeOK
  <2>2. Append(Out(n), Head(queue[n])) \in Seq(Written(n))
    BY <1>3, <2>1, AppendProperties DEF NodeOK
  <2> QED BY <1>1, <2>1, <2>2
<1>5. HasLine(n)
  BY <1>1, <1>3 DEF AtHand, Sends
<1>6. results'[n] \in Seq(BOOLEAN) /\ Len(results'[n]) <= Len(script'[n])
  <2>1. CASE results'[n] = results[n]
    BY <1>2, <1>3, <2>1 DEF NodeOK, AtHand
  <2>2. CASE results'[n] = Append(results[n], TRUE)
    BY <1>1, <1>5, <2>2, ResultMore, Zenon
  <2> QED BY <1>1, <2>1, <2>2, Zenon
<1>7. chat'[n] \in Backend
  BY <1>1, <1>3, LogTypes, Zenon DEF NodeOK
<1>8. NodeOK(n)'
  BY <1>1, <1>2, <1>3, <1>4, <1>6, <1>7, Zenon DEF NodeOK
<1>9. AtHand(n)'
  BY <1>1, <1>2, <1>3, <1>6, Zenon DEF AtHand, HasLine, Line, Sends, Ended
<1>10. (NodeOK(Peer(n)) /\ AtHand(Peer(n)))'
  <2>1. ~Ended(n)
    BY <1>1 DEF Ended
  <2> QED BY <1>1, <2>1, Peers, SameKeeps
<1> QED BY <1>1, <1>8, <1>9, <1>10, BothKeep

\* A command given up keeps the types.
LEMMA SendFailsType ==
  ASSUME TypeInv, NEW n \in Node, SendFails(n)
  PROVE  TypeInv'
<1>1. /\ setup' = setup /\ Domains' /\ Same(Peer(n))
      /\ phase[n] \in {"writing", "lost"} /\ phase'[n] = "next" /\ queue'[n] = <<>>
      /\ HasLine(n)
      /\ results'[n] = Append(results[n], FALSE)
      /\ chat'[n] = chat[n] /\ app'[n] = app[n] /\ packets'[n] = packets[n]
      /\ wire'[n] = wire[n] /\ transfer'[n] = transfer[n] /\ saved'[n] = saved[n]
  BY SendFailsFacts, Zenon
<1>2. /\ Written(n)' = Written(n) /\ Written(Peer(n))' = Written(Peer(n))
  BY <1>1, Settled
<1>3. In(n)' = In(n) /\ Out(n)' = Out(n)
  BY <1>1 DEF In, Out
<1>4. NodeOK(n) /\ AtHand(n)
  BY DEF TypeInv
<1>5. results'[n] \in Seq(BOOLEAN) /\ Len(results'[n]) <= Len(script'[n])
  BY <1>1, ResultMore, Zenon
<1>6. <<>> \in Seq(Written(n))
  BY EmptySeq
<1>7. NodeOK(n)'
  BY <1>1, <1>2, <1>3, <1>4, <1>5, <1>6 DEF NodeOK
<1>8. AtHand(n)'
  BY <1>1, <1>4, <1>5 DEF AtHand, Sends, Ended
<1>9. (NodeOK(Peer(n)) /\ AtHand(Peer(n)))'
  <2>1. ~Ended(n)
    BY <1>1 DEF Ended
  <2> QED BY <1>1, <2>1, Peers, SameKeeps
<1> QED BY <1>1, <1>7, <1>8, <1>9, BothKeep

\* A frame that is read keeps the types.
LEMMA ReadType ==
  ASSUME TypeInv, NEW n \in Node, Reads(n)
  PROVE  TypeInv'
<1>1. PICK p \in Node : p = Peer(n) /\ n = Peer(p) /\ p # n
  BY Peers
<1>2. /\ setup' = setup /\ Domains' /\ Takes(n)
      /\ results'[p] = results[p] /\ phase'[p] = phase[p]
      /\ chat'[p] = chat[p] /\ app'[p] = app[p]
      /\ queue'[p] = queue[p] /\ transfer'[p] = transfer[p] /\ saved'[p] = saved[p]
      /\ HasLine(n) /\ ~Line(n).send /\ queue[n] = <<>> /\ queue'[n] = queue[n]
      /\ Meets(n) \/ Opens(n) \/ Keeps(n) \/ Saves(n) \/ Misses(n)
  BY <1>1, ReadFacts
<1>3. PICK f \in Written(p) : f = Arrived(n)
  BY <1>1, <1>2 DEF Takes
<1>4. /\ wire[p] # <<>> /\ wire'[p] = Tail(wire[p]) /\ wire'[n] = wire[n]
      /\ In(n)' = Append(In(n), f) /\ Out(n)' = Out(n)
      /\ packets'[n] \in [out: Seq(Packet), in: Seq(Packet)]
      /\ packets'[p] = packets[p]
  BY <1>1, <1>2, <1>3 DEF Takes
<1>5. /\ Written(n)' = Written(n) /\ Written(p)' = Written(p)
      /\ script' = script
      /\ In(p)' = In(p) /\ Out(p)' = Out(p)
  BY <1>2, <1>4, Settled DEF In, Out
<1>6. NodeOK(n) /\ AtHand(n) /\ NodeOK(p) /\ AtHand(p)
  BY DEF TypeInv
<1>7. wire'[p] \in Seq(Written(p)) /\ In(n)' \in Seq(Written(p))
  <2>1. Tail(wire[p]) \in Seq(Written(p))
    BY <1>4, <1>6, FirstOfMany, Zenon DEF NodeOK
  <2>2. Append(In(n), f) \in Seq(Written(p))
    BY <1>1, <1>6, AppendProperties DEF NodeOK
  <2> QED BY <1>4, <2>1, <2>2
<1>8. /\ chat'[n] \in Backend /\ app'[n] \in AppModel
  <2>1. ChatGot(n, f) \in Backend /\ AppGot(n, f) \in AppModel
    BY <1>1, LogTypes
  <2> QED BY <1>2, <1>3, <1>6, <2>1, Zenon DEF Meets, Opens, Keeps, Saves, Misses, NodeOK
<1>9. transfer'[n] \in Seq(Written(p))
  <2>1. <<>> \in Seq(Written(p)) /\ <<f>> \in Seq(Written(p))
    OBVIOUS
  <2>2. transfer[n] \in Seq(Written(p)) /\ Append(transfer[n], f) \in Seq(Written(p))
    BY <1>1, <1>6, AppendProperties DEF NodeOK
  <2> QED BY <1>2, <1>3, <2>1, <2>2, Zenon DEF Meets, Opens, Keeps, Saves, Misses
<1>10. saved'[n] \in Seq(Text)
  <2>1. CASE Saves(n)
    <3>1. Line(n).kind = "FILE"
      BY <1>6, <2>1 DEF Saves, AtHand
    <3>2. Line(n).text \in Text
      BY <1>2, <3>1, LineFacts DEF Plain
    <3>3. Append(saved[n], Line(n).text) \in Seq(Text)
      BY <1>6, <3>2, AppendProperties DEF NodeOK
    <3> QED BY <2>1, <3>3 DEF Saves
  <2>2. CASE ~Saves(n)
    BY <1>2, <1>6, <2>2, Zenon DEF Meets, Opens, Keeps, Misses, NodeOK
  <2> QED BY <2>1, <2>2
<1>11. results'[n] \in Seq(BOOLEAN) /\ Len(results'[n]) <= Len(script'[n])
  <2>1. CASE results'[n] = results[n]
    BY <1>5, <1>6, <2>1 DEF NodeOK, AtHand
  <2>2. CASE results'[n] = Append(results[n], TRUE)
    BY <1>2, <2>2, ResultMore, Zenon
  <2>3. CASE results'[n] = Append(results[n], FALSE)
    BY <1>2, <2>3, ResultMore, Zenon
  <2> QED BY <1>2, <2>1, <2>2, <2>3, Zenon DEF Meets, Opens, Keeps, Saves, Misses
<1>12. phase[n] \in {"next", "chunks"} /\ phase'[n] \in {"next", "chunks"}
  BY <1>2, Zenon DEF Meets, Opens, Keeps, Saves, Misses
<1>13. NodeOK(n)'
  BY <1>1, <1>2, <1>4, <1>5, <1>6, <1>7, <1>8, <1>9, <1>10, <1>11, <1>12 DEF NodeOK
<1>14. NodeOK(p)'
  BY <1>1, <1>2, <1>4, <1>5, <1>6, <1>7, Zenon DEF NodeOK
<1>15. AtHand(n)'
  <2>1. CASE phase'[n] = "chunks"
    <3>1. results'[n] = results[n] /\ Line(n).kind = "FILE"
      BY <1>2, <1>6, <2>1 DEF Meets, Opens, Keeps, Saves, Misses, AtHand
    <3> QED
      BY <1>2, <1>5, <1>6, <1>11, <2>1, <3>1 DEF AtHand, HasLine, Line, Sends, Ended
  <2>2. CASE phase'[n] = "next"
    <3>1. transfer'[n] = <<>>
      BY <1>2, <1>6, <2>2, Zenon DEF Meets, Opens, Keeps, Saves, Misses, AtHand
    <3> QED BY <1>2, <1>11, <2>2, <3>1 DEF AtHand, Sends, Ended
  <2> QED BY <1>12, <2>1, <2>2
<1>16. AtHand(p)'
  BY <1>1, <1>2, <1>5, <1>6, <1>12, Zenon DEF AtHand, HasLine, Line, Sends, Ended
<1> QED BY <1>1, <1>2, <1>13, <1>14, <1>15, <1>16, BothKeep

\* A process that ends keeps the types.
LEMMA FinishType ==
  ASSUME TypeInv, NEW n \in Node, Finish(n)
  PROVE  TypeInv'
<1>1. PICK p \in Node : p = Peer(n) /\ n = Peer(p) /\ p # n
  BY Peers
<1>2. /\ setup' = setup /\ Domains'
      /\ results' = results /\ chat' = chat /\ app' = app /\ packets' = packets
      /\ queue' = queue /\ transfer' = transfer /\ saved' = saved
      /\ phase[n] = "next" /\ phase'[n] = "ended" /\ ~HasLine(n)
      /\ phase'[p] = IF phase[p] = "blocked" /\ wire[p] # <<>> THEN "lost" ELSE phase[p]
      /\ wire'[p] = <<>>
      /\ \E k \in 0..Len(wire[n]) : wire'[n] = SubSeq(wire[n], 1, k)
  BY <1>1, FinishFacts
<1>3. /\ \A m \in Node : Written(m)' = Written(m) /\ In(m)' = In(m) /\ Out(m)' = Out(m)
      /\ script' = script
  BY <1>2, Settled DEF In, Out
<1>4. NodeOK(n) /\ AtHand(n) /\ NodeOK(p) /\ AtHand(p)
  BY DEF TypeInv
<1>5. wire'[n] \in Seq(Written(n)) /\ wire'[p] \in Seq(Written(p))
  <2>1. wire[n] \in Seq(Written(n)) /\ <<>> \in Seq(Written(p))
    BY <1>4, EmptySeq DEF NodeOK
  <2>2. \A k \in 0..Len(wire[n]) : SubSeq(wire[n], 1, k) \in Seq(Written(n))
    BY <2>1, BeginningAndRest
  <2> QED BY <1>2, <2>1, <2>2
<1>6. NodeOK(n)' /\ NodeOK(p)'
  BY <1>1, <1>2, <1>3, <1>4, <1>5, Zenon DEF NodeOK
<1>7. AtHand(n)' /\ AtHand(p)'
  BY <1>1, <1>2, <1>3, <1>4 DEF AtHand, HasLine, Line, Sends, Ended
<1> QED BY <1>1, <1>2, <1>6, <1>7, BothKeep

\* The kinds of steps.
LEMMA StepKinds ==
  ASSUME NEW n, Step(n)
  PROVE  \/ SendBegin(n) \/ Fails(n) \/ FrameBegin(n) \/ FrameEnd(n) \/ SendEnd(n)
         \/ SendFails(n) \/ Reads(n) \/ Finish(n)
BY DEF Step, Sending, Expecting, Fails, Reads

\* Every step keeps the types.
LEMMA NextType == TypeInv /\ [Next]_vars => TypeInv'
<1> SUFFICES ASSUME TypeInv, [Next]_vars PROVE TypeInv'
  OBVIOUS
<1>1. CASE UNCHANGED vars
  <2>1. \A m : Written(m)' = Written(m) /\ In(m)' = In(m) /\ Out(m)' = Out(m)
    BY <1>1 DEF vars, Written, peerCall, In, Out
  <2>2. \A m \in Node : (NodeOK(m) /\ AtHand(m))'
    BY <1>1, <2>1 DEF vars, TypeInv, NodeOK, AtHand, HasLine, Line, script, Sends, Ended
  <2> QED BY <1>1, <2>2 DEF vars, TypeInv, Domains, Node
<1>2. ASSUME NEW n \in Node, Step(n) PROVE TypeInv'
  BY <1>2, StepKinds, BeginType, FailsType, FrameType, WrittenType, SendFailsType, ReadType,
     FinishType
<1> QED BY <1>1, <1>2 DEF Next, Over

\* Everything the two processes keep has its type, a process writes frames under its own
\* call and to the peer it was given, and what it has at hand fits what it is at.
THEOREM TypeCorrect == Spec => []TypeInv
BY InitType, NextType, PTL DEF Spec

-----------------------------------------------------------------------------
(* The stream of frames from a process to the other one: those that were   *)
(* read, those on the wire, and those that the command under way has still *)
(* to write.                                                               *)

ToWrite(n) == IF phase[n] = "writing" THEN queue[n]
              ELSE IF phase[n] \in {"blocked", "lost"} THEN Tail(queue[n]) ELSE <<>>

Stream(n) == In(Peer(n)) \o (wire[n] \o ToWrite(n))

\* Frames are lost from the stream: its end, or any others once the reader has ended.
Loses(n) ==
  \E a, b, c \in Seq(Written(n)) :
    /\ Stream(n) = (a \o b) \o c /\ Stream(n)' = a \o c
    /\ c = <<>> \/ Ended(Peer(n))'

\* The frames on their way to a process are frames that the other one may write.
LEMMA StreamType ==
  ASSUME TypeInv, NEW n \in Node
  PROVE  /\ In(Peer(n)) \in Seq(Written(n)) /\ wire[n] \in Seq(Written(n))
         /\ queue[n] \in Seq(Written(n)) /\ Out(n) \in Seq(Written(n))
         /\ ToWrite(n) \in Seq(Written(n)) /\ Stream(n) \in Seq(Written(n))
         /\ phase[n] \in {"next", "chunks", "ended"} => ToWrite(n) = <<>>
<1>1. NodeOK(n) /\ NodeOK(Peer(n)) /\ Peer(Peer(n)) = n /\ AtHand(n)
  BY Peers DEF TypeInv
<1>2. /\ In(Peer(n)) \in Seq(Written(n)) /\ wire[n] \in Seq(Written(n))
      /\ queue[n] \in Seq(Written(n)) /\ Out(n) \in Seq(Written(n))
  BY <1>1 DEF NodeOK
<1>3. ToWrite(n) \in Seq(Written(n))
  <2>1. phase[n] \in {"blocked", "lost"} => queue[n] # <<>>
    BY <1>1 DEF AtHand, Sends
  <2>2. phase[n] \in {"blocked", "lost"} => Tail(queue[n]) \in Seq(Written(n))
    BY <1>2, <2>1, FirstOfMany
  <2>3. <<>> \in Seq(Written(n))
    BY EmptySeq
  <2> QED BY <1>2, <2>2, <2>3 DEF ToWrite
<1>4. wire[n] \o ToWrite(n) \in Seq(Written(n))
  BY <1>2, <1>3, ConcatProperties
<1>5. Stream(n) \in Seq(Written(n))
  BY <1>2, <1>4, ConcatProperties DEF Stream
<1> QED BY <1>2, <1>3, <1>5 DEF ToWrite

\* The stream of the process that does not step.
LEMMA OtherStream ==
  ASSUME NEW n \in Node, Same(n), In(Peer(n))' = In(Peer(n))
  PROVE  Stream(n)' = Stream(n)
BY DEF Same, Stream, ToWrite

\* A command appends its frames.
LEMMA BeginStream ==
  ASSUME TypeInv, NEW n \in Node, SendBegin(n)
  PROVE  /\ Stream(n)' = Stream(n) \o FramesOf(n, Line(n))
         /\ Stream(Peer(n))' = Stream(Peer(n))
         /\ In(n)' = In(n) /\ In(Peer(n))' = In(Peer(n))
<1>1. PICK p \in Node : p = Peer(n) /\ n = Peer(p)
  BY Peers
<1>2. /\ Same(p) /\ phase[n] = "next" /\ phase'[n] = "writing" /\ HasLine(n)
      /\ queue'[n] = FramesOf(n, Line(n)) /\ packets'[n] = packets[n] /\ wire'[n] = wire[n]
  BY <1>1, BeginFacts
<1>3. In(n)' = In(n) /\ In(p)' = In(p)
  BY <1>2 DEF In, Same
<1>4. Stream(p)' = Stream(p)
  BY <1>1, <1>2, <1>3, OtherStream
<1>5. PICK i, w, f, S : i = In(p) /\ w = wire[n] /\ f = FramesOf(n, Line(n)) /\ S = Written(n)
  OBVIOUS
<1>6. i \in Seq(S) /\ w \in Seq(S) /\ f \in Seq(S)
  BY <1>1, <1>2, <1>5, StreamType, FramesOfFacts, Zenon
<1>7. Stream(n) = i \o (w \o <<>>) /\ Stream(n)' = i \o (w \o f)
  BY <1>1, <1>2, <1>3, <1>5, Zenon DEF Stream, ToWrite
<1>8. i \o (w \o f) = (i \o (w \o <<>>)) \o f
  <2>1. w \o <<>> = w
    BY <1>6, ConcatEmptySeq
  <2>2. (i \o w) \o f = i \o (w \o f)
    BY <1>6, ConcatAssociative
  <2> QED BY <2>1, <2>2
<1> QED BY <1>1, <1>3, <1>4, <1>5, <1>7, <1>8

\* Where nothing is sent and nothing is read the stream stays.
LEMMA FailsStream ==
  ASSUME TypeInv, NEW n \in Node, Fails(n)
  PROVE  /\ Stream(n)' = Stream(n) /\ Stream(Peer(n))' = Stream(Peer(n))
         /\ In(n)' = In(n) /\ In(Peer(n))' = In(Peer(n))
<1>1. PICK p \in Node : p = Peer(n) /\ n = Peer(p)
  BY Peers
<1>2. /\ Same(p) /\ phase[n] \in {"next", "chunks"} /\ phase'[n] = "next"
      /\ packets'[n] = packets[n] /\ wire'[n] = wire[n]
  BY <1>1, FailsFacts, Zenon
<1>3. In(n)' = In(n) /\ In(p)' = In(p)
  BY <1>2 DEF In, Same
<1>4. Stream(p)' = Stream(p)
  BY <1>1, <1>2, <1>3, OtherStream
<1>5. Stream(n)' = Stream(n)
  BY <1>1, <1>2, <1>3, Zenon DEF Stream, ToWrite
<1> QED BY <1>1, <1>3, <1>4, <1>5

\* A beginning of what is on the wire, and nothing more to write: the end is lost.
LEMMA CutStream ==
  ASSUME TypeInv, NEW n \in Node, ToWrite(n) = <<>>, ToWrite(n)' = <<>>,
         In(Peer(n))' = In(Peer(n)),
         NEW k \in 0..Len(wire[n]), wire'[n] = SubSeq(wire[n], 1, k)
  PROVE  Loses(n)
<1>1. PICK i, w, v, S : i = In(Peer(n)) /\ w = wire[n] /\ v = wire'[n] /\ S = Written(n)
  OBVIOUS
<1>2. i \in Seq(S) /\ w \in Seq(S) /\ v = SubSeq(w, 1, k) /\ k \in 0..Len(w)
  BY <1>1, StreamType
<1>3. v \in Seq(S) /\ \E t \in Seq(S) : w = v \o t
  <2>1. SubSeq(w, 1, k) \in Seq(S) /\ \E t \in Seq(S) : w = SubSeq(w, 1, k) \o t
    BY <1>2, BeginningAndRest, Zenon
  <2> QED BY <1>2, <2>1, Zenon
<1>4. PICK t \in Seq(S) : w = v \o t
  BY <1>3, Zenon
<1>5. Stream(n) = i \o (w \o <<>>) /\ Stream(n)' = i \o (v \o <<>>)
  BY <1>1 DEF Stream
<1>6. /\ i \o (w \o <<>>) = ((i \o v) \o t) \o <<>> /\ i \o (v \o <<>>) = (i \o v) \o <<>>
      /\ i \o v \in Seq(S) /\ <<>> \in Seq(S)
  <2>1. i \o v \in Seq(S) /\ i \o w \in Seq(S)
    BY <1>2, <1>3, ConcatProperties
  <2>2. /\ w \o <<>> = w /\ v \o <<>> = v /\ (i \o v) \o <<>> = i \o v
        /\ (i \o w) \o <<>> = i \o w
    BY <1>2, <1>3, <2>1, ConcatEmptySeq
  <2>3. (i \o v) \o t = i \o (v \o t)
    <3>1. i \in Seq(S) /\ v \in Seq(S) /\ t \in Seq(S)
      BY <1>2, <1>3, <1>4
    <3> QED BY <3>1, ConcatAssociative
  <2> QED BY <1>4, <2>1, <2>2, <2>3, EmptySeq
<1> QED BY <1>1, <1>4, <1>5, <1>6, Zenon DEF Loses

\* A frame that is written goes on in the stream; one for a reader that has ended is lost.
LEMMA FrameStream ==
  ASSUME TypeInv, NEW n \in Node, FrameBegin(n)
  PROVE  /\ Stream(n)' = Stream(n) \/ Loses(n)
         /\ Stream(Peer(n))' = Stream(Peer(n)) \/ Loses(Peer(n))
         /\ In(n)' = In(n) /\ In(Peer(n))' = In(Peer(n))
<1>1. PICK p \in Node : p = Peer(n) /\ n = Peer(p)
  BY Peers
<1>2. /\ phase[n] = "writing" /\ queue[n] # <<>> /\ packets' = packets /\ queue' = queue
      /\ phase'[p] = phase[p]
      /\ \/ /\ ~Ended(p) /\ phase'[n] = "blocked"
            /\ wire'[n] = Append(wire[n], Head(queue[n])) /\ wire'[p] = wire[p]
         \/ /\ Ended(p) /\ phase'[n] = "lost"
            /\ wire'[n] = wire[n]
            /\ \E k \in 0..Len(wire[p]) : wire'[p] = SubSeq(wire[p], 1, k)
  BY <1>1, FrameFacts
<1>3. In(n)' = In(n) /\ In(p)' = In(p)
  BY <1>2 DEF In
<1>4. PICK i, w, h, t, S : /\ i = In(p) /\ w = wire[n] /\ S = Written(n)
                           /\ h = Head(queue[n]) /\ t = Tail(queue[n])
  BY Zenon
<1>5. /\ i \in Seq(S) /\ w \in Seq(S) /\ h \in S /\ t \in Seq(S) /\ queue[n] = <<h>> \o t
      /\ <<h>> \in Seq(S)
  <2>1. i \in Seq(S) /\ w \in Seq(S) /\ queue[n] \in Seq(S)
    BY <1>1, <1>4, StreamType, Zenon
  <2>2. h \in S /\ t \in Seq(S) /\ queue[n] = <<h>> \o t
    BY <1>2, <1>4, <2>1, FirstOfMany
  <2> QED BY <2>1, <2>2
<1>6. Stream(n) = i \o (w \o (<<h>> \o t))
  BY <1>1, <1>2, <1>4, <1>5, Zenon DEF Stream, ToWrite
<1>7. CASE ~Ended(p)
  <2>1. phase'[n] = "blocked" /\ wire'[n] = Append(w, h) /\ wire'[p] = wire[p]
    BY <1>2, <1>4, <1>7
  <2>2. Stream(n)' = i \o (Append(w, h) \o t)
    BY <1>1, <1>2, <1>3, <1>4, <2>1, Zenon DEF Stream, ToWrite
  <2>3. Append(w, h) \o t = w \o (<<h>> \o t)
    <3>1. Append(w, h) = w \o <<h>>
      BY <1>5, AppendProperties
    <3>2. (w \o <<h>>) \o t = w \o (<<h>> \o t)
      BY <1>5, ConcatAssociative
    <3> QED BY <3>1, <3>2, Zenon
  <2>4. Stream(p)' = Stream(p)
    BY <1>1, <1>2, <1>3, <2>1, Zenon DEF Stream, ToWrite
  <2> QED BY <1>1, <1>3, <1>6, <2>2, <2>3, <2>4
<1>8. CASE Ended(p)
  <2>1. /\ phase'[n] = "lost" /\ wire'[n] = w /\ Ended(p)'
    BY <1>2, <1>4, <1>8 DEF Ended
  <2>2. Stream(n)' = i \o (w \o t)
    BY <1>1, <1>2, <1>3, <1>4, <2>1, Zenon DEF Stream, ToWrite
  <2>3. /\ i \o (w \o (<<h>> \o t)) = ((i \o w) \o <<h>>) \o t
        /\ i \o (w \o t) = (i \o w) \o t
        /\ i \o w \in Seq(S)
    <3>1. i \o w \in Seq(S) /\ <<h>> \o t \in Seq(S)
      BY <1>5, ConcatProperties
    <3>2. ((i \o w) \o <<h>>) \o t = (i \o w) \o (<<h>> \o t)
      BY <1>5, <3>1, ConcatAssociative
    <3>3. (i \o w) \o (<<h>> \o t) = i \o (w \o (<<h>> \o t))
      BY <1>5, <3>1, ConcatAssociative, SMTT(30)
    <3>4. (i \o w) \o t = i \o (w \o t)
      BY <1>5, ConcatAssociative, SMTT(30)
    <3> QED BY <3>1, <3>2, <3>3, <3>4, Zenon
  <2>4. Loses(n)
    BY <1>1, <1>4, <1>5, <1>6, <2>1, <2>2, <2>3, ZenonT(60) DEF Loses
  <2>5. PICK k \in 0..Len(wire[p]) : wire'[p] = SubSeq(wire[p], 1, k)
    BY <1>2, <1>8
  <2>6. ToWrite(p) = <<>> /\ ToWrite(p)' = <<>>
    BY <1>2, <1>8 DEF Ended, ToWrite
  <2>7. Loses(p)
    BY <1>1, <1>3, <2>5, <2>6, CutStream
  <2> QED BY <1>1, <1>3, <2>4, <2>7
<1> QED BY <1>7, <1>8

\* When the write returns the frame was already in the stream.
LEMMA WrittenStream ==
  ASSUME TypeInv, NEW n \in Node, FrameEnd(n) \/ SendEnd(n)
  PROVE  /\ Stream(n)' = Stream(n) /\ Stream(Peer(n))' = Stream(Peer(n))
         /\ In(n)' = In(n) /\ In(Peer(n))' = In(Peer(n))
<1>1. PICK p \in Node : p = Peer(n) /\ n = Peer(p)
  BY Peers
<1>2. /\ Same(p) /\ phase[n] \in {"blocked", "lost"} /\ In(n)' = In(n)
      /\ queue'[n] = Tail(queue[n]) /\ wire'[n] = wire[n]
      /\ \/ Tail(queue[n]) # <<>> /\ phase'[n] = "writing"
         \/ Tail(queue[n]) = <<>> /\ phase'[n] = "next"
  BY <1>1, WrittenFacts, Zenon
<1>3. In(p)' = In(p)
  BY <1>2 DEF In, Same
<1>4. Stream(p)' = Stream(p)
  BY <1>1, <1>2, <1>3, OtherStream
<1>5. ToWrite(n)' = ToWrite(n)
  BY <1>2, Zenon DEF ToWrite
<1>6. Stream(n)' = Stream(n)
  BY <1>1, <1>2, <1>3, <1>5, Zenon DEF Stream
<1> QED BY <1>1, <1>2, <1>3, <1>4, <1>6

\* A command that fails takes back what it has not written.
LEMMA SendFailsStream ==
  ASSUME TypeInv, NEW n \in Node, SendFails(n)
  PROVE  /\ Loses(n) /\ Stream(Peer(n))' = Stream(Peer(n))
         /\ In(n)' = In(n) /\ In(Peer(n))' = In(Peer(n))
<1>1. PICK p \in Node : p = Peer(n) /\ n = Peer(p)
  BY Peers
<1>2. /\ Same(p) /\ phase'[n] = "next" /\ packets'[n] = packets[n] /\ wire'[n] = wire[n]
  BY <1>1, SendFailsFacts, Zenon
<1>3. In(n)' = In(n) /\ In(p)' = In(p)
  BY <1>2 DEF In, Same
<1>4. Stream(p)' = Stream(p)
  BY <1>1, <1>2, <1>3, OtherStream
<1>5. PICK i, w, t, S : i = In(p) /\ w = wire[n] /\ t = ToWrite(n) /\ S = Written(n)
  OBVIOUS
<1>6. i \in Seq(S) /\ w \in Seq(S) /\ t \in Seq(S)
  BY <1>1, <1>5, StreamType, Zenon
<1>7. Stream(n) = i \o (w \o t) /\ Stream(n)' = i \o (w \o <<>>)
  BY <1>1, <1>2, <1>3, <1>5, Zenon DEF Stream, ToWrite
<1>8. /\ i \o (w \o t) = ((i \o w) \o t) \o <<>> /\ i \o (w \o <<>>) = (i \o w) \o <<>>
      /\ i \o w \in Seq(S) /\ <<>> \in Seq(S)
  <2>1. i \o w \in Seq(S)
    BY <1>6, ConcatProperties
  <2>2. (i \o w) \o t \in Seq(S)
    BY <1>6, <2>1, ConcatProperties
  <2>3. /\ w \o <<>> = w /\ (i \o w) \o <<>> = i \o w
        /\ ((i \o w) \o t) \o <<>> = (i \o w) \o t
    BY <1>6, <2>1, <2>2, ConcatEmptySeq
  <2>4. (i \o w) \o t = i \o (w \o t)
    BY <1>6, ConcatAssociative
  <2> QED BY <2>1, <2>3, <2>4, EmptySeq
<1>9. Loses(n)
  BY <1>5, <1>6, <1>7, <1>8, Zenon DEF Loses
<1> QED BY <1>1, <1>3, <1>4, <1>9

\* A frame that is read stays in the stream.
LEMMA ReadStream ==
  ASSUME TypeInv, NEW n \in Node, Reads(n)
  PROVE  /\ Stream(n)' = Stream(n) /\ Stream(Peer(n))' = Stream(Peer(n))
         /\ In(Peer(n))' = In(Peer(n))
<1>1. PICK p \in Node : p = Peer(n) /\ n = Peer(p)
  BY Peers
<1>2. /\ Takes(n) /\ phase'[p] = phase[p] /\ queue'[p] = queue[p] /\ queue'[n] = queue[n]
      /\ Meets(n) \/ Opens(n) \/ Keeps(n) \/ Saves(n) \/ Misses(n)
  BY <1>1, ReadFacts
<1>3. phase[n] \in {"next", "chunks"} /\ phase'[n] \in {"next", "chunks"}
  BY <1>2, Zenon DEF Meets, Opens, Keeps, Saves, Misses
<1>4. PICK f : f = Arrived(n)
  OBVIOUS
<1>5. /\ wire[p] # <<>> /\ wire'[p] = Tail(wire[p]) /\ wire'[n] = wire[n] /\ f = Head(wire[p])
      /\ In(n)' = Append(In(n), f) /\ packets'[p] = packets[p]
  BY <1>1, <1>2, <1>4 DEF Takes, Arrived
<1>6. In(p)' = In(p)
  BY <1>5 DEF In
<1>7. Stream(n)' = Stream(n)
  BY <1>1, <1>3, <1>5, <1>6, Zenon DEF Stream, ToWrite
<1>8. PICK i, v, t, S : i = In(n) /\ v = Tail(wire[p]) /\ t = ToWrite(p) /\ S = Written(p)
  BY Zenon
<1>9. i \in Seq(S) /\ f \in S /\ v \in Seq(S) /\ t \in Seq(S) /\ wire[p] = <<f>> \o v
      /\ <<f>> \in Seq(S)
  <2>1. i \in Seq(S) /\ wire[p] \in Seq(S) /\ t \in Seq(S)
    BY <1>1, <1>8, StreamType, Zenon
  <2>2. f \in S /\ v \in Seq(S) /\ wire[p] = <<f>> \o v
    BY <1>5, <1>8, <2>1, FirstOfMany
  <2> QED BY <2>1, <2>2
<1>10. ToWrite(p)' = t
  BY <1>2, <1>8 DEF ToWrite
<1>11. Stream(p) = i \o ((<<f>> \o v) \o t) /\ Stream(p)' = Append(i, f) \o (v \o t)
  BY <1>1, <1>5, <1>8, <1>9, <1>10, Zenon DEF Stream
<1>12. Append(i, f) \o (v \o t) = i \o ((<<f>> \o v) \o t)
  <2>1. Append(i, f) = i \o <<f>> /\ v \o t \in Seq(S)
    BY <1>9, AppendProperties, ConcatProperties
  <2>2. (i \o <<f>>) \o (v \o t) = i \o (<<f>> \o (v \o t))
    BY <1>9, <2>1, ConcatAssociative
  <2>3. (<<f>> \o v) \o t = <<f>> \o (v \o t)
    BY <1>9, ConcatAssociative
  <2> QED BY <2>1, <2>2, <2>3, Zenon
<1> QED BY <1>1, <1>6, <1>7, <1>11, <1>12, Zenon

\* A process that ends may cut what it has sent, and does not read what was sent to it.
LEMMA FinishStream ==
  ASSUME TypeInv, NEW n \in Node, Finish(n)
  PROVE  /\ Loses(n) /\ Loses(Peer(n))
         /\ In(n)' = In(n) /\ In(Peer(n))' = In(Peer(n))
<1>1. PICK p \in Node : p = Peer(n) /\ n = Peer(p)
  BY Peers
<1>2. /\ packets' = packets /\ queue' = queue
      /\ phase[n] = "next" /\ phase'[n] = "ended"
      /\ phase'[p] = IF phase[p] = "blocked" /\ wire[p] # <<>> THEN "lost" ELSE phase[p]
      /\ wire'[p] = <<>>
      /\ \E k \in 0..Len(wire[n]) : wire'[n] = SubSeq(wire[n], 1, k)
  BY <1>1, FinishFacts
<1>3. In(n)' = In(n) /\ In(p)' = In(p)
  BY <1>2 DEF In
<1>4. Loses(n)
  <2>1. ToWrite(n) = <<>> /\ ToWrite(n)' = <<>>
    BY <1>2 DEF ToWrite
  <2> QED BY <1>1, <1>2, <1>3, <2>1, CutStream
<1>5. PICK i, w, t, S : i = In(n) /\ w = wire[p] /\ t = ToWrite(p) /\ S = Written(p)
  OBVIOUS
<1>6. i \in Seq(S) /\ w \in Seq(S) /\ t \in Seq(S) /\ <<>> \in Seq(S)
  BY <1>1, <1>5, StreamType, EmptySeq, Zenon
<1>7. ToWrite(p)' = t
  BY <1>2, <1>5 DEF ToWrite
<1>8. Stream(p) = i \o (w \o t) /\ Stream(p)' = i \o (<<>> \o t)
  BY <1>1, <1>2, <1>3, <1>5, <1>7, Zenon DEF Stream
<1>9. i \o (w \o t) = (i \o w) \o t /\ i \o (<<>> \o t) = i \o t
  BY <1>6, ConcatAssociative, ConcatEmptySeq, SMTT(30)
<1>10. Ended(n)'
  BY <1>2 DEF Ended
<1>11. Loses(p)
  BY <1>1, <1>5, <1>6, <1>8, <1>9, <1>10, ZenonT(60) DEF Loses
<1> QED BY <1>1, <1>3, <1>4, <1>11

\* What a step does to a stream.
LEMMA StreamStep ==
  ASSUME TypeInv, NEW n \in Node, Step(n), NEW w \in Node
  PROVE  /\ \/ Stream(w)' = Stream(w)
            \/ w = n /\ SendBegin(n) /\ Stream(n)' = Stream(n) \o FramesOf(n, Line(n))
            \/ Loses(w)
         /\ In(w)' = In(w) \/ (w = n /\ Reads(n))
<1>1. w = n \/ w = Peer(n)
  BY Peers
<1>2. \/ SendBegin(n) \/ Fails(n) \/ FrameBegin(n) \/ FrameEnd(n) \/ SendEnd(n)
      \/ SendFails(n) \/ Reads(n) \/ Finish(n)
  BY StepKinds
<1>3. CASE SendBegin(n)
  BY <1>1, <1>3, BeginStream
<1>4. CASE Fails(n)
  BY <1>1, <1>4, FailsStream
<1>5. CASE FrameBegin(n)
  BY <1>1, <1>5, FrameStream
<1>6. CASE FrameEnd(n) \/ SendEnd(n)
  BY <1>1, <1>6, WrittenStream
<1>7. CASE SendFails(n)
  BY <1>1, <1>7, SendFailsStream
<1>8. CASE Reads(n)
  BY <1>1, <1>8, ReadStream
<1>9. CASE Finish(n)
  BY <1>1, <1>9, FinishStream
<1> QED BY <1>2, <1>3, <1>4, <1>5, <1>6, <1>7, <1>8, <1>9

-----------------------------------------------------------------------------
(* The records as what is kept of lists                                    *)

Directed(direction) == {m \in Message : m.direction = direction}
MessageText == [m \in Message |-> m.text]

By(call) == {e \in Entry : e.from = call}
EntryPost == [e \in Entry |-> [to |-> e.to, text |-> e.text]]

FileSends == {c \in Command : IsFileSend(c)}
LineText == [c \in Command |-> c.text]

Talk == {f \in Frame : f.kind = "MSG"}
Posting == {f \in Frame : f.kind \in AppKind}
Opening == {f \in Frame : f.part = 1}
FrameText == [f \in Frame |-> f.text]
FramePost == [f \in Frame |-> [to |-> AppAddressee(f.to, f.kind), text |-> f.text]]

\* The texts of a log.
LEMMA TextsKept ==
  ASSUME NEW c \in Backend, NEW direction
  PROVE  /\ TextsOf(c, direction) = Kept(c.messages, Directed(direction), MessageText)
         /\ TextsOf(c, direction) \in Seq(Text)
<1>1. PICK list \in Seq(Message) : list = c.messages
  BY DEF Backend
<1>2. DOMAIN list = 1..Len(list) /\ \A i \in 1..Len(list) : list[i] \in Message
  BY LenProperties, ElementOfSeq
<1>3. PICK D : D = {i \in DOMAIN list : list[i].direction = direction}
  BY Zenon
<1>4. D = {i \in DOMAIN list : list[i] \in Directed(direction)}
  BY <1>2, <1>3 DEF Directed
<1>5. PICK p \in Seq(Message) : p = Picked(list, D)
  BY PickedType
<1>6. DOMAIN p = 1..Len(p) /\ \A i \in 1..Len(p) : p[i] \in Message
  BY LenProperties, ElementOfSeq
<1>7. Texts(p) = Mapped(p, MessageText)
  BY <1>6 DEF Texts, Mapped, MessageText
<1>8. TextsOf(c, direction) = Texts(p)
  BY <1>1, <1>3, <1>5 DEF TextsOf
<1>9. Kept(list, Directed(direction), MessageText) = Mapped(p, MessageText)
  BY <1>4, <1>5 DEF Kept
<1>10. \A m \in Message : MessageText[m] \in Text
  BY DEF MessageText, Message
<1>11. Kept(list, Directed(direction), MessageText) \in Seq(Text)
  BY <1>10, KeptInto
<1> QED BY <1>1, <1>7, <1>8, <1>9, <1>11

\* A message more.
LEMMA TextsMore ==
  ASSUME NEW c \in Backend, NEW d \in Direction, NEW from \in Call, NEW to \in Call,
         NEW text \in Text
  PROVE  /\ TextsOf(PushMessage(c, d, from, to, text), d) = Append(TextsOf(c, d), text)
         /\ \A e \in Direction :
              e # d => TextsOf(PushMessage(c, d, from, to, text), e) = TextsOf(c, e)
<1>1. PICK m : m = [sequence |-> c.next, direction |-> d, from |-> from, to |-> to, text |-> text]
  BY Zenon
<1>2. c.next \in Nat /\ c.messages \in Seq(Message) /\ c.peer \in Call \cup {NoCall}
  BY DEF Backend
<1>3. m \in Message /\ m.direction = d /\ m.text = text /\ MessageText[m] = text
  BY <1>1, <1>2 DEF Message, MessageText
<1>4. PICK list \in Seq(Message) : list = c.messages
  BY <1>2
<1>5. PICK k : k = PushMessage(c, d, from, to, text)
  OBVIOUS
<1>6. k \in Backend /\ k.messages = Append(list, m)
  <2>1. Append(list, m) \in Seq(Message) /\ c.next + 1 \in Nat
    BY <1>2, <1>3, AppendProperties
  <2>2. k = [peer |-> c.peer, next |-> c.next + 1, messages |-> Append(list, m)]
    BY <1>1, <1>4, <1>5 DEF PushMessage
  <2> QED BY <1>2, <2>1, <2>2 DEF Backend
<1>7. ASSUME NEW e \in Direction
      PROVE  TextsOf(k, e) = IF e = d THEN Append(TextsOf(c, e), text) ELSE TextsOf(c, e)
  <2>1. m \in Directed(e) <=> e = d
    BY <1>3 DEF Directed
  <2>2. /\ m \in Directed(e) =>
             Kept(Append(list, m), Directed(e), MessageText)
               = Append(Kept(list, Directed(e), MessageText), MessageText[m])
        /\ m \notin Directed(e) =>
             Kept(Append(list, m), Directed(e), MessageText)
               = Kept(list, Directed(e), MessageText)
    BY <1>3, KeptMore
  <2>3. /\ TextsOf(k, e) = Kept(Append(list, m), Directed(e), MessageText)
        /\ TextsOf(c, e) = Kept(list, Directed(e), MessageText)
    BY <1>4, <1>6, TextsKept, Zenon
  <2> QED BY <1>3, <2>1, <2>2, <2>3
<1> QED BY <1>5, <1>7

\* The posts of an app model.
LEMMA PostsKept ==
  ASSUME NEW a \in AppModel, NEW call
  PROVE  PostsOf(a, call) = Kept(a.entries, By(call), EntryPost)
<1>1. PICK list \in Seq(Entry) : list = a.entries
  BY DEF AppModel
<1>2. DOMAIN list = 1..Len(list) /\ \A i \in 1..Len(list) : list[i] \in Entry
  BY LenProperties, ElementOfSeq
<1>3. PICK D : D = {i \in DOMAIN list : list[i].from = call}
  BY Zenon
<1>4. D = {i \in DOMAIN list : list[i] \in By(call)}
  BY <1>2, <1>3 DEF By
<1>5. PICK p \in Seq(Entry) : p = Picked(list, D)
  BY PickedType
<1>6. DOMAIN p = 1..Len(p) /\ \A i \in 1..Len(p) : p[i] \in Entry
  BY LenProperties, ElementOfSeq
<1>7. [i \in DOMAIN p |-> [to |-> p[i].to, text |-> p[i].text]] = Mapped(p, EntryPost)
  BY <1>6 DEF Mapped, EntryPost
<1>8. PostsOf(a, call) = [i \in DOMAIN p |-> [to |-> p[i].to, text |-> p[i].text]]
  BY <1>1, <1>3, <1>5 DEF PostsOf
<1>9. Kept(list, By(call), EntryPost) = Mapped(p, EntryPost)
  BY <1>4, <1>5 DEF Kept
<1> QED BY <1>1, <1>7, <1>8, <1>9

\* An entry more.
LEMMA PostsMore ==
  ASSUME NEW a \in AppModel, NEW from \in Call, NEW to \in Call \cup {NoCall},
         NEW text \in Text, NEW call
  PROVE  /\ from = call => PostsOf(Recorded(a, from, to, text), call)
                             = Append(PostsOf(a, call), [to |-> to, text |-> text])
         /\ from # call => PostsOf(Recorded(a, from, to, text), call) = PostsOf(a, call)
         /\ PostsOf(RecordRefused(a), call) = PostsOf(a, call)
<1>1. PICK e : e = [sequence |-> a.next, from |-> from, to |-> to, text |-> text]
  BY Zenon
<1>2. a.next \in Nat /\ a.entries \in Seq(Entry)
  BY DEF AppModel
<1>3. e \in Entry /\ e.from = from /\ EntryPost[e] = [to |-> to, text |-> text]
  BY <1>1, <1>2 DEF Entry, EntryPost
<1>4. PICK list \in Seq(Entry) : list = a.entries
  BY <1>2
<1>5. PICK k : k = Recorded(a, from, to, text)
  OBVIOUS
<1>6. k \in AppModel /\ k.entries = Append(list, e)
  <2>1. Append(list, e) \in Seq(Entry) /\ a.next + 1 \in Nat
    BY <1>2, <1>3, AppendProperties
  <2>2. k = [next |-> a.next + 1, entries |-> Append(list, e)]
    BY <1>1, <1>4, <1>5 DEF Recorded
  <2> QED BY <2>1, <2>2 DEF AppModel
<1>7. e \in By(call) <=> from = call
  BY <1>3 DEF By
<1>8. /\ e \in By(call) => Kept(Append(list, e), By(call), EntryPost)
                             = Append(Kept(list, By(call), EntryPost), EntryPost[e])
      /\ e \notin By(call) => Kept(Append(list, e), By(call), EntryPost)
                                = Kept(list, By(call), EntryPost)
  BY <1>3, KeptMore
<1>9. /\ PostsOf(k, call) = Kept(Append(list, e), By(call), EntryPost)
      /\ PostsOf(a, call) = Kept(list, By(call), EntryPost)
  BY <1>4, <1>6, PostsKept, Zenon
<1>10. PostsOf(RecordRefused(a), call) = PostsOf(a, call)
  BY DEF RecordRefused, PostsOf
<1> QED BY <1>3, <1>5, <1>7, <1>8, <1>9, <1>10

\* The frames of a file: its offer and its chunks.
LEMMA FileFrames ==
  ASSUME TypeInv, NEW n \in Node, HasLine(n), Line(n).kind = "FILE"
  PROVE  /\ Chunks[Line(n).text] \in Nat \ {0} /\ Line(n).text \in Text
         /\ Len(FramesOf(n, Line(n))) = Chunks[Line(n).text] + 1
         /\ FramesOf(n, Line(n))[1] = FrameOf(n, "OFFER", Line(n).text, 0)
         /\ \A i \in 2..(Chunks[Line(n).text] + 1) :
              FramesOf(n, Line(n))[i] = FrameOf(n, "CHUNK", Line(n).text, i - 1)
<1>1. PICK text, L : /\ text = Line(n).text /\ L = Chunks[text]
                     /\ text \in Text /\ L \in Nat \ {0}
  <2>1. Line(n).text \in Text
    BY LineFacts DEF Plain
  <2>2. Chunks[Line(n).text] \in Nat \ {0}
    BY <2>1, ScriptAssumption
  <2> QED BY <2>1, <2>2
<1>2. PICK a, b, s : /\ a = FrameOf(n, "OFFER", text, 0) /\ s = FramesOf(n, Line(n))
                     /\ b = [i \in 1..L |-> FrameOf(n, "CHUNK", text, i)]
  BY Zenon
<1>3. s = <<a>> \o b
  BY <1>1, <1>2 DEF FramesOf
<1>4. PICK S : a \in S /\ \A i \in 1..L : FrameOf(n, "CHUNK", text, i) \in S
  <2>1. a \in {a} \cup {FrameOf(n, "CHUNK", text, i) : i \in 1..L}
    OBVIOUS
  <2>2. \A i \in 1..L :
          FrameOf(n, "CHUNK", text, i) \in {a} \cup {FrameOf(n, "CHUNK", text, j) : j \in 1..L}
    OBVIOUS
  <2> QED BY <2>1, <2>2, Zenon
<1>5. /\ <<a>> \in Seq(S) /\ Len(<<a>>) = 1 /\ <<a>>[1] = a
      /\ b \in Seq(S) /\ Len(b) = L /\ \A i \in 1..L : b[i] = FrameOf(n, "CHUNK", text, i)
  <2>1. b \in Seq(S) /\ Len(b) = L
    BY <1>1, <1>2, <1>4
  <2>2. \A i \in 1..L : b[i] = FrameOf(n, "CHUNK", text, i)
    BY <1>2
  <2> QED BY <1>4, <2>1, <2>2
<1>6. /\ Len(s) = 1 + L
      /\ \A i \in 1..(1 + L) : s[i] = IF i <= 1 THEN <<a>>[i] ELSE b[i - 1]
  BY <1>3, <1>5, ConcatProperties
<1>7. s[1] = a
  <2>1. 1 \in 1..(1 + L) /\ 1 <= 1
    BY <1>1
  <2> QED BY <1>5, <1>6, <2>1
<1>8. ASSUME NEW i \in 2..(L + 1) PROVE s[i] = FrameOf(n, "CHUNK", text, i - 1)
  <2>1. i \in 1..(1 + L) /\ ~(i <= 1) /\ i - 1 \in 1..L
    BY <1>1
  <2>2. s[i] = b[i - 1]
    BY <1>6, <2>1
  <2> QED BY <1>5, <2>1, <2>2
<1>9. Len(s) = L + 1
  BY <1>1, <1>6
<1> QED BY <1>1, <1>2, <1>7, <1>8, <1>9, Zenon

\* What a command leaves in the stream is what it records.
LEMMA FramesKept ==
  ASSUME TypeInv, NEW n \in Node, HasLine(n)
  PROVE  /\ Kept(FramesOf(n, Line(n)), Talk, FrameText)
              = IF Line(n).kind = "MSG" THEN <<Line(n).text>> ELSE <<>>
         /\ Kept(FramesOf(n, Line(n)), Posting, FramePost)
              = IF Line(n).kind \in AppKind \cup {"FILE"}
                THEN <<[to |-> AppAddressee(peerCall[n], Line(n).kind), text |-> Line(n).text]>>
                ELSE <<>>
         /\ Kept(FramesOf(n, Line(n)), Opening, FrameText)
              = IF Line(n).kind = "FILE" THEN <<Line(n).text>> ELSE <<>>
<1>1. PICK c : c = Line(n)
  OBVIOUS
<1>2. PICK s : s = FramesOf(n, c)
  OBVIOUS
<1>3. s \in Seq(Written(n)) /\ Written(n) \subseteq Frame
  BY <1>1, <1>2, FramesOfFacts DEF Written
<1>4. s \in Seq(Frame)
  BY <1>3, SeqMonotonic
<1>5. /\ c.kind \in Kind /\ c.text \in Text \cup {NoText} /\ peerCall[n] \in Call /\ n \in Call
  BY <1>1, LineFacts, Peers, Zenon
<1>6. CASE c.kind = "FILE"
  <2>1. PICK L, text : L = Chunks[text] /\ L \in Nat \ {0} /\ text = c.text /\ text \in Text
    BY <1>1, <1>6, FileFrames
  <2>2. /\ Len(s) = L + 1 /\ s[1] = FrameOf(n, "OFFER", text, 0)
        /\ \A i \in 2..(L + 1) : s[i] = FrameOf(n, "CHUNK", text, i - 1)
    BY <1>1, <1>2, <1>6, <2>1, FileFrames, Zenon
  <2>3. /\ s[1] \in Frame /\ s[1].kind = "OFFER" /\ s[1].part = 0 /\ s[1].text = text
        /\ s[1].to = peerCall[n]
    BY <1>5, <2>1, <2>2 DEF FrameOf, Frame, Kind, AppKind
  <2>4. ASSUME NEW i \in 2..(L + 1)
        PROVE  s[i] \in Frame /\ s[i].kind = "CHUNK" /\ s[i].part = i - 1 /\ s[i].text = text
    <3>1. PICK j \in Nat : j = i - 1
      BY <2>1
    <3>2. s[i] = [kind |-> "CHUNK", from |-> n, to |-> peerCall[n], text |-> text, part |-> j]
      BY <2>2, <3>1, Zenon DEF FrameOf
    <3>3. "CHUNK" \in (Kind \ {"FILE"}) \cup {"CHUNK"}
      OBVIOUS
    <3> QED BY <1>5, <2>1, <3>1, <3>2, <3>3 DEF Frame
  <2>5. \A i \in 1..Len(s) : i = 1 \/ i \in 2..(L + 1)
    BY <2>1, <2>2
  <2>6. Kept(s, Talk, FrameText) = <<>>
    <3>1. \A i \in 1..Len(s) : s[i] \notin Talk
      BY <2>3, <2>4, <2>5 DEF Talk
    <3> QED BY <1>4, <3>1, KeptNone
  <2>7. Kept(s, Posting, FramePost) = <<FramePost[s[1]]>>
    <3>1. s[1] \in Posting /\ \A i \in 1..Len(s) : i # 1 => s[i] \notin Posting
      BY <2>3, <2>4, <2>5 DEF Posting, AppKind
    <3>2. 1 \in 1..Len(s)
      BY <2>1, <2>2
    <3> QED BY <1>4, <3>1, <3>2, KeptSingle
  <2>8. Kept(s, Opening, FrameText) = <<FrameText[s[2]]>>
    <3>1. s[2] \in Opening /\ \A i \in 1..Len(s) : i # 2 => s[i] \notin Opening
      <4>1. 2 \in 2..(L + 1)
        BY <2>1
      <4>2. s[2] \in Opening
        BY <2>4, <4>1 DEF Opening
      <4>3. ASSUME NEW i \in 1..Len(s), i # 2 PROVE s[i] \notin Opening
        <5>1. CASE i = 1
          BY <2>3, <5>1 DEF Opening
        <5>2. CASE i \in 2..(L + 1)
          <6>1. s[i].part = i - 1 /\ i - 1 # 1
            BY <2>1, <2>4, <4>3, <5>2
          <6> QED BY <6>1 DEF Opening
        <5> QED BY <2>5, <5>1, <5>2
      <4> QED BY <4>2, <4>3
    <3>2. 2 \in 1..Len(s)
      BY <2>1, <2>2
    <3> QED BY <1>4, <3>1, <3>2, KeptSingle
  <2>9. /\ FramePost[s[1]] = [to |-> AppAddressee(peerCall[n], c.kind), text |-> c.text]
        /\ FrameText[s[2]] = c.text
    <3>1. AppAddressee(peerCall[n], "OFFER") = AppAddressee(peerCall[n], c.kind)
      BY <1>6 DEF AppAddressee
    <3>2. 2 \in 2..(L + 1)
      BY <2>1
    <3>3. s[2] \in Frame /\ s[2].text = text
      BY <2>4, <3>2
    <3> QED BY <2>1, <2>3, <3>1, <3>3 DEF FramePost, FrameText
  <2> QED BY <1>1, <1>2, <1>6, <2>6, <2>7, <2>8, <2>9
<1>7. CASE c.kind # "FILE"
  <2>1. PICK f : f = FrameOf(n, c.kind, c.text, 0)
    OBVIOUS
  <2>2. s = <<f>>
    BY <1>2, <1>7, <2>1 DEF FramesOf
  <2>3. f \in Frame /\ f.kind = c.kind /\ f.part = 0 /\ f.text = c.text /\ f.to = peerCall[n]
    BY <1>5, <1>7, <2>1 DEF FrameOf, Frame
  <2>4. /\ f \in Talk <=> c.kind = "MSG"
        /\ f \in Posting <=> c.kind \in AppKind
        /\ f \notin Opening
        /\ FrameText[f] = c.text
        /\ FramePost[f] = [to |-> AppAddressee(peerCall[n], c.kind), text |-> c.text]
    BY <2>3 DEF Talk, Posting, Opening, FrameText, FramePost
  <2>5. /\ Kept(s, Talk, FrameText) = IF c.kind = "MSG" THEN <<FrameText[f]>> ELSE <<>>
        /\ Kept(s, Posting, FramePost) = IF c.kind \in AppKind THEN <<FramePost[f]>> ELSE <<>>
        /\ Kept(s, Opening, FrameText) = <<>>
    BY <2>2, <2>4, KeptOne
  <2> QED BY <1>1, <1>2, <1>7, <2>4, <2>5
<1> QED BY <1>6, <1>7

-----------------------------------------------------------------------------
(* What was recorded as received was recorded as sent                      *)

\* What a process recorded as received it has read, and what it wrote or will write it
\* has recorded.
Heard(n) ==
  /\ IsPartOf(TextsOf(chat[n], "Inbound"), Kept(In(n), Talk, FrameText))
  /\ IsPartOf(Kept(Stream(n), Talk, FrameText), TextsOf(chat[n], "Outbound"))

HeardInv == \A n \in Node : Heard(n)

\* The texts of frames.
LEMMA TalkType ==
  ASSUME NEW n \in Node, NEW s \in Seq(Written(n))
  PROVE  /\ s \in Seq(Frame)
         /\ Kept(s, Talk, FrameText) \in Seq(Text \cup {NoText})
         /\ Kept(s, Opening, FrameText) \in Seq(Text \cup {NoText})
<1>1. Written(n) \subseteq Frame
  BY DEF Written
<1>2. s \in Seq(Frame)
  BY <1>1, SeqMonotonic
<1>3. \A f \in Frame : FrameText[f] \in Text \cup {NoText}
  BY DEF FrameText, Frame
<1> QED BY <1>2, <1>3, KeptInto

\* What is sent or received is one text more, of a MSG.
LEMMA ChatTexts ==
  ASSUME TypeInv, NEW n \in Node
  PROVE  /\ \A d \in Direction : TextsOf(Disconnected(chat[n]), d) = TextsOf(chat[n], d)
         /\ HasLine(n) /\ Allowed(n, Line(n)) =>
              /\ TextsOf(ChatSent(n, Line(n)), "Inbound") = TextsOf(chat[n], "Inbound")
              /\ TextsOf(ChatSent(n, Line(n)), "Outbound")
                   = IF Line(n).kind = "MSG" THEN Append(TextsOf(chat[n], "Outbound"), Line(n).text)
                     ELSE TextsOf(chat[n], "Outbound")
         /\ \A f \in Written(Peer(n)) :
              /\ TextsOf(ChatGot(n, f), "Outbound") = TextsOf(chat[n], "Outbound")
              /\ TextsOf(ChatGot(n, f), "Inbound")
                   = IF f.kind = "MSG" THEN Append(TextsOf(chat[n], "Inbound"), f.text)
                     ELSE TextsOf(chat[n], "Inbound")
<1>1. PICK c \in Backend : c = chat[n]
  BY DEF TypeInv, NodeOK
<1>2. /\ \A d \in Direction : TextsOf(Disconnected(c), d) = TextsOf(c, d)
      /\ \A call : \A d \in Direction : TextsOf(ConnectTo(c, call), d) = TextsOf(c, d)
  BY DEF TextsOf, Disconnected, ConnectTo
<1>3. "Inbound" \in Direction /\ "Outbound" \in Direction /\ n \in Call
  BY Peers DEF Direction
<1>4. ASSUME HasLine(n), Allowed(n, Line(n))
      PROVE  /\ TextsOf(ChatSent(n, Line(n)), "Inbound") = TextsOf(c, "Inbound")
             /\ TextsOf(ChatSent(n, Line(n)), "Outbound")
                  = IF Line(n).kind = "MSG" THEN Append(TextsOf(c, "Outbound"), Line(n).text)
                    ELSE TextsOf(c, "Outbound")
  <2>1. PICK kind, text : kind = Line(n).kind /\ text = Line(n).text
    OBVIOUS
  <2>2. CASE kind = "MSG"
    <3>1. text \in Text
      BY <1>4, <2>1, <2>2, LineFacts, Zenon DEF Plain
    <3>2. c.peer \in Call
      BY <1>1, <1>4, <2>1, <2>2 DEF Allowed, IsConnected, Backend
    <3>3. PICK k : k = PushMessage(c, "Outbound", n, c.peer, text)
      OBVIOUS
    <3>4. TextsOf(k, "Outbound") = Append(TextsOf(c, "Outbound"), text)
          /\ TextsOf(k, "Inbound") = TextsOf(c, "Inbound")
      BY <1>3, <3>1, <3>2, <3>3, TextsMore
    <3>5. ChatSent(n, Line(n)) = k
      BY <1>1, <2>1, <2>2, <3>3 DEF ChatSent, SentText
    <3> QED BY <2>1, <2>2, <3>4, <3>5
  <2>3. CASE kind # "MSG"
    <3>1. ChatSent(n, Line(n)) = c \/ ChatSent(n, Line(n)) = ConnectTo(c, peerCall[n])
      BY <1>1, <2>1, <2>3 DEF ChatSent
    <3> QED BY <1>2, <1>3, <2>1, <2>3, <3>1
  <2> QED BY <2>2, <2>3
<1>5. ASSUME NEW f \in Written(Peer(n))
      PROVE  /\ TextsOf(ChatGot(n, f), "Outbound") = TextsOf(c, "Outbound")
             /\ TextsOf(ChatGot(n, f), "Inbound")
                  = IF f.kind = "MSG" THEN Append(TextsOf(c, "Inbound"), f.text)
                    ELSE TextsOf(c, "Inbound")
  <2>1. f.from \in Call /\ (f.kind \notin Plain => f.text \in Text)
    BY DEF Written, Frame
  <2>2. CASE f.kind = "MSG"
    <3>1. f.text \in Text
      BY <2>1, <2>2 DEF Plain
    <3>2. PICK k : k = PushMessage(c, "Inbound", f.from, n, f.text)
      OBVIOUS
    <3>3. TextsOf(k, "Inbound") = Append(TextsOf(c, "Inbound"), f.text)
          /\ TextsOf(k, "Outbound") = TextsOf(c, "Outbound")
      BY <1>3, <2>1, <3>1, <3>2, TextsMore
    <3>4. ChatGot(n, f) = k
      BY <1>1, <2>2, <3>2 DEF ChatGot, ReceivedText
    <3> QED BY <2>2, <3>3, <3>4
  <2>3. CASE f.kind # "MSG"
    <3>1. ChatGot(n, f) \in {c, ConnectTo(c, f.from), Disconnected(c)}
      BY <1>1, <2>3 DEF ChatGot
    <3> QED BY <1>2, <1>3, <2>3, <3>1
  <2> QED BY <2>2, <2>3
<1> QED BY <1>1, <1>2, <1>4, <1>5

\* What a step adds to the texts of a log.
LEMMA LogStep ==
  ASSUME TypeInv, NEW n \in Node, Step(n), NEW w \in Node
  PROVE  /\ \/ TextsOf(chat[w], "Outbound")' = TextsOf(chat[w], "Outbound")
            \/ /\ w = n /\ SendBegin(n) /\ Line(n).kind = "MSG"
               /\ TextsOf(chat[w], "Outbound")' = Append(TextsOf(chat[w], "Outbound"), Line(n).text)
         /\ w = n /\ SendBegin(n) /\ Line(n).kind = "MSG" =>
              TextsOf(chat[w], "Outbound")' = Append(TextsOf(chat[w], "Outbound"), Line(n).text)
         /\ \/ TextsOf(chat[w], "Inbound")' = TextsOf(chat[w], "Inbound")
            \/ /\ w = n /\ Reads(n) /\ Meets(n) /\ Arrived(n).kind = "MSG"
               /\ TextsOf(chat[w], "Inbound")' = Append(TextsOf(chat[w], "Inbound"), Arrived(n).text)
<1> DEFINE Stays == \A d \in Direction : TextsOf(chat[w], d)' = TextsOf(chat[w], d)
<1>0. "Inbound" \in Direction /\ "Outbound" \in Direction
  BY DEF Direction
<1>1. w = n \/ w = Peer(n)
  BY Peers
<1>2. chat'[w] = chat[w] => Stays
  BY DEF TextsOf
<1>3. CASE w # n
  <2>1. w = Peer(n)
    BY <1>1, <1>3
  <2>2. chat'[w] = chat[w]
    BY <2>1, BeginFacts, FailsFacts, FrameFacts, WrittenFacts, SendFailsFacts, ReadFacts,
       FinishFacts, StepKinds, ZenonT(60) DEF Same
  <2> QED BY <1>0, <1>2, <1>3, <2>2
<1>4. CASE w = n
  <2>1. CASE SendBegin(n)
    <3>1. chat'[n] = ChatSent(n, Line(n)) /\ HasLine(n) /\ Allowed(n, Line(n))
      BY <2>1, BeginFacts
    <3>2. TextsOf(chat[n], "Inbound")' = TextsOf(ChatSent(n, Line(n)), "Inbound")
          /\ TextsOf(chat[n], "Outbound")' = TextsOf(ChatSent(n, Line(n)), "Outbound")
      BY <3>1 DEF TextsOf
    <3> QED BY <1>4, <2>1, <3>1, <3>2, ChatTexts
  <2>2. CASE FrameEnd(n) \/ SendEnd(n)
    <3>1. chat'[n] = chat[n] \/ chat'[n] = Disconnected(chat[n])
      BY <2>2, WrittenFacts, Zenon
    <3>2. chat'[n] = Disconnected(chat[n]) =>
            \A d \in Direction : TextsOf(chat[n], d)' = TextsOf(Disconnected(chat[n]), d)
      BY DEF TextsOf
    <3>3. Stays
      BY <1>2, <1>4, <3>1, <3>2, ChatTexts
    <3>4. ~SendBegin(n)
      BY <2>2, BeginFacts, WrittenFacts, Zenon
    <3> QED BY <1>0, <3>3, <3>4
  <2>3. CASE Reads(n)
    <3>1. PICK f \in Written(Peer(n)) : f = Arrived(n)
      BY <2>3, ReadFacts DEF Takes
    <3>2. ~SendBegin(n)
      BY <2>3, BeginFacts, ReadFacts
    <3>3. CASE chat'[n] = chat[n]
      BY <1>0, <1>2, <1>4, <3>2, <3>3
    <3>4. CASE chat'[n] # chat[n]
      <4>1. chat'[n] = ChatGot(n, f) /\ (Meets(n) \/ f.kind # "MSG")
        <5>1. CASE Meets(n)
          BY <3>1, <5>1 DEF Meets
        <5>2. CASE Opens(n)
          BY <3>1, <5>2 DEF Opens, Expected
        <5> QED BY <2>3, <3>4, <5>1, <5>2, ReadFacts, Zenon DEF Keeps, Saves, Misses
      <4>2. TextsOf(chat[n], "Inbound")' = TextsOf(ChatGot(n, f), "Inbound")
            /\ TextsOf(chat[n], "Outbound")' = TextsOf(ChatGot(n, f), "Outbound")
        BY <4>1 DEF TextsOf
      <4> QED BY <1>4, <2>3, <3>1, <3>2, <4>1, <4>2, ChatTexts
    <3> QED BY <3>3, <3>4
  <2>4. CASE Fails(n) \/ FrameBegin(n) \/ SendFails(n) \/ Finish(n)
    <3>1. chat'[n] = chat[n] /\ ~SendBegin(n)
      BY <2>4, FailsFacts, FrameFacts, SendFailsFacts, FinishFacts, BeginFacts, Zenon
    <3> QED BY <1>0, <1>2, <1>4, <3>1
  <2> QED BY <2>1, <2>2, <2>3, <2>4, StepKinds
<1> QED BY <1>3, <1>4

\* At first nothing was heard or said.
LEMMA HeardInit == Init => HeardInv
<1> SUFFICES ASSUME Init, NEW n \in Node PROVE Heard(n)
  BY DEF HeardInv
<1>1. TypeInv
  BY InitType
<1>2. /\ chat[n] = NewBackend /\ wire[n] = <<>> /\ phase[n] = "next"
      /\ packets[Peer(n)].in = <<>>
  BY Peers DEF Init
<1>3. TextsOf(chat[n], "Inbound") = <<>>
  <2>1. chat[n] \in Backend /\ chat[n].messages = <<>>
    BY <1>1, <1>2 DEF TypeInv, NodeOK, NewBackend
  <2>2. TextsOf(chat[n], "Inbound") = Kept(chat[n].messages, Directed("Inbound"), MessageText)
    BY <2>1, TextsKept
  <2> QED BY <2>1, <2>2, KeptEmpty
<1>4. Kept(Stream(n), Talk, FrameText) = <<>>
  <2>1. In(Peer(n)) = <<>>
    BY <1>2 DEF In, Frames, Mapped
  <2>2. Stream(n) = <<>> \o (<<>> \o <<>>)
    BY <1>2, <2>1 DEF Stream, ToWrite
  <2>3. <<>> \o (<<>> \o <<>>) = <<>>
    <3>1. <<>> \in Seq({})
      BY EmptySeq
    <3> QED BY <3>1, ConcatEmptySeq
  <2> QED BY <2>2, <2>3, KeptEmpty
<1> QED BY <1>3, <1>4, PartEmpty DEF Heard

\* What a process recorded as received it has read.
LEMMA HeardIn ==
  ASSUME TypeInv, HeardInv, NEW n \in Node, Step(n), NEW w \in Node
  PROVE  IsPartOf(TextsOf(chat[w], "Inbound")', Kept(In(w)', Talk, FrameText))
<1>1. PICK a, k, i : /\ a = TextsOf(chat[w], "Inbound") /\ i = In(w)
                     /\ k = Kept(i, Talk, FrameText)
  OBVIOUS
<1>2. IsPartOf(a, k) /\ i \in Seq(Written(Peer(w))) /\ Peer(w) \in Node
  BY <1>1, Peers DEF HeardInv, Heard, TypeInv, NodeOK
<1>3. a \in Seq(Text \cup {NoText}) /\ k \in Seq(Text \cup {NoText})
  <2>1. chat[w] \in Backend
    BY DEF TypeInv, NodeOK
  <2>2. a \in Seq(Text)
    BY <1>1, <2>1, TextsKept
  <2>3. a \in Seq(Text \cup {NoText})
    BY <2>2, SeqMonotonic
  <2> QED BY <1>1, <1>2, <2>3, TalkType
<1>4. CASE w = n /\ Reads(n)
  <2>1. PICK f \in Written(Peer(n)) : f = Arrived(n) /\ In(n)' = Append(In(n), f)
    BY <1>4, ReadFacts DEF Takes
  <2>2. PICK text : text = f.text
    OBVIOUS
  <2>3. f \in Frame /\ FrameText[f] = text /\ text \in Text \cup {NoText}
    BY <2>1, <2>2 DEF Written, Frame, FrameText
  <2>4. f \in Talk <=> f.kind = "MSG"
    BY <2>3 DEF Talk
  <2>5. i \in Seq(Frame)
    BY <1>2, TalkType
  <2>6. /\ f \in Talk => Kept(Append(i, f), Talk, FrameText)
                          = Append(Kept(i, Talk, FrameText), FrameText[f])
        /\ f \notin Talk => Kept(Append(i, f), Talk, FrameText) = Kept(i, Talk, FrameText)
    BY <2>3, <2>5, KeptMore
  <2>7. \/ TextsOf(chat[w], "Inbound")' = a
        \/ f.kind = "MSG" /\ TextsOf(chat[w], "Inbound")' = Append(a, text)
    BY <1>1, <2>1, <2>2, LogStep
  <2>8. IsPartOf(a, Append(k, text)) /\ IsPartOf(Append(a, text), Append(k, text))
    BY <1>2, <1>3, <2>3, PartMore, PartBoth
  <2>9. In(w)' = Append(i, f)
    BY <1>1, <1>4, <2>1
  <2>10. CASE f \in Talk
    <3>1. Kept(In(w)', Talk, FrameText) = Append(k, text)
      BY <1>1, <2>3, <2>6, <2>9, <2>10
    <3> QED BY <2>7, <2>8, <3>1, Zenon
  <2>11. CASE f \notin Talk
    <3>1. Kept(In(w)', Talk, FrameText) = k
      BY <1>1, <2>6, <2>9, <2>11
    <3>2. TextsOf(chat[w], "Inbound")' = a
      BY <2>4, <2>7, <2>11
    <3> QED BY <1>2, <3>1, <3>2
  <2> QED BY <2>10, <2>11
<1>5. CASE ~(w = n /\ Reads(n))
  <2>1. In(w)' = i /\ TextsOf(chat[w], "Inbound")' = a
    BY <1>1, <1>5, StreamStep, LogStep
  <2> QED BY <1>1, <1>2, <2>1
<1> QED BY <1>4, <1>5

\* What it wrote or will write it has recorded.
LEMMA HeardOut ==
  ASSUME TypeInv, HeardInv, NEW n \in Node, Step(n), NEW w \in Node
  PROVE  IsPartOf(Kept(Stream(w)', Talk, FrameText), TextsOf(chat[w], "Outbound")')
<1>1. PICK a, k, s, S : /\ a = TextsOf(chat[w], "Outbound") /\ s = Stream(w)
                        /\ k = Kept(s, Talk, FrameText) /\ S = Text \cup {NoText}
  BY Zenon
<1>2. IsPartOf(k, a) /\ s \in Seq(Written(w))
  BY <1>1, StreamType DEF HeardInv, Heard
<1>3. a \in Seq(S) /\ k \in Seq(S)
  <2>1. chat[w] \in Backend
    BY DEF TypeInv, NodeOK
  <2>2. a \in Seq(Text)
    BY <1>1, <2>1, TextsKept
  <2>3. a \in Seq(Text \cup {NoText})
    BY <2>2, SeqMonotonic
  <2> QED BY <1>1, <1>2, <2>3, TalkType
<1>4. CASE w = n /\ SendBegin(n)
  <2>1. Stream(w)' = s \o FramesOf(n, Line(n)) /\ HasLine(n)
    BY <1>1, <1>4, BeginStream, BeginFacts, Zenon
  <2>2. PICK f \in Seq(Frame) : f = FramesOf(n, Line(n))
    BY <2>1, FramesOfFacts, TalkType
  <2>3. s \in Seq(Frame)
    BY <1>2, TalkType
  <2>4. Kept(s \o f, Talk, FrameText) = k \o Kept(f, Talk, FrameText)
    <3>1. \A u, v \in Seq(Frame) : Kept(u \o v, Talk, FrameText)
                                     = Kept(u, Talk, FrameText) \o Kept(v, Talk, FrameText)
      BY KeptBoth
    <3> QED BY <1>1, <2>2, <2>3, <3>1, Zenon
  <2>5. PICK text : text = Line(n).text
    OBVIOUS
  <2>6. CASE Line(n).kind = "MSG"
    <3>1. Kept(f, Talk, FrameText) = <<text>> /\ text \in S
      BY <1>1, <2>1, <2>2, <2>5, <2>6, FramesKept, LineFacts
    <3>2. k \o <<text>> = Append(k, text)
      BY <1>3, <3>1, AppendProperties
    <3>3. TextsOf(chat[w], "Outbound")' = Append(a, text)
      BY <1>1, <1>4, <2>5, <2>6, LogStep
    <3>4. IsPartOf(Append(k, text), Append(a, text))
      BY <1>2, <1>3, <3>1, PartBoth
    <3> QED BY <2>1, <2>2, <2>4, <3>1, <3>2, <3>3, <3>4, Zenon
  <2>7. CASE Line(n).kind # "MSG"
    <3>1. Kept(f, Talk, FrameText) = <<>>
      BY <2>1, <2>2, <2>7, FramesKept
    <3>2. k \o <<>> = k
      BY <1>3, ConcatEmptySeq
    <3>3. TextsOf(chat[w], "Outbound")' = a
      BY <1>1, <2>7, LogStep
    <3> QED BY <1>2, <2>1, <2>2, <2>4, <3>1, <3>2, <3>3
  <2> QED BY <2>6, <2>7
<1>5. CASE ~(w = n /\ SendBegin(n))
  <2>1. TextsOf(chat[w], "Outbound")' = a
    BY <1>1, <1>5, LogStep
  <2>2. CASE Stream(w)' = s
    BY <1>1, <1>2, <2>1, <2>2
  <2>3. CASE Loses(w)
    <3>1. PICK b, c, d \in Seq(Written(w)) : s = (b \o c) \o d /\ Stream(w)' = b \o d
      BY <1>1, <2>3, Zenon DEF Loses
    <3>2. IsPartOf(Kept(b \o d, Talk, FrameText), Kept((b \o c) \o d, Talk, FrameText))
      BY <3>1, KeptWithout
    <3>3. b \o d \in Seq(Written(w))
      BY <3>1, ConcatProperties
    <3>4. Kept(b \o d, Talk, FrameText) \in Seq(S)
      BY <1>1, <3>3, TalkType, Zenon
    <3>5. IsPartOf(Kept(b \o d, Talk, FrameText), a)
      BY <1>1, <1>2, <1>3, <3>1, <3>2, <3>4, PartWithin
    <3> QED BY <2>1, <3>1, <3>5
  <2> QED BY <1>1, <1>5, <2>2, <2>3, StreamStep
<1> QED BY <1>4, <1>5

\* Every step of either process keeps what was heard within what was said.
LEMMA HeardNext == TypeInv /\ HeardInv /\ [Next]_vars => HeardInv'
<1> SUFFICES ASSUME TypeInv, HeardInv, [Next]_vars, NEW w \in Node PROVE Heard(w)'
  BY DEF HeardInv, Node
<1>1. CASE UNCHANGED vars
  <2>1. chat' = chat /\ In(w)' = In(w) /\ Stream(w)' = Stream(w)
    BY <1>1 DEF vars, In, Stream, ToWrite
  <2>2. Heard(w)
    BY DEF HeardInv
  <2> QED BY <2>1, <2>2 DEF Heard, TextsOf, Talk, FrameText
<1>2. ASSUME NEW n \in Node, Step(n) PROVE Heard(w)'
  <2>1. /\ IsPartOf(TextsOf(chat[w], "Inbound")', Kept(In(w)', Talk, FrameText))
        /\ IsPartOf(Kept(Stream(w)', Talk, FrameText), TextsOf(chat[w], "Outbound")')
    BY <1>2, HeardIn, HeardOut
  <2> QED BY <2>1 DEF Heard
<1> QED BY <1>1, <1>2 DEF Next, Over

\* The two records of the texts between two processes agree, as far as they go.
LEMMA HeardOfSaid == TypeInv /\ HeardInv => HeardWasSaid
<1> SUFFICES ASSUME TypeInv, HeardInv, NEW n \in Node
             PROVE  IsPartOf(TextsOf(chat[n], "Inbound"), TextsOf(chat[Peer(n)], "Outbound"))
  BY DEF HeardWasSaid
<1>1. PICK p \in Node : p = Peer(n) /\ n = Peer(p)
  BY Peers
<1>2. PICK a, b, c, d, S : /\ a = TextsOf(chat[n], "Inbound") /\ b = Kept(In(n), Talk, FrameText)
                           /\ c = Kept(Stream(p), Talk, FrameText)
                           /\ d = TextsOf(chat[p], "Outbound") /\ S = Text \cup {NoText}
  BY Zenon
<1>3. IsPartOf(a, b) /\ IsPartOf(c, d)
  BY <1>1, <1>2, Zenon DEF HeardInv, Heard
<1>4. a \in Seq(S) /\ d \in Seq(S)
  <2>1. chat[n] \in Backend /\ chat[p] \in Backend
    BY DEF TypeInv, NodeOK
  <2>2. a \in Seq(Text) /\ d \in Seq(Text)
    BY <1>2, <2>1, TextsKept
  <2> QED BY <1>2, <2>2, SeqMonotonic
<1>5. PICK i, r : i = In(n) /\ r = wire[p] \o ToWrite(p)
  BY Zenon
<1>6. i \in Seq(Written(p)) /\ r \in Seq(Written(p)) /\ Stream(p) = i \o r
      /\ Stream(p) \in Seq(Written(p))
  <2>1. i \in Seq(Written(p)) /\ wire[p] \in Seq(Written(p)) /\ ToWrite(p) \in Seq(Written(p))
        /\ Stream(p) \in Seq(Written(p))
    BY <1>1, <1>5, StreamType
  <2>2. wire[p] \o ToWrite(p) \in Seq(Written(p))
    BY <2>1, ConcatProperties
  <2> QED BY <1>1, <1>5, <2>1, <2>2, Zenon DEF Stream
<1>7. b \in Seq(S) /\ c \in Seq(S)
  BY <1>2, <1>5, <1>6, TalkType, Zenon
<1>8. IsPartOf(b, c)
  <2>1. Kept(i \o r, Talk, FrameText) = Kept(i, Talk, FrameText) \o Kept(r, Talk, FrameText)
    BY <1>6, KeptBoth
  <2>2. Kept(r, Talk, FrameText) \in Seq(S)
    BY <1>2, <1>6, TalkType
  <2>3. IsPartOf(b, b \o Kept(r, Talk, FrameText))
    BY <1>7, <2>2, PartOfBoth
  <2> QED BY <1>2, <1>5, <1>6, <2>1, <2>3
<1>9. IsPartOf(a, c)
  BY <1>3, <1>4, <1>7, <1>8, PartWithin
<1>10. IsPartOf(a, d)
  BY <1>3, <1>4, <1>7, <1>9, PartWithin
<1> QED BY <1>1, <1>2, <1>10, Zenon

\* The texts that a process recorded as received are among those that the other one
\* recorded as sent, in the order they were sent in, whatever the scripts do and
\* whichever of their commands fail.
THEOREM HeardRight == Spec => []HeardWasSaid
<1>1. Init => TypeInv /\ HeardInv
  BY InitType, HeardInit
<1>2. TypeInv /\ HeardInv /\ [Next]_vars => (TypeInv /\ HeardInv)'
  BY NextType, HeardNext
<1>3. TypeInv /\ HeardInv => HeardWasSaid
  BY HeardOfSaid
<1> QED BY <1>1, <1>2, <1>3, PTL DEF Spec

-----------------------------------------------------------------------------
(* The chunks of a file stay one behind the other until they are read      *)

\* A part stands behind the one before it.
Chained(s) == \A i \in 1..Len(s) : s[i].part > 0 => i > 1 /\ s[i - 1].part = s[i].part - 1

ChainInv == \A n \in Node : ~Ended(Peer(n)) => Chained(Stream(n))

\* The beginning of a chain.
LEMMA ChainedBegins ==
  ASSUME NEW S, NEW s \in Seq(S), NEW t \in Seq(S), Chained(s \o t)
  PROVE  Chained(s)
<1>1. PICK w : w = s \o t
  BY Zenon
<1>2. /\ Len(s) \in Nat /\ Len(t) \in Nat /\ Len(w) = Len(s) + Len(t)
      /\ \A i \in 1..(Len(s) + Len(t)) : w[i] = IF i <= Len(s) THEN s[i] ELSE t[i - Len(s)]
  BY <1>1, ConcatProperties, LenProperties
<1>3. ASSUME NEW i \in 1..Len(s), s[i].part > 0
      PROVE  i > 1 /\ s[i - 1].part = s[i].part - 1
  <2>1. i \in 1..Len(w) /\ w[i] = s[i]
    BY <1>2
  <2>2. i > 1 /\ w[i - 1].part = w[i].part - 1
    BY <1>1, <1>3, <2>1 DEF Chained
  <2>3. w[i - 1] = s[i - 1]
    <3>1. i - 1 \in 1..(Len(s) + Len(t)) /\ i - 1 <= Len(s)
      BY <1>2, <2>2
    <3> QED BY <1>2, <3>1
  <2> QED BY <2>1, <2>2, <2>3
<1> QED BY <1>3 DEF Chained

\* One chain behind another.
LEMMA ChainedBoth ==
  ASSUME NEW S, NEW s \in Seq(S), NEW t \in Seq(S), Chained(s), Chained(t)
  PROVE  Chained(s \o t)
<1>1. PICK w : w = s \o t
  BY Zenon
<1>2. /\ Len(s) \in Nat /\ Len(t) \in Nat /\ Len(w) = Len(s) + Len(t)
      /\ \A i \in 1..(Len(s) + Len(t)) : w[i] = IF i <= Len(s) THEN s[i] ELSE t[i - Len(s)]
  BY <1>1, ConcatProperties, LenProperties
<1>3. ASSUME NEW i \in 1..Len(w), w[i].part > 0
      PROVE  i > 1 /\ w[i - 1].part = w[i].part - 1
  <2>1. CASE i <= Len(s)
    <3>1. i \in 1..Len(s) /\ w[i] = s[i]
      BY <1>2, <2>1
    <3>2. i > 1 /\ s[i - 1].part = s[i].part - 1
      BY <1>3, <3>1 DEF Chained
    <3>3. w[i - 1] = s[i - 1]
      <4>1. i - 1 \in 1..(Len(s) + Len(t)) /\ i - 1 <= Len(s)
        BY <1>2, <3>1, <3>2
      <4> QED BY <1>2, <4>1
    <3> QED BY <3>1, <3>2, <3>3
  <2>2. CASE ~(i <= Len(s))
    <3>1. PICK j : j = i - Len(s)
      OBVIOUS
    <3>2. j \in 1..Len(t) /\ w[i] = t[j] /\ i \in 1..(Len(s) + Len(t))
      BY <1>2, <2>2, <3>1
    <3>3. j > 1 /\ t[j - 1].part = t[j].part - 1
      BY <1>3, <3>2 DEF Chained
    <3>4. w[i - 1] = t[j - 1] /\ i > 1
      <4>1. i - 1 \in 1..(Len(s) + Len(t)) /\ ~(i - 1 <= Len(s)) /\ (i - 1) - Len(s) = j - 1
        BY <1>2, <3>1, <3>2, <3>3
      <4>2. w[i - 1] = t[(i - 1) - Len(s)]
        BY <1>2, <4>1
      <4> QED BY <1>2, <4>1, <4>2
    <3> QED BY <3>2, <3>3, <3>4
  <2> QED BY <2>1, <2>2
<1> QED BY <1>1, <1>3 DEF Chained

\* The frames of a command are a chain.
LEMMA FramesChained ==
  ASSUME TypeInv, NEW n \in Node, HasLine(n)
  PROVE  Chained(FramesOf(n, Line(n)))
<1>1. PICK c, s : c = Line(n) /\ s = FramesOf(n, c)
  OBVIOUS
<1>2. CASE c.kind = "FILE"
  <2>1. PICK L, text : L = Chunks[text] /\ L \in Nat \ {0} /\ text = c.text
    BY <1>1, <1>2, FileFrames
  <2>2. /\ Len(s) = L + 1 /\ s[1] = FrameOf(n, "OFFER", text, 0)
        /\ \A i \in 2..(L + 1) : s[i] = FrameOf(n, "CHUNK", text, i - 1)
    BY <1>1, <1>2, <2>1, FileFrames, Zenon
  <2>3. \A i \in 1..(L + 1) : s[i].part = i - 1
    <3>1. s[1].part = 0
      BY <2>2 DEF FrameOf
    <3>2. ASSUME NEW i \in 2..(L + 1) PROVE s[i].part = i - 1
      <4>1. PICK j : j = i - 1
        OBVIOUS
      <4>2. s[i] = [kind |-> "CHUNK", from |-> n, to |-> peerCall[n], text |-> text, part |-> j]
        BY <2>2, <4>1 DEF FrameOf
      <4> QED BY <4>1, <4>2
    <3>3. \A i \in 1..(L + 1) : i = 1 \/ i \in 2..(L + 1)
      BY <2>1
    <3> QED BY <3>1, <3>2, <3>3
  <2>4. ASSUME NEW i \in 1..Len(s), s[i].part > 0
        PROVE  i > 1 /\ s[i - 1].part = s[i].part - 1
    <3>0. PICK k : k = s[i].part
      OBVIOUS
    <3>1. s[i].part = i - 1 /\ i > 1
      <4>1. i \in 1..(L + 1)
        BY <2>2, <2>4
      <4>2. k = i - 1 /\ k > 0
        BY <2>3, <2>4, <3>0, <4>1
      <4>3. i > 1
        BY <2>1, <4>1, <4>2
      <4> QED BY <3>0, <4>2, <4>3
    <3>2. i - 1 \in 1..(L + 1)
      BY <2>1, <2>2, <3>1
    <3>3. s[i - 1].part = (i - 1) - 1
      BY <2>3, <3>2
    <3> QED BY <3>1, <3>3
  <2> QED BY <1>1, <2>4 DEF Chained
<1>3. CASE c.kind # "FILE"
  <2>1. s = <<FrameOf(n, c.kind, c.text, 0)>>
    BY <1>1, <1>3 DEF FramesOf
  <2>2. Len(s) = 1 /\ s[1].part = 0
    BY <2>1 DEF FrameOf
  <2> QED BY <1>1, <2>2 DEF Chained
<1> QED BY <1>2, <1>3

\* What has ended stays so.
LEMMA EndedStays ==
  ASSUME TypeInv, NEW n \in Node, Step(n), NEW w \in Node, Ended(w)
  PROVE  Ended(w)'
<1>1. w = n \/ w = Peer(n)
  BY Peers
<1>2. CASE SendBegin(n)
  BY <1>1, <1>2, BeginFacts DEF Ended, Same
<1>3. CASE Fails(n)
  BY <1>1, <1>3, FailsFacts, Zenon DEF Ended, Same
<1>4. CASE FrameBegin(n)
  BY <1>1, <1>4, FrameFacts DEF Ended
<1>5. CASE FrameEnd(n) \/ SendEnd(n)
  BY <1>1, <1>5, WrittenFacts, Zenon DEF Ended, Same
<1>6. CASE SendFails(n)
  BY <1>1, <1>6, SendFailsFacts, Zenon DEF Ended, Same
<1>7. CASE Reads(n)
  BY <1>1, <1>7, ReadFacts, Zenon DEF Ended, Meets, Opens, Keeps, Saves, Misses
<1>8. CASE Finish(n)
  BY <1>1, <1>8, FinishFacts DEF Ended
<1> QED BY <1>2, <1>3, <1>4, <1>5, <1>6, <1>7, <1>8, StepKinds

\* Nothing has been written yet.
LEMMA StreamInit ==
  ASSUME Init, NEW n \in Node
  PROVE  Stream(n) = <<>> /\ In(n) = <<>> /\ Out(n) = <<>>
<1>1. /\ wire[n] = <<>> /\ phase[n] = "next" /\ packets[Peer(n)].in = <<>>
      /\ packets[n].in = <<>> /\ packets[n].out = <<>>
  BY Peers DEF Init
<1>2. In(Peer(n)) = <<>> /\ In(n) = <<>> /\ Out(n) = <<>>
  BY <1>1 DEF In, Out, Frames, Mapped
<1>3. Stream(n) = <<>> \o (<<>> \o <<>>)
  BY <1>1, <1>2 DEF Stream, ToWrite
<1>4. <<>> \o (<<>> \o <<>>) = <<>>
  <2>1. <<>> \in Seq({})
    BY EmptySeq
  <2> QED BY <2>1, ConcatEmptySeq
<1> QED BY <1>2, <1>3, <1>4

\* At first there are no frames.
LEMMA ChainInit == Init => ChainInv
<1> SUFFICES ASSUME Init, NEW n \in Node PROVE Chained(Stream(n))
  BY DEF ChainInv
<1>1. Stream(n) = <<>> /\ Len(<<>>) = 0
  BY StreamInit
<1> QED BY <1>1 DEF Chained

\* Every step keeps the chunks of a file behind one another.
LEMMA ChainNext == TypeInv /\ ChainInv /\ [Next]_vars => ChainInv'
<1> SUFFICES ASSUME TypeInv, ChainInv, [Next]_vars, NEW w \in Node, ~Ended(Peer(w))'
             PROVE  Chained(Stream(w)')
  BY DEF ChainInv, Node, Chained
<1>1. CASE UNCHANGED vars
  <2>1. Stream(w)' = Stream(w) /\ ~Ended(Peer(w))
    BY <1>1 DEF vars, In, Stream, ToWrite, Ended
  <2> QED BY <2>1 DEF ChainInv
<1>2. ASSUME NEW n \in Node, Step(n) PROVE Chained(Stream(w)')
  <2>1. ~Ended(Peer(w))
    BY <1>2, EndedStays, Peers
  <2>2. PICK s \in Seq(Written(w)) : s = Stream(w) /\ Chained(s)
    BY <2>1, StreamType DEF ChainInv
  <2>3. CASE Stream(w)' = s
    BY <2>2, <2>3
  <2>4. CASE w = n /\ SendBegin(n) /\ Stream(n)' = Stream(n) \o FramesOf(n, Line(n))
    <3>1. PICK f \in Seq(Written(w)) : f = FramesOf(n, Line(n)) /\ Chained(f)
      BY <2>4, BeginFacts, FramesOfFacts, FramesChained
    <3>2. Chained(s \o f)
      BY <2>2, <3>1, ChainedBoth
    <3> QED BY <2>2, <2>4, <3>1, <3>2
  <2>5. CASE Loses(w)
    <3>1. PICK a, b, c \in Seq(Written(w)) :
            s = (a \o b) \o c /\ Stream(w)' = a \o c /\ c = <<>>
      BY <2>2, <2>5, Zenon DEF Loses
    <3>2. s = a \o b /\ Stream(w)' = a
      <4>1. a \o b \in Seq(Written(w))
        BY <3>1, ConcatProperties
      <4>2. (a \o b) \o <<>> = a \o b /\ a \o <<>> = a
        BY <3>1, <4>1, ConcatEmptySeq
      <4> QED BY <3>1, <4>2
    <3>3. Chained(a)
      BY <2>2, <3>1, <3>2, ChainedBegins
    <3> QED BY <3>2, <3>3
  <2> QED BY <1>2, <2>2, <2>3, <2>4, <2>5, StreamStep
<1> QED BY <1>1, <1>2 DEF Next, Over

\* Before a part that arrives the one before it was read.
LEMMA ArrivedChained ==
  ASSUME TypeInv, ChainInv, NEW n \in Node, Reads(n), Arrived(n).part > 0
  PROVE  Len(In(n)) > 0 /\ In(n)[Len(In(n))].part = Arrived(n).part - 1
<1>1. PICK p \in Node : p = Peer(n) /\ n = Peer(p)
  BY Peers
<1>2. PICK f : f = Arrived(n)
  OBVIOUS
<1>3. /\ wire[p] # <<>> /\ f = Head(wire[p]) /\ ~Ended(n)
      /\ Meets(n) \/ Opens(n) \/ Keeps(n) \/ Saves(n) \/ Misses(n)
  <2>1. Meets(n) \/ Opens(n) \/ Keeps(n) \/ Saves(n) \/ Misses(n)
    BY ReadFacts
  <2>2. ~Ended(n)
    BY <2>1, Zenon DEF Ended, Meets, Opens, Keeps, Saves, Misses
  <2> QED BY <1>1, <1>2, <2>1, <2>2, ReadFacts DEF Takes, Arrived
<1>4. PICK i, v, t, S : i = In(n) /\ v = Tail(wire[p]) /\ t = ToWrite(p) /\ S = Written(p)
  BY Zenon
<1>5. /\ i \in Seq(S) /\ f \in S /\ v \in Seq(S) /\ t \in Seq(S) /\ wire[p] = <<f>> \o v
      /\ <<f>> \in Seq(S)
  <2>1. i \in Seq(S) /\ wire[p] \in Seq(S) /\ t \in Seq(S)
    BY <1>1, <1>4, StreamType, Zenon
  <2>2. f \in S /\ v \in Seq(S) /\ wire[p] = <<f>> \o v
    BY <1>3, <1>4, <2>1, FirstOfMany
  <2> QED BY <2>1, <2>2
<1>6. Stream(p) = i \o ((<<f>> \o v) \o t)
  BY <1>1, <1>4, <1>5, Zenon DEF Stream
<1>7. Stream(p) = Append(i, f) \o (v \o t) /\ v \o t \in Seq(S) /\ Append(i, f) \in Seq(S)
  <2>1. Append(i, f) = i \o <<f>> /\ v \o t \in Seq(S) /\ Append(i, f) \in Seq(S)
    BY <1>5, AppendProperties, ConcatProperties
  <2>2. (i \o <<f>>) \o (v \o t) = i \o (<<f>> \o (v \o t))
    BY <1>5, <2>1, ConcatAssociative, SMTT(30)
  <2>3. (<<f>> \o v) \o t = <<f>> \o (v \o t)
    BY <1>5, ConcatAssociative
  <2> QED BY <1>6, <2>1, <2>2, <2>3, Zenon
<1>8. PICK g \in Seq(S) : g = Append(i, f)
  BY <1>7, Zenon
<1>9. Chained(g)
  <2>1. Chained(Stream(p))
    BY <1>1, <1>3 DEF ChainInv
  <2>2. PICK r \in Seq(S) : r = v \o t
    BY <1>7, Zenon
  <2>3. Stream(p) = g \o r
    BY <1>7, <1>8, <2>2
  <2> QED BY <1>8, <2>1, <2>2, <2>3, ChainedBegins, Zenon
<1>10. /\ Len(i) \in Nat /\ Len(g) = Len(i) + 1 /\ g[Len(i) + 1] = f
       /\ \A j \in 1..Len(i) : g[j] = i[j]
  BY <1>5, <1>8, AppendProperties, LenProperties
<1>11. Len(i) + 1 > 1 /\ g[Len(i) + 1 - 1].part = f.part - 1
  <2>1. Len(i) + 1 \in 1..Len(g) /\ g[Len(i) + 1].part > 0
    BY <1>2, <1>10
  <2> QED BY <1>9, <1>10, <2>1 DEF Chained
<1>12. Len(i) > 0 /\ Len(i) + 1 - 1 = Len(i) /\ Len(i) \in 1..Len(i)
  BY <1>10, <1>11
<1> QED BY <1>2, <1>4, <1>10, <1>11, <1>12

-----------------------------------------------------------------------------
(* A file that was saved came whole                                        *)

\* t is the end of s, and its frames are the parts of one file from its offer on.
Ends(t, s) == /\ Len(t) <= Len(s)
              /\ \A i \in 1..Len(t) : t[i] = s[Len(s) - Len(t) + i]
Counted(t) == \A i \in 1..Len(t) : t[i].part = i - 1

CameWhole(s, text) ==
  \E k \in 1..Len(s) : \A part \in 0..Chunks[text] :
    k + part \in 1..Len(s) /\ s[k + part].text = text /\ s[k + part].part = part

\* The file under way is what was read last, and those that were saved were read before.
Saved(n) ==
  /\ phase[n] = "chunks" =>
       transfer[n] # <<>> /\ Ends(transfer[n], In(n)) /\ Counted(transfer[n])
  /\ \A i \in 1..Len(saved[n]) : CameWhole(In(n), saved[n][i])

SavedInv == \A n \in Node : Saved(n)

\* The end of a list with an element more.
LEMMA EndsMore ==
  ASSUME NEW S, NEW t \in Seq(S), NEW s \in Seq(S), NEW e \in S, Ends(t, s)
  PROVE  Ends(Append(t, e), Append(s, e))
<1>1. PICK u, v, M, N : u = Append(t, e) /\ v = Append(s, e) /\ M = Len(t) /\ N = Len(s)
  BY Zenon
<1>2. /\ M \in Nat /\ N \in Nat /\ Len(u) = M + 1 /\ Len(v) = N + 1
      /\ \A i \in 1..M : u[i] = t[i]
      /\ \A i \in 1..N : v[i] = s[i]
      /\ u[M + 1] = e /\ v[N + 1] = e
  BY <1>1, AppendProperties, LenProperties
<1>3. M <= N /\ \A i \in 1..M : t[i] = s[N - M + i]
  BY <1>1 DEF Ends
<1>4. ASSUME NEW i \in 1..(M + 1) PROVE u[i] = v[(N + 1) - (M + 1) + i]
  <2>1. CASE i = M + 1
    <3>1. (N + 1) - (M + 1) + i = N + 1
      BY <1>2, <2>1
    <3> QED BY <1>2, <2>1, <3>1
  <2>2. CASE i # M + 1
    <3>1. i \in 1..M /\ (N + 1) - (M + 1) + i = N - M + i /\ N - M + i \in 1..N
      BY <1>2, <1>3, <2>2
    <3> QED BY <1>2, <1>3, <3>1
  <2> QED BY <2>1, <2>2
<1>5. M + 1 <= N + 1
  BY <1>2, <1>3
<1> QED BY <1>1, <1>2, <1>4, <1>5, Zenon DEF Ends

\* What is there stays there.
LEMMA CameMore ==
  ASSUME NEW S, NEW s \in Seq(S), NEW e \in S, NEW text, CameWhole(s, text)
  PROVE  CameWhole(Append(s, e), text)
<1>1. PICK v, N : v = Append(s, e) /\ N = Len(s)
  BY Zenon
<1>2. N \in Nat /\ Len(v) = N + 1 /\ \A i \in 1..N : v[i] = s[i]
  BY <1>1, AppendProperties, LenProperties
<1>3. PICK k \in 1..N : \A part \in 0..Chunks[text] :
        k + part \in 1..N /\ s[k + part].text = text /\ s[k + part].part = part
  BY <1>1 DEF CameWhole
<1>4. \A i \in 1..N : i \in 1..(N + 1)
  BY <1>2
<1>5. \A part \in 0..Chunks[text] :
        k + part \in 1..Len(v) /\ v[k + part].text = text /\ v[k + part].part = part
  BY <1>2, <1>3, <1>4
<1>6. k \in 1..Len(v)
  BY <1>2, <1>3, <1>4
<1> QED BY <1>1, <1>5, <1>6, Zenon DEF CameWhole

\* A transfer that is whole is all of its file.
LEMMA WholeCame ==
  ASSUME NEW S, NEW t \in Seq(S), NEW s \in Seq(S), NEW text \in Text,
         Ends(t, s), Counted(t), Whole(t, text)
  PROVE  Len(t) = Chunks[text] + 1 /\ CameWhole(s, text)
<1>1. PICK M, N, L : M = Len(t) /\ N = Len(s) /\ L = Chunks[text]
  BY Zenon
<1>2. M \in Nat /\ N \in Nat /\ L \in Nat \ {0} /\ DOMAIN t = 1..M
  BY <1>1, LenProperties, ScriptAssumption
<1>3. /\ M <= N /\ \A i \in 1..M : t[i] = s[N - M + i]
      /\ \A i \in 1..M : t[i].part = i - 1 /\ t[i].text = text
      /\ {t[i].part : i \in 1..M} = 0..L
  BY <1>1, <1>2, Zenon DEF Ends, Counted, Whole
<1>4. M = L + 1
  <2>1. PICK i \in 1..M : t[i].part = L
    <3>1. L \in 0..L
      BY <1>2
    <3> QED BY <1>3, <3>1
  <2>2. L + 1 <= M
    BY <1>2, <1>3, <2>1
  <2>3. M \in 1..M
    BY <1>2, <2>2
  <2>4. t[M].part \in 0..L /\ t[M].part = M - 1
    BY <1>3, <2>3
  <2> QED BY <1>2, <2>2, <2>4
<1>5. PICK k : k = N - L
  OBVIOUS
<1>6. k \in 1..N
  BY <1>2, <1>3, <1>4, <1>5
<1>7. ASSUME NEW part \in 0..L
      PROVE  k + part \in 1..N /\ s[k + part].text = text /\ s[k + part].part = part
  <2>1. /\ part + 1 \in 1..M /\ N - M + (part + 1) = k + part /\ k + part \in 1..N
        /\ part + 1 - 1 = part
    BY <1>2, <1>3, <1>4, <1>5
  <2>2. t[part + 1] = s[N - M + (part + 1)]
    BY <1>3, <2>1
  <2>3. t[part + 1] = s[k + part]
    BY <2>1, <2>2
  <2>4. t[part + 1].part = part /\ t[part + 1].text = text
    BY <1>3, <2>1
  <2> QED BY <2>1, <2>3, <2>4
<1> QED BY <1>1, <1>4, <1>6, <1>7 DEF CameWhole

\* A process that does not read has no transfer of its own to keep.
LEMMA OtherTransfers ==
  ASSUME TypeInv, NEW n \in Node, Step(n), NEW w \in Node, ~(w = n /\ Reads(n))
  PROVE  /\ In(w)' = In(w) /\ saved'[w] = saved[w]
         /\ phase'[w] = "chunks" => phase[w] = "chunks" /\ transfer'[w] = transfer[w]
         /\ transfer'[w] = transfer[w] \/ transfer'[w] = <<>>
<1>1. w = n \/ w = Peer(n)
  BY Peers
<1>2. In(w)' = In(w)
  BY StreamStep
<1>3. CASE SendBegin(n)
  BY <1>1, <1>2, <1>3, BeginFacts DEF Same
<1>4. CASE Fails(n)
  BY <1>1, <1>2, <1>4, FailsFacts, Zenon DEF Same
<1>5. CASE FrameBegin(n)
  BY <1>1, <1>2, <1>5, FrameFacts
<1>6. CASE FrameEnd(n) \/ SendEnd(n)
  BY <1>1, <1>2, <1>6, WrittenFacts, Zenon DEF Same
<1>7. CASE SendFails(n)
  BY <1>1, <1>2, <1>7, SendFailsFacts, Zenon DEF Same
<1>8. CASE Reads(n)
  BY <1>1, <1>2, <1>8, ReadFacts
<1>9. CASE Finish(n)
  BY <1>1, <1>2, <1>9, FinishFacts
<1> QED BY <1>3, <1>4, <1>5, <1>6, <1>7, <1>8, <1>9, StepKinds

\* A chunk that is taken is the next part of the transfer.
LEMMA ChunkArrived ==
  ASSUME TypeInv, ChainInv, SavedInv, NEW n \in Node, Reads(n), phase[n] = "chunks",
         IsChunk(n, Arrived(n))
  PROVE  /\ Append(transfer[n], Arrived(n)) \in Seq(Written(Peer(n)))
         /\ Ends(Append(transfer[n], Arrived(n)), In(n)')
         /\ Counted(Append(transfer[n], Arrived(n)))
<1>1. PICK t, i, S : t = transfer[n] /\ i = In(n) /\ S = Written(Peer(n))
  OBVIOUS
<1>2. PICK f : f = Arrived(n)
  OBVIOUS
<1>3. /\ t \in Seq(S) /\ i \in Seq(S) /\ f \in S /\ In(n)' = Append(i, f)
      /\ f.part \in Nat /\ f.part # 0
  <2>1. Takes(n)
    BY ReadFacts
  <2>2. f \in S /\ In(n)' = Append(i, f)
    BY <1>1, <1>2, <2>1 DEF Takes
  <2>3. f.part \in Nat /\ f.part # 0
    BY <1>1, <1>2, <2>2 DEF Written, Frame, IsChunk
  <2> QED BY <1>1, <2>2, <2>3 DEF TypeInv, NodeOK
<1>4. t # <<>> /\ Ends(t, i) /\ Counted(t)
  BY <1>1 DEF SavedInv, Saved
<1>5. Ends(Append(t, f), Append(i, f))
  BY <1>3, <1>4, EndsMore
<1>6. Len(i) > 0 /\ i[Len(i)].part = f.part - 1
  <2>1. f.part > 0
    BY <1>3
  <2> QED BY <1>1, <1>2, <2>1, ArrivedChained
<1>7. PICK M, N : M = Len(t) /\ N = Len(i) /\ M \in Nat \ {0} /\ N \in Nat /\ M <= N
  <2>1. Len(t) \in Nat \ {0} /\ Len(i) \in Nat /\ Len(t) <= Len(i)
    BY <1>3, <1>4, EmptySeq, LenProperties DEF Ends
  <2> QED BY <2>1
<1>8. t[M] = i[N] /\ t[M].part = M - 1
  <2>1. M \in 1..M /\ N - M + M = N
    BY <1>7
  <2>2. t[M] = i[N - M + M] /\ t[M].part = M - 1
    BY <1>4, <1>7, <2>1 DEF Ends, Counted
  <2> QED BY <2>1, <2>2
<1>9. f.part = M
  BY <1>3, <1>6, <1>7, <1>8
<1>10. Counted(Append(t, f)) /\ Append(t, f) \in Seq(S)
  <2>1. PICK u : u = Append(t, f)
    BY Zenon
  <2>2. /\ u \in Seq(S) /\ Len(u) = M + 1 /\ u[M + 1] = f /\ \A j \in 1..M : u[j] = t[j]
    BY <1>3, <1>7, <2>1, AppendProperties
  <2>3. ASSUME NEW j \in 1..Len(u) PROVE u[j].part = j - 1
    <3>1. CASE j = M + 1
      BY <1>7, <1>9, <2>2, <3>1
    <3>2. CASE j # M + 1
      <4>1. j \in 1..M
        BY <1>7, <2>2, <3>2
      <4> QED BY <1>4, <1>7, <2>2, <4>1 DEF Counted
    <3> QED BY <3>1, <3>2
  <2> QED BY <2>1, <2>2, <2>3 DEF Counted
<1> QED BY <1>1, <1>2, <1>3, <1>5, <1>10

\* A process that reads.
LEMMA ReadSaved ==
  ASSUME TypeInv, ChainInv, SavedInv, NEW n \in Node, Reads(n)
  PROVE  Saved(n)'
<1>1. PICK i, t, s, S : i = In(n) /\ t = transfer[n] /\ s = saved[n] /\ S = Written(Peer(n))
  OBVIOUS
<1>2. PICK f : f = Arrived(n)
  OBVIOUS
<1>3. /\ Takes(n) /\ HasLine(n)
      /\ Meets(n) \/ Opens(n) \/ Keeps(n) \/ Saves(n) \/ Misses(n)
  BY ReadFacts
<1>4. /\ i \in Seq(S) /\ f \in S /\ In(n)' = Append(i, f) /\ s \in Seq(Text)
      /\ phase[n] = "chunks" => t # <<>> /\ Ends(t, i) /\ Counted(t)
      /\ \A j \in 1..Len(s) : CameWhole(i, s[j])
  BY <1>1, <1>2, <1>3, Zenon DEF Takes, TypeInv, NodeOK, SavedInv, Saved
<1>5. \A j \in 1..Len(s) : CameWhole(In(n)', s[j])
  BY <1>4, CameMore
<1>6. CASE Meets(n) \/ Misses(n)
  <2>1. phase'[n] # "chunks" /\ saved'[n] = s
    BY <1>1, <1>6, Zenon DEF Meets, Misses
  <2> QED BY <1>5, <2>1 DEF Saved, CameWhole
<1>7. CASE Opens(n)
  <2>1. saved'[n] = s /\ transfer'[n] = <<f>> /\ f.kind = "OFFER"
    BY <1>1, <1>2, <1>7 DEF Opens, Expected
  <2>2. f.part = 0
    BY <1>1, <1>4, <2>1 DEF Written
  <2>3. <<f>> # <<>> /\ Counted(<<f>>)
    BY <2>2 DEF Counted
  <2>4. Ends(<<f>>, Append(i, f))
    <3>1. <<>> \in Seq(S) /\ Ends(<<>>, i)
      <4>1. Len(i) \in Nat /\ Len(<<>>) = 0
        BY <1>4, LenProperties
      <4> QED BY <4>1, EmptySeq DEF Ends
    <3>2. Ends(Append(<<>>, f), Append(i, f))
      BY <1>4, <3>1, EndsMore, Zenon
    <3>3. Append(<<>>, f) = <<f>>
      OBVIOUS
    <3> QED BY <3>2, <3>3
  <2>5. PICK u : u = <<f>> /\ u # <<>> /\ Counted(u) /\ Ends(u, In(n)')
    BY <1>4, <2>3, <2>4, Zenon
  <2> QED BY <1>5, <2>1, <2>5 DEF Saved
<1>8. CASE Keeps(n)
  <2>1. saved'[n] = s /\ transfer'[n] = Append(t, f)
    BY <1>1, <1>2, <1>8 DEF Keeps
  <2>2. PICK u \in Seq(S) : u = Append(t, f) /\ Ends(u, In(n)') /\ Counted(u)
    BY <1>1, <1>2, <1>8, ChunkArrived, Zenon DEF Keeps
  <2>3. u # <<>>
    <3>1. t \in Seq(S)
      BY <1>1 DEF TypeInv, NodeOK
    <3>2. Len(u) = Len(t) + 1 /\ Len(t) \in Nat
      BY <1>4, <2>2, <3>1, AppendProperties, LenProperties
    <3> QED BY <3>2
  <2> QED BY <1>5, <2>1, <2>2, <2>3, ZenonT(60) DEF Saved, Ends, Counted, CameWhole
<1>9. CASE Saves(n)
  <2>1. PICK text \in Text : text = Line(n).text
    <3>1. Line(n).kind = "FILE"
      BY <1>9 DEF Saves, TypeInv, AtHand
    <3> QED BY <1>3, <3>1, LineFacts DEF Plain
  <2>2. saved'[n] = Append(s, text) /\ phase'[n] # "chunks" /\ Whole(Append(t, f), text)
    BY <1>1, <1>2, <1>9, <2>1 DEF Saves
  <2>3. PICK u \in Seq(S) : u = Append(t, f) /\ Ends(u, In(n)') /\ Counted(u)
    BY <1>1, <1>2, <1>9, ChunkArrived, Zenon DEF Saves
  <2>4. Append(i, f) \in Seq(S)
    BY <1>4, AppendProperties
  <2>5. CameWhole(In(n)', text)
    BY <1>4, <2>1, <2>2, <2>3, <2>4, WholeCame, Zenon
  <2>6. PICK r : r = Append(s, text)
    BY Zenon
  <2>7. /\ Len(s) \in Nat /\ Len(r) = Len(s) + 1 /\ r[Len(s) + 1] = text
        /\ \A j \in 1..Len(s) : r[j] = s[j]
    BY <1>4, <2>1, <2>6, AppendProperties, LenProperties
  <2>8. ASSUME NEW j \in 1..Len(r) PROVE CameWhole(In(n)', r[j])
    <3>1. j = Len(s) + 1 \/ j \in 1..Len(s)
      BY <2>7
    <3> QED BY <1>5, <2>5, <2>7, <3>1
  <2> QED BY <2>2, <2>6, <2>8 DEF Saved, CameWhole
<1> QED BY <1>3, <1>6, <1>7, <1>8, <1>9

\* At first nothing was saved.
LEMMA SavedInit == Init => SavedInv
<1> SUFFICES ASSUME Init, NEW n \in Node PROVE Saved(n)
  BY DEF SavedInv
<1>1. phase[n] = "next" /\ saved[n] = <<>> /\ Len(<<>>) = 0
  BY DEF Init
<1> QED BY <1>1 DEF Saved

\* Every step leaves only files saved that came whole.
LEMMA SavedNext == TypeInv /\ ChainInv /\ SavedInv /\ [Next]_vars => SavedInv'
<1> SUFFICES ASSUME TypeInv, ChainInv, SavedInv, [Next]_vars, NEW w \in Node PROVE Saved(w)'
  BY DEF SavedInv, Node
<1>0. Saved(w)
  BY DEF SavedInv
<1>1. CASE UNCHANGED vars
  <2>1. In(w)' = In(w)
    BY <1>1 DEF vars, In
  <2> QED BY <1>0, <1>1, <2>1 DEF vars, Saved
<1>2. ASSUME NEW n \in Node, Step(n) PROVE Saved(w)'
  <2>1. CASE w = n /\ Reads(n)
    BY <2>1, ReadSaved
  <2>2. CASE ~(w = n /\ Reads(n))
    <3>1. /\ In(w)' = In(w) /\ saved'[w] = saved[w]
          /\ phase'[w] = "chunks" => phase[w] = "chunks" /\ transfer'[w] = transfer[w]
      BY <1>2, <2>2, OtherTransfers
    <3> QED BY <1>0, <3>1 DEF Saved
  <2> QED BY <2>1, <2>2
<1> QED BY <1>1, <1>2 DEF Next, Over

\* The frames of the reports, one by one.
LEMMA InFacts ==
  ASSUME TypeInv, NEW n \in Node
  PROVE  /\ DOMAIN packets[n].in = 1..Len(In(n)) /\ Len(In(n)) \in Nat
         /\ Len(In(n)) = Len(packets[n].in) /\ Len(Out(n)) = Len(packets[n].out)
         /\ \A i \in 1..Len(In(n)) :
              packets[n].in[i].frame = In(n)[i] /\ In(n)[i].from = Peer(n)
<1>1. PICK r, o \in Seq(Packet) : r = packets[n].in /\ o = packets[n].out
  <2>1. packets[n] \in [out: Seq(Packet), in: Seq(Packet)]
    BY DEF TypeInv, NodeOK
  <2> QED BY <2>1
<1>2. PICK i : i = In(n) /\ i \in Seq(Written(Peer(n)))
  BY DEF TypeInv, NodeOK
<1>3. PICK q : q = Out(n) /\ q \in Seq(Written(n))
  BY DEF TypeInv, NodeOK
<1>4. i = [k \in DOMAIN r |-> FrameIn[r[k]]] /\ q = [k \in DOMAIN o |-> FrameIn[o[k]]]
  BY <1>1, <1>2, <1>3 DEF In, Out, Frames, Mapped
<1>5. /\ DOMAIN r = 1..Len(r) /\ DOMAIN i = 1..Len(i) /\ Len(r) \in Nat /\ Len(i) \in Nat
      /\ DOMAIN o = 1..Len(o) /\ DOMAIN q = 1..Len(q) /\ Len(o) \in Nat /\ Len(q) \in Nat
  BY <1>2, <1>3, LenProperties
<1>6. DOMAIN i = DOMAIN r /\ DOMAIN q = DOMAIN o
  BY <1>4
<1>7. Len(i) = Len(r) /\ Len(q) = Len(o)
  <2>1. ASSUME NEW a \in Nat, NEW b \in Nat, 1..a = 1..b PROVE a = b
    <3>1. a \in 1..a \/ a = 0
      OBVIOUS
    <3>2. b \in 1..b \/ b = 0
      OBVIOUS
    <3>3. a <= b /\ b <= a
      BY <2>1, <3>1, <3>2
    <3> QED BY <3>3
  <2>2. 1..Len(i) = 1..Len(r) /\ 1..Len(q) = 1..Len(o)
    BY <1>5, <1>6, Zenon
  <2> QED BY <1>5, <2>1, <2>2, Zenon
<1>8. ASSUME NEW k \in 1..Len(i) PROVE r[k].frame = i[k] /\ i[k].from = Peer(n)
  <2>1. r[k] \in Packet /\ i[k] \in Written(Peer(n))
    BY <1>2, <1>7, ElementOfSeq
  <2>2. i[k] = FrameIn[r[k]]
    BY <1>4, <1>5, <1>6
  <2> QED BY <2>1, <2>2 DEF FrameIn, Written
<1> QED BY <1>1, <1>2, <1>3, <1>5, <1>6, <1>7, <1>8

\* The files are the saved part of what was read, whose chunks stand side by side.
LEMMA SavedOfCame == TypeInv /\ SavedInv => SavedCameWhole
<1> SUFFICES ASSUME TypeInv, SavedInv, NEW n \in Node, NEW j \in DOMAIN saved[n]
             PROVE  \E k \in DOMAIN packets[n].in :
                      \A part \in 0..Chunks[saved[n][j]] :
                        /\ k + part \in DOMAIN packets[n].in
                        /\ LET f == packets[n].in[k + part].frame
                           IN f.text = saved[n][j] /\ f.part = part /\ f.from = Peer(n)
  BY DEF SavedCameWhole
<1>1. PICK text : text = saved[n][j] /\ CameWhole(In(n), text)
  <2>1. saved[n] \in Seq(Text)
    BY DEF TypeInv, NodeOK
  <2>2. j \in 1..Len(saved[n])
    BY <2>1, LenProperties
  <2> QED BY <2>2 DEF SavedInv, Saved
<1>2. PICK i, r : i = In(n) /\ r = packets[n].in
  OBVIOUS
<1>3. /\ DOMAIN r = 1..Len(i)
      /\ \A k \in 1..Len(i) : r[k].frame = i[k] /\ i[k].from = Peer(n)
  BY <1>2, InFacts
<1>4. PICK k \in 1..Len(i) : \A part \in 0..Chunks[text] :
        k + part \in 1..Len(i) /\ i[k + part].text = text /\ i[k + part].part = part
  BY <1>1, <1>2 DEF CameWhole
<1>5. ASSUME NEW part \in 0..Chunks[text]
      PROVE  /\ k + part \in DOMAIN r
             /\ LET f == r[k + part].frame
                IN f.text = text /\ f.part = part /\ f.from = Peer(n)
  <2>1. k + part \in 1..Len(i) /\ i[k + part].text = text /\ i[k + part].part = part
    BY <1>4
  <2> QED BY <1>3, <2>1
<1>6. \E m \in DOMAIN r : \A part \in 0..Chunks[text] :
        /\ m + part \in DOMAIN r
        /\ LET f == r[m + part].frame
           IN f.text = text /\ f.part = part /\ f.from = Peer(n)
  BY <1>3, <1>5
<1> QED BY <1>1, <1>2, <1>6

\* A file in the received directory came whole, its offer and its chunks in order and
\* with nothing between, also after transfers that broke off, whatever was lost.
THEOREM SavedWhole == Spec => []SavedCameWhole
<1>1. Init => TypeInv /\ ChainInv /\ SavedInv
  BY InitType, ChainInit, SavedInit
<1>2. TypeInv /\ ChainInv /\ SavedInv /\ [Next]_vars => (TypeInv /\ ChainInv /\ SavedInv)'
  BY NextType, ChainNext, SavedNext
<1>3. TypeInv /\ SavedInv => SavedCameWhole
  BY SavedOfCame
<1> QED BY <1>1, <1>2, <1>3, PTL DEF Spec

-----------------------------------------------------------------------------
(* What was read is a beginning of what was reported as written            *)

Begins(r, w) == Len(r) <= Len(w) /\ \A i \in 1..Len(r) : r[i] = w[i]

\* A beginning of a beginning is one.
LEMMA BeginsWithin ==
  ASSUME NEW S, NEW r \in Seq(S), NEW s \in Seq(S), NEW t \in Seq(S), Begins(r, s), Begins(s, t)
  PROVE  Begins(r, t)
<1>1. Len(r) \in Nat /\ Len(s) \in Nat /\ Len(t) \in Nat
  BY LenProperties
<1>2. \A i \in 1..Len(r) : i \in 1..Len(s)
  BY <1>1 DEF Begins
<1> QED BY <1>1, <1>2 DEF Begins

\* A list is a beginning of itself and of what is longer.
LEMMA BeginsLonger ==
  ASSUME NEW S, NEW s \in Seq(S), NEW t \in Seq(S)
  PROVE  Begins(s, s) /\ Begins(s, s \o t) /\ \A e \in S : Begins(s, Append(s, e))
<1>1. Len(s) \in Nat /\ Len(t) \in Nat
  BY LenProperties
<1>2. Begins(s, s \o t)
  <2>1. PICK u : u = s \o t
    BY Zenon
  <2>2. /\ Len(u) = Len(s) + Len(t)
        /\ \A i \in 1..(Len(s) + Len(t)) : u[i] = IF i <= Len(s) THEN s[i] ELSE t[i - Len(s)]
    BY <2>1, ConcatProperties
  <2>3. Len(s) <= Len(u) /\ \A i \in 1..Len(s) : i \in 1..(Len(s) + Len(t)) /\ i <= Len(s)
    BY <1>1, <2>2
  <2> QED BY <2>1, <2>2, <2>3 DEF Begins
<1>3. ASSUME NEW e \in S PROVE Begins(s, Append(s, e))
  <2>1. PICK u : u = Append(s, e)
    BY Zenon
  <2>2. Len(u) = Len(s) + 1 /\ \A i \in 1..Len(s) : u[i] = s[i]
    BY <2>1, AppendProperties
  <2> QED BY <1>1, <2>1, <2>2 DEF Begins
<1>4. Begins(s, s)
  BY <1>1 DEF Begins
<1> QED BY <1>2, <1>3, <1>4

\* Where something of the beginning goes, the last of the whole may go too.
LEMMA BeginsShorter ==
  ASSUME NEW S, NEW r \in Seq(S), NEW v \in Seq(S), NEW w \in Seq(S), NEW e \in S,
         v # <<>>, Begins(r \o v, Append(w, e))
  PROVE  Begins(r, w)
<1>1. PICK a, b : a = r \o v /\ b = Append(w, e)
  BY Zenon
<1>2. /\ Len(a) = Len(r) + Len(v)
      /\ \A i \in 1..(Len(r) + Len(v)) : a[i] = IF i <= Len(r) THEN r[i] ELSE v[i - Len(r)]
  BY <1>1, ConcatProperties
<1>3. Len(b) = Len(w) + 1 /\ \A i \in 1..Len(w) : b[i] = w[i]
  BY <1>1, AppendProperties
<1>4. Len(r) \in Nat /\ Len(v) \in Nat \ {0} /\ Len(w) \in Nat
  BY EmptySeq, LenProperties
<1>5. Len(a) <= Len(b) /\ \A i \in 1..Len(a) : a[i] = b[i]
  BY <1>1 DEF Begins
<1>6. Len(r) <= Len(w)
  BY <1>2, <1>3, <1>4, <1>5
<1>7. ASSUME NEW i \in 1..Len(r) PROVE r[i] = w[i]
  <2>1. i \in 1..Len(w) /\ i \in 1..Len(a) /\ i <= Len(r) /\ i \in 1..(Len(r) + Len(v))
    BY <1>2, <1>4, <1>6
  <2> QED BY <1>2, <1>3, <1>5, <2>1
<1> QED BY <1>6, <1>7 DEF Begins

\* The frames that are read or on the wire, and those that were given to the wire.
Passed(n) == In(Peer(n)) \o wire[n]
Given(n) == Out(n) \o (IF phase[n] = "blocked" THEN <<Head(queue[n])>> ELSE <<>>)

\* What is passed on is a beginning of what was given, and all of it until a process ends.
Behind(n) ==
  /\ Begins(Passed(n), Given(n))
  /\ ~Ended(n) /\ ~Ended(Peer(n)) => Passed(n) = Given(n)

BehindInv == \A n \in Node : Behind(n)

\* Both lists hold frames that the process may write.
LEMMA PassedType ==
  ASSUME TypeInv, NEW n \in Node
  PROVE  /\ Passed(n) \in Seq(Written(n)) /\ Given(n) \in Seq(Written(n))
         /\ Out(n) \in Seq(Written(n))
         /\ Given(n) = IF phase[n] = "blocked" THEN Append(Out(n), Head(queue[n])) ELSE Out(n)
         /\ Sends(n) => Head(queue[n]) \in Written(n)
<1>1. /\ In(Peer(n)) \in Seq(Written(n)) /\ wire[n] \in Seq(Written(n))
      /\ queue[n] \in Seq(Written(n)) /\ Out(n) \in Seq(Written(n))
  BY StreamType
<1>2. Passed(n) \in Seq(Written(n))
  BY <1>1, ConcatProperties DEF Passed
<1>3. Sends(n) => Head(queue[n]) \in Written(n)
  <2>1. Sends(n) => queue[n] # <<>>
    BY DEF TypeInv, AtHand
  <2> QED BY <1>1, <2>1, FirstOfMany
<1>4. PICK o, h, S : o = Out(n) /\ h = Head(queue[n]) /\ S = Written(n)
  OBVIOUS
<1>5. CASE phase[n] = "blocked"
  <2>1. Given(n) = o \o <<h>> /\ o \in Seq(S) /\ h \in S
    BY <1>1, <1>3, <1>4, <1>5 DEF Given, Sends
  <2>2. o \o <<h>> = Append(o, h) /\ Append(o, h) \in Seq(S)
    BY <2>1, AppendProperties
  <2> QED BY <1>1, <1>2, <1>3, <1>4, <1>5, <2>1, <2>2
<1>6. CASE phase[n] # "blocked"
  <2>1. Given(n) = o \o <<>> /\ o \in Seq(S)
    BY <1>1, <1>4, <1>6 DEF Given
  <2>2. o \o <<>> = o
    BY <2>1, ConcatEmptySeq
  <2> QED BY <1>1, <1>2, <1>3, <1>4, <1>6, <2>1, <2>2
<1> QED BY <1>5, <1>6

\* The same for both stations.
LEMMA PassedTypes ==
  TypeInv => \A m \in Node : Passed(m) \in Seq(Written(m)) /\ Given(m) \in Seq(Written(m))
BY PassedType

\* What a step does to the two lists of one direction: nothing; a frame more in both;
\* where one of the processes has ended some of what was passed may be cut, and a frame
\* be given that is not passed on; and the frame that a reader did not wait for is lost.
Stands(w) == Passed(w)' = Passed(w) /\ Given(w)' = Given(w)
Grows(w) == /\ ~Ended(w) /\ ~Ended(Peer(w))
             /\ \E f \in Written(w) : /\ Passed(w)' = Append(Passed(w), f)
                                      /\ Given(w)' = Append(Given(w), f)
Cuts(w) == /\ (Ended(w) \/ Ended(Peer(w)))' /\ Begins(Passed(w)', Passed(w))
           /\ Given(w)' = Given(w) \/ \E f \in Written(w) : Given(w)' = Append(Given(w), f)
Drops(w) == /\ Ended(Peer(w))'
            /\ \E v \in Seq(Written(w)), f \in Written(w) :
                 /\ v # <<>> /\ Passed(w) = Passed(w)' \o v
                 /\ Given(w) = Append(Given(w)', f)

\* A reader takes the first frame of the wire.
LEMMA ReadPassed ==
  ASSUME TypeInv, NEW n \in Node, Reads(n), NEW w \in Node
  PROVE  Stands(w)
<1>1. PICK p \in Node : p = Peer(n) /\ n = Peer(p) /\ p # n
  BY Peers
<1>2. /\ Takes(n) /\ phase'[p] = phase[p] /\ queue'[p] = queue[p] /\ queue'[n] = queue[n]
      /\ Meets(n) \/ Opens(n) \/ Keeps(n) \/ Saves(n) \/ Misses(n)
  BY <1>1, ReadFacts
<1>3. phase[n] \in {"next", "chunks"} /\ phase'[n] \in {"next", "chunks"}
  BY <1>2, Zenon DEF Meets, Opens, Keeps, Saves, Misses
<1>4. PICK f : f = Arrived(n)
  OBVIOUS
<1>5. /\ wire[p] # <<>> /\ wire'[p] = Tail(wire[p]) /\ wire'[n] = wire[n] /\ f = Head(wire[p])
      /\ In(n)' = Append(In(n), f) /\ Out(n)' = Out(n) /\ packets'[p] = packets[p]
  BY <1>1, <1>2, <1>4 DEF Takes, Arrived
<1>6. In(p)' = In(p) /\ Out(p)' = Out(p)
  BY <1>5 DEF In, Out
<1>7. CASE w = n
  BY <1>1, <1>3, <1>5, <1>6, <1>7, Zenon DEF Stands, Passed, Given
<1>8. CASE w = p
  <2>1. Given(p)' = Given(p)
    BY <1>2, <1>6 DEF Given
  <2>2. PICK i, v, S : i = In(n) /\ v = Tail(wire[p]) /\ S = Written(p)
    BY Zenon
  <2>3. i \in Seq(S) /\ f \in S /\ v \in Seq(S) /\ wire[p] = <<f>> \o v /\ <<f>> \in Seq(S)
    <3>1. i \in Seq(S) /\ wire[p] \in Seq(S)
      BY <1>1, <2>2, StreamType, Zenon
    <3>2. f \in S /\ v \in Seq(S) /\ wire[p] = <<f>> \o v
      BY <1>5, <2>2, <3>1, FirstOfMany
    <3> QED BY <3>1, <3>2
  <2>4. Passed(p) = i \o (<<f>> \o v) /\ Passed(p)' = Append(i, f) \o v
    BY <1>1, <1>5, <2>2, <2>3, Zenon DEF Passed
  <2>5. Append(i, f) \o v = i \o (<<f>> \o v)
    <3>1. Append(i, f) = i \o <<f>>
      BY <2>3, AppendProperties
    <3>2. (i \o <<f>>) \o v = i \o (<<f>> \o v)
      BY <2>3, ConcatAssociative
    <3> QED BY <3>1, <3>2
  <2> QED BY <1>8, <2>1, <2>4, <2>5 DEF Stands
<1> QED BY <1>1, <1>7, <1>8, Peers

\* The end of what is on the wire is cut.
LEMMA CutPassed ==
  ASSUME TypeInv, NEW n \in Node, In(Peer(n))' = In(Peer(n)),
         NEW k \in 0..Len(wire[n]), wire'[n] = SubSeq(wire[n], 1, k)
  PROVE  Begins(Passed(n)', Passed(n))
<1>1. PICK i, w, v, S : i = In(Peer(n)) /\ w = wire[n] /\ v = wire'[n] /\ S = Written(n)
  OBVIOUS
<1>2. i \in Seq(S) /\ w \in Seq(S) /\ v = SubSeq(w, 1, k) /\ k \in 0..Len(w)
  BY <1>1, StreamType
<1>3. v \in Seq(S) /\ \E t \in Seq(S) : w = v \o t
  <2>1. SubSeq(w, 1, k) \in Seq(S) /\ \E t \in Seq(S) : w = SubSeq(w, 1, k) \o t
    BY <1>2, BeginningAndRest, ZenonT(60)
  <2> QED BY <1>2, <2>1, Zenon
<1>4. PICK t \in Seq(S) : w = v \o t
  BY <1>3, Zenon
<1>5. Passed(n) = i \o (v \o t) /\ Passed(n)' = i \o v
  BY <1>1, <1>4, Zenon DEF Passed
<1>6. i \o (v \o t) = (i \o v) \o t /\ i \o v \in Seq(S)
  <2>1. i \in Seq(S) /\ v \in Seq(S) /\ t \in Seq(S)
    BY <1>2, <1>3, <1>4
  <2> QED BY <2>1, ConcatAssociative, ConcatProperties, SMTT(30)
<1>7. Begins(i \o v, (i \o v) \o t)
  BY <1>6, BeginsLonger, Zenon
<1> QED BY <1>5, <1>6, <1>7

\* A frame is given and passed, or goes nowhere.
LEMMA FramePassed ==
  ASSUME TypeInv, NEW n \in Node, FrameBegin(n), NEW w \in Node
  PROVE  Stands(w) \/ Grows(w) \/ Cuts(w)
<1>1. PICK p \in Node : p = Peer(n) /\ n = Peer(p) /\ p # n
  BY Peers
<1>2. /\ phase[n] = "writing" /\ packets' = packets /\ queue' = queue
      /\ phase'[p] = phase[p]
      /\ \/ /\ ~Ended(p) /\ phase'[n] = "blocked"
            /\ wire'[n] = Append(wire[n], Head(queue[n])) /\ wire'[p] = wire[p]
         \/ /\ Ended(p) /\ phase'[n] = "lost"
            /\ wire'[n] = wire[n]
            /\ \E k \in 0..Len(wire[p]) : wire'[p] = SubSeq(wire[p], 1, k)
  BY <1>1, FrameFacts
<1>3. In(n)' = In(n) /\ In(p)' = In(p) /\ Out(n)' = Out(n) /\ Out(p)' = Out(p)
  BY <1>2 DEF In, Out
<1>4. CASE ~Ended(p)
  <2>1. CASE w = n
    <3>1. PICK h, o, i, v, S : /\ h = Head(queue[n]) /\ o = Out(n) /\ i = In(p)
                               /\ v = wire[n] /\ S = Written(n)
      OBVIOUS
    <3>2. h \in S /\ o \in Seq(S) /\ i \in Seq(S) /\ v \in Seq(S)
      BY <1>1, <1>2, <3>1, PassedType, StreamType, Zenon DEF Sends
    <3>3. Given(n) = o /\ Given(n)' = o \o <<h>>
      <4>1. Given(n) = o
        BY <1>2, <3>1, PassedType
      <4>2. Given(n)' = o \o <<h>>
        BY <1>2, <1>3, <1>4, <3>1 DEF Given
      <4> QED BY <4>1, <4>2
    <3>4. Passed(n) = i \o v /\ Passed(n)' = i \o Append(v, h)
      BY <1>1, <1>2, <1>3, <1>4, <3>1, Zenon DEF Passed
    <3>5. o \o <<h>> = Append(o, h) /\ i \o Append(v, h) = Append(i \o v, h)
      BY <3>2, AppendProperties, AppendBehind
    <3>6. ~Ended(n)
      BY <1>2 DEF Ended
    <3> QED BY <1>1, <1>4, <2>1, <3>1, <3>2, <3>3, <3>4, <3>5, <3>6, Zenon DEF Grows
  <2>2. CASE w = p
    <3>1. Stands(p)
      BY <1>1, <1>2, <1>3, <1>4, Zenon DEF Stands, Passed, Given
    <3> QED BY <2>2, <3>1
  <2> QED BY <1>1, <2>1, <2>2, Peers
<1>5. CASE Ended(p)
  <2>1. CASE w = n
    <3>1. Stands(n)
      BY <1>1, <1>2, <1>3, <1>5, Zenon DEF Stands, Passed, Given
    <3> QED BY <2>1, <3>1
  <2>2. CASE w = p
    <3>1. PICK k \in 0..Len(wire[p]) : wire'[p] = SubSeq(wire[p], 1, k)
      BY <1>2, <1>5
    <3>2. Begins(Passed(p)', Passed(p))
      BY <1>1, <1>3, <3>1, CutPassed
    <3>3. Given(p)' = Given(p) /\ Ended(p)'
      BY <1>2, <1>3, <1>5 DEF Given, Ended
    <3> QED BY <2>2, <3>2, <3>3 DEF Cuts
  <2> QED BY <1>1, <2>1, <2>2, Peers
<1> QED BY <1>4, <1>5

\* The write of a frame returns: it was given, or is lost.
LEMMA WrittenPassed ==
  ASSUME TypeInv, NEW n \in Node, FrameEnd(n) \/ SendEnd(n), NEW w \in Node
  PROVE  Stands(w) \/ Cuts(w)
<1>1. PICK p \in Node : p = Peer(n) /\ n = Peer(p) /\ p # n
  BY Peers
<1>2. /\ Same(p) /\ phase[n] \in {"blocked", "lost"} /\ In(n)' = In(n)
      /\ Out(n)' = Append(Out(n), Head(queue[n])) /\ wire'[n] = wire[n]
      /\ phase'[n] \in {"writing", "next"}
  BY <1>1, WrittenFacts, Zenon
<1>3. In(p)' = In(p) /\ Out(p)' = Out(p)
  BY <1>2 DEF In, Out, Same
<1>4. CASE w = p
  BY <1>1, <1>2, <1>3, <1>4, Zenon DEF Same, Stands, Passed, Given
<1>5. CASE w = n
  <2>1. PICK h, o, S : h = Head(queue[n]) /\ o = Out(n) /\ S = Written(n)
    OBVIOUS
  <2>2. h \in S /\ o \in Seq(S) /\ Given(n) = IF phase[n] = "blocked" THEN Append(o, h) ELSE o
    BY <1>2, <2>1, PassedType, Zenon DEF Sends
  <2>3. Given(n)' = Append(o, h)
    <3>1. Given(n)' = Append(o, h) \o <<>>
      BY <1>2, <2>1 DEF Given
    <3>2. Append(o, h) \in Seq(S)
      BY <2>2, AppendProperties
    <3> QED BY <3>1, <3>2, ConcatEmptySeq
  <2>4. Passed(n)' = Passed(n)
    BY <1>1, <1>2, <1>3 DEF Passed
  <2>5. CASE phase[n] = "blocked"
    BY <1>5, <2>2, <2>3, <2>4, <2>5 DEF Stands
  <2>6. CASE phase[n] = "lost"
    <3>1. Ended(p)'
      BY <1>1, <1>2, <2>6 DEF TypeInv, AtHand, Same, Ended
    <3>2. Begins(Passed(n), Passed(n))
      BY PassedType, BeginsLonger
    <3> QED BY <1>1, <1>5, <2>1, <2>2, <2>3, <2>4, <2>6, <3>1, <3>2 DEF Cuts
  <2> QED BY <1>2, <2>5, <2>6
<1> QED BY <1>1, <1>4, <1>5, Peers

\* A process ends: its own frames may be cut, and those of the other one are not read.
LEMMA FinishPassed ==
  ASSUME TypeInv, NEW n \in Node, Finish(n), NEW w \in Node
  PROVE  Cuts(w) \/ Drops(w)
<1>1. PICK p \in Node : p = Peer(n) /\ n = Peer(p) /\ p # n
  BY Peers
<1>2. /\ packets' = packets /\ queue' = queue
      /\ phase[n] = "next" /\ phase'[n] = "ended"
      /\ phase'[p] = IF phase[p] = "blocked" /\ wire[p] # <<>> THEN "lost" ELSE phase[p]
      /\ wire'[p] = <<>>
      /\ \E k \in 0..Len(wire[n]) : wire'[n] = SubSeq(wire[n], 1, k)
  BY <1>1, FinishFacts
<1>3. In(n)' = In(n) /\ In(p)' = In(p) /\ Out(n)' = Out(n) /\ Out(p)' = Out(p)
  BY <1>2 DEF In, Out
<1>4. Ended(n)'
  BY <1>2 DEF Ended
<1>5. CASE w = n
  <2>1. Begins(Passed(n)', Passed(n))
    BY <1>1, <1>2, <1>3, CutPassed
  <2>2. Given(n)' = Given(n)
    BY <1>2, <1>3 DEF Given
  <2> QED BY <1>4, <1>5, <2>1, <2>2 DEF Cuts
<1>6. CASE w = p
  <2>1. PICK i, v, S : i = In(n) /\ v = wire[p] /\ S = Written(p)
    OBVIOUS
  <2>2. i \in Seq(S) /\ v \in Seq(S) /\ i \o <<>> = i
    BY <1>1, <2>1, StreamType, ConcatEmptySeq, Zenon
  <2>3. Passed(p) = i \o v /\ Passed(p)' = i
    BY <1>1, <1>2, <1>3, <2>1, <2>2, Zenon DEF Passed
  <2>4. CASE phase[p] = "blocked" /\ v # <<>>
    <3>1. Head(queue[p]) \in S /\ Given(p) = Append(Out(p), Head(queue[p]))
      BY <2>1, <2>4, PassedType, Zenon DEF Sends
    <3>2. Given(p)' = Out(p)
      <4>1. Given(p)' = Out(p) \o <<>>
        BY <1>2, <1>3, <2>1, <2>4 DEF Given
      <4> QED BY <4>1, PassedType, ConcatEmptySeq
    <3> QED BY <1>1, <1>4, <1>6, <2>1, <2>2, <2>3, <2>4, <3>1, <3>2, Zenon DEF Drops
  <2>5. CASE ~(phase[p] = "blocked" /\ v # <<>>)
    <3>1. Given(p)' = Given(p)
      BY <1>2, <1>3, <2>1, <2>5 DEF Given
    <3>2. Begins(i, i \o v)
      BY <2>2, BeginsLonger
    <3> QED BY <1>1, <1>4, <1>6, <2>3, <3>1, <3>2 DEF Cuts
  <2> QED BY <2>4, <2>5
<1> QED BY <1>1, <1>5, <1>6, Peers

\* Any step, in either direction.
LEMMA PassedStep ==
  ASSUME TypeInv, NEW n \in Node, Step(n), NEW w \in Node
  PROVE  Stands(w) \/ Grows(w) \/ Cuts(w) \/ Drops(w)
<1>1. CASE SendBegin(n) \/ Fails(n) \/ SendFails(n)
  <2>1. PICK p \in Node : p = Peer(n) /\ n = Peer(p) /\ p # n
    BY Peers
  <2>2. /\ Same(p) /\ packets'[n] = packets[n] /\ wire'[n] = wire[n]
        /\ phase[n] \in {"next", "chunks", "writing", "lost"}
        /\ phase'[n] \in {"next", "writing"}
    BY <1>1, <2>1, BeginFacts, FailsFacts, SendFailsFacts, Zenon
  <2>3. In(n)' = In(n) /\ In(p)' = In(p) /\ Out(n)' = Out(n) /\ Out(p)' = Out(p)
    BY <2>2 DEF In, Out, Same
  <2>4. Passed(n)' = Passed(n) /\ Passed(p)' = Passed(p)
    BY <2>1, <2>2, <2>3, Zenon DEF Passed, Same
  <2>5. Given(n)' = Given(n) /\ Given(p)' = Given(p)
    BY <2>2, <2>3 DEF Given, Same
  <2> QED BY <2>1, <2>4, <2>5, Peers DEF Stands
<1>2. CASE FrameBegin(n)
  BY <1>2, FramePassed
<1>3. CASE FrameEnd(n) \/ SendEnd(n)
  BY <1>3, WrittenPassed
<1>4. CASE Reads(n)
  BY <1>4, ReadPassed
<1>5. CASE Finish(n)
  BY <1>5, FinishPassed
<1> QED BY <1>1, <1>2, <1>3, <1>4, <1>5, StepKinds

\* At first nothing was given to the wire.
LEMMA BehindInit == Init => BehindInv
<1> SUFFICES ASSUME Init, NEW n \in Node PROVE Behind(n)
  BY DEF BehindInv
<1>1. /\ In(Peer(n)) = <<>> /\ Out(n) = <<>> /\ wire[n] = <<>> /\ phase[n] = "next"
  BY Peers, StreamInit DEF Init
<1>2. Passed(n) = <<>> \o <<>> /\ Given(n) = <<>> \o <<>>
  BY <1>1 DEF Passed, Given
<1>3. PICK u : u = <<>> \o <<>>
  OBVIOUS
<1>4. u \in Seq({})
  BY <1>3, EmptySeq, ConcatEmptySeq
<1>5. Begins(u, u)
  BY <1>4, BeginsLonger
<1> QED BY <1>2, <1>3, <1>5 DEF Behind

\* Every step keeps what was passed on a beginning of what was given.
LEMMA BehindNext == TypeInv /\ BehindInv /\ [Next]_vars => BehindInv'
<1> SUFFICES ASSUME TypeInv, BehindInv, [Next]_vars, NEW w \in Node PROVE Behind(w)'
  BY DEF BehindInv, Node
<1>0. Behind(w)
  BY DEF BehindInv
<1>1. CASE UNCHANGED vars
  <2>1. Passed(w)' = Passed(w) /\ Given(w)' = Given(w) /\ phase' = phase
    BY <1>1 DEF vars, Passed, Given, In, Out
  <2> QED BY <1>0, <2>1 DEF Behind, Ended
<1>2. ASSUME NEW n \in Node, Step(n) PROVE Behind(w)'
  <2>1. PICK r, g, q, o, S : /\ r = Passed(w) /\ g = Given(w) /\ q = Passed(w)' /\ o = Given(w)'
                             /\ S = Written(w)
    OBVIOUS
  <2>2. /\ r \in Seq(S) /\ g \in Seq(S) /\ q \in Seq(S) /\ o \in Seq(S)
    <3>1. TypeInv' /\ setup' = setup
      <4>1. setup' = setup
        BY <1>2, BeginFacts, FailsFacts, FrameFacts, WrittenFacts, SendFailsFacts, ReadFacts,
           FinishFacts, StepKinds, Zenon
      <4> QED BY <4>1, NextType
    <3>2. Written(w)' = Written(w)
      BY <3>1, Settled
    <3>3. Passed(w)' \in Seq(Written(w)') /\ Given(w)' \in Seq(Written(w)')
      <4>1. (TypeInv => \A m \in Node :
                          Passed(m) \in Seq(Written(m)) /\ Given(m) \in Seq(Written(m)))'
        BY PassedTypes, PTL
      <4> QED BY <3>1, <4>1 DEF Node
    <3> QED BY <2>1, <3>2, <3>3, PassedType
  <2>3. Begins(r, g) /\ (~Ended(w) /\ ~Ended(Peer(w)) => r = g)
    BY <1>0, <2>1 DEF Behind
  <2>4. Ended(w) => Ended(w)'
    BY <1>2, EndedStays
  <2>5. Ended(Peer(w)) => Ended(Peer(w))'
    BY <1>2, EndedStays, Peers
  <2>6. CASE Stands(w)
    BY <2>1, <2>3, <2>4, <2>5, <2>6 DEF Stands, Behind
  <2>7. CASE Grows(w)
    <3>1. PICK f \in S : q = Append(r, f) /\ o = Append(g, f) /\ r = g
      BY <2>1, <2>3, <2>7 DEF Grows
    <3>2. Begins(q, q) /\ q = o
      BY <2>2, <3>1, BeginsLonger, Zenon
    <3> QED BY <2>1, <3>2 DEF Behind
  <2>8. CASE Cuts(w)
    <3>1. /\ (Ended(w) \/ Ended(Peer(w)))' /\ Begins(q, r)
          /\ o = g \/ \E f \in S : o = Append(g, f)
      BY <2>1, <2>8 DEF Cuts
    <3>2. Begins(g, o)
      BY <2>2, <3>1, BeginsLonger, Zenon
    <3>3. Begins(q, g)
      BY <2>2, <2>3, <3>1, BeginsWithin
    <3>4. Begins(q, o)
      BY <2>2, <3>2, <3>3, BeginsWithin
    <3> QED BY <2>1, <3>1, <3>4 DEF Behind
  <2>9. CASE Drops(w)
    <3>1. PICK v \in Seq(S), f \in S : v # <<>> /\ r = q \o v /\ g = Append(o, f)
      BY <2>1, <2>9, Zenon DEF Drops
    <3>2. Begins(q, o)
      BY <2>2, <2>3, <3>1, BeginsShorter
    <3>3. Ended(Peer(w))'
      BY <2>9 DEF Drops
    <3> QED BY <2>1, <3>2, <3>3 DEF Behind
  <2> QED BY <1>2, <2>6, <2>7, <2>8, <2>9, PassedStep
<1> QED BY <1>1, <1>2 DEF Next, Over
-----------------------------------------------------------------------------
(* While nothing failed the records are what the frames say                *)

AllOk(n) == \A i \in 1..Len(results[n]) : results[n][i]

\* The frames a process reported as written or has still to write, and the lines it has
\* begun.
Queued(n) == Out(n) \o queue[n]
Begun(n) == IF Sends(n) THEN Len(results[n]) + 1 ELSE Len(results[n])
Done(n) == SubSeq(script[n], 1, Begun(n))

Told(n) ==
  AllOk(n) =>
    /\ TextsOf(chat[n], "Outbound") = Kept(Queued(n), Talk, FrameText)
    /\ PostsOf(app[n], n) = Kept(Queued(n), Posting, FramePost)
    /\ Kept(Done(n), FileSends, LineText) = Kept(Queued(n), Opening, FrameText)

Got(n) ==
  AllOk(n) =>
    /\ TextsOf(chat[n], "Inbound") = Kept(In(n), Talk, FrameText)
    /\ PostsOf(app[n], Peer(n)) = Kept(In(n), Posting, FramePost)
    /\ saved[n] \o Kept(transfer[n], Opening, FrameText) = Kept(In(n), Opening, FrameText)

BookInv == \A n \in Node : Told(n) /\ Got(n)

\* A result more.
LEMMA OkMore ==
  ASSUME TypeInv, NEW n \in Node, NEW ok \in BOOLEAN, results'[n] = Append(results[n], ok)
  PROVE  AllOk(n)' <=> AllOk(n) /\ ok
<1>1. PICK r, q : r = results[n] /\ q = results'[n]
  OBVIOUS
<1>2. r \in Seq(BOOLEAN) /\ Len(r) \in Nat
  BY <1>1, LenProperties DEF TypeInv, NodeOK
<1>3. Len(q) = Len(r) + 1 /\ q[Len(r) + 1] = ok /\ \A i \in 1..Len(r) : q[i] = r[i]
  BY <1>1, <1>2, AppendProperties
<1>4. \A i \in 1..Len(q) : i = Len(r) + 1 \/ i \in 1..Len(r)
  BY <1>2, <1>3
<1>5. Len(r) + 1 \in 1..Len(q) /\ \A i \in 1..Len(r) : i \in 1..Len(q)
  BY <1>2, <1>3
<1>6. (\A i \in 1..Len(q) : q[i]) <=> (\A i \in 1..Len(r) : r[i]) /\ ok
  BY <1>3, <1>4, <1>5, Zenon
<1> QED BY <1>1, <1>6 DEF AllOk

\* Where no result is false after a step there was none before, and no command failed.
LEMMA AllOkStep ==
  ASSUME TypeInv, NEW n \in Node, Step(n), NEW w \in Node, AllOk(w)'
  PROVE  /\ AllOk(w)
         /\ w = n => ~Fails(n) /\ ~SendFails(n) /\ ~(Reads(n) /\ Misses(n))
<1>1. CASE w # n
  <2>1. results'[w] = results[w]
    <3>1. w = Peer(n)
      BY <1>1, Peers
    <3> QED BY <3>1, BeginFacts, FailsFacts, FrameFacts, WrittenFacts, SendFailsFacts,
               ReadFacts, FinishFacts, StepKinds, ZenonT(60) DEF Same
  <2> QED BY <1>1, <2>1 DEF AllOk
<1>2. CASE w = n
  <2>1. \/ results'[n] = results[n]
        \/ \E ok \in BOOLEAN : results'[n] = Append(results[n], ok)
    <3>1. Reads(n) => \/ results'[n] = results[n] \/ results'[n] = Append(results[n], TRUE)
                      \/ results'[n] = Append(results[n], FALSE)
      BY ReadFacts, Zenon DEF Meets, Opens, Keeps, Saves, Misses
    <3> QED BY <3>1, BeginFacts, FailsFacts, FrameFacts, WrittenFacts, SendFailsFacts,
               FinishFacts, StepKinds, Zenon
  <2>2. AllOk(n)
    <3>1. results'[n] = results[n] => AllOk(n)
      BY <1>2 DEF AllOk
    <3> QED BY <1>2, <2>1, <3>1, OkMore
  <2>3. results'[n] # Append(results[n], FALSE)
    BY <1>2, OkMore, Zenon
  <2>4. ~Fails(n) /\ ~SendFails(n)
    BY <2>3, FailsFacts, SendFailsFacts, Zenon
  <2>5. ~(Reads(n) /\ Misses(n))
    BY <2>3, Zenon DEF Misses
  <2> QED BY <1>2, <2>2, <2>4, <2>5
<1> QED BY <1>1, <1>2

\* What is sent is an entry of one's own, what is read one of the other's.
LEMMA AppPosts ==
  ASSUME TypeInv, NEW n \in Node
  PROVE  /\ HasLine(n) =>
              /\ PostsOf(AppSent(n, Line(n)), Peer(n)) = PostsOf(app[n], Peer(n))
              /\ PostsOf(AppSent(n, Line(n)), n)
                   = IF Line(n).kind \in AppKind \cup {"FILE"}
                     THEN Append(PostsOf(app[n], n),
                                 [to |-> AppAddressee(peerCall[n], Line(n).kind),
                                  text |-> Line(n).text])
                     ELSE PostsOf(app[n], n)
         /\ \A f \in Written(Peer(n)) :
              /\ PostsOf(AppGot(n, f), n) = PostsOf(app[n], n)
              /\ PostsOf(AppGot(n, f), Peer(n))
                   = IF f.kind \in AppKind
                     THEN Append(PostsOf(app[n], Peer(n)),
                                 [to |-> AppAddressee(n, f.kind), text |-> f.text])
                     ELSE PostsOf(app[n], Peer(n))
<1>1. PICK a \in AppModel : a = app[n]
  BY DEF TypeInv, NodeOK
<1>2. PICK p \in Call : p = Peer(n) /\ p # n /\ n \in Call
  BY Peers
<1>3. ASSUME HasLine(n)
      PROVE  /\ PostsOf(AppSent(n, Line(n)), p) = PostsOf(a, p)
             /\ PostsOf(AppSent(n, Line(n)), n)
                  = IF Line(n).kind \in AppKind \cup {"FILE"}
                    THEN Append(PostsOf(a, n),
                                [to |-> AppAddressee(peerCall[n], Line(n).kind),
                                 text |-> Line(n).text])
                    ELSE PostsOf(a, n)
  <2>1. PICK kind, text, to : kind = Line(n).kind /\ text = Line(n).text
                              /\ to = AppAddressee(peerCall[n], kind)
    OBVIOUS
  <2>2. CASE kind \in AppKind \cup {"FILE"}
    <3>1. text \in Text /\ to \in Call \cup {NoCall}
      BY <1>2, <1>3, <2>1, <2>2, LineFacts DEF Plain, AppKind, AppAddressee
    <3>2. AppSent(n, Line(n)) = Recorded(a, n, to, text)
      BY <1>1, <2>1, <2>2 DEF AppSent
    <3> QED BY <1>2, <2>1, <2>2, <3>1, <3>2, PostsMore
  <2>3. CASE kind \notin AppKind \cup {"FILE"}
    <3>1. AppSent(n, Line(n)) = a
      BY <1>1, <2>1, <2>3 DEF AppSent
    <3> QED BY <2>1, <2>3, <3>1
  <2> QED BY <2>2, <2>3
<1>4. ASSUME NEW f \in Written(Peer(n))
      PROVE  /\ PostsOf(AppGot(n, f), n) = PostsOf(a, n)
             /\ PostsOf(AppGot(n, f), p)
                  = IF f.kind \in AppKind
                    THEN Append(PostsOf(a, p), [to |-> AppAddressee(n, f.kind), text |-> f.text])
                    ELSE PostsOf(a, p)
  <2>1. PICK to : to = AppAddressee(n, f.kind) /\ to \in Call \cup {NoCall}
    BY <1>2 DEF AppAddressee
  <2>2. CASE f.kind \in AppKind
    <3>1. f.from = p /\ f.text \in Text
      BY <1>2, <2>2 DEF Written, Frame, Plain, AppKind
    <3>2. AppGot(n, f) = Recorded(a, p, to, f.text)
      BY <1>1, <2>1, <2>2, <3>1 DEF AppGot
    <3> QED BY <1>2, <2>1, <2>2, <3>1, <3>2, PostsMore
  <2>3. CASE f.kind \notin AppKind
    <3>1. AppGot(n, f) = a
      BY <1>1, <2>3 DEF AppGot
    <3> QED BY <2>3, <3>1
  <2> QED BY <2>2, <2>3
<1> QED BY <1>1, <1>2, <1>3, <1>4

\* What a step adds to the posts.
LEMMA PostStep ==
  ASSUME TypeInv, NEW n \in Node, Step(n), NEW w \in Node
  PROVE  /\ PostsOf(app[w], w)' = PostsOf(app[w], w) \/ (w = n /\ SendBegin(n))
         /\ PostsOf(app[w], Peer(w))' = PostsOf(app[w], Peer(w)) \/ (w = n /\ Reads(n))
<1>1. app'[w] = app[w] =>
        \A call : PostsOf(app'[w], call) = PostsOf(app[w], call)
  OBVIOUS
<1>2. CASE w # n
  <2>1. w = Peer(n)
    BY <1>2, Peers
  <2>2. app'[w] = app[w]
    BY <2>1, BeginFacts, FailsFacts, FrameFacts, WrittenFacts, SendFailsFacts, ReadFacts,
       FinishFacts, StepKinds, ZenonT(60) DEF Same
  <2> QED BY <1>1, <2>2
<1>3. CASE w = n
  <2>1. CASE SendBegin(n)
    <3>1. app'[n] = AppSent(n, Line(n)) /\ HasLine(n)
      BY <2>1, BeginFacts
    <3>2. PostsOf(AppSent(n, Line(n)), Peer(n)) = PostsOf(app[n], Peer(n))
      BY <3>1, AppPosts, Zenon
    <3> QED BY <1>3, <2>1, <3>1, <3>2
  <2>2. CASE Fails(n)
    <3>1. app'[n] = app[n] \/ app'[n] = RecordRefused(app[n])
      BY <2>2, FailsFacts, Zenon
    <3>2. PostsOf(RecordRefused(app[n]), n) = PostsOf(app[n], n)
          /\ PostsOf(RecordRefused(app[n]), Peer(n)) = PostsOf(app[n], Peer(n))
      BY DEF RecordRefused, PostsOf
    <3> QED BY <1>3, <3>1, <3>2
  <2>3. CASE Reads(n)
    <3>1. PICK f \in Written(Peer(n)) : f = Arrived(n)
      BY <2>3, ReadFacts DEF Takes
    <3>2. app'[n] = app[n] \/ app'[n] = AppGot(n, f)
      BY <2>3, <3>1, ReadFacts, Zenon DEF Meets, Opens, Keeps, Saves, Misses
    <3>3. PostsOf(AppGot(n, f), n) = PostsOf(app[n], n)
      BY AppPosts, Zenon
    <3> QED BY <1>3, <2>3, <3>2, <3>3
  <2>4. CASE ~SendBegin(n) /\ ~Fails(n) /\ ~Reads(n)
    <3>1. app'[n] = app[n]
      BY <2>4, FrameFacts, WrittenFacts, SendFailsFacts, FinishFacts, StepKinds, Zenon
    <3> QED BY <1>3, <3>1
  <2> QED BY <2>1, <2>2, <2>3, <2>4
<1> QED BY <1>2, <1>3

\* What is queued and written stays queued or written, and a command adds its frames.
LEMMA QueuedStep ==
  ASSUME TypeInv, NEW n \in Node, Step(n), NEW w \in Node, w = n => ~SendFails(n)
  PROVE  IF w = n /\ SendBegin(n) THEN Queued(w)' = Queued(w) \o FramesOf(n, Line(n))
         ELSE Queued(w)' = Queued(w)
<1>1. PICK o, q, S : o = Out(w) /\ q = queue[w] /\ S = Written(w)
  OBVIOUS
<1>2. o \in Seq(S) /\ q \in Seq(S)
  BY <1>1, StreamType
<1>3. CASE w # n
  <2>1. w = Peer(n)
    BY <1>3, Peers
  <2>2. packets'[w] = packets[w] /\ queue'[w] = queue[w]
    BY <2>1, BeginFacts, FailsFacts, FrameFacts, WrittenFacts, SendFailsFacts, ReadFacts,
       FinishFacts, StepKinds, ZenonT(60) DEF Same, Takes
  <2> QED BY <1>3, <2>2 DEF Queued, Out
<1>4. CASE w = n
  <2>1. CASE SendBegin(n)
    <3>1. /\ packets'[n] = packets[n] /\ q = <<>> /\ HasLine(n)
          /\ queue'[n] = FramesOf(n, Line(n))
      BY <1>1, <1>4, <2>1, BeginFacts
    <3>2. Queued(n)' = o \o FramesOf(n, Line(n)) /\ Queued(n) = o \o <<>>
      BY <1>1, <1>4, <3>1, Zenon DEF Queued, Out
    <3> QED BY <1>2, <1>4, <2>1, <3>2, ConcatEmptySeq
  <2>2. CASE FrameEnd(n) \/ SendEnd(n)
    <3>1. PICK h, t : h = Head(q) /\ t = Tail(q)
      BY Zenon
    <3>2. Out(n)' = Append(o, h) /\ queue'[n] = t /\ q # <<>> /\ ~SendBegin(n)
      BY <1>1, <1>4, <2>2, <3>1, WrittenFacts, BeginFacts, Zenon
    <3>3. h \in S /\ t \in Seq(S) /\ q = <<h>> \o t /\ <<h>> \in Seq(S)
      <4>1. h \in S /\ t \in Seq(S) /\ q = <<h>> \o t
        BY <1>2, <3>1, <3>2, FirstOfMany
      <4> QED BY <4>1
    <3>4. Append(o, h) \o t = o \o (<<h>> \o t)
      <4>1. Append(o, h) = o \o <<h>>
        BY <1>2, <3>3, AppendProperties
      <4>2. (o \o <<h>>) \o t = o \o (<<h>> \o t)
        BY <1>2, <3>3, ConcatAssociative
      <4> QED BY <4>1, <4>2
    <3>5. Queued(n)' = Append(o, h) \o t /\ Queued(n) = o \o q
      BY <1>1, <1>4, <3>2 DEF Queued
    <3> QED BY <1>4, <3>2, <3>3, <3>4, <3>5
  <2>3. CASE Reads(n)
    <3>1. Out(n)' = o /\ queue'[n] = q /\ ~SendBegin(n)
      BY <1>1, <1>4, <2>3, ReadFacts, BeginFacts DEF Takes
    <3> QED BY <1>1, <1>4, <3>1 DEF Queued
  <2>4. CASE Fails(n) \/ FrameBegin(n) \/ Finish(n)
    <3>1. packets'[n] = packets[n] /\ queue'[n] = q /\ ~SendBegin(n)
      BY <1>1, <1>4, <2>4, FailsFacts, FrameFacts, FinishFacts, BeginFacts, Zenon
    <3> QED BY <1>1, <1>4, <3>1, Zenon DEF Queued, Out
  <2> QED BY <1>4, <2>1, <2>2, <2>3, <2>4, StepKinds
<1> QED BY <1>3, <1>4

\* The lines that were begun, and one more.
LEMMA LineMore ==
  ASSUME TypeInv, NEW n \in Node
  PROVE  /\ Len(results[n]) \in Nat /\ Len(script[n]) \in Nat /\ Done(n) \in Seq(Command)
         /\ HasLine(n) =>
              SubSeq(script[n], 1, Len(results[n]) + 1)
                = Append(SubSeq(script[n], 1, Len(results[n])), Line(n))
<1>1. PICK s, N : s = script[n] /\ N = Len(results[n])
  BY Zenon
<1>2. s \in Seq(Command) /\ Len(s) \in Nat /\ N \in Nat /\ N <= Len(s)
  <2>1. script[n] \in Seq(Command)
    BY DEF TypeInv, Setup, script
  <2>2. results[n] \in Seq(BOOLEAN) /\ Len(results[n]) <= Len(script[n])
    BY DEF TypeInv, NodeOK, AtHand
  <2> QED BY <1>1, <2>1, <2>2, LenProperties
<1>3. \A k \in 0..Len(s) : SubSeq(s, 1, k) \in Seq(Command)
  BY <1>2, BeginningAndRest
<1>4. Begun(n) \in 0..Len(s)
  <2>1. Sends(n) => N < Len(s)
    BY <1>1 DEF TypeInv, AtHand, HasLine
  <2>2. Begun(n) = IF Sends(n) THEN N + 1 ELSE N
    BY <1>1, <1>2 DEF Begun
  <2> QED BY <1>2, <2>1, <2>2
<1>5. Done(n) \in Seq(Command)
  BY <1>1, <1>3, <1>4 DEF Done
<1>6. ASSUME HasLine(n)
      PROVE  SubSeq(s, 1, N + 1) = Append(SubSeq(s, 1, N), s[N + 1])
  <2>1. N + 1 \in 1..Len(s) /\ 1 \in 1..Len(s) /\ (N + 1) - 1 = N
    BY <1>1, <1>2, <1>6 DEF HasLine
  <2>2. SubSeq(s, 1, N + 1) = SubSeq(s, 1, (N + 1) - 1) \o <<s[N + 1]>>
    BY <1>2, <2>1, SubSeqRecursiveSecond
  <2>3. PICK d \in Seq(Command), c \in Command : d = SubSeq(s, 1, N) /\ c = s[N + 1]
    <3>1. N \in 0..Len(s) /\ s[N + 1] \in Command
      BY <1>2, <2>1, ElementOfSeq
    <3> QED BY <1>3, <3>1, Zenon
  <2>4. d \o <<c>> = Append(d, c)
    <3>1. \A u \in Seq(Command), x \in Command : u \o <<x>> = Append(u, x)
      BY AppendProperties
    <3> QED BY <2>3, <3>1, Zenon
  <2> QED BY <2>1, <2>2, <2>3, <2>4
<1>7. s[N + 1] = Line(n)
  BY <1>1 DEF Line
<1> QED BY <1>1, <1>2, <1>5, <1>6, <1>7

\* A line is begun when it sends or is met; any other is none that sends.
LEMMA DoneStep ==
  ASSUME TypeInv, NEW n \in Node, Step(n), NEW w \in Node, AllOk(w)'
  PROVE  IF w = n /\ SendBegin(n) THEN HasLine(n) /\ Done(w)' = Append(Done(w), Line(n))
         ELSE \/ Done(w)' = Done(w)
              \/ w = n /\ HasLine(n) /\ ~Line(n).send /\ Done(w)' = Append(Done(w), Line(n))
<1>0. ~Fails(w) \/ w # n
  BY AllOkStep
<1>1. script' = script
  <2>1. setup' = setup
    BY BeginFacts, FailsFacts, FrameFacts, WrittenFacts, SendFailsFacts, ReadFacts,
       FinishFacts, StepKinds, Zenon
  <2> QED BY <2>1, Settled
<1>2. PICK r, q : r = results[w] /\ q = results'[w] /\ Len(r) \in Nat
  BY LineMore
<1>3. /\ q = Append(r, TRUE) => Len(q) = Len(r) + 1
      /\ Begun(w) = IF Sends(w) THEN Len(r) + 1 ELSE Len(r)
      /\ Begun(w)' = IF Sends(w)' THEN Len(q) + 1 ELSE Len(q)
  <2>1. r \in Seq(BOOLEAN)
    BY <1>2 DEF TypeInv, NodeOK
  <2>2. q = Append(r, TRUE) => Len(q) = Len(r) + 1
    BY <2>1, AppendProperties
  <2>3. Begun(w) = IF Sends(w) THEN Len(r) + 1 ELSE Len(r)
    BY <1>2 DEF Begun
  <2>4. Begun(w)' = IF Sends(w)' THEN Len(q) + 1 ELSE Len(q)
    BY <1>2 DEF Begun
  <2> QED BY <2>2, <2>3, <2>4, Zenon
<1>4. CASE w # n
  <2>1. w = Peer(n)
    BY <1>4, Peers
  <2>2. q = r /\ (Sends(w)' <=> Sends(w))
    <3>1. CASE Finish(n)
      <4>1. /\ results' = results
            /\ phase'[w] = phase[w] \/ (phase[w] = "blocked" /\ phase'[w] = "lost")
        BY <2>1, <3>1, FinishFacts
      <4> QED BY <1>2, <4>1 DEF Sends
    <3>2. CASE ~Finish(n)
      <4>1. results'[w] = results[w] /\ phase'[w] = phase[w]
        BY <2>1, <3>2, BeginFacts, FailsFacts, FrameFacts, WrittenFacts, SendFailsFacts, ReadFacts,
           StepKinds, ZenonT(60) DEF Same
      <4> QED BY <1>2, <4>1 DEF Sends
    <3> QED BY <3>1, <3>2
  <2>3. Begun(w)' = Begun(w)
    BY <1>3, <2>2
  <2> QED BY <1>1, <1>4, <2>3 DEF Done
<1>5. CASE w = n
  <2>1. CASE SendBegin(n)
    <3>1. HasLine(n) /\ q = r /\ ~Sends(n) /\ Sends(n)'
      BY <1>2, <1>5, <2>1, BeginFacts DEF Sends
    <3>2. Begun(n) = Len(r) /\ Begun(n)' = Len(r) + 1
      BY <1>3, <1>5, <3>1
    <3>3. Done(n)' = SubSeq(script[n], 1, Len(r) + 1) /\ Done(n) = SubSeq(script[n], 1, Len(r))
      BY <1>1, <3>2 DEF Done
    <3> QED BY <1>2, <1>5, <2>1, <3>1, <3>3, LineMore
  <2>2. CASE FrameBegin(n) \/ FrameEnd(n) \/ SendEnd(n) \/ Finish(n)
    <3>1. ~SendBegin(n)
      BY <2>2, BeginFacts, FrameFacts, WrittenFacts, FinishFacts, Zenon DEF HasLine
    <3>2. \/ q = r /\ (Sends(n)' <=> Sends(n))
          \/ q = Append(r, TRUE) /\ Sends(n) /\ ~Sends(n)'
      BY <1>2, <1>5, <2>2, FrameFacts, WrittenFacts, FinishFacts, Zenon DEF Sends
    <3>3. Begun(n)' = Begun(n)
      BY <1>2, <1>3, <1>5, <3>2, Zenon
    <3> QED BY <1>1, <1>5, <3>1, <3>3 DEF Done
  <2>3. CASE Reads(n)
    <3>1. HasLine(n) /\ ~Line(n).send /\ ~SendBegin(n)
      BY <2>3, ReadFacts, BeginFacts
    <3>2. ~Misses(n) /\ ~Sends(n) /\ ~Sends(n)' /\ (q = r \/ q = Append(r, TRUE))
      BY <1>2, <1>5, <2>3, ReadFacts, AllOkStep, Zenon DEF Meets, Opens, Keeps, Saves, Sends
    <3>3. Begun(n) = Len(r) /\ (Begun(n)' = Len(r) \/ Begun(n)' = Len(r) + 1)
      BY <1>2, <1>3, <1>5, <3>2, Zenon
    <3>4. /\ Done(n) = SubSeq(script[n], 1, Len(r))
          /\ \/ Done(n)' = SubSeq(script[n], 1, Len(r))
             \/ Done(n)' = SubSeq(script[n], 1, Len(r) + 1)
      BY <1>1, <3>3 DEF Done
    <3> QED BY <1>2, <1>5, <3>1, <3>4, LineMore
  <2>4. ~Fails(n) /\ ~SendFails(n)
    BY <1>5, AllOkStep
  <2> QED BY <2>1, <2>2, <2>3, <2>4, StepKinds
<1> QED BY <1>4, <1>5

\* What one keeps of a list and of another behind it.
LEMMA KeptOfBoth ==
  ASSUME NEW S, NEW s \in Seq(S), NEW t \in Seq(S), NEW K, NEW g, NEW x
  PROVE  /\ Kept(t, K, g) = <<x>> => Kept(s \o t, K, g) = Append(Kept(s, K, g), x)
         /\ Kept(t, K, g) = <<>> => Kept(s \o t, K, g) = Kept(s, K, g)
<1>1. PICK T : Kept(s, K, g) \in Seq(T) /\ x \in T
  <2>1. Kept(s, K, g) \in Seq({g[y] : y \in S})
    BY KeptType
  <2>2. {g[y] : y \in S} \subseteq {g[y] : y \in S} \cup {x}
    OBVIOUS
  <2>3. Kept(s, K, g) \in Seq({g[y] : y \in S} \cup {x}) /\ x \in {g[y] : y \in S} \cup {x}
    BY <2>1, <2>2, SeqMonotonic
  <2> QED BY <2>3
<1>2. PICK k \in Seq(T) : k = Kept(s, K, g)
  BY <1>1
<1>3. k \o <<>> = k /\ k \o <<x>> = Append(k, x)
  BY <1>1, <1>2, ConcatEmptySeq, AppendProperties
<1>4. Kept(s \o t, K, g) = k \o Kept(t, K, g)
  <2>1. Kept(s \o t, K, g) = Kept(s, K, g) \o Kept(t, K, g)
    BY KeptBoth
  <2> QED BY <1>2, <2>1
<1> QED BY <1>2, <1>3, <1>4, Zenon

\* A process that sends.
LEMMA ToldStep ==
  ASSUME TypeInv, NEW n \in Node, Step(n), NEW w \in Node, Told(w)
  PROVE  Told(w)'
<1> SUFFICES ASSUME AllOk(w)'
             PROVE  /\ TextsOf(chat[w], "Outbound")' = Kept(Queued(w)', Talk, FrameText)
                    /\ PostsOf(app[w], w)' = Kept(Queued(w)', Posting, FramePost)
                    /\ Kept(Done(w)', FileSends, LineText) = Kept(Queued(w)', Opening, FrameText)
  BY DEF Told
<1>1. /\ TextsOf(chat[w], "Outbound") = Kept(Queued(w), Talk, FrameText)
      /\ PostsOf(app[w], w) = Kept(Queued(w), Posting, FramePost)
      /\ Kept(Done(w), FileSends, LineText) = Kept(Queued(w), Opening, FrameText)
  BY AllOkStep DEF Told
<1>2. w = n => ~SendFails(n)
  BY AllOkStep
<1>3. Queued(w) \in Seq(Frame) /\ Done(w) \in Seq(Command)
  <2>1. Out(w) \in Seq(Written(w)) /\ queue[w] \in Seq(Written(w))
    BY StreamType
  <2>2. Queued(w) \in Seq(Written(w))
    BY <2>1, ConcatProperties DEF Queued
  <2> QED BY <2>2, TalkType, LineMore
<1>4. PICK s, d : s = Queued(w) /\ d = Done(w)
  OBVIOUS
<1>5. CASE w = n /\ SendBegin(n)
  <2>1. PICK c : c = Line(n)
    OBVIOUS
  <2>2. /\ Queued(w)' = s \o FramesOf(n, c) /\ Done(w)' = Append(d, c) /\ HasLine(n)
        /\ c \in Command /\ c.send
    BY <1>2, <1>4, <1>5, <2>1, QueuedStep, DoneStep, BeginFacts, LineFacts, Zenon
  <2>3. PICK t \in Seq(Frame) : t = FramesOf(n, c)
    BY <2>1, <2>2, FramesOfFacts, TalkType
  <2>4. /\ Kept(t, Talk, FrameText) = IF c.kind = "MSG" THEN <<c.text>> ELSE <<>>
        /\ Kept(t, Posting, FramePost)
             = IF c.kind \in AppKind \cup {"FILE"}
               THEN <<[to |-> AppAddressee(peerCall[n], c.kind), text |-> c.text]>> ELSE <<>>
        /\ Kept(t, Opening, FrameText) = IF c.kind = "FILE" THEN <<c.text>> ELSE <<>>
    BY <2>1, <2>2, <2>3, FramesKept
  <2>5. Queued(w)' = s \o t /\ s \in Seq(Frame)
    BY <1>3, <1>4, <2>2, <2>3
  <2>6. Kept(s \o t, Talk, FrameText)
          = IF c.kind = "MSG" THEN Append(Kept(s, Talk, FrameText), c.text)
            ELSE Kept(s, Talk, FrameText)
    BY <2>3, <2>4, <2>5, KeptOfBoth
  <2>7. Kept(s \o t, Posting, FramePost)
          = IF c.kind \in AppKind \cup {"FILE"}
            THEN Append(Kept(s, Posting, FramePost),
                        [to |-> AppAddressee(peerCall[n], c.kind), text |-> c.text])
            ELSE Kept(s, Posting, FramePost)
    BY <2>3, <2>4, <2>5, KeptOfBoth
  <2>8. Kept(s \o t, Opening, FrameText)
          = IF c.kind = "FILE" THEN Append(Kept(s, Opening, FrameText), c.text)
            ELSE Kept(s, Opening, FrameText)
    BY <2>3, <2>4, <2>5, KeptOfBoth
  <2>9. TextsOf(chat[w], "Outbound")' = IF c.kind = "MSG" THEN Append(TextsOf(chat[w], "Outbound"), c.text)
                                        ELSE TextsOf(chat[w], "Outbound")
    BY <1>5, <2>1, LogStep, Zenon
  <2>10. PostsOf(app[w], w)'
           = IF c.kind \in AppKind \cup {"FILE"}
             THEN Append(PostsOf(app[w], w),
                         [to |-> AppAddressee(peerCall[n], c.kind), text |-> c.text])
             ELSE PostsOf(app[w], w)
    <3>1. app'[n] = AppSent(n, c)
      BY <1>5, <2>1, BeginFacts
    <3>2. PostsOf(app[n], n)' = PostsOf(AppSent(n, c), n)
      BY <3>1
    <3> QED BY <1>5, <2>1, <2>2, <3>2, AppPosts
  <2>11. Kept(Done(w)', FileSends, LineText)
           = IF c.kind = "FILE" THEN Append(Kept(d, FileSends, LineText), c.text)
             ELSE Kept(d, FileSends, LineText)
    <3>1. (c \in FileSends <=> c.kind = "FILE") /\ LineText[c] = c.text
      BY <2>2 DEF FileSends, IsFileSend, LineText
    <3>2. d \in Seq(Command) /\ c \in Command
      BY <1>3, <1>4, <2>2
    <3>3. /\ c \in FileSends => Kept(Append(d, c), FileSends, LineText)
                                  = Append(Kept(d, FileSends, LineText), LineText[c])
          /\ c \notin FileSends => Kept(Append(d, c), FileSends, LineText)
                                     = Kept(d, FileSends, LineText)
      BY <3>2, KeptMore
    <3> QED BY <2>2, <3>1, <3>3
  <2>12. TextsOf(chat[w], "Outbound")' = Kept(Queued(w)', Talk, FrameText)
    BY <1>1, <1>4, <2>5, <2>6, <2>9
  <2>13. PostsOf(app[w], w)' = Kept(Queued(w)', Posting, FramePost)
    BY <1>1, <1>4, <2>5, <2>7, <2>10
  <2>14. Kept(Done(w)', FileSends, LineText) = Kept(Queued(w)', Opening, FrameText)
    BY <1>1, <1>4, <2>5, <2>8, <2>11
  <2> QED BY <2>12, <2>13, <2>14
<1>6. CASE ~(w = n /\ SendBegin(n))
  <2>1. Queued(w)' = s
    BY <1>2, <1>4, <1>6, QueuedStep
  <2>2. TextsOf(chat[w], "Outbound")' = TextsOf(chat[w], "Outbound")
    BY <1>6, LogStep
  <2>3. PostsOf(app[w], w)' = PostsOf(app[w], w)
    BY <1>6, PostStep
  <2>4. Kept(Done(w)', FileSends, LineText) = Kept(d, FileSends, LineText)
    <3>1. CASE Done(w)' = d
      BY <3>1
    <3>2. CASE Done(w)' # d
      <4>1. PICK c : c = Line(n)
        OBVIOUS
      <4>2. c \in Command /\ ~c.send /\ Done(w)' = Append(d, c)
        BY <1>4, <1>6, <3>2, <4>1, DoneStep, LineFacts
      <4>3. c \notin FileSends /\ d \in Seq(Command)
        BY <1>3, <1>4, <4>2 DEF FileSends, IsFileSend
      <4> QED BY <4>2, <4>3, KeptMore
    <3> QED BY <3>1, <3>2
  <2> QED BY <1>1, <1>4, <2>1, <2>2, <2>3, <2>4
<1> QED BY <1>5, <1>6

\* What a process takes is kept alike in what it read and in the transfer under way.
LEMMA TransferMore ==
  ASSUME NEW i \in Seq(Frame), NEW t \in Seq(Frame), NEW f \in Frame, NEW s \in Seq(Text),
         s \o Kept(t, Opening, FrameText) = Kept(i, Opening, FrameText)
  PROVE  s \o Kept(Append(t, f), Opening, FrameText) = Kept(Append(i, f), Opening, FrameText)
<1>1. PICK k, x, T : /\ k = Kept(t, Opening, FrameText) /\ x = FrameText[f]
                     /\ T = Text \cup {NoText}
  BY Zenon
<1>2. /\ f \in Opening => Kept(Append(t, f), Opening, FrameText) = Append(k, x)
      /\ f \notin Opening => Kept(Append(t, f), Opening, FrameText) = k
  BY <1>1, KeptMore
<1>3. /\ f \in Opening => Kept(Append(i, f), Opening, FrameText) = Append(s \o k, x)
      /\ f \notin Opening => Kept(Append(i, f), Opening, FrameText) = s \o k
  <2>1. /\ f \in Opening => Kept(Append(i, f), Opening, FrameText)
                              = Append(Kept(i, Opening, FrameText), FrameText[f])
        /\ f \notin Opening => Kept(Append(i, f), Opening, FrameText)
                                 = Kept(i, Opening, FrameText)
    BY KeptMore
  <2> QED BY <1>1, <2>1, Zenon
<1>4. s \in Seq(T) /\ k \in Seq(T) /\ x \in T
  <2>1. \A y \in Frame : FrameText[y] \in T
    BY <1>1 DEF FrameText, Frame
  <2>2. k \in Seq(T)
    BY <1>1, <2>1, KeptInto, Zenon
  <2>3. s \in Seq(T)
    BY <1>1, SeqMonotonic
  <2> QED BY <1>1, <2>1, <2>2, <2>3
<1>5. s \o Append(k, x) = Append(s \o k, x)
  BY <1>4, AppendBehind
<1> QED BY <1>2, <1>3, <1>5, Zenon

\* A transfer that is whole holds the text of its file once.
LEMMA WholeKept ==
  ASSUME TypeInv, ChainInv, SavedInv, NEW n \in Node, Reads(n), Saves(n)
  PROVE  /\ Line(n).text \in Text
         /\ Kept(Append(transfer[n], Arrived(n)), Opening, FrameText) = <<Line(n).text>>
<1>1. PICK text \in Text : text = Line(n).text
  <2>1. Line(n).kind = "FILE" /\ HasLine(n)
    BY DEF Saves, TypeInv, AtHand
  <2> QED BY <2>1, LineFacts DEF Plain
<1>2. PICK u, S : u = Append(transfer[n], Arrived(n)) /\ S = Written(Peer(n))
  BY Zenon
<1>3. u \in Seq(S) /\ Ends(u, In(n)') /\ Counted(u) /\ Whole(u, text)
  BY <1>1, <1>2, ChunkArrived DEF Saves
<1>4. In(n)' \in Seq(S)
  <2>1. In(n) \in Seq(S) /\ Arrived(n) \in S /\ In(n)' = Append(In(n), Arrived(n))
    BY <1>2, ReadFacts DEF Takes, TypeInv, NodeOK
  <2> QED BY <2>1, AppendProperties
<1>5. Len(u) = Chunks[text] + 1 /\ Chunks[text] \in Nat \ {0}
  BY <1>3, <1>4, WholeCame, ScriptAssumption
<1>6. u \in Seq(Frame)
  BY <1>2, <1>3, Peers, TalkType, Zenon
<1>7. /\ DOMAIN u = 1..Len(u)
      /\ \A i \in 1..Len(u) : u[i] \in Frame /\ u[i].part = i - 1 /\ u[i].text = text
  <2>1. DOMAIN u = 1..Len(u) /\ \A i \in 1..Len(u) : u[i] \in Frame
    BY <1>6, LenProperties, ElementOfSeq
  <2> QED BY <1>3, <2>1 DEF Counted, Whole
<1>8. 2 \in 1..Len(u)
  BY <1>5
<1>9. u[2] \in Opening /\ FrameText[u[2]] = text
  <2>1. u[2].part = 1
    BY <1>7, <1>8
  <2> QED BY <1>7, <1>8, <2>1 DEF Opening, FrameText
<1>10. ASSUME NEW i \in 1..Len(u), i # 2 PROVE u[i] \notin Opening
  <2>1. u[i].part # 1
    BY <1>5, <1>7, <1>10
  <2> QED BY <2>1 DEF Opening
<1>11. Kept(u, Opening, FrameText) = <<FrameText[u[2]]>>
  BY <1>6, <1>8, <1>9, <1>10, KeptSingle
<1> QED BY <1>1, <1>2, <1>9, <1>11

\* What the frame that a process takes adds to what it has read.
LEMMA ArrivedKept ==
  ASSUME TypeInv, NEW n \in Node, Reads(n), NEW f, f = Arrived(n)
  PROVE  /\ f \in Written(Peer(n)) /\ f \in Frame /\ In(n)' = Append(In(n), f)
         /\ In(n) \in Seq(Frame)
         /\ f.part = 0 <=> f.kind # "CHUNK"
         /\ Kept(In(n)', Talk, FrameText)
              = IF f.kind = "MSG" THEN Append(Kept(In(n), Talk, FrameText), f.text)
                ELSE Kept(In(n), Talk, FrameText)
         /\ Kept(In(n)', Posting, FramePost)
              = IF f.kind \in AppKind
                THEN Append(Kept(In(n), Posting, FramePost),
                            [to |-> AppAddressee(f.to, f.kind), text |-> f.text])
                ELSE Kept(In(n), Posting, FramePost)
         /\ f.part = 0 => Kept(In(n)', Opening, FrameText) = Kept(In(n), Opening, FrameText)
<1>1. PICK i : i = In(n)
  OBVIOUS
<1>2. f \in Written(Peer(n)) /\ In(n)' = Append(i, f) /\ i \in Seq(Written(Peer(n)))
  BY <1>1, ReadFacts DEF Takes, TypeInv, NodeOK
<1>3. f \in Frame /\ i \in Seq(Frame) /\ (f.part = 0 <=> f.kind # "CHUNK")
  BY <1>2, Peers, TalkType DEF Written
<1>4. /\ f \in Talk <=> f.kind = "MSG"
      /\ f \in Posting <=> f.kind \in AppKind
      /\ f.part = 0 => f \notin Opening
      /\ FrameText[f] = f.text
      /\ FramePost[f] = [to |-> AppAddressee(f.to, f.kind), text |-> f.text]
  BY <1>3 DEF Talk, Posting, Opening, FrameText, FramePost
<1>5. Kept(Append(i, f), Talk, FrameText)
        = IF f \in Talk THEN Append(Kept(i, Talk, FrameText), FrameText[f])
          ELSE Kept(i, Talk, FrameText)
  BY <1>3, KeptMore
<1>6. Kept(Append(i, f), Posting, FramePost)
        = IF f \in Posting THEN Append(Kept(i, Posting, FramePost), FramePost[f])
          ELSE Kept(i, Posting, FramePost)
  BY <1>3, KeptMore
<1>7. f \notin Opening => Kept(Append(i, f), Opening, FrameText) = Kept(i, Opening, FrameText)
  BY <1>3, KeptMore
<1> QED BY <1>1, <1>2, <1>3, <1>4, <1>5, <1>6, <1>7

\* A process that reads.
LEMMA ReadGot ==
  ASSUME TypeInv, ChainInv, SavedInv, NEW n \in Node, Step(n), Reads(n), Got(n)
  PROVE  Got(n)'
<1> SUFFICES ASSUME AllOk(n)'
             PROVE  /\ TextsOf(chat[n], "Inbound")' = Kept(In(n)', Talk, FrameText)
                    /\ PostsOf(app[n], Peer(n))' = Kept(In(n)', Posting, FramePost)
                    /\ saved'[n] \o Kept(transfer'[n], Opening, FrameText)
                         = Kept(In(n)', Opening, FrameText)
  BY Zenon DEF Got
<1>1. /\ TextsOf(chat[n], "Inbound") = Kept(In(n), Talk, FrameText)
      /\ PostsOf(app[n], Peer(n)) = Kept(In(n), Posting, FramePost)
      /\ saved[n] \o Kept(transfer[n], Opening, FrameText) = Kept(In(n), Opening, FrameText)
  BY AllOkStep, Zenon DEF Got
<1>2. PICK f, i, p, s, t : /\ f = Arrived(n) /\ i = In(n) /\ p = Peer(n)
                           /\ s = saved[n] /\ t = transfer[n]
  OBVIOUS
<1>3. /\ f \in Written(p) /\ f \in Frame /\ In(n)' = Append(i, f) /\ i \in Seq(Frame)
      /\ f.part = 0 <=> f.kind # "CHUNK"
      /\ Kept(In(n)', Talk, FrameText)
           = IF f.kind = "MSG" THEN Append(Kept(i, Talk, FrameText), f.text)
             ELSE Kept(i, Talk, FrameText)
      /\ Kept(In(n)', Posting, FramePost)
           = IF f.kind \in AppKind
             THEN Append(Kept(i, Posting, FramePost),
                         [to |-> AppAddressee(f.to, f.kind), text |-> f.text])
             ELSE Kept(i, Posting, FramePost)
      /\ f.part = 0 => Kept(In(n)', Opening, FrameText) = Kept(i, Opening, FrameText)
  BY <1>2, ArrivedKept
<1>4. /\ TextsOf(ChatGot(n, f), "Inbound")
           = IF f.kind = "MSG" THEN Append(TextsOf(chat[n], "Inbound"), f.text)
             ELSE TextsOf(chat[n], "Inbound")
      /\ PostsOf(AppGot(n, f), p)
           = IF f.kind \in AppKind
             THEN Append(PostsOf(app[n], p), [to |-> AppAddressee(n, f.kind), text |-> f.text])
             ELSE PostsOf(app[n], p)
  BY <1>2, <1>3, ChatTexts, AppPosts, Zenon
<1>5. t \in Seq(Frame) /\ s \in Seq(Text)
  <2>1. t \in Seq(Written(p)) /\ s \in Seq(Text)
    BY <1>2 DEF TypeInv, NodeOK
  <2> QED BY <1>2, <2>1, Peers, TalkType
<1>6. Meets(n) \/ Opens(n) \/ Keeps(n) \/ Saves(n)
  BY AllOkStep, ReadFacts
<1>7. CASE Meets(n) \/ Opens(n)
  <2>1. /\ chat'[n] = ChatGot(n, f) /\ app'[n] = AppGot(n, f) /\ f.to = n /\ f.kind # "CHUNK"
        /\ saved'[n] = s /\ t = <<>>
        /\ transfer'[n] = <<>> \/ transfer'[n] = <<f>>
    <3>1. Expected(n, Line(n), f) /\ phase[n] = "next" /\ HasLine(n)
      BY <1>2, <1>7, ReadFacts, Zenon DEF Meets, Opens
    <3>2. f.to = n /\ f.kind # "CHUNK"
      <4>1. Line(n).kind \in Kind
        BY <3>1, LineFacts
      <4> QED BY <3>1, <4>1 DEF Expected, Routed, Kind, AppKind
    <3>3. t = <<>>
      BY <1>2, <3>1 DEF TypeInv, AtHand
    <3> QED BY <1>2, <1>7, <3>2, <3>3, Zenon DEF Meets, Opens
  <2>2. f.part = 0 /\ f \notin Opening
    BY <1>3, <2>1 DEF Opening
  <2>3. TextsOf(chat[n], "Inbound")' = Kept(In(n)', Talk, FrameText)
    <3>1. TextsOf(chat[n], "Inbound")' = TextsOf(ChatGot(n, f), "Inbound")
      BY <2>1
    <3> QED BY <1>1, <1>2, <1>3, <1>4, <3>1, Zenon
  <2>4. PostsOf(app[n], Peer(n))' = Kept(In(n)', Posting, FramePost)
    <3>1. PostsOf(app[n], Peer(n))' = PostsOf(AppGot(n, f), p)
      BY <1>2, <2>1
    <3>2. PostsOf(app[n], p) = Kept(i, Posting, FramePost)
      BY <1>1, <1>2
    <3> QED BY <1>3, <1>4, <2>1, <3>1, <3>2
  <2>5. Kept(transfer'[n], Opening, FrameText) = Kept(t, Opening, FrameText)
    BY <2>1, <2>2, KeptEmpty, KeptOne, ZenonT(60)
  <2> QED BY <1>1, <1>2, <1>3, <2>1, <2>2, <2>3, <2>4, <2>5
<1>8. CASE Keeps(n) \/ Saves(n)
  <2>1. f.kind = "CHUNK" /\ chat'[n] = chat[n] /\ app'[n] = app[n]
    BY <1>2, <1>8, Zenon DEF Keeps, Saves, IsChunk
  <2>2. TextsOf(chat[n], "Inbound")' = Kept(In(n)', Talk, FrameText)
    BY <1>1, <1>2, <1>3, <2>1
  <2>3. PostsOf(app[n], Peer(n))' = Kept(In(n)', Posting, FramePost)
    <3>1. f.kind \notin AppKind
      BY <2>1 DEF AppKind
    <3>2. PostsOf(app[n], Peer(n))' = PostsOf(app[n], Peer(n))
      BY <2>1
    <3> QED BY <1>1, <1>2, <1>3, <3>1, <3>2
  <2>4. s \o Kept(Append(t, f), Opening, FrameText) = Kept(In(n)', Opening, FrameText)
    <3>1. s \o Kept(t, Opening, FrameText) = Kept(i, Opening, FrameText)
      BY <1>1, <1>2, Zenon
    <3>2. /\ i \in Seq(Frame) /\ t \in Seq(Frame) /\ f \in Frame /\ s \in Seq(Text)
          /\ In(n)' = Append(i, f)
      BY <1>3, <1>5
    <3>3. s \o Kept(Append(t, f), Opening, FrameText) = Kept(Append(i, f), Opening, FrameText)
      BY <3>1, <3>2, TransferMore, Zenon
    <3> QED BY <3>2, <3>3
  <2>5. CASE Keeps(n)
    <3>1. saved'[n] = s /\ transfer'[n] = Append(t, f)
      BY <1>2, <2>5 DEF Keeps
    <3> QED BY <2>2, <2>3, <2>4, <3>1
  <2>6. CASE Saves(n)
    <3>1. PICK text : text = Line(n).text
      OBVIOUS
    <3>2. text \in Text /\ Kept(Append(t, f), Opening, FrameText) = <<text>>
      BY <1>2, <2>6, <3>1, WholeKept
    <3>3. saved'[n] = Append(s, text) /\ transfer'[n] = <<>>
      BY <1>2, <2>6, <3>1 DEF Saves
    <3>4. s \o <<text>> = Append(s, text) /\ Append(s, text) \o <<>> = Append(s, text)
      <4>1. Append(s, text) \in Seq(Text) /\ s \o <<text>> = Append(s, text)
        BY <1>5, <3>2, AppendProperties
      <4> QED BY <4>1, ConcatEmptySeq
    <3>5. Kept(transfer'[n], Opening, FrameText) = <<>>
      BY <3>3, KeptEmpty
    <3> QED BY <2>2, <2>3, <2>4, <3>2, <3>3, <3>4, <3>5
  <2> QED BY <1>8, <2>5, <2>6, Zenon
<1> QED BY <1>6, <1>7, <1>8, Zenon

\* Any step.
LEMMA GotStep ==
  ASSUME TypeInv, ChainInv, SavedInv, NEW n \in Node, Step(n), NEW w \in Node, Got(w)
  PROVE  Got(w)'
<1>1. CASE w = n /\ Reads(n)
  BY <1>1, ReadGot
<1>2. CASE ~(w = n /\ Reads(n))
  <2> SUFFICES ASSUME AllOk(w)'
               PROVE  /\ TextsOf(chat[w], "Inbound")' = Kept(In(w)', Talk, FrameText)
                      /\ PostsOf(app[w], Peer(w))' = Kept(In(w)', Posting, FramePost)
                      /\ saved'[w] \o Kept(transfer'[w], Opening, FrameText)
                           = Kept(In(w)', Opening, FrameText)
    BY Zenon DEF Got
  <2>1. /\ TextsOf(chat[w], "Inbound") = Kept(In(w), Talk, FrameText)
        /\ PostsOf(app[w], Peer(w)) = Kept(In(w), Posting, FramePost)
        /\ saved[w] \o Kept(transfer[w], Opening, FrameText) = Kept(In(w), Opening, FrameText)
    BY AllOkStep, Zenon DEF Got
  <2>2. In(w)' = In(w) /\ saved'[w] = saved[w]
    BY <1>2, OtherTransfers
  <2>3. transfer'[w] = transfer[w]
    <3>1. CASE w # n
      <4>1. w = Peer(n)
        BY <3>1, Peers
      <4> QED BY <4>1, BeginFacts, FailsFacts, FrameFacts, WrittenFacts, SendFailsFacts,
                 ReadFacts, FinishFacts, StepKinds, ZenonT(60) DEF Same
    <3>2. CASE w = n
      <4>1. ~Fails(n) /\ ~Reads(n)
        BY <1>2, <3>2, AllOkStep
      <4> QED BY <3>2, <4>1, BeginFacts, FrameFacts, WrittenFacts, SendFailsFacts,
                 FinishFacts, StepKinds, Zenon
    <3> QED BY <3>1, <3>2
  <2>4. TextsOf(chat[w], "Inbound")' = TextsOf(chat[w], "Inbound")
    BY <1>2, LogStep
  <2>5. PostsOf(app[w], Peer(w))' = PostsOf(app[w], Peer(w))
    BY <1>2, PostStep
  <2> QED BY <2>1, <2>2, <2>3, <2>4, <2>5, Zenon
<1> QED BY <1>1, <1>2

\* At first the books are empty.
LEMMA BookInit == Init => BookInv
<1> SUFFICES ASSUME Init, NEW n \in Node PROVE Told(n) /\ Got(n)
  BY DEF BookInv
<1>1. /\ chat[n] = NewBackend /\ app[n] = NewAppModel /\ saved[n] = <<>> /\ transfer[n] = <<>>
      /\ queue[n] = <<>> /\ results[n] = <<>> /\ phase[n] = "next"
      /\ In(n) = <<>> /\ Out(n) = <<>>
  BY StreamInit DEF Init
<1>2. <<>> \o <<>> = <<>> /\ Len(<<>>) = 0
  <2>1. <<>> \in Seq({})
    BY EmptySeq
  <2> QED BY <2>1, ConcatEmptySeq
<1>3. Queued(n) = <<>> /\ Done(n) = <<>>
  <2>1. Queued(n) = <<>>
    BY <1>1, <1>2 DEF Queued
  <2>2. Begun(n) = 0
    BY <1>1, <1>2 DEF Begun, Sends
  <2>3. SubSeq(script[n], 1, 0) = <<>>
    BY SubSeqEmpty
  <2> QED BY <2>1, <2>2, <2>3 DEF Done
<1>4. /\ TextsOf(chat[n], "Inbound") = <<>> /\ TextsOf(chat[n], "Outbound") = <<>>
      /\ \A call : PostsOf(app[n], call) = <<>>
  <2>1. TypeInv
    BY InitType
  <2>2. /\ chat[n] \in Backend /\ chat[n].messages = <<>>
        /\ app[n] \in AppModel /\ app[n].entries = <<>>
    BY <1>1, <2>1 DEF TypeInv, NodeOK, NewBackend, NewAppModel
  <2> QED BY <2>2, TextsKept, PostsKept, KeptEmpty
<1>5. \A K, g : Kept(<<>>, K, g) = <<>>
  BY KeptEmpty
<1>6. Told(n)
  BY <1>3, <1>4, <1>5 DEF Told
<1>7. Got(n)
  BY <1>1, <1>2, <1>4, <1>5 DEF Got
<1> QED BY <1>6, <1>7

\* Every step keeps the books of both stations.
LEMMA BookNext == TypeInv /\ ChainInv /\ SavedInv /\ BookInv /\ [Next]_vars => BookInv'
<1> SUFFICES ASSUME TypeInv, ChainInv, SavedInv, BookInv, [Next]_vars, NEW w \in Node
             PROVE  Told(w)' /\ Got(w)'
  BY DEF BookInv, Node
<1>0. Told(w) /\ Got(w)
  BY DEF BookInv
<1>1. CASE UNCHANGED vars
  <2>1. /\ results' = results /\ chat' = chat /\ app' = app /\ saved' = saved
        /\ transfer' = transfer /\ Queued(w)' = Queued(w) /\ Done(w)' = Done(w)
        /\ In(w)' = In(w)
    BY <1>1 DEF vars, Queued, Done, Begun, Sends, script, In, Out
  <2>2. AllOk(w)' <=> AllOk(w)
    BY <2>1 DEF AllOk
  <2>3. Told(w)'
    <3>1. /\ TextsOf(chat[w], "Outbound")' = TextsOf(chat[w], "Outbound")
          /\ PostsOf(app[w], w)' = PostsOf(app[w], w)
      BY <2>1
    <3> QED BY <1>0, <2>1, <2>2, <3>1 DEF Told
  <2>4. Got(w)'
    <3>1. /\ TextsOf(chat[w], "Inbound")' = TextsOf(chat[w], "Inbound")
          /\ PostsOf(app[w], Peer(w))' = PostsOf(app[w], Peer(w))
      BY <2>1
    <3> QED BY <1>0, <2>1, <2>2, <3>1, Zenon DEF Got
  <2> QED BY <2>3, <2>4
<1>2. ASSUME NEW n \in Node, Step(n) PROVE Told(w)' /\ Got(w)'
  BY <1>0, <1>2, ToldStep, GotStep
<1> QED BY <1>1, <1>2 DEF Next, Over

-----------------------------------------------------------------------------
(* Two scripts that report ok and left nothing unread                      *)

\* The files a script sends.
LEMMA FilesKept ==
  ASSUME TypeInv, NEW n \in Node
  PROVE  FilesSent(n) = Kept(script[n], FileSends, LineText)
<1>1. PICK list \in Seq(Command) : list = script[n]
  BY DEF TypeInv, Setup, script
<1>2. DOMAIN list = 1..Len(list) /\ \A i \in 1..Len(list) : list[i] \in Command
  BY LenProperties, ElementOfSeq
<1>3. PICK D : D = {i \in DOMAIN list : IsFileSend(list[i])}
  BY Zenon
<1>4. D = {i \in DOMAIN list : list[i] \in FileSends}
  BY <1>2, <1>3 DEF FileSends
<1>5. PICK p \in Seq(Command) : p = Picked(list, D)
  BY PickedType
<1>6. DOMAIN p = 1..Len(p) /\ \A i \in 1..Len(p) : p[i] \in Command
  BY LenProperties, ElementOfSeq
<1>7. Texts(p) = Mapped(p, LineText)
  BY <1>6 DEF Texts, Mapped, LineText
<1>8. FilesSent(n) = Texts(p)
  BY <1>1, <1>3, <1>5 DEF FilesSent
<1>9. Kept(list, FileSends, LineText) = Mapped(p, LineText)
  BY <1>4, <1>5 DEF Kept
<1> QED BY <1>1, <1>7, <1>8, <1>9

\* A process that has ended has nothing to write and no line left.
LEMMA EndedFacts ==
  ASSUME TypeInv, NEW n \in Node, Ended(n)
  PROVE  /\ queue[n] = <<>> /\ transfer[n] = <<>>
         /\ Queued(n) = Out(n) /\ Given(n) = Out(n) /\ Done(n) = script[n]
<1>1. queue[n] = <<>> /\ transfer[n] = <<>> /\ ~Sends(n) /\ ~HasLine(n)
  BY DEF TypeInv, AtHand, Ended, Sends
<1>2. Queued(n) = Out(n)
  <2>1. Out(n) \in Seq(Written(n))
    BY StreamType
  <2>2. Out(n) \o <<>> = Out(n)
    BY <2>1, ConcatEmptySeq
  <2> QED BY <1>1, <2>2 DEF Queued
<1>3. Given(n) = Out(n)
  BY PassedType DEF Ended
<1>4. Done(n) = script[n]
  <2>1. Len(results[n]) = Len(script[n])
    <3>1. Len(results[n]) <= Len(script[n])
      BY DEF TypeInv, AtHand
    <3> QED BY <1>1, <3>1, LineMore DEF HasLine
  <2>2. Begun(n) = Len(script[n])
    BY <1>1, <2>1 DEF Begun
  <2>3. script[n] \in Seq(Command)
    BY DEF TypeInv, Setup, script
  <2> QED BY <2>2, <2>3, SubSeqFull DEF Done
<1> QED BY <1>1, <1>2, <1>3, <1>4

\* All that was written was read.
LEMMA AllWasRead ==
  ASSUME TypeInv, BehindInv, NEW n \in Node, Ended(n),
         Len(packets[n].out) = Len(packets[Peer(n)].in)
  PROVE  In(Peer(n)) = Out(n)
<1>1. PICK i, o, v, S : i = In(Peer(n)) /\ o = Out(n) /\ v = wire[n] /\ S = Written(n)
  OBVIOUS
<1>2. i \in Seq(S) /\ o \in Seq(S) /\ v \in Seq(S)
  BY <1>1, StreamType
<1>3. Begins(i \o v, o) /\ Begins(i, i \o v) /\ i \o v \in Seq(S)
  <2>1. Begins(Passed(n), Given(n)) /\ Given(n) = o
    BY <1>1, EndedFacts DEF BehindInv, Behind
  <2>2. Passed(n) = i \o v
    BY <1>1 DEF Passed
  <2> QED BY <1>2, <2>1, <2>2, BeginsLonger, ConcatProperties
<1>4. Begins(i, o)
  BY <1>2, <1>3, BeginsWithin, Zenon
<1>5. Len(i) = Len(o)
  BY <1>1, Peers, InFacts
<1>6. i = o
  BY <1>2, <1>4, <1>5, SeqEqual DEF Begins
<1> QED BY <1>1, <1>6

\* All that was written was read, so the two books are about the same frames.
LEMMA OkOfBooks == TypeInv /\ BehindInv /\ BookInv => OkMeansDelivered
<1> SUFFICES ASSUME TypeInv, BehindInv, BookInv, AllEnded, NoneFailed, AllRead, NEW n \in Node
             PROVE  /\ TextsOf(chat[n], "Outbound") = TextsOf(chat[Peer(n)], "Inbound")
                    /\ PostsOf(app[n], n) = PostsOf(app[Peer(n)], n)
                    /\ FilesSent(n) = saved[Peer(n)]
  BY DEF OkMeansDelivered
<1>1. PICK p \in Node : p = Peer(n) /\ n = Peer(p)
  BY Peers
<1>2. Ended(n) /\ Ended(p) /\ Len(packets[n].out) = Len(packets[p].in)
  BY <1>1 DEF AllEnded, AllRead
<1>3. ASSUME NEW m \in Node PROVE AllOk(m)
  <2>1. results[m] \in Seq(BOOLEAN)
    BY DEF TypeInv, NodeOK
  <2>2. DOMAIN results[m] = 1..Len(results[m])
    BY <2>1, LenProperties
  <2> QED BY <2>2 DEF AllOk, NoneFailed
<1>4. PICK s : s = Out(n) /\ s = In(p)
  BY <1>1, <1>2, AllWasRead
<1>5. /\ TextsOf(chat[n], "Outbound") = Kept(s, Talk, FrameText)
      /\ PostsOf(app[n], n) = Kept(s, Posting, FramePost)
      /\ Kept(script[n], FileSends, LineText) = Kept(s, Opening, FrameText)
  <2>1. Queued(n) = s /\ Done(n) = script[n]
    BY <1>2, <1>4, EndedFacts, Zenon
  <2> QED BY <1>3, <2>1 DEF BookInv, Told
<1>6. /\ TextsOf(chat[p], "Inbound") = Kept(s, Talk, FrameText)
      /\ PostsOf(app[p], n) = Kept(s, Posting, FramePost)
      /\ saved[p] \o Kept(transfer[p], Opening, FrameText) = Kept(s, Opening, FrameText)
  BY <1>1, <1>3, <1>4, Zenon DEF BookInv, Got
<1>7. saved[p] \o Kept(transfer[p], Opening, FrameText) = saved[p]
  <2>1. Kept(transfer[p], Opening, FrameText) = <<>>
    BY <1>2, EndedFacts, KeptEmpty
  <2>2. saved[p] \in Seq(Text)
    BY DEF TypeInv, NodeOK
  <2> QED BY <2>1, <2>2, ConcatEmptySeq
<1>8. FilesSent(n) = saved[p]
  BY <1>5, <1>6, <1>7, FilesKept
<1> QED BY <1>1, <1>5, <1>6, <1>8, Zenon

\* Two scripts that report every line as ok, and left nothing unread, tell one story:
\* what one station logged, posted and sent as files the other one logged, observed and
\* saved, the same things in the same order.
THEOREM OkRight == Spec => []OkMeansDelivered
<1>1. Init => TypeInv /\ ChainInv /\ SavedInv /\ BehindInv /\ BookInv
  BY InitType, ChainInit, SavedInit, BehindInit, BookInit
<1>2. TypeInv /\ ChainInv /\ SavedInv /\ BehindInv /\ BookInv /\ [Next]_vars
        => (TypeInv /\ ChainInv /\ SavedInv /\ BehindInv /\ BookInv)'
  BY NextType, ChainNext, SavedNext, BehindNext, BookNext
<1>3. TypeInv /\ BehindInv /\ BookInv => OkMeansDelivered
  BY OkOfBooks
<1> QED BY <1>1, <1>2, <1>3, PTL DEF Spec


-----------------------------------------------------------------------------
(* Logs that compare-session-logs passes                                   *)

\* What is picked is shorter, unless it is all.
LEMMA PickedLength ==
  ASSUME NEW S, NEW s \in Seq(S), NEW D
  PROVE  /\ Len(Picked(s, D)) <= Len(s)
         /\ Len(Picked(s, D)) = Len(s) => \A n \in 1..Len(s) : n \in D
<1> DEFINE Short(w) == /\ Len(Picked(w, D)) <= Len(w)
                       /\ Len(Picked(w, D)) = Len(w) => \A n \in 1..Len(w) : n \in D
           P == {w \in Seq(S) : Short(w)}
<1>1. <<>> \in P
  BY EmptySeq, PickedEmpty
<1>2. ASSUME NEW w \in Seq(S), NEW e \in S, w \in P
      PROVE  Append(w, e) \in P
  <2>1. PICK p, q : p = Picked(w, D) /\ q = Picked(Append(w, e), D) /\ p \in Seq(S)
    BY PickedType
  <2>2. q = IF Len(w) + 1 \in D THEN Append(p, e) ELSE p
    BY <2>1, PickedMore
  <2>3. Len(p) <= Len(w) /\ (Len(p) = Len(w) => \A n \in 1..Len(w) : n \in D)
    BY <1>2, <2>1
  <2>4. /\ Len(Append(w, e)) = Len(w) + 1 /\ Append(w, e) \in Seq(S)
        /\ Len(Append(p, e)) = Len(p) + 1 /\ Len(w) \in Nat /\ Len(p) \in Nat
    BY AppendProperties, LenProperties
  <2>5. CASE Len(w) + 1 \in D
    <3>1. Len(q) = Len(p) + 1
      BY <2>2, <2>4, <2>5
    <3>2. \A n \in 1..(Len(w) + 1) : n \in 1..Len(w) \/ n = Len(w) + 1
      BY <2>4
    <3>3. Short(Append(w, e))
      BY <2>1, <2>3, <2>4, <2>5, <3>1, <3>2
    <3> QED BY <2>4, <3>3
  <2>6. CASE Len(w) + 1 \notin D
    <3>1. Len(q) = Len(p) /\ Len(p) < Len(w) + 1
      BY <2>2, <2>3, <2>4, <2>6
    <3>2. Short(Append(w, e))
      BY <2>1, <2>4, <3>1
    <3> QED BY <2>4, <3>2
  <2> QED BY <2>5, <2>6
<1> HIDE DEF P
<1>3. Seq(S) \subseteq P
  BY <1>1, <1>2, SeqInduction
<1> QED BY <1>3 DEF P

\* The texts of what is picked are picked from the texts.
LEMMA TextsPicked ==
  ASSUME NEW s \in Seq(Message), NEW D
  PROVE  /\ Texts(s) \in Seq(Text)
         /\ Texts(Picked(s, D)) = Picked(Texts(s), D)
<1>0. PICK g : g = [m \in Message |-> m.text]
  BY Zenon
<1> DEFINE P == {w \in Seq(Message) : Mapped(Picked(w, D), g) = Picked(Mapped(w, g), D)}
<1>1. <<>> \in P
  <2>1. Mapped(<<>>, g) = <<>>
    BY DEF Mapped
  <2> QED BY <2>1, EmptySeq, PickedEmpty
<1>2. ASSUME NEW w \in Seq(Message) PROVE Mapped(w, g) \in Seq(Text)
  <2>1. Len(w) \in Nat /\ DOMAIN w = 1..Len(w) /\ \A i \in 1..Len(w) : w[i] \in Message
    BY LenProperties, ElementOfSeq
  <2>2. \A i \in 1..Len(w) : g[w[i]] \in Text
    BY <1>0, <2>1 DEF Message
  <2> QED BY <2>1, <2>2 DEF Mapped
<1>3. ASSUME NEW w \in Seq(Message), NEW e \in Message, w \in P
      PROVE  Append(w, e) \in P
  <2>1. PICK p, q : p = Picked(w, D) /\ q = Picked(Append(w, e), D) /\ p \in Seq(Message)
    BY PickedType
  <2>2. q = IF Len(w) + 1 \in D THEN Append(p, e) ELSE p
    BY <2>1, PickedMore
  <2>3. PICK u, v : u = Mapped(w, g) /\ v = Mapped(Append(w, e), g)
    OBVIOUS
  <2>4. v = Append(u, g[e]) /\ u \in Seq(Text) /\ g[e] \in Text
    <3>1. Mapped(Append(w, e), g) = Append(Mapped(w, g), g[e])
      BY MappedMore, ZenonT(60)
    <3>2. Mapped(w, g) \in Seq(Text)
      BY <1>2
    <3>3. g[e] \in Text
      BY <1>0 DEF Message
    <3> QED BY <2>3, <3>1, <3>2, <3>3
  <2>5. Len(u) = Len(w)
    <3>1. Len(w) \in Nat /\ DOMAIN w = 1..Len(w)
      BY LenProperties
    <3>2. DOMAIN u = 1..Len(w)
      BY <2>3, <3>1 DEF Mapped
    <3> QED BY <2>4, <3>1, <3>2, LenProperties
  <2>6. Picked(v, D) = IF Len(u) + 1 \in D THEN Append(Picked(u, D), g[e]) ELSE Picked(u, D)
    <3>1. ASSUME NEW a \in Seq(Text), NEW b \in Text
          PROVE  Picked(Append(a, b), D) = IF Len(a) + 1 \in D THEN Append(Picked(a, D), b)
                                           ELSE Picked(a, D)
      BY PickedMore
    <3> QED BY <2>4, <3>1, Zenon
  <2>7. Mapped(Append(p, e), g) = Append(Mapped(p, g), g[e])
    BY <2>1, MappedMore, ZenonT(60)
  <2>8. Mapped(p, g) = Picked(u, D)
    BY <1>3, <2>1, <2>3
  <2>9. Mapped(q, g) = Picked(v, D)
    BY <2>2, <2>5, <2>6, <2>7, <2>8, Zenon
  <2> QED BY <2>1, <2>3, <2>9, AppendProperties
<1> HIDE DEF P
<1>4. Seq(Message) \subseteq P
  BY <1>1, <1>3, SeqInduction
<1>5. Mapped(Picked(s, D), g) = Picked(Mapped(s, g), D)
  BY <1>4 DEF P
<1>6. ASSUME NEW w \in Seq(Message) PROVE Mapped(w, g) = Texts(w)
  <2>1. \A i \in DOMAIN w : w[i] \in Message
    BY LenProperties, ElementOfSeq
  <2>2. \A i \in DOMAIN w : g[w[i]] = w[i].text
    BY <1>0, <2>1
  <2> QED BY <2>2 DEF Mapped, Texts
<1>8. Picked(s, D) \in Seq(Message)
  BY PickedType
<1>9. Texts(s) \in Seq(Text)
  BY <1>2, <1>6
<1> QED BY <1>5, <1>6, <1>8, <1>9

\* Two logs tell of the same messages, one as sent and one as received.
Mirrors(a, x, b, y) ==
  /\ Len(x) = Len(y)
  /\ \A i \in 1..Len(x) :
       /\ Readable(x[i]) /\ Readable(y[i]) /\ (x[i].verb = "OUT" <=> y[i].verb # "OUT")
       /\ x[i].call = b /\ y[i].call = a /\ x[i].text = y[i].text

\* A log that can be read is parsed line by line.
LEMMA ParseFacts ==
  ASSUME NEW a \in Call, NEW x \in Seq(LogLine)
  PROVE  LET p == ParseSimpleLog(a, x)
         IN  /\ p.station = a
             /\ p.ok <=> \A i \in 1..Len(x) : Readable(x[i])
             /\ p.ok => p.messages = [i \in 1..Len(x) |-> ParseSimpleLogLine(a, i, x[i])]
<1>1. PICK D : D = {i \in DOMAIN x : Readable(x[i])}
  BY Zenon
<1>2. PICK lines : lines = Picked(x, D)
  OBVIOUS
<1>3. DOMAIN x = 1..Len(x) /\ Len(x) \in Nat
  BY LenProperties
<1>4. Len(lines) = Len(x) <=> \A i \in 1..Len(x) : Readable(x[i])
  <2>1. Len(lines) = Len(x) => \A i \in 1..Len(x) : i \in D
    BY <1>2, PickedLength
  <2>2. ASSUME \A i \in 1..Len(x) : Readable(x[i]) PROVE lines = x
    <3>1. \A i \in 1..Len(x) : i \in D
      BY <1>1, <1>3, <2>2
    <3> QED BY <1>2, <3>1, PickedAll
  <2> QED BY <1>1, <2>1, <2>2
<1>5. ASSUME \A i \in 1..Len(x) : Readable(x[i]) PROVE lines = x
  <2>1. \A i \in 1..Len(x) : i \in D
    BY <1>1, <1>3, <1>5
  <2> QED BY <1>2, <2>1, PickedAll
<1>6. PICK p : p = ParseSimpleLog(a, x)
  OBVIOUS
<1>7. /\ p.station = a /\ p.ok = (Len(lines) = Len(x))
      /\ p.messages = [i \in DOMAIN lines |-> ParseSimpleLogLine(a, i, lines[i])]
  BY <1>1, <1>2, <1>6 DEF ParseSimpleLog
<1>8. p.ok => lines = x
  BY <1>4, <1>5, <1>7, Zenon
<1> QED BY <1>3, <1>4, <1>6, <1>7, <1>8, Zenon

\* compare-peer-logs passes two logs just when they mirror each other.
LEMMA ComparesMirrors ==
  ASSUME NEW a \in Call, NEW b \in Call, a # b, NEW x \in Seq(LogLine), NEW y \in Seq(LogLine)
  PROVE  ComparePeerLogs(a, x, b, y) <=> Mirrors(a, x, b, y)
<1>1. PICK p, q : p = ParseSimpleLog(a, x) /\ q = ParseSimpleLog(b, y)
  OBVIOUS
<1>2. /\ p.station = a
      /\ p.ok <=> \A i \in 1..Len(x) : Readable(x[i])
      /\ p.ok => p.messages = [i \in 1..Len(x) |-> ParseSimpleLogLine(a, i, x[i])]
  BY <1>1, ParseFacts
<1>3. /\ q.station = b
      /\ q.ok <=> \A i \in 1..Len(y) : Readable(y[i])
      /\ q.ok => q.messages = [i \in 1..Len(y) |-> ParseSimpleLogLine(b, i, y[i])]
  BY <1>1, ParseFacts
<1>4. ComparePeerLogs(a, x, b, y) <=> p.ok /\ q.ok /\ Mismatches(p.messages, q.messages, TRUE) = {}
  <2>1. ComparePeerLogTranscripts(p, q) = Mismatches(p.messages, q.messages, TRUE)
    BY <1>2, <1>3 DEF ComparePeerLogTranscripts, StationMismatch
  <2> QED BY <1>1, <2>1 DEF ComparePeerLogs
<1>5. /\ Len(x) \in Nat /\ Len(y) \in Nat
      /\ \A i \in 1..Len(x) : x[i] \in LogLine
      /\ \A i \in 1..Len(y) : y[i] \in LogLine
  BY LenProperties, ElementOfSeq
<1>6. SUFFICES ASSUME p.ok, q.ok
               PROVE  Mismatches(p.messages, q.messages, TRUE) = {} <=> Mirrors(a, x, b, y)
  <2>1. Mirrors(a, x, b, y) => p.ok /\ q.ok
    BY <1>2, <1>3 DEF Mirrors
  <2> QED BY <1>4, <2>1, Zenon
<1>7. PICK s, t : s = p.messages /\ t = q.messages
  OBVIOUS
<1>8. /\ DOMAIN s = 1..Len(x) /\ DOMAIN t = 1..Len(y)
      /\ \A i \in 1..Len(x) : s[i] = ParseSimpleLogLine(a, i, x[i])
      /\ \A i \in 1..Len(y) : t[i] = ParseSimpleLogLine(b, i, y[i])
  BY <1>2, <1>3, <1>6, <1>7
<1>9. Mismatches(s, t, TRUE) = {} <=>
        /\ \A i \in DOMAIN s \cap DOMAIN t :
             \A field \in {"direction", "from", "to", "text"} : ~Differs(s[i], t[i], field, TRUE)
        /\ DOMAIN s = DOMAIN t
  <2>1. FieldMismatches(s, t, TRUE) = {} <=>
          \A i \in DOMAIN s \cap DOMAIN t :
             \A field \in {"direction", "from", "to", "text"} : ~Differs(s[i], t[i], field, TRUE)
    <3>1. ASSUME NEW i \in DOMAIN s \cap DOMAIN t,
                 NEW field \in {"direction", "from", "to", "text"},
                 Differs(s[i], t[i], field, TRUE)
          PROVE  [index |-> i, field |-> field] \in FieldMismatches(s, t, TRUE)
      BY <3>1, Zenon DEF FieldMismatches
    <3>2. \A d \in FieldMismatches(s, t, TRUE) :
            /\ d.index \in DOMAIN s \cap DOMAIN t
            /\ d.field \in {"direction", "from", "to", "text"}
            /\ Differs(s[d.index], t[d.index], d.field, TRUE)
      BY Zenon DEF FieldMismatches
    <3> QED BY <3>1, <3>2, Zenon
  <2>2. [index : (DOMAIN s \ DOMAIN t) \cup (DOMAIN t \ DOMAIN s), field : {"message"}] = {}
          <=> DOMAIN s = DOMAIN t
    <3>1. ASSUME NEW i \in (DOMAIN s \ DOMAIN t) \cup (DOMAIN t \ DOMAIN s)
          PROVE  [index |-> i, field |-> "message"]
                   \in [index : (DOMAIN s \ DOMAIN t) \cup (DOMAIN t \ DOMAIN s), field : {"message"}]
      OBVIOUS
    <3> QED BY <3>1, Zenon
  <2> QED BY <2>1, <2>2, Zenon DEF Mismatches
<1>10. DOMAIN s = DOMAIN t <=> Len(x) = Len(y)
  BY <1>5, <1>8
<1>11. ASSUME NEW i \in 1..Len(x), i \in 1..Len(y)
       PROVE  (\A field \in {"direction", "from", "to", "text"} : ~Differs(s[i], t[i], field, TRUE))
                <=> /\ (x[i].verb = "OUT" <=> y[i].verb # "OUT")
                    /\ x[i].call = b /\ y[i].call = a /\ x[i].text = y[i].text
  <2>1. (\A field \in {"direction", "from", "to", "text"} : ~Differs(s[i], t[i], field, TRUE))
          <=> /\ s[i].direction # t[i].direction /\ s[i].from = t[i].from
              /\ s[i].to = t[i].to /\ s[i].text = t[i].text
    BY DEF Differs
  <2>2. /\ s[i].direction = (IF x[i].verb = "OUT" THEN "Outbound" ELSE "Inbound")
        /\ s[i].from = (IF x[i].verb = "OUT" THEN a ELSE x[i].call)
        /\ s[i].to = (IF x[i].verb = "OUT" THEN x[i].call ELSE a)
        /\ s[i].text = x[i].text
    BY <1>8 DEF ParseSimpleLogLine
  <2>3. /\ t[i].direction = (IF y[i].verb = "OUT" THEN "Outbound" ELSE "Inbound")
        /\ t[i].from = (IF y[i].verb = "OUT" THEN b ELSE y[i].call)
        /\ t[i].to = (IF y[i].verb = "OUT" THEN y[i].call ELSE b)
        /\ t[i].text = y[i].text
    BY <1>8, <1>11 DEF ParseSimpleLogLine
  <2>4. s[i].direction # t[i].direction <=> (x[i].verb = "OUT" <=> y[i].verb # "OUT")
    BY <2>2, <2>3
  <2> QED BY <2>1, <2>2, <2>3, <2>4, Zenon
<1>12. /\ \A i \in 1..Len(x) : Readable(x[i])
       /\ \A i \in 1..Len(y) : Readable(y[i])
  BY <1>2, <1>3, <1>6
<1> QED BY <1>7, <1>8, <1>9, <1>10, <1>11, <1>12, Zenon DEF Mirrors

\* The log of one station is all that is needed to know the other one's.
LEMMA OneMirror ==
  ASSUME NEW a, NEW b, NEW x \in Seq(LogLine), NEW z \in Seq(LogLine), NEW y \in Seq(LogLine),
         Mirrors(a, x, b, y), Mirrors(a, z, b, y)
  PROVE  x = z
<1>1. Len(x) = Len(z)
  BY DEF Mirrors
<1>2. ASSUME NEW i \in 1..Len(x) PROVE x[i] = z[i]
  <2>1. x[i] \in LogLine /\ z[i] \in LogLine
    BY <1>1, ElementOfSeq
  <2>2. x[i].verb = z[i].verb /\ x[i].call = z[i].call /\ x[i].text = z[i].text
    BY <1>1, <2>1, Zenon DEF Mirrors, LogLine, LogVerb, Readable
  <2> QED BY <2>1, <2>2, SMTT(30) DEF LogLine
<1> QED BY <1>1, <1>2, SeqEqual

\* The log of a station has a line for each message.
LEMMA LogFacts ==
  ASSUME TypeInv, NEW n \in Node
  PROVE  LET s == chat[n].messages
         IN  /\ s \in Seq(Message) /\ LogOf(n) \in Seq(LogLine) /\ Len(LogOf(n)) = Len(s)
             /\ \A i \in 1..Len(s) : LogOf(n)[i] = NormalizedLogLine(n, s[i])
<1>1. PICK s : s = chat[n].messages
  OBVIOUS
<1>2. s \in Seq(Message)
  BY <1>1 DEF TypeInv, NodeOK, Backend
<1>3. Len(s) \in Nat /\ DOMAIN s = 1..Len(s) /\ \A i \in 1..Len(s) : s[i] \in Message
  BY <1>2, LenProperties, ElementOfSeq
<1>4. \A i \in 1..Len(s) : NormalizedLogLine(n, s[i]) \in LogLine
  BY <1>3 DEF NormalizedLogLine, LogLine, LogVerb, Message
<1>5. LogOf(n) = [i \in 1..Len(s) |-> NormalizedLogLine(n, s[i])]
  BY <1>1, <1>3 DEF LogOf, NormalizedLog
<1>6. LogOf(n) \in Seq(LogLine) /\ Len(LogOf(n)) = Len(s)
  BY <1>3, <1>4, <1>5
<1> QED BY <1>1, <1>2, <1>5, <1>6

\* An altered log still is one.
LEMMA AlteredType ==
  ASSUME NEW x \in Seq(LogLine), NEW z \in Altered(x)
  PROVE  z \in Seq(LogLine)
<1>1. Len(x) \in Nat /\ DOMAIN x = 1..Len(x) /\ \A i \in 1..Len(x) : x[i] \in LogLine
  BY LenProperties, ElementOfSeq
<1>2. ASSUME NEW i \in DOMAIN x
      PROVE  SubSeq(x, 1, i - 1) \o SubSeq(x, i + 1, Len(x)) \in Seq(LogLine)
  <2>1. SubSeq(x, 1, i - 1) \in Seq(LogLine) /\ SubSeq(x, i + 1, Len(x)) \in Seq(LogLine)
    BY <1>1, SubSeqProperties
  <2> QED BY <2>1, ConcatProperties
<1>3. ASSUME NEW i \in DOMAIN x
      PROVE  SubSeq(x, 1, i) \o SubSeq(x, i, Len(x)) \in Seq(LogLine)
  <2>1. SubSeq(x, 1, i) \in Seq(LogLine) /\ SubSeq(x, i, Len(x)) \in Seq(LogLine)
    BY <1>1, SubSeqProperties
  <2> QED BY <2>1, ConcatProperties
<1>4. ASSUME NEW i \in DOMAIN x, NEW line \in LogLine
      PROVE  [x EXCEPT ![i] = line] \in Seq(LogLine)
  BY <1>1
<1>5. ASSUME NEW i \in DOMAIN x
      PROVE  /\ \A verb \in LogVerb : [x[i] EXCEPT !.verb = verb] \in LogLine
             /\ \A call \in Call : [x[i] EXCEPT !.call = call] \in LogLine
             /\ \A text \in Text : [x[i] EXCEPT !.text = text] \in LogLine
  BY <1>1, Zenon DEF LogLine
<1>6. ASSUME NEW i \in DOMAIN x
      PROVE  /\ \A verb \in LogVerb : [x EXCEPT ![i].verb = verb] \in Seq(LogLine)
             /\ \A call \in Call : [x EXCEPT ![i].call = call] \in Seq(LogLine)
             /\ \A text \in Text : [x EXCEPT ![i].text = text] \in Seq(LogLine)
  <2>1. ASSUME NEW verb \in LogVerb PROVE [x EXCEPT ![i].verb = verb] \in Seq(LogLine)
    <3>1. [x[i] EXCEPT !.verb = verb] \in LogLine
      BY <1>5
    <3> QED BY <1>4, <3>1
  <2>2. ASSUME NEW call \in Call PROVE [x EXCEPT ![i].call = call] \in Seq(LogLine)
    <3>1. [x[i] EXCEPT !.call = call] \in LogLine
      BY <1>5
    <3> QED BY <1>4, <3>1
  <2>3. ASSUME NEW text \in Text PROVE [x EXCEPT ![i].text = text] \in Seq(LogLine)
    <3>1. [x[i] EXCEPT !.text = text] \in LogLine
      BY <1>5
    <3> QED BY <1>4, <3>1
  <2> QED BY <2>1, <2>2, <2>3
<1> DEFINE Lost == {SubSeq(x, 1, i - 1) \o SubSeq(x, i + 1, Len(x)) : i \in DOMAIN x}
           Doubled == {SubSeq(x, 1, i) \o SubSeq(x, i, Len(x)) : i \in DOMAIN x}
           Turned == {[x EXCEPT ![i].verb = verb] : i \in DOMAIN x, verb \in LogVerb}
           Named == {[x EXCEPT ![i].call = call] : i \in DOMAIN x, call \in Call}
           Worded == {[x EXCEPT ![i].text = text] : i \in DOMAIN x, text \in Text}
<1>7. Altered(x) = Lost \cup Doubled \cup Turned \cup Named \cup Worded
  BY DEF Altered
<1>8. ASSUME z \in Lost PROVE z \in Seq(LogLine)
  BY <1>2, <1>8, Zenon
<1>9. ASSUME z \in Doubled PROVE z \in Seq(LogLine)
  BY <1>3, <1>9, Zenon
<1>10. ASSUME z \in Turned PROVE z \in Seq(LogLine)
  BY <1>6, <1>10
<1>11. ASSUME z \in Named PROVE z \in Seq(LogLine)
  BY <1>6, <1>11
<1>12. ASSUME z \in Worded PROVE z \in Seq(LogLine)
  BY <1>6, <1>12
<1> HIDE DEF Lost, Doubled, Turned, Named, Worded
<1> QED BY <1>7, <1>8, <1>9, <1>10, <1>11, <1>12, Zenon

\* What is left of the logs' texts when the logs mirror each other.
LEMMA MirrorsTexts ==
  ASSUME TypeInv, NEW n \in Node, Mirrors(n, LogOf(n), Peer(n), LogOf(Peer(n)))
  PROVE  /\ TextsOf(chat[n], "Outbound") = TextsOf(chat[Peer(n)], "Inbound")
         /\ TextsOf(chat[n], "Inbound") = TextsOf(chat[Peer(n)], "Outbound")
<1>1. Peer(n) \in Node
  BY Peers
<1>2. PICK s, t, x, y : /\ s = chat[n].messages /\ t = chat[Peer(n)].messages
                        /\ x = LogOf(n) /\ y = LogOf(Peer(n))
  OBVIOUS
<1>3. /\ s \in Seq(Message) /\ Len(x) = Len(s)
      /\ \A i \in 1..Len(s) : x[i] = NormalizedLogLine(n, s[i])
  BY <1>2, LogFacts
<1>4. /\ t \in Seq(Message) /\ Len(y) = Len(t)
      /\ \A i \in 1..Len(t) : y[i] = NormalizedLogLine(Peer(n), t[i])
  BY <1>1, <1>2, LogFacts
<1>5. /\ Len(s) = Len(t) /\ Len(s) \in Nat /\ DOMAIN s = 1..Len(s) /\ DOMAIN t = 1..Len(s)
      /\ \A i \in 1..Len(s) : s[i] \in Message /\ t[i] \in Message
  BY <1>2, <1>3, <1>4, LenProperties, ElementOfSeq, ZenonT(60) DEF Mirrors
<1>6. ASSUME NEW i \in 1..Len(s)
      PROVE  s[i].text = t[i].text /\ (s[i].direction = "Outbound" <=> t[i].direction = "Inbound")
  <2>1. (x[i].verb = "OUT" <=> y[i].verb # "OUT") /\ x[i].text = y[i].text
    BY <1>2, <1>3, <1>6 DEF Mirrors
  <2>2. /\ s[i].text = x[i].text /\ (x[i].verb = "OUT" <=> s[i].direction # "Inbound")
        /\ t[i].text = y[i].text /\ (y[i].verb = "OUT" <=> t[i].direction # "Inbound")
    <3>1. x[i] = NormalizedLogLine(n, s[i]) /\ y[i] = NormalizedLogLine(Peer(n), t[i])
      BY <1>3, <1>4, <1>5
    <3> QED BY <3>1 DEF NormalizedLogLine
  <2>3. s[i].direction \in Direction /\ t[i].direction \in Direction
    BY <1>5 DEF Message
  <2> QED BY <2>1, <2>2, <2>3 DEF Direction
<1>7. Texts(s) = Texts(t)
  BY <1>5, <1>6 DEF Texts
<1>8. /\ {i \in DOMAIN s : s[i].direction = "Outbound"} = {i \in DOMAIN t : t[i].direction = "Inbound"}
      /\ {i \in DOMAIN s : s[i].direction = "Inbound"} = {i \in DOMAIN t : t[i].direction = "Outbound"}
  <2>1. \A i \in 1..Len(s) : s[i].direction \in Direction /\ t[i].direction \in Direction
    BY <1>5 DEF Message
  <2> QED BY <1>5, <1>6, <2>1 DEF Direction
<1>9. ASSUME NEW D PROVE Texts(Picked(s, D)) = Texts(Picked(t, D))
  <2>1. Texts(Picked(s, D)) = Picked(Texts(s), D)
    BY <1>3, TextsPicked
  <2>2. Texts(Picked(t, D)) = Picked(Texts(t), D)
    BY <1>4, TextsPicked
  <2> QED BY <1>7, <2>1, <2>2
<1> QED BY <1>2, <1>8, <1>9, Zenon DEF TextsOf

\* Two logs that mirror each other are the only ones that do.
LEMMA LogsAgree == TypeInv => PassedLogsAgree
<1> SUFFICES ASSUME TypeInv, NEW m \in Node, MatchesPeerLog(m, LogOf(m)), NEW n \in Node
             PROVE  /\ TextsOf(chat[n], "Outbound") = TextsOf(chat[Peer(n)], "Inbound")
                    /\ \A log \in Altered(LogOf(n)) \ {LogOf(n)} : ~MatchesPeerLog(n, log)
  BY DEF PassedLogsAgree
<1>1. /\ \A k \in Node : LogOf(k) \in Seq(LogLine)
      /\ \A k \in Node : Peer(k) \in Node /\ Peer(k) # k /\ k \in Call /\ Peer(k) \in Call
      /\ \A k \in Node : k = m \/ k = Peer(m)
      /\ Peer(Peer(m)) = m
  <2>1. \A k \in Node : LogOf(k) \in Seq(LogLine)
    BY LogFacts
  <2> QED BY <2>1, Peers
<1>2. \A k \in Node : \A log \in Seq(LogLine) :
        MatchesPeerLog(k, log) <=> Mirrors(k, log, Peer(k), LogOf(Peer(k)))
  BY <1>1, ComparesMirrors DEF MatchesPeerLog
<1>3. Mirrors(m, LogOf(m), Peer(m), LogOf(Peer(m)))
  BY <1>1, <1>2
<1>4. Mirrors(Peer(m), LogOf(Peer(m)), m, LogOf(m))
  BY <1>3 DEF Mirrors
<1>5. Mirrors(n, LogOf(n), Peer(n), LogOf(Peer(n)))
  BY <1>1, <1>3, <1>4
<1>6. TextsOf(chat[n], "Outbound") = TextsOf(chat[Peer(n)], "Inbound")
  BY <1>5, MirrorsTexts
<1>7. ASSUME NEW log \in Altered(LogOf(n)), log # LogOf(n), MatchesPeerLog(n, log)
      PROVE  FALSE
  <2>1. log \in Seq(LogLine)
    BY <1>1, AlteredType
  <2>2. Mirrors(n, log, Peer(n), LogOf(Peer(n)))
    BY <1>2, <1>7, <2>1
  <2>3. log = LogOf(n)
    BY <1>1, <1>5, <2>1, <2>2, OneMirror
  <2> QED BY <1>7, <2>3
<1> QED BY <1>6, <1>7

\* Two logs that compare-session-logs passes record the same texts as sent here and
\* received there, whatever scripts left them and whatever failed, and it passes neither
\* of them with one line lost, doubled, made unreadable, turned round or changed.
THEOREM LogsRight == Spec => []PassedLogsAgree
BY TypeCorrect, LogsAgree, PTL

-----------------------------------------------------------------------------
(* Scripts for one station                                                 *)

FakeInput == {line \in [verb: FakeVerb, call: Call, text: Text \cup {NoText}] :
                line.verb \in {"SEND", "RX"} => line.text \in Text}
RunState == [ok: BOOLEAN, chat: Backend]

RunStep(station, r, line) ==
  [ok |-> r.ok /\ FakeLineOk(r.chat, line), chat |-> ExecuteScriptLine(r.chat, station, line)]

\* A line keeps the backend a backend.
LEMMA RunStepType ==
  ASSUME NEW station \in Call, NEW r \in RunState, NEW line \in FakeInput
  PROVE  RunStep(station, r, line) \in RunState
<1>1. PICK c : c = r.chat
  OBVIOUS
<1>2. c \in Backend /\ r.ok \in BOOLEAN
  BY <1>1 DEF RunState
<1>3. /\ line.verb \in FakeVerb /\ line.call \in Call
      /\ line.verb \in {"SEND", "RX"} => line.text \in Text
  BY DEF FakeInput
<1>4. ConnectTo(c, line.call) \in Backend /\ Disconnected(c) \in Backend
  BY <1>2, <1>3 DEF ConnectTo, Disconnected, Backend
<1>5. ASSUME NEW direction \in Direction, NEW from \in Call, NEW to \in Call, NEW text \in Text
      PROVE  PushMessage(c, direction, from, to, text) \in Backend
  <2>1. PICK m : m = [sequence |-> c.next, direction |-> direction, from |-> from, to |-> to,
                      text |-> text]
    BY Zenon
  <2>2. c.messages \in Seq(Message) /\ c.next \in Nat /\ c.peer \in Call \cup {NoCall}
    BY <1>2 DEF Backend
  <2>3. m \in Message
    BY <2>1, <2>2 DEF Message
  <2>4. Append(c.messages, m) \in Seq(Message)
    BY <2>2, <2>3, AppendProperties
  <2> QED BY <2>1, <2>2, <2>4 DEF PushMessage, Backend
<1>6. ASSUME IsConnected(c), line.verb = "SEND"
      PROVE  SentText(c, station, line.text) \in Backend
  <2>1. c.peer \in Call
    BY <1>2, <1>6 DEF Backend, IsConnected
  <2> QED BY <1>3, <1>5, <1>6, <2>1 DEF SentText, Direction
<1>7. ASSUME line.verb = "RX"
      PROVE  ReceivedText(c, station, line.call, line.text) \in Backend
  BY <1>3, <1>5, <1>7 DEF ReceivedText, Direction
<1>8. ExecuteScriptLine(c, station, line) \in Backend
  <2>1. CASE ~FakeLineOk(c, line)
    BY <1>2, <2>1 DEF ExecuteScriptLine
  <2>2. CASE FakeLineOk(c, line) /\ line.verb = "CONNECT"
    BY <1>4, <2>2 DEF ExecuteScriptLine
  <2>3. CASE FakeLineOk(c, line) /\ line.verb = "SEND"
    <3>1. IsConnected(c)
      BY <2>3 DEF FakeLineOk
    <3> QED BY <1>6, <2>3, <3>1 DEF ExecuteScriptLine
  <2>4. CASE FakeLineOk(c, line) /\ line.verb = "RX"
    BY <1>7, <2>4 DEF ExecuteScriptLine
  <2>5. CASE FakeLineOk(c, line) /\ line.verb = "DISCONNECT"
    BY <1>4, <2>5 DEF ExecuteScriptLine
  <2>6. CASE FakeLineOk(c, line) /\ line.verb \in {"STATUS", "unreadable"}
    BY <1>2, <2>6 DEF ExecuteScriptLine
  <2> QED BY <1>3, <2>1, <2>2, <2>3, <2>4, <2>5, <2>6 DEF FakeVerb
<1>9. FakeLineOk(c, line) \in BOOLEAN
  BY <1>3, Zenon DEF FakeLineOk, FakeVerb, IsConnected, Accepts
<1> QED BY <1>1, <1>2, <1>8, <1>9 DEF RunStep, RunState

\* The states of the fake backend while it runs a script.
RunBy(station, lines, f) ==
  /\ f \in [0..Len(lines) -> RunState] /\ FakeScriptRun(station, lines) = f[Len(lines)]
  /\ f[0] = [ok |-> TRUE, chat |-> NewBackend]
  /\ \A n \in 1..Len(lines) : f[n] = RunStep(station, f[n - 1], lines[n])

\* Any script has a run.
LEMMA RunExists ==
  ASSUME NEW station \in Call, NEW lines \in Seq(FakeInput)
  PROVE  \E f : RunBy(station, lines, f)
<1>1. Len(lines) \in Nat /\ \A n \in 1..Len(lines) : lines[n] \in FakeInput
  BY LenProperties, ElementOfSeq
<1>2. PICK start : start = [ok |-> TRUE, chat |-> NewBackend]
  BY Zenon
<1>3. start \in RunState
  <2>1. NewBackend \in Backend
    BY EmptySeq DEF NewBackend, Backend
  <2> QED BY <1>2, <2>1 DEF RunState
<1>4. PICK step : step = [p \in (1..Len(lines)) \X RunState |-> RunStep(station, p[2], lines[p[1]])]
  BY Zenon
<1>5. \A n \in 1..Len(lines) : \A r \in RunState :
        step[<<n, r>>] = RunStep(station, r, lines[n]) /\ RunStep(station, r, lines[n]) \in RunState
  BY <1>1, <1>4, RunStepType
<1>6. step \in [(1..Len(lines)) \X RunState -> RunState]
  BY <1>4, <1>5, Zenon
<1>7. PICK f \in [0..Len(lines) -> RunState] : StepsFrom(start, step, Len(lines), f)
  BY <1>1, <1>3, <1>6, StepsExist, Zenon
<1>8. f[0] = start
  BY <1>7 DEF StepsFrom
<1>9. ASSUME NEW n \in 1..Len(lines) PROVE f[n] = RunStep(station, f[n - 1], lines[n])
  <2>1. n - 1 \in 0..Len(lines) /\ f[n - 1] \in RunState
    BY <1>1, <1>7
  <2> QED BY <1>5, <1>7, <2>1, Zenon DEF StepsFrom
<1> DEFINE h == CHOOSE h : h = [n \in 0..Len(lines) |->
                                  IF n = 0 THEN [ok |-> TRUE, chat |-> NewBackend]
                                  ELSE [ok |-> h[n - 1].ok /\ FakeLineOk(h[n - 1].chat, lines[n]),
                                        chat |-> ExecuteScriptLine(h[n - 1].chat, station, lines[n])]]
<1>10. f = [n \in 0..Len(lines) |->
              IF n = 0 THEN [ok |-> TRUE, chat |-> NewBackend]
              ELSE [ok |-> f[n - 1].ok /\ FakeLineOk(f[n - 1].chat, lines[n]),
                    chat |-> ExecuteScriptLine(f[n - 1].chat, station, lines[n])]]
  <2>1. ASSUME NEW n \in 0..Len(lines)
        PROVE  f[n] = IF n = 0 THEN [ok |-> TRUE, chat |-> NewBackend]
                      ELSE [ok |-> f[n - 1].ok /\ FakeLineOk(f[n - 1].chat, lines[n]),
                            chat |-> ExecuteScriptLine(f[n - 1].chat, station, lines[n])]
    <3>1. n = 0 \/ (n # 0 /\ n \in 1..Len(lines))
      BY <1>1
    <3> QED BY <1>2, <1>8, <1>9, <3>1, Zenon DEF RunStep
  <2> QED BY <1>7, <2>1, Zenon
<1>11. h = [n \in 0..Len(lines) |->
              IF n = 0 THEN [ok |-> TRUE, chat |-> NewBackend]
              ELSE [ok |-> h[n - 1].ok /\ FakeLineOk(h[n - 1].chat, lines[n]),
                    chat |-> ExecuteScriptLine(h[n - 1].chat, station, lines[n])]]
  BY <1>10, Zenon
<1>12. FakeScriptRun(station, lines) = h[Len(lines)]
  BY Zenon DEF FakeScriptRun
<1> HIDE DEF h
<1>13. h[0] = start /\ \A n \in 1..Len(lines) : h[n] = RunStep(station, h[n - 1], lines[n])
  <2>1. \A n \in 0..Len(lines) :
          h[n] = IF n = 0 THEN [ok |-> TRUE, chat |-> NewBackend]
                 ELSE [ok |-> h[n - 1].ok /\ FakeLineOk(h[n - 1].chat, lines[n]),
                       chat |-> ExecuteScriptLine(h[n - 1].chat, station, lines[n])]
    BY <1>11, Zenon
  <2>2. 0 \in 0..Len(lines) /\ \A n \in 1..Len(lines) : n \in 0..Len(lines) /\ n # 0
    BY <1>1
  <2> QED BY <1>2, <2>1, <2>2, Zenon DEF RunStep
<1>14. h[Len(lines)] = f[Len(lines)]
  <2>1. h[0] = f[0] /\ \A n \in 1..Len(lines) : h[n - 1] = f[n - 1] => h[n] = f[n]
    BY <1>8, <1>9, <1>13, Zenon
  <2> QED BY <1>1, <2>1, StepsAgree, Zenon
<1>15. RunBy(station, lines, f)
  BY <1>2, <1>7, <1>8, <1>9, <1>12, <1>14, Zenon DEF RunBy
<1> QED BY <1>15

\* The backend starts new, and goes on with a line more.
LEMMA RunMore ==
  ASSUME NEW station \in Call, NEW lines \in Seq(FakeInput), NEW line \in FakeInput
  PROVE  /\ FakeScriptRun(station, <<>>) = [ok |-> TRUE, chat |-> NewBackend]
         /\ FakeScriptRun(station, lines) \in RunState
         /\ FakeScriptRun(station, Append(lines, line))
              = RunStep(station, FakeScriptRun(station, lines), line)
<1>1. FakeScriptRun(station, <<>>) = [ok |-> TRUE, chat |-> NewBackend]
  <2>1. <<>> \in Seq(FakeInput) /\ Len(<<>>) = 0
    BY EmptySeq
  <2>2. PICK f : RunBy(station, <<>>, f)
    BY <2>1, RunExists, Zenon
  <2> QED BY <2>1, <2>2 DEF RunBy
<1>2. PICK t \in Seq(FakeInput) : t = Append(lines, line)
  BY AppendProperties, Zenon
<1>3. /\ Len(lines) \in Nat /\ Len(t) = Len(lines) + 1 /\ t[Len(lines) + 1] = line
      /\ \A n \in 1..Len(lines) : t[n] = lines[n]
  BY <1>2, AppendProperties, LenProperties
<1>4. PICK f : RunBy(station, lines, f)
  BY RunExists
<1>5. PICK h : RunBy(station, t, h)
  BY RunExists
<1>6. FakeScriptRun(station, lines) \in RunState
  BY <1>3, <1>4 DEF RunBy
<1>7. ASSUME NEW n \in 1..Len(lines) PROVE h[n] = RunStep(station, h[n - 1], lines[n])
  <2>1. n \in 1..Len(t) /\ t[n] = lines[n]
    BY <1>3
  <2> QED BY <1>5, <2>1, Zenon DEF RunBy
<1>8. h[Len(lines)] = f[Len(lines)]
  <2>1. h[0] = f[0] /\ \A n \in 1..Len(lines) : h[n - 1] = f[n - 1] => h[n] = f[n]
    BY <1>4, <1>5, <1>7, Zenon DEF RunBy
  <2> QED BY <1>3, <2>1, StepsAgree, Zenon
<1>9. h[Len(t)] = RunStep(station, h[Len(lines)], line)
  <2>1. Len(t) \in 1..Len(t) /\ Len(t) - 1 = Len(lines) /\ t[Len(t)] = line
    BY <1>3
  <2> QED BY <1>5, <2>1, Zenon DEF RunBy
<1> QED BY <1>1, <1>2, <1>4, <1>5, <1>6, <1>8, <1>9 DEF RunBy

-----------------------------------------------------------------------------
(* The lines of a script                                                   *)

Upto(n, k) == SubSeq(script[n], 1, k)

\* A script grows line by line.
LEMMA UptoMore ==
  ASSUME TypeInv, NEW n \in Node
  PROVE  /\ script[n] \in Seq(Command) /\ Len(script[n]) \in Nat
         /\ DOMAIN script[n] = 1..Len(script[n])
         /\ Upto(n, 0) = <<>> /\ Upto(n, Len(script[n])) = script[n]
         /\ \A k \in 0..Len(script[n]) : Upto(n, k) \in Seq(Command)
         /\ \A k \in 1..Len(script[n]) : /\ script[n][k] \in Command
                                         /\ Upto(n, k) = Append(Upto(n, k - 1), script[n][k])
<1>1. PICK s : s = script[n]
  OBVIOUS
<1>2. s \in Seq(Command) /\ Len(s) \in Nat /\ DOMAIN s = 1..Len(s)
  <2>1. s \in Seq(Command)
    BY <1>1 DEF TypeInv, Setup, script
  <2> QED BY <2>1, LenProperties
<1>3. \A k \in 1..Len(s) : s[k] \in Command
  BY <1>2, ElementOfSeq
<1>4. SubSeq(s, 1, 0) = <<>> /\ SubSeq(s, 1, Len(s)) = s
  BY <1>2, SubSeqEmpty, SubSeqFull
<1>5. \A k \in 0..Len(s) : SubSeq(s, 1, k) \in Seq(Command)
  BY <1>2, BeginningAndRest
<1>6. ASSUME NEW k \in 1..Len(s)
      PROVE  SubSeq(s, 1, k) = Append(SubSeq(s, 1, k - 1), s[k])
  BY <1>2, <1>6, SubSeqRecursiveSecond
<1> QED BY <1>1, <1>2, <1>3, <1>4, <1>5, <1>6 DEF Upto

\* A session is there after a CONNECT, until a DISCONNECT.
LEMMA SessionMore ==
  ASSUME NEW lines
  PROVE  /\ ~InSession(lines, 1)
         /\ \A i \in Nat \ {0} :
              InSession(lines, i + 1) <=> \/ lines[i].kind = "CONNECT"
                                          \/ lines[i].kind # "DISCONNECT" /\ InSession(lines, i)
<1>1. ~InSession(lines, 1)
  BY DEF InSession
<1>2. ASSUME NEW i \in Nat \ {0}, lines[i].kind = "CONNECT"
      PROVE  InSession(lines, i + 1)
  <2>1. i \in 1..(i + 1 - 1) /\ \A k \in i..(i + 1 - 1) : k = i
    OBVIOUS
  <2> QED BY <1>2, <2>1 DEF InSession
<1>3. ASSUME NEW i \in Nat \ {0}, lines[i].kind # "DISCONNECT", InSession(lines, i)
      PROVE  InSession(lines, i + 1)
  <2>1. PICK j \in 1..(i - 1) :
          lines[j].kind = "CONNECT" /\ \A k \in j..(i - 1) : lines[k].kind # "DISCONNECT"
    BY <1>3 DEF InSession
  <2>2. j \in 1..(i + 1 - 1) /\ \A k \in j..(i + 1 - 1) : k = i \/ k \in j..(i - 1)
    BY <2>1
  <2> QED BY <1>3, <2>1, <2>2 DEF InSession
<1>4. ASSUME NEW i \in Nat \ {0}, InSession(lines, i + 1), lines[i].kind # "CONNECT"
      PROVE  lines[i].kind # "DISCONNECT" /\ InSession(lines, i)
  <2>1. PICK j \in 1..(i + 1 - 1) :
          lines[j].kind = "CONNECT" /\ \A k \in j..(i + 1 - 1) : lines[k].kind # "DISCONNECT"
    BY <1>4 DEF InSession
  <2>2. j # i
    BY <1>4, <2>1
  <2>3. j \in 1..(i - 1) /\ i \in j..(i + 1 - 1) /\ \A k \in j..(i - 1) : k \in j..(i + 1 - 1)
    BY <2>1, <2>2
  <2> QED BY <2>1, <2>3 DEF InSession
<1> QED BY <1>1, <1>2, <1>3, <1>4

-----------------------------------------------------------------------------
(* The lines that concern the session                                      *)

Concerning == {c \in Command : c.kind \in {"CONNECT", "MSG", "DISCONNECT"}}
AsFake(n) ==
  [c \in Command |->
     [verb |-> IF c.kind = "MSG" THEN (IF c.send THEN "SEND" ELSE "RX")
               ELSE IF c.kind \in Plain THEN c.kind ELSE "STATUS",
      call |-> peerCall[n], text |-> c.text]]

FakeAt(n, k) == FakeScriptRun(n, Kept(Upto(n, k), Concerning, AsFake(n)))

\* The lines for the fake backend are those that concern the session.
LEMMA FakeLinesKept ==
  ASSUME TypeInv, NEW n \in Node
  PROVE  FakeLines(n) = Kept(script[n], Concerning, AsFake(n))
<1>1. PICK s \in Seq(Command) : s = script[n]
  BY UptoMore
<1>2. DOMAIN s = 1..Len(s) /\ \A i \in 1..Len(s) : s[i] \in Command
  BY LenProperties, ElementOfSeq
<1>3. PICK D : D = {i \in DOMAIN s : s[i].kind \in {"CONNECT", "MSG", "DISCONNECT"}}
  BY Zenon
<1>4. D = {i \in DOMAIN s : s[i] \in Concerning}
  BY <1>2, <1>3 DEF Concerning
<1>5. PICK p \in Seq(Command) : p = Picked(s, D)
  BY PickedType
<1>6. DOMAIN p = 1..Len(p) /\ \A i \in 1..Len(p) : p[i] \in Command
  BY LenProperties, ElementOfSeq
<1>7. \A i \in 1..Len(p) : p[i].kind \in {"CONNECT", "MSG", "DISCONNECT"}
  <2>1. ASSUME NEW i \in 1..Len(p) PROVE p[i].kind \in {"CONNECT", "MSG", "DISCONNECT"}
    <3>1. PICK k \in 1..Len(s) : k \in D /\ p[i] = s[k]
      BY <1>5, PickedElements
    <3> QED BY <1>3, <3>1
  <2> QED BY <2>1
<1>8. FakeLines(n) = [i \in DOMAIN p |->
        [verb |-> IF p[i].kind = "MSG" THEN (IF p[i].send THEN "SEND" ELSE "RX") ELSE p[i].kind,
         call |-> peerCall[n], text |-> p[i].text]]
  BY <1>1, <1>3, <1>5 DEF FakeLines
<1>9. Kept(s, Concerning, AsFake(n)) = [i \in DOMAIN p |-> AsFake(n)[p[i]]]
  BY <1>4, <1>5 DEF Kept, Mapped
<1>10. ASSUME NEW i \in DOMAIN p
       PROVE  AsFake(n)[p[i]] =
                [verb |-> IF p[i].kind = "MSG" THEN (IF p[i].send THEN "SEND" ELSE "RX") ELSE p[i].kind,
                 call |-> peerCall[n], text |-> p[i].text]
  <2>1. p[i] \in Command /\ p[i].kind \in {"CONNECT", "MSG", "DISCONNECT"}
    BY <1>6, <1>7
  <2>2. p[i].kind # "MSG" => p[i].kind \in Plain
    BY <2>1 DEF Plain
  <2> QED BY <2>1, <2>2 DEF AsFake
<1> QED BY <1>1, <1>8, <1>9, <1>10

\* What the fake backend makes of a script, line by line.
LEMMA FakeAtMore ==
  ASSUME TypeInv, NEW n \in Node
  PROVE  /\ FakeAt(n, 0) = [ok |-> TRUE, chat |-> NewBackend]
         /\ \A k \in 0..Len(script[n]) : FakeAt(n, k) \in RunState
         /\ \A k \in 1..Len(script[n]) :
              FakeAt(n, k) = IF script[n][k] \in Concerning
                             THEN RunStep(n, FakeAt(n, k - 1), AsFake(n)[script[n][k]])
                             ELSE FakeAt(n, k - 1)
<1>1. n \in Call /\ peerCall[n] \in Call
  <2>1. peerCall[n] \in Call
    BY DEF TypeInv, Setup, peerCall
  <2> QED BY <2>1, Peers
<1>2. ASSUME NEW c \in Command PROVE AsFake(n)[c] \in FakeInput
  <2>1. /\ c.text \in Text \cup {NoText} /\ c.kind \in Kind /\ c.send \in BOOLEAN
        /\ c.kind \notin Plain => c.text \in Text
    BY DEF Command
  <2>2. PICK v : v = IF c.kind = "MSG" THEN (IF c.send THEN "SEND" ELSE "RX")
                     ELSE IF c.kind \in Plain THEN c.kind ELSE "STATUS"
    OBVIOUS
  <2>3. v \in FakeVerb /\ (v \in {"SEND", "RX"} => c.kind = "MSG")
    BY <2>2 DEF FakeVerb, Plain
  <2>4. c.kind = "MSG" => c.text \in Text
    BY <2>1 DEF Plain
  <2>5. AsFake(n)[c] = [verb |-> v, call |-> peerCall[n], text |-> c.text]
    BY <2>2 DEF AsFake
  <2> QED BY <1>1, <2>1, <2>3, <2>4, <2>5 DEF FakeInput
<1>3. FakeAt(n, 0) = [ok |-> TRUE, chat |-> NewBackend]
  <2>1. Kept(Upto(n, 0), Concerning, AsFake(n)) = <<>>
    BY UptoMore, KeptEmpty
  <2>2. <<>> \in Seq(FakeInput) /\ \E line \in FakeInput : TRUE
    <3>1. [verb |-> "STATUS", call |-> n, text |-> NoText] \in FakeInput
      BY <1>1 DEF FakeInput, FakeVerb
    <3> QED BY <3>1, EmptySeq
  <2>3. PICK line \in FakeInput : TRUE
    BY <2>2
  <2>4. FakeScriptRun(n, <<>>) = [ok |-> TRUE, chat |-> NewBackend]
    BY <1>1, <2>2, <2>3, RunMore, Zenon
  <2> QED BY <2>1, <2>4 DEF FakeAt
<1>4. ASSUME NEW k \in 0..Len(script[n])
      PROVE  Kept(Upto(n, k), Concerning, AsFake(n)) \in Seq(FakeInput)
  BY <1>2, UptoMore, KeptInto
<1>5. ASSUME NEW k \in 0..Len(script[n])
      PROVE  FakeAt(n, k) \in RunState
  <2>1. [verb |-> "STATUS", call |-> n, text |-> NoText] \in FakeInput
    BY <1>1 DEF FakeInput, FakeVerb
  <2> QED BY <1>1, <1>4, <2>1, RunMore DEF FakeAt
<1>6. ASSUME NEW k \in 1..Len(script[n])
      PROVE  FakeAt(n, k) = IF script[n][k] \in Concerning
                            THEN RunStep(n, FakeAt(n, k - 1), AsFake(n)[script[n][k]])
                            ELSE FakeAt(n, k - 1)
  <2>1. PICK u, c, g : u = Upto(n, k - 1) /\ c = script[n][k] /\ g = AsFake(n)
    OBVIOUS
  <2>2. k - 1 \in 0..Len(script[n])
    BY UptoMore
  <2>3. u \in Seq(Command) /\ c \in Command /\ Upto(n, k) = Append(u, c)
    BY <2>1, <2>2, UptoMore, Zenon
  <2>4. /\ c \in Concerning => Kept(Append(u, c), Concerning, g) = Append(Kept(u, Concerning, g), g[c])
        /\ c \notin Concerning => Kept(Append(u, c), Concerning, g) = Kept(u, Concerning, g)
    BY <2>3, KeptMore
  <2>5. Kept(u, Concerning, g) \in Seq(FakeInput) /\ g[c] \in FakeInput
    BY <1>2, <1>4, <2>1, <2>2, <2>3
  <2>6. FakeScriptRun(n, Append(Kept(u, Concerning, g), g[c]))
          = RunStep(n, FakeScriptRun(n, Kept(u, Concerning, g)), g[c])
    BY <1>1, <2>5, RunMore
  <2> QED BY <2>1, <2>3, <2>4, <2>6, Zenon DEF FakeAt
<1> QED BY <1>3, <1>5, <1>6

\* In a conversation the fake backend takes every line, and has the session that the
\* lines leave.
LEMMA FakeHolds ==
  ASSUME TypeInv, Agreed(setup), NEW n \in Node
  PROVE  \A k \in 0..Len(script[n]) :
           /\ FakeAt(n, k).ok
           /\ FakeAt(n, k).chat.peer = IF InSession(script[n], k + 1) THEN Peer(n) ELSE NoCall
<1> DEFINE Holds(k) == /\ FakeAt(n, k).ok
                       /\ FakeAt(n, k).chat.peer = IF InSession(script[n], k + 1) THEN Peer(n)
                                                   ELSE NoCall
           P == {k \in 0..Len(script[n]) : Holds(k)}
<1>1. Len(script[n]) \in Nat
  BY UptoMore
<1>2. Holds(0)
  <2>1. FakeAt(n, 0) = [ok |-> TRUE, chat |-> NewBackend]
    BY FakeAtMore
  <2>2. ~InSession(script[n], 0 + 1)
    BY SessionMore
  <2> QED BY <2>1, <2>2 DEF NewBackend
<1>3. ASSUME NEW k \in 1..Len(script[n]), Holds(k - 1)
      PROVE  Holds(k)
  <2>1. PICK r, c : r = FakeAt(n, k - 1) /\ c = script[n][k]
    OBVIOUS
  <2>2. /\ k - 1 \in 0..Len(script[n]) /\ k - 1 + 1 = k /\ k \in Nat \ {0}
        /\ k \in DOMAIN script[n] /\ c \in Command /\ r \in RunState
    BY <1>1, <2>1, UptoMore, FakeAtMore, SMTT(30)
  <2>3. r.ok /\ r.chat.peer = IF InSession(script[n], k) THEN Peer(n) ELSE NoCall
    BY <1>3, <2>1, <2>2
  <2>4. /\ peerCall[n] = Peer(n)
        /\ c.kind = "CONNECT" => ~InSession(script[n], k)
        /\ c.kind = "MSG" => InSession(script[n], k)
    BY <2>1, <2>2 DEF Agreed, script, peerCall
  <2>5. Peer(n) # NoCall
    BY Peers, ChatAssumption
  <2>6. InSession(script[n], k + 1) <=> \/ c.kind = "CONNECT"
                                        \/ c.kind # "DISCONNECT" /\ InSession(script[n], k)
    BY <2>1, <2>2, SessionMore, Zenon
  <2>7. FakeAt(n, k) = IF c \in Concerning THEN RunStep(n, r, AsFake(n)[c]) ELSE r
    BY <2>1, FakeAtMore
  <2>8. PICK l : l = AsFake(n)[c]
    OBVIOUS
  <2>9. /\ l.call = Peer(n) /\ l.text = c.text
        /\ l.verb = IF c.kind = "MSG" THEN (IF c.send THEN "SEND" ELSE "RX")
                    ELSE IF c.kind \in Plain THEN c.kind ELSE "STATUS"
    BY <2>2, <2>4, <2>8 DEF AsFake
  <2>10. ASSUME c \in Concerning, FakeLineOk(r.chat, l)
         PROVE  FakeAt(n, k).ok /\ FakeAt(n, k).chat = ExecuteScriptLine(r.chat, n, l)
    <3>1. FakeAt(n, k) = RunStep(n, r, l)
      BY <2>7, <2>8, <2>10, Zenon
    <3>2. RunStep(n, r, l).ok <=> (r.ok /\ FakeLineOk(r.chat, l))
      BY Zenon DEF RunStep
    <3>3. RunStep(n, r, l).chat = ExecuteScriptLine(r.chat, n, l)
      BY DEF RunStep
    <3> QED BY <2>3, <2>10, <3>1, <3>2, <3>3, Zenon
  <2>11. CASE c.kind = "CONNECT"
    <3>1. c \in Concerning /\ l.verb = "CONNECT"
      BY <2>2, <2>9, <2>11 DEF Concerning, Plain
    <3>2. FakeLineOk(r.chat, l)
      BY <2>3, <2>4, <2>11, <3>1 DEF FakeLineOk, IsConnected
    <3>3. ExecuteScriptLine(r.chat, n, l) = ConnectTo(r.chat, l.call)
      BY <3>1, <3>2 DEF ExecuteScriptLine
    <3>4. ConnectTo(r.chat, l.call).peer = Peer(n)
      BY <2>9 DEF ConnectTo
    <3>5. FakeAt(n, k).ok /\ FakeAt(n, k).chat.peer = Peer(n)
      BY <2>10, <3>1, <3>2, <3>3, <3>4, Zenon
    <3> QED BY <2>6, <2>11, <3>5
  <2>12. CASE c.kind = "MSG"
    <3>1. c \in Concerning /\ l.verb = IF c.send THEN "SEND" ELSE "RX"
      BY <2>2, <2>9, <2>12 DEF Concerning
    <3>2. FakeLineOk(r.chat, l)
      BY <2>3, <2>4, <2>5, <2>9, <2>12, <3>1 DEF FakeLineOk, IsConnected, Accepts
    <3>3. ExecuteScriptLine(r.chat, n, l)
            = IF c.send THEN SentText(r.chat, n, l.text) ELSE ReceivedText(r.chat, n, l.call, l.text)
      BY <3>1, <3>2 DEF ExecuteScriptLine
    <3>4. ExecuteScriptLine(r.chat, n, l).peer = r.chat.peer
      BY <3>3 DEF SentText, ReceivedText, PushMessage
    <3>5. FakeAt(n, k).ok /\ FakeAt(n, k).chat.peer = r.chat.peer
      BY <2>10, <3>1, <3>2, <3>4, Zenon
    <3> QED BY <2>3, <2>6, <2>12, <3>5
  <2>13. CASE c.kind = "DISCONNECT"
    <3>1. c \in Concerning /\ l.verb = "DISCONNECT"
      BY <2>2, <2>9, <2>13 DEF Concerning, Plain
    <3>2. FakeLineOk(r.chat, l)
      BY <3>1 DEF FakeLineOk
    <3>3. ExecuteScriptLine(r.chat, n, l) = Disconnected(r.chat)
      BY <3>1, <3>2 DEF ExecuteScriptLine
    <3>4. Disconnected(r.chat).peer = NoCall
      BY DEF Disconnected
    <3>5. FakeAt(n, k).ok /\ FakeAt(n, k).chat.peer = NoCall
      BY <2>10, <3>1, <3>2, <3>3, <3>4, Zenon
    <3> QED BY <2>6, <2>13, <3>5
  <2>14. CASE c.kind \notin {"CONNECT", "MSG", "DISCONNECT"}
    BY <2>3, <2>6, <2>7, <2>14 DEF Concerning
  <2> QED BY <2>11, <2>12, <2>13, <2>14
<1>4. 0 \in P /\ \A k \in 1..Len(script[n]) : k - 1 \in P => k \in P
  BY <1>1, <1>2, <1>3
<1>5. 0..Len(script[n]) \subseteq P
  <2> HIDE DEF P
  <2> QED BY <1>1, <1>4, UptoInduction, Zenon
<1> QED BY <1>5

-----------------------------------------------------------------------------
(* What a script says and what it hears                                    *)

SayMap(n) == [c \in Command |-> IF c.send THEN FramesOf(n, c) ELSE <<>>]
HearMap(n) == [c \in Command |-> IF c.send THEN <<>> ELSE FramesOf(Peer(n), c)]

\* The frames of the first k lines.
Say(n, k) == Flat(Upto(n, k), SayMap(n))
Hear(n, k) == Flat(Upto(n, k), HearMap(n))

FramesLen(c) == IF c.kind = "FILE" THEN Chunks[c.text] + 1 ELSE 1

\* The frames of any command, one by one.
LEMMA FramesOfAny ==
  ASSUME TypeInv, NEW n \in Node, NEW c \in Command
  PROVE  /\ FramesOf(n, c) \in Seq(Written(n)) /\ FramesOf(n, c) # <<>>
         /\ FramesLen(c) \in Nat \ {0} /\ Len(FramesOf(n, c)) = FramesLen(c)
         /\ \A i \in 1..FramesLen(c) :
              FramesOf(n, c)[i] =
                FrameOf(n, IF i > 1 THEN "CHUNK" ELSE IF c.kind = "FILE" THEN "OFFER" ELSE c.kind,
                        c.text, i - 1)
<1>1. /\ c.kind \in Kind /\ c.text \in Text \cup {NoText}
      /\ c.text = NoText <=> c.kind \in Plain
      /\ peerCall[n] \in Call /\ n \in Call
  <2>1. peerCall[n] \in Call
    BY DEF TypeInv, Setup, peerCall
  <2> QED BY <2>1, Peers DEF Command
<1>2. CASE c.kind = "FILE"
  <2>1. PICK L : L = Chunks[c.text] /\ L \in Nat \ {0}
    BY <1>1, <1>2, ScriptAssumption DEF Plain
  <2>2. FrameOf(n, "OFFER", c.text, 0) \in Written(n)
    BY <1>1, <1>2 DEF FrameOf, Written, Frame, Kind, AppKind, Plain
  <2>3. \A i \in 1..L : FrameOf(n, "CHUNK", c.text, i) \in Written(n)
    BY <1>1, <1>2, <2>1 DEF FrameOf, Written, Frame, Kind, AppKind, Plain
  <2>4. PICK b : b = [i \in 1..L |-> FrameOf(n, "CHUNK", c.text, i)]
    BY Zenon
  <2>5. PICK w, a : w = Written(n) /\ a = FrameOf(n, "OFFER", c.text, 0)
    OBVIOUS
  <2>6. /\ <<a>> \in Seq(w) /\ Len(<<a>>) = 1 /\ <<a>>[1] = a
        /\ b \in Seq(w) /\ Len(b) = L /\ \A i \in 1..L : b[i] = FrameOf(n, "CHUNK", c.text, i)
    BY <2>1, <2>2, <2>3, <2>4, <2>5
  <2>7. PICK s : s = <<a>> \o b
    BY Zenon
  <2>8. /\ s \in Seq(w) /\ Len(s) = 1 + L
        /\ \A i \in 1..(1 + L) : s[i] = IF i <= 1 THEN <<a>>[i] ELSE b[i - 1]
    BY <2>6, <2>7, ConcatProperties
  <2>9. FramesOf(n, c) = s /\ FramesLen(c) = L + 1
    BY <1>2, <2>1, <2>4, <2>5, <2>7 DEF FramesOf, FramesLen
  <2>10. ASSUME NEW i \in 1..(L + 1)
         PROVE  s[i] = FrameOf(n, IF i > 1 THEN "CHUNK" ELSE "OFFER", c.text, i - 1)
    <3>1. CASE i = 1
      BY <2>1, <2>5, <2>6, <2>8, <3>1
    <3>2. CASE i > 1
      <4>1. i - 1 \in 1..L /\ s[i] = b[i - 1]
        BY <2>1, <2>8, <3>2
      <4> QED BY <2>6, <3>2, <4>1
    <3> QED BY <2>1, <3>1, <3>2
  <2>11. s # <<>>
    BY <2>1, <2>8
  <2> QED BY <1>2, <2>1, <2>5, <2>8, <2>9, <2>10, <2>11
<1>3. CASE c.kind # "FILE"
  <2>1. PICK f : f = FrameOf(n, c.kind, c.text, 0)
    OBVIOUS
  <2>2. f \in Written(n)
    BY <1>1, <1>3, <2>1 DEF FrameOf, Written, Frame, Kind, AppKind, Plain
  <2>3. FramesOf(n, c) = <<f>> /\ FramesLen(c) = 1
    BY <1>3, <2>1 DEF FramesOf, FramesLen
  <2>4. <<f>> \in Seq(Written(n)) /\ Len(<<f>>) = 1 /\ <<f>>[1] = f /\ <<f>> # <<>>
    BY <2>2
  <2>5. \A i \in 1..1 : i = 1 /\ ~(i > 1) /\ i - 1 = 0
    OBVIOUS
  <2> QED BY <1>3, <2>1, <2>3, <2>4, <2>5
<1> QED BY <1>2, <1>3

\* A line more.
LEMMA SayMore ==
  ASSUME TypeInv, NEW n \in Node
  PROVE  /\ Say(n, 0) = <<>> /\ Hear(n, 0) = <<>>
         /\ \A k \in 0..Len(script[n]) :
              Say(n, k) \in Seq(Written(n)) /\ Hear(n, k) \in Seq(Written(Peer(n)))
         /\ \A k \in 1..Len(script[n]) :
              /\ Say(n, k) = Say(n, k - 1)
                   \o (IF script[n][k].send THEN FramesOf(n, script[n][k]) ELSE <<>>)
              /\ Hear(n, k) = Hear(n, k - 1)
                   \o (IF script[n][k].send THEN <<>> ELSE FramesOf(Peer(n), script[n][k]))
<1>1. Peer(n) \in Node
  BY Peers
<1>2. PICK s, h, V, W : s = SayMap(n) /\ h = HearMap(n) /\ V = Written(n) /\ W = Written(Peer(n))
  OBVIOUS
<1>3. \A c \in Command :
        /\ s[c] = IF c.send THEN FramesOf(n, c) ELSE <<>>
        /\ h[c] = IF c.send THEN <<>> ELSE FramesOf(Peer(n), c)
  BY <1>2 DEF SayMap, HearMap
<1>4. (\A c \in Command : s[c] \in Seq(V)) /\ (\A c \in Command : h[c] \in Seq(W))
  <2>1. \A c \in Command : FramesOf(n, c) \in Seq(V) /\ FramesOf(Peer(n), c) \in Seq(W)
    BY <1>1, <1>2, FramesOfAny
  <2>2. <<>> \in Seq(V) /\ <<>> \in Seq(W)
    BY EmptySeq
  <2> QED BY <1>3, <2>1, <2>2, Zenon
<1>5. Say(n, 0) = <<>> /\ Hear(n, 0) = <<>>
  BY UptoMore, FlatEmpty DEF Say, Hear
<1>6. ASSUME NEW k \in 0..Len(script[n])
      PROVE  Say(n, k) \in Seq(V) /\ Hear(n, k) \in Seq(W)
  <2>1. Upto(n, k) \in Seq(Command)
    BY UptoMore
  <2> QED BY <1>2, <1>4, <2>1, FlatType, Zenon DEF Say, Hear
<1>7. ASSUME NEW k \in 1..Len(script[n])
      PROVE  /\ Say(n, k) = Say(n, k - 1) \o s[script[n][k]]
             /\ Hear(n, k) = Hear(n, k - 1) \o h[script[n][k]]
  <2>1. PICK u, c : u = Upto(n, k - 1) /\ c = script[n][k]
    OBVIOUS
  <2>2. k - 1 \in 0..Len(script[n])
    BY UptoMore
  <2>3. u \in Seq(Command) /\ c \in Command /\ Upto(n, k) = Append(u, c)
    BY <2>1, <2>2, UptoMore, Zenon
  <2>4. Flat(Append(u, c), s) = Flat(u, s) \o s[c] /\ Flat(Append(u, c), h) = Flat(u, h) \o h[c]
    BY <1>4, <2>3, FlatMore, SMTT(30)
  <2> QED BY <1>2, <2>1, <2>3, <2>4, Zenon DEF Say, Hear
<1>8. \A k \in 1..Len(script[n]) : script[n][k] \in Command
  BY UptoMore
<1> QED BY <1>2, <1>3, <1>5, <1>6, <1>7, <1>8, Zenon

\* In a conversation opposite lines take a turn, cross, or are of lines that crossed.
Second(k) == k > 1 /\ Crosses(setup, k - 1)

\* What that says of the line of one station and the line across from it.
LEMMA AgreedLine ==
  ASSUME TypeInv, Agreed(setup), NEW n \in Node, NEW k \in 1..Len(script[n])
  PROVE  LET c == script[n][k]
             d == script[Peer(n)][k]
         IN  /\ Len(script[Peer(n)]) = Len(script[n]) /\ c \in Command /\ d \in Command
             /\ Crosses(setup, k) =>
                  /\ ~Second(k) /\ c.send /\ d.send /\ k + 1 \in 1..Len(script[n])
                  /\ c.kind \in AppKind \cup {"MSG"}
             /\ Second(k) =>
                  /\ ~c.send /\ ~d.send /\ k - 1 \in 1..Len(script[n])
                  /\ script[n][k - 1].kind = d.kind /\ script[n][k - 1].text = d.text
                  /\ script[n][k - 1].kind \in AppKind \cup {"MSG"}
             /\ ~Crosses(setup, k) /\ ~Second(k) =>
                  /\ c.send <=> ~d.send
                  /\ c.kind = d.kind /\ c.text = d.text
<1>1. PICK p \in Node : p = Peer(n) /\ Peer(p) = n
  BY Peers
<1>2. \A m \in Node : m = n \/ m = p
  BY <1>1, Peers
<1>3. /\ Len(script[n]) = Len(script[p]) /\ Len(script[n]) \in Nat
      /\ DOMAIN script[n] = 1..Len(script[n]) /\ DOMAIN script[p] = 1..Len(script[n])
      /\ script[n][k] \in Command /\ script[p][k] \in Command
  <2>1. Len(script[n]) = Len(script[p])
    BY <1>1 DEF Agreed, script
  <2> QED BY <2>1, UptoMore, Zenon
<1>4. ASSUME NEW i \in Nat, Crosses(setup, i)
      PROVE  /\ i + 1 \in 1..Len(script[n])
             /\ Answers(script[n][i], script[p][i + 1]) /\ Answers(script[p][i], script[n][i + 1])
             /\ script[n][i].kind \in AppKind \cup {"MSG"}
             /\ script[p][i].kind \in AppKind \cup {"MSG"}
  BY <1>1, <1>3, <1>4 DEF Crosses, script
<1>5. Crosses(setup, k) \/ Second(k) \/ TakesTurn(setup, k)
  BY <1>3 DEF Agreed, script, Second
<1>6. TakesTurn(setup, k) => \/ Answers(script[n][k], script[p][k])
                             \/ Answers(script[p][k], script[n][k])
  BY <1>1, <1>2 DEF TakesTurn, script
<1>7. ASSUME Crosses(setup, k)
      PROVE  /\ k + 1 \in 1..Len(script[n]) /\ script[n][k].send /\ script[p][k].send
             /\ script[n][k].kind \in AppKind \cup {"MSG"}
  BY <1>3, <1>4, <1>7 DEF Answers
<1>8. ASSUME Second(k)
      PROVE  /\ ~script[n][k].send /\ ~script[p][k].send /\ k - 1 \in 1..Len(script[n])
             /\ script[n][k - 1].kind = script[p][k].kind /\ script[n][k - 1].text = script[p][k].text
             /\ script[n][k - 1].kind \in AppKind \cup {"MSG"}
  <2>1. k - 1 \in Nat /\ k - 1 \in 1..Len(script[n]) /\ Crosses(setup, k - 1) /\ k - 1 + 1 = k
    BY <1>3, <1>8 DEF Second
  <2>2. Answers(script[n][k - 1], script[p][k - 1 + 1]) /\ Answers(script[p][k - 1], script[n][k - 1 + 1])
    BY <1>4, <2>1
  <2>3. Answers(script[n][k - 1], script[p][k]) /\ Answers(script[p][k - 1], script[n][k])
    BY <2>1, <2>2
  <2>4. script[n][k - 1].kind \in AppKind \cup {"MSG"}
    BY <1>4, <2>1
  <2> QED BY <2>1, <2>3, <2>4 DEF Answers
<1>9. ASSUME ~Crosses(setup, k), ~Second(k)
      PROVE  /\ script[n][k].send <=> ~script[p][k].send
             /\ script[n][k].kind = script[p][k].kind /\ script[n][k].text = script[p][k].text
  BY <1>5, <1>6, <1>9 DEF Answers
<1> QED BY <1>1, <1>3, <1>7, <1>8, <1>9, Zenon

\* What a script says the other one hears, but for news that is crossing.
LEMMA SayHear ==
  ASSUME TypeInv, Agreed(setup), NEW n \in Node
  PROVE  \A k \in 0..Len(script[n]) :
           Say(n, k) = Hear(Peer(n), k)
                         \o (IF Crosses(setup, k) /\ k > 0 THEN FramesOf(n, script[n][k]) ELSE <<>>)
<1>1. PICK p \in Node : p = Peer(n) /\ Peer(p) = n
  BY Peers
<1>2. Len(script[n]) \in Nat /\ Len(script[p]) = Len(script[n])
  BY <1>1, UptoMore DEF Agreed, script
<1> DEFINE Rest(k) == IF Crosses(setup, k) /\ k > 0 THEN FramesOf(n, script[n][k]) ELSE <<>>
           P == {k \in 0..Len(script[n]) : Say(n, k) = Hear(p, k) \o Rest(k)}
<1>3. 0 \in P
  <2>1. Say(n, 0) = <<>> /\ Hear(p, 0) = <<>>
    BY SayMore, Zenon
  <2>2. Rest(0) = <<>>
    OBVIOUS
  <2>3. <<>> \o <<>> = <<>>
    OBVIOUS
  <2>4. 0 \in 0..Len(script[n])
    BY <1>2
  <2> HIDE DEF Rest
  <2> QED BY <2>1, <2>2, <2>3, <2>4, Zenon
<1>4. ASSUME NEW k \in 1..Len(script[n]), k - 1 \in P
      PROVE  k \in P
  <2>1. PICK c, d, h, r : /\ c = script[n][k] /\ d = script[p][k]
                          /\ h = Hear(p, k - 1) /\ r = Rest(k - 1)
    OBVIOUS
  <2>2. k \in 1..Len(script[p]) /\ k - 1 \in 0..Len(script[n]) /\ k - 1 \in 0..Len(script[p])
    BY <1>2
  <2>3. /\ Say(n, k - 1) = h \o r
        /\ Say(n, k) = Say(n, k - 1) \o (IF c.send THEN FramesOf(n, c) ELSE <<>>)
        /\ Hear(p, k) = h \o (IF d.send THEN <<>> ELSE FramesOf(n, d))
    <3>1. Say(n, k) = Say(n, k - 1) \o (IF c.send THEN FramesOf(n, c) ELSE <<>>)
      BY <2>1, SayMore, Zenon
    <3>2. Hear(p, k) = h \o (IF d.send THEN <<>> ELSE FramesOf(n, d))
      BY <1>1, <2>1, <2>2, SayMore, Zenon
    <3> QED BY <1>4, <2>1, <3>1, <3>2, Zenon
  <2>4. h \in Seq(Written(n)) /\ Say(n, k - 1) \in Seq(Written(n)) /\ Hear(p, k) \in Seq(Written(n))
    <3>1. \A j \in 0..Len(script[p]) : Hear(p, j) \in Seq(Written(n))
      BY <1>1, SayMore, Zenon
    <3>2. k \in 0..Len(script[p])
      BY <2>2
    <3> QED BY <2>1, <2>2, <3>1, <3>2, SayMore, Zenon
  <2>5. /\ c \in Command /\ d \in Command
        /\ Crosses(setup, k) => ~Second(k) /\ c.send /\ d.send
        /\ Second(k) => /\ ~c.send /\ ~d.send /\ k - 1 \in 1..Len(script[n])
                        /\ script[n][k - 1].kind = d.kind /\ script[n][k - 1].text = d.text
        /\ ~Crosses(setup, k) /\ ~Second(k) =>
             (c.send <=> ~d.send) /\ c.kind = d.kind /\ c.text = d.text
    BY <1>1, <2>1, AgreedLine
  <2>6. \A e \in Command : e.kind = d.kind /\ e.text = d.text => FramesOf(n, e) = FramesOf(n, d)
    BY DEF FramesOf
  <2>7. r = IF Second(k) THEN FramesOf(n, script[n][k - 1]) ELSE <<>>
    <3>1. Second(k) <=> Crosses(setup, k - 1) /\ k - 1 > 0
      BY <1>2 DEF Second
    <3> QED BY <2>1, <3>1
  <2>8. Rest(k) = IF Crosses(setup, k) THEN FramesOf(n, c) ELSE <<>>
    BY <2>1
  <2>9. h \o <<>> = h /\ Say(n, k - 1) \o <<>> = Say(n, k - 1) /\ Hear(p, k) \o <<>> = Hear(p, k)
    BY <2>4, ConcatEmptySeq
  <2> HIDE DEF Rest, P
  <2>10. ASSUME Crosses(setup, k) PROVE Say(n, k) = Hear(p, k) \o Rest(k)
    <3>1. r = <<>> /\ Rest(k) = FramesOf(n, c)
      BY <2>5, <2>7, <2>8, <2>10
    <3>2. Say(n, k) = h \o FramesOf(n, c) /\ Hear(p, k) = h
      BY <2>3, <2>5, <2>9, <2>10, <3>1, Zenon
    <3> QED BY <3>1, <3>2
  <2>11. ASSUME Second(k) PROVE Say(n, k) = Hear(p, k) \o Rest(k)
    <3>1. script[n][k - 1] \in Command
      BY <2>5, <2>11, UptoMore, Zenon
    <3>2. FramesOf(n, script[n][k - 1]) = FramesOf(n, d)
      BY <2>5, <2>6, <2>11, <3>1
    <3>3. r = FramesOf(n, d) /\ Rest(k) = <<>>
      BY <2>5, <2>7, <2>8, <2>11, <3>2
    <3>4. Say(n, k) = Say(n, k - 1) /\ Hear(p, k) = h \o FramesOf(n, d)
      BY <2>3, <2>5, <2>9, <2>11, Zenon
    <3>5. Say(n, k) = Hear(p, k) /\ Hear(p, k) \o <<>> = Hear(p, k)
      BY <2>3, <2>9, <3>3, <3>4, Zenon
    <3> QED BY <3>3, <3>5
  <2>12. ASSUME ~Crosses(setup, k) /\ ~Second(k) PROVE Say(n, k) = Hear(p, k) \o Rest(k)
    <3>1. FramesOf(n, c) = FramesOf(n, d)
      BY <2>5, <2>6, <2>12
    <3>2. r = <<>> /\ Rest(k) = <<>>
      BY <2>7, <2>8, <2>12
    <3>3. Say(n, k - 1) = h
      BY <2>3, <2>9, <3>2
    <3>4. Say(n, k) = Hear(p, k)
      BY <2>3, <2>5, <2>12, <3>1, <3>3, Zenon
    <3> QED BY <2>9, <3>2, <3>4
  <2>13. Say(n, k) = Hear(p, k) \o Rest(k)
    BY <2>10, <2>11, <2>12
  <2> QED BY <1>2, <2>13 DEF P
<1>5. 0..Len(script[n]) \subseteq P
  <2> HIDE DEF P
  <2> QED BY <1>2, <1>3, <1>4, UptoInduction, Zenon
<1> QED BY <1>1, <1>5

-----------------------------------------------------------------------------
(* A conversation under way                                                *)

\* The lines whose effect on the session is there: a DISCONNECT that sends has it last.
Applied(n) == IF Sends(n) /\ Line(n).kind # "DISCONNECT" THEN Len(results[n]) + 1
              ELSE Len(results[n])

\* Everything a process said stands in its script's frames, everything it heard in what
\* the script expects, nothing is lost on the way and the session is the one its lines
\* leave.
Goes(n) ==
  /\ AllOk(n) /\ phase[n] # "lost"
  /\ Queued(n) = Say(n, Begun(n))
  /\ In(n) = Hear(n, Len(results[n])) \o transfer[n]
  /\ phase[n] = "chunks" => /\ Begins(transfer[n], FramesOf(Peer(n), Line(n)))
                            /\ Len(transfer[n]) < FramesLen(Line(n))
  /\ Passed(n) = Given(n)
  /\ chat[n] = FakeAt(n, Applied(n)).chat

Calm == Agreed(setup) /\ faults = 0

ConversationInv == faults \in Nat /\ (Calm => \A n \in Node : Goes(n))

\* The first lines say and hear what all lines begin with.
LEMMA SayGrows ==
  ASSUME TypeInv, NEW n \in Node, NEW j \in 0..Len(script[n])
  PROVE  \A k \in j..Len(script[n]) : /\ Begins(Say(n, j), Say(n, k))
                                      /\ Begins(Hear(n, j), Hear(n, k))
<1>1. Len(script[n]) \in Nat /\ j \in Nat /\ j <= Len(script[n])
  BY UptoMore
<1>2. \A k \in 0..Len(script[n]) :
        Say(n, k) \in Seq(Written(n)) /\ Hear(n, k) \in Seq(Written(Peer(n)))
  BY SayMore, Zenon
<1> DEFINE P == {i \in 0..(Len(script[n]) - j) : /\ Begins(Say(n, j), Say(n, j + i))
                                                 /\ Begins(Hear(n, j), Hear(n, j + i))}
<1>3. 0 \in P
  <2>1. j + 0 = j /\ 0 \in 0..(Len(script[n]) - j)
    BY <1>1
  <2>2. Begins(Say(n, j), Say(n, j)) /\ Begins(Hear(n, j), Hear(n, j))
    BY <1>2, BeginsLonger
  <2> QED BY <2>1, <2>2
<1>4. ASSUME NEW i \in 1..(Len(script[n]) - j), i - 1 \in P
      PROVE  i \in P
  <2>1. PICK k : k = j + i
    OBVIOUS
  <2>2. /\ k \in 1..Len(script[n]) /\ k - 1 \in 0..Len(script[n]) /\ k - 1 = j + (i - 1)
        /\ i \in 0..(Len(script[n]) - j) /\ k \in 0..Len(script[n])
    BY <1>1, <2>1
  <2>3. Begins(Say(n, j), Say(n, k - 1)) /\ Begins(Hear(n, j), Hear(n, k - 1))
    BY <1>4, <2>2
  <2>4. PICK x, y : /\ x = (IF script[n][k].send THEN FramesOf(n, script[n][k]) ELSE <<>>)
                    /\ y = (IF script[n][k].send THEN <<>> ELSE FramesOf(Peer(n), script[n][k]))
    OBVIOUS
  <2>5. Say(n, k) = Say(n, k - 1) \o x /\ Hear(n, k) = Hear(n, k - 1) \o y
    BY <2>2, <2>4, SayMore, Zenon
  <2>6. x \in Seq(Written(n)) /\ y \in Seq(Written(Peer(n)))
    <3>1. script[n][k] \in Command /\ Peer(n) \in Node
      BY <2>2, UptoMore, Peers
    <3>2. /\ FramesOf(n, script[n][k]) \in Seq(Written(n))
          /\ FramesOf(Peer(n), script[n][k]) \in Seq(Written(Peer(n)))
      BY <3>1, FramesOfAny
    <3> QED BY <2>4, <3>2, EmptySeq
  <2>7. /\ Say(n, k - 1) \in Seq(Written(n)) /\ Hear(n, k - 1) \in Seq(Written(Peer(n)))
        /\ Say(n, k) \in Seq(Written(n)) /\ Hear(n, k) \in Seq(Written(Peer(n)))
        /\ Say(n, j) \in Seq(Written(n)) /\ Hear(n, j) \in Seq(Written(Peer(n)))
    BY <1>1, <1>2, <2>2, Zenon
  <2>8. Begins(Say(n, k - 1), Say(n, k)) /\ Begins(Hear(n, k - 1), Hear(n, k))
    <3>1. Begins(Say(n, k - 1), Say(n, k - 1) \o x)
      BY <2>6, <2>7, BeginsLonger
    <3>2. Begins(Hear(n, k - 1), Hear(n, k - 1) \o y)
      BY <2>6, <2>7, BeginsLonger
    <3> QED BY <2>5, <3>1, <3>2
  <2>9. Begins(Say(n, j), Say(n, k))
    BY <2>3, <2>7, <2>8, BeginsWithin
  <2>10. Begins(Hear(n, j), Hear(n, k))
    BY <2>3, <2>7, <2>8, BeginsWithin
  <2> QED BY <2>1, <2>2, <2>9, <2>10
<1>5. 0..(Len(script[n]) - j) \subseteq P
  <2>1. Len(script[n]) - j \in Nat
    BY <1>1
  <2> HIDE DEF P
  <2> QED BY <1>3, <1>4, <2>1, UptoInduction, Zenon
<1>6. ASSUME NEW k \in j..Len(script[n])
      PROVE  Begins(Say(n, j), Say(n, k)) /\ Begins(Hear(n, j), Hear(n, k))
  <2>1. k - j \in 0..(Len(script[n]) - j) /\ j + (k - j) = k
    BY <1>1
  <2>2. k - j \in P
    BY <1>5, <2>1, Zenon
  <2> QED BY <2>1, <2>2
<1> QED BY <1>6

\* What was given to the wire is a beginning of what was or is still to be written.
LEMMA GivenOfQueued ==
  ASSUME TypeInv, NEW n \in Node
  PROVE  /\ Given(n) \in Seq(Written(n)) /\ Queued(n) \in Seq(Written(n))
         /\ Begins(Given(n), Queued(n))
         /\ phase[n] = "writing" => Len(Given(n)) < Len(Queued(n))
         /\ ~Sends(n) => Given(n) = Queued(n)
<1>1. PICK o, q, S : o = Out(n) /\ q = queue[n] /\ S = Written(n)
  OBVIOUS
<1>2. o \in Seq(S) /\ q \in Seq(S) /\ Given(n) \in Seq(S) /\ (Sends(n) <=> q # <<>>)
  <2>1. Sends(n) <=> q # <<>>
    BY <1>1 DEF TypeInv, AtHand
  <2> QED BY <1>1, <2>1, StreamType, PassedType
<1>3. /\ o \o q \in Seq(S) /\ Len(o \o q) = Len(o) + Len(q)
      /\ Len(o) \in Nat /\ Len(q) \in Nat
  BY <1>2, ConcatProperties, LenProperties
<1>4. Queued(n) = o \o q
  BY <1>1 DEF Queued
<1>5. Given(n) = IF phase[n] = "blocked" THEN Append(o, Head(q)) ELSE o
  BY <1>1, PassedType
<1>6. Begins(Given(n), Queued(n))
  <2>1. CASE phase[n] = "blocked"
    <3>1. q # <<>>
      BY <1>2, <2>1 DEF Sends
    <3>2. Head(q) \in S /\ Tail(q) \in Seq(S) /\ q = <<Head(q)>> \o Tail(q) /\ <<Head(q)>> \in Seq(S)
      <4>1. Head(q) \in S /\ Tail(q) \in Seq(S) /\ q = <<Head(q)>> \o Tail(q)
        BY <1>2, <3>1, FirstOfMany
      <4> QED BY <4>1
    <3>3. o \o (<<Head(q)>> \o Tail(q)) = (o \o <<Head(q)>>) \o Tail(q)
      BY <1>2, <3>2, ConcatAssociative
    <3>4. Append(o, Head(q)) = o \o <<Head(q)>>
      BY <1>2, <3>2, AppendIsConcat
    <3>5. o \o <<Head(q)>> \in Seq(S)
      BY <1>2, <3>2, ConcatProperties
    <3>6. Begins(o \o <<Head(q)>>, (o \o <<Head(q)>>) \o Tail(q))
      BY <3>2, <3>5, BeginsLonger, Zenon
    <3> QED BY <1>4, <1>5, <2>1, <3>2, <3>3, <3>4, <3>6, Zenon
  <2>2. CASE phase[n] # "blocked"
    <3>1. Begins(o, o \o q)
      BY <1>2, BeginsLonger
    <3> QED BY <1>4, <1>5, <2>2, <3>1
  <2> QED BY <2>1, <2>2
<1>7. ASSUME phase[n] = "writing" PROVE Len(Given(n)) < Len(Queued(n))
  <2>1. q # <<>> /\ Len(q) # 0
    <3>1. q # <<>>
      BY <1>2, <1>7 DEF Sends
    <3> QED BY <1>2, <3>1, EmptySeq
  <2> QED BY <1>3, <1>4, <1>5, <1>7, <2>1
<1>8. ASSUME ~Sends(n) PROVE Given(n) = Queued(n)
  <2>1. q = <<>> /\ phase[n] # "blocked"
    BY <1>2, <1>8 DEF Sends
  <2>2. o \o <<>> = o
    BY <1>2, ConcatEmptySeq
  <2> QED BY <1>4, <1>5, <2>1, <2>2
<1> QED BY <1>1, <1>2, <1>3, <1>4, <1>6, <1>7, <1>8

\* All that the one says is what the other hears.
LEMMA SayHearAll ==
  ASSUME TypeInv, Agreed(setup), NEW n \in Node
  PROVE  /\ Len(script[Peer(n)]) = Len(script[n])
         /\ Say(Peer(n), Len(script[n])) = Hear(n, Len(script[n]))
<1>1. PICK p \in Node : p = Peer(n) /\ Peer(p) = n
  BY Peers
<1>2. PICK N : N = Len(script[n])
  BY Zenon
<1>3. N \in Nat /\ Len(script[p]) = N /\ N \in 0..N /\ DOMAIN script[n] = 1..N
  <2>1. Len(script[n]) = Len(script[p])
    BY <1>1 DEF Agreed, script
  <2> QED BY <1>2, <2>1, UptoMore
<1>4. ~Crosses(setup, N)
  <2>1. N + 1 \notin DOMAIN script[n]
    BY <1>3
  <2> QED BY <2>1 DEF Crosses, script
<1>5. Say(p, N) = Hear(n, N) \o <<>>
  BY <1>1, <1>3, <1>4, SayHear, Zenon
<1>6. Hear(n, N) \in Seq(Written(p))
  BY <1>1, <1>2, <1>3, SayMore, Zenon
<1> QED BY <1>1, <1>2, <1>3, <1>5, <1>6, ConcatEmptySeq

\* What a process read and what is on its way to it is a beginning of all it is to hear.
LEMMA HeardInOrder ==
  ASSUME TypeInv, Agreed(setup), \A w \in Node : Goes(w), NEW n \in Node
  PROVE  /\ Passed(Peer(n)) = In(n) \o wire[Peer(n)]
         /\ Hear(n, Len(script[n])) \in Seq(Written(Peer(n)))
         /\ Begins(Passed(Peer(n)), Hear(n, Len(script[n])))
         /\ Begins(Queued(Peer(n)), Hear(n, Len(script[n])))
<1>1. PICK p \in Node : p = Peer(n) /\ Peer(p) = n
  BY Peers
<1>2. PICK N : N = Len(script[n])
  BY Zenon
<1>3. N \in Nat /\ Len(script[p]) = N /\ Say(p, N) = Hear(n, N)
  BY <1>1, <1>2, SayHearAll, UptoMore
<1>4. Begun(p) \in 0..N
  <2>1. Len(results[p]) \in Nat /\ Len(results[p]) <= N
    BY <1>3, LineMore DEF TypeInv, AtHand
  <2>2. Sends(p) => Len(results[p]) + 1 <= N
    <3>1. Sends(p) => Len(results[p]) < Len(script[p])
      BY DEF TypeInv, AtHand, HasLine
    <3> QED BY <1>3, <2>1, <3>1
  <2> QED BY <1>3, <2>1, <2>2 DEF Begun
<1>5. Begins(Say(p, Begun(p)), Say(p, N)) /\ Say(p, N) \in Seq(Written(p))
      /\ Say(p, Begun(p)) \in Seq(Written(p))
  <2>1. N \in Begun(p)..Len(script[p]) /\ N \in 0..Len(script[p]) /\ Begun(p) \in 0..Len(script[p])
    BY <1>3, <1>4
  <2> QED BY <2>1, SayGrows, SayMore, Zenon
<1>6. Passed(p) = In(n) \o wire[p]
  BY <1>1 DEF Passed
<1>7. Passed(p) = Given(p) /\ Queued(p) = Say(p, Begun(p))
  BY Zenon DEF Goes
<1>8. Given(p) \in Seq(Written(p)) /\ Begins(Given(p), Queued(p))
  BY GivenOfQueued
<1>9. Begins(Passed(p), Say(p, N))
  BY <1>5, <1>7, <1>8, BeginsWithin
<1> QED BY <1>1, <1>2, <1>3, <1>5, <1>6, <1>7, <1>9

\* The next frame a process reads is the next one its line waits for.
LEMMA ArrivesInOrder ==
  ASSUME TypeInv, Agreed(setup), \A w \in Node : Goes(w), NEW n \in Node,
         HasLine(n), ~Line(n).send, wire[Peer(n)] # <<>>,
         Len(transfer[n]) < FramesLen(Line(n))
  PROVE  /\ Len(transfer[n]) + 1 \in 1..FramesLen(Line(n))
         /\ Arrived(n) = FramesOf(Peer(n), Line(n))[Len(transfer[n]) + 1]
<1>1. PICK p \in Node : p = Peer(n) /\ Peer(p) = n
  BY Peers
<1>2. PICK N, k, c, S, i, t, w, f : /\ N = Len(script[n]) /\ k = Len(results[n]) + 1 /\ c = Line(n)
                                    /\ S = Written(p) /\ i = In(n) /\ t = transfer[n] /\ w = wire[p]
                                    /\ f = FramesOf(p, c)
  BY Zenon
<1>3. k \in 1..N /\ k - 1 \in 0..N /\ k - 1 = Len(results[n]) /\ c = script[n][k] /\ N \in Nat
  <2>1. Len(results[n]) \in Nat /\ Len(results[n]) < N /\ N \in Nat
    BY <1>2, LineMore DEF HasLine
  <2> QED BY <1>2, <2>1 DEF Line
<1>4. i \in Seq(S) /\ w \in Seq(S) /\ t \in Seq(S)
  <2>1. transfer[n] \in Seq(Written(Peer(n)))
    BY DEF TypeInv, NodeOK
  <2> QED BY <1>1, <1>2, <2>1, StreamType
<1>5. f \in Seq(S) /\ Len(f) = FramesLen(c) /\ FramesLen(c) \in Nat
  <2>1. c \in Command
    BY <1>3, <1>2, UptoMore
  <2> QED BY <1>1, <1>2, <2>1, FramesOfAny
<1>6. PICK a, z : a = Hear(n, k - 1) /\ z = Hear(n, N)
  OBVIOUS
<1>7. a \in Seq(S) /\ z \in Seq(S) /\ a \o f \in Seq(S) /\ Begins(a \o f, z)
  <2>1. a \in Seq(S) /\ z \in Seq(S)
    <3>1. \A j \in 0..Len(script[n]) : Hear(n, j) \in Seq(Written(Peer(n)))
      BY SayMore, Zenon
    <3>2. k - 1 \in 0..Len(script[n]) /\ N \in 0..Len(script[n])
      BY <1>2, <1>3
    <3> QED BY <1>1, <1>2, <1>6, <3>1, <3>2
  <2>2. Hear(n, k) = a \o f
    BY <1>1, <1>2, <1>3, <1>6, SayMore, Zenon
  <2>3. N \in k..Len(script[n]) /\ k \in 0..Len(script[n])
    BY <1>2, <1>3
  <2>4. Begins(Hear(n, k), Hear(n, N))
    BY <2>3, SayGrows
  <2> QED BY <1>5, <1>6, <2>1, <2>2, <2>4, ConcatProperties
<1>8. i = a \o t
  BY <1>2, <1>3, <1>6, Zenon DEF Goes
<1>9. Begins(i \o w, z)
  BY <1>1, <1>2, <1>6, HeardInOrder, Zenon
<1>10. w # <<>> /\ Head(w) = w[1] /\ Len(w) \in Nat \ {0} /\ Arrived(n) = Head(w)
  <2>1. w # <<>>
    BY <1>1, <1>2
  <2> QED BY <1>1, <1>2, <1>4, <2>1, FirstOfMany DEF Arrived
<1>11. PICK v : v = Len(i) + 1
  OBVIOUS
<1>12. /\ Len(i) = Len(a) + Len(t) /\ Len(a) \in Nat /\ Len(t) \in Nat /\ Len(i) \in Nat
       /\ Len(t) < Len(f)
  <2>1. Len(a \o t) = Len(a) + Len(t)
    BY <1>4, <1>7, ConcatProperties
  <2> QED BY <1>2, <1>4, <1>5, <1>7, <1>8, <2>1, LenProperties
<1>13. (i \o w)[v] = w[1] /\ v \in 1..Len(i \o w)
  <2>1. /\ Len(i \o w) = Len(i) + Len(w)
        /\ \A j \in 1..(Len(i) + Len(w)) : (i \o w)[j] = IF j <= Len(i) THEN i[j] ELSE w[j - Len(i)]
    BY <1>4, ConcatProperties
  <2>2. v \in 1..(Len(i) + Len(w)) /\ ~(v <= Len(i)) /\ v - Len(i) = 1
    BY <1>10, <1>11, <1>12
  <2> QED BY <2>1, <2>2
<1>14. (a \o f)[v] = f[Len(t) + 1] /\ v \in 1..Len(a \o f)
  <2>1. /\ Len(a \o f) = Len(a) + Len(f)
        /\ \A j \in 1..(Len(a) + Len(f)) : (a \o f)[j] = IF j <= Len(a) THEN a[j] ELSE f[j - Len(a)]
    BY <1>5, <1>7, ConcatProperties, Zenon
  <2>2. v \in 1..(Len(a) + Len(f)) /\ ~(v <= Len(a)) /\ v - Len(a) = Len(t) + 1
    BY <1>5, <1>11, <1>12
  <2> QED BY <2>1, <2>2
<1>15. z[v] = w[1] /\ z[v] = f[Len(t) + 1]
  BY <1>7, <1>9, <1>13, <1>14, Zenon DEF Begins
<1>16. Len(t) + 1 \in 1..FramesLen(c)
  BY <1>5, <1>12
<1> QED BY <1>1, <1>2, <1>10, <1>15, <1>16

\* A process without a line left has read everything, and the other one writes nothing.
LEMMA NothingLeft ==
  ASSUME TypeInv, Agreed(setup), \A w \in Node : Goes(w), NEW n \in Node, ~HasLine(n)
  PROVE  /\ wire[Peer(n)] = <<>> /\ phase[Peer(n)] # "writing"
         /\ In(n) = Hear(n, Len(script[n]))
<1>1. PICK p \in Node : p = Peer(n) /\ Peer(p) = n
  BY Peers
<1>2. PICK N, S, i, w, z : /\ N = Len(script[n]) /\ S = Written(p) /\ i = In(n) /\ w = wire[p]
                           /\ z = Hear(n, N)
  BY Zenon
<1>3. Len(results[n]) = N
  <2>1. Len(results[n]) <= N /\ Len(results[n]) \in Nat /\ N \in Nat
    BY <1>2, LineMore DEF TypeInv, AtHand
  <2> QED BY <1>2, <2>1 DEF HasLine
<1>4. transfer[n] = <<>>
  <2>1. phase[n] # "chunks"
    BY DEF TypeInv, AtHand
  <2> QED BY <2>1 DEF TypeInv, AtHand
<1>5. i \in Seq(S) /\ w \in Seq(S) /\ z \in Seq(S)
  BY <1>1, <1>2, StreamType, HeardInOrder, Zenon
<1>6. i = z
  <2>1. z \o <<>> = z
    BY <1>5, ConcatEmptySeq
  <2> QED BY <1>2, <1>3, <1>4, <2>1, Zenon DEF Goes
<1>7. /\ Begins(i \o w, z) /\ Begins(Queued(p), z) /\ Passed(p) = i \o w
  BY <1>1, <1>2, HeardInOrder, Zenon
<1>8. Len(i \o w) = Len(i) + Len(w) /\ Len(i) \in Nat /\ Len(w) \in Nat
  BY <1>5, ConcatProperties, LenProperties
<1>9. Len(w) = 0
  BY <1>6, <1>7, <1>8 DEF Begins
<1>10. w = <<>>
  BY <1>5, <1>9, EmptySeq
<1>11. Len(Given(p)) = Len(i) /\ Len(Queued(p)) <= Len(i) /\ Len(Queued(p)) \in Nat
  <2>1. Passed(p) = Given(p)
    BY Zenon DEF Goes
  <2>2. Queued(p) \in Seq(Written(p))
    BY GivenOfQueued
  <2> QED BY <1>6, <1>7, <1>8, <1>9, <2>1, <2>2, LenProperties DEF Begins
<1>12. phase[p] # "writing"
  BY <1>8, <1>11, GivenOfQueued
<1> QED BY <1>1, <1>2, <1>6, <1>10, <1>12

\* Nobody waits for a frame of a process that has ended.
LEMMA NoHangUp ==
  ASSUME TypeInv, Agreed(setup), \A w \in Node : Goes(w), NEW n \in Node,
         HasLine(n), ~Line(n).send, ~Sends(n), Ended(Peer(n))
  PROVE  wire[Peer(n)] # <<>>
<1>1. PICK p \in Node : p = Peer(n) /\ Peer(p) = n
  BY Peers
<1>2. SUFFICES ASSUME wire[p] = <<>> PROVE FALSE
  BY <1>1
<1>3. PICK N, k, c, S, t, f, a, z :
        /\ N = Len(script[n]) /\ k = Len(results[n]) + 1 /\ c = Line(n) /\ S = Written(p)
        /\ t = transfer[n] /\ f = FramesOf(p, c) /\ a = Hear(n, k - 1) /\ z = Hear(n, N)
  BY Zenon
<1>4. k \in 1..N /\ k - 1 \in 0..N /\ k - 1 = Len(results[n]) /\ c = script[n][k] /\ N \in Nat
  <2>1. Len(results[n]) \in Nat /\ Len(results[n]) < N /\ N \in Nat
    BY <1>3, LineMore DEF HasLine
  <2> QED BY <1>3, <2>1 DEF Line
<1>5. c \in Command /\ f \in Seq(S) /\ Len(f) = FramesLen(c) /\ FramesLen(c) \in Nat \ {0}
  <2>1. c \in Command
    BY <1>3, <1>4, UptoMore, Zenon
  <2> QED BY <1>1, <1>3, <2>1, FramesOfAny
<1>6. t \in Seq(S) /\ Len(t) < FramesLen(c)
  <2>1. t \in Seq(S)
    BY <1>1, <1>3 DEF TypeInv, NodeOK
  <2>2. CASE phase[n] = "chunks"
    BY <1>3, <2>1, <2>2, Zenon DEF Goes
  <2>3. CASE phase[n] # "chunks"
    <3>1. t = <<>>
      BY <1>3, <2>3 DEF TypeInv, AtHand
    <3> QED BY <1>5, <2>1, <3>1, EmptySeq
  <2> QED BY <2>2, <2>3
<1>7. a \in Seq(S) /\ z \in Seq(S) /\ Begins(a \o f, z)
  <2>1. a \in Seq(S) /\ z \in Seq(S)
    <3>1. \A j \in 0..Len(script[n]) : Hear(n, j) \in Seq(Written(Peer(n)))
      BY SayMore, Zenon
    <3>2. k - 1 \in 0..Len(script[n]) /\ N \in 0..Len(script[n])
      BY <1>3, <1>4
    <3> QED BY <1>1, <1>3, <3>1, <3>2
  <2>2. Hear(n, k) = a \o f
    BY <1>1, <1>3, <1>4, SayMore, Zenon
  <2>3. N \in k..Len(script[n]) /\ k \in 0..Len(script[n])
    BY <1>3, <1>4
  <2>4. Begins(Hear(n, k), Hear(n, N))
    BY <2>3, SayGrows
  <2> QED BY <1>3, <2>1, <2>2, <2>4, Zenon
<1>8. In(n) = a \o t
  BY <1>3, <1>4, Zenon DEF Goes
<1>9. In(n) = z
  <2>1. ~HasLine(p) /\ ~Sends(p) /\ Len(results[p]) = Len(script[p])
    <3>1. ~HasLine(p) /\ ~Sends(p)
      BY <1>1 DEF TypeInv, AtHand, Ended, Sends
    <3>2. Len(results[p]) <= Len(script[p]) /\ Len(results[p]) \in Nat /\ Len(script[p]) \in Nat
      BY LineMore DEF TypeInv, AtHand
    <3> QED BY <3>1, <3>2 DEF HasLine
  <2>2. Len(script[p]) = N /\ Say(p, N) = z
    BY <1>1, <1>3, SayHearAll
  <2>3. Passed(p) = Given(p) /\ Given(p) = Queued(p) /\ Queued(p) = Say(p, Begun(p))
    BY <2>1, GivenOfQueued, Zenon DEF Goes
  <2>4. Begun(p) = N
    BY <2>1, <2>2 DEF Begun
  <2>5. Passed(p) = In(n) \o <<>> /\ In(n) \in Seq(S)
    BY <1>1, <1>2, <1>3, StreamType DEF Passed
  <2> QED BY <2>2, <2>3, <2>4, <2>5, ConcatEmptySeq
<1>10. /\ Len(a \o t) = Len(a) + Len(t) /\ Len(a \o f) = Len(a) + Len(f)
       /\ Len(a) \in Nat /\ Len(t) \in Nat /\ Len(z) \in Nat
  BY <1>5, <1>6, <1>7, ConcatProperties, LenProperties, Zenon
<1> QED BY <1>5, <1>6, <1>7, <1>8, <1>9, <1>10 DEF Begins

-----------------------------------------------------------------------------
(* A conversation goes on                                                  *)

\* A frame that the other station sends for a line.
Fits(n, c, f) ==
  /\ f.kind = (IF c.kind = "FILE" THEN "OFFER" ELSE c.kind)
  /\ f.from = Peer(n) /\ f.to = n /\ f.text = c.text

\* The next line finds the session it takes, and makes of it what the fake backend does.
LEMMA LineSession ==
  ASSUME TypeInv, Agreed(setup), NEW n \in Node, HasLine(n),
         chat[n] = FakeAt(n, Len(results[n])).chat
  PROVE  LET c == Line(n)
             after == FakeAt(n, Len(results[n]) + 1).chat
         IN  /\ Allowed(n, c) /\ peerCall[n] = Peer(n)
             /\ c.send /\ c.kind # "DISCONNECT" => ChatSent(n, c) = after
             /\ c.kind = "DISCONNECT" => Disconnected(chat[n]) = after
             /\ c.kind \in AppKind \cup {"FILE"} => chat[n] = after
             /\ ~c.send => \A f : Fits(n, c, f) =>
                                    /\ Expected(n, c, f) /\ Applies(n, f)
                                    /\ ChatGot(n, f) = after
<1>1. PICK k, c, x : k = Len(results[n]) + 1 /\ c = Line(n) /\ x = chat[n]
  OBVIOUS
<1>2. /\ k \in 1..Len(script[n]) /\ k - 1 = Len(results[n]) /\ k - 1 \in 0..Len(script[n])
      /\ c = script[n][k] /\ k \in DOMAIN script[n] /\ k - 1 + 1 = k
      /\ c \in Command /\ c.kind \in Kind /\ c.send \in BOOLEAN
  <2>1. Len(results[n]) \in Nat /\ Len(results[n]) < Len(script[n]) /\ Len(script[n]) \in Nat
    BY LineMore DEF HasLine
  <2>2. k \in 1..Len(script[n]) /\ k - 1 = Len(results[n]) /\ k - 1 \in 0..Len(script[n])
        /\ k - 1 + 1 = k
    BY <1>1, <2>1
  <2>3. k \in DOMAIN script[n] /\ c = script[n][k]
    BY <1>1, <2>2, UptoMore DEF Line
  <2>4. c \in Command /\ c.kind \in Kind /\ c.send \in BOOLEAN
    BY <1>1, LineFacts
  <2> QED BY <2>2, <2>3, <2>4
<1>3. /\ peerCall[n] = Peer(n)
      /\ c.kind = "CONNECT" => ~InSession(script[n], k)
      /\ c.kind = "MSG" => InSession(script[n], k)
  BY <1>2 DEF Agreed, script, peerCall
<1>4. Peer(n) # NoCall
  BY Peers, ChatAssumption
<1>5. x.peer = IF InSession(script[n], k) THEN Peer(n) ELSE NoCall
  BY <1>1, <1>2, FakeHolds
<1>6. /\ c.kind = "CONNECT" => ~IsConnected(x)
      /\ c.kind = "MSG" => IsConnected(x) /\ x.peer = Peer(n)
  BY <1>3, <1>4, <1>5 DEF IsConnected
<1>7. PICK l : l = AsFake(n)[c]
  OBVIOUS
<1>8. /\ l.call = Peer(n) /\ l.text = c.text
      /\ l.verb = IF c.kind = "MSG" THEN (IF c.send THEN "SEND" ELSE "RX")
                  ELSE IF c.kind \in Plain THEN c.kind ELSE "STATUS"
  BY <1>2, <1>3, <1>7 DEF AsFake
<1>9. PICK after : after = FakeAt(n, k).chat
  OBVIOUS
<1>10. c \in Concerning => after = ExecuteScriptLine(x, n, l)
  <2>1. c \in Concerning => FakeAt(n, k) = RunStep(n, FakeAt(n, k - 1), l)
    BY <1>2, <1>7, FakeAtMore
  <2>2. FakeAt(n, k - 1).chat = x
    BY <1>1, <1>2
  <2> QED BY <1>9, <2>1, <2>2 DEF RunStep
<1>11. c \notin Concerning => after = x
  <2>1. c \notin Concerning => FakeAt(n, k) = FakeAt(n, k - 1)
    BY <1>2, FakeAtMore
  <2> QED BY <1>1, <1>2, <1>9, <2>1
<1>12. c \in Concerning <=> c.kind \in {"CONNECT", "MSG", "DISCONNECT"}
  BY <1>2 DEF Concerning
<1>13. ASSUME c.kind = "CONNECT" PROVE after = ConnectTo(x, Peer(n))
  <2>1. l.verb = "CONNECT"
    BY <1>8, <1>13 DEF Plain
  <2>2. FakeLineOk(x, l)
    BY <1>6, <1>13, <2>1 DEF FakeLineOk
  <2> QED BY <1>8, <1>10, <1>12, <1>13, <2>1, <2>2 DEF ExecuteScriptLine
<1>14. ASSUME c.kind = "MSG", c.send PROVE after = SentText(x, n, c.text)
  <2>1. l.verb = "SEND"
    BY <1>8, <1>14
  <2>2. FakeLineOk(x, l)
    BY <1>6, <1>14, <2>1 DEF FakeLineOk
  <2> QED BY <1>8, <1>10, <1>12, <1>14, <2>1, <2>2 DEF ExecuteScriptLine
<1>15. ASSUME c.kind = "MSG", ~c.send PROVE after = ReceivedText(x, n, Peer(n), c.text)
  <2>1. l.verb = "RX"
    BY <1>8, <1>15
  <2>2. FakeLineOk(x, l)
    BY <1>6, <1>8, <1>15, <2>1 DEF FakeLineOk, Accepts
  <2> QED BY <1>8, <1>10, <1>12, <1>15, <2>1, <2>2 DEF ExecuteScriptLine
<1>16. ASSUME c.kind = "DISCONNECT" PROVE after = Disconnected(x)
  <2>1. l.verb = "DISCONNECT"
    BY <1>8, <1>16 DEF Plain
  <2>2. FakeLineOk(x, l)
    BY <2>1 DEF FakeLineOk
  <2> QED BY <1>10, <1>12, <1>16, <2>1, <2>2 DEF ExecuteScriptLine
<1>17. ASSUME c.kind \in AppKind \cup {"FILE"} PROVE after = x
  BY <1>11, <1>12, <1>17 DEF AppKind
<1>18. Allowed(n, c)
  BY <1>1, <1>6 DEF Allowed
<1>19. ASSUME c.send, c.kind # "DISCONNECT" PROVE ChatSent(n, c) = after
  <2>1. c.kind \in {"CONNECT", "MSG"} \/ c.kind \in AppKind \cup {"FILE"}
    BY <1>2, <1>19 DEF Kind
  <2>2. CASE c.kind = "CONNECT"
    BY <1>1, <1>3, <1>13, <2>2 DEF ChatSent
  <2>3. CASE c.kind = "MSG"
    BY <1>1, <1>14, <1>19, <2>3 DEF ChatSent
  <2>4. CASE c.kind \in AppKind \cup {"FILE"}
    BY <1>1, <1>17, <2>4 DEF ChatSent, AppKind
  <2> QED BY <2>1, <2>2, <2>3, <2>4
<1>20. ASSUME ~c.send, NEW f, Fits(n, c, f)
       PROVE  Expected(n, c, f) /\ Applies(n, f) /\ ChatGot(n, f) = after
  <2>1. f.kind = (IF c.kind = "FILE" THEN "OFFER" ELSE c.kind)
        /\ f.from = Peer(n) /\ f.to = n /\ f.text = c.text
    BY <1>20 DEF Fits
  <2>2. Expected(n, c, f)
    BY <1>3, <2>1 DEF Expected, Routed
  <2>3. Applies(n, f)
    BY <1>1, <1>6, <2>1 DEF Applies, Accepts
  <2>4. ChatGot(n, f) = after
    <3>1. c.kind \in {"CONNECT", "MSG", "DISCONNECT"} \/ c.kind \in AppKind \cup {"FILE"}
      BY <1>2 DEF Kind
    <3>2. CASE c.kind = "CONNECT"
      BY <1>1, <1>13, <2>1, <3>2 DEF ChatGot
    <3>3. CASE c.kind = "MSG"
      BY <1>1, <1>15, <1>20, <2>1, <3>3 DEF ChatGot
    <3>4. CASE c.kind = "DISCONNECT"
      BY <1>1, <1>16, <2>1, <3>4 DEF ChatGot
    <3>5. CASE c.kind \in AppKind \cup {"FILE"}
      <4>1. f.kind \notin {"CONNECT", "MSG", "DISCONNECT"}
        BY <2>1, <3>5 DEF AppKind
      <4> QED BY <1>1, <1>17, <3>5, <4>1 DEF ChatGot
    <3> QED BY <3>1, <3>2, <3>3, <3>4, <3>5
  <2> QED BY <2>2, <2>3, <2>4
<1>21. FakeAt(n, Len(results[n]) + 1).chat = after
  BY <1>1, <1>9
<1> QED BY <1>1, <1>3, <1>16, <1>17, <1>18, <1>19, <1>20, <1>21

\* A step leaves the setup alone, and where nothing was refused after it nothing was before.
LEMMA CalmBefore ==
  ASSUME TypeInv, faults \in Nat, NEW n \in Node, Step(n)
  PROVE  /\ setup' = setup /\ faults' \in Nat
         /\ faults' = faults \/ faults' = faults + 1
         /\ RequestRefused(n) \/ SaveFails(n) \/ (SendFails(n) /\ phase[n] = "writing") =>
              faults' = faults + 1
         /\ faults' = 0 => faults = 0
<1>1. setup' = setup
  BY StepKinds, BeginFacts, FailsFacts, FrameFacts, WrittenFacts, SendFailsFacts, ReadFacts,
     FinishFacts, Zenon
<1>2. faults' = faults \/ faults' = faults + 1
  <2>1. Sending(n) => faults' = faults \/ faults' = faults + 1
    BY Zenon DEF Sending, SendBegin, SendRefused, RequestRefused, FrameBegin, FrameEnd, SendEnd,
           FrameWritten, SendFails
  <2>2. Expecting(n) => faults' = faults \/ faults' = faults + 1
    BY Zenon DEF Expecting, ExpectMet, ExpectMissed, ChunkKept, FileSaved, ChunkTaken, SaveFails,
           ChunkMissed, HungUp
  <2>3. Finish(n) => faults' = faults
    BY DEF Finish
  <2> QED BY <2>1, <2>2, <2>3 DEF Step
<1>3. RequestRefused(n) \/ SaveFails(n) \/ (SendFails(n) /\ phase[n] = "writing") =>
        faults' = faults + 1
  BY Zenon DEF RequestRefused, SaveFails, SendFails
<1> QED BY <1>1, <1>2, <1>3

\* What a script says and hears does not change.
LEMMA ScriptStays ==
  ASSUME setup' = setup
  PROVE  \A n, k : /\ Say(n, k)' = Say(n, k) /\ Hear(n, k)' = Hear(n, k)
                   /\ FakeAt(n, k)' = FakeAt(n, k)
BY DEF Say, Hear, Upto, SayMap, HearMap, FramesOf, FrameOf, FakeAt, AsFake, script, peerCall

\* What may go wrong in a step goes wrong in none while the stations keep to their lines.
LEMMA NothingFails ==
  ASSUME TypeInv, Agreed(setup), \A w \in Node : Goes(w), faults = 0, faults' = 0,
         NEW n \in Node, Step(n)
  PROVE  /\ ~Fails(n) /\ ~SendFails(n)
         /\ FrameBegin(n) => ~Ended(Peer(n))
         /\ Finish(n) => wire' = wire /\ phase'[Peer(n)] = phase[Peer(n)]
<1>1. ~RequestRefused(n) /\ ~SaveFails(n)
  BY CalmBefore
<1>2. ~SendFails(n)
  <2>1. phase[n] # "lost"
    BY Zenon DEF Goes
  <2>2. faults \in Nat /\ faults' # faults + 1
    OBVIOUS
  <2>3. SendFails(n) => phase[n] = "writing"
    BY <2>1 DEF SendFails
  <2> QED BY <2>2, <2>3, CalmBefore
<1>3. ~SendRefused(n)
  <2> SUFFICES ASSUME SendRefused(n) PROVE FALSE
    OBVIOUS
  <2>1. HasLine(n) /\ phase[n] = "next" /\ ~Allowed(n, Line(n))
    BY DEF SendRefused, Starts
  <2>2. chat[n] = FakeAt(n, Len(results[n])).chat
    BY <2>1, Zenon DEF Goes, Applied, Sends
  <2> QED BY <2>1, <2>2, LineSession
<1>4. ~HungUp(n)
  <2> SUFFICES ASSUME HungUp(n) PROVE FALSE
    OBVIOUS
  <2>1. wire[Peer(n)] = <<>> /\ Ended(Peer(n)) /\ (Expects(n) \/ phase[n] = "chunks")
    BY DEF HungUp
  <2>2. HasLine(n) /\ ~Line(n).send /\ ~Sends(n)
    BY <2>1 DEF Expects, Starts, Sends, TypeInv, AtHand
  <2> QED BY <2>1, <2>2, NoHangUp
<1>5. ASSUME FrameBegin(n), Ended(Peer(n)) PROVE FALSE
  <2>1. PICK p \in Node : p = Peer(n) /\ Peer(p) = n
    BY Peers
  <2>2. ~HasLine(p)
    BY <1>5, <2>1 DEF TypeInv, AtHand
  <2>3. phase[Peer(p)] # "writing"
    BY <2>2, NothingLeft
  <2> QED BY <1>5, <2>1, <2>3 DEF FrameBegin
<1>6. ASSUME Finish(n) PROVE wire' = wire /\ phase'[Peer(n)] = phase[Peer(n)]
  <2>1. ~HasLine(n)
    BY <1>6 DEF Finish
  <2>2. wire[Peer(n)] = <<>>
    BY <2>1, NothingLeft
  <2>3. wire' = wire
    BY <1>6, <2>2 DEF Finish
  <2> QED BY <1>6, <2>2, <2>3, FinishFacts
<1> QED BY <1>1, <1>2, <1>3, <1>4, <1>5, <1>6 DEF Fails

\* A read takes one frame more of its line's; with the last one the line is done with.
GoesOn(n) ==
  /\ results'[n] = results[n] /\ phase'[n] = "chunks" /\ chat'[n] = chat[n]
  /\ transfer'[n] = Append(transfer[n], Arrived(n))
  /\ Begins(transfer'[n], FramesOf(Peer(n), Line(n)))
  /\ Len(transfer'[n]) < FramesLen(Line(n))

IsDone(n) ==
  /\ results'[n] = Append(results[n], TRUE) /\ phase'[n] = "next" /\ transfer'[n] = <<>>
  /\ Append(transfer[n], Arrived(n)) = FramesOf(Peer(n), Line(n))
  /\ chat'[n] = FakeAt(n, Len(results[n]) + 1).chat

\* A frame that is read is the one its line waits for: the line goes on or is done.
LEMMA ReadsOn ==
  ASSUME TypeInv, SavedInv, Agreed(setup), \A w \in Node : Goes(w), faults = 0, faults' = 0,
         NEW n \in Node, Step(n), Reads(n)
  PROVE  GoesOn(n) \/ IsDone(n)
<1>1. PICK p \in Node : p = Peer(n) /\ Peer(p) = n
  BY Peers
<1>2. PICK c, t, f, g, S : /\ c = Line(n) /\ t = transfer[n] /\ f = Arrived(n)
                           /\ g = FramesOf(p, c) /\ S = Written(p)
  OBVIOUS
<1>3. /\ HasLine(n) /\ ~c.send /\ wire[p] # <<>> /\ f \in S /\ c \in Command
      /\ phase[n] \in {"next", "chunks"} /\ ~Sends(n)
  <2>1. HasLine(n) /\ ~c.send /\ Takes(n) /\ phase[n] \in {"next", "chunks"}
    BY <1>2, ReadFacts, Zenon DEF Meets, Opens, Keeps, Saves, Misses
  <2> QED BY <1>1, <1>2, <2>1, LineFacts DEF Takes, Sends
<1>4. /\ g \in Seq(S) /\ FramesLen(c) \in Nat \ {0} /\ Len(g) = FramesLen(c)
      /\ \A i \in 1..FramesLen(c) :
           g[i] = FrameOf(p, IF i > 1 THEN "CHUNK" ELSE IF c.kind = "FILE" THEN "OFFER" ELSE c.kind,
                          c.text, i - 1)
  BY <1>1, <1>2, <1>3, FramesOfAny
<1>5. t \in Seq(S) /\ Len(t) \in Nat
  <2>1. t \in Seq(S)
    BY <1>1, <1>2 DEF TypeInv, NodeOK
  <2> QED BY <2>1, LenProperties
<1>6. Len(t) < FramesLen(c) /\ (phase[n] = "next" => t = <<>>) /\ (phase[n] = "chunks" => Begins(t, g))
  <2>1. CASE phase[n] = "next"
    <3>1. t = <<>>
      BY <1>2, <2>1 DEF TypeInv, AtHand
    <3> QED BY <1>4, <1>5, <2>1, <3>1, EmptySeq
  <2>2. CASE phase[n] = "chunks"
    BY <1>1, <1>2, <2>2, Zenon DEF Goes
  <2> QED BY <1>3, <2>1, <2>2
<1>7. PICK i \in 1..FramesLen(c) : i = Len(t) + 1 /\ f = g[i]
  BY <1>1, <1>2, <1>3, <1>6, ArrivesInOrder
<1>8. peerCall[p] = n /\ peerCall[n] = p
  BY <1>1 DEF Agreed, peerCall
<1>9. /\ f.kind = (IF i > 1 THEN "CHUNK" ELSE IF c.kind = "FILE" THEN "OFFER" ELSE c.kind)
      /\ f.from = p /\ f.to = n /\ f.text = c.text /\ f.part = i - 1
  BY <1>4, <1>7, <1>8 DEF FrameOf
<1>10. chat[n] = FakeAt(n, Len(results[n])).chat
  BY <1>3, Zenon DEF Goes, Applied
<1>11. PICK v : v = Append(t, f)
  BY Zenon
<1>12. v \in Seq(S) /\ Len(v) = Len(t) + 1 /\ v[Len(t) + 1] = f /\ \A j \in 1..Len(t) : v[j] = t[j]
  BY <1>3, <1>5, <1>11, AppendProperties
<1>13. Begins(v, g)
  <2>1. ASSUME NEW j \in 1..Len(v) PROVE v[j] = g[j]
    <3>1. CASE j = Len(t) + 1
      BY <1>7, <1>12, <3>1
    <3>2. CASE j # Len(t) + 1
      <4>1. j \in 1..Len(t) /\ phase[n] = "chunks"
        <5>1. j \in 1..Len(t)
          BY <1>5, <1>12, <3>2
        <5>2. t # <<>>
          BY <1>5, <5>1, EmptySeq
        <5> QED BY <1>3, <1>6, <5>1, <5>2
      <4> QED BY <1>6, <1>12, <4>1 DEF Begins
    <3> QED BY <3>1, <3>2
  <2>2. Len(v) <= Len(g)
    BY <1>4, <1>5, <1>6, <1>12
  <2> QED BY <2>1, <2>2 DEF Begins
<1>14. Len(v) = FramesLen(c) => v = g
  <2> SUFFICES ASSUME Len(v) = FramesLen(c) PROVE v = g
    OBVIOUS
  <2>1. Len(v) = Len(g) /\ \A j \in 1..Len(v) : v[j] = g[j]
    BY <1>4, <1>13 DEF Begins
  <2> QED BY <1>4, <1>12, <2>1, SeqEqual
<1>15. Domains
  BY DEF TypeInv
<1>16. CASE phase[n] = "next"
  <2>1. t = <<>> /\ i = 1 /\ v = <<f>> /\ Len(v) = 1
    <3>1. t = <<>> /\ Len(t) = 0
      BY <1>5, <1>6, <1>16, EmptySeq
    <3>2. v = <<f>>
      BY <1>11, <3>1
    <3> QED BY <1>7, <1>12, <3>1, <3>2
  <2>2. Fits(n, c, f)
    BY <1>1, <1>9, <2>1 DEF Fits
  <2>3. Expected(n, c, f) /\ Applies(n, f) /\ ChatGot(n, f) = FakeAt(n, Len(results[n]) + 1).chat
    BY <1>2, <1>3, <1>10, <2>2, LineSession
  <2>4. ExpectMet(n)
    BY <1>2, <1>16, <2>3
      DEF Reads, ExpectMissed, ChunkKept, FileSaved, SaveFails, ChunkMissed, ChunkTaken
  <2>5. chat'[n] = FakeAt(n, Len(results[n]) + 1).chat
    BY <1>2, <1>15, <2>3, <2>4 DEF ExpectMet, Domains
  <2>6. CASE c.kind = "FILE"
    <3>1. results'[n] = results[n] /\ phase'[n] = "chunks" /\ transfer'[n] = <<f>>
      BY <1>2, <1>15, <2>4, <2>6 DEF ExpectMet, Domains
    <3>2. chat'[n] = chat[n]
      BY <1>2, <1>3, <1>10, <2>5, <2>6, LineSession
    <3>3. Len(v) < FramesLen(c)
      <4>1. FramesLen(c) = Chunks[c.text] + 1 /\ Chunks[c.text] \in Nat \ {0}
        <5>1. c.text \in Text
          BY <1>2, <1>3, <2>6, LineFacts DEF Plain
        <5> QED BY <2>6, <5>1, ScriptAssumption DEF FramesLen
      <4> QED BY <2>1, <4>1
    <3> QED BY <1>1, <1>2, <1>11, <1>13, <2>1, <3>1, <3>2, <3>3 DEF GoesOn
  <2>7. CASE c.kind # "FILE"
    <3>1. /\ results'[n] = Append(results[n], TRUE) /\ phase'[n] = "next"
          /\ transfer'[n] = transfer[n]
      BY <1>2, <1>15, <2>4, <2>7, Zenon DEF ExpectMet, Domains, Ok
    <3>2. v = g
      BY <1>14, <2>1, <2>7 DEF FramesLen
    <3> QED BY <1>1, <1>2, <1>11, <2>1, <2>5, <3>1, <3>2, Zenon DEF IsDone
  <2> QED BY <2>6, <2>7
<1>17. CASE phase[n] = "chunks"
  <2>1. t # <<>> /\ c.kind = "FILE"
    BY <1>2, <1>17 DEF SavedInv, Saved, TypeInv, AtHand
  <2>2. c.text \in Text /\ FramesLen(c) = Chunks[c.text] + 1 /\ Chunks[c.text] \in Nat \ {0}
    <3>1. c.text \in Text
      BY <1>2, <1>3, <2>1, LineFacts DEF Plain
    <3> QED BY <2>1, <3>1, ScriptAssumption DEF FramesLen
  <2>3. i > 1 /\ Len(t) >= 1
    <3>1. Len(t) # 0
      BY <1>5, <2>1, EmptySeq
    <3> QED BY <1>5, <1>7, <3>1
  <2>4. \A j \in 1..Len(v) : v[j].text = c.text /\ v[j].part = j - 1
    <3>1. ASSUME NEW j \in 1..Len(v) PROVE v[j].text = c.text /\ v[j].part = j - 1
      <4>1. v[j] = g[j] /\ j \in 1..FramesLen(c)
        BY <1>4, <1>12, <1>13 DEF Begins
      <4> QED BY <1>4, <4>1 DEF FrameOf
    <3> QED BY <3>1
  <2>5. IsChunk(n, f)
    <3>1. f.kind = "CHUNK" /\ Routed(n, f)
      BY <1>8, <1>9, <2>3 DEF Routed
    <3>2. Len(t) > 1 => Chunks[f.text] = Chunks[t[2].text]
      <4>1. Len(t) > 1 => 2 \in 1..Len(t) /\ 2 \in 1..Len(v)
        BY <1>5, <1>12
      <4> QED BY <1>9, <1>12, <2>4, <4>1
    <3> QED BY <1>2, <3>1, <3>2 DEF IsChunk
  <2>6. LastChunk(n, f) <=> Len(v) = FramesLen(c)
    <3>1. LastChunk(n, f) <=> Len(t) >= Chunks[c.text]
      BY <1>2, <1>9 DEF LastChunk
    <3> QED BY <1>5, <1>6, <1>12, <2>2, <3>1
  <2>7. ASSUME Len(v) = FramesLen(c) PROVE Whole(v, c.text)
    <3>1. DOMAIN v = 1..Len(v) /\ Len(v) = Chunks[c.text] + 1
      BY <1>12, <2>2, <2>7, LenProperties
    <3>2. {v[j].part : j \in DOMAIN v} = 0..Chunks[c.text]
      <4>1. \A j \in DOMAIN v : v[j].part \in 0..Chunks[c.text]
        BY <2>2, <2>4, <3>1
      <4>2. ASSUME NEW q \in 0..Chunks[c.text] PROVE \E j \in DOMAIN v : v[j].part = q
        <5>1. q + 1 \in DOMAIN v /\ q + 1 - 1 = q
          BY <2>2, <3>1
        <5> QED BY <2>4, <3>1, <5>1
      <4> QED BY <4>1, <4>2
    <3> QED BY <2>4, <3>1, <3>2 DEF Whole
  <2>8. ~SaveFails(n)
    BY CalmBefore
  <2>9. ChunkKept(n) \/ FileSaved(n)
    BY <1>2, <1>17, <2>5, <2>8 DEF Reads, ExpectMet, ExpectMissed, Expects, Starts, ChunkMissed
  <2>10. chat'[n] = chat[n]
    BY <2>9 DEF ChunkKept, FileSaved, ChunkTaken
  <2>11. CASE Len(v) # FramesLen(c)
    <3>1. ChunkKept(n)
      BY <1>2, <2>6, <2>9, <2>11 DEF FileSaved
    <3>2. results'[n] = results[n] /\ phase'[n] = "chunks" /\ transfer'[n] = v
      BY <1>2, <1>11, <1>15, <1>17, <3>1 DEF ChunkKept, Domains
    <3>3. Len(v) < FramesLen(c)
      BY <1>4, <1>5, <1>6, <1>12, <2>11
    <3> QED BY <1>1, <1>2, <1>11, <1>13, <2>10, <3>2, <3>3 DEF GoesOn
  <2>12. CASE Len(v) = FramesLen(c)
    <3>1. FileSaved(n)
      BY <1>2, <2>6, <2>9, <2>12 DEF ChunkKept
    <3>2. /\ transfer' = [transfer EXCEPT ![n] = <<>>]
          /\ Ok(n, Whole(v, c.text))
      BY <1>2, <1>11, <3>1 DEF FileSaved
    <3>3. Whole(v, c.text) = TRUE
      BY <2>7, <2>12 DEF Whole
    <3>4. results'[n] = Append(results[n], TRUE) /\ phase'[n] = "next" /\ transfer'[n] = <<>>
      BY <1>15, <3>2, <3>3, Zenon DEF Ok, Domains
    <3>5. chat'[n] = FakeAt(n, Len(results[n]) + 1).chat
      BY <1>2, <1>3, <1>10, <2>1, <2>10, LineSession
    <3> QED BY <1>1, <1>2, <1>11, <1>14, <2>12, <3>4, <3>5 DEF IsDone
  <2> QED BY <2>11, <2>12
<1> QED BY <1>3, <1>16, <1>17

\* What was passed on stays what was given.
LEMMA PassedOn ==
  ASSUME TypeInv, Agreed(setup), \A w \in Node : Goes(w), faults = 0, faults' = 0,
         NEW n \in Node, Step(n), NEW w \in Node
  PROVE  Passed(w)' = Given(w)'
<1>1. Passed(w) = Given(w) /\ phase[n] # "lost" /\ phase[w] # "lost"
  BY Zenon DEF Goes
<1>2. w = n \/ (w # n /\ w = Peer(n) /\ Peer(w) = n)
  BY Peers
<1>3. ~Fails(n) /\ ~SendFails(n)
  BY NothingFails
<1>4. CASE SendBegin(n)
  <2>1. packets'[n] = packets[n] /\ packets'[Peer(n)] = packets[Peer(n)]
        /\ wire'[n] = wire[n] /\ wire'[Peer(n)] = wire[Peer(n)]
        /\ phase[n] = "next" /\ phase'[n] = "writing" /\ phase'[Peer(n)] = phase[Peer(n)]
        /\ queue'[Peer(n)] = queue[Peer(n)]
    BY <1>4, BeginFacts DEF Same
  <2>2. In(Peer(w))' = In(Peer(w)) /\ Out(w)' = Out(w) /\ wire'[w] = wire[w]
    BY <1>2, <2>1 DEF In, Out
  <2>3. Given(w)' = Given(w)
    BY <1>2, <2>1, <2>2 DEF Given
  <2> QED BY <1>1, <2>2, <2>3 DEF Passed
<1>5. CASE FrameBegin(n)
  <2>1. ~Ended(Peer(n)) /\ phase'[n] = "blocked" /\ phase'[Peer(n)] = phase[Peer(n)]
    BY <1>5, NothingFails, FrameFacts
  <2>2. ~(Ended(w) \/ Ended(Peer(w)))'
    BY <1>2, <2>1 DEF Ended
  <2>3. Stands(w) \/ Grows(w)
    BY <1>5, <2>2, FramePassed DEF Cuts
  <2> QED BY <1>1, <2>3 DEF Stands, Grows
<1>6. CASE FrameEnd(n) \/ SendEnd(n)
  <2>1. /\ packets'[Peer(n)] = packets[Peer(n)] /\ In(n)' = In(n)
        /\ wire'[n] = wire[n] /\ wire'[Peer(n)] = wire[Peer(n)]
        /\ phase[n] = "blocked" /\ phase'[n] # "blocked" /\ phase'[Peer(n)] = phase[Peer(n)]
        /\ queue'[Peer(n)] = queue[Peer(n)] /\ Out(n)' = Append(Out(n), Head(queue[n]))
    BY <1>1, <1>6, WrittenFacts, Zenon DEF Same
  <2>2. In(Peer(n))' = In(Peer(n)) /\ Out(Peer(n))' = Out(Peer(n))
    BY <2>1 DEF In, Out
  <2>3. Passed(w)' = Passed(w)
    BY <1>2, <2>1, <2>2, Zenon DEF Passed
  <2>4. Given(w)' = Given(w)
    <3>1. CASE w = n
      <4>1. Given(n) = Append(Out(n), Head(queue[n]))
        BY <2>1, PassedType
      <4>2. TypeInv'
        BY <1>6, WrittenType
      <4>3. Out(n)' \in Seq(Written(n)')
        BY <4>2 DEF TypeInv, NodeOK
      <4>4. Given(n)' = Out(n)' \o <<>>
        BY <2>1 DEF Given
      <4> QED BY <2>1, <3>1, <4>1, <4>3, <4>4, ConcatEmptySeq
    <3>2. CASE w # n
      BY <1>2, <2>1, <2>2, <3>2 DEF Given
    <3> QED BY <3>1, <3>2
  <2> QED BY <1>1, <2>3, <2>4
<1>7. CASE Reads(n)
  BY <1>1, <1>7, ReadPassed DEF Stands
<1>8. CASE Finish(n)
  <2>1. /\ packets' = packets /\ wire' = wire /\ queue' = queue
        /\ phase[n] = "next" /\ phase'[n] = "ended" /\ phase'[Peer(n)] = phase[Peer(n)]
    BY <1>8, NothingFails, FinishFacts
  <2>2. In(Peer(w))' = In(Peer(w)) /\ Out(w)' = Out(w) /\ wire'[w] = wire[w]
    BY <2>1 DEF In, Out
  <2>3. Given(w)' = Given(w)
    BY <1>2, <2>1, <2>2 DEF Given
  <2> QED BY <1>1, <2>2, <2>3 DEF Passed
<1> QED BY <1>3, <1>4, <1>5, <1>6, <1>7, <1>8, StepKinds

\* What it takes after a step.
LEMMA GoesAfter ==
  ASSUME setup' = setup, NEW w \in Node, NEW b, NEW r, NEW a, NEW c,
         b = Begun(w)', r = Len(results'[w]), a = Applied(w)', c = Line(w)',
         AllOk(w)', phase'[w] # "lost", Passed(w)' = Given(w)',
         Queued(w)' = Say(w, b), In(w)' = Hear(w, r) \o transfer'[w],
         phase'[w] = "chunks" => /\ Begins(transfer'[w], FramesOf(Peer(w), c))
                                 /\ Len(transfer'[w]) < FramesLen(c),
         chat'[w] = FakeAt(w, a).chat
  PROVE  Goes(w)'
<1>1. Say(w, b)' = Say(w, b) /\ Hear(w, r)' = Hear(w, r) /\ FakeAt(w, a)' = FakeAt(w, a)
  BY ScriptStays
<1>2. FramesOf(Peer(w), c)' = FramesOf(Peer(w), c)
  BY DEF FramesOf, FrameOf, peerCall
<1> QED BY <1>1, <1>2 DEF Goes

\* A process of which nothing changed but that it goes on.
LEMMA GoesSame ==
  ASSUME TypeInv, setup' = setup, NEW w \in Node, Goes(w), Passed(w)' = Given(w)',
         results'[w] = results[w], chat'[w] = chat[w], transfer'[w] = transfer[w],
         Queued(w)' = Queued(w), In(w)' = In(w), Sends(w)' <=> Sends(w),
         phase'[w] # "lost", phase'[w] = "chunks" => phase[w] = "chunks"
  PROVE  Goes(w)'
<1>1. Line(w)' = Line(w) /\ (AllOk(w)' <=> AllOk(w))
  BY DEF Line, script, AllOk
<1>2. Begun(w)' = Begun(w) /\ Applied(w)' = Applied(w)
  BY <1>1 DEF Begun, Applied
<1>3. PICK b, r, a, c : b = Begun(w) /\ r = Len(results[w]) /\ a = Applied(w) /\ c = Line(w)
  BY Zenon
<1>4. /\ Queued(w) = Say(w, b) /\ In(w) = Hear(w, r) \o transfer[w] /\ AllOk(w)
      /\ phase[w] = "chunks" => /\ Begins(transfer[w], FramesOf(Peer(w), c))
                                /\ Len(transfer[w]) < FramesLen(c)
      /\ chat[w] = FakeAt(w, a).chat
  BY <1>3 DEF Goes
<1>5. b = Begun(w)' /\ r = Len(results'[w]) /\ a = Applied(w)' /\ c = Line(w)'
  BY <1>1, <1>2, <1>3
<1>6. /\ Queued(w)' = Say(w, b) /\ In(w)' = Hear(w, r) \o transfer'[w] /\ AllOk(w)'
      /\ phase'[w] = "chunks" => /\ Begins(transfer'[w], FramesOf(Peer(w), c))
                                 /\ Len(transfer'[w]) < FramesLen(c)
      /\ chat'[w] = FakeAt(w, a).chat
  BY <1>1, <1>4
<1> QED BY <1>5, <1>6, GoesAfter, Zenon

\* A line that sends has its frames to write and its record made.
LEMMA GoesBegin ==
  ASSUME TypeInv, Agreed(setup), NEW n \in Node, Step(n), Goes(n), SendBegin(n),
         Passed(n)' = Given(n)'
  PROVE  Goes(n)'
<1>1. PICK r, k, c : r = Len(results[n]) /\ k = r + 1 /\ c = Line(n)
  BY Zenon
<1>2. /\ setup' = setup /\ phase[n] = "next" /\ HasLine(n) /\ c.send /\ phase'[n] = "writing"
      /\ chat'[n] = ChatSent(n, c) /\ results'[n] = results[n] /\ packets'[n] = packets[n]
      /\ transfer'[n] = transfer[n]
  BY <1>1, BeginFacts
<1>3. k \in 1..Len(script[n]) /\ c = script[n][k] /\ k - 1 = r /\ c.kind \in Kind
  <2>1. Len(results[n]) \in Nat /\ Len(results[n]) < Len(script[n]) /\ Len(script[n]) \in Nat
    BY <1>2, LineMore DEF HasLine
  <2>2. k \in 1..Len(script[n]) /\ c = script[n][k] /\ k - 1 = r
    BY <1>1, <2>1 DEF Line
  <2> QED BY <1>1, <1>2, <2>2, LineFacts, Zenon
<1>4. Line(n)' = c
  BY <1>1, <1>2 DEF Line, script
<1>5. ~Sends(n) /\ Sends(n)'
  BY <1>2 DEF Sends
<1>6. /\ AllOk(n) /\ Queued(n) = Say(n, r) /\ In(n) = Hear(n, r) \o transfer[n]
      /\ chat[n] = FakeAt(n, r).chat
  BY <1>1, <1>5 DEF Goes, Begun, Applied
<1>7. Queued(n)' = Say(n, k)
  <2>1. Queued(n)' = Queued(n) \o FramesOf(n, c)
    <3>1. ~SendFails(n)
      BY <1>2, SendFailsFacts, Zenon
    <3> QED BY <1>1, <3>1, QueuedStep, Zenon
  <2>2. Say(n, k) = Say(n, k - 1) \o FramesOf(n, c)
    BY <1>2, <1>3, SayMore, Zenon
  <2> QED BY <1>3, <1>6, <2>1, <2>2, Zenon
<1>8. AllOk(n)' /\ In(n)' = Hear(n, r) \o transfer'[n]
  BY <1>2, <1>6 DEF AllOk, In
<1>9. k = Begun(n)' /\ r = Len(results'[n])
  BY <1>1, <1>2, <1>5 DEF Begun
<1>10. PICK a : a = Applied(n)'
  OBVIOUS
<1>11. a = IF c.kind # "DISCONNECT" THEN k ELSE r
  BY <1>1, <1>2, <1>4, <1>5, <1>10 DEF Applied
<1>12. chat'[n] = FakeAt(n, a).chat
  <2>1. CASE c.kind # "DISCONNECT"
    <3>1. ChatSent(n, c) = FakeAt(n, Len(results[n]) + 1).chat
      BY <1>1, <1>2, <1>6, <2>1, LineSession
    <3> QED BY <1>1, <1>2, <1>11, <2>1, <3>1
  <2>2. CASE c.kind = "DISCONNECT"
    <3>1. ChatSent(n, c) = chat[n]
      BY <2>2 DEF ChatSent
    <3> QED BY <1>2, <1>6, <1>11, <2>2, <3>1
  <2> QED BY <2>1, <2>2
<1> QED BY <1>2, <1>4, <1>7, <1>8, <1>9, <1>10, <1>12, GoesAfter, Zenon

\* With its last frame written a line that sends is done with.
LEMMA GoesSent ==
  ASSUME TypeInv, Agreed(setup), NEW n \in Node, Step(n), Goes(n), SendEnd(n),
         Passed(n)' = Given(n)'
  PROVE  Goes(n)'
<1>1. PICK r, k, c : r = Len(results[n]) /\ k = r + 1 /\ c = Line(n)
  BY Zenon
<1>2. /\ setup' = setup /\ phase[n] = "blocked" /\ HasLine(n) /\ c.send /\ phase'[n] = "next"
      /\ results'[n] = Append(results[n], TRUE) /\ In(n)' = In(n) /\ transfer'[n] = transfer[n]
      /\ transfer[n] = <<>>
      /\ chat'[n] = IF c.kind = "DISCONNECT" THEN Disconnected(chat[n]) ELSE chat[n]
  <2>1. Tail(queue[n]) = <<>> /\ Domains /\ phase[n] \in {"blocked", "lost"}
    BY DEF SendEnd, FrameWritten, TypeInv
  <2>2. phase[n] = "blocked"
    BY <2>1 DEF Goes
  <2>3. HasLine(n) /\ c.send /\ transfer[n] = <<>>
    BY <1>1, <2>2 DEF TypeInv, AtHand, Sends
  <2>4. chat'[n] = IF c.kind = "DISCONNECT" THEN Disconnected(chat[n]) ELSE chat[n]
    BY <1>1, <2>1 DEF SendEnd, Domains
  <2>5. /\ setup' = setup /\ In(n)' = In(n) /\ transfer'[n] = transfer[n]
        /\ phase'[n] = "next" /\ results'[n] = Append(results[n], TRUE)
    BY <2>1, WrittenFacts, Zenon
  <2> QED BY <2>2, <2>3, <2>4, <2>5
<1>3. k \in 1..Len(script[n]) /\ c = script[n][k] /\ k - 1 = r /\ c.kind \in Kind /\ r \in Nat
      /\ Len(results'[n]) = k /\ k \in 0..Len(script[n])
  <2>1. Len(results[n]) \in Nat /\ Len(results[n]) < Len(script[n]) /\ Len(script[n]) \in Nat
    BY <1>2, LineMore DEF HasLine
  <2>2. k \in 1..Len(script[n]) /\ c = script[n][k] /\ k - 1 = r /\ k \in 0..Len(script[n])
    BY <1>1, <2>1 DEF Line
  <2>3. Len(results'[n]) = k
    BY <1>1, <1>2, ResultMore
  <2> QED BY <1>1, <1>2, <2>1, <2>2, <2>3, LineFacts, Zenon
<1>4. Sends(n) /\ ~Sends(n)'
  BY <1>2 DEF Sends
<1>5. /\ AllOk(n) /\ Queued(n) = Say(n, k) /\ In(n) = Hear(n, r) \o transfer[n]
      /\ chat[n] = FakeAt(n, Applied(n)).chat
      /\ Applied(n) = IF c.kind # "DISCONNECT" THEN k ELSE r
  BY <1>1, <1>4 DEF Goes, Begun, Applied
<1>6. Queued(n)' = Say(n, k)
  BY <1>2, <1>5, QueuedStep, SendFailsFacts, BeginFacts, Zenon
<1>7. AllOk(n)'
  BY <1>2, <1>5, OkMore, Zenon
<1>8. In(n)' = Hear(n, k) \o transfer'[n]
  <2>1. Hear(n, k) = Hear(n, k - 1) \o <<>>
    BY <1>2, <1>3, SayMore, Zenon
  <2>2. PICK h : h = Hear(n, k)
    OBVIOUS
  <2>3. h \in Seq(Written(Peer(n)))
    BY <1>3, <2>2, SayMore, Zenon
  <2>4. h \o <<>> = h
    BY <2>3, ConcatEmptySeq
  <2> QED BY <1>2, <1>3, <1>5, <2>1, <2>2, <2>4
<1>9. chat'[n] = FakeAt(n, k).chat
  <2>1. CASE c.kind = "DISCONNECT"
    <3>1. chat[n] = FakeAt(n, Len(results[n])).chat
      BY <1>1, <1>5, <2>1
    <3>2. Disconnected(chat[n]) = FakeAt(n, Len(results[n]) + 1).chat
      BY <1>1, <1>2, <2>1, <3>1, LineSession
    <3> QED BY <1>1, <1>2, <2>1, <3>2
  <2>2. CASE c.kind # "DISCONNECT"
    BY <1>2, <1>5, <2>2
  <2> QED BY <2>1, <2>2
<1>10. k = Begun(n)' /\ k = Len(results'[n]) /\ k = Applied(n)'
  BY <1>3, <1>4 DEF Begun, Applied
<1> QED BY <1>2, <1>6, <1>7, <1>8, <1>9, <1>10, GoesAfter, Zenon

\* A frame that is read is one more of what was to be heard.
LEMMA GoesRead ==
  ASSUME TypeInv, Agreed(setup), NEW n \in Node, Step(n), Goes(n), Reads(n),
         GoesOn(n) \/ IsDone(n), Passed(n)' = Given(n)'
  PROVE  Goes(n)'
<1>1. PICK r, k, c, t, f, S, h : /\ r = Len(results[n]) /\ k = r + 1 /\ c = Line(n)
                                 /\ t = transfer[n] /\ f = Arrived(n) /\ S = Written(Peer(n))
                                 /\ h = Hear(n, r)
  BY Zenon
<1>2. /\ setup' = setup /\ HasLine(n) /\ ~c.send /\ f \in S /\ In(n)' = Append(In(n), f)
      /\ phase[n] \in {"next", "chunks"} /\ ~Sends(n)
  <2>1. /\ setup' = setup /\ HasLine(n) /\ ~c.send /\ Takes(n) /\ queue[n] = <<>>
        /\ phase[n] \in {"next", "chunks"}
    BY <1>1, ReadFacts, Zenon DEF Meets, Opens, Keeps, Saves, Misses
  <2> QED BY <1>1, <2>1, Zenon DEF Takes, Sends
<1>3. k \in 1..Len(script[n]) /\ c = script[n][k] /\ k - 1 = r /\ r \in Nat
      /\ k \in 0..Len(script[n]) /\ r \in 0..Len(script[n])
  <2>1. Len(results[n]) \in Nat /\ Len(results[n]) < Len(script[n]) /\ Len(script[n]) \in Nat
    BY <1>2, LineMore DEF HasLine
  <2> QED BY <1>1, <2>1 DEF Line
<1>4. /\ AllOk(n) /\ Queued(n) = Say(n, r) /\ In(n) = h \o t /\ chat[n] = FakeAt(n, r).chat
  BY <1>1, <1>2 DEF Goes, Begun, Applied
<1>5. h \in Seq(S) /\ t \in Seq(S) /\ Append(t, f) \in Seq(S)
  <2>1. h \in Seq(S)
    BY <1>1, <1>3, SayMore, Zenon
  <2>2. t \in Seq(S)
    BY <1>1 DEF TypeInv, NodeOK
  <2> QED BY <1>2, <2>1, <2>2, AppendProperties
<1>6. In(n)' = h \o Append(t, f)
  <2>1. <<f>> \in Seq(S) /\ (h \o t) \o <<f>> = h \o (t \o <<f>>)
    BY <1>2, <1>5, ConcatAssociative
  <2>2. t \o <<f>> = Append(t, f)
    BY <1>2, <1>5, AppendIsConcat
  <2>3. (h \o t) \o <<f>> = Append(h \o t, f)
    <3>1. h \o t \in Seq(S)
      BY <1>5, ConcatProperties
    <3> QED BY <1>2, <3>1, AppendIsConcat
  <2> QED BY <1>2, <1>4, <2>1, <2>2, <2>3, Zenon
<1>7. Queued(n)' = Queued(n)
  BY <1>2, QueuedStep, SendFailsFacts, BeginFacts, ReadFacts, Zenon
<1>8. CASE GoesOn(n)
  <2>1. /\ results'[n] = results[n] /\ phase'[n] = "chunks" /\ chat'[n] = chat[n]
        /\ transfer'[n] = Append(t, f) /\ Begins(transfer'[n], FramesOf(Peer(n), c))
        /\ Len(transfer'[n]) < FramesLen(c)
    BY <1>1, <1>8 DEF GoesOn
  <2>2. AllOk(n)' /\ Line(n)' = c /\ ~Sends(n)'
    BY <1>1, <1>2, <1>4, <2>1 DEF AllOk, Line, script, Sends
  <2>3. r = Begun(n)' /\ r = Len(results'[n]) /\ r = Applied(n)'
    BY <1>1, <2>1, <2>2 DEF Begun, Applied
  <2>4. /\ Queued(n)' = Say(n, r) /\ In(n)' = Hear(n, r) \o transfer'[n]
        /\ chat'[n] = FakeAt(n, r).chat /\ phase'[n] # "lost"
    BY <1>1, <1>4, <1>6, <1>7, <2>1
  <2> QED BY <1>2, <2>1, <2>2, <2>3, <2>4, GoesAfter, Zenon
<1>9. CASE IsDone(n)
  <2>1. /\ results'[n] = Append(results[n], TRUE) /\ phase'[n] = "next" /\ transfer'[n] = <<>>
        /\ Append(t, f) = FramesOf(Peer(n), c) /\ chat'[n] = FakeAt(n, k).chat
    BY <1>1, <1>9 DEF IsDone
  <2>2. AllOk(n)' /\ Len(results'[n]) = k /\ ~Sends(n)'
    BY <1>1, <1>2, <1>4, <2>1, OkMore, ResultMore, Zenon DEF Sends
  <2>3. k = Begun(n)' /\ k = Applied(n)'
    BY <2>2 DEF Begun, Applied
  <2>4. Queued(n)' = Say(n, k)
    <3>1. Say(n, k) = Say(n, k - 1) \o <<>>
      BY <1>2, <1>3, SayMore, Zenon
    <3>2. PICK x \in Seq(Written(n)) : x = Say(n, r)
      BY <1>3, SayMore, Zenon
    <3>3. x \o <<>> = x
      BY <3>2, ConcatEmptySeq
    <3> QED BY <1>3, <1>4, <1>7, <3>1, <3>2, <3>3
  <2>5. In(n)' = Hear(n, k) \o transfer'[n]
    <3>1. Hear(n, k) = Hear(n, k - 1) \o FramesOf(Peer(n), c)
      BY <1>2, <1>3, SayMore, Zenon
    <3>2. PICK x \in Seq(S) : x = Hear(n, k)
      BY <1>1, <1>3, SayMore, Zenon
    <3>3. x \o <<>> = x
      BY <3>2, ConcatEmptySeq
    <3> QED BY <1>1, <1>3, <1>6, <2>1, <3>1, <3>2, <3>3, Zenon
  <2>6. phase'[n] # "chunks" /\ phase'[n] # "lost"
    BY <2>1
  <2> QED BY <1>2, <2>1, <2>2, <2>3, <2>4, <2>5, <2>6, GoesAfter, Zenon
<1> QED BY <1>8, <1>9

\* The process that does not step goes on.
LEMMA GoesOther ==
  ASSUME TypeInv, Agreed(setup), \A w \in Node : Goes(w), faults = 0, faults' = 0,
         NEW n \in Node, Step(n)
  PROVE  Goes(Peer(n))'
<1>1. PICK p \in Node : p = Peer(n) /\ p # n /\ Peer(p) = n
  BY Peers
<1>2. ~Fails(n) /\ ~SendFails(n) /\ setup' = setup
  BY NothingFails, CalmBefore
<1>3. SendBegin(n) \/ FrameBegin(n) \/ FrameEnd(n) \/ SendEnd(n) \/ Reads(n) \/ Finish(n)
  BY <1>2, StepKinds
<1>4. SendBegin(n) => Same(p)
  BY <1>1, BeginFacts
<1>5. FrameEnd(n) \/ SendEnd(n) => Same(p)
  BY <1>1, WrittenFacts, Zenon
<1>6. FrameBegin(n) => /\ results'[p] = results[p] /\ chat'[p] = chat[p]
                       /\ transfer'[p] = transfer[p] /\ packets'[p] = packets[p]
                       /\ phase'[p] = phase[p]
  BY <1>1, FrameFacts
<1>7. Reads(n) => /\ results'[p] = results[p] /\ chat'[p] = chat[p]
                  /\ transfer'[p] = transfer[p] /\ packets'[p] = packets[p]
                  /\ phase'[p] = phase[p]
  BY <1>1, ReadFacts DEF Takes
<1>8. Finish(n) => /\ results'[p] = results[p] /\ chat'[p] = chat[p]
                   /\ transfer'[p] = transfer[p] /\ packets'[p] = packets[p]
                   /\ phase'[p] = phase[p]
  BY <1>1, FinishFacts, NothingFails
<1>9. /\ results'[p] = results[p] /\ chat'[p] = chat[p] /\ transfer'[p] = transfer[p]
      /\ packets'[p] = packets[p] /\ phase'[p] = phase[p]
  BY <1>3, <1>4, <1>5, <1>6, <1>7, <1>8 DEF Same
<1>10. Queued(p)' = Queued(p) /\ In(p)' = In(p)
  BY <1>1, <1>9, QueuedStep DEF In
<1>11. (Sends(p)' <=> Sends(p)) /\ Goes(p) /\ phase'[p] # "lost"
  BY <1>9, Zenon DEF Sends, Goes
<1>12. Passed(p)' = Given(p)'
  BY PassedOn
<1> QED BY <1>1, <1>2, <1>9, <1>10, <1>11, <1>12, GoesSame

\* A step keeps both stations to their lines.
LEMMA GoesStep ==
  ASSUME TypeInv, SavedInv, Agreed(setup), \A w \in Node : Goes(w), faults = 0, faults' = 0,
         NEW n \in Node, Step(n)
  PROVE  \A w \in Node : Goes(w)'
<1>1. ~Fails(n) /\ ~SendFails(n) /\ setup' = setup /\ Passed(n)' = Given(n)' /\ Goes(n)
  BY NothingFails, CalmBefore, PassedOn
<1>2. SendBegin(n) => Goes(n)'
  BY <1>1, GoesBegin
<1>3. SendEnd(n) => Goes(n)'
  BY <1>1, GoesSent
<1>4. Reads(n) => Goes(n)'
  BY <1>1, ReadsOn, GoesRead
<1>5. FrameBegin(n) \/ FrameEnd(n) \/ Finish(n) => Goes(n)'
  <2> SUFFICES ASSUME FrameBegin(n) \/ FrameEnd(n) \/ Finish(n) PROVE Goes(n)'
    OBVIOUS
  <2>1. FrameBegin(n) => /\ results'[n] = results[n] /\ chat'[n] = chat[n]
                         /\ transfer'[n] = transfer[n] /\ In(n)' = In(n)
                         /\ phase[n] = "writing" /\ phase'[n] = "blocked"
    BY FrameFacts, NothingFails DEF In
  <2>2. FrameEnd(n) => /\ results'[n] = results[n] /\ chat'[n] = chat[n]
                       /\ transfer'[n] = transfer[n] /\ In(n)' = In(n)
                       /\ phase[n] \in {"blocked", "lost"} /\ phase'[n] = "writing"
    <3>1. FrameEnd(n) => Tail(queue[n]) # <<>>
      BY DEF FrameEnd
    <3> QED BY <3>1, WrittenFacts, Zenon
  <2>3. Finish(n) => /\ results'[n] = results[n] /\ chat'[n] = chat[n]
                     /\ transfer'[n] = transfer[n] /\ In(n)' = In(n)
                     /\ phase[n] = "next" /\ phase'[n] = "ended"
    BY FinishFacts DEF In
  <2>4. ~SendBegin(n)
    BY <2>1, <2>2, <2>3, BeginFacts
  <2>5. Queued(n)' = Queued(n)
    BY <1>1, <2>4, QueuedStep
  <2>6. /\ results'[n] = results[n] /\ chat'[n] = chat[n]
        /\ transfer'[n] = transfer[n] /\ In(n)' = In(n)
        /\ Sends(n)' <=> Sends(n)
        /\ phase'[n] # "lost" /\ phase'[n] # "chunks"
    BY <2>1, <2>2, <2>3 DEF Sends
  <2> QED BY <1>1, <2>5, <2>6, GoesSame
<1>6. Goes(n)'
  BY <1>1, <1>2, <1>3, <1>4, <1>5, StepKinds
<1> QED BY <1>6, GoesOther, Peers

\* A conversation starts with nothing said.
LEMMA ConversationInit == Init => ConversationInv
<1> SUFFICES ASSUME Init PROVE ConversationInv
  OBVIOUS
<1>1. TypeInv
  BY InitType
<1>2. ASSUME NEW n \in Node PROVE Goes(n)
  <2>1. /\ results[n] = <<>> /\ phase[n] = "next" /\ queue[n] = <<>> /\ transfer[n] = <<>>
        /\ chat[n] = NewBackend
    BY DEF Init
  <2>2. wire[n] = <<>>
    BY DEF Init
  <2>3. In(n) = <<>> /\ Out(n) = <<>> /\ In(Peer(n)) = <<>>
    BY Peers, StreamInit
  <2>4. <<>> \o <<>> = <<>> /\ Len(<<>>) = 0
    OBVIOUS
  <2>5. Say(n, 0) = <<>> /\ Hear(n, 0) = <<>> /\ FakeAt(n, 0).chat = NewBackend
    <3>1. FakeAt(n, 0) = [ok |-> TRUE, chat |-> NewBackend]
      BY <1>1, FakeAtMore
    <3>2. Say(n, 0) = <<>> /\ Hear(n, 0) = <<>>
      BY <1>1, SayMore, Zenon
    <3> QED BY <3>1, <3>2
  <2>6. AllOk(n) /\ Begun(n) = 0 /\ Applied(n) = 0 /\ Len(results[n]) = 0
    BY <2>1, <2>4 DEF AllOk, Begun, Applied, Sends
  <2>7. Queued(n) = <<>> /\ Passed(n) = <<>> /\ Given(n) = <<>>
    BY <2>1, <2>2, <2>3, <2>4 DEF Queued, Passed, Given
  <2>8. In(n) = Hear(n, Len(results[n])) \o transfer[n]
    BY <2>1, <2>3, <2>4, <2>5, <2>6
  <2> QED BY <2>1, <2>5, <2>6, <2>7, <2>8 DEF Goes
<1> QED BY <1>2 DEF ConversationInv, Init

\* Every step keeps a conversation a conversation.
LEMMA ConversationNext == TypeInv /\ SavedInv /\ ConversationInv /\ [Next]_vars => ConversationInv'
<1> SUFFICES ASSUME TypeInv, SavedInv, ConversationInv, [Next]_vars PROVE ConversationInv'
  OBVIOUS
<1>1. CASE UNCHANGED vars
  <2>1. ASSUME NEW w \in Node, Goes(w) PROVE Goes(w)'
    <3>1. /\ setup' = setup /\ results' = results /\ chat' = chat /\ transfer' = transfer
          /\ packets' = packets /\ phase' = phase /\ queue' = queue /\ wire' = wire
      BY <1>1 DEF vars
    <3>2. /\ Queued(w)' = Queued(w) /\ In(w)' = In(w) /\ (Sends(w)' <=> Sends(w))
          /\ Passed(w)' = Passed(w) /\ Given(w)' = Given(w) /\ Passed(w) = Given(w)
          /\ phase[w] # "lost"
      BY <2>1, <3>1, Zenon DEF Queued, In, Out, Sends, Passed, Given, Goes
    <3> QED BY <2>1, <3>1, <3>2, GoesSame
  <2>2. faults' = faults /\ (Calm' <=> Calm)
    BY <1>1 DEF vars, Calm
  <2> QED BY <2>1, <2>2 DEF ConversationInv
<1>2. ASSUME NEW n \in Node, Step(n) PROVE ConversationInv'
  <2>1. setup' = setup /\ faults' \in Nat /\ (faults' = 0 => faults = 0)
    BY <1>2, CalmBefore DEF ConversationInv
  <2>2. ASSUME Calm' PROVE \A w \in Node : Goes(w)'
    <3>1. Calm /\ Agreed(setup) /\ faults = 0 /\ faults' = 0
      BY <2>1, <2>2 DEF Calm
    <3> QED BY <1>2, <3>1, GoesStep DEF ConversationInv
  <2> QED BY <2>1, <2>2 DEF ConversationInv
<1> QED BY <1>1, <1>2 DEF Next, Over

-----------------------------------------------------------------------------
(* What the lines of a conversation leave                                  *)

\* A message between a station and the other one.
Between(n, m) ==
  \/ m.direction = "Outbound" /\ m.from = n /\ m.to = Peer(n)
  \/ m.direction = "Inbound" /\ m.from = Peer(n) /\ m.to = n

\* The line c of station n made log t of log s.
Adds(n, c, s, t) ==
  \E m \in Message : /\ t = Append(s, m) /\ m.text = c.text /\ Between(n, m)
                     /\ m.direction = "Outbound" <=> c.send

\* A line adds to the log if it is a text, and tells the call of both.
LEMMA MessagesMore ==
  ASSUME TypeInv, Agreed(setup), NEW n \in Node, NEW k \in 1..Len(script[n])
  PROVE  LET c == script[n][k]
             s == FakeAt(n, k - 1).chat.messages
             t == FakeAt(n, k).chat.messages
         IN  /\ s \in Seq(Message)
             /\ c.kind # "MSG" => t = s
             /\ c.kind = "MSG" => Adds(n, c, s, t)
<1>1. PICK c, r, x : c = script[n][k] /\ r = FakeAt(n, k - 1) /\ x = FakeAt(n, k - 1).chat
  OBVIOUS
<1>2. k - 1 \in 0..Len(script[n]) /\ c \in Command /\ r \in RunState /\ k \in DOMAIN script[n]
      /\ k - 1 + 1 = k
  BY <1>1, UptoMore, FakeAtMore
<1>3. x \in Backend
  BY <1>1, <1>2 DEF RunState
<1>4. x.messages \in Seq(Message) /\ x.next \in Nat
  BY <1>3 DEF Backend
<1>5. /\ peerCall[n] = Peer(n) /\ n \in Call /\ Peer(n) \in Call /\ Peer(n) # NoCall
      /\ c.kind = "CONNECT" => ~InSession(script[n], k)
      /\ c.kind = "MSG" => InSession(script[n], k)
  BY <1>1, <1>2, Peers, ChatAssumption DEF Agreed, script, peerCall
<1>6. x.peer = IF InSession(script[n], k) THEN Peer(n) ELSE NoCall
  BY <1>1, <1>2, FakeHolds
<1>7. PICK l : l = AsFake(n)[c]
  OBVIOUS
<1>8. /\ l.call = Peer(n) /\ l.text = c.text
      /\ l.verb = IF c.kind = "MSG" THEN (IF c.send THEN "SEND" ELSE "RX")
                  ELSE IF c.kind \in Plain THEN c.kind ELSE "STATUS"
  BY <1>2, <1>5, <1>7 DEF AsFake
<1>9. PICK t : t = FakeAt(n, k).chat.messages
  OBVIOUS
<1>10. c \in Concerning => t = ExecuteScriptLine(x, n, l).messages
  <2>1. c \in Concerning => FakeAt(n, k) = RunStep(n, r, l)
    BY <1>1, <1>7, FakeAtMore
  <2>2. RunStep(n, r, l).chat = ExecuteScriptLine(x, n, l)
    BY <1>1 DEF RunStep
  <2> QED BY <1>9, <2>1, <2>2
<1>11. c \notin Concerning => t = x.messages
  <2>1. c \notin Concerning => FakeAt(n, k) = r
    BY <1>1, FakeAtMore
  <2> QED BY <1>1, <1>9, <2>1
<1>12. c \in Concerning <=> c.kind \in {"CONNECT", "MSG", "DISCONNECT"}
  BY <1>2 DEF Concerning
<1>13. ASSUME c.kind # "MSG" PROVE t = x.messages
  <2>1. CASE c.kind = "CONNECT"
    <3>1. l.verb = "CONNECT" /\ FakeLineOk(x, l)
      BY <1>5, <1>6, <1>8, <2>1 DEF Plain, FakeLineOk, IsConnected
    <3>2. ExecuteScriptLine(x, n, l) = ConnectTo(x, Peer(n))
      BY <1>8, <3>1 DEF ExecuteScriptLine
    <3> QED BY <1>10, <1>12, <2>1, <3>2 DEF ConnectTo
  <2>2. CASE c.kind = "DISCONNECT"
    <3>1. l.verb = "DISCONNECT" /\ FakeLineOk(x, l)
      BY <1>8, <2>2 DEF Plain, FakeLineOk
    <3>2. ExecuteScriptLine(x, n, l) = Disconnected(x)
      BY <3>1 DEF ExecuteScriptLine
    <3> QED BY <1>10, <1>12, <2>2, <3>2 DEF Disconnected
  <2>3. CASE c.kind \notin {"CONNECT", "DISCONNECT"}
    BY <1>11, <1>12, <1>13, <2>3
  <2> QED BY <2>1, <2>2, <2>3
<1>14. ASSUME c.kind = "MSG"
       PROVE  Adds(n, c, x.messages, t)
  <2>1. c.text \in Text /\ x.peer = Peer(n) /\ c.send \in BOOLEAN
    BY <1>2, <1>5, <1>6, <1>14 DEF Command, Plain
  <2>2. CASE c.send
    <3>1. l.verb = "SEND" /\ FakeLineOk(x, l)
      BY <1>5, <1>8, <1>14, <2>1, <2>2 DEF FakeLineOk, IsConnected
    <3>2. ExecuteScriptLine(x, n, l) = SentText(x, n, c.text)
      BY <1>8, <3>1 DEF ExecuteScriptLine
    <3>3. PICK m : m = [sequence |-> x.next, direction |-> "Outbound", from |-> n, to |-> Peer(n),
                        text |-> c.text]
      BY Zenon
    <3>4. t = Append(x.messages, m)
      BY <1>10, <1>12, <1>14, <2>1, <3>2, <3>3 DEF SentText, PushMessage
    <3>5. m \in Message /\ m.text = c.text /\ Between(n, m) /\ m.direction = "Outbound"
      BY <1>4, <1>5, <2>1, <3>3 DEF Message, Direction, Between
    <3> QED BY <2>2, <3>4, <3>5 DEF Adds
  <2>3. CASE ~c.send
    <3>1. l.verb = "RX" /\ FakeLineOk(x, l)
      BY <1>5, <1>8, <1>14, <2>1, <2>3 DEF FakeLineOk, IsConnected, Accepts
    <3>2. ExecuteScriptLine(x, n, l) = ReceivedText(x, n, Peer(n), c.text)
      BY <1>8, <3>1 DEF ExecuteScriptLine
    <3>3. PICK m : m = [sequence |-> x.next, direction |-> "Inbound", from |-> Peer(n), to |-> n,
                        text |-> c.text]
      BY Zenon
    <3>4. t = Append(x.messages, m)
      BY <1>10, <1>12, <1>14, <2>1, <3>2, <3>3 DEF ReceivedText, PushMessage
    <3>5. m \in Message /\ m.text = c.text /\ Between(n, m) /\ m.direction = "Inbound"
      BY <1>4, <1>5, <2>1, <3>3 DEF Message, Direction, Between
    <3> QED BY <2>3, <3>4, <3>5 DEF Adds
  <2> QED BY <2>2, <2>3
<1> QED BY <1>1, <1>4, <1>9, <1>13, <1>14

\* All messages are between the two stations.
LEMMA AllBetween ==
  ASSUME TypeInv, Agreed(setup), NEW n \in Node
  PROVE  \A k \in 0..Len(script[n]) :
           /\ FakeAt(n, k).chat.messages \in Seq(Message)
           /\ \A i \in 1..Len(FakeAt(n, k).chat.messages) : Between(n, FakeAt(n, k).chat.messages[i])
<1> DEFINE s(k) == FakeAt(n, k).chat.messages
           P == {k \in 0..Len(script[n]) :
                   s(k) \in Seq(Message) /\ \A i \in 1..Len(s(k)) : Between(n, s(k)[i])}
<1>1. Len(script[n]) \in Nat
  BY UptoMore
<1>2. 0 \in P
  <2>1. FakeAt(n, 0) = [ok |-> TRUE, chat |-> NewBackend]
    BY FakeAtMore
  <2>2. s(0) = <<>>
    BY <2>1 DEF NewBackend
  <2>3. <<>> \in Seq(Message) /\ \A i \in 1..Len(<<>>) : FALSE
    BY EmptySeq
  <2>4. \A i \in 1..Len(s(0)) : FALSE
    BY <2>2, <2>3
  <2>5. \A i \in 1..Len(s(0)) : Between(n, s(0)[i])
    BY <2>4
  <2>6. s(0) \in Seq(Message)
    <3> HIDE DEF s
    <3> QED BY <2>2, <2>3, Zenon
  <2>7. 0 \in 0..Len(script[n])
    BY <1>1
  <2> HIDE DEF s
  <2> QED BY <2>5, <2>6, <2>7
<1>3. ASSUME NEW k \in 1..Len(script[n]), k - 1 \in P
      PROVE  k \in P
  <2>1. PICK x, y : x = s(k - 1) /\ y = s(k)
    OBVIOUS
  <2>2. x \in Seq(Message) /\ \A i \in 1..Len(x) : Between(n, x[i])
    BY <1>3, <2>1
  <2>3. y = x \/ \E m \in Message : y = Append(x, m) /\ Between(n, m)
    BY <2>1, MessagesMore, Zenon DEF Adds
  <2>4. y \in Seq(Message) /\ \A i \in 1..Len(y) : Between(n, y[i])
    <3>1. CASE y = x
      BY <2>2, <3>1
    <3>2. ASSUME NEW m \in Message, y = Append(x, m), Between(n, m)
          PROVE  y \in Seq(Message) /\ \A i \in 1..Len(y) : Between(n, y[i])
      <4>1. /\ y \in Seq(Message) /\ Len(y) = Len(x) + 1 /\ Len(x) \in Nat /\ y[Len(x) + 1] = m
            /\ \A i \in 1..Len(x) : y[i] = x[i]
        BY <2>2, <3>2, AppendProperties, LenProperties
      <4>2. \A i \in 1..Len(y) : i = Len(x) + 1 \/ i \in 1..Len(x)
        BY <4>1
      <4> QED BY <2>2, <3>2, <4>1, <4>2
    <3> QED BY <2>3, <3>1, <3>2
  <2>5. k \in 0..Len(script[n])
    OBVIOUS
  <2> QED BY <2>1, <2>4, <2>5
<1>4. 0..Len(script[n]) \subseteq P
  <2> HIDE DEF P
  <2> QED BY <1>1, <1>2, <1>3, UptoInduction, Zenon
<1> QED BY <1>4

\* Where the stations take turns, what one sends the other receives next.
LEMMA TurnsMirror ==
  ASSUME TypeInv, Agreed(setup), InTurns(setup), NEW n \in Node
  PROVE  \A k \in 0..Len(script[n]) :
           LET s == FakeAt(n, k).chat.messages
               t == FakeAt(Peer(n), k).chat.messages
           IN  /\ Len(s) = Len(t)
               /\ \A i \in 1..Len(s) : /\ s[i].text = t[i].text
                                       /\ s[i].direction = "Outbound" <=> t[i].direction # "Outbound"
<1>1. PICK p \in Node : p = Peer(n) /\ Peer(p) = n
  BY Peers
<1>2. Len(script[n]) \in Nat /\ Len(script[p]) = Len(script[n])
  BY <1>1, UptoMore DEF Agreed, script
<1> DEFINE Alike(s, t) == /\ Len(s) = Len(t)
                          /\ \A i \in 1..Len(s) :
                               /\ s[i].text = t[i].text
                               /\ s[i].direction = "Outbound" <=> t[i].direction # "Outbound"
           P == {k \in 0..Len(script[n]) :
                   Alike(FakeAt(n, k).chat.messages, FakeAt(p, k).chat.messages)}
<1>3. 0 \in P
  <2>1. FakeAt(n, 0) = [ok |-> TRUE, chat |-> NewBackend] /\ FakeAt(p, 0) = [ok |-> TRUE, chat |-> NewBackend]
    BY FakeAtMore
  <2>2. FakeAt(n, 0).chat.messages = <<>> /\ FakeAt(p, 0).chat.messages = <<>>
    BY <2>1 DEF NewBackend
  <2>3. Alike(<<>>, <<>>)
    OBVIOUS
  <2>4. 0 \in 0..Len(script[n])
    BY <1>2
  <2> HIDE DEF Alike
  <2> QED BY <2>2, <2>3, <2>4
<1>4. \A k \in 1..Len(script[n]) : ~Crosses(setup, k)
  <2>1. A \in Node /\ DOMAIN script[A] = 1..Len(script[A])
    BY UptoMore DEF Node
  <2>2. Len(script[A]) = Len(script[n])
    <3>1. n = A \/ p = A
      BY <1>1 DEF Node, Peer
    <3> QED BY <1>2, <3>1
  <2> QED BY <2>1, <2>2 DEF InTurns, script
<1>5. ASSUME NEW k \in 1..Len(script[n]), k - 1 \in P
      PROVE  k \in P
  <2>1. PICK c, d, s, t, x, y :
          /\ c = script[n][k] /\ d = script[p][k]
          /\ s = FakeAt(n, k - 1).chat.messages /\ x = FakeAt(n, k).chat.messages
          /\ t = FakeAt(p, k - 1).chat.messages /\ y = FakeAt(p, k).chat.messages
    OBVIOUS
  <2>2. k \in 1..Len(script[p]) /\ k \in 0..Len(script[n])
    BY <1>2
  <2>3. Alike(s, t)
    BY <1>5, <2>1
  <2>4. (c.send <=> ~d.send) /\ c.kind = d.kind /\ c.text = d.text
    <3>1. ~Crosses(setup, k) /\ ~Second(k)
      <4>1. k > 1 => k - 1 \in 1..Len(script[n])
        BY <1>2
      <4> QED BY <1>4, <4>1 DEF Second
    <3> QED BY <1>1, <2>1, <3>1, AgreedLine
  <2>5. /\ s \in Seq(Message) /\ t \in Seq(Message)
        /\ c.kind # "MSG" => x = s /\ y = t
        /\ c.kind = "MSG" => Adds(n, c, s, x) /\ Adds(p, d, t, y)
    <3>1. s \in Seq(Message) /\ (c.kind # "MSG" => x = s) /\ (c.kind = "MSG" => Adds(n, c, s, x))
      BY <2>1, MessagesMore
    <3>2. t \in Seq(Message) /\ (d.kind # "MSG" => y = t) /\ (d.kind = "MSG" => Adds(p, d, t, y))
      BY <2>1, <2>2, MessagesMore
    <3> QED BY <2>4, <3>1, <3>2
  <2>6. Alike(x, y)
    <3>1. CASE c.kind # "MSG"
      BY <2>3, <2>5, <3>1
    <3>2. CASE c.kind = "MSG"
      <4>1. PICK m \in Message : /\ x = Append(s, m) /\ m.text = c.text
                                 /\ m.direction = "Outbound" <=> c.send
        BY <2>5, <3>2 DEF Adds
      <4>2. PICK q \in Message : /\ y = Append(t, q) /\ q.text = d.text
                                 /\ q.direction = "Outbound" <=> d.send
        BY <2>5, <3>2 DEF Adds
      <4>3. /\ Len(x) = Len(s) + 1 /\ x[Len(s) + 1] = m /\ \A i \in 1..Len(s) : x[i] = s[i]
            /\ Len(y) = Len(t) + 1 /\ y[Len(t) + 1] = q /\ \A i \in 1..Len(t) : y[i] = t[i]
            /\ Len(s) \in Nat /\ Len(s) = Len(t)
        BY <2>3, <2>5, <4>1, <4>2, AppendProperties, LenProperties
      <4>4. \A i \in 1..Len(x) : i = Len(s) + 1 \/ i \in 1..Len(s)
        BY <4>3
      <4>5. m.text = q.text /\ (m.direction = "Outbound" <=> q.direction # "Outbound")
        BY <2>4, <4>1, <4>2
      <4>6. \A i \in 1..Len(s) : /\ s[i].text = t[i].text
                                 /\ s[i].direction = "Outbound" <=> t[i].direction # "Outbound"
        BY <2>3
      <4>7. ASSUME NEW i \in 1..Len(x)
            PROVE  /\ x[i].text = y[i].text
                   /\ x[i].direction = "Outbound" <=> y[i].direction # "Outbound"
        <5>1. CASE i = Len(s) + 1
          BY <4>3, <4>5, <5>1
        <5>2. CASE i \in 1..Len(s)
          BY <4>3, <4>6, <5>2
        <5> QED BY <4>4, <5>1, <5>2
      <4> QED BY <4>3, <4>7
    <3> QED BY <3>1, <3>2
  <2> HIDE DEF Alike
  <2> QED BY <2>1, <2>2, <2>6
<1>6. 0..Len(script[n]) \subseteq P
  <2> HIDE DEF P
  <2> QED BY <1>2, <1>3, <1>5, UptoInduction, Zenon
<1> QED BY <1>1, <1>6

-----------------------------------------------------------------------------
(* What a station posts and what the app model makes of its lines          *)

AppInput == [verb: {"BEACON", "MAIL"}, call: Call, text: Text]

\* The posts of lines for the app model.
LinePost ==
  [line \in AppInput |->
     [to |-> IF line.verb = "BEACON" THEN NoCall ELSE line.call, text |-> line.text]]

\* The lines that post, what they post and the lines they are for the app model.
Posters == {c \in Command : c.send /\ c.kind \in AppKind \cup {"FILE"}}
CommandPost(n) == [c \in Command |-> [to |-> AppAddressee(peerCall[n], c.kind), text |-> c.text]]
AsApp(n) ==
  [c \in Command |-> [verb |-> IF c.kind = "BEACON" THEN "BEACON" ELSE "MAIL",
                      call |-> peerCall[n], text |-> c.text]]

Posted(n) == AllOk(n) => PostsOf(app[n], n) = Kept(Done(n), Posters, CommandPost(n))
PostedInv == \A n \in Node : Posted(n)

\* The states of the app model while it runs a script.
AppRunBy(station, lines, f) ==
  /\ f \in [0..Len(lines) -> AppModel] /\ RunAppScript(station, lines).state = f[Len(lines)]
  /\ f[0] = NewAppModel
  /\ \A k \in 1..Len(lines) : f[k] = ExecuteAppLine(f[k - 1], station, lines[k])

\* An entry is recorded.
LEMMA RecordedType ==
  ASSUME NEW a \in AppModel, NEW from \in Call, NEW to \in Call \cup {NoCall}, NEW text \in Text
  PROVE  Recorded(a, from, to, text) \in AppModel
<1>1. PICK e : e = [sequence |-> a.next, from |-> from, to |-> to, text |-> text]
  BY Zenon
<1>2. a.next \in Nat /\ a.entries \in Seq(Entry)
  BY DEF AppModel
<1>3. e \in Entry
  BY <1>1, <1>2 DEF Entry
<1>4. Append(a.entries, e) \in Seq(Entry)
  BY <1>2, <1>3, AppendProperties
<1> QED BY <1>1, <1>2, <1>4 DEF Recorded, AppModel

\* A line that posts adds its post.
LEMMA AppLinePosts ==
  ASSUME NEW station \in Call, NEW a \in AppModel, NEW line \in AppInput
  PROVE  /\ ExecuteAppLine(a, station, line) \in AppModel
         /\ PostsOf(ExecuteAppLine(a, station, line), station)
              = Append(PostsOf(a, station), LinePost[line])
<1>1. line.verb \in {"BEACON", "MAIL"} /\ line.call \in Call /\ line.text \in Text
  BY DEF AppInput
<1>2. PICK to \in Call \cup {NoCall} : to = IF line.verb = "BEACON" THEN NoCall ELSE line.call
  BY <1>1
<1>3. ExecuteAppLine(a, station, line) = Recorded(a, station, to, line.text)
  BY <1>1, <1>2 DEF ExecuteAppLine
<1>4. LinePost[line] = [to |-> to, text |-> line.text]
  BY <1>2 DEF LinePost
<1>5. line.text \in Text
  BY <1>1
<1>6. Recorded(a, station, to, line.text) \in AppModel
  BY <1>5, RecordedType, Zenon
<1>7. PostsOf(Recorded(a, station, to, line.text), station)
        = Append(PostsOf(a, station), [to |-> to, text |-> line.text])
  BY <1>5, PostsMore
<1> QED BY <1>3, <1>4, <1>6, <1>7

\* Any script has a run.
LEMMA AppRunExists ==
  ASSUME NEW station \in Call, NEW lines \in Seq(AppInput)
  PROVE  \E f : AppRunBy(station, lines, f)
<1>1. Len(lines) \in Nat /\ \A k \in 1..Len(lines) : lines[k] \in AppInput
  BY LenProperties, ElementOfSeq
<1>2. NewAppModel \in AppModel
  BY EmptySeq DEF NewAppModel, AppModel
<1>3. PICK step : step = [p \in (1..Len(lines)) \X AppModel |-> ExecuteAppLine(p[2], station, lines[p[1]])]
  BY Zenon
<1>4. \A k \in 1..Len(lines) : \A a \in AppModel :
        /\ step[<<k, a>>] = ExecuteAppLine(a, station, lines[k])
        /\ ExecuteAppLine(a, station, lines[k]) \in AppModel
  BY <1>1, <1>3, AppLinePosts, Zenon
<1>5. step \in [(1..Len(lines)) \X AppModel -> AppModel]
  BY <1>3, <1>4, Zenon
<1>6. PICK f \in [0..Len(lines) -> AppModel] : StepsFrom(NewAppModel, step, Len(lines), f)
  BY <1>1, <1>2, <1>5, StepsExist, Zenon
<1>7. f[0] = NewAppModel
  BY <1>6 DEF StepsFrom
<1>8. ASSUME NEW k \in 1..Len(lines) PROVE f[k] = ExecuteAppLine(f[k - 1], station, lines[k])
  <2>1. k - 1 \in 0..Len(lines) /\ f[k - 1] \in AppModel
    BY <1>1, <1>6
  <2> QED BY <1>4, <1>6, <2>1, Zenon DEF StepsFrom
<1> DEFINE h == CHOOSE h : h = [k \in 0..Len(lines) |->
                                  IF k = 0 THEN NewAppModel
                                  ELSE ExecuteAppLine(h[k - 1], station, lines[k])]
<1>9. f = [k \in 0..Len(lines) |->
             IF k = 0 THEN NewAppModel ELSE ExecuteAppLine(f[k - 1], station, lines[k])]
  <2>1. ASSUME NEW k \in 0..Len(lines)
        PROVE  f[k] = IF k = 0 THEN NewAppModel ELSE ExecuteAppLine(f[k - 1], station, lines[k])
    <3>1. k = 0 \/ (k # 0 /\ k \in 1..Len(lines))
      BY <1>1
    <3> QED BY <1>7, <1>8, <3>1, Zenon
  <2> QED BY <1>6, <2>1, Zenon
<1>10. h = [k \in 0..Len(lines) |->
              IF k = 0 THEN NewAppModel ELSE ExecuteAppLine(h[k - 1], station, lines[k])]
  BY <1>9, Zenon
<1>11. RunAppScript(station, lines).state = h[Len(lines)]
  BY DEF RunAppScript
<1> HIDE DEF h
<1>12. h[0] = NewAppModel /\ \A k \in 1..Len(lines) : h[k] = ExecuteAppLine(h[k - 1], station, lines[k])
  <2>1. \A k \in 0..Len(lines) :
          h[k] = IF k = 0 THEN NewAppModel ELSE ExecuteAppLine(h[k - 1], station, lines[k])
    BY <1>10, Zenon
  <2>2. 0 \in 0..Len(lines) /\ \A k \in 1..Len(lines) : k \in 0..Len(lines) /\ k # 0
    BY <1>1
  <2> QED BY <2>1, <2>2, Zenon
<1>13. h[Len(lines)] = f[Len(lines)]
  <2>1. h[0] = f[0] /\ \A k \in 1..Len(lines) : h[k - 1] = f[k - 1] => h[k] = f[k]
    BY <1>7, <1>8, <1>12, Zenon
  <2> QED BY <1>1, <2>1, StepsAgree, Zenon
<1>14. AppRunBy(station, lines, f)
  BY <1>6, <1>7, <1>8, <1>11, <1>13, Zenon DEF AppRunBy
<1> QED BY <1>14

\* What the app model posts are the posts of its lines.
LEMMA AppRunPosts ==
  ASSUME NEW station \in Call, NEW lines \in Seq(AppInput)
  PROVE  /\ RunAppScript(station, lines).ok
         /\ PostsOf(RunAppScript(station, lines).state, station) = Mapped(lines, LinePost)
<1>1. PICK N : N = Len(lines) /\ N \in Nat
  BY LenProperties
<1>2. DOMAIN lines = 1..N /\ \A k \in 1..N : lines[k] \in AppInput
  BY <1>1, LenProperties, ElementOfSeq
<1>3. PICK f : AppRunBy(station, lines, f)
  BY AppRunExists
<1>4. \A k \in 0..N : f[k] \in AppModel
  BY <1>1, <1>3 DEF AppRunBy
<1> DEFINE Post(k) == PostsOf(f[k], station)
           P == {k \in 0..N : Post(k) = Mapped(SubSeq(lines, 1, k), LinePost)}
<1>5. 0 \in P
  <2>1. Post(0) = <<>>
    <3>1. f[0] \in AppModel /\ f[0].entries = <<>>
      BY <1>1, <1>3, <1>4 DEF AppRunBy, NewAppModel
    <3> QED BY <3>1, PostsKept, KeptEmpty
  <2>2. Mapped(SubSeq(lines, 1, 0), LinePost) = <<>>
    <3>1. SubSeq(lines, 1, 0) = <<>>
      BY SubSeqEmpty
    <3>2. Mapped(<<>>, LinePost) = <<>>
      BY DEF Mapped
    <3> QED BY <3>1, <3>2, Zenon
  <2>3. 0 \in 0..N
    BY <1>1
  <2> HIDE DEF Post
  <2> QED BY <2>1, <2>2, <2>3
<1>6. ASSUME NEW k \in 1..N, k - 1 \in P
      PROVE  k \in P
  <2>1. PICK s, line : s = SubSeq(lines, 1, k - 1) /\ line = lines[k]
    BY Zenon
  <2>2. k - 1 \in 0..N /\ k \in 0..N /\ k \in 1..Len(lines)
    BY <1>1
  <2>3. line \in AppInput /\ f[k - 1] \in AppModel
    BY <1>2, <1>4, <2>1, <2>2
  <2>4. SubSeq(lines, 1, k) = Append(s, line)
    BY <2>1, <2>2, SubSeqRecursiveSecond
  <2>5. s \in Seq(AppInput)
    <3>1. k - 1 \in 0..Len(lines)
      BY <1>1, <2>2
    <3> QED BY <2>1, <3>1, BeginningAndRest
  <2>6. f[k] = ExecuteAppLine(f[k - 1], station, line)
    BY <1>1, <1>3, <2>1 DEF AppRunBy
  <2>7. Post(k) = Append(Post(k - 1), LinePost[line])
    BY <2>3, <2>6, AppLinePosts
  <2>8. Mapped(Append(s, line), LinePost) = Append(Mapped(s, LinePost), LinePost[line])
    <3>1. PICK S, g : S = AppInput /\ g = LinePost
      OBVIOUS
    <3>2. s \in Seq(S) /\ line \in S
      BY <2>3, <2>5, <3>1
    <3>3. Mapped(Append(s, line), g) = Append(Mapped(s, g), g[line])
      BY <3>2, MappedMore, ZenonT(60)
    <3> QED BY <3>1, <3>3
  <2>9. Post(k - 1) = Mapped(s, LinePost)
    BY <1>6, <2>1
  <2> HIDE DEF Post
  <2> QED BY <2>2, <2>4, <2>7, <2>8, <2>9, Zenon
<1>7. 0..N \subseteq P
  <2> HIDE DEF P
  <2> QED BY <1>1, <1>5, <1>6, UptoInduction, Zenon
<1>8. Post(N) = Mapped(SubSeq(lines, 1, N), LinePost)
  BY <1>1, <1>7
<1>9. SubSeq(lines, 1, N) = lines
  BY <1>1, SubSeqFull
<1>10. RunAppScript(station, lines).state = f[N]
  BY <1>1, <1>3 DEF AppRunBy
<1>11. \A k \in DOMAIN lines : lines[k].verb \notin {"refused", "unreadable"}
  BY <1>2 DEF AppInput
<1>12. RunAppScript(station, lines).ok <=>
         \A k \in DOMAIN lines : lines[k].verb \notin {"refused", "unreadable"}
  BY Zenon DEF RunAppScript
<1> QED BY <1>8, <1>9, <1>10, <1>11, <1>12, Zenon

\* The lines a script posts are lines of the app model, and make the same posts.
LEMMA AppLinesPosts ==
  ASSUME TypeInv, NEW n \in Node
  PROVE  /\ AppLines(n) \in Seq(AppInput)
         /\ Mapped(AppLines(n), LinePost) = Kept(script[n], Posters, CommandPost(n))
<1>1. PICK s \in Seq(Command) : s = script[n]
  BY UptoMore
<1>2. DOMAIN s = 1..Len(s) /\ \A i \in 1..Len(s) : s[i] \in Command
  BY LenProperties, ElementOfSeq
<1>3. PICK D : D = {i \in DOMAIN s : s[i].send /\ s[i].kind \in AppKind \cup {"FILE"}}
  BY Zenon
<1>4. D = {i \in DOMAIN s : s[i] \in Posters}
  BY <1>2, <1>3 DEF Posters
<1>5. PICK p \in Seq(Command) : p = Picked(s, D)
  BY PickedType
<1>6. DOMAIN p = 1..Len(p) /\ Len(p) \in Nat
  BY LenProperties
<1>7. \A i \in 1..Len(p) : p[i] \in Posters
  <2>1. ASSUME NEW i \in 1..Len(p) PROVE p[i] \in Posters
    <3>1. PICK k \in 1..Len(s) : k \in D /\ p[i] = s[k]
      BY <1>5, PickedElements
    <3> QED BY <1>4, <3>1
  <2> QED BY <2>1
<1>8. AppLines(n) = [i \in DOMAIN p |->
        [verb |-> IF p[i].kind = "BEACON" THEN "BEACON" ELSE "MAIL",
         call |-> peerCall[n], text |-> p[i].text]]
  BY <1>1, <1>3, <1>5 DEF AppLines
<1>9. PICK l : l = AppLines(n)
  OBVIOUS
<1>10. peerCall[n] \in Call
  BY DEF TypeInv, Setup, peerCall
<1>11. ASSUME NEW i \in 1..Len(p)
       PROVE  l[i] \in AppInput /\ LinePost[l[i]] = CommandPost(n)[p[i]]
  <2>1. /\ p[i] \in Command /\ p[i].kind \in AppKind \cup {"FILE"} /\ p[i].text \in Text
    BY <1>7 DEF Posters, Command, AppKind, Plain
  <2>2. l[i] = [verb |-> IF p[i].kind = "BEACON" THEN "BEACON" ELSE "MAIL",
                call |-> peerCall[n], text |-> p[i].text]
    BY <1>6, <1>8, <1>9
  <2>3. l[i] \in AppInput
    BY <1>10, <2>1, <2>2 DEF AppInput
  <2>4. LinePost[l[i]] = [to |-> IF l[i].verb = "BEACON" THEN NoCall ELSE l[i].call,
                          text |-> l[i].text]
    BY <2>3 DEF LinePost
  <2>5. CommandPost(n)[p[i]] = [to |-> AppAddressee(peerCall[n], p[i].kind), text |-> p[i].text]
    BY <2>1 DEF CommandPost
  <2> QED BY <2>2, <2>3, <2>4, <2>5 DEF AppAddressee
<1>12. l = [i \in 1..Len(p) |-> l[i]]
  BY <1>6, <1>8, <1>9
<1>13. l \in Seq(AppInput) /\ DOMAIN l = 1..Len(p)
  BY <1>6, <1>11, <1>12
<1>14. Mapped(l, LinePost) = Mapped(p, CommandPost(n))
  BY <1>6, <1>11, <1>13 DEF Mapped
<1>15. Kept(s, Posters, CommandPost(n)) = Mapped(p, CommandPost(n))
  BY <1>4, <1>5 DEF Kept
<1> QED BY <1>1, <1>9, <1>13, <1>14, <1>15

\* At first nothing was posted.
LEMMA PostedInit == Init => PostedInv
<1> SUFFICES ASSUME Init, NEW n \in Node PROVE Posted(n)
  BY DEF PostedInv, Node
<1>1. app[n] = NewAppModel /\ results[n] = <<>> /\ phase[n] = "next"
  BY DEF Init
<1>2. PostsOf(app[n], n) = <<>>
  <2>1. NewAppModel \in AppModel /\ NewAppModel.entries = <<>>
    BY EmptySeq DEF NewAppModel, AppModel
  <2> QED BY <1>1, <2>1, PostsKept, KeptEmpty
<1>3. Done(n) = <<>>
  <2>1. Begun(n) = 0
    BY <1>1 DEF Begun, Sends
  <2>2. SubSeq(script[n], 1, 0) = <<>>
    BY SubSeqEmpty
  <2> QED BY <2>1, <2>2 DEF Done
<1> QED BY <1>2, <1>3, KeptEmpty DEF Posted

\* A line that posts adds its post when it begins, and no other step adds one.
LEMMA PostedStep ==
  ASSUME TypeInv, NEW n \in Node, Step(n), NEW w \in Node, Posted(w)
  PROVE  Posted(w)'
<1> SUFFICES ASSUME AllOk(w)'
             PROVE  PostsOf(app[w], w)' = Kept(Done(w)', Posters, CommandPost(w)')
  BY DEF Posted
<1>1. PICK d, g : d = Done(w) /\ g = CommandPost(w)
  OBVIOUS
<1>2. PostsOf(app[w], w) = Kept(d, Posters, g)
  BY <1>1, AllOkStep DEF Posted
<1>3. d \in Seq(Command)
  BY <1>1, LineMore
<1>4. CommandPost(w)' = g
  <2>1. setup' = setup
    BY BeginFacts, FailsFacts, FrameFacts, WrittenFacts, SendFailsFacts, ReadFacts,
       FinishFacts, StepKinds, Zenon
  <2> QED BY <1>1, <2>1 DEF CommandPost, peerCall
<1>5. CASE w = n /\ SendBegin(n)
  <2>1. PICK c : c = Line(n)
    OBVIOUS
  <2>2. Done(w)' = Append(d, c) /\ HasLine(n) /\ c \in Command /\ c.send
    BY <1>1, <1>5, <2>1, DoneStep, BeginFacts, LineFacts
  <2>3. PostsOf(app[w], w)' = IF c.kind \in AppKind \cup {"FILE"}
                              THEN Append(PostsOf(app[w], w),
                                          [to |-> AppAddressee(peerCall[n], c.kind), text |-> c.text])
                              ELSE PostsOf(app[w], w)
    <3>1. app'[n] = AppSent(n, c)
      BY <1>5, <2>1, BeginFacts
    <3>2. PostsOf(app[n], n)' = PostsOf(AppSent(n, c), n)
      BY <3>1
    <3> QED BY <1>5, <2>1, <2>2, <3>2, AppPosts
  <2>4. /\ c \in Posters <=> c.kind \in AppKind \cup {"FILE"}
        /\ g[c] = [to |-> AppAddressee(peerCall[n], c.kind), text |-> c.text]
    BY <1>1, <1>5, <2>2 DEF Posters, CommandPost
  <2>5. /\ c \in Posters => Kept(Append(d, c), Posters, g) = Append(Kept(d, Posters, g), g[c])
        /\ c \notin Posters => Kept(Append(d, c), Posters, g) = Kept(d, Posters, g)
    BY <1>3, <2>2, KeptMore
  <2> QED BY <1>2, <1>4, <2>2, <2>3, <2>4, <2>5
<1>6. CASE ~(w = n /\ SendBegin(n))
  <2>1. PostsOf(app[w], w)' = PostsOf(app[w], w)
    BY <1>6, PostStep
  <2>2. Kept(Done(w)', Posters, g) = Kept(d, Posters, g)
    <3>1. CASE Done(w)' = d
      BY <3>1
    <3>2. CASE Done(w)' # d
      <4>1. PICK c : c = Line(n)
        OBVIOUS
      <4>2. c \in Command /\ ~c.send /\ Done(w)' = Append(d, c)
        BY <1>1, <1>6, <3>2, <4>1, DoneStep, LineFacts
      <4>3. c \notin Posters
        BY <4>2 DEF Posters
      <4> QED BY <1>3, <4>2, <4>3, KeptMore
    <3> QED BY <3>1, <3>2
  <2> QED BY <1>2, <1>4, <2>1, <2>2
<1> QED BY <1>5, <1>6

\* While nothing failed the posts are those of the lines begun.
LEMMA PostedNext == TypeInv /\ PostedInv /\ [Next]_vars => PostedInv'
<1> SUFFICES ASSUME TypeInv, PostedInv, [Next]_vars, NEW w \in Node PROVE Posted(w)'
  BY DEF PostedInv, Node
<1>0. Posted(w)
  BY DEF PostedInv
<1>1. CASE UNCHANGED vars
  <2>1. app' = app /\ Done(w)' = Done(w) /\ CommandPost(w)' = CommandPost(w) /\ results' = results
    BY <1>1 DEF vars, Done, Begun, Sends, script, CommandPost, peerCall
  <2>2. AllOk(w)' <=> AllOk(w)
    BY <2>1 DEF AllOk
  <2>3. PostsOf(app[w], w)' = PostsOf(app[w], w)
    BY <2>1
  <2> QED BY <1>0, <2>1, <2>2, <2>3 DEF Posted
<1>2. ASSUME NEW n \in Node, Step(n) PROVE Posted(w)'
  BY <1>0, <1>2, PostedStep
<1> QED BY <1>1, <1>2 DEF Next, Over

-----------------------------------------------------------------------------
(* Nobody waits for one who waits                                          *)

SayLen(n, k) == Len(Say(n, k))
HearLen(n, k) == Len(Hear(n, k))

\* How many frames the first lines say and hear.
LEMMA SayCounts ==
  ASSUME TypeInv, Agreed(setup), NEW n \in Node
  PROVE  /\ \A k \in 0..Len(script[n]) :
              /\ SayLen(n, k) \in Nat /\ HearLen(n, k) \in Nat
              /\ SayLen(n, k) = HearLen(Peer(n), k) + (IF Crosses(setup, k) /\ k > 0 THEN 1 ELSE 0)
              /\ \A j \in k..Len(script[n]) : HearLen(n, k) <= HearLen(n, j)
         /\ \A k \in 1..Len(script[n]) :
              HearLen(n, k) = HearLen(n, k - 1)
                                + (IF script[n][k].send THEN 0 ELSE FramesLen(script[n][k]))
<1>1. PICK p \in Node : p = Peer(n) /\ Peer(p) = n
  BY Peers
<1>2. /\ Len(script[n]) \in Nat /\ Len(script[p]) = Len(script[n])
      /\ \A k \in 1..Len(script[n]) : script[n][k] \in Command
  BY <1>1, UptoMore, SayHearAll
<1>3. \A k \in 0..Len(script[n]) :
        /\ Say(n, k) \in Seq(Written(n)) /\ Hear(n, k) \in Seq(Written(p))
        /\ Hear(p, k) \in Seq(Written(n))
  <2>1. \A k \in 0..Len(script[n]) : Say(n, k) \in Seq(Written(n)) /\ Hear(n, k) \in Seq(Written(Peer(n)))
    BY SayMore, Zenon
  <2>2. \A k \in 0..Len(script[p]) : Hear(p, k) \in Seq(Written(Peer(p)))
    BY SayMore, Zenon
  <2> QED BY <1>1, <1>2, <2>1, <2>2
<1>4. ASSUME NEW k \in 0..Len(script[n])
      PROVE  SayLen(n, k) \in Nat /\ HearLen(n, k) \in Nat /\ HearLen(p, k) \in Nat
  BY <1>3, LenProperties DEF SayLen, HearLen
<1>5. ASSUME NEW k \in 0..Len(script[n])
      PROVE  SayLen(n, k) = HearLen(p, k) + (IF Crosses(setup, k) /\ k > 0 THEN 1 ELSE 0)
  <2>1. PICK h, r : h = Hear(p, k) /\ r = (IF Crosses(setup, k) /\ k > 0 THEN FramesOf(n, script[n][k])
                                           ELSE <<>>)
    OBVIOUS
  <2>2. Say(n, k) = h \o r
    BY <1>1, <2>1, SayHear, Zenon
  <2>3. r \in Seq(Written(n)) /\ Len(r) = (IF Crosses(setup, k) /\ k > 0 THEN 1 ELSE 0)
    <3>1. CASE Crosses(setup, k) /\ k > 0
      <4>1. k \in 1..Len(script[n])
        BY <1>2, <3>1
      <4>2. script[n][k] \in Command /\ script[n][k].kind \in AppKind \cup {"MSG"}
        BY <3>1, <4>1, AgreedLine
      <4>3. FramesLen(script[n][k]) = 1
        BY <4>2 DEF FramesLen, AppKind
      <4> QED BY <2>1, <3>1, <4>2, <4>3, FramesOfAny, Zenon
    <3>2. CASE ~(Crosses(setup, k) /\ k > 0)
      BY <2>1, <3>2, EmptySeq
    <3> QED BY <3>1, <3>2
  <2>4. Len(h \o r) = Len(h) + Len(r)
    BY <1>3, <2>1, <2>3, ConcatProperties
  <2> QED BY <2>1, <2>2, <2>3, <2>4 DEF SayLen, HearLen
<1>6. ASSUME NEW k \in 0..Len(script[n]), NEW j \in k..Len(script[n])
      PROVE  HearLen(n, k) <= HearLen(n, j)
  BY SayGrows DEF HearLen, Begins
<1>7. ASSUME NEW k \in 1..Len(script[n])
      PROVE  HearLen(n, k) = HearLen(n, k - 1)
                               + (IF script[n][k].send THEN 0 ELSE FramesLen(script[n][k]))
  <2>1. PICK h, r : h = Hear(n, k - 1) /\ r = (IF script[n][k].send THEN <<>>
                                               ELSE FramesOf(p, script[n][k]))
    OBVIOUS
  <2>2. Hear(n, k) = h \o r
    BY <1>1, <2>1, SayMore, Zenon
  <2>3. r \in Seq(Written(p)) /\ Len(r) = (IF script[n][k].send THEN 0 ELSE FramesLen(script[n][k]))
    <3>1. CASE script[n][k].send
      BY <2>1, <3>1, EmptySeq
    <3>2. CASE ~script[n][k].send
      BY <1>2, <2>1, <3>2, FramesOfAny
    <3> QED BY <3>1, <3>2
  <2>4. k - 1 \in 0..Len(script[n])
    BY <1>2
  <2>5. Len(h \o r) = Len(h) + Len(r)
    BY <1>3, <2>1, <2>3, <2>4, ConcatProperties
  <2> QED BY <2>1, <2>2, <2>3, <2>5, Zenon DEF HearLen
<1> QED BY <1>1, <1>4, <1>5, <1>6, <1>7

\* A process waits to read.
Hungry(n) == (Expects(n) \/ phase[n] = "chunks") /\ wire[Peer(n)] = <<>>

\* A process that has read all that was said has heard less than its next line hears.
LEMMA HungryCounts ==
  ASSUME TypeInv, Agreed(setup), \A w \in Node : Goes(w), NEW n \in Node,
         Hungry(n), ~Sends(Peer(n))
  PROVE  /\ HasLine(n) /\ ~Line(n).send
         /\ SayLen(Peer(n), Len(results[Peer(n)])) < HearLen(n, Len(results[n]) + 1)
<1>1. PICK p \in Node : p = Peer(n) /\ Peer(p) = n
  BY Peers
<1>2. HasLine(n) /\ ~Line(n).send /\ ~Sends(n)
  BY DEF Hungry, Expects, Starts, TypeInv, AtHand, Sends
<1>3. PICK k, c, t, a, S : /\ k = Len(results[n]) + 1 /\ c = Line(n) /\ t = transfer[n]
                           /\ a = Hear(n, k - 1) /\ S = Written(p)
  OBVIOUS
<1>4. k \in 1..Len(script[n]) /\ k - 1 \in 0..Len(script[n]) /\ k - 1 = Len(results[n])
      /\ c = script[n][k]
  <2>1. Len(results[n]) \in Nat /\ Len(script[n]) \in Nat /\ Len(results[n]) < Len(script[n])
    BY <1>2, LineMore DEF HasLine
  <2> QED BY <1>3, <2>1 DEF Line
<1>5. c \in Command /\ FramesLen(c) \in Nat \ {0}
  <2>1. c \in Command
    BY <1>2, <1>3, LineFacts
  <2> QED BY <2>1, FramesOfAny
<1>6. t \in Seq(S) /\ Len(t) \in Nat /\ Len(t) < FramesLen(c)
  <2>1. t \in Seq(S)
    BY <1>1, <1>3 DEF TypeInv, NodeOK
  <2>2. CASE phase[n] = "chunks"
    BY <1>3, <2>1, <2>2, LenProperties, Zenon DEF Goes
  <2>3. CASE phase[n] # "chunks"
    <3>1. t = <<>>
      BY <1>3, <2>3 DEF TypeInv, AtHand
    <3> QED BY <1>5, <2>1, <3>1, EmptySeq
  <2> QED BY <2>2, <2>3
<1>7. In(n) = a \o t /\ Len(a \o t) = Len(a) + Len(t) /\ Len(a) = HearLen(n, k - 1)
  <2>1. a \in Seq(S)
    BY <1>1, <1>3, <1>4, SayMore, Zenon
  <2>2. In(n) = a \o t
    BY <1>3, <1>4, Zenon DEF Goes
  <2> QED BY <1>3, <1>6, <2>1, <2>2, ConcatProperties DEF HearLen
<1>8. In(n) = Say(p, Len(results[p]))
  <2>1. Passed(p) = In(n) \o <<>> /\ In(n) \in Seq(S)
    BY <1>1, <1>3, HeardInOrder, StreamType, Zenon DEF Hungry
  <2>2. Passed(p) = In(n)
    BY <2>1, ConcatEmptySeq
  <2>3. Given(p) = Queued(p) /\ Begun(p) = Len(results[p])
    BY <1>1, GivenOfQueued DEF Begun
  <2> QED BY <2>2, <2>3, Zenon DEF Goes
<1>9. HearLen(n, k) = HearLen(n, k - 1) + FramesLen(c) /\ HearLen(n, k - 1) \in Nat
  BY <1>2, <1>3, <1>4, SayCounts, Zenon
<1>10. SayLen(p, Len(results[p])) = HearLen(n, k - 1) + Len(t)
  BY <1>7, <1>8 DEF SayLen
<1>11. SayLen(p, Len(results[p])) < HearLen(n, k)
  BY <1>5, <1>6, <1>9, <1>10
<1> QED BY <1>1, <1>2, <1>3, <1>11

\* A process whose write is not taken has written no more than its line says.
LEMMA BlockedCounts ==
  ASSUME TypeInv, Agreed(setup), \A w \in Node : Goes(w), NEW n \in Node, phase[n] = "blocked"
  PROVE  /\ HasLine(n) /\ Line(n).send /\ Len(wire[n]) \in Nat
         /\ HearLen(Peer(n), Len(results[Peer(n)])) + Len(wire[n]) <= SayLen(n, Len(results[n]) + 1)
<1>1. PICK p \in Node : p = Peer(n) /\ Peer(p) = n
  BY Peers
<1>2. HasLine(n) /\ Line(n).send /\ Sends(n)
  BY DEF TypeInv, AtHand, Sends
<1>3. PICK i, w, a, t, S : /\ i = In(p) /\ w = wire[n] /\ a = Hear(p, Len(results[p]))
                           /\ t = transfer[p] /\ S = Written(n)
  OBVIOUS
<1>4. i \in Seq(S) /\ w \in Seq(S) /\ t \in Seq(S) /\ a \in Seq(S)
  <2>1. t \in Seq(S)
    BY <1>1, <1>3 DEF TypeInv, NodeOK
  <2>2. Len(results[p]) \in 0..Len(script[p])
    <3>1. Len(results[p]) <= Len(script[p]) /\ Len(results[p]) \in Nat /\ Len(script[p]) \in Nat
      BY LineMore DEF TypeInv, AtHand
    <3> QED BY <3>1
  <2>3. a \in Seq(S)
    BY <1>1, <1>3, <2>2, SayMore, Zenon
  <2> QED BY <1>1, <1>3, <2>1, <2>3, StreamType
<1>5. /\ Len(i) = Len(a) + Len(t) /\ Len(i \o w) = Len(i) + Len(w)
      /\ Len(a) \in Nat /\ Len(t) \in Nat /\ Len(i) \in Nat /\ Len(w) \in Nat
  <2>1. i = a \o t
    BY <1>3, Zenon DEF Goes
  <2> QED BY <1>4, <2>1, ConcatProperties, LenProperties
<1>6. Len(i \o w) <= SayLen(n, Len(results[n]) + 1)
  <2>1. Passed(n) = i \o w
    BY <1>1, <1>3 DEF Passed
  <2>2. Passed(n) = Given(n) /\ Queued(n) = Say(n, Len(results[n]) + 1)
    BY <1>2, Zenon DEF Goes, Begun
  <2>3. Len(Given(n)) <= Len(Queued(n))
    BY GivenOfQueued DEF Begins
  <2> QED BY <2>1, <2>2, <2>3 DEF SayLen
<1>7. Len(a) = HearLen(p, Len(results[p]))
  BY <1>3 DEF HearLen
<1>8. Len(results[n]) + 1 \in 0..Len(script[n])
  BY <1>2, LineMore DEF HasLine
<1>9. SayLen(n, Len(results[n]) + 1) \in Nat
  BY <1>8, SayCounts
<1> QED BY <1>1, <1>2, <1>3, <1>5, <1>6, <1>7, <1>9

\* Not both wait to read: the one that is not ahead was told enough.
LEMMA NotBothHungry ==
  ASSUME TypeInv, Agreed(setup), \A w \in Node : Goes(w), NEW n \in Node,
         Hungry(n), Hungry(Peer(n)), Len(results[n]) <= Len(results[Peer(n)])
  PROVE  FALSE
<1>1. PICK p \in Node : p = Peer(n) /\ Peer(p) = n
  BY Peers
<1>2. ~Sends(n) /\ ~Sends(p)
  BY <1>1 DEF Hungry, Expects, Starts, Sends
<1>3. PICK N, j, k : N = Len(script[n]) /\ j = Len(results[n]) /\ k = Len(results[p])
  BY Zenon
<1>4. /\ HasLine(n) /\ ~Line(n).send /\ HasLine(p) /\ ~Line(p).send
      /\ SayLen(p, k) < HearLen(n, j + 1)
  BY <1>1, <1>2, <1>3, HungryCounts
<1>5. Len(script[p]) = N /\ N \in Nat /\ j \in Nat /\ k \in Nat /\ j < N /\ k < N /\ j <= k
  <2>1. Len(script[p]) = N
    BY <1>1, <1>3, SayHearAll
  <2> QED BY <1>1, <1>3, <1>4, <2>1, LineMore DEF HasLine
<1>6. /\ SayLen(p, k) = HearLen(n, k) + (IF Crosses(setup, k) /\ k > 0 THEN 1 ELSE 0)
      /\ HearLen(n, k) \in Nat /\ HearLen(n, j + 1) \in Nat
      /\ j + 1 <= k => HearLen(n, j + 1) <= HearLen(n, k)
  <2>1. k \in 0..N /\ j + 1 \in 0..N
    BY <1>5
  <2>2. SayLen(p, k) = HearLen(Peer(p), k) + (IF Crosses(setup, k) /\ k > 0 THEN 1 ELSE 0)
    BY <1>5, <2>1, SayCounts
  <2>3. HearLen(n, k) \in Nat /\ HearLen(n, j + 1) \in Nat
    BY <1>3, <2>1, SayCounts, Zenon
  <2>4. ASSUME j + 1 <= k PROVE HearLen(n, j + 1) <= HearLen(n, k)
    <3>1. k \in (j + 1)..Len(script[n]) /\ j + 1 \in 0..Len(script[n])
      BY <1>3, <1>5, <2>4
    <3> QED BY <3>1, SayCounts
  <2> QED BY <1>1, <2>2, <2>3, <2>4
<1>7. CASE j < k
  <2>1. j + 1 <= k
    BY <1>5, <1>7
  <2>2. HearLen(n, k) <= SayLen(p, k)
    BY <1>6
  <2> QED BY <1>4, <1>6, <2>1, <2>2
<1>8. CASE j = k
  <2>1. k + 1 \in 1..Len(script[n]) /\ k + 1 \in 1..Len(script[p]) /\ k + 1 - 1 = k
    BY <1>3, <1>5
  <2>2. ~script[n][k + 1].send /\ ~script[p][k + 1].send
    BY <1>3, <1>4, <1>8 DEF Line
  <2>3. Second(k + 1)
    <3>1. ~Crosses(setup, k + 1)
      BY <2>1, <2>2, AgreedLine
    <3> QED BY <1>1, <2>1, <2>2, <3>1, AgreedLine
  <2>4. Crosses(setup, k) /\ k > 0
    BY <1>5, <2>1, <2>3 DEF Second
  <2>5. FramesLen(script[n][k + 1]) = 1
    <3>1. PICK q \in 1..Len(script[p]) : q = k + 1
      BY <2>1
    <3>2. script[p][q - 1].kind = script[Peer(p)][q].kind /\ script[p][q - 1].kind \in AppKind \cup {"MSG"}
      BY <2>3, <3>1, AgreedLine
    <3>3. script[n][k + 1].kind \in AppKind \cup {"MSG"}
      BY <1>1, <3>1, <3>2
    <3> QED BY <3>3 DEF FramesLen, AppKind
  <2>6. HearLen(n, k + 1) = HearLen(n, k + 1 - 1) + 1
    <3>1. PICK q \in 1..Len(script[n]) : q = k + 1 /\ q - 1 = k
      BY <1>5, <2>1
    <3>2. HearLen(n, q) = HearLen(n, q - 1) + (IF script[n][q].send THEN 0 ELSE FramesLen(script[n][q]))
      BY SayCounts
    <3> QED BY <2>2, <2>5, <3>1, <3>2
  <2>7. SayLen(p, k) = HearLen(n, k) + 1
    BY <1>6, <2>4
  <2>8. HearLen(n, k + 1) = SayLen(p, k)
    BY <2>1, <2>6, <2>7
  <2> QED BY <1>4, <1>6, <1>8, <2>7, <2>8
<1> QED BY <1>5, <1>7, <1>8

\* Not both wait to write: of the one that is not ahead the other one has read all but
\* what crosses.
LEMMA NotBothBlocked ==
  ASSUME TypeInv, Agreed(setup), RoomToCross(setup), \A w \in Node : Goes(w), NEW n \in Node,
         phase[n] = "blocked", Len(wire[n]) > setup.capacity, phase[Peer(n)] = "blocked",
         Len(results[n]) <= Len(results[Peer(n)])
  PROVE  FALSE
<1>1. PICK p \in Node : p = Peer(n) /\ Peer(p) = n
  BY Peers
<1>2. PICK N, j, k, w : N = Len(script[n]) /\ j = Len(results[n]) /\ k = Len(results[p])
                        /\ w = Len(wire[n])
  BY Zenon
<1>3. /\ HasLine(n) /\ Line(n).send /\ HasLine(p) /\ Line(p).send /\ w \in Nat
      /\ HearLen(p, k) + w <= SayLen(n, j + 1)
  BY <1>1, <1>2, BlockedCounts
<1>4. Len(script[p]) = N /\ N \in Nat /\ j \in Nat /\ k \in Nat /\ j < N /\ k < N /\ j <= k
  <2>1. Len(script[p]) = N
    BY <1>1, <1>2, SayHearAll
  <2> QED BY <1>1, <1>2, <1>3, <2>1, LineMore DEF HasLine
<1>5. setup.capacity \in Nat /\ w > setup.capacity
  BY <1>2 DEF TypeInv, Setup
<1>6. j + 1 \in 0..Len(script[n]) /\ j + 1 > 0
  BY <1>2, <1>4
<1>7. SayLen(n, j + 1) = HearLen(p, j + 1) + (IF Crosses(setup, j + 1) THEN 1 ELSE 0)
  <2>1. SayLen(n, j + 1) = HearLen(Peer(n), j + 1)
                             + (IF Crosses(setup, j + 1) /\ j + 1 > 0 THEN 1 ELSE 0)
    BY <1>6, SayCounts
  <2> QED BY <1>1, <1>6, <2>1
<1>8. HearLen(p, j + 1) <= HearLen(p, k) /\ HearLen(p, k) \in Nat /\ HearLen(p, j + 1) \in Nat
  <2>1. HearLen(p, k) \in Nat /\ HearLen(p, j + 1) \in Nat
    <3>1. k \in 0..Len(script[p]) /\ j + 1 \in 0..Len(script[p])
      BY <1>4
    <3> QED BY <3>1, SayCounts
  <2>2. CASE j < k
    <3>1. k \in (j + 1)..Len(script[p]) /\ j + 1 \in 0..Len(script[p])
      BY <1>4, <2>2
    <3> QED BY <2>1, <3>1, SayCounts
  <2>3. CASE j = k
    <3>1. k + 1 \in 1..Len(script[p]) /\ k + 1 - 1 = k /\ script[p][k + 1].send
      BY <1>2, <1>3, <1>4 DEF Line
    <3>2. PICK q \in 1..Len(script[p]) : q = k + 1 /\ q - 1 = k
      BY <1>4, <3>1
    <3>3. HearLen(p, q) = HearLen(p, q - 1) + (IF script[p][q].send THEN 0 ELSE FramesLen(script[p][q]))
      BY SayCounts
    <3> QED BY <2>1, <2>3, <3>1, <3>2, <3>3
  <2> QED BY <1>4, <2>1, <2>2, <2>3
<1>9. Crosses(setup, j + 1) /\ setup.capacity = 0
  BY <1>3, <1>5, <1>7, <1>8
<1>10. InTurns(setup)
  BY <1>9 DEF RoomToCross
<1>11. j + 1 \in DOMAIN setup.script[A]
  <2>1. A \in Node /\ DOMAIN script[A] = 1..Len(script[A]) /\ (A = n \/ A = p)
    BY <1>1, UptoMore DEF Node, Peer
  <2> QED BY <1>2, <1>4, <2>1 DEF script
<1> QED BY <1>9, <1>10, <1>11 DEF InTurns

\* The two processes do not wait for each other.
LEMMA NoneWaits ==
  ASSUME TypeInv, Agreed(setup), RoomToCross(setup), \A w \in Node : Goes(w)
  PROVE  ~\A n \in Node : Waits(n)
<1> SUFFICES ASSUME \A n \in Node : Waits(n) PROVE FALSE
  OBVIOUS
<1>1. PICK n, p \in Node :
        n = Peer(p) /\ p = Peer(n) /\ Len(results[n]) <= Len(results[p])
  <2>1. PICK m \in Node : m = A
    BY DEF Node
  <2>2. Peer(m) \in Node /\ Peer(Peer(m)) = m
    BY Peers
  <2>3. Len(results[m]) \in Nat /\ Len(results[Peer(m)]) \in Nat
    BY <2>2, LineMore
  <2>4. Len(results[m]) <= Len(results[Peer(m)]) \/ Len(results[Peer(m)]) <= Len(results[m])
    BY <2>3
  <2> QED BY <2>2, <2>4
<1>2. ASSUME NEW m \in Node
      PROVE  Hungry(m) \/ (phase[m] = "blocked" /\ Len(wire[m]) > setup.capacity)
  BY DEF Waits, Hungry
<1>3. ASSUME NEW m \in Node, Hungry(m), Len(wire[Peer(m)]) > setup.capacity
      PROVE  FALSE
  <2>1. Len(wire[Peer(m)]) = 0
    BY <1>3 DEF Hungry
  <2>2. setup.capacity \in Nat
    BY DEF TypeInv, Setup
  <2> QED BY <1>3, <2>1, <2>2
<1>4. CASE Hungry(n) /\ Hungry(p)
  BY <1>1, <1>4, NotBothHungry
<1>5. CASE phase[n] = "blocked" /\ Len(wire[n]) > setup.capacity /\ phase[p] = "blocked"
  BY <1>1, <1>5, NotBothBlocked
<1> QED BY <1>1, <1>2, <1>3, <1>4, <1>5

-----------------------------------------------------------------------------
(* What a conversation leaves                                              *)

\* The lines leave both stations in a session or neither.
LEMMA SessionOfBoth ==
  ASSUME TypeInv, Agreed(setup), NEW n \in Node
  PROVE  \A k \in 0..Len(script[n]) :
           InSession(script[n], k + 1) <=> InSession(script[Peer(n)], k + 1)
<1>1. PICK p \in Node : p = Peer(n) /\ Peer(p) = n
  BY Peers
<1>2. PICK s, t : s = script[n] /\ t = script[p]
  OBVIOUS
<1>3. Len(s) \in Nat /\ Len(t) = Len(s)
  BY <1>1, <1>2, UptoMore, SayHearAll
<1> DEFINE P == {k \in 0..Len(s) : InSession(s, k + 1) <=> InSession(t, k + 1)}
<1>4. 0 \in P
  <2>1. ~InSession(s, 0 + 1) /\ ~InSession(t, 0 + 1)
    BY SessionMore
  <2> QED BY <1>3, <2>1
<1>5. ASSUME NEW k \in 1..Len(s), k - 1 \in P
      PROVE  k \in P
  <2>1. k \in Nat \ {0} /\ k \in 0..Len(s) /\ k \in 1..Len(t) /\ k - 1 + 1 = k
    BY <1>3
  <2>2. /\ s[k].kind = "CONNECT" <=> t[k].kind = "CONNECT"
        /\ s[k].kind = "DISCONNECT" <=> t[k].kind = "DISCONNECT"
    <3>1. CASE Crosses(setup, k)
      <4>1. s[k].kind \in AppKind \cup {"MSG"} /\ t[k].kind \in AppKind \cup {"MSG"}
        BY <1>2, <2>1, <3>1, AgreedLine
      <4> QED BY <4>1 DEF AppKind
    <3>2. CASE Second(k)
      <4>1. /\ s[k - 1].kind = t[k].kind /\ s[k - 1].kind \in AppKind \cup {"MSG"}
        BY <1>1, <1>2, <3>2, AgreedLine
      <4>2. t[k - 1].kind = s[k].kind /\ t[k - 1].kind \in AppKind \cup {"MSG"}
        BY <1>1, <1>2, <2>1, <3>2, AgreedLine
      <4> QED BY <4>1, <4>2 DEF AppKind
    <3>3. CASE ~Crosses(setup, k) /\ ~Second(k)
      <4>1. s[k].kind = t[k].kind
        BY <1>1, <1>2, <3>3, AgreedLine
      <4> QED BY <4>1
    <3> QED BY <3>1, <3>2, <3>3
  <2>3. InSession(s, k) <=> InSession(t, k)
    BY <1>5, <2>1
  <2>4. InSession(s, k + 1) <=> \/ s[k].kind = "CONNECT"
                                \/ s[k].kind # "DISCONNECT" /\ InSession(s, k)
    BY <2>1, SessionMore, Zenon
  <2>5. InSession(t, k + 1) <=> \/ t[k].kind = "CONNECT"
                                \/ t[k].kind # "DISCONNECT" /\ InSession(t, k)
    BY <2>1, SessionMore
  <2> QED BY <2>1, <2>2, <2>3, <2>4, <2>5
<1>6. 0..Len(s) \subseteq P
  <2> HIDE DEF P
  <2> QED BY <1>3, <1>4, <1>5, UptoInduction, Zenon
<1> QED BY <1>1, <1>2, <1>6

\* A process that has ended has read what all lines hear, written what they say, and has
\* the session and log of the fake backend.
LEMMA EndedConversation ==
  ASSUME TypeInv, Agreed(setup), \A w \in Node : Goes(w), AllEnded, NEW n \in Node
  PROVE  /\ In(n) = Out(Peer(n))
         /\ chat[n] = FakeAt(n, Len(script[n])).chat
<1>1. PICK p \in Node : p = Peer(n) /\ Peer(p) = n
  BY Peers
<1>2. ASSUME NEW m \in Node
      PROVE  ~HasLine(m) /\ ~Sends(m) /\ Len(results[m]) = Len(script[m])
  <2>1. ~HasLine(m) /\ ~Sends(m) /\ Len(results[m]) <= Len(script[m])
    BY DEF AllEnded, Ended, TypeInv, AtHand, Sends
  <2> QED BY <2>1, LineMore DEF HasLine
<1>3. In(n) = Hear(n, Len(script[n]))
  BY <1>2, NothingLeft
<1>4. Out(p) = Say(p, Len(script[n]))
  <2>1. Begun(p) = Len(script[n])
    BY <1>1, <1>2, SayHearAll DEF Begun
  <2>2. Queued(p) = Out(p)
    BY EndedFacts DEF AllEnded
  <2> QED BY <2>1, <2>2, Zenon DEF Goes
<1>5. Say(p, Len(script[n])) = Hear(n, Len(script[n]))
  BY <1>1, SayHearAll
<1>6. Applied(n) = Len(script[n])
  BY <1>2 DEF Applied
<1> QED BY <1>1, <1>3, <1>4, <1>5, <1>6, Zenon DEF Goes

\* All that was written was read.
LEMMA EndedRead ==
  ASSUME TypeInv, Agreed(setup), \A w \in Node : Goes(w), AllEnded
  PROVE  AllRead
<1>1. ASSUME NEW n \in Node PROVE Len(packets[n].out) = Len(packets[Peer(n)].in)
  <2>1. Peer(n) \in Node /\ Peer(Peer(n)) = n
    BY Peers
  <2>2. In(Peer(n)) = Out(n)
    BY <2>1, EndedConversation
  <2> QED BY <2>1, <2>2, InFacts
<1> QED BY <1>1 DEF AllRead

\* Both sessions are in one state.
LEMMA EndedAgree ==
  ASSUME TypeInv, Agreed(setup), \A w \in Node : Goes(w), AllEnded
  PROVE  SessionsAgree
<1>1. ASSUME NEW n \in Node
      PROVE  chat[n].peer = Peer(n) <=> InSession(script[n], Len(script[n]) + 1)
  <2>1. chat[n] = FakeAt(n, Len(script[n])).chat
    BY EndedConversation
  <2>2. Len(script[n]) \in 0..Len(script[n])
    BY UptoMore
  <2>3. FakeAt(n, Len(script[n])).chat.peer
          = IF InSession(script[n], Len(script[n]) + 1) THEN Peer(n) ELSE NoCall
    BY <2>2, FakeHolds
  <2>4. Peer(n) # NoCall
    BY Peers, ChatAssumption
  <2> QED BY <2>1, <2>3, <2>4
<1>2. ASSUME NEW n \in Node PROVE chat[n].peer = Peer(n) <=> chat[Peer(n)].peer = n
  <2>1. Peer(n) \in Node /\ Peer(Peer(n)) = n /\ Len(script[Peer(n)]) = Len(script[n])
    BY Peers, SayHearAll
  <2>2. Len(script[n]) \in 0..Len(script[n])
    BY UptoMore
  <2>3. InSession(script[n], Len(script[n]) + 1) <=> InSession(script[Peer(n)], Len(script[n]) + 1)
    BY <2>2, SessionOfBoth
  <2>4. chat[Peer(n)].peer = n <=> InSession(script[Peer(n)], Len(script[n]) + 1)
    BY <1>1, <2>1
  <2> QED BY <1>1, <2>3, <2>4
<1> QED BY <1>2 DEF SessionsAgree

\* Each line of the log names the other station and reads as its message.
LEMMA EndedLog ==
  ASSUME TypeInv, Agreed(setup), \A w \in Node : Goes(w), AllEnded, NEW n \in Node
  PROVE  LET s == chat[n].messages
             x == LogOf(n)
         IN  /\ s = FakeAt(n, Len(script[n])).chat.messages
             /\ s \in Seq(Message) /\ x \in Seq(LogLine) /\ Len(x) = Len(s)
             /\ \A i \in 1..Len(s) :
                  /\ x[i].verb = IF s[i].direction = "Outbound" THEN "OUT" ELSE "IN"
                  /\ x[i].call = Peer(n) /\ x[i].text = s[i].text
                  /\ Between(n, s[i])
<1>1. PICK s, x : s = chat[n].messages /\ x = LogOf(n)
  OBVIOUS
<1>2. s = FakeAt(n, Len(script[n])).chat.messages
  BY <1>1, EndedConversation
<1>3. /\ s \in Seq(Message) /\ x \in Seq(LogLine) /\ Len(x) = Len(s)
      /\ \A i \in 1..Len(s) : x[i] = NormalizedLogLine(n, s[i])
  BY <1>1, LogFacts
<1>4. \A i \in 1..Len(s) : Between(n, s[i])
  <2>1. Len(script[n]) \in 0..Len(script[n])
    BY UptoMore
  <2> QED BY <1>2, <2>1, AllBetween
<1>5. ASSUME NEW i \in 1..Len(s)
      PROVE  /\ x[i].verb = IF s[i].direction = "Outbound" THEN "OUT" ELSE "IN"
             /\ x[i].call = Peer(n) /\ x[i].text = s[i].text
  <2>1. PICK m : m = s[i]
    OBVIOUS
  <2>2. x[i] = NormalizedLogLine(n, m) /\ Between(n, m) /\ Peer(n) # n
    BY <1>3, <1>4, <2>1, Peers
  <2> QED BY <2>1, <2>2 DEF NormalizedLogLine, Between
<1> QED BY <1>1, <1>2, <1>3, <1>4, <1>5

\* The log of a station is what the fake backend logs of its lines.
LEMMA EndedFake ==
  ASSUME TypeInv, Agreed(setup), \A w \in Node : Goes(w), AllEnded, NEW n \in Node
  PROVE  CompareFakeScriptToSimpleLog(n, FakeLines(n), LogOf(n))
<1>1. PICK s, x, e, o : /\ s = chat[n].messages /\ x = LogOf(n)
                        /\ e = RunFakeScript(n, FakeLines(n)) /\ o = ParseSimpleLog(n, x)
  OBVIOUS
<1>2. /\ s = FakeAt(n, Len(script[n])).chat.messages
      /\ s \in Seq(Message) /\ x \in Seq(LogLine) /\ Len(x) = Len(s)
      /\ \A i \in 1..Len(s) :
           /\ x[i].verb = IF s[i].direction = "Outbound" THEN "OUT" ELSE "IN"
           /\ x[i].call = Peer(n) /\ x[i].text = s[i].text
           /\ Between(n, s[i])
  BY <1>1, EndedLog
<1>3. Len(s) \in Nat /\ DOMAIN s = 1..Len(s)
  BY <1>2, LenProperties
<1>4. e.ok /\ e.station = n /\ e.messages = s
  <2>1. FakeScriptRun(n, FakeLines(n)) = FakeAt(n, Len(script[n]))
    BY FakeLinesKept, UptoMore DEF FakeAt
  <2>2. Len(script[n]) \in 0..Len(script[n])
    BY UptoMore
  <2>3. FakeAt(n, Len(script[n])).ok
    BY <2>2, FakeHolds
  <2>4. e.ok = FakeScriptRun(n, FakeLines(n)).ok
    BY <1>1, Zenon DEF RunFakeScript
  <2>5. e.station = n /\ e.messages = FakeScriptRun(n, FakeLines(n)).chat.messages
    BY <1>1 DEF RunFakeScript
  <2>6. e.ok
    BY <2>1, <2>3, <2>4, Zenon
  <2> QED BY <1>2, <2>1, <2>5, <2>6
<1>5. n \in Call
  BY Peers
<1>6. /\ o.station = n
      /\ o.ok <=> \A i \in 1..Len(x) : Readable(x[i])
      /\ o.ok => o.messages = [i \in 1..Len(x) |-> ParseSimpleLogLine(n, i, x[i])]
  BY <1>1, <1>2, <1>5, ParseFacts, Zenon
<1>7. o.ok
  <2>1. \A i \in 1..Len(x) : Readable(x[i])
    BY <1>2 DEF Readable
  <2> QED BY <1>6, <2>1
<1>8. PICK t : t = o.messages
  OBVIOUS
<1>9. DOMAIN t = DOMAIN s /\ \A i \in 1..Len(s) : t[i] = ParseSimpleLogLine(n, i, x[i])
  BY <1>2, <1>3, <1>6, <1>7, <1>8
<1>10. ASSUME NEW i \in 1..Len(s)
       PROVE  /\ s[i].direction = t[i].direction /\ s[i].from = t[i].from
              /\ s[i].to = t[i].to /\ s[i].text = t[i].text
  <2>1. PICK m, l : m = s[i] /\ l = x[i]
    OBVIOUS
  <2>2. /\ l.verb = IF m.direction = "Outbound" THEN "OUT" ELSE "IN"
        /\ l.call = Peer(n) /\ l.text = m.text /\ Between(n, m)
        /\ t[i] = ParseSimpleLogLine(n, i, l)
    BY <1>2, <1>9, <2>1
  <2> QED BY <2>1, <2>2 DEF ParseSimpleLogLine, Between
<1>11. Mismatches(s, t, FALSE) = {}
  <2>1. ASSUME NEW d \in FieldMismatches(s, t, FALSE) PROVE FALSE
    <3>1. /\ d.index \in 1..Len(s) /\ d.field \in {"direction", "from", "to", "text"}
          /\ Differs(s[d.index], t[d.index], d.field, FALSE)
      BY <1>3, <1>9, Zenon DEF FieldMismatches
    <3>2. s[d.index][d.field] # t[d.index][d.field]
      BY <3>1 DEF Differs
    <3> QED BY <1>10, <3>1, <3>2
  <2>2. FieldMismatches(s, t, FALSE) = {}
    BY <2>1, Zenon
  <2>3. [index : (DOMAIN s \ DOMAIN t) \cup (DOMAIN t \ DOMAIN s), field : {"message"}] = {}
    <3>1. (DOMAIN s \ DOMAIN t) \cup (DOMAIN t \ DOMAIN s) = {}
      BY <1>9
    <3>2. \A S : S = {} => [index : S, field : {"message"}] = {}
      OBVIOUS
    <3> QED BY <3>1, <3>2
  <2> QED BY <2>2, <2>3, Zenon DEF Mismatches
<1>12. CompareChatTranscripts(e, o) = {}
  BY <1>4, <1>6, <1>8, <1>11, Zenon DEF CompareChatTranscripts, StationMismatch
<1> QED BY <1>1, <1>4, <1>7, <1>12, Zenon DEF CompareFakeScriptToSimpleLog

\* A station's posts are what the app model makes of its lines.
LEMMA EndedPosts ==
  ASSUME TypeInv, PostedInv, NEW n \in Node, AllOk(n), Ended(n)
  PROVE  LET posted == RunAppScript(n, AppLines(n))
         IN  posted.ok /\ PostsOf(posted.state, n) = PostsOf(app[n], n)
<1>1. PICK l \in Seq(AppInput) : l = AppLines(n)
  BY AppLinesPosts
<1>2. RunAppScript(n, l).ok /\ PostsOf(RunAppScript(n, l).state, n) = Mapped(l, LinePost)
  BY Peers, AppRunPosts
<1>3. Mapped(l, LinePost) = Kept(script[n], Posters, CommandPost(n))
  BY <1>1, AppLinesPosts
<1>4. PostsOf(app[n], n) = Kept(script[n], Posters, CommandPost(n))
  BY EndedFacts DEF PostedInv, Posted
<1> QED BY <1>1, <1>2, <1>3, <1>4

\* Logs of stations that took turns mirror each other.
LEMMA EndedMirror ==
  ASSUME TypeInv, Agreed(setup), \A w \in Node : Goes(w), AllEnded, InTurns(setup)
  PROVE  MatchesPeerLog(A, LogOf(A))
<1>1. PICK n, p \in Node : n = A /\ p = Peer(n) /\ Peer(p) = n /\ n # p
  <2>1. A \in Node
    BY DEF Node
  <2> QED BY <2>1, Peers
<1>2. PICK s, t, x, y : /\ s = chat[n].messages /\ t = chat[p].messages
                        /\ x = LogOf(n) /\ y = LogOf(p)
  OBVIOUS
<1>3. /\ s = FakeAt(n, Len(script[n])).chat.messages
      /\ s \in Seq(Message) /\ x \in Seq(LogLine) /\ Len(x) = Len(s)
      /\ \A i \in 1..Len(s) :
           /\ x[i].verb = IF s[i].direction = "Outbound" THEN "OUT" ELSE "IN"
           /\ x[i].call = p /\ x[i].text = s[i].text
  BY <1>1, <1>2, EndedLog
<1>4. /\ t = FakeAt(p, Len(script[p])).chat.messages
      /\ t \in Seq(Message) /\ y \in Seq(LogLine) /\ Len(y) = Len(t)
      /\ \A i \in 1..Len(t) :
           /\ y[i].verb = IF t[i].direction = "Outbound" THEN "OUT" ELSE "IN"
           /\ y[i].call = n /\ y[i].text = t[i].text
  BY <1>1, <1>2, EndedLog
<1>5. /\ Len(s) = Len(t)
      /\ \A i \in 1..Len(s) : /\ s[i].text = t[i].text
                              /\ s[i].direction = "Outbound" <=> t[i].direction # "Outbound"
  <2>1. PICK k : k = Len(script[n]) /\ k \in 0..Len(script[n]) /\ k = Len(script[p])
    BY <1>1, UptoMore, SayHearAll
  <2>2. s = FakeAt(n, k).chat.messages /\ t = FakeAt(Peer(n), k).chat.messages
    BY <1>1, <1>3, <1>4, <2>1
  <2>3. LET u == FakeAt(n, k).chat.messages
            v == FakeAt(Peer(n), k).chat.messages
        IN  /\ Len(u) = Len(v)
            /\ \A i \in 1..Len(u) : /\ u[i].text = v[i].text
                                    /\ u[i].direction = "Outbound" <=> v[i].direction # "Outbound"
    BY <2>1, TurnsMirror, Zenon
  <2> QED BY <2>2, <2>3
<1>6. Mirrors(n, x, p, y)
  <2>1. ASSUME NEW i \in 1..Len(x)
        PROVE  /\ Readable(x[i]) /\ Readable(y[i]) /\ (x[i].verb = "OUT" <=> y[i].verb # "OUT")
               /\ x[i].call = p /\ y[i].call = n /\ x[i].text = y[i].text
    <3>1. i \in 1..Len(s) /\ i \in 1..Len(t)
      BY <1>3, <1>5
    <3>2. x[i].verb = (IF s[i].direction = "Outbound" THEN "OUT" ELSE "IN")
          /\ y[i].verb = (IF t[i].direction = "Outbound" THEN "OUT" ELSE "IN")
      BY <1>3, <1>4, <3>1
    <3> QED BY <1>3, <1>4, <1>5, <3>1, <3>2, ZenonT(60) DEF Readable
  <2> QED BY <1>3, <1>4, <1>5, <2>1 DEF Mirrors
<1>7. n \in Call /\ p \in Call
  BY Peers
<1>8. ComparePeerLogs(n, x, p, y)
  BY <1>1, <1>3, <1>4, <1>6, <1>7, ComparesMirrors
<1> QED BY <1>1, <1>2, <1>8 DEF MatchesPeerLog

\* What a conversation keeps to is what it is to hold.
LEMMA ConversationOfInv == TypeInv /\ ConversationInv /\ PostedInv => ConversationHolds
<1> SUFFICES ASSUME TypeInv, ConversationInv, PostedInv, Agreed(setup), faults = 0
             PROVE  /\ NoneFailed
                    /\ RoomToCross(setup) => ~\A n \in Node : Waits(n)
                    /\ AllEnded =>
                         /\ AllRead /\ SessionsAgree
                         /\ \A n \in Node :
                              /\ CompareFakeScriptToSimpleLog(n, FakeLines(n), LogOf(n))
                              /\ LET posted == RunAppScript(n, AppLines(n))
                                 IN posted.ok /\ PostsOf(posted.state, n) = PostsOf(app[n], n)
                         /\ InTurns(setup) => MatchesPeerLog(A, LogOf(A))
  BY DEF ConversationHolds
<1>1. \A w \in Node : Goes(w)
  BY DEF ConversationInv, Calm
<1>2. NoneFailed
  <2>1. ASSUME NEW n \in Node, NEW i \in DOMAIN results[n] PROVE results[n][i]
    <3>1. results[n] \in Seq(BOOLEAN)
      BY DEF TypeInv, NodeOK
    <3>2. i \in 1..Len(results[n])
      BY <3>1, LenProperties
    <3> QED BY <1>1, <3>2, Zenon DEF Goes, AllOk
  <2> QED BY <2>1 DEF NoneFailed
<1>3. RoomToCross(setup) => ~\A n \in Node : Waits(n)
  BY <1>1, NoneWaits
<1>4. ASSUME AllEnded
      PROVE  /\ AllRead /\ SessionsAgree
             /\ \A n \in Node : CompareFakeScriptToSimpleLog(n, FakeLines(n), LogOf(n))
             /\ InTurns(setup) => MatchesPeerLog(A, LogOf(A))
  BY <1>1, <1>4, EndedRead, EndedAgree, EndedFake, EndedMirror
<1>5. ASSUME AllEnded, NEW n \in Node
      PROVE  LET posted == RunAppScript(n, AppLines(n))
             IN posted.ok /\ PostsOf(posted.state, n) = PostsOf(app[n], n)
  <2>1. AllOk(n) /\ Ended(n)
    BY <1>1, <1>5, Zenon DEF Goes, AllEnded
  <2> QED BY <2>1, EndedPosts
<1> QED BY <1>2, <1>3, <1>4, <1>5

\* Two scripts that are the two sides of one conversation, whatever it is, fail nothing
\* but for what their commands contain, never wait for each other where the sockets take
\* what crosses, and end with everything read, both sessions in one state, and logs and
\* posts that the fake backend, the app model and, if they took turns,
\* compare-session-logs pass.
THEOREM ConversationRight == Spec => []ConversationHolds
<1>1. Init => TypeInv /\ ChainInv /\ SavedInv /\ ConversationInv /\ PostedInv
  BY InitType, ChainInit, SavedInit, ConversationInit, PostedInit
<1>2. TypeInv /\ ChainInv /\ SavedInv /\ ConversationInv /\ PostedInv /\ [Next]_vars
        => (TypeInv /\ ChainInv /\ SavedInv /\ ConversationInv /\ PostedInv)'
  BY NextType, ChainNext, SavedNext, ConversationNext, PostedNext
<1>3. TypeInv /\ ConversationInv /\ PostedInv => ConversationHolds
  BY ConversationOfInv
<1> QED BY <1>1, <1>2, <1>3, PTL DEF Spec
=============================================================================
