----------------------------- MODULE AppProofs -----------------------------
(***************************************************************************)
(* What AppLink guarantees for payloads of any length, packets of any      *)
(* size, any number of retries and of processes.                           *)
(***************************************************************************)
EXTENDS AppLink, SubsequenceProofs, SequenceTheorems, FiniteSetTheorems, TLAPS

-----------------------------------------------------------------------------
(* The packets                                                             *)

\* The chunks of a payload are payloads, their number a number.
LEMMA ChunkType ==
  ASSUME NEW ps \in Payload, NEW i \in Nat
  PROVE  Chunk(ps, i) \in Payload /\ Total(ps) \in Nat
<1>1. ChunkBytes \in Nat \ {0}
  BY PacketAssumption
<1> DEFINE from == i * ChunkBytes + 1
           to == IF (i + 1) * ChunkBytes < Len(ps) THEN (i + 1) * ChunkBytes ELSE Len(ps)
<1>2. from \in 1..(to + 1) \/ to < from
  BY <1>1
<1>3. Chunk(ps, i) = SubSeq(ps, from, to)
  BY DEF Chunk
<1>4. from \in Nat /\ from >= 1 /\ to \in Nat /\ to <= Len(ps)
  BY <1>1 DEF Payload
<1> HIDE DEF from, to
<1>5. SubSeq(ps, from, to) \in Seq(Byte)
  BY <1>4 DEF Payload
<1>6. Total(ps) \in Nat
  BY <1>1 DEF Total, Payload
<1>7. QED
  BY <1>3, <1>5, <1>6 DEF Payload

\* Every packet a station builds is a packet with its next number.
LEMMA BaseType ==
  ASSUME NEW s \in ProtocolState, NEW kind \in Kind
  PROVE  /\ BasePacket(s, kind, Peer) \in Packet
         /\ BasePacket(s, kind, Peer).id = <<s.call, s.next>>
<1>1. Peer \in Call /\ <<>> \in Payload
  BY LinkAssumption DEF Payload
<1>2. NextId(s) \in PacketId /\ s.call \in Call
  BY DEF NextId, PacketId, ProtocolState
<1>3. QED
  BY <1>1, <1>2 DEF BasePacket, Packet, NextId

LEMMA AdvancedType ==
  ASSUME NEW s \in ProtocolState, NEW n \in Nat
  PROVE  /\ Advanced(s, n) \in ProtocolState
         /\ Advanced(s, n).call = s.call /\ Advanced(s, n).next = s.next + n
BY DEF Advanced, ProtocolState

LEMMA PartType ==
  ASSUME NEW s \in ProtocolState, NEW kind \in Kind, NEW ps \in Payload, NEW i \in Nat \ {0}
  PROVE  /\ Part(s, kind, Peer, ps, i) \in Packet
         /\ Part(s, kind, Peer, ps, i).id = <<s.call, s.next + i>>
<1>1. PICK b : b = BasePacket(Advanced(s, i), kind, Peer)
  OBVIOUS
<1>2. b \in Packet /\ b.id = <<s.call, s.next + i>>
  BY <1>1, AdvancedType, BaseType
<1>3. PICK c : c = Chunk(ps, i - 1) /\ c \in Payload
  BY ChunkType
<1>4. PICK total : total = Total(ps) /\ total \in Nat
  BY ChunkType
<1>5. PICK g : g = NextId(s) /\ g \in PacketId
  <2>1. NextId(s) \in PacketId
    BY DEF NextId, PacketId, ProtocolState
  <2>2. QED
    BY <2>1, Zenon
<1>6. Part(s, kind, Peer, ps, i)
        = [b EXCEPT !.group = g, !.hash = ps, !.total = total, !.index = i - 1,
                    !.data = c, !.chunkHash = c]
  BY <1>1, <1>3, <1>4, <1>5, Zenon DEF Part
<1>7. i - 1 \in Nat
  OBVIOUS
<1>8. QED
  BY <1>2, <1>3, <1>4, <1>5, <1>6, <1>7 DEF Packet

-----------------------------------------------------------------------------
(* The inductive invariant                                                 *)

\* Packets are numbered by their sender, each with a number of its own.
Numbered ==
  /\ \A i \in DOMAIN packets :
       \E m \in Nat : m < state.next /\ packets[i].id = <<state.call, m>>
  /\ \A i, j \in DOMAIN packets : i # j => packets[i].id # packets[j].id

Delivers == stage \in {"deliver", "done"}

\* Nothing was sent before the delivery starts.
Idle ==
  ~Delivers => /\ at = 1 /\ attempt = 0 /\ receiver.seen = {}
               /\ report = NoReport /\ args = NoArgs

\* Only packets the link is done with were taken or reported failed.
IdsBefore(n) == {packets[i].id : i \in 1..(n - 1)}
Handled ==
  /\ receiver.seen \subseteq IdsBefore(at)
  /\ Range(report.failed) \subseteq IdsBefore(at)
  /\ IsFiniteSet(receiver.seen)

IInv == TypeOK /\ Numbered /\ Idle /\ Handled /\ CountsAddUp

LEMMA InitIInv == Init => IInv
<1> SUFFICES ASSUME Init PROVE IInv
  OBVIOUS
<1>1. PICK call \in Stations : state = NewState(call)
  BY DEF Init
<1>2. state \in ProtocolState /\ receiver \in ProtocolState /\ receiver.seen = {}
  BY <1>1, LinkAssumption DEF Init, NewState, ProtocolState
<1>3. report = NoReport /\ args = NoArgs /\ packets = <<>> /\ at = 1 /\ attempt = 0
  BY DEF Init
<1>4. NoReport \in [delivered: Nat, acknowledged: Nat, attempts: Nat, timeouts: Nat,
                    duplicates: Nat, failed: Seq(PacketId)]
  BY DEF NoReport
<1>5. TypeOK
  BY <1>2, <1>3, <1>4 DEF Init, TypeOK, Stage
<1>6. Numbered /\ Idle
  BY <1>2, <1>3 DEF Numbered, Idle
<1>7. Handled
  BY <1>2, <1>3, FS_EmptySet DEF Handled, NoReport, Range
<1>8. CountsAddUp
  BY <1>2, <1>3, FS_EmptySet DEF CountsAddUp, NoReport, NoArgs, Waits
<1>9. QED
  BY <1>5, <1>6, <1>7, <1>8 DEF IInv

-----------------------------------------------------------------------------
(* Building                                                                *)

Unsent == <<args, receiver, at, attempt, report>>

\* Nothing is sent while the packets are built.
LEMMA BeforeDelivery ==
  ASSUME IInv, ~Delivers, ~Delivers', UNCHANGED Unsent
  PROVE  Idle' /\ Handled' /\ CountsAddUp'
<1>1. /\ at = 1 /\ at' = 1 /\ receiver' = receiver /\ receiver.seen = {}
      /\ report = NoReport /\ report' = report
  BY DEF IInv, Idle, Unsent
<1>2. Handled'
  BY <1>1, FS_EmptySet DEF Handled, NoReport, Range
<1>3. CountsAddUp'
  BY DEF IInv, CountsAddUp, Unsent, Waits
<1>4. Idle'
  BY DEF IInv, Idle, Unsent
<1>5. QED
  BY <1>2, <1>3, <1>4

\* Ids with different numbers are different.
LEMMA IdsDiffer ==
  ASSUME NEW call, NEW next \in Nat, NEW k \in Nat, NEW l, NEW m \in 1..l, NEW q \in 1..l, m # q
  PROVE  <<call, next + k + m - 1>> # <<call, next + k + q - 1>>
<1>1. next + k + m - 1 # next + k + q - 1
  OBVIOUS
<1>2. QED
  BY <1>1

\* The numbers given out are the next ones.
LEMMA NumbersFit ==
  ASSUME NEW next \in Nat, NEW k \in Nat, NEW n \in Nat, NEW l \in Nat, k + l <= n, NEW m \in 1..l
  PROVE  /\ next + k + m - 1 \in Nat
         /\ next + k + m - 1 >= next /\ next + k + m - 1 < next + n
OBVIOUS

\* The packets ps have the next numbers, from the k-th on.
NextNumbers(ps, k) ==
  \A m \in 1..Len(ps) : ps[m].id = <<state.call, state.next + k + m - 1>>

\* New packets with the next numbers keep all numbers apart.
LEMMA Grows ==
  ASSUME TypeOK, Numbered, NEW ps \in Seq(Packet), NEW n \in Nat, NEW k \in Nat,
         k + Len(ps) <= n,
         NextNumbers(ps, k),
         packets' = packets \o ps, state' = Advanced(state, n)
  PROVE  packets' \in Seq(Packet) /\ state' \in ProtocolState /\ Numbered'
<1>1. /\ packets \in Seq(Packet) /\ state \in ProtocolState
      /\ Len(packets) \in Nat /\ Len(ps) \in Nat
  BY SMTT(30) DEF TypeOK
<1>2. /\ state' \in ProtocolState /\ state'.call = state.call
      /\ state'.next = state.next + n /\ state.next \in Nat
  BY <1>1, AdvancedType DEF ProtocolState
<1>3. /\ packets' \in Seq(Packet) /\ Len(packets') = Len(packets) + Len(ps)
      /\ DOMAIN packets' = 1..(Len(packets) + Len(ps))
      /\ \A i \in 1..Len(packets) : packets'[i] = packets[i]
      /\ \A i \in 1..Len(ps) : packets'[Len(packets) + i] = ps[i]
  BY <1>1
<1> DEFINE Old(i) == i \in DOMAIN packets /\ packets'[i] = packets[i]
           New(i, m) == /\ i = Len(packets) + m
                        /\ packets'[i].id = <<state.call, state.next + k + m - 1>>
<1>4. ASSUME NEW i \in DOMAIN packets'
      PROVE  Old(i) \/ \E m \in 1..Len(ps) : New(i, m)
  <2>1. CASE i <= Len(packets)
    BY <1>1, <1>3, <2>1
  <2>2. CASE i > Len(packets)
    <3>1. PICK m \in 1..Len(ps) : i = Len(packets) + m
      <4>1. i - Len(packets) \in 1..Len(ps) /\ i = Len(packets) + (i - Len(packets))
        BY <1>1, <1>3, <2>2
      <4>2. QED
        BY <4>1
    <3>2. packets'[i] = ps[m]
      BY <1>3, <3>1
    <3>3. QED
      BY <3>1, <3>2 DEF NextNumbers
  <2>3. i \in Nat
    BY <1>1, <1>3
  <2>4. i <= Len(packets) \/ i > Len(packets)
    BY <1>1, <2>3
  <2>5. QED
    BY <2>1, <2>2, <2>4
<1>5. ASSUME NEW i \in DOMAIN packets'
      PROVE  \E m \in Nat : m < state'.next /\ packets'[i].id = <<state'.call, m>>
  <2>1. CASE Old(i)
    <3>1. PICK m \in Nat : m < state.next /\ packets[i].id = <<state.call, m>>
      BY <2>1 DEF Numbered
    <3>2. m < state'.next
      BY <1>2, <3>1
    <3>3. QED
      BY <1>2, <2>1, <3>1, <3>2
  <2>2. ASSUME NEW m \in 1..Len(ps), New(i, m)
        PROVE  \E q \in Nat : q < state'.next /\ packets'[i].id = <<state'.call, q>>
    <3>1. state.next + k + m - 1 \in Nat /\ state.next + k + m - 1 < state.next + n
      BY <1>1, <1>2, <2>2, NumbersFit, Zenon
    <3>2. QED
      BY <1>2, <2>2, <3>1, Zenon
  <2>3. QED
    BY <1>4, <2>1, <2>2
<1>6. ASSUME NEW i \in DOMAIN packets', NEW j \in DOMAIN packets', i # j
      PROVE  packets'[i].id # packets'[j].id
  <2>1. CASE Old(i) /\ Old(j)
    BY <1>6, <2>1 DEF Numbered
  <2>2. ASSUME NEW a, NEW b, NEW m \in 1..Len(ps), Old(a), New(b, m)
        PROVE  packets'[a].id # packets'[b].id
    <3>1. PICK q \in Nat : q < state.next /\ packets[a].id = <<state.call, q>>
      BY <2>2 DEF Numbered
    <3>2. state.next + k + m - 1 \in Nat /\ state.next + k + m - 1 >= state.next
      BY <1>1, <1>2, <2>2, NumbersFit, Zenon
    <3>3. \A x, y, z \in Nat : x < y /\ z >= y => x # z
      OBVIOUS
    <3>4. q # state.next + k + m - 1
      BY <1>2, <3>1, <3>2, <3>3, Zenon
    <3>5. QED
      BY <2>2, <3>1, <3>4
  <2>3. ASSUME NEW m \in 1..Len(ps), NEW q \in 1..Len(ps), New(i, m), New(j, q)
        PROVE  packets'[i].id # packets'[j].id
    <3>1. m # q
      BY <1>6, <2>3
    <3>2. <<state.call, state.next + k + m - 1>> # <<state.call, state.next + k + q - 1>>
      BY <1>2, <2>3, <3>1, IdsDiffer
    <3>3. QED
      BY <2>3, <3>2, Zenon
  <2>4. QED
    BY <1>4, <2>1, <2>2, <2>3
<1>7. QED
  BY <1>2, <1>3, <1>5, <1>6 DEF Numbered

\* The mail and its ack are packets with the next two numbers.
LEMMA MailType ==
  ASSUME NEW s \in ProtocolState
  PROVE  LET mail == BasePacket(s, "mail", Peer)
             ack == Ack(Advanced(s, 1), Peer, mail.id)
         IN /\ <<mail, ack>> \in Seq(Packet)
            /\ mail.id = <<s.call, s.next>> /\ ack.id = <<s.call, s.next + 1>>
<1>1. PICK mail : mail = BasePacket(s, "mail", Peer)
  OBVIOUS
<1>2. mail \in Packet /\ mail.id = <<s.call, s.next>>
  BY <1>1, BaseType DEF Kind
<1>3. PICK b : b = BasePacket(Advanced(s, 1), "ack", Peer)
  OBVIOUS
<1>4. b \in Packet /\ b.id = <<s.call, s.next + 1>>
  BY <1>3, AdvancedType, BaseType DEF Kind
<1>5. PICK id : id = mail.id /\ id \in PacketId
  <2>1. mail.id \in PacketId
    BY <1>2 DEF Packet
  <2>2. QED
    BY <2>1, Zenon
<1>6. Ack(Advanced(s, 1), Peer, mail.id) = [b EXCEPT !.receiptFor = id]
  BY <1>3, <1>5 DEF Ack
<1>7. [b EXCEPT !.receiptFor = id] \in Packet /\ [b EXCEPT !.receiptFor = id].id = b.id
  BY <1>4, <1>5 DEF Packet
<1>8. PICK ack : ack = Ack(Advanced(s, 1), Peer, mail.id)
  OBVIOUS
<1>9. ack \in Packet /\ ack.id = <<s.call, s.next + 1>>
  BY <1>4, <1>6, <1>7, <1>8
<1>10. <<mail, ack>> \in Seq(Packet)
  BY <1>2, <1>9
<1>11. QED
  BY <1>1, <1>2, <1>8, <1>9, <1>10, Zenon

\* The parts of a payload are packets with the numbers after that of their group.
LEMMA PartsType ==
  ASSUME NEW s \in ProtocolState, NEW kind \in Kind, NEW ps \in Payload
  PROVE  /\ Parts(s, kind, Peer, ps) \in Seq(Packet)
         /\ \A i \in 1..Len(Parts(s, kind, Peer, ps)) :
              Parts(s, kind, Peer, ps)[i].id = <<s.call, s.next + i>>
<1>1. PICK total \in Nat : total = Total(ps)
  BY ChunkType
<1> DEFINE q == [i \in 1..total |-> Part(s, kind, Peer, ps, i)]
<1>2. Parts(s, kind, Peer, ps) = q
  BY <1>1 DEF Parts
<1>3. \A i \in 1..total : q[i] \in Packet /\ q[i].id = <<s.call, s.next + i>>
  BY PartType
<1>4. q \in Seq(Packet) /\ Len(q) = total
  BY <1>3
<1> HIDE DEF q
<1>5. QED
  BY <1>2, <1>3, <1>4

\* So are the packets of a file, its offer first.
LEMMA FileType ==
  ASSUME NEW s \in ProtocolState, NEW ps \in Payload
  PROVE  LET file == FileTransferPackets(s, Peer, ps)
         IN /\ file \in Seq(Packet) /\ Tail(file) \in Seq(Packet)
            /\ \A i \in 1..Len(file) : file[i].id = <<s.call, s.next + i - 1>>
<1>1. PICK q : q = Parts(s, "file-chunk", Peer, ps)
  OBVIOUS
<1>2. q \in Seq(Packet) /\ \A i \in 1..Len(q) : q[i].id = <<s.call, s.next + i>>
  BY <1>1, PartsType DEF Kind
<1>3. PICK b : b = BasePacket(s, "file-offer", Peer)
  OBVIOUS
<1>4. b \in Packet /\ b.id = <<s.call, s.next>>
  BY <1>3, BaseType DEF Kind
<1>5. PICK g \in PacketId : g = NextId(s)
  BY DEF NextId, PacketId, ProtocolState
<1>6. PICK offer : offer = [b EXCEPT !.group = g, !.hash = ps]
  OBVIOUS
<1>7. offer \in Packet /\ offer.id = <<s.call, s.next>>
  BY <1>4, <1>5, <1>6 DEF Packet
<1>8. FileTransferPackets(s, Peer, ps) = <<offer>> \o q
  BY <1>1, <1>3, <1>5, <1>6 DEF FileTransferPackets, FileOffer
<1>9. /\ <<offer>> \o q \in Seq(Packet)
      /\ Len(<<offer>> \o q) = Len(q) + 1
      /\ (<<offer>> \o q)[1] = offer
      /\ \A i \in 1..Len(q) : (<<offer>> \o q)[i + 1] = q[i]
  BY <1>2, <1>7
<1>10. Tail(<<offer>> \o q) \in Seq(Packet)
  BY <1>9
<1>11. s.next \in Nat /\ Len(q) \in Nat
  BY <1>2 DEF ProtocolState
<1>12. ASSUME NEW i \in 1..(Len(q) + 1)
       PROVE  (<<offer>> \o q)[i].id = <<s.call, s.next + i - 1>>
  <2>1. CASE i = 1
    BY <1>7, <1>9, <1>11, <2>1
  <2>2. CASE i # 1
    <3>1. PICK m \in 1..Len(q) : i = m + 1
      <4>1. i - 1 \in 1..Len(q) /\ i = (i - 1) + 1
        BY <1>11, <1>12, <2>2
      <4>2. QED
        BY <4>1
    <3>2. (<<offer>> \o q)[i].id = <<s.call, s.next + m>>
      BY <1>2, <1>9, <3>1
    <3>3. s.next + m = s.next + i - 1
      BY <1>11, <3>1
    <3>4. QED
      BY <3>2, <3>3
  <2>3. QED
    BY <2>1, <2>2
<1>13. QED
  BY <1>8, <1>9, <1>10, <1>12

\* Each step of the building leaves the packets numbered.
LEMMA BuiltIInv ==
  ASSUME IInv, stage \in {"mail", "fragments", "file"}, NEW ps \in Seq(Packet),
         NEW n \in Nat, NEW k \in Nat, k + Len(ps) <= n, NextNumbers(ps, k),
         NEW next \in {"fragments", "file", "reassemble"}, Built(next, ps, n),
         groups' \in SUBSET Seq(Packet)
  PROVE  IInv'
<1>1. /\ packets' = packets \o ps /\ state' = Advanced(state, n) /\ stage' = next
      /\ UNCHANGED <<payload, args, receiver, at, attempt, report, gathered, runs>>
  BY DEF Built
<1>2. packets' \in Seq(Packet) /\ state' \in ProtocolState /\ Numbered'
  BY <1>1, Grows DEF IInv
<1>3. ~Delivers /\ ~Delivers'
  BY <1>1 DEF Delivers
<1>4. Idle' /\ Handled' /\ CountsAddUp'
  BY <1>1, <1>3, BeforeDelivery DEF Unsent
<1>5. at' = 1 /\ attempt' = 0 /\ 1 \in 1..(Len(packets') + 1)
  BY <1>1, <1>2, <1>3 DEF IInv, Idle
<1>6. TypeOK'
  BY <1>1, <1>2, <1>5, SMTT(30) DEF IInv, TypeOK, Stage
<1>7. QED
  BY <1>2, <1>4, <1>6 DEF IInv

LEMMA BuildingIInv == IInv /\ Building => IInv'
<1> SUFFICES ASSUME IInv, Building PROVE IInv'
  OBVIOUS
<1>1. state \in ProtocolState /\ payload \in Payload /\ groups \in SUBSET Seq(Packet)
  BY LinkAssumption DEF IInv, TypeOK
<1>2. CASE BuildMail
  <2>1. PICK mail, ack : /\ mail = BasePacket(state, "mail", Peer)
                         /\ ack = Ack(Advanced(state, 1), Peer, mail.id)
    OBVIOUS
  <2>2. <<mail, ack>> \in Seq(Packet) /\ Len(<<mail, ack>>) = 2
    BY <1>1, <2>1, MailType
  <2>3. mail.id = <<state.call, state.next>> /\ ack.id = <<state.call, state.next + 1>>
    BY <1>1, <2>1, MailType
  <2>4. state.next \in Nat
    BY <1>1 DEF ProtocolState
  <2>5. NextNumbers(<<mail, ack>>, 0)
    <3>1. ASSUME NEW m \in 1..2
          PROVE <<mail, ack>>[m].id = <<state.call, state.next + 0 + m - 1>>
      <4>1. CASE m = 1
        BY <2>3, <2>4, <4>1
      <4>2. CASE m = 2
        <5>1. state.next + 0 + m - 1 = state.next + 1
          BY <2>4, <4>2
        <5>2. QED
          BY <2>3, <4>2, <5>1
      <4>3. QED
        BY <3>1, <4>1, <4>2
    <3>2. QED
      BY <2>2, <3>1 DEF NextNumbers
  <2>6. /\ Built("fragments", <<mail, ack>>, 2) /\ stage = "mail"
        /\ groups' \in SUBSET Seq(Packet)
    BY <1>1, <1>2, <2>1 DEF BuildMail
  <2>7. 0 + Len(<<mail, ack>>) <= 2
    BY <2>2
  <2>8. QED
    BY <2>2, <2>5, <2>6, <2>7, BuiltIInv
<1>3. CASE BuildFragments
  <2>1. PICK ps : ps = FragmentPayload(state, Peer, payload)
    OBVIOUS
  <2>2. /\ ps \in Seq(Packet) /\ Len(ps) \in Nat
        /\ \A i \in 1..Len(ps) : ps[i].id = <<state.call, state.next + i>>
    BY <1>1, <2>1, PartsType DEF FragmentPayload, Kind
  <2>3. state.next \in Nat
    BY <1>1 DEF ProtocolState
  <2>4. NextNumbers(ps, 1)
    <3>1. \A i \in 1..Len(ps) : state.next + 1 + i - 1 = state.next + i
      BY <2>2, <2>3
    <3>2. QED
      BY <2>2, <3>1 DEF NextNumbers
  <2>5. /\ Built("file", ps, Len(ps) + 1) /\ stage = "fragments"
        /\ groups' = groups \cup {ps}
    BY <1>3, <2>1 DEF BuildFragments
  <2>6. groups' \in SUBSET Seq(Packet)
    BY <1>1, <2>2, <2>5
  <2>7. 1 + Len(ps) <= Len(ps) + 1 /\ Len(ps) + 1 \in Nat
    BY <2>2
  <2>8. QED
    BY <2>2, <2>4, <2>5, <2>6, <2>7, BuiltIInv
<1>4. CASE BuildFile
  <2>1. PICK ps : ps = FileTransferPackets(state, Peer, payload)
    OBVIOUS
  <2>2. /\ ps \in Seq(Packet) /\ Len(ps) \in Nat /\ Tail(ps) \in Seq(Packet)
        /\ \A i \in 1..Len(ps) : ps[i].id = <<state.call, state.next + i - 1>>
    BY <1>1, <2>1, FileType
  <2>3. state.next \in Nat
    BY <1>1 DEF ProtocolState
  <2>4. NextNumbers(ps, 0)
    <3>1. \A i \in 1..Len(ps) : state.next + 0 + i - 1 = state.next + i - 1
      BY <2>2, <2>3
    <3>2. QED
      BY <2>2, <3>1 DEF NextNumbers
  <2>5. /\ Built("reassemble", ps, Len(ps)) /\ stage = "file"
        /\ groups' = groups \cup {Tail(ps)}
    BY <1>4, <2>1 DEF BuildFile
  <2>6. groups' \in SUBSET Seq(Packet)
    BY <1>1, <2>2, <2>5
  <2>7. 0 + Len(ps) <= Len(ps)
    BY <2>2
  <2>8. QED
    BY <2>2, <2>4, <2>5, <2>6, <2>7, BuiltIInv
<1>5. CASE Refuse \/ FragmentTooLarge \/ FilePacketTooLarge
  <2>1. /\ stage \in {"mail", "fragments", "file"} /\ stage' = "failed"
        /\ UNCHANGED <<payload, state, packets, groups, args, receiver, at, attempt, report,
                       gathered, runs>>
    BY <1>5 DEF Refuse, FragmentTooLarge, FilePacketTooLarge, Fails
  <2>2. Idle' /\ Handled' /\ CountsAddUp'
    BY <2>1, BeforeDelivery DEF Unsent, Delivers
  <2>3. Numbered'
    BY <2>1 DEF IInv, Numbered
  <2>4. TypeOK'
    BY <2>1 DEF IInv, TypeOK, Stage, Sending
  <2>5. QED
    BY <2>2, <2>3, <2>4 DEF IInv
<1>6. QED
  BY <1>2, <1>3, <1>4, <1>5 DEF Building

\* A new process starts with nothing, and gathering changes nothing of it.
LEMMA OthersIInv == IInv /\ (Restart \/ Gather) => IInv'
<1> SUFFICES ASSUME IInv, Restart \/ Gather PROVE IInv'
  OBVIOUS
<1>1. ~Delivers /\ ~Delivers' /\ UNCHANGED Unsent
  BY DEF Restart, Gather, Delivers, Unsent
<1>2. Idle' /\ Handled' /\ CountsAddUp' /\ at' = 1 /\ attempt' = 0
  BY <1>1, BeforeDelivery DEF Idle
<1>3. CASE Restart
  <2>1. packets' = <<>> /\ Numbered'
    BY <1>3 DEF Restart, Numbered
  <2>2. state' \in ProtocolState
    BY <1>3 DEF Restart, IInv, TypeOK, ProtocolState, NewState
  <2>3. TypeOK'
    BY <1>2, <1>3, <2>1, <2>2 DEF Restart, IInv, TypeOK, Stage
  <2>4. QED
    BY <1>2, <2>1, <2>3 DEF IInv
<1>4. CASE Gather
  <2>1. /\ UNCHANGED <<payload, state, packets, groups, args, receiver, report, runs>>
        /\ stage' = "gather"
    BY <1>4 DEF Gather
  <2>2. gathered' \in Seq(Packet)
    <3>1. PICK ps \in groups : \E p \in Range(ps) : gathered' = Append(gathered, p)
      BY <1>4 DEF Gather
    <3>2. ps \in Seq(Packet) /\ gathered \in Seq(Packet)
      BY <3>1 DEF IInv, TypeOK
    <3>3. Range(ps) \subseteq Packet
      BY <3>2 DEF Range
    <3>4. QED
      BY <3>1, <3>2, <3>3
  <2>3. TypeOK'
    BY <1>2, <2>1, <2>2 DEF IInv, TypeOK, Stage
  <2>4. Numbered'
    BY <2>1 DEF IInv, Numbered
  <2>5. QED
    BY <1>2, <2>3, <2>4 DEF IInv
<1>5. QED
  BY <1>3, <1>4

-----------------------------------------------------------------------------
(* Delivering                                                              *)

\* What a step of the link leaves alone.
Fixed == <<payload, state, packets, groups, args, gathered, runs>>

LEMMA FixedNumbered ==
  ASSUME IInv, UNCHANGED Fixed
  PROVE  Numbered'
BY DEF IInv, Numbered, Fixed

\* The options of the link are numbers and flags.
LEMMA ArgsType ==
  ASSUME TypeOK
  PROVE  /\ args.retries \in Nat /\ args.ticks \in Nat
         /\ Waits \in Nat
<1>1. args.retries \in Nat /\ args.ticks \in Nat
  <2>1. CASE args \in Args
    <3>1. args.retries \in Retries /\ args.ticks \in Ticks
      BY <2>1 DEF Args
    <3>2. QED
      BY <3>1, LinkAssumption
  <2>2. CASE args = NoArgs
    BY <2>2 DEF NoArgs
  <2>3. QED
    BY <2>1, <2>2 DEF TypeOK
<1>2. QED
  BY <1>1 DEF Waits

\* The packet being sent was not sent before: its id is not among the earlier ones.
LEMMA IdIsNew ==
  ASSUME IInv, Sending
  PROVE  /\ packets[at].id \in PacketId
         /\ packets[at].id \notin IdsBefore(at)
         /\ IdsBefore(at + 1) = IdsBefore(at) \cup {packets[at].id}
         /\ at \in 1..Len(packets) /\ at + 1 \in 1..(Len(packets) + 1)
<1>1. packets \in Seq(Packet) /\ at \in 1..Len(packets)
  BY DEF IInv, TypeOK, Sending
<1>2. packets[at].id \in PacketId
  <2>1. PICK p \in Packet : p = packets[at]
    BY <1>1
  <2>2. p.id \in PacketId
    BY DEF Packet
  <2>3. QED
    BY <2>1, <2>2
<1>3. packets[at].id \notin IdsBefore(at)
  <2>1. \A i \in 1..(at - 1) : i \in DOMAIN packets /\ at \in DOMAIN packets /\ i # at
    BY <1>1
  <2>2. QED
    BY <2>1 DEF IInv, Numbered, IdsBefore
<1>4. 1..(at + 1 - 1) = 1..(at - 1) \cup {at}
  BY <1>1
<1>5. IdsBefore(at + 1) = IdsBefore(at) \cup {packets[at].id}
  BY <1>4 DEF IdsBefore
<1>6. at + 1 \in 1..(Len(packets) + 1)
  BY <1>1
<1>7. QED
  BY <1>1, <1>2, <1>3, <1>5, <1>6

\* The attempts that n - 1 packets can take, and b for the next.
AttemptsFor(r, n, b) == (r + 1) * (n - 1) + b

\* A packet more allows as many attempts more as one packet has.
LEMMA NextRow ==
  ASSUME NEW r \in Nat, NEW n \in Nat, NEW a \in Nat, NEW b \in Nat,
         a <= AttemptsFor(r, n, b)
  PROVE  /\ b <= r => a + 1 <= AttemptsFor(r, n + 1, 0)
         /\ b <= r + 1 => a <= AttemptsFor(r, n + 1, 0)
<1>1. (r + 1) * (n + 1 - 1) = (r + 1) * (n - 1) + (r + 1)
  OBVIOUS
<1>2. PICK m \in Int : m = (r + 1) * (n - 1)
  OBVIOUS
<1>3. QED
  BY <1>1, <1>2 DEF AttemptsFor

LEMMA DropIInv == IInv /\ Drop => IInv'
<1> SUFFICES ASSUME IInv, Drop PROVE IInv'
  OBVIOUS
<1>1. /\ Sending /\ attempt <= args.retries /\ attempt' = attempt + 1
      /\ report' = [report EXCEPT !.attempts = @ + 1, !.timeouts = @ + Waits]
      /\ UNCHANGED <<stage, payload, state, packets, groups, args, receiver, at, gathered, runs>>
  BY DEF Drop
<1>2. PICK r, w : r = args.retries /\ w = Waits /\ r \in Nat /\ w \in Nat
  BY ArgsType DEF IInv
<1>3. /\ report \in [delivered: Nat, acknowledged: Nat, attempts: Nat, timeouts: Nat,
                     duplicates: Nat, failed: Seq(PacketId)]
      /\ attempt \in Nat /\ at \in Nat
  BY DEF IInv, TypeOK
<1>4. /\ report' \in [delivered: Nat, acknowledged: Nat, attempts: Nat, timeouts: Nat,
                      duplicates: Nat, failed: Seq(PacketId)]
      /\ report'.attempts = report.attempts + 1 /\ report'.timeouts = report.timeouts + w
      /\ report'.delivered = report.delivered /\ report'.acknowledged = report.acknowledged
      /\ report'.duplicates = report.duplicates /\ report'.failed = report.failed
  <2>1. PICK a, b \in Nat : a = report.attempts + 1 /\ b = report.timeouts + w
    BY <1>2, <1>3
  <2>2. report' = [report EXCEPT !.attempts = a, !.timeouts = b]
    BY <1>1, <1>2, <2>1
  <2>3. QED
    BY <1>3, <2>1, <2>2
<1>5. TypeOK'
  <2>1. attempt' \in Nat /\ attempt' <= args'.retries + 1 /\ Sending'
    BY <1>1, <1>2, <1>3, SMTT(30) DEF Sending
  <2>2. QED
    BY <1>1, <1>4, <2>1 DEF IInv, TypeOK
<1>6. Numbered'
  BY <1>1, FixedNumbered DEF Fixed
<1>7. Idle' /\ Handled'
  BY <1>1, <1>4 DEF IInv, Idle, Handled, Delivers, Sending, IdsBefore
<1>8. CountsAddUp'
  <2>1. report'.timeouts = Waits' * (report'.attempts - report'.delivered)
    <3>1. report.timeouts = w * (report.attempts - report.delivered) /\ Waits' = w
      BY <1>1, <1>2 DEF IInv, CountsAddUp, Waits
    <3>2. \A x, y, z \in Nat : x * (y - z) + x = x * (y + 1 - z)
      OBVIOUS
    <3>3. QED
      BY <1>2, <1>3, <1>4, <3>1, <3>2, SMTT(30)
  <2>2. report'.attempts <= (args'.retries + 1) * (at' - 1) + attempt'
    <3>1. PICK m \in Int : m = (r + 1) * (at - 1)
      BY <1>2, <1>3
    <3>2. report.attempts <= m + attempt
      BY <1>2, <3>1 DEF IInv, CountsAddUp
    <3>3. report'.attempts <= m + attempt'
      <4>1. \A x, y \in Nat : x <= m + y => x + 1 <= m + (y + 1)
        BY <3>1
      <4>2. report.attempts \in Nat
        BY <1>3
      <4>3. QED
        BY <1>1, <1>3, <1>4, <3>2, <4>1, <4>2
    <3>4. QED
      BY <1>1, <1>2, <3>1, <3>3
  <2>3. QED
    BY <1>1, <1>4, <2>1, <2>2 DEF IInv, CountsAddUp
<1>9. QED
  BY <1>5, <1>6, <1>7, <1>8 DEF IInv

\* A packet that arrives was never observed before: its delivery is counted as one, and
\* doubled it is a duplicate once.
LEMMA Arrives ==
  ASSUME IInv, Arrive
  PROVE  /\ receiver' \in ProtocolState
         /\ receiver'.seen = receiver.seen \cup {packets[at].id}
         /\ packets[at].id \notin receiver.seen
         /\ report' = [report EXCEPT
              !.attempts = report.attempts + 1, !.delivered = report.delivered + 1,
              !.acknowledged = report.acknowledged + 1,
              !.duplicates = report.duplicates + 0 + (IF args.double THEN 1 ELSE 0)]
<1>1. /\ Sending /\ receiver \in ProtocolState
      /\ receiver' = Observe(receiver, packets[at]).state
      /\ report' = Counted(Observe(receiver, packets[at]),
                           Observe(Observe(receiver, packets[at]).state, packets[at]))
  BY DEF Arrive, IInv, TypeOK
<1>2. packets[at].id \in PacketId /\ packets[at].id \notin receiver.seen
  BY <1>1, IdIsNew DEF IInv, Handled
<1>3. PICK id : id = packets[at].id
  OBVIOUS
<1>4. PICK next : next = [receiver EXCEPT !.seen = receiver.seen \cup {id}]
  OBVIOUS
<1>5. next \in ProtocolState /\ next.seen = receiver.seen \cup {id}
  BY <1>1, <1>2, <1>3, <1>4 DEF ProtocolState
<1>6. /\ Observe(receiver, packets[at]).state = next
      /\ Observe(receiver, packets[at]).duplicate <=> id \in receiver.seen
      /\ Observe(next, packets[at]).duplicate <=> id \in next.seen
  BY <1>3, <1>4 DEF Observe
<1>7. /\ ~Observe(receiver, packets[at]).duplicate
      /\ Observe(next, packets[at]).duplicate
  BY <1>2, <1>3, <1>5, <1>6
<1>8. report' = Counted(Observe(receiver, packets[at]), Observe(next, packets[at]))
  BY <1>1, <1>6
<1>9. PICK o1, o2 : /\ o1 = Observe(receiver, packets[at])
                    /\ o2 = Observe(next, packets[at])
                    /\ ~o1.duplicate /\ o2.duplicate
  BY <1>7, Zenon
<1>10. report' = [report EXCEPT
              !.attempts = report.attempts + 1, !.delivered = report.delivered + 1,
              !.acknowledged = report.acknowledged + 1,
              !.duplicates = report.duplicates + 0 + (IF args.double THEN 1 ELSE 0)]
  BY <1>8, <1>9 DEF Counted
<1>11. QED
  BY <1>1, <1>2, <1>3, <1>5, <1>6, <1>10

LEMMA ArriveIInv == IInv /\ Arrive => IInv'
<1> SUFFICES ASSUME IInv, Arrive PROVE IInv'
  OBVIOUS
<1>1. /\ Sending /\ attempt <= args.retries /\ at' = at + 1 /\ attempt' = 0
      /\ UNCHANGED <<stage, payload, state, packets, groups, args, gathered, runs>>
  BY DEF Arrive
<1>2. PICK r, w : r = args.retries /\ w = Waits /\ r \in Nat /\ w \in Nat
  BY ArgsType DEF IInv
<1>3. /\ report \in [delivered: Nat, acknowledged: Nat, attempts: Nat, timeouts: Nat,
                     duplicates: Nat, failed: Seq(PacketId)]
      /\ attempt \in Nat /\ at \in Nat /\ Len(report.failed) \in Nat
  BY DEF IInv, TypeOK
<1>4. PICK d \in {0, 1} : d = IF args.double THEN 1 ELSE 0
  OBVIOUS
<1>5. /\ report' \in [delivered: Nat, acknowledged: Nat, attempts: Nat, timeouts: Nat,
                      duplicates: Nat, failed: Seq(PacketId)]
      /\ report'.attempts = report.attempts + 1 /\ report'.timeouts = report.timeouts
      /\ report'.delivered = report.delivered + 1
      /\ report'.acknowledged = report.acknowledged + 1
      /\ report'.duplicates = report.duplicates + d /\ report'.failed = report.failed
  <2>1. PICK a, b, c, e \in Nat : /\ a = report.attempts + 1 /\ b = report.delivered + 1
                                  /\ c = report.acknowledged + 1 /\ e = report.duplicates + d
                                  /\ e = report.duplicates + 0 + d
    BY <1>3
  <2>2. report' = [report EXCEPT !.attempts = a, !.delivered = b, !.acknowledged = c,
                                 !.duplicates = e]
    BY <1>4, <2>1, Arrives
  <2>3. QED
    BY <1>3, <2>1, <2>2
<1>6. /\ packets[at].id \notin receiver.seen /\ IsFiniteSet(receiver.seen)
      /\ receiver'.seen = receiver.seen \cup {packets[at].id}
      /\ IdsBefore(at') = IdsBefore(at) \cup {packets[at].id}
      /\ at' \in 1..(Len(packets) + 1)
  BY <1>1, Arrives, IdIsNew DEF IInv, Handled
<1>7. TypeOK'
  <2>1. receiver' \in ProtocolState
    BY Arrives
  <2>2. attempt' \in Nat /\ ~(attempt' > 0)
    BY <1>1
  <2>3. QED
    BY <1>1, <1>5, <1>6, <2>1, <2>2 DEF IInv, TypeOK
<1>8. Numbered' /\ Idle'
  BY <1>1, FixedNumbered DEF Fixed, Idle, Delivers, Sending
<1>9. Handled'
  <2>1. IsFiniteSet(receiver'.seen)
    BY <1>6, FS_AddElement
  <2>2. IdsBefore(at') = IdsBefore(at)' /\ IdsBefore(at)' = IdsBefore(at')
    BY <1>1 DEF IdsBefore
  <2>3. QED
    BY <1>5, <1>6, <2>1, <2>2 DEF IInv, Handled
<1>10. CountsAddUp'
  <2>1. report'.delivered = Cardinality(receiver'.seen)
    <3>1. Cardinality(receiver'.seen) = Cardinality(receiver.seen) + 1
      BY <1>6, FS_AddElement
    <3>2. report.delivered = Cardinality(receiver.seen)
      BY DEF IInv, CountsAddUp
    <3>3. QED
      BY <1>5, <3>1, <3>2
  <2>2. /\ report'.acknowledged = report'.delivered
        /\ report'.delivered + Len(report'.failed) = at' - 1
    <3>1. /\ report.acknowledged = report.delivered
          /\ report.delivered + Len(report.failed) = at - 1
      BY DEF IInv, CountsAddUp
    <3>2. PICK a, l \in Nat : a = report.delivered /\ l = Len(report.failed)
      BY <1>3
    <3>3. (a + 1) + l = (at + 1) - 1
      BY <1>3, <3>1, <3>2, SMTT(30)
    <3>4. QED
      BY <1>1, <1>5, <3>1, <3>2, <3>3
  <2>3. report'.timeouts = Waits' * (report'.attempts - report'.delivered)
    <3>1. report.timeouts = w * (report.attempts - report.delivered) /\ Waits' = w
      BY <1>1, <1>2 DEF IInv, CountsAddUp, Waits
    <3>2. (report.attempts + 1) - (report.delivered + 1) = report.attempts - report.delivered
      BY <1>3
    <3>3. QED
      BY <1>5, <3>1, <3>2
  <2>4. report'.duplicates = IF args'.double THEN report'.delivered ELSE 0
    <3>1. CASE args.double
      BY <1>1, <1>3, <1>4, <1>5, <3>1 DEF IInv, CountsAddUp
    <3>2. CASE ~args.double
      BY <1>1, <1>3, <1>4, <1>5, <3>2 DEF IInv, CountsAddUp
    <3>3. QED
      BY <3>1, <3>2
  <2>5. report'.attempts <= (args'.retries + 1) * (at' - 1) + attempt'
    <3>1. PICK a \in Nat : a = report.attempts
      BY <1>3
    <3>2. report.attempts <= (args.retries + 1) * (at - 1) + attempt
      BY DEF IInv, CountsAddUp
    <3>3. a <= AttemptsFor(r, at, attempt) /\ attempt <= r
      BY <1>1, <1>2, <3>1, <3>2 DEF AttemptsFor
    <3>4. a + 1 <= AttemptsFor(r, at + 1, 0)
      BY <1>2, <1>3, <3>1, <3>3, NextRow
    <3>5. report'.attempts = a + 1 /\ args'.retries = r /\ at' = at + 1 /\ attempt' = 0
      BY <1>1, <1>2, <1>5, <3>1
    <3>6. report'.attempts <= AttemptsFor(args'.retries, at', attempt')
      BY <3>4, <3>5
    <3>7. QED
      BY <3>6 DEF AttemptsFor
  <2>6. QED
    BY <2>1, <2>2, <2>3, <2>4, <2>5 DEF CountsAddUp
<1>11. QED
  BY <1>7, <1>8, <1>9, <1>10 DEF IInv

\* A packet given up is one more among those reported failed.
LEMMA GivenUp ==
  ASSUME IInv, GiveUp
  PROVE  /\ report'.failed \in Seq(PacketId)
         /\ Len(report'.failed) = Len(report.failed) + 1
         /\ Range(report'.failed) = Range(report.failed) \cup {packets[at].id}
<1>1. PICK f \in Seq(PacketId) : f = report.failed
  BY DEF IInv, TypeOK
<1>2. PICK id \in PacketId : id = packets[at].id
  BY IdIsNew DEF GiveUp
<1>3. /\ Append(f, id) \in Seq(PacketId)
      /\ DOMAIN Append(f, id) = 1..(Len(f) + 1) /\ Len(Append(f, id)) = Len(f) + 1
      /\ \A i \in 1..Len(f) : Append(f, id)[i] = f[i]
      /\ Append(f, id)[Len(f) + 1] = id
      /\ DOMAIN f = 1..Len(f) /\ 1..(Len(f) + 1) = 1..Len(f) \cup {Len(f) + 1}
  OBVIOUS
<1>4. Range(Append(f, id)) = Range(f) \cup {id}
  BY <1>3 DEF Range
<1>5. report'.failed = Append(f, id)
  BY <1>1, <1>2 DEF GiveUp, IInv, TypeOK
<1>6. QED
  BY <1>1, <1>2, <1>3, <1>4, <1>5

LEMMA GiveUpIInv == IInv /\ GiveUp => IInv'
<1> SUFFICES ASSUME IInv, GiveUp PROVE IInv'
  OBVIOUS
<1>1. /\ Sending /\ attempt > args.retries /\ at' = at + 1 /\ attempt' = 0
      /\ report' = [report EXCEPT !.failed = Append(report.failed, packets[at].id)]
      /\ UNCHANGED <<stage, payload, state, packets, groups, args, receiver, gathered, runs>>
  BY DEF GiveUp
<1>2. PICK r, w : r = args.retries /\ w = Waits /\ r \in Nat /\ w \in Nat
  BY ArgsType DEF IInv
<1>3. /\ report \in [delivered: Nat, acknowledged: Nat, attempts: Nat, timeouts: Nat,
                     duplicates: Nat, failed: Seq(PacketId)]
      /\ attempt \in Nat /\ at \in Nat /\ Len(report.failed) \in Nat
  BY DEF IInv, TypeOK
<1>4. PICK id : id = packets[at].id
  OBVIOUS
<1>5. PICK failed \in Seq(PacketId) :
        /\ failed = Append(report.failed, id) /\ failed = report'.failed
        /\ Len(failed) = Len(report.failed) + 1
        /\ Range(failed) = Range(report.failed) \cup {id}
  BY <1>1, <1>3, <1>4, GivenUp
<1>6. /\ report' \in [delivered: Nat, acknowledged: Nat, attempts: Nat, timeouts: Nat,
                      duplicates: Nat, failed: Seq(PacketId)]
      /\ report'.attempts = report.attempts /\ report'.timeouts = report.timeouts
      /\ report'.delivered = report.delivered
      /\ report'.acknowledged = report.acknowledged
      /\ report'.duplicates = report.duplicates /\ report'.failed = failed
  <2>1. report' = [report EXCEPT !.failed = failed]
    BY <1>1, <1>4, <1>5
  <2>2. QED
    BY <1>3, <2>1
<1>7. /\ IdsBefore(at') = IdsBefore(at) \cup {packets[at].id}
      /\ at' \in 1..(Len(packets) + 1)
  BY <1>1, IdIsNew
<1>8. TypeOK'
  <2>1. attempt' \in Nat /\ ~(attempt' > 0)
    BY <1>1
  <2>2. QED
    BY <1>1, <1>6, <1>7, <2>1 DEF IInv, TypeOK
<1>9. Numbered' /\ Idle'
  BY <1>1, FixedNumbered DEF Fixed, Idle, Delivers, Sending
<1>10. Handled'
  <2>1. IdsBefore(at') = IdsBefore(at)' /\ IdsBefore(at)' = IdsBefore(at')
    BY <1>1 DEF IdsBefore
  <2>2. QED
    BY <1>1, <1>4, <1>5, <1>6, <1>7, <2>1 DEF IInv, Handled
<1>11. CountsAddUp'
  <2>1. /\ report'.delivered = Cardinality(receiver'.seen)
        /\ report'.acknowledged = report'.delivered
        /\ report'.duplicates = IF args'.double THEN report'.delivered ELSE 0
    BY <1>1, <1>6 DEF IInv, CountsAddUp
  <2>2. report'.delivered + Len(report'.failed) = at' - 1
    <3>1. report.delivered + Len(report.failed) = at - 1
      BY DEF IInv, CountsAddUp
    <3>2. PICK a, l \in Nat : a = report.delivered /\ l = Len(report.failed)
      BY <1>3
    <3>3. a + (l + 1) = (at + 1) - 1
      <4>1. a + l = at - 1
        BY <3>1, <3>2
      <4>2. QED
        BY <1>3, <4>1
    <3>4. QED
      BY <1>1, <1>5, <1>6, <3>2, <3>3
  <2>3. report'.timeouts = Waits' * (report'.attempts - report'.delivered)
    <3>1. report.timeouts = w * (report.attempts - report.delivered) /\ Waits' = w
      BY <1>1, <1>2 DEF IInv, CountsAddUp, Waits
    <3>2. QED
      BY <1>6, <3>1
  <2>4. report'.attempts <= (args'.retries + 1) * (at' - 1) + attempt'
    <3>1. PICK a \in Nat : a = report.attempts
      BY <1>3
    <3>2. report.attempts <= (args.retries + 1) * (at - 1) + attempt
      BY DEF IInv, CountsAddUp
    <3>3. attempt <= args.retries + 1
      <4>1. attempt > 0
        BY <1>1, <1>2, <1>3
      <4>2. QED
        BY <4>1 DEF IInv, TypeOK
    <3>4. a <= AttemptsFor(r, at, attempt) /\ attempt <= r + 1
      BY <1>2, <3>1, <3>2, <3>3 DEF AttemptsFor
    <3>5. a <= AttemptsFor(r, at + 1, 0)
      BY <1>2, <1>3, <3>1, <3>4, NextRow
    <3>6. report'.attempts = a /\ args'.retries = r /\ at' = at + 1 /\ attempt' = 0
      BY <1>1, <1>2, <1>6, <3>1
    <3>7. report'.attempts <= AttemptsFor(args'.retries, at', attempt')
      BY <3>5, <3>6
    <3>8. QED
      BY <3>7 DEF AttemptsFor
  <2>5. QED
    BY <2>1, <2>2, <2>3, <2>4 DEF CountsAddUp
<1>12. QED
  BY <1>8, <1>9, <1>10, <1>11 DEF IInv

\* Between the first and the last packet the options do not change.
LEMMA EdgesIInv == IInv /\ (StartDelivery \/ Report) => IInv'
<1> SUFFICES ASSUME IInv, StartDelivery \/ Report PROVE IInv'
  OBVIOUS
<1>1. UNCHANGED <<payload, state, packets, groups, receiver, at, attempt, report, gathered, runs>>
  BY DEF StartDelivery, Report
<1>2. Numbered' /\ Handled'
  BY <1>1 DEF IInv, Numbered, Handled, IdsBefore
<1>3. CASE StartDelivery
  <2>1. stage = "reassemble" /\ stage' = "deliver" /\ args' \in Args
    BY <1>3 DEF StartDelivery
  <2>2. at = 1 /\ attempt = 0 /\ receiver.seen = {} /\ report = NoReport
    BY <2>1 DEF IInv, Idle, Delivers
  <2>3. TypeOK'
    BY <1>1, <2>1, <2>2 DEF IInv, TypeOK, Stage
  <2>4. Idle'
    BY <2>1 DEF Idle, Delivers
  <2>5. CountsAddUp'
    <3>1. /\ report' = NoReport /\ at' = 1 /\ attempt' = 0 /\ receiver'.seen = {}
      BY <1>1, <2>2
    <3>2. Cardinality({}) = 0
      BY FS_EmptySet
    <3>3. PICK w, r \in Nat : w = Waits' /\ r = args'.retries
      BY <2>1, <2>3, LinkAssumption DEF Waits, Args
    <3>4. w * (0 - 0) = 0 /\ 0 <= (r + 1) * (1 - 1) + 0
      OBVIOUS
    <3>5. /\ report'.delivered = 0 /\ report'.acknowledged = 0 /\ report'.attempts = 0
          /\ report'.timeouts = 0 /\ report'.duplicates = 0 /\ report'.failed = <<>>
      BY <3>1 DEF NoReport
    <3>6. report'.timeouts = Waits' * (report'.attempts - report'.delivered)
      BY <3>3, <3>4, <3>5
    <3>7. report'.attempts <= (args'.retries + 1) * (at' - 1) + attempt'
      BY <3>1, <3>3, <3>4, <3>5
    <3>8. QED
      BY <3>1, <3>2, <3>5, <3>6, <3>7 DEF CountsAddUp
  <2>6. QED
    BY <1>2, <2>3, <2>4, <2>5 DEF IInv
<1>4. CASE Report
  <2>1. stage = "deliver" /\ at > Len(packets) /\ stage' = "done" /\ args' = args
    BY <1>4 DEF Report
  <2>2. attempt = 0
    BY <2>1 DEF IInv, TypeOK, Sending
  <2>3. TypeOK'
    BY <1>1, <2>1, <2>2 DEF IInv, TypeOK, Stage
  <2>4. Idle' /\ CountsAddUp'
    BY <1>1, <2>1 DEF IInv, Idle, Delivers, CountsAddUp, Waits
  <2>5. QED
    BY <1>2, <2>3, <2>4 DEF IInv
<1>5. QED
  BY <1>3, <1>4

LEMMA NextIInv == IInv /\ [Next]_vars => IInv'
<1>1. ASSUME IInv, UNCHANGED vars PROVE IInv'
  BY <1>1, ZenonT(60) DEF IInv, TypeOK, Numbered, Idle, Handled, CountsAddUp, Delivers, Sending,
              IdsBefore, Waits, vars
<1>2. QED
  BY <1>1, BuildingIInv, OthersIInv, DropIInv, ArriveIInv, GiveUpIInv, EdgesIInv
     DEF Next, Delivering

THEOREM Invariance == Spec => []IInv
BY InitIInv, NextIInv, PTL DEF Spec

\* Type correctness: the link is always at a packet it has, and makes no attempt more
\* than it may.
THEOREM TypeCorrect == Spec => []TypeOK
<1>1. IInv => TypeOK
  BY DEF IInv
<1>2. QED
  BY <1>1, Invariance, PTL

\* The counters of the report add up whatever is lost, doubled or tried again.
THEOREM CountersRight == Spec => []CountsAddUp
<1>1. IInv => CountsAddUp
  BY DEF IInv
<1>2. QED
  BY <1>1, Invariance, PTL

-----------------------------------------------------------------------------
(* The promise                                                             *)

\* The packets the link still has to deliver.
PendingIds == IF stage = "deliver" THEN {packets[i].id : i \in at..Len(packets)} ELSE {}

\* A step at a packet takes its id, and only its, off the list.
LEMMA OneLess ==
  ASSUME IInv, Sending, at' = at + 1, UNCHANGED <<stage, packets>>
  PROVE  /\ packets[at].id \in PendingIds
         /\ PendingIds' = PendingIds \ {packets[at].id}
<1>1. /\ stage = "deliver" /\ stage' = "deliver" /\ packets' = packets
      /\ packets \in Seq(Packet) /\ at \in 1..Len(packets)
  BY DEF IInv, TypeOK, Sending
<1>2. at \in at..Len(packets)
  BY <1>1
<1>3. (at + 1)..Len(packets) = (at..Len(packets)) \ {at}
  BY <1>1
<1>4. at..Len(packets) \subseteq DOMAIN packets
  BY <1>1
<1>5. \A i \in at..Len(packets) : i # at => packets[i].id # packets[at].id
  BY <1>2, <1>4 DEF IInv, Numbered
<1>6. PendingIds = {packets[i].id : i \in at..Len(packets)}
  BY <1>1 DEF PendingIds
<1>7. PendingIds' = {packets[i].id : i \in (at + 1)..Len(packets)}
  BY <1>1 DEF PendingIds
<1>8. QED
  BY <1>2, <1>3, <1>5, <1>6, <1>7

LEMMA InitPromise == Init => Promise!Init
BY DEF Init, Promise!Init, NewState, NoReport, Range

LEMMA StepPromise ==
  ASSUME IInv, Next
  PROVE  [Promise!Next]_(Promise!vars)
<1>1. ASSUME PendingIds' = PendingIds, receiver' = receiver, report'.failed = report.failed
      PROVE  UNCHANGED Promise!vars
  <2>1. /\ receiver'.seen = receiver.seen
        /\ Range(report'.failed) = Range(report.failed)
    BY <1>1, Zenon
  <2>2. QED
    BY <1>1, <2>1 DEF Promise!vars, PendingIds
<1>2. CASE Building \/ Restart \/ Gather
  <2>1. stage # "deliver" /\ stage' # "deliver" /\ UNCHANGED <<receiver, report>>
    BY <1>2 DEF Building, BuildMail, Refuse, BuildFragments, FragmentTooLarge, BuildFile,
         FilePacketTooLarge, Built, Fails, Restart, Gather
  <2>2. PendingIds' = PendingIds
    BY <2>1 DEF PendingIds
  <2>3. QED
    BY <1>1, <2>1, <2>2
<1>3. CASE StartDelivery
  <2>1. /\ stage = "reassemble" /\ stage' = "deliver"
        /\ UNCHANGED <<receiver, report, packets, at>>
    BY <1>3 DEF StartDelivery
  <2>2. at = 1 /\ receiver.seen = {} /\ Range(report.failed) = {}
    BY <2>1 DEF IInv, Idle, Delivers, NoReport, Range
  <2>3. PendingIds' \in SUBSET PacketId
    <3>1. packets \in Seq(Packet)
      BY DEF IInv, TypeOK
    <3>2. \A p \in Packet : p.id \in PacketId
      BY DEF Packet
    <3>3. \A i \in 1..Len(packets) : packets[i].id \in PacketId
      BY <3>1, <3>2
    <3>4. PendingIds' = {packets[i].id : i \in 1..Len(packets)}
      BY <2>1, <2>2 DEF PendingIds
    <3>5. QED
      BY <3>3, <3>4
  <2>4. Promise!Post
    BY <2>1, <2>2, <2>3 DEF Promise!Post, PendingIds
  <2>5. QED
    BY <2>4 DEF Promise!Next
<1>4. CASE Drop
  <2>1. UNCHANGED <<stage, packets, at, receiver>> /\ report'.failed = report.failed
    BY <1>4 DEF Drop, IInv, TypeOK
  <2>2. PendingIds' = PendingIds
    BY <2>1 DEF PendingIds
  <2>3. QED
    BY <1>1, <2>1, <2>2
<1>5. CASE Arrive
  <2>1. Sending /\ at' = at + 1 /\ UNCHANGED <<stage, packets>>
    BY <1>5 DEF Arrive
  <2>2. /\ packets[at].id \in PendingIds
        /\ PendingIds' = PendingIds \ {packets[at].id}
    BY <2>1, OneLess
  <2>3. receiver'.seen = receiver.seen \cup {packets[at].id}
    BY <1>5, Arrives
  <2>4. report'.failed = report.failed
    BY <1>5, Arrives DEF IInv, TypeOK
  <2>5. Promise!Take
    BY <2>2, <2>3, <2>4 DEF Promise!Take, PendingIds
  <2>6. QED
    BY <2>5 DEF Promise!Next
<1>6. CASE GiveUp
  <2>1. Sending /\ at' = at + 1 /\ UNCHANGED <<stage, packets, receiver>>
    BY <1>6 DEF GiveUp
  <2>2. /\ packets[at].id \in PendingIds
        /\ PendingIds' = PendingIds \ {packets[at].id}
    BY <2>1, OneLess
  <2>3. Range(report'.failed) = Range(report.failed) \cup {packets[at].id}
    BY <1>6, GivenUp
  <2>4. Promise!Lose
    BY <2>1, <2>2, <2>3 DEF Promise!Lose, PendingIds
  <2>5. QED
    BY <2>4 DEF Promise!Next
<1>7. CASE Report
  <2>1. /\ stage = "deliver" /\ at > Len(packets) /\ stage' = "done"
        /\ UNCHANGED <<receiver, report>>
    BY <1>7 DEF Report
  <2>2. PendingIds = {} /\ PendingIds' = {}
    BY <2>1 DEF IInv, TypeOK, PendingIds
  <2>3. QED
    BY <1>1, <2>1, <2>2
<1>8. QED
  BY <1>2, <1>3, <1>4, <1>5, <1>6, <1>7 DEF Next, Delivering

\* The safety of KeepsDelivery: every step of the command takes one pending id, gives one
\* up, posts the ids, or changes nothing the promise is about.  So a packet is observed at
\* most once and never both observed and reported failed.
THEOREM DeliveryKept == Spec => Promise!Init /\ [][Promise!Next]_(Promise!vars)
<1>1. IInv /\ [Next]_vars => [Promise!Next]_(Promise!vars)
  <2>1. ASSUME UNCHANGED vars PROVE UNCHANGED Promise!vars
    BY <2>1 DEF vars, Promise!vars
  <2>2. QED
    BY <2>1, StepPromise
<1>2. QED
  BY <1>1, InitPromise, Invariance, PTL DEF Spec

-----------------------------------------------------------------------------
(* Numbers and their digits                                                *)

\* f is the function behind Digits for numbers up to n.
Counts(n, f) == f = [k \in 0..n |-> IF k < 10 THEN 1 ELSE f[k \div 10] + 1]

LEMMA TenthIsLess ==
  ASSUME NEW n \in Nat, n >= 10
  PROVE  n \div 10 \in 0..(n - 1)
OBVIOUS

LEMMA CountsExists ==
  ASSUME NEW n \in Nat
  PROVE  \E f : Counts(n, f)
<1> DEFINE T == {k \in Nat : ~\E f : Counts(k, f)}
<1> SUFFICES ASSUME T # {} PROVE FALSE
  OBVIOUS
<1>1. PICK m \in T : \A k \in T : m <= k
  <2>1. T \subseteq Nat
    OBVIOUS
  <2> HIDE DEF T
  <2> QED BY <2>1, Least
<1>2. m \in Nat /\ ~\E f : Counts(m, f)
  BY <1>1
<1>3. CASE m = 0
  <2>1. Counts(0, [k \in 0..0 |-> 1])
    BY DEF Counts
  <2> QED BY <1>2, <1>3, <2>1
<1>4. CASE m # 0
  <2>1. m - 1 \in Nat /\ m - 1 \notin T
    <3>1. m - 1 \in Nat /\ ~(m <= m - 1)
      BY <1>2, <1>4
    <3> HIDE DEF T
    <3> QED BY <1>1, <3>1
  <2>2. PICK f : Counts(m - 1, f)
    BY <2>1
  <2>3. PICK g : g = [k \in 0..m |-> IF k < m THEN f[k] ELSE IF m < 10 THEN 1 ELSE f[m \div 10] + 1]
    OBVIOUS
  <2> HIDE DEF T
  <2>4. \A k \in 0..(m - 1) : g[k] = f[k] /\ f[k] = IF k < 10 THEN 1 ELSE f[k \div 10] + 1
    BY <1>2, <2>1, <2>2, <2>3 DEF Counts
  <2>5. ASSUME NEW k \in 0..m
        PROVE  g[k] = IF k < 10 THEN 1 ELSE g[k \div 10] + 1
    <3>1. k >= 10 => g[k \div 10] = f[k \div 10]
      <4>1. k >= 10 => k \div 10 \in 0..(k - 1)
        BY TenthIsLess
      <4>2. k >= 10 => k \div 10 \in 0..(m - 1)
        BY <1>2, <4>1
      <4> QED BY <2>4, <4>2
    <3>2. CASE k = m
      BY <1>2, <2>3, <3>1, <3>2
    <3>3. CASE k # m
      <4>1. k \in 0..(m - 1)
        BY <1>2, <3>3
      <4> QED BY <2>4, <3>1, <4>1
    <3> QED BY <3>2, <3>3
  <2>6. g = [k \in 0..m |-> g[k]]
    BY <2>3
  <2>7. Counts(m, g)
    BY <2>5, <2>6 DEF Counts
  <2> QED BY <1>2, <2>7
<1> QED BY <1>3, <1>4

\* A number has a digit at least, and one or two have just one.
LEMMA DigitsAtLeast ==
  ASSUME NEW n \in Nat
  PROVE  /\ Digits(n) \in Nat /\ Digits(n) >= 1
         /\ n < 10 => Digits(n) = 1
<1> DEFINE f == CHOOSE f : f = [k \in 0..n |-> IF k < 10 THEN 1 ELSE f[k \div 10] + 1]
<1>1. \E g : g = [k \in 0..n |-> IF k < 10 THEN 1 ELSE g[k \div 10] + 1]
  <2>1. PICK g : Counts(n, g)
    BY CountsExists
  <2> QED BY <2>1 DEF Counts
<1>2. f = [k \in 0..n |-> IF k < 10 THEN 1 ELSE f[k \div 10] + 1]
  BY <1>1
<1>3. Digits(n) = f[n]
  BY DEF Digits
<1> HIDE DEF f
<1>4. \A k \in 0..n : f[k] = IF k < 10 THEN 1 ELSE f[k \div 10] + 1
  BY <1>2
<1> DEFINE T == {k \in 0..n : ~(f[k] \in Nat /\ f[k] >= 1)}
<1>5. ASSUME T # {} PROVE FALSE
  <2>1. PICK m \in T : \A k \in T : m <= k
    <3>1. T \subseteq Nat
      OBVIOUS
    <3> HIDE DEF T
    <3> QED BY <1>5, <3>1, Least
  <2>2. m \in 0..n /\ ~(f[m] \in Nat /\ f[m] >= 1)
    BY <2>1
  <2>3. m >= 10
    BY <1>4, <2>2
  <2>4. m \div 10 \in 0..(m - 1)
    BY <2>2, <2>3, TenthIsLess
  <2>5. m \div 10 \in 0..n /\ ~(m <= m \div 10)
    BY <2>2, <2>4
  <2>6. f[m \div 10] \in Nat /\ f[m \div 10] >= 1
    <3>1. m \div 10 \notin T
      <4> HIDE DEF T
      <4> QED BY <2>1, <2>5
    <3> QED BY <2>5, <3>1
  <2>7. f[m] = f[m \div 10] + 1
    BY <1>4, <2>2, <2>3
  <2> QED BY <2>2, <2>6, <2>7
<1>6. f[n] \in Nat /\ f[n] >= 1
  BY <1>5
<1>7. n < 10 => f[n] = 1
  BY <1>4
<1> QED BY <1>3, <1>6, <1>7

-----------------------------------------------------------------------------
(* Splitting and joining                                                   *)

\* f is the function behind FlattenSeq for the first n sequences.
Flattens(seqs, n, f) ==
  f = [i \in 1..n |-> IF i = 1 THEN seqs[i] ELSE f[i - 1] \o seqs[i]]

LEMMA FlattensExists ==
  ASSUME NEW seqs, NEW n \in Nat
  PROVE  \E f : Flattens(seqs, n, f)
<1> DEFINE T == {k \in Nat : ~\E f : Flattens(seqs, k, f)}
<1> SUFFICES ASSUME T # {} PROVE FALSE
  OBVIOUS
<1>1. PICK m \in T : \A k \in T : m <= k
  <2>1. T \subseteq Nat
    OBVIOUS
  <2> HIDE DEF T
  <2> QED BY <2>1, Least
<1>2. m \in Nat /\ ~\E f : Flattens(seqs, m, f)
  BY <1>1
<1>3. CASE m = 0
  <2>1. Flattens(seqs, 0, [i \in 1..0 |-> <<>>])
    BY DEF Flattens
  <2> QED BY <1>2, <1>3, <2>1
<1>4. CASE m # 0
  <2>1. m - 1 \in Nat /\ m - 1 \notin T
    <3>1. m - 1 \in Nat /\ ~(m <= m - 1)
      BY <1>2, <1>4
    <3> HIDE DEF T
    <3> QED BY <1>1, <3>1
  <2>2. PICK f : Flattens(seqs, m - 1, f)
    BY <2>1
  <2>3. PICK g : g = [i \in 1..m |-> IF i < m THEN f[i]
                                     ELSE IF m = 1 THEN seqs[m] ELSE f[m - 1] \o seqs[m]]
    OBVIOUS
  <2> HIDE DEF T
  <2>4. \A i \in 1..(m - 1) : /\ g[i] = f[i]
                              /\ f[i] = IF i = 1 THEN seqs[i] ELSE f[i - 1] \o seqs[i]
    <3>1. \A i \in 1..(m - 1) : f[i] = IF i = 1 THEN seqs[i] ELSE f[i - 1] \o seqs[i]
      BY <2>2, Zenon DEF Flattens
    <3>2. \A i \in 1..(m - 1) : i \in 1..m /\ i < m
      BY <1>2, <2>1
    <3> QED BY <2>3, <3>1, <3>2
  <2>5. ASSUME NEW i \in 1..m
        PROVE  g[i] = IF i = 1 THEN seqs[i] ELSE g[i - 1] \o seqs[i]
    <3>1. i # 1 => i - 1 \in 1..(m - 1) /\ g[i - 1] = f[i - 1]
      BY <1>2, <2>4
    <3>2. CASE i = m
      BY <1>2, <2>3, <3>1, <3>2
    <3>3. CASE i # m
      <4>1. i \in 1..(m - 1)
        BY <1>2, <3>3
      <4> QED BY <2>4, <3>1, <4>1
    <3> QED BY <3>2, <3>3
  <2>6. g = [i \in 1..m |-> g[i]]
    BY <2>3
  <2>7. Flattens(seqs, m, g)
    BY <2>5, <2>6 DEF Flattens
  <2> QED BY <1>2, <2>7
<1> QED BY <1>3, <1>4

\* FlattenSeq is its last value.
LEMMA FlattenIsLast ==
  ASSUME NEW S, NEW seqs \in Seq(S), seqs # <<>>
  PROVE  \E f : /\ FlattenSeq(seqs) = f[Len(seqs)]
                /\ \A i \in 1..Len(seqs) : f[i] = IF i = 1 THEN seqs[i] ELSE f[i - 1] \o seqs[i]
<1> DEFINE f == CHOOSE f : f = [i \in 1..Len(seqs) |-> IF i = 1 THEN seqs[i] ELSE f[i - 1] \o seqs[i]]
<1>1. Len(seqs) \in Nat /\ Len(seqs) # 0
  OBVIOUS
<1>2. \E g : g = [i \in 1..Len(seqs) |-> IF i = 1 THEN seqs[i] ELSE g[i - 1] \o seqs[i]]
  <2>1. PICK g : Flattens(seqs, Len(seqs), g)
    BY <1>1, FlattensExists
  <2> QED BY <2>1 DEF Flattens
<1>3. f = [i \in 1..Len(seqs) |-> IF i = 1 THEN seqs[i] ELSE f[i - 1] \o seqs[i]]
  BY <1>2
<1>4. FlattenSeq(seqs) = f[Len(seqs)]
  BY <1>1 DEF FlattenSeq
<1> HIDE DEF f
<1>5. \A i \in 1..Len(seqs) : f[i] = IF i = 1 THEN seqs[i] ELSE f[i - 1] \o seqs[i]
  BY <1>3
<1> QED BY <1>4, <1>5

\* q has n pieces of p, from one cut to the next.
Pieces(p, n, cut, q) ==
  /\ \A k \in 0..n : cut[k] \in 0..Len(p)
  /\ cut[0] = 0 /\ cut[n] = Len(p)
  /\ \A k \in 1..n : cut[k - 1] <= cut[k] /\ q[k] = SubSeq(p, cut[k - 1] + 1, cut[k])

\* Joined, they are p.
LEMMA JoinPieces ==
  ASSUME NEW S, NEW p \in Seq(S), NEW n \in Nat \ {0}, NEW cut,
         NEW q \in Seq(Seq(S)), Len(q) = n, Pieces(p, n, cut, q)
  PROVE  FlattenSeq(q) = p
<1>0. /\ \A k \in 0..n : cut[k] \in 0..Len(p)
      /\ cut[0] = 0 /\ cut[n] = Len(p)
      /\ \A k \in 1..n : cut[k - 1] <= cut[k] /\ q[k] = SubSeq(p, cut[k - 1] + 1, cut[k])
  BY DEF Pieces
<1>1. PICK f : /\ FlattenSeq(q) = f[n]
               /\ \A i \in 1..n : f[i] = IF i = 1 THEN q[i] ELSE f[i - 1] \o q[i]
  <2>1. q # <<>>
    BY EmptySeq
  <2>2. \E f : /\ FlattenSeq(q) = f[Len(q)]
               /\ \A i \in 1..Len(q) : f[i] = IF i = 1 THEN q[i] ELSE f[i - 1] \o q[i]
    BY <2>1, FlattenIsLast
  <2> QED BY <2>2
<1> DEFINE R == {k \in 1..n : f[k] # SubSeq(p, 1, cut[k])}
<1>2. ASSUME R # {} PROVE FALSE
  <2>1. PICK m \in R : \A k \in R : m <= k
    <3>1. R \subseteq Nat
      OBVIOUS
    <3> HIDE DEF R
    <3> QED BY <1>2, <3>1, Least
  <2>2. m \in 1..n /\ f[m] # SubSeq(p, 1, cut[m])
    BY <2>1
  <2>3. m # 1
    <3>1. 1 \in 1..n /\ 1 - 1 = 0
      OBVIOUS
    <3>2. q[1] = SubSeq(p, cut[1 - 1] + 1, cut[1])
      BY <1>0, <3>1
    <3>3. cut[1 - 1] + 1 = 1
      BY <1>0, <3>1
    <3>4. f[1] = q[1]
      BY <1>1, <3>1
    <3> HIDE DEF R
    <3>5. f[1] = SubSeq(p, 1, cut[1])
      BY <3>2, <3>3, <3>4
    <3> QED BY <2>2, <3>5
  <2>4. m - 1 \in 1..n /\ m - 1 \in 0..n /\ m \in 0..n /\ ~(m <= m - 1)
    BY <2>2, <2>3
  <2>5. f[m - 1] = SubSeq(p, 1, cut[m - 1])
    <3>1. m - 1 \notin R
      <4> HIDE DEF R
      <4> QED BY <2>1, <2>4
    <3> QED BY <2>4, <3>1
  <2>6. PICK a, b : /\ a = cut[m - 1] /\ b = cut[m]
                    /\ a \in 0..Len(p) /\ b \in a..Len(p)
    <3>1. cut[m - 1] \in 0..Len(p) /\ cut[m] \in 0..Len(p) /\ cut[m - 1] <= cut[m]
      BY <1>0, <2>2, <2>4
    <3>2. cut[m] \in cut[m - 1]..Len(p)
      BY <3>1
    <3> QED BY <3>1, <3>2
  <2>7. SubSeq(p, 1, a) \o SubSeq(p, a + 1, b) = SubSeq(p, 1, b)
    <3>1. 1 \in 1..(Len(p) + 1) /\ a \in (1 - 1)..Len(p)
      BY <2>6
    <3> QED BY <2>6, <3>1, ConcatAdjacentSubSeq
  <2>8. f[m] = f[m - 1] \o q[m] /\ q[m] = SubSeq(p, a + 1, b)
    BY <1>0, <1>1, <2>2, <2>3, <2>6
  <2> QED BY <2>2, <2>5, <2>6, <2>7, <2>8
<1>3. f[n] = SubSeq(p, 1, Len(p))
  <2>1. n \in 1..n
    OBVIOUS
  <2> QED BY <1>0, <1>2, <2>1
<1> QED BY <1>1, <1>3, SubSeqFull

\* A payload that is not empty has at least one chunk, and before its last chunk there
\* is something left.
LEMMA TotalFits ==
  ASSUME NEW l \in Nat \ {0}, NEW c \in Nat \ {0}, NEW total, total = (l + c - 1) \div c
  PROVE  /\ total \in Nat \ {0}
         /\ l <= total * c
         /\ \A k \in 0..(total - 1) : k * c < l /\ (k + 1) * c = k * c + c
<1>1. l + c - 1 \in Nat
  OBVIOUS
<1>2. PICK n \in Nat : n = l + c - 1
  BY <1>1
<1>3. total \in Nat /\ c * total <= n /\ n < c * total + c
  BY <1>2
<1>4. total # 0
  BY <1>2, <1>3
<1>5. l <= total * c
  BY <1>2, <1>3
<1>6. ASSUME NEW k \in 0..(total - 1)
      PROVE  k * c < l /\ (k + 1) * c = k * c + c
  <2>1. k \in Nat /\ total - 1 - k \in Nat
    BY <1>3
  <2>2. (k + 1) * c = k * c + c
    BY <2>1
  <2>3. (total - 1 - k) * c \in Nat
    BY <2>1
  <2>4. c * total = k * c + c + (total - 1 - k) * c
    BY <1>3, <2>1
  <2>5. c * total \in Nat /\ k * c \in Nat
    BY <1>3, <2>1
  <2> QED BY <1>2, <1>3, <2>2, <2>3, <2>4, <2>5
<1> QED BY <1>3, <1>4, <1>5, <1>6

\* What a payload is split into makes it whole again.
LEMMA ChunksJoin ==
  ASSUME NEW p \in Payload, p # <<>>, NEW q \in Seq(Payload), Len(q) = Total(p),
         \A k \in 1..Total(p) : q[k] = Chunk(p, k - 1)
  PROVE  FlattenSeq(q) = p
<1> DEFINE c == ChunkBytes
           l == Len(p)
           total == Total(p)
           cut == [k \in 0..total |-> IF k * c < l THEN k * c ELSE l]
<1>1. c \in Nat \ {0} /\ l \in Nat \ {0} /\ p \in Seq(Byte)
  BY PacketAssumption DEF Payload
<1>2. total = (l + c - 1) \div c
  BY DEF Total
<1> HIDE DEF c, l, total
<1>3. /\ total \in Nat \ {0} /\ l <= total * c
      /\ \A k \in 0..(total - 1) : k * c < l /\ (k + 1) * c = k * c + c
  BY <1>1, <1>2, TotalFits
<1>4. \A k \in 0..total : cut[k] \in 0..l
  <2>1. \A k \in Nat : k * c \in Nat
    BY <1>1
  <2> QED BY <1>1, <1>3, <2>1
<1>5. cut[0] = 0 /\ cut[total] = l
  <2>1. 0 \in 0..total /\ total \in 0..total /\ 0 * c = 0 /\ total * c \in Nat
    BY <1>1, <1>3
  <2> QED BY <1>1, <1>3, <2>1
<1>6. ASSUME NEW k \in 1..total
      PROVE  cut[k - 1] <= cut[k] /\ q[k] = SubSeq(p, cut[k - 1] + 1, cut[k])
  <2>1. k - 1 \in 0..(total - 1) /\ k - 1 \in 0..total /\ k \in 0..total /\ (k - 1) + 1 = k
    BY <1>3
  <2>2. (k - 1) * c < l /\ k * c = (k - 1) * c + c
    BY <1>3, <2>1
  <2>3. (k - 1) * c \in Nat /\ k * c \in Nat
    BY <1>1, <2>1
  <2>4. cut[k - 1] = (k - 1) * c /\ cut[k] = IF k * c < l THEN k * c ELSE l
    BY <2>1, <2>2
  <2>5. cut[k - 1] <= cut[k]
    BY <1>1, <2>2, <2>3, <2>4
  <2>6. Chunk(p, k - 1) = SubSeq(p, (k - 1) * c + 1, IF k * c < l THEN k * c ELSE l)
    BY <2>1 DEF Chunk, c, l
  <2>7. q[k] = Chunk(p, k - 1)
    BY DEF total
  <2> QED BY <2>4, <2>5, <2>6, <2>7
<1>7. q \in Seq(Seq(Byte)) /\ Len(q) = total
  BY DEF Payload, total
<1> HIDE DEF cut
<1>8. Pieces(p, total, cut, q)
  BY <1>4, <1>5, <1>6 DEF Pieces, l
<1> QED BY <1>1, <1>3, <1>7, <1>8, JoinPieces

-----------------------------------------------------------------------------
(* Groups: the fragments of a message or the chunks of a file              *)

\* The i-th packet of the group whose id has the number n.
Piece(call, n, kind, pl, i) ==
  [kind |-> kind, from |-> call, to |-> Peer, id |-> <<call, n + i>>, receiptFor |-> NoId,
   group |-> <<call, n>>, hash |-> pl, total |-> Total(pl), index |-> i - 1,
   data |-> Chunk(pl, i - 1), chunkHash |-> Chunk(pl, i - 1)]

Group(call, n, kind, pl) == [i \in 1..Total(pl) |-> Piece(call, n, kind, pl, i)]

PieceKind == {"fragment", "file-chunk"}

\* A payload that can be split.
Something == {pl \in Payload : pl # <<>>}

\* A packet depends on the call and the number of its group and on nothing else of the
\* state in which it was built.
LEMMA PartIsPiece ==
  ASSUME NEW s \in ProtocolState, NEW kind \in Kind, NEW pl \in Payload, NEW i \in Nat \ {0}
  PROVE  Part(s, kind, Peer, pl, i) = Piece(s.call, s.next, kind, pl, i)
<1>1. PICK s2 : s2 = Advanced(s, i)
  OBVIOUS
<1>2. s2.call = s.call /\ s2.next = s.next + i
  BY <1>1, AdvancedType
<1>3. PICK c, t, j, call, id, g : /\ c = Chunk(pl, i - 1) /\ t = Total(pl) /\ j = i - 1
                                  /\ call = s.call /\ id = <<s.call, s.next + i>>
                                  /\ g = <<s.call, s.next>>
  OBVIOUS
<1>4. PICK b : b = BasePacket(s2, kind, Peer)
  OBVIOUS
<1>5. b = [kind |-> kind, from |-> call, to |-> Peer, id |-> id,
           receiptFor |-> NoId, group |-> NoId, hash |-> <<>>, total |-> 0, index |-> 0,
           data |-> <<>>, chunkHash |-> <<>>]
  BY <1>2, <1>3, <1>4 DEF BasePacket, NextId
<1>6. Part(s, kind, Peer, pl, i) =
        [b EXCEPT !.group = g, !.hash = pl, !.total = t, !.index = j,
                  !.data = c, !.chunkHash = c]
  BY <1>1, <1>3, <1>4, Zenon DEF Part, NextId
<1>7. Piece(s.call, s.next, kind, pl, i) =
        [kind |-> kind, from |-> call, to |-> Peer, id |-> id, receiptFor |-> NoId,
         group |-> g, hash |-> pl, total |-> t, index |-> j, data |-> c, chunkHash |-> c]
  BY <1>3 DEF Piece
<1>8. [b EXCEPT !.group = g, !.hash = pl, !.total = t, !.index = j,
                !.data = c, !.chunkHash = c] =
        [kind |-> kind, from |-> call, to |-> Peer, id |-> id, receiptFor |-> NoId,
         group |-> g, hash |-> pl, total |-> t, index |-> j, data |-> c, chunkHash |-> c]
  <2>1. PICK b1 : b1 = [b EXCEPT !.group = g]
    OBVIOUS
  <2>2. b1 = [kind |-> kind, from |-> call, to |-> Peer, id |-> id, receiptFor |-> NoId,
             group |-> g, hash |-> <<>>, total |-> 0, index |-> 0,
             data |-> <<>>, chunkHash |-> <<>>]
    BY <1>5, <2>1
  <2>3. PICK b2 : b2 = [b1 EXCEPT !.hash = pl]
    OBVIOUS
  <2>4. b2 = [kind |-> kind, from |-> call, to |-> Peer, id |-> id, receiptFor |-> NoId,
             group |-> g, hash |-> pl, total |-> 0, index |-> 0,
             data |-> <<>>, chunkHash |-> <<>>]
    BY <2>2, <2>3
  <2>5. PICK b3 : b3 = [b2 EXCEPT !.total = t]
    OBVIOUS
  <2>6. b3 = [kind |-> kind, from |-> call, to |-> Peer, id |-> id, receiptFor |-> NoId,
             group |-> g, hash |-> pl, total |-> t, index |-> 0,
             data |-> <<>>, chunkHash |-> <<>>]
    BY <2>4, <2>5
  <2>7. PICK b4 : b4 = [b3 EXCEPT !.index = j]
    OBVIOUS
  <2>8. b4 = [kind |-> kind, from |-> call, to |-> Peer, id |-> id, receiptFor |-> NoId,
             group |-> g, hash |-> pl, total |-> t, index |-> j,
             data |-> <<>>, chunkHash |-> <<>>]
    BY <2>6, <2>7
  <2>9. PICK b5 : b5 = [b4 EXCEPT !.data = c]
    OBVIOUS
  <2>10. b5 = [kind |-> kind, from |-> call, to |-> Peer, id |-> id, receiptFor |-> NoId,
             group |-> g, hash |-> pl, total |-> t, index |-> j,
             data |-> c, chunkHash |-> <<>>]
    BY <2>8, <2>9
  <2>11. PICK b6 : b6 = [b5 EXCEPT !.chunkHash = c]
    OBVIOUS
  <2>12. b6 = [kind |-> kind, from |-> call, to |-> Peer, id |-> id, receiptFor |-> NoId,
             group |-> g, hash |-> pl, total |-> t, index |-> j,
             data |-> c, chunkHash |-> c]
    BY <2>10, <2>11
  <2> QED BY <2>1, <2>3, <2>5, <2>7, <2>9, <2>11, <2>12
<1> QED BY <1>6, <1>7, <1>8

LEMMA PartsAreGroup ==
  ASSUME NEW s \in ProtocolState, NEW kind \in Kind, NEW pl \in Payload
  PROVE  Parts(s, kind, Peer, pl) = Group(s.call, s.next, kind, pl)
<1>1. Total(pl) \in Nat
  BY ChunkType
<1>2. \A i \in 1..Total(pl) : Part(s, kind, Peer, pl, i) = Piece(s.call, s.next, kind, pl, i)
  BY <1>1, PartIsPiece
<1> QED BY <1>2, Zenon DEF Parts, Group

\* What is in a piece.
LEMMA PieceFields ==
  ASSUME NEW call, NEW n, NEW kind, NEW pl, NEW i
  PROVE  LET p == Piece(call, n, kind, pl, i)
         IN /\ p.kind = kind /\ p.from = call /\ p.id = <<call, n + i>>
            /\ p.group = <<call, n>> /\ p.hash = pl /\ p.total = Total(pl)
            /\ p.index = i - 1
            /\ p.data = Chunk(pl, i - 1) /\ p.chunkHash = Chunk(pl, i - 1)
BY Zenon DEF Piece

\* What is in a group.
LEMMA GroupHas ==
  ASSUME NEW call \in Call, NEW n \in Nat, NEW kind \in Kind, NEW pl \in Something
  PROVE  /\ Total(pl) \in Nat \ {0}
         /\ Group(call, n, kind, pl) \in Seq(Packet)
         /\ Len(Group(call, n, kind, pl)) = Total(pl)
         /\ Group(call, n, kind, pl) # <<>>
         /\ \A i \in 1..Total(pl) : Group(call, n, kind, pl)[i] = Piece(call, n, kind, pl, i)
<1>1. Total(pl) \in Nat \ {0}
  <2>1. Len(pl) \in Nat \ {0} /\ ChunkBytes \in Nat \ {0}
    BY PacketAssumption DEF Something, Payload
  <2> QED BY <2>1, TotalFits DEF Total
<1>2. PICK s : s = [call |-> call, next |-> n, seen |-> {}]
  OBVIOUS
<1>3. s \in ProtocolState /\ s.call = call /\ s.next = n
  BY <1>2 DEF ProtocolState
<1>4. pl \in Payload
  BY DEF Something
<1>5. PICK g : g = Group(call, n, kind, pl)
  OBVIOUS
<1>6. g = Parts(s, kind, Peer, pl)
  BY <1>3, <1>4, <1>5, PartsAreGroup
<1>7. g \in Seq(Packet)
  BY <1>3, <1>4, <1>6, PartsType
<1>8. PICK t \in Nat \ {0} : t = Total(pl)
  BY <1>1
<1>9. g = [i \in 1..t |-> Piece(call, n, kind, pl, i)]
  BY <1>5, <1>8, Zenon DEF Group
<1>10. Len(g) = t /\ \A i \in 1..t : g[i] = Piece(call, n, kind, pl, i)
  BY <1>7, <1>9
<1>11. g # <<>>
  BY <1>10
<1> QED BY <1>5, <1>7, <1>8, <1>10, <1>11

\* Joined in order, the data of a group is the payload it was split from.
LEMMA GroupJoins ==
  ASSUME NEW call \in Call, NEW n \in Nat, NEW kind \in Kind, NEW pl \in Something,
         NEW g, g = Group(call, n, kind, pl)
  PROVE  FlattenSeq([i \in DOMAIN g |-> g[i].data]) = pl
<1>1. /\ Total(pl) \in Nat \ {0} /\ g \in Seq(Packet) /\ Len(g) = Total(pl)
      /\ \A i \in 1..Total(pl) : g[i] = Piece(call, n, kind, pl, i)
  BY GroupHas
<1>2. PICK t \in Nat \ {0} : t = Total(pl)
  BY <1>1
<1>3. DOMAIN g = 1..t
  BY <1>1, <1>2
<1>4. \A i \in 1..t : g[i].data = Chunk(pl, i - 1) /\ Chunk(pl, i - 1) \in Payload
  <2>1. pl \in Payload
    BY DEF Something
  <2>2. \A i \in 1..t : i - 1 \in Nat
    BY <1>2
  <2>3. \A i \in 1..t : g[i].data = Chunk(pl, i - 1)
    <3>1. \A i \in 1..t : g[i] = Piece(call, n, kind, pl, i)
      BY <1>1, <1>2
    <3> QED BY <3>1, PieceFields
  <2> QED BY <2>1, <2>2, <2>3, ChunkType
<1>5. PICK q : q = [i \in DOMAIN g |-> g[i].data]
  OBVIOUS
<1>6. \A i \in 1..t : q[i] = Chunk(pl, i - 1)
  BY <1>3, <1>4, <1>5
<1>7. q \in Seq(Payload) /\ Len(q) = t
  <2>1. q = [i \in 1..t |-> q[i]] /\ \A i \in 1..t : q[i] \in Payload
    BY <1>3, <1>4, <1>5, <1>6
  <2> QED BY <1>2, <2>1
<1>8. pl \in Payload /\ pl # <<>>
  BY DEF Something
<1>9. FlattenSeq(q) = pl
  BY <1>2, <1>6, <1>7, <1>8, ChunksJoin
<1> QED BY <1>5, <1>9

-----------------------------------------------------------------------------
(* Putting a list together                                                 *)

\* A list as long as l in which each number below l is the index of an element has no
\* index twice.
LEMMA EachOnce ==
  ASSUME NEW l \in Nat, NEW f, \A i \in 1..l : f[i] \in 1..l,
         \A k \in 1..l : \E i \in 1..l : f[i] = k
  PROVE  \A i, j \in 1..l : f[i] = f[j] => i = j
<1>1. PICK h : h = [i \in 1..l |-> f[i]]
  OBVIOUS
<1>2. h \in Surjection(1..l, 1..l)
  BY <1>1 DEF Surjection
<1>3. IsFiniteSet(1..l)
  BY FS_Interval
<1>4. h \in Injection(1..l, 1..l)
  BY <1>2, <1>3, FS_Surjection
<1>5. \A i, j \in 1..l : h[i] = h[j] => i = j
  BY <1>4 DEF Injection, IsInjective
<1> QED BY <1>1, <1>5

\* All packets of a group, each once and in any order, make its payload.
LEMMA ShuffleIsWhole ==
  ASSUME NEW call \in Call, NEW n \in Nat, NEW kind \in Kind, NEW pl \in Something,
         NEW g, g = Group(call, n, kind, pl), NEW ps \in Seq(Packet), IsShuffle(ps, g)
  PROVE  /\ Whole(ps) /\ Joined(ps) = pl
         /\ \A i \in DOMAIN ps : ps[i].kind = kind
<1>1. PICK t \in Nat \ {0} : t = Total(pl)
  BY GroupHas
<1>2. PICK c : c = [k \in 1..t |-> Chunk(pl, k - 1)]
  OBVIOUS
<1>3. /\ g \in Seq(Packet) /\ Len(g) = t /\ DOMAIN g = 1..t
      /\ \A i \in 1..t : g[i] = Piece(call, n, kind, pl, i)
  BY <1>1, GroupHas
<1>4. PICK gid : gid = <<call, n>>
  OBVIOUS
<1>5. \A i \in 1..t : /\ g[i].kind = kind /\ g[i].group = gid /\ g[i].hash = pl
                      /\ g[i].total = t /\ g[i].index = i - 1
                      /\ g[i].data = c[i] /\ g[i].chunkHash = c[i]
  BY <1>1, <1>2, <1>3, <1>4, PieceFields
<1>6. Len(ps) = t /\ DOMAIN ps = 1..t /\ ps # <<>> /\ 1 \in 1..t
  BY <1>1, <1>3 DEF IsShuffle
<1>0. {ps[i] : i \in 1..t} = {g[k] : k \in 1..t}
  <2>1. Range(ps) = {ps[i] : i \in 1..t} /\ Range(g) = {g[k] : k \in 1..t}
    BY <1>3, <1>6, Zenon DEF Range
  <2> QED BY <2>1 DEF IsShuffle
<1>7. ASSUME NEW i \in 1..t PROVE \E k \in 1..t : ps[i] = g[k]
  <2>1. ps[i] \in {ps[j] : j \in 1..t}
    OBVIOUS
  <2>2. ps[i] \in {g[k] : k \in 1..t}
    BY <1>0, <2>1
  <2> QED BY <2>2
<1>8. ASSUME NEW k \in 1..t PROVE \E i \in 1..t : ps[i] = g[k]
  <2>1. g[k] \in {g[j] : j \in 1..t}
    OBVIOUS
  <2>2. g[k] \in {ps[i] : i \in 1..t}
    BY <1>0, <2>1
  <2> QED BY <2>2
<1>9. ASSUME NEW i \in 1..t
      PROVE  /\ ps[i].kind = kind /\ ps[i].group = gid /\ ps[i].hash = pl
             /\ ps[i].total = t /\ ps[i].data = ps[i].chunkHash
             /\ \E k \in 1..t : ps[i].index = k - 1
             /\ ps[i].index + 1 \in 1..t
  <2>1. PICK k \in 1..t : ps[i] = g[k]
    BY <1>7
  <2>2. ps[i].index = k - 1 /\ (k - 1) + 1 = k
    BY <1>5, <2>1
  <2> QED BY <1>5, <2>1, <2>2
<1>10. SameGroup(ps)
  BY <1>6, <1>9, Zenon DEF SameGroup
<1>11. OneOfEach(ps)
  <2>1. PICK f : f = [i \in 1..t |-> ps[i].index + 1]
    OBVIOUS
  <2>2. \A i \in 1..t : f[i] = ps[i].index + 1 /\ f[i] \in 1..t
    BY <1>9, <2>1
  <2>3. \A k \in 1..t : \E i \in 1..t : f[i] = k
    <3>1. ASSUME NEW k \in 1..t PROVE \E i \in 1..t : f[i] = k
      <4>1. PICK i \in 1..t : ps[i] = g[k]
        BY <1>8
      <4>2. ps[i].index = k - 1 /\ (k - 1) + 1 = k
        BY <1>5, <4>1
      <4> QED BY <2>2, <4>2
    <3> QED BY <3>1
  <2>4. \A i, j \in 1..t : f[i] = f[j] => i = j
    BY <2>2, <2>3, EachOnce
  <2>5. \A i, j \in 1..t : ps[i].index = ps[j].index => i = j
    BY <2>2, <2>4
  <2>6. \A i \in 1..t : \E k \in 1..t : ps[i].index = k - 1
    BY <1>9
  <2>7. ASSUME NEW k \in 1..t PROVE \E i \in 1..t : ps[i].index = k - 1
    <3>1. PICK i \in 1..t : ps[i] = g[k]
      BY <1>8
    <3> QED BY <1>5, <3>1
  <2>8. {ps[i].index : i \in 1..t} = 0..(t - 1)
    <3>1. ASSUME NEW x \in {ps[i].index : i \in 1..t} PROVE x \in 0..(t - 1)
      BY <2>6
    <3>2. ASSUME NEW x \in 0..(t - 1) PROVE x \in {ps[i].index : i \in 1..t}
      <4>1. x + 1 \in 1..t /\ (x + 1) - 1 = x
        OBVIOUS
      <4> QED BY <2>7, <4>1
    <3> QED BY <3>1, <3>2
  <2>9. Len(ps) = ps[1].total
    BY <1>6, <1>9
  <2> QED BY <1>6, <1>9, <2>5, <2>8, <2>9 DEF OneOfEach
<1>12. Joined(ps) = pl
  <2>1. ASSUME NEW k \in 1..t
        PROVE  (CHOOSE p \in Range(ps) : p.index = k - 1).data = g[k].data
    <3>1. g[k] \in Range(ps) /\ g[k].index = k - 1
      BY <1>5, <1>6, <1>8, ZenonT(60) DEF Range
    <3>2. PICK p : p = CHOOSE x \in Range(ps) : x.index = k - 1
      OBVIOUS
    <3>3. p \in Range(ps) /\ p.index = k - 1
      BY <3>1, <3>2
    <3>4. PICK m \in 1..t : p = g[m]
      <4>1. PICK i \in 1..t : p = ps[i]
        BY <1>6, <3>3, Zenon DEF Range
      <4> QED BY <1>7, <4>1
    <3>5. m - 1 = k - 1
      BY <1>5, <3>3, <3>4
    <3>6. m = k
      BY <3>5
    <3> QED BY <3>2, <3>4, <3>6
  <2>2. [k \in 1..t |-> (CHOOSE p \in Range(ps) : p.index = k - 1).data]
          = [i \in DOMAIN g |-> g[i].data]
    BY <1>3, <2>1
  <2>3. Joined(ps) = FlattenSeq([i \in DOMAIN g |-> g[i].data])
    BY <1>6, <2>2, Zenon DEF Joined
  <2> QED BY <2>3, GroupJoins
<1>13. Whole(ps)
  BY <1>6, <1>9, <1>10, <1>11, <1>12 DEF Whole
<1> QED BY <1>6, <1>9, <1>12, <1>13

\* Every group was built by a station, for a payload that is not empty.
GroupsOnly ==
  \A g \in groups : \E call \in Call, n \in Nat, kind \in PieceKind, pl \in Something :
    g = Group(call, n, kind, pl)

\* Every packet in ps is one of a group of the kind.
Gotten(ps, kind) == \A i \in DOMAIN ps : \E g \in Sent(kind) : ps[i] \in Range(g)

LEMMA SentIsGroup ==
  ASSUME GroupsOnly, NEW kind, NEW g \in Sent(kind)
  PROVE  \E call \in Call, n \in Nat, pl \in Something :
           kind \in PieceKind /\ g = Group(call, n, kind, pl)
<1>1. g \in groups /\ g # <<>> /\ g[1].kind = kind
  BY DEF Sent
<1>2. PICK call \in Call, n \in Nat, k \in PieceKind, pl \in Something :
        g = Group(call, n, k, pl)
  BY <1>1 DEF GroupsOnly
<1>3. k \in Kind
  BY <1>2 DEF PieceKind, Kind
<1>4. 1 \in 1..Total(pl) /\ g[1] = Piece(call, n, k, pl, 1)
  BY <1>2, <1>3, GroupHas
<1>5. k = kind
  BY <1>1, <1>4, PieceFields
<1> QED BY <1>2, <1>5

\* A list that passes the checks is all of one group, each once.
LEMMA WholeIsShuffle ==
  ASSUME GroupsOnly, NEW kind, NEW ps \in Seq(Packet), Whole(ps), Gotten(ps, kind)
  PROVE  \E g \in Sent(kind) : IsShuffle(ps, g)
<1>1. Len(ps) \in Nat \ {0} /\ DOMAIN ps = 1..Len(ps) /\ 1 \in DOMAIN ps
  BY DEF Whole
<1>2. PICK g \in Sent(kind) : ps[1] \in Range(g)
  BY <1>1 DEF Gotten
<1>3. PICK call \in Call, n \in Nat, pl \in Something :
        kind \in PieceKind /\ g = Group(call, n, kind, pl)
  BY SentIsGroup
<1>4. kind \in Kind
  BY <1>3 DEF PieceKind, Kind
<1>5. PICK t \in Nat \ {0} : t = Total(pl)
  BY <1>4, GroupHas
<1>6. /\ g \in Seq(Packet) /\ Len(g) = t /\ DOMAIN g = 1..t
      /\ \A i \in 1..t : g[i] = Piece(call, n, kind, pl, i)
  BY <1>3, <1>4, <1>5, GroupHas
<1>7. \A i \in 1..t : /\ g[i].group = <<call, n>> /\ g[i].hash = pl
                      /\ g[i].total = t /\ g[i].index = i - 1
  BY <1>5, <1>6, PieceFields
<1>8. ps[1].group = <<call, n>> /\ ps[1].hash = pl /\ ps[1].total = t
  BY <1>2, <1>6, <1>7 DEF Range
<1>9. /\ \A i \in DOMAIN ps : ps[i].group = <<call, n>> /\ ps[i].hash = pl
      /\ Len(ps) = t /\ {ps[i].index : i \in 1..t} = 0..(t - 1)
  BY <1>1, <1>8 DEF Whole, SameGroup, OneOfEach
<1>10. ASSUME NEW i \in 1..t
       PROVE  \E k \in 1..t : ps[i] = g[k]
  <2>1. i \in DOMAIN ps
    BY <1>1, <1>9
  <2>2. PICK h \in Sent(kind) : ps[i] \in Range(h)
    BY <2>1 DEF Gotten
  <2>3. PICK ocall \in Call, on \in Nat, opl \in Something : h = Group(ocall, on, kind, opl)
    BY SentIsGroup
  <2>4. /\ Total(opl) \in Nat /\ DOMAIN h = 1..Total(opl)
        /\ \A k \in 1..Total(opl) : h[k] = Piece(ocall, on, kind, opl, k)
    BY <1>4, <2>3, GroupHas
  <2>5. PICK k \in 1..Total(opl) : ps[i] = Piece(ocall, on, kind, opl, k)
    BY <2>2, <2>4 DEF Range
  <2>6. ps[i].group = <<ocall, on>> /\ ps[i].hash = opl
    BY <2>5, PieceFields
  <2>7. <<ocall, on>> = <<call, n>> /\ opl = pl
    BY <1>9, <2>1, <2>6
  <2>8. ocall = call /\ on = n
    BY <2>7
  <2> QED BY <1>5, <1>6, <2>5, <2>7, <2>8
<1>11. ASSUME NEW k \in 1..t
       PROVE  \E i \in 1..t : ps[i] = g[k]
  <2>1. k - 1 \in 0..(t - 1)
    OBVIOUS
  <2>2. PICK i \in 1..t : ps[i].index = k - 1
    BY <1>9, <2>1
  <2>3. PICK m \in 1..t : ps[i] = g[m]
    BY <1>10
  <2>4. m - 1 = k - 1
    BY <1>7, <2>2, <2>3
  <2>5. m = k
    BY <2>4
  <2> QED BY <2>3, <2>5
<1>12. Range(ps) = Range(g)
  <2>1. Range(ps) = {ps[i] : i \in 1..t} /\ Range(g) = {g[k] : k \in 1..t}
    BY <1>1, <1>6, <1>9, Zenon DEF Range
  <2>2. ASSUME NEW x \in {ps[i] : i \in 1..t} PROVE x \in {g[k] : k \in 1..t}
    BY <1>10
  <2>3. ASSUME NEW x \in {g[k] : k \in 1..t} PROVE x \in {ps[i] : i \in 1..t}
    <3>1. PICK k \in 1..t : x = g[k]
      BY <2>3
    <3> QED BY <1>11, <3>1
  <2> QED BY <2>1, <2>2, <2>3
<1> QED BY <1>6, <1>9, <1>12 DEF IsShuffle

\* So what comes of a list is what the property says, whatever the list is.
LEMMA AsExpected ==
  ASSUME GroupsOnly, NEW kind, NEW ps \in Seq(Packet)
  PROVE  /\ (\E g \in Sent(kind) : IsShuffle(ps, g)) =>
              /\ Whole(ps) /\ Expected(ps, kind) = Joined(ps)
              /\ \A i \in DOMAIN ps : ps[i].kind = kind
         /\ Gotten(ps, kind) /\ ~Whole(ps) => Expected(ps, kind) = Failed
         /\ Gotten(ps, kind) /\ Whole(ps) => Expected(ps, kind) = Joined(ps)
<1>1. ASSUME \E g \in Sent(kind) : IsShuffle(ps, g)
      PROVE  /\ Whole(ps) /\ Expected(ps, kind) = Joined(ps)
             /\ \A i \in DOMAIN ps : ps[i].kind = kind
  <2>1. PICK g : g = CHOOSE qs \in Sent(kind) : IsShuffle(ps, qs)
    OBVIOUS
  <2>2. g \in Sent(kind) /\ IsShuffle(ps, g)
    BY <1>1, <2>1
  <2>3. PICK call \in Call, n \in Nat, pl \in Something :
          kind \in PieceKind /\ g = Group(call, n, kind, pl)
    BY <2>2, SentIsGroup
  <2>4. kind \in Kind
    BY <2>3 DEF PieceKind, Kind
  <2>5. FlattenSeq([i \in DOMAIN g |-> g[i].data]) = pl
    BY <2>3, <2>4, GroupJoins
  <2>6. /\ Whole(ps) /\ Joined(ps) = pl
        /\ \A i \in DOMAIN ps : ps[i].kind = kind
    BY <2>2, <2>3, <2>4, ShuffleIsWhole
  <2>7. Expected(ps, kind) = pl
    BY <1>1, <2>1, <2>5 DEF Expected
  <2> QED BY <2>6, <2>7
<1>2. ASSUME ~\E g \in Sent(kind) : IsShuffle(ps, g)
      PROVE  Expected(ps, kind) = Failed
  BY <1>2, Zenon DEF Expected
<1> QED BY <1>1, <1>2, WholeIsShuffle

-----------------------------------------------------------------------------
(* The packets of a command                                                *)

\* What a list ends with is picked with it when all of it has one of the kinds, and
\* left out when none of it has.
LEMMA KindsBehind ==
  ASSUME NEW s \in Seq(Packet), NEW t \in Seq(Packet), NEW kinds
  PROVE  /\ (\A i \in 1..Len(t) : t[i].kind \in kinds) =>
              OfKinds(s \o t, kinds) = OfKinds(s, kinds) \o t
         /\ (\A i \in 1..Len(t) : t[i].kind \notin kinds) =>
              OfKinds(s \o t, kinds) = OfKinds(s, kinds)
<1>1. PICK u : u = s \o t
  OBVIOUS
<1>2. /\ Len(s) \in Nat /\ Len(t) \in Nat /\ DOMAIN s = 1..Len(s)
      /\ u \in Seq(Packet) /\ DOMAIN u = 1..(Len(s) + Len(t))
      /\ \A i \in 1..Len(s) : u[i] = s[i]
      /\ \A i \in 1..Len(t) : u[Len(s) + i] = t[i]
  BY <1>1
<1>3. PICK D, E : /\ D = {i \in DOMAIN s : s[i].kind \in kinds}
                  /\ E = {i \in DOMAIN u : u[i].kind \in kinds}
  OBVIOUS
<1>4. OfKinds(s, kinds) = Picked(s, D) /\ OfKinds(u, kinds) = Picked(u, E)
  BY <1>3, Zenon DEF OfKinds
<1>5. \A i \in 1..Len(s) : i \in E <=> i \in D
  <2>1. \A i \in 1..Len(s) : i \in DOMAIN u
    BY <1>2
  <2> QED BY <1>2, <1>3, <2>1
<1>6. Picked(s, E) = Picked(s, D)
  BY <1>5, PickedSame
<1>7. \A i \in 1..Len(t) : Len(s) + i \in E <=> t[i].kind \in kinds
  <2>1. \A i \in 1..Len(t) : Len(s) + i \in DOMAIN u
    BY <1>2
  <2> QED BY <1>2, <1>3, <2>1
<1>8. ASSUME \A i \in 1..Len(t) : t[i].kind \in kinds
      PROVE  OfKinds(u, kinds) = OfKinds(s, kinds) \o t
  <2>1. \A i \in 1..Len(t) : Len(s) + i \in E
    BY <1>7, <1>8
  <2>2. Picked(s \o t, E) = Picked(s, E) \o t
    BY <2>1, PickedBehind
  <2> QED BY <1>1, <1>4, <1>6, <2>2
<1>9. ASSUME \A i \in 1..Len(t) : t[i].kind \notin kinds
      PROVE  OfKinds(u, kinds) = OfKinds(s, kinds)
  <2>1. \A i \in 1..Len(t) : Len(s) + i \notin E
    BY <1>7, <1>9
  <2>2. Picked(s \o t, E) = Picked(s, E)
    BY <2>1, PickedBefore
  <2> QED BY <1>1, <1>4, <1>6, <2>2
<1> QED BY <1>1, <1>8, <1>9

\* Nothing is left of a list that has none of the kinds.
LEMMA KindsNone ==
  ASSUME NEW s \in Seq(Packet), NEW kinds, \A i \in 1..Len(s) : s[i].kind \notin kinds
  PROVE  OfKinds(s, kinds) = <<>>
<1>1. PICK D : D = {i \in DOMAIN s : s[i].kind \in kinds}
  OBVIOUS
<1>2. \A i \in 1..Len(s) : i \notin D
  BY <1>1
<1>3. Picked(s, D) = <<>>
  BY <1>2, PickedNone
<1> QED BY <1>1, <1>3 DEF OfKinds

\* What is picked is from the list and of one of the kinds.
LEMMA KindsElements ==
  ASSUME NEW s \in Seq(Packet), NEW kinds
  PROVE  /\ OfKinds(s, kinds) \in Seq(Packet)
         /\ \A i \in DOMAIN OfKinds(s, kinds) :
              \E k \in DOMAIN s : s[k].kind \in kinds /\ OfKinds(s, kinds)[i] = s[k]
<1>1. PICK D : D = {i \in DOMAIN s : s[i].kind \in kinds}
  OBVIOUS
<1>2. PICK q : q = Picked(s, D)
  OBVIOUS
<1>3. OfKinds(s, kinds) = q
  BY <1>1, <1>2 DEF OfKinds
<1>4. q \in Seq(Packet) /\ DOMAIN q = 1..Len(q)
  BY <1>2, PickedType
<1>5. \A i \in 1..Len(q) : \E k \in 1..Len(s) : k \in D /\ q[i] = s[k]
  BY <1>2, PickedElements
<1>6. \A i \in DOMAIN q : \E k \in DOMAIN s : s[k].kind \in kinds /\ q[i] = s[k]
  BY <1>1, <1>4, <1>5
<1> QED BY <1>3, <1>4, <1>6

\* The mail and its ack, the first packets of every command.
MailOf(call) ==
  LET s == NewState(call)
      mail == BasePacket(s, "mail", Peer)
  IN  <<mail, Ack(Advanced(s, 1), Peer, mail.id)>>

LEMMA MailFields ==
  ASSUME NEW call \in Call
  PROVE  /\ MailOf(call) \in Seq(Packet) /\ Len(MailOf(call)) = 2
         /\ MailOf(call)[1].kind = "mail" /\ MailOf(call)[2].kind = "ack"
         /\ MailOf(call)[1].id = <<call, 1>> /\ MailOf(call)[2].id = <<call, 2>>
         /\ \A i \in {1, 2} : MailOf(call)[i].from = call /\ MailOf(call)[i].data = <<>>
<1>1. PICK s : s = NewState(call)
  OBVIOUS
<1>2. s \in ProtocolState /\ s.call = call /\ s.next = 1
  BY <1>1 DEF NewState, ProtocolState
<1>3. PICK s2 : s2 = Advanced(s, 1)
  OBVIOUS
<1>4. s2 \in ProtocolState /\ s2.call = call
  BY <1>2, <1>3, AdvancedType
<1>5. PICK mail : mail = BasePacket(s, "mail", Peer)
  OBVIOUS
<1>6. mail.kind = "mail" /\ mail.from = call /\ mail.data = <<>>
  BY <1>2, <1>5 DEF BasePacket
<1>7. PICK b : b = BasePacket(s2, "ack", Peer)
  OBVIOUS
<1>8. b \in Packet /\ b.kind = "ack" /\ b.from = call /\ b.data = <<>>
  <2>1. b.kind = "ack" /\ b.from = call /\ b.data = <<>>
    BY <1>4, <1>7 DEF BasePacket
  <2> QED BY <1>4, <1>7, <2>1, BaseType DEF Kind
<1>9. PICK ack, id : ack = Ack(s2, Peer, mail.id) /\ id = mail.id
  OBVIOUS
<1>10. ack = [b EXCEPT !.receiptFor = id]
  BY <1>7, <1>9 DEF Ack
<1>11. ack.kind = "ack" /\ ack.from = call /\ ack.data = <<>>
  BY <1>8, <1>10 DEF Packet
<1>12. /\ <<mail, ack>> \in Seq(Packet)
       /\ mail.id = <<call, 1>> /\ ack.id = <<call, 2>>
  <2>1. /\ <<mail, ack>> \in Seq(Packet)
        /\ mail.id = <<s.call, s.next>> /\ ack.id = <<s.call, s.next + 1>>
    BY <1>2, <1>3, <1>5, <1>9, MailType
  <2>2. s.next + 1 = 2
    BY <1>2
  <2> QED BY <1>2, <2>1, <2>2
<1>13. MailOf(call) = <<mail, ack>>
  BY <1>1, <1>3, <1>5, <1>9, Zenon DEF MailOf
<1> QED BY <1>6, <1>11, <1>12, <1>13

\* A mail and an ack fit a packet when a fragment does: they carry less, and their
\* numbers have one digit.
LEMMA MailFits ==
  ASSUME NEW call \in Call, NEW n \in Nat, NEW pl \in Something,
         AllFit(Group(call, n, "fragment", pl))
  PROVE  \A i \in {1, 2} : Fits(MailOf(call)[i])
<1>1. PICK p : p = Group(call, n, "fragment", pl)[1]
  OBVIOUS
<1>2. "fragment" \in Kind /\ 1 \in 1..Total(pl)
  BY GroupHas DEF Kind
<1>3. /\ p = Piece(call, n, "fragment", pl, 1)
      /\ 1 \in DOMAIN Group(call, n, "fragment", pl)
  BY <1>1, <1>2, GroupHas
<1>4. Fits(p)
  BY <1>1, <1>3 DEF AllFit
<1>5. p.kind = "fragment" /\ p.from = call /\ p.id = <<call, n + 1>> /\ p.data = Chunk(pl, 1 - 1)
  BY <1>3, PieceFields
<1>6. Len(p.data) \in Nat
  <2>1. pl \in Payload /\ 1 - 1 \in Nat
    BY DEF Something
  <2>2. Chunk(pl, 1 - 1) \in Payload
    BY <2>1, ChunkType
  <2> QED BY <1>5, <2>2 DEF Payload
<1>7. p.id[2] = n + 1 /\ n + 1 \in Nat
  BY <1>5
<1>8. Digits(n + 1) \in Nat /\ Digits(n + 1) >= 1
  BY <1>7, DigitsAtLeast
<1>9. Overhead["fragment"] + CallBytes[call] + 2 * Digits(n + 1) + 2 * Len(p.data) <= MaxPacketBytes
  BY <1>4, <1>5, <1>7 DEF Fits, Size
<1>10. /\ Overhead["fragment"] \in Nat /\ CallBytes[call] \in Nat /\ MaxPacketBytes \in Nat
       /\ Overhead["mail"] \in Nat /\ Overhead["ack"] \in Nat
       /\ Overhead["mail"] <= Overhead["fragment"] /\ Overhead["ack"] <= Overhead["fragment"]
  BY PacketAssumption, LinkAssumption DEF Kind
<1>11. ASSUME NEW k \in {"mail", "ack"}
       PROVE  Overhead[k] + CallBytes[call] + 2 * 1 + 2 * 0 <= MaxPacketBytes
  <2>1. PICK a, b, c, d, l, m \in Nat :
          /\ a = Overhead[k] /\ b = Overhead["fragment"] /\ c = CallBytes[call]
          /\ d = Digits(n + 1) /\ l = Len(p.data) /\ m = MaxPacketBytes
    BY <1>6, <1>8, <1>10
  <2>2. a <= b /\ d >= 1 /\ b + c + 2 * d + 2 * l <= m
    BY <1>8, <1>9, <1>10, <2>1
  <2>3. a + c + 2 * 1 + 2 * 0 <= m
    BY <2>2
  <2> QED BY <2>1, <2>3
<1>12. Digits(1) = 1 /\ Digits(2) = 1
  BY DigitsAtLeast
<1>13. PICK mail, ack : mail = MailOf(call)[1] /\ ack = MailOf(call)[2]
  OBVIOUS
<1>14. /\ mail.kind = "mail" /\ mail.id[2] = 1 /\ mail.from = call /\ mail.data = <<>>
       /\ ack.kind = "ack" /\ ack.id[2] = 2 /\ ack.from = call /\ ack.data = <<>>
  BY <1>13, MailFields
<1>15. Size(mail) = Overhead["mail"] + CallBytes[call] + 2 * 1 + 2 * 0
  BY <1>12, <1>14, EmptySeq DEF Size
<1>16. Size(ack) = Overhead["ack"] + CallBytes[call] + 2 * 1 + 2 * 0
  BY <1>12, <1>14, EmptySeq DEF Size
<1>17. Fits(mail) /\ Fits(ack)
  BY <1>11, <1>15, <1>16 DEF Fits
<1> QED BY <1>13, <1>17

\* All packets of a command: the mail and its ack, a group of fragments, the offer o and
\* a group of chunks.
Command(call, n, k, o, pl) ==
  (MailOf(call) \o Group(call, n, "fragment", pl)) \o (<<o>> \o Group(call, k, "file-chunk", pl))

\* The fragments and the chunks of a command are found among its packets.
LEMMA CommandKinds ==
  ASSUME NEW call \in Call, NEW n \in Nat, NEW k \in Nat, NEW o \in Packet,
         o.kind = "file-offer", NEW pl \in Something
  PROVE  /\ OfKinds(Command(call, n, k, o, pl), {"fragment"}) = Group(call, n, "fragment", pl)
         /\ FileChunks(OfKinds(Command(call, n, k, o, pl), {"file-offer", "file-chunk"}))
              = Group(call, k, "file-chunk", pl)
<1>1. PICK m : m = MailOf(call)
  OBVIOUS
<1>2. PICK g : g = Group(call, n, "fragment", pl)
  OBVIOUS
<1>3. PICK h : h = Group(call, k, "file-chunk", pl)
  OBVIOUS
<1>4. /\ m \in Seq(Packet) /\ Len(m) = 2
      /\ m[1].kind = "mail" /\ m[2].kind = "ack"
  BY <1>1, MailFields
<1>5. \A i \in 1..Len(m) : m[i].kind \in {"mail", "ack"}
  BY <1>4
<1>6. g \in Seq(Packet) /\ \A i \in 1..Len(g) : g[i].kind = "fragment"
  BY <1>2, GroupHas, PieceFields DEF Kind
<1>7. h \in Seq(Packet) /\ \A i \in 1..Len(h) : h[i].kind = "file-chunk"
  BY <1>3, GroupHas, PieceFields DEF Kind
<1>8. PICK f : f = <<o>> \o h
  OBVIOUS
<1>9. <<o>> \in Seq(Packet) /\ Len(<<o>>) = 1 /\ <<o>>[1] = o
  OBVIOUS
<1>10. f \in Seq(Packet) /\ \A i \in 1..Len(f) : f[i].kind \in {"file-offer", "file-chunk"}
  <2>1. /\ f \in Seq(Packet) /\ Len(f) = Len(h) + 1 /\ Len(h) \in Nat /\ f[1] = o
        /\ \A i \in 1..Len(h) : f[i + 1] = h[i]
    BY <1>7, <1>8
  <2>2. ASSUME NEW i \in 1..Len(f) PROVE f[i].kind \in {"file-offer", "file-chunk"}
    <3>1. CASE i = 1
      BY <2>1, <3>1
    <3>2. CASE i # 1
      <4>1. i - 1 \in 1..Len(h) /\ (i - 1) + 1 = i
        BY <2>1, <3>2
      <4>2. f[i] = h[i - 1]
        BY <2>1, <4>1
      <4> QED BY <1>7, <4>1, <4>2
    <3> QED BY <3>1, <3>2
  <2> QED BY <2>1, <2>2
<1>11. PICK ps : ps = (m \o g) \o f
  OBVIOUS
<1>12. m \o g \in Seq(Packet)
  BY <1>4, <1>6
<1>13. OfKinds(ps, {"fragment"}) = g
  <2>1. OfKinds(ps, {"fragment"}) = OfKinds(m \o g, {"fragment"})
    <3>1. \A i \in 1..Len(f) : f[i].kind \notin {"fragment"}
      BY <1>10
    <3> QED BY <1>10, <1>11, <1>12, <3>1, KindsBehind
  <2>2. OfKinds(m \o g, {"fragment"}) = OfKinds(m, {"fragment"}) \o g
    <3>1. \A i \in 1..Len(g) : g[i].kind \in {"fragment"}
      BY <1>6
    <3> QED BY <1>4, <1>6, <3>1, KindsBehind
  <2>3. OfKinds(m, {"fragment"}) = <<>>
    <3>1. \A i \in 1..Len(m) : m[i].kind \notin {"fragment"}
      BY <1>5
    <3> QED BY <1>4, <3>1, KindsNone
  <2> QED BY <1>6, <2>1, <2>2, <2>3, ConcatEmptySeq
<1>14. OfKinds(ps, {"file-offer", "file-chunk"}) = f
  <2> DEFINE K == {"file-offer", "file-chunk"}
  <2>1. OfKinds(ps, K) = OfKinds(m \o g, K) \o f
    <3>1. \A i \in 1..Len(f) : f[i].kind \in K
      BY <1>10
    <3> HIDE DEF K
    <3> QED BY <1>10, <1>11, <1>12, <3>1, KindsBehind
  <2>2. OfKinds(m \o g, K) = OfKinds(m, K)
    <3>1. \A i \in 1..Len(g) : g[i].kind \notin K
      BY <1>6
    <3> HIDE DEF K
    <3> QED BY <1>4, <1>6, <3>1, KindsBehind
  <2>3. OfKinds(m, K) = <<>>
    <3>1. \A i \in 1..Len(m) : m[i].kind \notin K
      BY <1>5
    <3> HIDE DEF K
    <3> QED BY <1>4, <3>1, KindsNone
  <2> HIDE DEF K
  <2>4. OfKinds(ps, K) = f
    BY <1>10, <2>1, <2>2, <2>3, ConcatEmptySeq
  <2> QED BY <2>4 DEF K
<1>15. FileChunks(f) = h
  <2>1. OfKinds(<<o>> \o h, {"file-chunk"}) = OfKinds(<<o>>, {"file-chunk"}) \o h
    <3>1. \A i \in 1..Len(h) : h[i].kind \in {"file-chunk"}
      BY <1>7
    <3> QED BY <1>7, <1>9, <3>1, KindsBehind
  <2>2. OfKinds(<<o>>, {"file-chunk"}) = <<>>
    <3>1. \A i \in 1..Len(<<o>>) : <<o>>[i].kind \notin {"file-chunk"}
      BY <1>9
    <3> QED BY <1>9, <3>1, KindsNone
  <2> QED BY <1>7, <1>8, <2>1, <2>2, ConcatEmptySeq DEF FileChunks
<1>16. Command(call, n, k, o, pl) = ps
  BY <1>1, <1>2, <1>3, <1>8, <1>11, Zenon DEF Command
<1> QED BY <1>2, <1>3, <1>13, <1>14, <1>15, <1>16

\* All packets of a list fit when those of its two parts do.
LEMMA FitTogether ==
  ASSUME NEW s \in Seq(Packet), NEW t \in Seq(Packet), AllFit(s), AllFit(t)
  PROVE  AllFit(s \o t)
<1>1. PICK u : u = s \o t
  OBVIOUS
<1>2. /\ Len(s) \in Nat /\ Len(t) \in Nat /\ DOMAIN s = 1..Len(s) /\ DOMAIN t = 1..Len(t)
      /\ DOMAIN u = 1..(Len(s) + Len(t))
      /\ \A i \in 1..Len(s) : u[i] = s[i]
      /\ \A i \in 1..Len(t) : u[Len(s) + i] = t[i]
  BY <1>1
<1>3. ASSUME NEW i \in DOMAIN u PROVE Fits(u[i])
  <2>1. CASE i \in 1..Len(s)
    BY <1>2, <2>1 DEF AllFit
  <2>2. CASE i \notin 1..Len(s)
    <3>1. i - Len(s) \in 1..Len(t) /\ Len(s) + (i - Len(s)) = i
      BY <1>2, <2>2
    <3>2. u[i] = t[i - Len(s)]
      BY <1>2, <3>1
    <3> QED BY <1>2, <3>1, <3>2 DEF AllFit
  <2> QED BY <2>1, <2>2
<1>4. AllFit(u)
  BY <1>3 DEF AllFit
<1> QED BY <1>1, <1>4

\* When the fragments and the packets of the file fit, all packets of the command do.
LEMMA CommandFits ==
  ASSUME NEW call \in Call, NEW n \in Nat, NEW k \in Nat, NEW o \in Packet,
         NEW pl \in Something, AllFit(Group(call, n, "fragment", pl)),
         AllFit(<<o>> \o Group(call, k, "file-chunk", pl))
  PROVE  AllFit(Command(call, n, k, o, pl))
<1>1. PICK m : m = MailOf(call)
  OBVIOUS
<1>2. PICK g : g = Group(call, n, "fragment", pl)
  OBVIOUS
<1>3. PICK h : h = Group(call, k, "file-chunk", pl)
  OBVIOUS
<1>4. m \in Seq(Packet) /\ g \in Seq(Packet) /\ h \in Seq(Packet) /\ Len(m) = 2
  BY <1>1, <1>2, <1>3, MailFields, GroupHas DEF Kind
<1>5. AllFit(m)
  <2>1. DOMAIN m = {1, 2}
    BY <1>4
  <2> QED BY <1>1, <2>1, MailFits DEF AllFit
<1>6. m \o g \in Seq(Packet) /\ AllFit(m \o g)
  BY <1>2, <1>4, <1>5, FitTogether
<1>7. <<o>> \o h \in Seq(Packet)
  BY <1>4
<1>8. AllFit((m \o g) \o (<<o>> \o h))
  BY <1>3, <1>6, <1>7, FitTogether
<1> QED BY <1>1, <1>2, <1>3, <1>8, Zenon DEF Command

-----------------------------------------------------------------------------
(* What the process has built, and others have gathered                    *)

\* At each stage the packets are those a process of the station builds, in their order.
Progress ==
  /\ stage = "mail" => packets = <<>> /\ state = NewState(state.call)
  /\ stage \in {"fragments", "file", "reassemble"} => payload \in Something
  /\ stage = "fragments" => packets = MailOf(state.call)
  /\ stage = "file" =>
       \E n \in Nat :
         /\ AllFit(Group(state.call, n, "fragment", payload))
         /\ packets = MailOf(state.call) \o Group(state.call, n, "fragment", payload)
  /\ stage = "reassemble" =>
       \E n, k \in Nat, o \in Packet :
         /\ o.kind = "file-offer"
         /\ AllFit(Group(state.call, n, "fragment", payload))
         /\ AllFit(<<o>> \o Group(state.call, k, "file-chunk", payload))
         /\ packets = Command(state.call, n, k, o, payload)

\* What was gathered was built.
Gathered == \A i \in DOMAIN gathered : \E g \in groups : gathered[i] \in Range(g)

BuiltInv == GroupsOnly /\ Gathered /\ Progress

LEMMA InitBuilt == Init => BuiltInv
<1> SUFFICES ASSUME Init PROVE BuiltInv
  OBVIOUS
<1>1. GroupsOnly /\ Gathered
  BY DEF Init, GroupsOnly, Gathered
<1>2. PICK call \in Stations : state = NewState(call)
  BY DEF Init
<1>3. state.call = call
  BY <1>2 DEF NewState
<1>4. Progress
  BY <1>2, <1>3 DEF Init, Progress
<1> QED BY <1>1, <1>4 DEF BuiltInv

\* A step that adds no group and gathers nothing only has to keep Progress.
LEMMA SameGroups ==
  ASSUME BuiltInv, UNCHANGED <<groups, gathered>>
  PROVE  GroupsOnly' /\ Gathered'
BY DEF BuiltInv, GroupsOnly, Gathered

\* One that adds a group built for the payload keeps the rest.
LEMMA OneMoreGroup ==
  ASSUME BuiltInv, NEW call \in Call, NEW n \in Nat, NEW kind \in PieceKind,
         NEW pl \in Something, groups' = groups \cup {Group(call, n, kind, pl)},
         UNCHANGED gathered
  PROVE  GroupsOnly' /\ Gathered'
<1>1. GroupsOnly'
  BY DEF BuiltInv, GroupsOnly
<1>2. Gathered'
  BY DEF BuiltInv, Gathered
<1> QED BY <1>1, <1>2

LEMMA BuildingBuilt == IInv /\ BuiltInv /\ Building => BuiltInv'
<1> SUFFICES ASSUME IInv, BuiltInv, Building PROVE BuiltInv'
  OBVIOUS
<1>1. state \in ProtocolState /\ payload \in Payload /\ state.call \in Call /\ state.next \in Nat
  BY LinkAssumption DEF IInv, TypeOK, ProtocolState
<1>2. CASE BuildMail
  <2>1. PICK mail, ack : /\ mail = BasePacket(state, "mail", Peer)
                         /\ ack = Ack(Advanced(state, 1), Peer, mail.id)
    OBVIOUS
  <2>2. /\ stage = "mail" /\ payload # <<>> /\ Built("fragments", <<mail, ack>>, 2)
        /\ UNCHANGED groups
    BY <1>2, <2>1 DEF BuildMail
  <2>3. packets = <<>> /\ state = NewState(state.call)
    BY <2>2 DEF BuiltInv, Progress
  <2>4. <<mail, ack>> = MailOf(state.call)
    BY <2>1, <2>3, Zenon DEF MailOf
  <2>5. /\ stage' = "fragments" /\ packets' = packets \o <<mail, ack>>
        /\ state'.call = state.call /\ UNCHANGED <<payload, gathered>>
    BY <1>1, <2>2, AdvancedType DEF Built
  <2>6. packets' = MailOf(state'.call)
    <3>1. MailOf(state.call) \in Seq(Packet)
      BY <1>1, MailFields
    <3> QED BY <2>3, <2>4, <2>5, <3>1, ConcatEmptySeq
  <2>7. payload' \in Something
    BY <1>1, <2>2, <2>5 DEF Something
  <2>8. Progress'
    BY <2>5, <2>6, <2>7 DEF Progress
  <2> QED BY <2>2, <2>5, <2>8, SameGroups DEF BuiltInv
<1>3. CASE BuildFragments
  <2>1. PICK ps : ps = FragmentPayload(state, Peer, payload)
    OBVIOUS
  <2>2. /\ stage = "fragments" /\ AllFit(ps) /\ Built("file", ps, Len(ps) + 1)
        /\ groups' = groups \cup {ps}
    BY <1>3, <2>1 DEF BuildFragments
  <2>3. ps = Group(state.call, state.next, "fragment", payload)
    BY <1>1, <2>1, PartsAreGroup DEF FragmentPayload, Kind
  <2>4. packets = MailOf(state.call) /\ payload \in Something
    BY <2>2 DEF BuiltInv, Progress
  <2>5. Len(ps) + 1 \in Nat
    BY <1>1, <2>3, <2>4, GroupHas DEF Kind
  <2>6. /\ stage' = "file" /\ packets' = packets \o ps
        /\ state'.call = state.call /\ UNCHANGED <<payload, gathered>>
    BY <1>1, <2>2, <2>5, AdvancedType DEF Built
  <2>7. Progress'
    BY <1>1, <2>2, <2>3, <2>4, <2>6 DEF Progress
  <2>8. GroupsOnly' /\ Gathered'
    BY <1>1, <2>2, <2>3, <2>4, <2>6, OneMoreGroup DEF PieceKind
  <2> QED BY <2>7, <2>8 DEF BuiltInv
<1>4. CASE BuildFile
  <2>1. PICK ps, o, h : /\ ps = FileTransferPackets(state, Peer, payload)
                        /\ o = FileOffer(state, Peer, payload)
                        /\ h = Group(state.call, state.next, "file-chunk", payload)
    OBVIOUS
  <2>2. /\ stage = "file" /\ AllFit(ps) /\ Built("reassemble", ps, Len(ps))
        /\ groups' = groups \cup {Tail(ps)}
    BY <1>4, <2>1 DEF BuildFile
  <2>3. payload \in Something
    BY <2>2 DEF BuiltInv, Progress
  <2>4. h \in Seq(Packet)
    BY <1>1, <2>1, <2>3, GroupHas DEF Kind
  <2>5. ps = <<o>> \o h
    BY <1>1, <2>1, PartsAreGroup DEF FileTransferPackets, Kind
  <2>6. o \in Packet /\ o.kind = "file-offer"
    <3>1. PICK b : b = BasePacket(state, "file-offer", Peer)
      OBVIOUS
    <3>2. b \in Packet
      BY <1>1, <3>1, BaseType DEF Kind
    <3>3. b.kind = "file-offer"
      BY <3>1 DEF BasePacket
    <3>4. PICK g \in PacketId : g = NextId(state)
      BY <1>1 DEF NextId, PacketId
    <3>5. o = [b EXCEPT !.group = g, !.hash = payload]
      BY <2>1, <3>1, <3>4 DEF FileOffer
    <3> QED BY <1>1, <3>2, <3>3, <3>5 DEF Packet
  <2>7. Tail(ps) = h /\ Len(ps) \in Nat
    BY <2>4, <2>5, <2>6
  <2>8. /\ stage' = "reassemble" /\ packets' = packets \o ps
        /\ state'.call = state.call /\ UNCHANGED <<payload, gathered>>
    BY <1>1, <2>2, <2>7, AdvancedType DEF Built
  <2>9. PICK n \in Nat :
          /\ AllFit(Group(state.call, n, "fragment", payload))
          /\ packets = MailOf(state.call) \o Group(state.call, n, "fragment", payload)
    BY <2>2 DEF BuiltInv, Progress
  <2>10. packets' = Command(state.call, n, state.next, o, payload)
    BY <2>1, <2>5, <2>8, <2>9, Zenon DEF Command
  <2>11. AllFit(<<o>> \o Group(state.call, state.next, "file-chunk", payload))
    BY <2>1, <2>2, <2>5
  <2>12. Progress'
    BY <1>1, <2>3, <2>6, <2>8, <2>9, <2>10, <2>11 DEF Progress
  <2>13. GroupsOnly' /\ Gathered'
    BY <1>1, <2>1, <2>2, <2>3, <2>7, <2>8, OneMoreGroup DEF PieceKind
  <2> QED BY <2>12, <2>13 DEF BuiltInv
<1>5. CASE Refuse \/ FragmentTooLarge \/ FilePacketTooLarge
  <2>1. stage' = "failed" /\ UNCHANGED <<groups, gathered>>
    BY <1>5 DEF Refuse, FragmentTooLarge, FilePacketTooLarge, Fails
  <2>2. Progress'
    BY <2>1 DEF Progress
  <2> QED BY <2>1, <2>2, SameGroups DEF BuiltInv
<1> QED BY <1>2, <1>3, <1>4, <1>5 DEF Building

LEMMA NextBuilt == IInv /\ BuiltInv /\ [Next]_vars => BuiltInv'
<1> SUFFICES ASSUME IInv, BuiltInv, [Next]_vars PROVE BuiltInv'
  OBVIOUS
<1>1. CASE UNCHANGED vars
  BY <1>1 DEF vars, BuiltInv, GroupsOnly, Gathered, Progress
<1>2. CASE Building
  BY <1>2, BuildingBuilt
<1>3. CASE Delivering
  <2>1. stage' \in {"deliver", "done"} /\ UNCHANGED <<groups, gathered>>
    BY <1>3 DEF Delivering, StartDelivery, Drop, Arrive, GiveUp, Report, Sending
  <2>2. Progress'
    BY <2>1 DEF Progress
  <2> QED BY <2>1, <2>2, SameGroups DEF BuiltInv
<1>4. CASE Restart
  <2>1. /\ stage' = "mail" /\ packets' = <<>> /\ state' = NewState(state.call)
        /\ UNCHANGED <<groups, gathered>>
    BY <1>4 DEF Restart
  <2>2. state'.call = state.call
    BY <2>1 DEF NewState
  <2>3. Progress'
    BY <2>1, <2>2 DEF Progress
  <2> QED BY <2>1, <2>3, SameGroups DEF BuiltInv
<1>5. CASE Gather
  <2>1. stage' = "gather" /\ UNCHANGED groups
    BY <1>5 DEF Gather
  <2>2. PICK g \in groups : \E p \in Range(g) : gathered' = Append(gathered, p)
    BY <1>5 DEF Gather
  <2>0. PICK p \in Range(g) : gathered' = Append(gathered, p)
    BY <2>2
  <2>3. gathered \in Seq(Packet)
    BY DEF IInv, TypeOK
  <2>4. /\ DOMAIN gathered' = 1..(Len(gathered) + 1) /\ DOMAIN gathered = 1..Len(gathered)
        /\ \A i \in 1..Len(gathered) : gathered'[i] = gathered[i]
        /\ gathered'[Len(gathered) + 1] = p /\ Len(gathered) \in Nat
    <3>1. g \in Seq(Packet)
      BY <2>2 DEF IInv, TypeOK
    <3>2. p \in Packet
      BY <2>0, <3>1 DEF Range
    <3> QED BY <2>0, <2>3, <3>2
  <2>5. \A i \in 1..(Len(gathered) + 1) : i \in 1..Len(gathered) \/ i = Len(gathered) + 1
    BY <2>4
  <2>6. Gathered'
    BY <2>0, <2>1, <2>2, <2>4, <2>5, Zenon DEF BuiltInv, Gathered
  <2>7. Progress' /\ GroupsOnly'
    BY <2>1 DEF Progress, BuiltInv, GroupsOnly
  <2> QED BY <2>6, <2>7 DEF BuiltInv
<1> QED BY <1>1, <1>2, <1>3, <1>4, <1>5 DEF Next

\* What the process has built, and what others gather, is always made of groups as
\* fragment_payload and file_transfer_packets build them.
THEOREM BuiltInvariant == Spec => []BuiltInv
BY InitBuilt, NextBuilt, Invariance, PTL DEF Spec

\* A packet of a group has the kind of the group.
LEMMA KindOfGroup ==
  ASSUME GroupsOnly, NEW g \in groups, NEW p \in Range(g)
  PROVE  g \in Sent(p.kind)
<1>1. PICK call \in Call, n \in Nat, kind \in PieceKind, pl \in Something :
        g = Group(call, n, kind, pl)
  BY DEF GroupsOnly
<1>2. kind \in Kind
  BY <1>1 DEF PieceKind, Kind
<1>3. /\ g \in Seq(Packet) /\ g # <<>> /\ DOMAIN g = 1..Total(pl) /\ 1 \in 1..Total(pl)
      /\ \A i \in 1..Total(pl) : g[i] = Piece(call, n, kind, pl, i)
  BY <1>1, <1>2, GroupHas
<1>4. \A i \in 1..Total(pl) : g[i].kind = kind
  BY <1>3, PieceFields
<1>5. p.kind = kind /\ g[1].kind = kind
  BY <1>3, <1>4 DEF Range
<1> QED BY <1>3, <1>5 DEF Sent

\* What another caller gets from what it gathered.
LEMMA GatheredRight ==
  ASSUME TypeOK, BuiltInv
  PROVE  /\ ReassembleFragments(gathered) = Expected(gathered, "fragment")
         /\ ReassembleFileChunks(gathered) = Expected(FileChunks(gathered), "file-chunk")
<1>1. gathered \in Seq(Packet) /\ GroupsOnly
  BY DEF TypeOK, BuiltInv
<1>2. \A i \in DOMAIN gathered : \E g \in Sent(gathered[i].kind) : gathered[i] \in Range(g)
  BY KindOfGroup DEF BuiltInv, Gathered
<1>3. ReassembleFragments(gathered) = Expected(gathered, "fragment")
  <2>1. CASE \A i \in DOMAIN gathered : gathered[i].kind = "fragment"
    <3>1. Gotten(gathered, "fragment")
      BY <1>2, <2>1 DEF Gotten
    <3>2. /\ ~Whole(gathered) => Expected(gathered, "fragment") = Failed
          /\ Whole(gathered) => Expected(gathered, "fragment") = Joined(gathered)
      BY <1>1, <3>1, AsExpected
    <3> QED BY <2>1, <3>2, Zenon DEF ReassembleFragments
  <2>2. CASE ~\A i \in DOMAIN gathered : gathered[i].kind = "fragment"
    <3>1. ~\E g \in Sent("fragment") : IsShuffle(gathered, g)
      BY <1>1, <2>2, AsExpected
    <3>2. Expected(gathered, "fragment") = Failed
      BY <3>1, Zenon DEF Expected
    <3> QED BY <2>2, <3>2, Zenon DEF ReassembleFragments
  <2> QED BY <2>1, <2>2
<1>4. PICK q : q = FileChunks(gathered)
  OBVIOUS
<1>5. /\ q \in Seq(Packet)
      /\ \A i \in DOMAIN q : \E k \in DOMAIN gathered :
           gathered[k].kind \in {"file-chunk"} /\ q[i] = gathered[k]
  BY <1>1, <1>4, KindsElements DEF FileChunks
<1>6. Gotten(q, "file-chunk")
  BY <1>2, <1>5 DEF Gotten
<1>7. /\ ~Whole(q) => Expected(q, "file-chunk") = Failed
      /\ Whole(q) => Expected(q, "file-chunk") = Joined(q)
  BY <1>1, <1>5, <1>6, AsExpected
<1>8. ReassembleFileChunks(gathered) = Expected(FileChunks(gathered), "file-chunk")
  BY <1>4, <1>7, Zenon DEF ReassembleFileChunks
<1> QED BY <1>3, <1>8

\* What the command makes of the packets it has built.
LEMMA CommandRight ==
  ASSUME TypeOK, BuiltInv, stage = "reassemble"
  PROVE  /\ ReassembleFragments(Fragments) = payload
         /\ ReassembleFileChunks(FilePackets) = payload
         /\ AllFit(packets)
<1>1. PICK n, k \in Nat, o \in Packet :
        /\ o.kind = "file-offer"
        /\ AllFit(Group(state.call, n, "fragment", payload))
        /\ AllFit(<<o>> \o Group(state.call, k, "file-chunk", payload))
        /\ packets = Command(state.call, n, k, o, payload)
  BY DEF BuiltInv, Progress
<1>2. state.call \in Call /\ payload \in Something
  BY DEF BuiltInv, Progress, TypeOK, ProtocolState
<1>3. PICK g, h : /\ g = Group(state.call, n, "fragment", payload)
                  /\ h = Group(state.call, k, "file-chunk", payload)
  OBVIOUS
<1>4. Fragments = g /\ FileChunks(FilePackets) = h
  BY <1>1, <1>2, <1>3, CommandKinds DEF Fragments, FilePackets
<1>5. g \in Seq(Packet) /\ h \in Seq(Packet) /\ "fragment" \in Kind /\ "file-chunk" \in Kind
  BY <1>2, <1>3, GroupHas DEF Kind
<1>6. IsShuffle(g, g) /\ IsShuffle(h, h)
  BY DEF IsShuffle
<1>7. /\ Whole(g) /\ Joined(g) = payload
      /\ \A i \in DOMAIN g : g[i].kind = "fragment"
  BY <1>2, <1>3, <1>5, <1>6, ShuffleIsWhole
<1>8. Whole(h) /\ Joined(h) = payload
  BY <1>2, <1>3, <1>5, <1>6, ShuffleIsWhole
<1>9. ReassembleFragments(Fragments) = payload
  BY <1>4, <1>7, Zenon DEF ReassembleFragments
<1>10. ReassembleFileChunks(FilePackets) = payload
  BY <1>4, <1>8, Zenon DEF ReassembleFileChunks
<1>11. AllFit(packets)
  BY <1>1, <1>2, CommandFits
<1> QED BY <1>9, <1>10, <1>11

\* What a station has split it can put together again, for payloads and packets of any
\* size, and all packets of its command can be sent; a list gathered from any number of
\* processes, in any order and with any packets doubled or missing, gives the payload of a
\* message (a file) when it is all of its parts once each, and an error otherwise.
THEOREM ReassembledRight == Spec => []ReassembledIsSent
<1>1. TypeOK /\ BuiltInv => ReassembledIsSent
  BY GatheredRight, CommandRight DEF ReassembledIsSent
<1> QED BY <1>1, TypeCorrect, BuiltInvariant, PTL
=============================================================================
