----------------------------- MODULE AppPackets -----------------------------
(***************************************************************************)
(* The CBAPP/1 packets of crates/chattybara-cli/src/app_protocol.rs as     *)
(* pure operators: how a station numbers and builds them, splits a payload *)
(* into fragments or file chunks, notices what it has seen, and puts a     *)
(* payload together again.                                                 *)
(*                                                                         *)
(* An id "CALL-00000001" is the pair of call and number.  A SHA-256 is the *)
(* content it is the hash of.  The size of a packet is what its kind takes *)
(* (Overhead), the sender's call, the digits of its number in two fields,  *)
(* and two hex digits for each byte of data.                               *)
(***************************************************************************)
EXTENDS Integers, SequencesExt, Subsequences

CONSTANTS
  Call,            \* call signs
  CallBytes,       \* what each call adds to a packet it sends
  Byte,            \* values of a byte
  ChunkBytes,      \* DEFAULT_FRAGMENT_DATA_BYTES, DEFAULT_FILE_CHUNK_DATA_BYTES
  MaxPacketBytes,  \* MAX_APP_PACKET_BYTES
  Overhead         \* encoded bytes of each kind of packet that are not below

Kind == {"mail", "ack", "file-offer", "file-chunk", "fragment"}

ASSUME PacketAssumption ==
  /\ ChunkBytes \in Nat \ {0}
  /\ MaxPacketBytes \in Nat
  /\ Overhead \in [Kind -> Nat]
  /\ CallBytes \in [Call -> Nat]

PacketId == Call \X Nat
NoId == "no id"
Payload == Seq(Byte)

Packet == [kind: Kind, from: Call, to: Call, id: PacketId, receiptFor: PacketId \cup {NoId},
           group: PacketId \cup {NoId},  \* message_id or file_id
           hash: Payload, total: Nat, index: Nat, data: Payload, chunkHash: Payload]

-----------------------------------------------------------------------------
(* The sender: AppProtocolState is its call, the next number and seen ids. *)

ProtocolState == [call: Call, next: Nat, seen: SUBSET PacketId]
NewState(call) == [call |-> call, next |-> 1, seen |-> {}]

Advanced(s, n) == [s EXCEPT !.next = @ + n]
NextId(s) == <<s.call, s.next>>

BasePacket(s, kind, to) ==
  [kind |-> kind, from |-> s.call, to |-> to, id |-> NextId(s), receiptFor |-> NoId,
   group |-> NoId, hash |-> <<>>, total |-> 0, index |-> 0, data |-> <<>>, chunkHash |-> <<>>]

Ack(s, to, id) == [BasePacket(s, "ack", to) EXCEPT !.receiptFor = id]

\* Wrong on purpose: the rest that fills no chunk is forgotten.
TotalOfFull(payload) == Len(payload) \div ChunkBytes

Total(payload) == (Len(payload) + ChunkBytes - 1) \div ChunkBytes

Chunk(payload, i) ==
  SubSeq(payload, i * ChunkBytes + 1,
         IF (i + 1) * ChunkBytes < Len(payload) THEN (i + 1) * ChunkBytes ELSE Len(payload))

\* The i-th packet, from 1, after the state s in which the group got its id.
Part(s, kind, to, payload, i) ==
  [BasePacket(Advanced(s, i), kind, to) EXCEPT
     !.group = NextId(s), !.hash = payload, !.total = Total(payload), !.index = i - 1,
     !.data = Chunk(payload, i - 1), !.chunkHash = Chunk(payload, i - 1)]

Parts(s, kind, to, payload) ==
  [i \in 1..Total(payload) |-> Part(s, kind, to, payload, i)]

\* The message id takes a number of its own, each fragment the next.
FragmentPayload(s, to, payload) == Parts(s, "fragment", to, payload)

\* The id of the offer is the id of the file.
FileOffer(s, to, payload) ==
  [BasePacket(s, "file-offer", to) EXCEPT !.group = NextId(s), !.hash = payload]

FileTransferPackets(s, to, payload) ==
  <<FileOffer(s, to, payload)>> \o Parts(s, "file-chunk", to, payload)

Digits(n) ==
  LET digits[k \in 0..n] == IF k < 10 THEN 1 ELSE digits[k \div 10] + 1
  IN  digits[n]
Size(p) == Overhead[p.kind] + CallBytes[p.from] + 2 * Digits(p.id[2]) + 2 * Len(p.data)
Fits(p) == Size(p) <= MaxPacketBytes

-----------------------------------------------------------------------------
(* The receiver                                                            *)

\* Wrong on purpose: only the last id is remembered.
ObserveLast(s, p) == [state |-> [s EXCEPT !.seen = {p.id}], duplicate |-> p.id \in s.seen]

Observe(s, p) == [state |-> [s EXCEPT !.seen = @ \cup {p.id}], duplicate |-> p.id \in s.seen]

Failed == <<>>   \* an error: no payload is empty

\* validate_fragment_identity, and its counterpart for chunks.
SameGroup(ps) ==
  \A i \in DOMAIN ps :
    /\ ps[i].group = ps[1].group
    /\ ps[i].total = ps[1].total
    /\ ps[i].hash = ps[1].hash

OneOfEach(ps) ==
  /\ \A i, j \in DOMAIN ps : ps[i].index = ps[j].index => i = j
  /\ Len(ps) = ps[1].total
  /\ {ps[i].index : i \in DOMAIN ps} = 0..(ps[1].total - 1)

\* Wrong on purpose: in the order they came.
JoinedAsCame(ps) == FlattenSeq([i \in DOMAIN ps |-> ps[i].data])

Joined(ps) ==
  FlattenSeq([k \in 1..Len(ps) |-> (CHOOSE p \in Range(ps) : p.index = k - 1).data])

Whole(ps) ==
  /\ ps # <<>>
  /\ SameGroup(ps)
  /\ OneOfEach(ps)
  /\ \A i \in DOMAIN ps : ps[i].data = ps[i].chunkHash
  /\ Joined(ps) = ps[1].hash

ReassembleFragments(ps) ==
  IF (\A i \in DOMAIN ps : ps[i].kind = "fragment") /\ Whole(ps) THEN Joined(ps) ELSE Failed

OfKinds(ps, kinds) == Picked(ps, {i \in DOMAIN ps : ps[i].kind \in kinds})
FileChunks(ps) == OfKinds(ps, {"file-chunk"})

\* Whatever is no chunk is passed over.
ReassembleFileChunks(ps) ==
  IF Whole(FileChunks(ps)) THEN Joined(FileChunks(ps)) ELSE Failed
=============================================================================
