---------------------------- MODULE ChatBackend ----------------------------
(***************************************************************************)
(* The state a station keeps about a chat, as pure operators: FakeBackend  *)
(* (the session and its message log, used by every chat transport) and     *)
(* ChatAppModel (beacons, CQ calls, mail and file offers).  An operation   *)
(* that returns an error before it changed anything is a guard of the      *)
(* caller's.                                                               *)
(***************************************************************************)
EXTENDS Subsequences

CONSTANTS
  Call,     \* normalized call signs
  NoCall,   \* no peer; also the addressee of a beacon or CQ
  Text      \* texts that require_text accepts

ASSUME ChatAssumption == NoCall \notin Call

Direction == {"Inbound", "Outbound"}
Message == [sequence: Nat, direction: Direction, from: Call, to: Call, text: Text]

\* ChatState is Connected exactly when there is a peer.
Backend == [peer: Call \cup {NoCall}, next: Nat, messages: Seq(Message)]
NewBackend == [peer |-> NoCall, next |-> 1, messages |-> <<>>]

IsConnected(c) == c.peer # NoCall

ConnectTo(c, call) == [peer |-> call, next |-> c.next, messages |-> c.messages]

PushMessage(c, direction, from, to, text) ==
  [peer |-> c.peer, next |-> c.next + 1,
   messages |-> Append(c.messages,
     [sequence |-> c.next, direction |-> direction, from |-> from, to |-> to, text |-> text])]

SentText(c, station, text) == PushMessage(c, "Outbound", station, c.peer, text)

\* receive_text accepts text from the connected peer only.
Accepts(c, from) == IsConnected(c) /\ c.peer = from

ReceivedText(c, station, from, text) == PushMessage(c, "Inbound", from, station, text)

\* disconnect never fails, connected or not.
Disconnected(c) == [peer |-> NoCall, next |-> c.next, messages |-> c.messages]

-----------------------------------------------------------------------------
(* ChatAppModel.  One list stands for its four: an entry with no addressee *)
(* is a beacon or CQ, one with an addressee is mail or a file offer.       *)

Entry == [sequence: Nat, from: Call, to: Call \cup {NoCall}, text: Text]
AppModel == [next: Nat, entries: Seq(Entry)]
NewAppModel == [next |-> 1, entries |-> <<>>]

Recorded(a, from, to, text) ==
  [next |-> a.next + 1,
   entries |-> Append(a.entries,
     [sequence |-> a.next, from |-> from, to |-> to, text |-> text])]

\* record_* takes the sequence number first and validates then: a request with
\* a bad call, text or digest uses up a number.
RecordRefused(a) == [next |-> a.next + 1, entries |-> a.entries]
=============================================================================
