---------------------------- MODULE WinlinkStore ----------------------------
(***************************************************************************)
(* The Winlink mailbox of crates/chattybara-winlink/src/lib.rs as pure     *)
(* operators: a store record, and one operator per function that reads or  *)
(* changes it.  Nothing here knows when a store is loaded or saved; that   *)
(* is WinlinkSync.                                                         *)
(*                                                                         *)
(* Data.  A message keeps what the mailbox logic tells apart: its id, its  *)
(* folder, the transport that moved it, its last_error, and its text       *)
(* (from, to, subject, body and attachments together).  A message this     *)
(* station composed has its sequence number for id (the code prefixes the  *)
(* station's call sign, which never changes here) and the number of its    *)
(* composition for text, so that two messages that come to share an id can *)
(* still be told apart.  An inbound message has a foreign MID for id and   *)
(* text.  "fault" says at which point of a send the code gives the message *)
(* up: an attachment whose file cannot be read fails while the proposals   *)
(* are built, a title over 252 bytes only when its transfer is written.    *)
(***************************************************************************)
EXTENDS Integers, Sequences, FiniteSets, FiniteSetsExt, Functions

CONSTANTS
  MaxBatch,      \* proposals of one outbound turn (5 in the code)
  ForeignMids,   \* MIDs of mail other stations sent to this one
  Unsupported,   \* those whose proposal code, type or size is not supported
  HeaderMid,     \* the id in the header of the mail each of them names
  FakeMid        \* the id of the fixture message fake_sync receives

ASSUME StoreAssumption ==
  /\ MaxBatch \in Nat \ {0}
  /\ Unsupported \subseteq ForeignMids
  /\ DOMAIN HeaderMid = ForeignMids
  /\ FakeMid \notin ForeignMids
  /\ (ForeignMids \cup Range(HeaderMid) \cup {FakeMid}) \cap Nat = {}

Ids     == Nat \cup ForeignMids \cup Range(HeaderMid) \cup {FakeMid}
Folders == {"Inbox", "Outbox", "Sent"}
Vias    == {"none", "fake", "telnet"}
Notes   == {"none", "received", "deferred"}
Faults  == {"none", "attachment", "title"}

Message == [id: Ids, text: Ids, folder: Folders, via: Vias, note: Notes, fault: Faults]
Store   == [account: BOOLEAN, seq: Nat, msgs: Seq(Message)]

\* One side's answers to the other's proposals: the positions answered "+"
\* (send it) and "-" (already received); every other one is "=" (later).
Verdict == [yes: SUBSET Nat, have: SUBSET Nat]

NewStore == [account |-> FALSE, seq |-> 1, msgs |-> <<>>]

-----------------------------------------------------------------------------
(* Reading a store                                                         *)

In(s, folder) == {i \in DOMAIN s.msgs : s.msgs[i].folder = folder}
IdsOf(s)      == {s.msgs[i].id : i \in DOMAIN s.msgs}
TextsOf(s)    == {s.msgs[i].text : i \in DOMAIN s.msgs}

\* Messages the store says the CMS has.
SentOver(s, via) ==
  {i \in In(s, "Sent") : s.msgs[i].via = via}

HasCompleteInbox(s, id) ==
  \E i \in In(s, "Inbox") : s.msgs[i].id = id /\ s.msgs[i].note = "none"

\* The oldest MaxBatch messages of the outbox, as positions in the store.
OutboundBatch(s) ==
  LET box == In(s, "Outbox")
  IN  {i \in box : Cardinality({j \in box : j < i}) < MaxBatch}

-----------------------------------------------------------------------------
(* Changing a store                                                        *)

SetAccount(s) == [s EXCEPT !.account = TRUE]

Outgoing(s, text, fault) ==
  [id |-> s.seq, text |-> text, folder |-> "Outbox", via |-> "none",
   note |-> "none", fault |-> fault]

\* Wrong on purpose: forgets to step the sequence number.
QueueMessageSameId(s, text, fault) ==
  [s EXCEPT !.msgs = Append(@, Outgoing(s, text, fault))]

QueueMessage(s, text, fault) ==
  [account |-> s.account, seq |-> s.seq + 1,
   msgs |-> Append(s.msgs, Outgoing(s, text, fault))]

\* The same message in another folder.
Moved(m, folder, via, note) ==
  [id |-> m.id, text |-> m.text, folder |-> folder, via |-> via,
   note |-> note, fault |-> m.fault]

FakeInbox ==
  [id |-> FakeMid, text |-> FakeMid, folder |-> "Inbox", via |-> "fake",
   note |-> "none", fault |-> "none"]

FakeSync(s) ==
  LET got == IF FakeMid \in IdsOf(s) THEN s.msgs ELSE Append(s.msgs, FakeInbox)
  IN  [s EXCEPT !.msgs =
         [i \in DOMAIN got |->
            IF got[i].folder = "Outbox"
            THEN Moved(got[i], "Sent", "fake", "none")
            ELSE got[i]]]

MarkSent(s, i, why) == [s EXCEPT !.msgs[i] = Moved(@, "Sent", "telnet", why)]

\* Wrong on purpose: a folder no command looks into.
MarkDeferredAway(s, i) == [s EXCEPT !.msgs[i].folder = "Deferred"]

MarkDeferred(s, i) == [s EXCEPT !.msgs[i].note = "deferred"]

\* Wrong on purpose: a deferred message counts as sent.
AnsweredDeferredAsSent(s, i, answer) ==
  MarkSent(s, i, IF i \in answer.have THEN "received" ELSE "none")

\* What the station does with the CMS's answer for the message at i.
Answered(s, i, answer) ==
  IF i \in answer.yes THEN MarkSent(s, i, "none")
  ELSE IF i \in answer.have THEN MarkSent(s, i, "received")
  ELSE MarkDeferred(s, i)

StoredId(mid) == IF mid \in ForeignMids THEN HeaderMid[mid] ELSE mid

Received(mid, text) ==
  [id |-> StoredId(mid), text |-> text, folder |-> "Inbox", via |-> "telnet",
   note |-> "none", fault |-> "none"]

\* A message already stored under the same id is overwritten in place.
UpsertReceived(s, mid, text) ==
  LET got  == Received(mid, text)
      same == {i \in DOMAIN s.msgs : s.msgs[i].id = got.id}
  IN  IF same = {} THEN [s EXCEPT !.msgs = Append(@, got)]
                   ELSE [s EXCEPT !.msgs[Min(same)] = got]

-----------------------------------------------------------------------------
(* The answers to a batch of inbound proposals.                            *)

InboundAnswers(s, mids) ==
  LET later == {k \in DOMAIN mids :
                  mids[k] \in Unsupported \/ \E j \in 1..(k - 1) : mids[j] = mids[k]}
      have  == {k \in DOMAIN mids \ later : HasCompleteInbox(s, mids[k])}
  IN  [yes |-> DOMAIN mids \ (later \cup have), have |-> have]
=============================================================================
