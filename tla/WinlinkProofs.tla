--------------------------- MODULE WinlinkProofs ---------------------------
(***************************************************************************)
(* Proofs about WinlinkSync, for any number of processes, messages, faults *)
(* and any interleaving of them: type correctness, and SentWasAccepted;    *)
(* and, when the operator runs one command at a time, that it implements   *)
(* MailPromise and that what the CMS counts as delivered is kept.          *)
(***************************************************************************)
EXTENDS WinlinkSync, SequenceTheorems, WellFoundedInduction, TLAPS

-----------------------------------------------------------------------------
(* The inductive invariant                                                 *)

LinesIn(q) == {q[k] : k \in DOMAIN q}
Claimed(v) == v.yes \cup v.have

SentIds(s) == {s.msgs[i].id : i \in SentOver(s, "telnet")}

\* Batch positions the CMS has answered for but the station has not marked.
Pending(p) ==
  IF pc[p] = "sending" THEN batch[p] \cap Claimed(answers[p])
  ELSE IF pc[p] = "answers"
       THEN {i \in batch[p] : \E l \in LinesIn(down[p]) :
                                 l.t = "FS" /\ i \in Claimed(l.verdict)}
       ELSE {}

\* Ids that would count as sent if the session of p went on to a save.
Pledged(p) == SentIds(mem[p]) \cup {mem[p].msgs[i].id : i \in Pending(p)}

\* The CMS has said the line after which the station may save.
Spoken(p) == \E l \in LinesIn(down[p]) : l.t \in {"inbound", "FF", "FQ"}

SessionInv(p) ==
  /\ cms[p] = "turn" => down[p] = <<>>
  /\ cms[p] = "recv" => ~Spoken(p)
  /\ pc[p] \in {"offer", "pass"} =>
       up[p] = <<>> /\ down[p] = <<>> /\ cms[p] \in {"turn", "closed"}
  /\ pc[p] = "answers" =>
       \A l \in LinesIn(up[p]) : l.t = "outbound" =>
         \A m \in l.mids : m.at \in batch[p] => m.id = mem[p].msgs[m.at].id
  /\ pc[p] \in InSession /\ cms[p] = "recv" => Pledged(p) \subseteq AcceptedIds \cup expect[p]
  /\ pc[p] \in InSession /\ (cms[p] \in {"turn", "own", "asked", "deliver", "await"} \/ Spoken(p))
       => Pledged(p) \subseteq AcceptedIds
  /\ pc[p] \in {"download"} \cup AtSave => SentIds(mem[p]) \subseteq AcceptedIds

\* Positions point into the store or the offer they are about.
Positions(p) ==
  /\ pc[p] \in {"answers", "sending"} => batch[p] \subseteq DOMAIN mem[p].msgs
  /\ want[p] \cup give[p] \subseteq DOMAIN offer[p]
  /\ \A l \in LinesIn(up[p]) : l.t = "FS" => l.verdict.yes \cup l.verdict.have \subseteq DOMAIN offer[p]
  /\ pc[p] \in {"offer", "pass", "answers", "sending", "listen"} =>
       give[p] = {} /\ \A l \in LinesIn(up[p]) : l.t # "FS"
  /\ LinesIn(offer[p]) \subseteq ForeignMids \cup AcceptedIds
  /\ \A l \in LinesIn(down[p]) : l.t = "inbound" => LinesIn(l.mids) \subseteq ForeignMids \cup AcceptedIds

TypeInv == TypeOK /\ \A p \in Proc : Positions(p)

IInv ==
  /\ TypeInv
  /\ SentIds(disk) \subseteq AcceptedIds
  /\ \A p \in Proc : SessionInv(p)

-----------------------------------------------------------------------------
(* Queues of lines                                                         *)

\* The lines of a channel with one more.
LEMMA AppendLines ==
  ASSUME NEW S, NEW q \in Seq(S), NEW x \in S
  PROVE  /\ Append(q, x) \in Seq(S)
         /\ LinesIn(Append(q, x)) = LinesIn(q) \cup {x}
<1>1. /\ Append(q, x) \in Seq(S)
      /\ DOMAIN q = 1..Len(q)
      /\ DOMAIN Append(q, x) = 1..(Len(q) + 1)
      /\ \A k \in 1..Len(q) : Append(q, x)[k] = q[k]
      /\ Append(q, x)[Len(q) + 1] = x
      /\ Len(q) \in Nat
  OBVIOUS
<1>2. 1..(Len(q) + 1) = 1..Len(q) \cup {Len(q) + 1}
  BY <1>1
<1> QED
  BY <1>1, <1>2 DEF LinesIn

\* The lines of a channel with one less.
LEMMA TailLines ==
  ASSUME NEW S, NEW q \in Seq(S), q # <<>>
  PROVE  /\ Head(q) \in S /\ Head(q) \in LinesIn(q)
         /\ Tail(q) \in Seq(S)
         /\ LinesIn(Tail(q)) \subseteq LinesIn(q)
<1>1. /\ Head(q) = q[1] /\ Head(q) \in S
      /\ DOMAIN q = 1..Len(q) /\ Len(q) \in Nat \ {0}
  BY HeadTailProperties
<1>2. /\ Tail(q) \in Seq(S)
      /\ Len(Tail(q)) = Len(q) - 1
      /\ DOMAIN Tail(q) = 1..Len(Tail(q))
      /\ \A k \in 1..Len(Tail(q)) : Tail(q)[k] = q[k + 1]
  BY HeadTailProperties
<1> QED
  BY <1>1, <1>2 DEF LinesIn

\* An empty channel has no lines.
LEMMA EmptyLines == LinesIn(<<>>) = {}
BY DEF LinesIn

-----------------------------------------------------------------------------
(* What the mailbox operators return, and which ids they may add to those  *)
(* the store calls sent over Telnet                                        *)

\* A new store is a store without sent messages.
LEMMA NewStoreFacts == NewStore \in Store /\ SentIds(NewStore) = {}
BY DEF NewStore, Store, SentIds, SentOver, In

\* Account setup leaves the messages alone.
LEMMA SetAccountFacts ==
  ASSUME NEW s \in Store
  PROVE  SetAccount(s) \in Store /\ SentIds(SetAccount(s)) = SentIds(s)
BY DEF SetAccount, Store, SentIds, SentOver, In

\* Composing adds a message that is not sent.
LEMMA QueueMessageFacts ==
  ASSUME NEW s \in Store, NEW text \in Nat, NEW fault \in Faults
  PROVE  /\ QueueMessage(s, text, fault) \in Store
         /\ SentIds(QueueMessage(s, text, fault)) = SentIds(s)
<1> DEFINE m == Outgoing(s, text, fault)
           t == QueueMessage(s, text, fault)
<1>1. m \in Message /\ m.folder = "Outbox"
  BY DEF Outgoing, Message, Store, Ids, Folders, Vias, Notes
<1> HIDE DEF m
<1>2. t.msgs = Append(s.msgs, m) /\ t \in Store
  BY <1>1 DEF QueueMessage, Store, m
<1> HIDE DEF t
<1>3. /\ DOMAIN t.msgs = DOMAIN s.msgs \cup {Len(s.msgs) + 1}
      /\ \A k \in DOMAIN s.msgs : t.msgs[k] = s.msgs[k]
      /\ t.msgs[Len(s.msgs) + 1] = m
  BY <1>1, <1>2 DEF Store
<1>4. SentOver(t, "telnet") = SentOver(s, "telnet")
  BY <1>1, <1>3 DEF SentOver, In
<1>5. SentIds(t) = SentIds(s)
  BY <1>3, <1>4 DEF SentIds, SentOver, In
<1> QED
  BY <1>2, <1>5 DEF t

\* The fake sync leaves a store.
LEMMA FakeSyncFacts ==
  ASSUME NEW s \in Store
  PROVE  FakeSync(s) \in Store /\ SentIds(FakeSync(s)) \subseteq SentIds(s)
<1> DEFINE got == IF FakeMid \in IdsOf(s) THEN s.msgs ELSE Append(s.msgs, FakeInbox)
           t == FakeSync(s)
<1>1. FakeInbox \in Message /\ FakeInbox.folder = "Inbox"
  BY DEF FakeInbox, Message, Ids, Folders, Vias, Notes, Faults
<1>2. got \in Seq(Message)
  BY <1>1 DEF Store
<1>3. \A k \in DOMAIN got : got[k].folder # "Inbox" => k \in DOMAIN s.msgs /\ got[k] = s.msgs[k]
  <2>1. CASE FakeMid \in IdsOf(s)
    BY <2>1
  <2>2. CASE FakeMid \notin IdsOf(s)
    <3>1. got = Append(s.msgs, FakeInbox)
      BY <2>2
    <3> QED
      BY <1>1, <3>1 DEF Store
  <2> QED
    BY <2>1, <2>2
<1>4. /\ DOMAIN t.msgs = DOMAIN got
      /\ t.msgs = [k \in DOMAIN got |->
            IF got[k].folder = "Outbox" THEN Moved(got[k], "Sent", "fake", "none") ELSE got[k]]
      /\ t = [s EXCEPT !.msgs = t.msgs]
  BY DEF FakeSync, Store
<1> HIDE DEF got, t
<1>5. \A k \in DOMAIN got : t.msgs[k] \in Message
  <2> TAKE k \in DOMAIN got
  <2>1. got[k] \in Message
    BY <1>2
  <2>2. Moved(got[k], "Sent", "fake", "none") \in Message
    BY <2>1 DEF Moved, Message, Folders, Vias, Notes
  <2> QED
    BY <1>4, <2>1, <2>2
<1>6. t.msgs \in Seq(Message)
  <2>1. DOMAIN got = 1..Len(got) /\ Len(got) \in Nat
    BY <1>2
  <2>2. t.msgs \in [1..Len(got) -> Message]
    BY <1>4, <1>5, <2>1
  <2> QED
    BY <2>1, <2>2, SeqDef
<1>7. t \in Store
  BY <1>4, <1>6 DEF Store
<1>8. SentIds(t) \subseteq SentIds(s)
  <2> SUFFICES ASSUME NEW k \in SentOver(t, "telnet")
               PROVE  k \in SentOver(s, "telnet") /\ t.msgs[k].id = s.msgs[k].id
    BY DEF SentIds
  <2>1. k \in DOMAIN got /\ t.msgs[k].folder = "Sent" /\ t.msgs[k].via = "telnet"
    BY <1>4 DEF SentOver, In
  <2>2. got[k] \in Message
    BY <1>2, <2>1
  <2>3. got[k].folder # "Outbox" /\ t.msgs[k] = got[k]
    BY <1>4, <2>1, <2>2 DEF Message, Moved
  <2> QED
    BY <1>3, <2>1, <2>3 DEF SentOver, In
<1> QED
  BY <1>7, <1>8 DEF t

\* One message replaced: every mailbox operator that changes a message in place.
LEMMA ReplaceFacts ==
  ASSUME NEW s \in Store, NEW i, NEW m, i \in DOMAIN s.msgs => m \in Message,
         NEW t, t = [s EXCEPT !.msgs = [@ EXCEPT ![i] = m]]
  PROVE  /\ t \in Store
         /\ DOMAIN t.msgs = DOMAIN s.msgs
         /\ \A k \in DOMAIN s.msgs : t.msgs[k] = IF k = i THEN m ELSE s.msgs[k]
<1>1. s.msgs \in Seq(Message) /\ DOMAIN s.msgs = 1..Len(s.msgs) /\ Len(s.msgs) \in Nat
  BY DEF Store
<1>2. t.msgs = [s.msgs EXCEPT ![i] = m]
  BY DEF Store
<1>3. /\ DOMAIN t.msgs = DOMAIN s.msgs
      /\ \A k \in DOMAIN s.msgs : t.msgs[k] = IF k = i THEN m ELSE s.msgs[k]
  BY <1>1, <1>2
<1>4. t.msgs \in Seq(Message)
  <2>1. \A k \in 1..Len(s.msgs) : s.msgs[k] \in Message
    BY <1>1
  <2>2. t.msgs \in [1..Len(s.msgs) -> Message]
    BY <1>1, <1>2, <1>3, <2>1
  <2> QED
    BY <1>1, <2>2, SeqDef
<1>5. t \in Store
  BY <1>2, <1>4 DEF Store
<1> QED
  BY <1>3, <1>5

\* Marking an answered proposal leaves a store.
LEMMA AnsweredFacts ==
  ASSUME NEW s \in Store, NEW i, NEW v \in Verdict
  PROVE  /\ Answered(s, i, v) \in Store
         /\ DOMAIN Answered(s, i, v).msgs = DOMAIN s.msgs
         /\ \A k \in DOMAIN s.msgs : Answered(s, i, v).msgs[k].id = s.msgs[k].id
         /\ SentIds(Answered(s, i, v)) \subseteq
               SentIds(s) \cup {s.msgs[k].id : k \in {i} \cap Claimed(v)}
<1> DEFINE t == Answered(s, i, v)
           m == IF i \in v.yes THEN Moved(s.msgs[i], "Sent", "telnet", "none")
                ELSE IF i \in v.have THEN Moved(s.msgs[i], "Sent", "telnet", "received")
                ELSE [s.msgs[i] EXCEPT !.note = "deferred"]
<1>1. t = [s EXCEPT !.msgs = [@ EXCEPT ![i] = m]]
  BY DEF Answered, MarkSent, MarkDeferred
<1>2. \A k \in DOMAIN s.msgs : s.msgs[k] \in Message
  BY DEF Store
<1>3. i \in DOMAIN s.msgs =>
        /\ m \in Message
        /\ m.id = s.msgs[i].id
        /\ m.folder = "Sent" /\ m.via = "telnet" =>
             \/ i \in Claimed(v)
             \/ s.msgs[i].folder = "Sent" /\ s.msgs[i].via = "telnet"
  <2> SUFFICES ASSUME i \in DOMAIN s.msgs
               PROVE  /\ m \in Message
                      /\ m.id = s.msgs[i].id
                      /\ m.folder = "Sent" /\ m.via = "telnet" =>
                           \/ i \in Claimed(v)
                           \/ s.msgs[i].folder = "Sent" /\ s.msgs[i].via = "telnet"
    OBVIOUS
  <2>1. s.msgs[i] \in Message
    BY <1>2
  <2>2. \A why \in Notes : /\ Moved(s.msgs[i], "Sent", "telnet", why) \in Message
                           /\ Moved(s.msgs[i], "Sent", "telnet", why).id = s.msgs[i].id
    BY <2>1 DEF Moved, Message, Folders, Vias, Notes
  <2>3. CASE i \in Claimed(v)
    BY <2>2, <2>3 DEF Claimed, Notes
  <2>4. CASE i \notin Claimed(v)
    <3>1. m = [s.msgs[i] EXCEPT !.note = "deferred"]
      BY <2>4 DEF Claimed
    <3>2. /\ m \in Message /\ m.id = s.msgs[i].id
          /\ m.folder = s.msgs[i].folder /\ m.via = s.msgs[i].via
      BY <2>1, <3>1 DEF Message, Notes
    <3> QED
      BY <3>2
  <2> QED
    BY <2>3, <2>4
<1> HIDE DEF t, m
<1>4. /\ t \in Store
      /\ DOMAIN t.msgs = DOMAIN s.msgs
      /\ \A k \in DOMAIN s.msgs : t.msgs[k] = IF k = i THEN m ELSE s.msgs[k]
  BY <1>1, <1>3, ReplaceFacts
<1>5. \A k \in DOMAIN s.msgs : t.msgs[k].id = s.msgs[k].id
  BY <1>3, <1>4
<1>6. \A k \in SentOver(t, "telnet") : k \in SentOver(s, "telnet") \/ k \in {i} \cap Claimed(v)
  BY <1>3, <1>4 DEF SentOver, In
<1>7. SentIds(t) \subseteq SentIds(s) \cup {s.msgs[k].id : k \in {i} \cap Claimed(v)}
  BY <1>4, <1>5, <1>6 DEF SentIds, SentOver, In
<1> QED
  BY <1>4, <1>5, <1>7 DEF t

\* Storing an inbound message leaves a store.
LEMMA UpsertFacts ==
  ASSUME NEW s \in Store, NEW mid \in Ids, NEW text \in Ids
  PROVE  /\ UpsertReceived(s, mid, text) \in Store
         /\ SentIds(UpsertReceived(s, mid, text)) \subseteq SentIds(s)
<1> DEFINE got  == Received(mid, text)
           same == {i \in DOMAIN s.msgs : s.msgs[i].id = got.id}
           t    == UpsertReceived(s, mid, text)
<1>1. StoredId(mid) \in Ids
  BY StoreAssumption DEF StoredId, Ids, Range
<1>2. got \in Message /\ got.folder = "Inbox"
  BY <1>1 DEF Received, Message, Folders, Vias, Notes, Faults
<1>3. CASE same = {}
  <2>1. t = [s EXCEPT !.msgs = Append(@, got)]
    BY <1>3 DEF UpsertReceived
  <2> HIDE DEF got, same, t
  <2>2. t.msgs = Append(s.msgs, got) /\ t \in Store
    <3> DEFINE q == Append(s.msgs, got)
    <3>1. q \in Seq(Message)
      BY <1>2 DEF Store
    <3>2. t = [s EXCEPT !.msgs = q]
      BY <2>1
    <3> HIDE DEF q
    <3>3. t.msgs = q /\ t \in Store
      BY <3>1, <3>2 DEF Store
    <3> QED
      BY <3>3 DEF q
  <2>3. /\ DOMAIN t.msgs = DOMAIN s.msgs \cup {Len(s.msgs) + 1}
        /\ \A k \in DOMAIN s.msgs : t.msgs[k] = s.msgs[k]
        /\ t.msgs[Len(s.msgs) + 1] = got
    BY <1>2, <2>2 DEF Store
  <2>4. SentOver(t, "telnet") \subseteq SentOver(s, "telnet")
    BY <1>2, <2>3 DEF SentOver, In
  <2>5. SentIds(t) \subseteq SentIds(s)
    BY <2>3, <2>4 DEF SentIds, SentOver, In
  <2> QED
    BY <2>2, <2>5 DEF t
<1>4. CASE same # {}
  <2> DEFINE i == Min(same)
  <2>1. t = [s EXCEPT !.msgs = [@ EXCEPT ![i] = got]]
    BY <1>4 DEF UpsertReceived
  <2> HIDE DEF got, same, t, i
  <2>2. /\ t \in Store
        /\ DOMAIN t.msgs = DOMAIN s.msgs
        /\ \A k \in DOMAIN s.msgs : t.msgs[k] = IF k = i THEN got ELSE s.msgs[k]
    BY <1>2, <2>1, ReplaceFacts
  <2>3. \A k \in SentOver(t, "telnet") : k \in SentOver(s, "telnet") /\ t.msgs[k] = s.msgs[k]
    BY <1>2, <2>2 DEF SentOver, In
  <2>4. SentIds(t) \subseteq SentIds(s)
    BY <2>3 DEF SentIds
  <2> QED
    BY <2>2, <2>4 DEF t
<1> QED
  BY <1>3, <1>4

-----------------------------------------------------------------------------
(* A step of p leaves every other process alone, and the CMS never loses   *)
(* mail.                                                                   *)

Same(q) ==
  /\ mem'[q] = mem[q] /\ pc'[q] = pc[q] /\ batch'[q] = batch[q]
  /\ answers'[q] = answers[q] /\ offer'[q] = offer[q] /\ want'[q] = want[q]
  /\ up'[q] = up[q] /\ down'[q] = down[q] /\ cms'[q] = cms[q]
  /\ expect'[q] = expect[q] /\ give'[q] = give[q] /\ taken'[q] = taken[q]

\* A step of one process leaves what the others have alone, and what the CMS
\* accepted stays accepted.
LEMMA Frame ==
  ASSUME TypeOK, NEW p \in Proc, Step(p)
  PROVE  /\ \A q \in Proc \ {p} : Same(q)
         /\ AcceptedIds \subseteq AcceptedIds'
<1> USE DEF TypeOK, Same, AcceptedIds, local, remote, wire, counters, Goto, Say, Hear,
            CmsSays, CmsHears, CmsGoto
<1>1. CASE AccountSetup(p) \/ Compose(p) \/ SyncFake(p)
  BY <1>1 DEF AccountSetup, Compose, SyncFake, LocalCommand
<1>2. CASE SyncStart(p)
  BY <1>2 DEF SyncStart
<1>3. CASE SaveBegin(p) \/ SaveEnd(p) \/ Crash(p)
  BY <1>3 DEF SaveBegin, SaveEnd, Crash
<1>4. CASE PassTurn(p) \/ OfferOutbox(p) \/ ReadAnswers(p) \/ OutboundDone(p)
  BY <1>4 DEF PassTurn, OfferOutbox, ReadAnswers, OutboundDone
<1>5. CASE SendNext(p) \/ AnswerInbound(p) \/ Download(p)
  BY <1>5, ZenonT(30) DEF SendNext, AnswerInbound, Download
<1>6. CASE InboundDone(p) \/ NothingInbound(p) \/ CmsQuit(p)
  BY <1>6 DEF InboundDone, NothingInbound, CmsQuit
<1>7. CASE Fail(p) \/ HungUp(p) \/ Unsendable(p)
  BY <1>7 DEF Fail, HungUp, Unsendable, GiveUp
<1>8. CASE CmsPassed(p) \/ CmsAnswer(p) \/ CmsReceive(p)
  BY <1>8, ZenonT(30) DEF CmsPassed, CmsAnswer, CmsReceive
<1>9. CASE CmsOffer(p) \/ CmsOffersNothing(p) \/ CmsAnswered(p)
  BY <1>9, ZenonT(30) DEF CmsOffer, CmsOffersNothing, CmsAnswered
<1>10. CASE CmsSend(p) \/ CmsSent(p) \/ CmsEnd(p) \/ CmsDrop(p) \/ CmsTidy(p)
  BY <1>10 DEF CmsSend, CmsSent, CmsEnd, CmsDrop, CmsTidy, CmsClose
<1> QED
  BY <1>1, <1>2, <1>3, <1>4, <1>5, <1>6, <1>7, <1>8, <1>9, <1>10
  DEF Step, Proceed, CmsProceed

-----------------------------------------------------------------------------
(* Type correctness                                                        *)

\* The initial states have the types.
LEMMA TypeInit == Init => TypeInv
<1> SUFFICES ASSUME Init PROVE TypeInv
  OBVIOUS
<1>1. NoVerdict \in Verdict
  BY DEF NoVerdict, Verdict
<1>2. TypeOK
  BY <1>1, NewStoreFacts DEF Init, TypeOK, Pcs, CmsStates
<1>3. \A p \in Proc : Positions(p)
  BY EmptyLines DEF Init, Positions
<1> QED
  BY <1>2, <1>3 DEF TypeInv

\* What a process loads is a store.
LEMMA LoadedType == TypeOK => Loaded \in Store
BY NewStoreFacts DEF TypeOK, Loaded

\* Messages and positions have their types.
LEMMA MessageTypes ==
  ASSUME NEW s \in Store, NEW i \in DOMAIN s.msgs
  PROVE  s.msgs[i] \in Message /\ s.msgs[i].id \in Ids /\ s.msgs[i].text \in Ids
<1>1. s.msgs[i] \in Message
  BY DEF Store
<1> QED
  BY <1>1 DEF Message

\* Account setup, compose and the fake sync keep the types.
LEMMA TypeCommands ==
  ASSUME TypeInv, NEW p \in Proc,
         AccountSetup(p) \/ Compose(p) \/ SyncFake(p) \/ SyncStart(p)
  PROVE  TypeOK'
<1> USE DEF TypeInv, TypeOK, local, remote, wire, counters, Goto, Pcs, InSession, AtSave
<1>1. Loaded \in Store
  BY LoadedType
<1>2. ASSUME NEW s \in Store, LocalCommand(p, s), composed' \in Nat
      PROVE  TypeOK'
  BY <1>2 DEF LocalCommand
<1>3. CASE AccountSetup(p)
  BY <1>1, <1>2, <1>3, SetAccountFacts DEF AccountSetup
<1>4. CASE Compose(p)
  <2>1. PICK fault \in Faults : LocalCommand(p, QueueMessage(Loaded, composed + 1, fault))
    BY <1>4 DEF Compose
  <2>2. QueueMessage(Loaded, composed + 1, fault) \in Store
    BY <1>1, QueueMessageFacts
  <2> QED
    BY <1>2, <1>4, <2>1, <2>2 DEF Compose
<1>5. CASE SyncFake(p)
  BY <1>1, <1>2, <1>5, FakeSyncFacts DEF SyncFake
<1>6. CASE SyncStart(p)
  <2>1. NoVerdict \in Verdict
    BY DEF NoVerdict, Verdict
  <2>2. mem' \in [Proc -> Store] /\ pc' \in [Proc -> Pcs] /\ cms' \in [Proc -> CmsStates]
    BY <1>1, <1>6 DEF SyncStart, CmsStates
  <2>3. /\ batch' \in [Proc -> SUBSET Nat] /\ answers' \in [Proc -> Verdict]
        /\ offer' \in [Proc -> Seq(Ids)] /\ want' \in [Proc -> SUBSET Nat]
    BY <1>6, <2>1 DEF SyncStart
  <2>4. /\ up' \in [Proc -> Seq(UpLine)] /\ down' \in [Proc -> Seq(DownLine)]
        /\ expect' \in [Proc -> SUBSET Ids] /\ give' \in [Proc -> SUBSET Nat]
        /\ taken' \in [Proc -> SUBSET Ids]
    BY <1>6 DEF SyncStart
  <2> QED
    BY <1>6, <2>2, <2>3, <2>4 DEF SyncStart
<1> QED
  BY <1>3, <1>4, <1>5, <1>6

\* Saving and crashing keep the types.
LEMMA TypeSave ==
  ASSUME TypeInv, NEW p \in Proc, SaveBegin(p) \/ SaveEnd(p) \/ Crash(p)
  PROVE  TypeOK'
<1> USE DEF TypeInv, TypeOK, local, remote, wire, counters, Goto
<1>1. pc' \in [Proc -> Pcs]
  BY DEF SaveBegin, SaveEnd, Crash, Pcs, AtSave
<1>2. CASE SaveBegin(p)
  BY <1>1, <1>2 DEF SaveBegin
<1>3. CASE SaveEnd(p)
  BY <1>1, <1>3 DEF SaveEnd
<1>4. CASE Crash(p)
  BY <1>1, <1>4 DEF Crash
<1> QED
  BY <1>2, <1>3, <1>4

\* The outbound half of a session keeps the types.
LEMMA TypeOutbound ==
  ASSUME TypeInv, NEW p \in Proc,
         PassTurn(p) \/ OfferOutbox(p) \/ ReadAnswers(p) \/ SendNext(p) \/ OutboundDone(p)
  PROVE  TypeOK'
<1> USE DEF TypeInv, TypeOK, local, remote, wire, counters, Goto, Pcs, InSession, AtSave, Say
<1>1. ASSUME NEW l \in UpLine
      PROVE  Append(up[p], l) \in Seq(UpLine)
  OBVIOUS
<1>2. [t |-> "FF"] \in UpLine
  BY DEF UpLine
<1>3. CASE PassTurn(p)
  BY <1>1, <1>2, <1>3 DEF PassTurn
<1>4. CASE OfferOutbox(p)
  <2> DEFINE box  == OutboundBatch(mem[p])
             line == [t |-> "outbound", mids |-> {[at |-> i, id |-> mem[p].msgs[i].id] : i \in box}]
  <2>1. box \subseteq DOMAIN mem[p].msgs /\ box \subseteq Nat
    BY DEF OutboundBatch, In, Store
  <2>2. \A i \in box : mem[p].msgs[i].id \in Ids
    BY <2>1, MessageTypes
  <2>3. {[at |-> i, id |-> mem[p].msgs[i].id] : i \in box} \in SUBSET [at: Nat, id: Ids]
    BY <2>1, <2>2
  <2>4. line \in UpLine
    BY <2>3 DEF UpLine
  <2> HIDE DEF box, line
  <2>5. up' \in [Proc -> Seq(UpLine)]
    <3>1. CASE box = {}
      BY <1>1, <1>2, <1>4, <3>1, ZenonT(30) DEF OfferOutbox, box
    <3>2. CASE box # {}
      <4>1. up' = [up EXCEPT ![p] = Append(@, line)]
        BY <1>4, <3>2 DEF OfferOutbox, box, line
      <4> QED
        BY <1>1, <2>4, <4>1
    <3> QED
      BY <3>1, <3>2
  <2> QED
    BY <1>4, <2>1, <2>5 DEF OfferOutbox, box
<1>5. CASE ReadAnswers(p)
  <2>1. /\ down[p] # <<>> /\ Head(down[p]).t = "FS"
        /\ Head(down[p]) \in DownLine /\ Tail(down[p]) \in Seq(DownLine)
    BY <1>5, TailLines DEF ReadAnswers, Hear
  <2>2. Head(down[p]).verdict \in Verdict
    BY <2>1 DEF DownLine
  <2> QED
    BY <1>5, <2>1, <2>2 DEF ReadAnswers, Hear
<1>6. CASE SendNext(p)
  <2>1. PICK i \in batch[p] :
          /\ \/ up' = [up EXCEPT ![p] = Append(@, [t |-> "mail", mid |-> mem[p].msgs[i].id,
                                                   text |-> mem[p].msgs[i].text])]
                /\ i \in answers[p].yes
             \/ UNCHANGED up
          /\ mem' = [mem EXCEPT ![p] = Answered(@, i, answers[p])]
          /\ batch' = [batch EXCEPT ![p] = @ \ {i}]
    BY <1>6 DEF SendNext
  <2>2. Answered(mem[p], i, answers[p]) \in Store
    BY AnsweredFacts
  <2> DEFINE line == [t |-> "mail", mid |-> mem[p].msgs[i].id, text |-> mem[p].msgs[i].text]
  <2>3. line \in UpLine
    <3>1. i \in DOMAIN mem[p].msgs
      BY <1>6 DEF Positions, SendNext
    <3>2. mem[p].msgs[i].id \in Ids /\ mem[p].msgs[i].text \in Ids
      BY <3>1, MessageTypes
    <3> QED
      BY <3>2 DEF UpLine
  <2> HIDE DEF line
  <2>4. up' \in [Proc -> Seq(UpLine)]
    BY <1>1, <2>1, <2>3 DEF line
  <2> QED
    BY <1>6, <2>1, <2>2, <2>4 DEF SendNext
<1>7. CASE OutboundDone(p)
  BY <1>7 DEF OutboundDone
<1> QED
  BY <1>3, <1>4, <1>5, <1>6, <1>7

\* The line a process or the CMS has just heard.
LEMMA Heard ==
  ASSUME TypeInv, NEW p \in Proc, NEW kind, Hear(p, kind)
  PROVE  /\ Head(down[p]) \in DownLine /\ Head(down[p]) \in LinesIn(down[p])
         /\ Head(down[p]).t = kind
         /\ down' \in [Proc -> Seq(DownLine)]
         /\ LinesIn(down'[p]) \subseteq LinesIn(down[p])
BY TailLines DEF Hear, TypeInv, TypeOK

\* A line the CMS reads leaves the channel.
LEMMA CmsHeard ==
  ASSUME TypeInv, NEW p \in Proc, NEW kind, CmsHears(p, kind)
  PROVE  /\ Head(up[p]) \in UpLine /\ Head(up[p]) \in LinesIn(up[p])
         /\ Head(up[p]).t = kind
         /\ up' \in [Proc -> Seq(UpLine)]
         /\ LinesIn(up'[p]) \subseteq LinesIn(up[p])
BY TailLines DEF CmsHears, TypeInv, TypeOK

\* The line it has just said.
LEMMA Said ==
  ASSUME TypeInv, NEW p \in Proc, NEW l \in UpLine, Say(p, l)
  PROVE  up' \in [Proc -> Seq(UpLine)] /\ LinesIn(up'[p]) = LinesIn(up[p]) \cup {l}
BY AppendLines DEF Say, TypeInv, TypeOK

\* A line the CMS says enters the channel.
LEMMA CmsSaid ==
  ASSUME TypeInv, NEW p \in Proc, NEW l \in DownLine, CmsSays(p, l)
  PROVE  down' \in [Proc -> Seq(DownLine)] /\ LinesIn(down'[p]) = LinesIn(down[p]) \cup {l}
BY AppendLines DEF CmsSays, TypeInv, TypeOK

\* The lines that pass the turn are lines.
LEMMA TurnLines == /\ [t |-> "FF"] \in UpLine /\ [t |-> "FQ"] \in UpLine
                   /\ [t |-> "FF"] \in DownLine /\ [t |-> "FQ"] \in DownLine
BY DEF UpLine, DownLine

\* A turn said by the station.
LEMMA SaidTurn ==
  ASSUME TypeInv, NEW p \in Proc, Say(p, [t |-> "FF"]) \/ Say(p, [t |-> "FQ"])
  PROVE  \A l \in LinesIn(up'[p]) : l \in LinesIn(up[p]) \/ l.t \in {"FF", "FQ"}
<1>1. PICK l \in UpLine : Say(p, l) /\ l.t \in {"FF", "FQ"}
  BY TurnLines
<1>2. LinesIn(up'[p]) = LinesIn(up[p]) \cup {l}
  BY <1>1, Said
<1> QED
  BY <1>1, <1>2

\* A turn said by the CMS.
LEMMA CmsSaidTurn ==
  ASSUME TypeInv, NEW p \in Proc, CmsSays(p, [t |-> "FF"]) \/ CmsSays(p, [t |-> "FQ"])
  PROVE  \A l \in LinesIn(down'[p]) : l \in LinesIn(down[p]) \/ l.t \in {"FF", "FQ"}
<1>1. PICK l \in DownLine : CmsSays(p, l) /\ l.t \in {"FF", "FQ"}
  BY TurnLines
<1>2. LinesIn(down'[p]) = LinesIn(down[p]) \cup {l}
  BY <1>1, CmsSaid
<1> QED
  BY <1>1, <1>2

\* Answers to inbound proposals are lines.
LEMMA InboundAnswersType ==
  ASSUME NEW s, NEW mids \in Seq(Ids)
  PROVE  /\ InboundAnswers(s, mids) \in Verdict
         /\ Claimed(InboundAnswers(s, mids)) \subseteq DOMAIN mids
<1>1. DOMAIN mids \subseteq Nat
  OBVIOUS
<1> QED
  BY <1>1 DEF InboundAnswers, Verdict, Claimed

\* The inbound half of a session keeps the types.
LEMMA TypeInbound ==
  ASSUME TypeInv, NEW p \in Proc,
         AnswerInbound(p) \/ Download(p) \/ InboundDone(p) \/ NothingInbound(p) \/ CmsQuit(p)
  PROVE  TypeOK'
<1> USE DEF TypeInv, TypeOK, local, remote, wire, counters, Goto, Pcs, InSession, AtSave
<1>1. CASE AnswerInbound(p)
  <2> DEFINE mids == Head(down[p]).mids
             line == [t |-> "FS", verdict |-> InboundAnswers(mem[p], mids)]
  <2>0. /\ down' \in [Proc -> Seq(DownLine)]
        /\ Head(down[p]) \in DownLine /\ Head(down[p]).t = "inbound"
    BY <1>1, Heard DEF AnswerInbound
  <2>1. down' \in [Proc -> Seq(DownLine)] /\ mids \in Seq(Ids)
    BY <2>0 DEF DownLine
  <2>2. InboundAnswers(mem[p], mids) \in Verdict
    BY <2>1, InboundAnswersType
  <2>3. line \in UpLine
    BY <2>2 DEF UpLine
  <2>4. Say(p, line)
    BY <1>1 DEF AnswerInbound
  <2> HIDE DEF line
  <2>5. up' \in [Proc -> Seq(UpLine)]
    BY <2>3, <2>4, Said
  <2>6. InboundAnswers(mem[p], mids).yes \in SUBSET Nat
    BY <2>2 DEF Verdict
  <2> QED
    BY <1>1, <2>1, <2>5, <2>6 DEF AnswerInbound
<1>2. CASE Download(p)
  <2>1. PICK k \in want[p] :
          /\ mem' = [mem EXCEPT ![p] = UpsertReceived(@, offer[p][k], Head(down[p]).text)]
          /\ want' = [want EXCEPT ![p] = @ \ {k}]
    BY <1>2 DEF Download
  <2>0. /\ down' \in [Proc -> Seq(DownLine)]
        /\ Head(down[p]) \in DownLine /\ Head(down[p]).t = "mail"
    BY <1>2, Heard DEF Download
  <2>2. down' \in [Proc -> Seq(DownLine)] /\ Head(down[p]).text \in Ids
    BY <2>0 DEF DownLine
  <2>3. offer[p][k] \in Ids
    BY DEF Positions
  <2>4. UpsertReceived(mem[p], offer[p][k], Head(down[p]).text) \in Store
    BY <2>2, <2>3, UpsertFacts
  <2> QED
    BY <1>2, <2>1, <2>2, <2>4 DEF Download
<1>3. CASE InboundDone(p)
  BY <1>3, Said, TurnLines DEF InboundDone
<1>4. CASE NothingInbound(p)
  <2>1. down' \in [Proc -> Seq(DownLine)] /\ up' \in [Proc -> Seq(UpLine)]
    BY <1>4, Heard, Said, TurnLines DEF NothingInbound
  <2> QED
    BY <1>4, <2>1 DEF NothingInbound
<1>5. CASE CmsQuit(p)
  <2>1. down' \in [Proc -> Seq(DownLine)]
    BY <1>5, Heard DEF CmsQuit
  <2> QED
    BY <1>5, <2>1 DEF CmsQuit
<1> QED
  BY <1>1, <1>2, <1>3, <1>4, <1>5

\* A session given up keeps the types.
LEMMA TypeGiveUp ==
  ASSUME TypeInv, NEW p \in Proc, Fail(p) \/ HungUp(p) \/ Unsendable(p)
  PROVE  TypeOK'
<1>1. GiveUp(p) /\ faults' \in Nat
  BY DEF Fail, HungUp, Unsendable, TypeInv, TypeOK
<1> QED
  BY <1>1 DEF GiveUp, TypeInv, TypeOK, local, remote, wire, counters, Goto, Pcs

\* The CMS's turn keeps the types.
LEMMA TypeCmsTurn ==
  ASSUME TypeInv, NEW p \in Proc, CmsPassed(p) \/ CmsAnswer(p) \/ CmsReceive(p)
  PROVE  TypeOK'
<1> USE DEF TypeInv, TypeOK, local, remote, wire, counters, CmsGoto, CmsStates
<1>1. CASE CmsPassed(p)
  BY <1>1, CmsHeard DEF CmsPassed
<1>2. CASE CmsAnswer(p)
  <2> DEFINE props == Head(up[p]).mids
  <2>0. /\ up' \in [Proc -> Seq(UpLine)]
        /\ Head(up[p]) \in UpLine /\ Head(up[p]).t = "outbound"
    BY <1>2, CmsHeard DEF CmsAnswer
  <2>1. up' \in [Proc -> Seq(UpLine)] /\ props \subseteq [at: Nat, id: Ids]
    BY <2>0 DEF UpLine
  <2> HIDE DEF props
  <2>2. PICK later \in SUBSET props :
          LET have == {m \in props \ later : m.id \in AcceptedIds}
              yes  == props \ (later \cup have)
          IN
          /\ IF later = {} THEN UNCHANGED faults
                           ELSE faults < MaxFaults /\ faults' = faults + 1
          /\ CmsSays(p, [t |-> "FS", verdict |-> [yes |-> {m.at : m \in yes},
                                                 have |-> {m.at : m \in have}]])
          /\ expect' = [expect EXCEPT ![p] = {m.id : m \in yes}]
          /\ CmsGoto(p, IF yes = {} THEN "own" ELSE "recv")
    BY <1>2 DEF CmsAnswer, props
  <2> DEFINE have == {m \in props \ later : m.id \in AcceptedIds}
             yes  == props \ (later \cup have)
             v == [yes |-> {m.at : m \in yes}, have |-> {m.at : m \in have}]
             line == [t |-> "FS", verdict |-> v]
  <2>3. v \in Verdict
    BY <2>1 DEF Verdict
  <2>4. line \in DownLine
    BY <2>3 DEF DownLine
  <2>5. CmsSays(p, line)
    BY <2>2
  <2> HIDE DEF v, line
  <2>6. down' \in [Proc -> Seq(DownLine)]
    BY <2>4, <2>5, CmsSaid
  <2>7. {m.id : m \in yes} \in SUBSET Ids
    BY <2>1
  <2>8. expect' \in [Proc -> SUBSET Ids] /\ cms' \in [Proc -> CmsStates] /\ faults' \in Nat
    BY <2>2, <2>7
  <2> QED
    BY <1>2, <2>1, <2>6, <2>8 DEF CmsAnswer
<1>3. CASE CmsReceive(p)
  <2> DEFINE line == Head(up[p])
  <2>0. up' \in [Proc -> Seq(UpLine)] /\ line \in UpLine /\ line.t = "mail"
    BY <1>3, CmsHeard DEF CmsReceive
  <2>1. up' \in [Proc -> Seq(UpLine)] /\ line.mid \in Ids /\ line.text \in Ids
    BY <2>0 DEF UpLine
  <2>2. accepted' \in SUBSET [id: Ids, text: Ids]
    BY <1>3, <2>1 DEF CmsReceive
  <2>3. expect' \in [Proc -> SUBSET Ids] /\ cms' \in [Proc -> CmsStates]
    BY <1>3 DEF CmsReceive
  <2> QED
    BY <1>3, <2>1, <2>2, <2>3 DEF CmsReceive
<1> QED
  BY <1>1, <1>2, <1>3

\* Mail waiting at the CMS has known ids.
LEMMA WaitingIds == TypeOK => Waiting \subseteq ForeignMids \cup AcceptedIds /\ Waiting \subseteq Ids
BY DEF Waiting, AcceptedIds, TypeOK, Ids

\* The CMS's own steps keep the types.
LEMMA TypeCmsOwn ==
  ASSUME TypeInv, NEW p \in Proc,
         \/ CmsOffer(p) \/ CmsOffersNothing(p) \/ CmsAnswered(p) \/ CmsSend(p)
         \/ CmsSent(p) \/ CmsEnd(p) \/ CmsTidy(p) \/ CmsDrop(p)
  PROVE  TypeOK'
<1> USE DEF TypeInv, TypeOK, local, remote, wire, counters, CmsGoto, CmsStates
<1>1. CASE CmsOffer(p)
  <2>0. PICK n \in 1..MaxOffer : \E mids \in [1..n -> Waiting] :
          CmsSays(p, [t |-> "inbound", mids |-> mids])
    BY <1>1 DEF CmsOffer
  <2>1. PICK mids \in [1..n -> Waiting] : CmsSays(p, [t |-> "inbound", mids |-> mids])
    BY <2>0
  <2>2. mids \in Seq(Ids)
    BY <2>1, WaitingIds, SyncAssumption
  <2>3. [t |-> "inbound", mids |-> mids] \in DownLine
    BY <2>2 DEF DownLine
  <2>4. down' \in [Proc -> Seq(DownLine)]
    BY <2>1, <2>3, CmsSaid
  <2> QED
    BY <1>1, <2>4 DEF CmsOffer
<1>2. CASE CmsOffersNothing(p)
  <2>1. down' \in [Proc -> Seq(DownLine)] /\ cms' \in [Proc -> CmsStates]
    BY <1>2, CmsSaid, TurnLines DEF CmsOffersNothing
  <2> QED
    BY <1>2, <2>1 DEF CmsOffersNothing
<1>3. CASE CmsAnswered(p)
  <2> DEFINE said == Head(up[p]).verdict
  <2>0. /\ up' \in [Proc -> Seq(UpLine)] /\ Head(up[p]) \in LinesIn(up[p])
        /\ Head(up[p]).t = "FS" /\ Head(up[p]) \in UpLine
    BY <1>3, CmsHeard DEF CmsAnswered
  <2>1. /\ up' \in [Proc -> Seq(UpLine)] /\ Head(up[p]) \in LinesIn(up[p])
        /\ Head(up[p]).t = "FS" /\ said \in Verdict
    BY <2>0 DEF UpLine
  <2>2. said.yes \in SUBSET Nat /\ said.yes \cup said.have \subseteq DOMAIN offer[p]
    BY <2>1 DEF Positions, Verdict
  <2>3. {offer[p][k] : k \in said.yes \cup said.have} \in SUBSET Ids
    BY <2>2
  <2> HIDE DEF said
  <2>4. give' \in [Proc -> SUBSET Nat] /\ taken' \in [Proc -> SUBSET Ids]
    BY <1>3, <2>2, <2>3 DEF CmsAnswered, said
  <2> QED
    BY <1>3, <2>1, <2>4 DEF CmsAnswered
<1>4. CASE CmsSend(p)
  <2>1. PICK k \in give[p] :
          /\ CmsSays(p, [t |-> "mail", mid |-> offer[p][k], text |-> TextOf(offer[p][k])])
          /\ give' = [give EXCEPT ![p] = @ \ {k}]
    BY <1>4 DEF CmsSend
  <2> DEFINE mid == offer[p][k]
             line == [t |-> "mail", mid |-> mid, text |-> TextOf(mid)]
  <2>2. mid \in Ids /\ mid \in ForeignMids \cup AcceptedIds
    BY DEF Positions, LinesIn
  <2> HIDE DEF mid
  <2>3. TextOf(mid) \in Ids
    <3>1. CASE mid \in ForeignMids
      BY <2>2, <3>1 DEF TextOf
    <3>2. CASE mid \notin ForeignMids
      <4>1. \E a \in accepted : a.id = mid
        BY <2>2, <3>2 DEF AcceptedIds
      <4>2. (CHOOSE a \in accepted : a.id = mid) \in accepted
        BY <4>1
      <4> QED
        BY <3>2, <4>2 DEF TextOf
    <3> QED
      BY <3>1, <3>2
  <2>4. line \in DownLine
    BY <2>2, <2>3 DEF DownLine
  <2>5. CmsSays(p, line)
    BY <2>1 DEF mid
  <2>6. down' \in [Proc -> Seq(DownLine)]
    BY <2>4, <2>5, CmsSaid
  <2> QED
    BY <1>4, <2>1, <2>6 DEF CmsSend
<1>5. CASE CmsSent(p)
  BY <1>5 DEF CmsSent
<1>6. CASE CmsEnd(p)
  <2>1. up' \in [Proc -> Seq(UpLine)]
    BY <1>6, CmsHeard DEF CmsEnd
  <2> QED
    BY <1>6, <2>1 DEF CmsEnd
<1>7. CASE CmsTidy(p) \/ CmsDrop(p)
  <2>1. CmsClose(p) /\ faults' \in Nat
    BY <1>7 DEF CmsTidy, CmsDrop
  <2> QED
    BY <2>1 DEF CmsClose
<1> QED
  BY <1>1, <1>2, <1>3, <1>4, <1>5, <1>6, <1>7

\* Every step keeps the types.
LEMMA TypeStep ==
  ASSUME TypeInv, NEW p \in Proc, Step(p)
  PROVE  TypeOK'
BY TypeCommands, TypeSave, TypeOutbound, TypeInbound, TypeGiveUp, TypeCmsTurn, TypeCmsOwn
   DEF Step, Proceed, CmsProceed

-----------------------------------------------------------------------------
(* Positions                                                               *)

\* A step of one process leaves the positions of the others.
LEMMA PositionsOthers ==
  ASSUME TypeInv, NEW q \in Proc, Same(q), AcceptedIds \subseteq AcceptedIds'
  PROVE  Positions(q)'
BY DEF TypeInv, Positions, Same

\* Steps that only shorten or keep the queues of p and its positions.
LEMMA PositionsShrink ==
  ASSUME TypeInv, NEW p \in Proc, AcceptedIds \subseteq AcceptedIds',
         offer'[p] = offer[p], want'[p] \subseteq want[p], give'[p] \subseteq give[p],
         \A l \in LinesIn(up'[p]) : l \in LinesIn(up[p]) \/ l.t # "FS",
         \A l \in LinesIn(down'[p]) : l \in LinesIn(down[p]) \/ l.t # "inbound",
         pc'[p] \in {"offer", "pass", "answers", "sending", "listen"} =>
           pc[p] \in {"offer", "pass", "answers", "sending", "listen"},
         pc'[p] \in {"answers", "sending"} => batch'[p] \subseteq DOMAIN mem'[p].msgs
  PROVE  Positions(p)'
BY DEF TypeInv, Positions

\* Every step keeps the positions.
LEMMA PositionsStep ==
  ASSUME TypeInv, NEW p \in Proc, Step(p)
  PROVE  Positions(p)'
<1> USE DEF Goto, CmsGoto, local, remote, wire, counters
<1>0. /\ AcceptedIds \subseteq AcceptedIds' /\ TypeOK'
      /\ TypeOK /\ Positions(p)
  BY Frame, TypeStep DEF TypeInv
<1>1. CASE AccountSetup(p) \/ Compose(p) \/ SyncFake(p)
  BY <1>0, <1>1, PositionsShrink
  DEF TypeOK, AccountSetup, Compose, SyncFake, LocalCommand
<1>2. CASE SyncStart(p)
  BY <1>0, <1>2, EmptyLines DEF TypeOK, SyncStart, Positions
<1>3. CASE SaveBegin(p) \/ SaveEnd(p) \/ Crash(p)
  BY <1>0, <1>3, PositionsShrink DEF TypeOK, SaveBegin, SaveEnd, Crash
<1>4. CASE PassTurn(p)
  <2>1. \A l \in LinesIn(up'[p]) : l \in LinesIn(up[p]) \/ l.t # "FS"
    BY <1>4, SaidTurn DEF PassTurn
  <2> QED
    BY <1>0, <1>4, <2>1, PositionsShrink DEF TypeOK, PassTurn
<1>5. CASE OfferOutbox(p)
  <2>1. \A l \in LinesIn(up'[p]) : l \in LinesIn(up[p]) \/ l.t # "FS"
    <3> DEFINE L(box) == [t |-> "outbound", mids |-> {[at |-> i, id |-> mem[p].msgs[i].id] : i \in box}]
    <3>1. PICK l : l.t # "FS" /\ up' = [up EXCEPT ![p] = Append(@, l)]
      <4>1. CASE OutboundBatch(mem[p]) = {}
        BY <1>5, <4>1 DEF OfferOutbox, Say
      <4>2. CASE OutboundBatch(mem[p]) # {}
        <5>1. up' = [up EXCEPT ![p] = Append(@, L(OutboundBatch(mem[p])))]
          BY <1>5, <4>2 DEF OfferOutbox, Say
        <5> QED
          BY <5>1
      <4> QED
        BY <4>1, <4>2
    <3>2. up[p] \in Seq(UpLine \cup {l})
      BY <1>0, SeqMonotonic DEF TypeOK
    <3>3. LinesIn(Append(up[p], l)) = LinesIn(up[p]) \cup {l}
      BY <3>2, AppendLines
    <3>4. up'[p] = Append(up[p], l)
      BY <1>0, <3>1 DEF TypeOK
    <3> QED
      BY <3>1, <3>3, <3>4
  <2>2. batch'[p] \subseteq DOMAIN mem'[p].msgs
    BY <1>0, <1>5 DEF TypeOK, OfferOutbox, OutboundBatch, In
  <2> QED
    BY <1>0, <1>5, <2>1, <2>2, PositionsShrink DEF TypeOK, OfferOutbox
<1>6. CASE ReadAnswers(p)
  <2>1. LinesIn(down'[p]) \subseteq LinesIn(down[p])
    BY <1>6, Heard DEF ReadAnswers
  <2>2. batch[p] \subseteq DOMAIN mem[p].msgs
    BY <1>0, <1>6 DEF ReadAnswers, Positions
  <2> QED
    BY <1>0, <1>6, <2>1, <2>2, PositionsShrink DEF TypeOK, ReadAnswers
<1>7. CASE SendNext(p)
  <2>1. PICK i \in batch[p] :
          /\ \/ Say(p, [t |-> "mail", mid |-> mem[p].msgs[i].id, text |-> mem[p].msgs[i].text])
             \/ UNCHANGED up
          /\ mem' = [mem EXCEPT ![p] = Answered(@, i, answers[p])]
          /\ batch' = [batch EXCEPT ![p] = @ \ {i}]
    BY <1>7 DEF SendNext
  <2>2. batch[p] \subseteq DOMAIN mem[p].msgs
    BY <1>0, <1>7 DEF SendNext, Positions
  <2>3. batch'[p] \subseteq DOMAIN mem'[p].msgs
    BY <1>0, <2>1, <2>2, AnsweredFacts, SMTT(30) DEF TypeOK
  <2> DEFINE line == [t |-> "mail", mid |-> mem[p].msgs[i].id, text |-> mem[p].msgs[i].text]
  <2>4. line \in UpLine /\ line.t = "mail"
    BY <1>0, <2>2, MessageTypes DEF UpLine, TypeOK
  <2>5. Say(p, line) \/ UNCHANGED up
    BY <2>1
  <2> HIDE DEF line
  <2>6. \A l \in LinesIn(up'[p]) : l \in LinesIn(up[p]) \/ l.t # "FS"
    BY <2>4, <2>5, Said, SMTT(30)
  <2> QED
    BY <1>0, <1>7, <2>3, <2>6, PositionsShrink DEF TypeOK, SendNext
<1>8. CASE OutboundDone(p)
  BY <1>0, <1>8, PositionsShrink DEF TypeOK, OutboundDone
<1>9. CASE AnswerInbound(p)
  <2> DEFINE mids == Head(down[p]).mids
             said == InboundAnswers(mem[p], mids)
             line == [t |-> "FS", verdict |-> said]
  <2>1. /\ Head(down[p]) \in DownLine /\ Head(down[p]) \in LinesIn(down[p])
        /\ Head(down[p]).t = "inbound" /\ LinesIn(down'[p]) \subseteq LinesIn(down[p])
    BY <1>9, Heard DEF AnswerInbound
  <2>2. mids \in Seq(Ids)
    BY <2>1 DEF DownLine
  <2>3. said \in Verdict /\ said.yes \cup said.have \subseteq DOMAIN mids
    BY <2>2, InboundAnswersType DEF Claimed
  <2>4. line \in UpLine
    BY <2>3 DEF UpLine
  <2>5. LinesIn(mids) \subseteq ForeignMids \cup AcceptedIds
    BY <1>0, <2>1 DEF Positions
  <2>6. Say(p, line)
    BY <1>9 DEF AnswerInbound
  <2>7. offer'[p] = mids /\ want'[p] = said.yes /\ give'[p] = give[p] /\ pc'[p] = "download"
    BY <1>0, <1>9 DEF AnswerInbound, TypeOK
  <2>8. give[p] = {} /\ \A l \in LinesIn(up[p]) : l.t # "FS"
    BY <1>0, <1>9 DEF AnswerInbound, Positions
  <2> HIDE DEF line, said, mids
  <2>9. LinesIn(up'[p]) = LinesIn(up[p]) \cup {line}
    BY <2>4, <2>6, Said
  <2>10. line.verdict = said
    BY DEF line
  <2> QED
    BY <1>0, <2>1, <2>3, <2>5, <2>7, <2>8, <2>9, <2>10 DEF Positions
<1>10. CASE Download(p)
  <2>1. LinesIn(down'[p]) \subseteq LinesIn(down[p])
    BY <1>10, Heard DEF Download
  <2> QED
    BY <1>0, <1>10, <2>1, PositionsShrink, ZenonT(60) DEF TypeOK, Download
<1>11. CASE InboundDone(p)
  <2>1. \A l \in LinesIn(up'[p]) : l \in LinesIn(up[p]) \/ l.t # "FS"
    BY <1>11, SaidTurn DEF InboundDone
  <2> QED
    BY <1>0, <1>11, <2>1, PositionsShrink DEF TypeOK, InboundDone
<1>12. CASE NothingInbound(p)
  <2>1. \A l \in LinesIn(up'[p]) : l \in LinesIn(up[p]) \/ l.t # "FS"
    BY <1>12, SaidTurn DEF NothingInbound
  <2>2. LinesIn(down'[p]) \subseteq LinesIn(down[p])
    BY <1>12, Heard DEF NothingInbound
  <2> QED
    BY <1>0, <1>12, <2>1, <2>2, PositionsShrink DEF TypeOK, NothingInbound
<1>13. CASE CmsQuit(p)
  <2>1. LinesIn(down'[p]) \subseteq LinesIn(down[p])
    BY <1>13, Heard DEF CmsQuit
  <2> QED
    BY <1>0, <1>13, <2>1, PositionsShrink DEF TypeOK, CmsQuit
<1>14. CASE Fail(p) \/ HungUp(p) \/ Unsendable(p)
  <2>1. GiveUp(p)
    BY <1>14 DEF Fail, HungUp, Unsendable
  <2> QED
    BY <1>0, <2>1, PositionsShrink DEF TypeOK, GiveUp
<1>15. CASE CmsPassed(p) \/ CmsReceive(p) \/ CmsEnd(p)
  <2>1. LinesIn(up'[p]) \subseteq LinesIn(up[p])
    BY <1>15, CmsHeard DEF CmsPassed, CmsReceive, CmsEnd
  <2>2. /\ UNCHANGED local /\ down' = down /\ give' = give
    BY <1>15 DEF CmsPassed, CmsReceive, CmsEnd
  <2> QED
    BY <1>0, <2>1, <2>2, PositionsShrink DEF TypeOK, Positions
<1>16. CASE CmsAnswer(p)
  <2>1. LinesIn(up'[p]) \subseteq LinesIn(up[p])
    BY <1>16, CmsHeard DEF CmsAnswer
  <2>2. PICK v : CmsSays(p, [t |-> "FS", verdict |-> v])
    BY <1>16 DEF CmsAnswer
  <2> DEFINE line == [t |-> "FS", verdict |-> v]
  <2>3. LinesIn(Append(down[p], line)) = LinesIn(down[p]) \cup {line}
    <3>1. down[p] \in Seq(DownLine \cup {line})
      BY <1>0, SeqMonotonic DEF TypeOK
    <3> QED
      BY <3>1, AppendLines
  <2>4. down'[p] = Append(down[p], line)
    BY <1>0, <2>2 DEF TypeOK, CmsSays
  <2>5. line.t = "FS"
    OBVIOUS
  <2> HIDE DEF line
  <2>6. \A l \in LinesIn(down'[p]) : l \in LinesIn(down[p]) \/ l.t # "inbound"
    BY <2>3, <2>4, <2>5
  <2>7. UNCHANGED local /\ give' = give
    BY <1>16 DEF CmsAnswer
  <2> QED
    BY <1>0, <2>1, <2>6, <2>7, PositionsShrink DEF TypeOK, Positions
<1>17. CASE CmsOffer(p)
  <2>0. PICK n \in 1..MaxOffer : \E mids \in [1..n -> Waiting] :
          CmsSays(p, [t |-> "inbound", mids |-> mids])
    BY <1>17 DEF CmsOffer
  <2>1. PICK mids \in [1..n -> Waiting] : CmsSays(p, [t |-> "inbound", mids |-> mids])
    BY <2>0
  <2> DEFINE line == [t |-> "inbound", mids |-> mids]
  <2>2. mids \in Seq(Ids) /\ LinesIn(mids) \subseteq ForeignMids \cup AcceptedIds
    BY <1>0, <2>1, WaitingIds, SyncAssumption DEF LinesIn
  <2>3. line \in DownLine /\ line.mids = mids
    BY <2>2 DEF DownLine
  <2>4. CmsSays(p, line)
    BY <2>1
  <2> HIDE DEF line
  <2>5. LinesIn(down'[p]) = LinesIn(down[p]) \cup {line}
    BY <2>3, <2>4, CmsSaid
  <2>6. UNCHANGED local /\ give' = give /\ up' = up
    BY <1>17 DEF CmsOffer
  <2> QED
    BY <1>0, <2>2, <2>3, <2>5, <2>6 DEF TypeOK, Positions
<1>18. CASE CmsOffersNothing(p)
  <2>1. \A l \in LinesIn(down'[p]) : l \in LinesIn(down[p]) \/ l.t # "inbound"
    BY <1>18, CmsSaidTurn DEF CmsOffersNothing
  <2>2. UNCHANGED local /\ give' = give /\ up' = up
    BY <1>18 DEF CmsOffersNothing
  <2> QED
    BY <1>0, <2>1, <2>2, PositionsShrink DEF TypeOK, Positions
<1>19. CASE CmsAnswered(p)
  <2>1. /\ Head(up[p]) \in LinesIn(up[p]) /\ Head(up[p]).t = "FS"
        /\ LinesIn(up'[p]) \subseteq LinesIn(up[p])
    BY <1>19, CmsHeard DEF CmsAnswered
  <2>2. give'[p] = Head(up[p]).verdict.yes
    BY <1>0, <1>19 DEF CmsAnswered, TypeOK
  <2>3. UNCHANGED local /\ down' = down
    BY <1>19 DEF CmsAnswered
  <2> QED
    BY <1>0, <2>1, <2>2, <2>3 DEF TypeOK, Positions
<1>20. CASE CmsSend(p)
  <2>1. PICK l : l.t = "mail" /\ CmsSays(p, l)
    BY <1>20 DEF CmsSend
  <2>2. LinesIn(Append(down[p], l)) = LinesIn(down[p]) \cup {l}
    <3>1. down[p] \in Seq(DownLine \cup {l})
      BY <1>0, SeqMonotonic DEF TypeOK
    <3> QED
      BY <3>1, AppendLines
  <2>3. down'[p] = Append(down[p], l)
    BY <1>0, <2>1 DEF TypeOK, CmsSays
  <2>4. \A k \in LinesIn(down'[p]) : k \in LinesIn(down[p]) \/ k.t # "inbound"
    BY <2>1, <2>2, <2>3
  <2>5. UNCHANGED local /\ up' = up /\ give'[p] \subseteq give[p]
    BY <1>0, <1>20 DEF CmsSend, TypeOK
  <2> QED
    BY <1>0, <2>4, <2>5, PositionsShrink DEF TypeOK, Positions
<1>21. CASE CmsSent(p) \/ CmsTidy(p) \/ CmsDrop(p)
  <2>1. UNCHANGED local /\ UNCHANGED wire /\ give' = give
    BY <1>21 DEF CmsSent, CmsTidy, CmsDrop, CmsClose
  <2> QED
    BY <1>0, <2>1, PositionsShrink DEF TypeOK, Positions
<1> QED
  BY <1>1, <1>2, <1>3, <1>4, <1>5, <1>6, <1>7, <1>8, <1>9, <1>10, <1>11, <1>12, <1>13,
     <1>14, <1>15, <1>16, <1>17, <1>18, <1>19, <1>20, <1>21
  DEF Step, Proceed, CmsProceed

\* Every step keeps types and positions.
LEMMA TypeNext == TypeInv /\ [Next]_vars => TypeInv'
<1> SUFFICES ASSUME TypeInv, [Next]_vars PROVE TypeInv'
  OBVIOUS
<1>1. CASE UNCHANGED vars
  BY <1>1 DEF TypeInv, TypeOK, Positions, AcceptedIds, vars, local, remote, wire, counters
<1>2. ASSUME NEW p \in Proc, Step(p) PROVE TypeInv'
  <2>1. TypeOK' /\ Positions(p)'
    BY <1>2, TypeStep, PositionsStep
  <2>2. \A q \in Proc \ {p} : Positions(q)'
    BY <1>2, Frame, PositionsOthers DEF TypeInv
  <2> QED
    BY <2>1, <2>2 DEF TypeInv
<1> QED
  BY <1>1, <1>2 DEF Next

\* Every variable keeps its type, in every reachable state: in particular the
\* positions of a batch or an offer never point past the store or the offer.
THEOREM TypeCorrect == Spec => []TypeOK
<1>1. Spec => []TypeInv
  BY TypeInit, TypeNext, PTL DEF Spec
<1>2. TypeInv => TypeOK
  BY DEF TypeInv
<1> QED
  BY <1>1, <1>2, PTL

-----------------------------------------------------------------------------
(* SentWasAccepted                                                         *)

\* A step of one process leaves the sessions of the others.
LEMMA SessionOthers ==
  ASSUME IInv, NEW q \in Proc, Same(q), AcceptedIds \subseteq AcceptedIds'
  PROVE  SessionInv(q)'
<1>1. Pledged(q)' = Pledged(q) /\ Spoken(q)' = Spoken(q) /\ SentIds(mem'[q]) = SentIds(mem[q])
  BY DEF Same, Pledged, Pending, Spoken
<1> QED
  BY <1>1 DEF IInv, SessionInv, Same

\* A store that is loaded has only accepted mail marked sent.
LEMMA LoadedSent == IInv => SentIds(Loaded) \subseteq AcceptedIds
BY NewStoreFacts DEF IInv, Loaded

\* Commands start no session.
LEMMA SessionCommands ==
  ASSUME IInv, NEW p \in Proc,
         AccountSetup(p) \/ Compose(p) \/ SyncFake(p) \/ SyncStart(p)
  PROVE  SessionInv(p)'
<1>0. TypeOK /\ SessionInv(p) /\ Loaded \in Store /\ SentIds(Loaded) \subseteq AcceptedIds
  BY LoadedType, LoadedSent DEF IInv, TypeInv
<1>1. ASSUME NEW s, LocalCommand(p, s), SentIds(s) \subseteq AcceptedIds
      PROVE  SessionInv(p)'
  <2>1. /\ pc'[p] = "truncate" /\ mem'[p] = s
        /\ UNCHANGED <<up, down, cms, expect, accepted>>
    BY <1>0, <1>1 DEF LocalCommand, Goto, wire, remote, TypeOK
  <2> QED
    BY <1>0, <1>1, <2>1 DEF SessionInv, Spoken, AcceptedIds, InSession, AtSave
<1>2. CASE AccountSetup(p)
  BY <1>0, <1>1, <1>2, SetAccountFacts DEF AccountSetup
<1>3. CASE Compose(p)
  <2>1. PICK fault \in Faults : LocalCommand(p, QueueMessage(Loaded, composed + 1, fault))
    BY <1>3 DEF Compose
  <2>2. SentIds(QueueMessage(Loaded, composed + 1, fault)) \subseteq AcceptedIds
    BY <1>0, QueueMessageFacts DEF TypeOK
  <2> QED
    BY <1>1, <2>1, <2>2
<1>4. CASE SyncFake(p)
  <2>1. SentIds(FakeSync(Loaded)) \subseteq AcceptedIds
    BY <1>0, FakeSyncFacts
  <2> QED
    BY <1>1, <1>4, <2>1 DEF SyncFake
<1>5. CASE SyncStart(p)
  <2>1. /\ pc'[p] \in {"offer", "pass"} /\ mem'[p] = Loaded
        /\ up'[p] = <<>> /\ down'[p] = <<>> /\ cms'[p] = "turn" /\ accepted' = accepted
    BY <1>0, <1>5 DEF SyncStart, Goto, TypeOK
  <2>2. Pledged(p)' = SentIds(Loaded)
    BY <2>1 DEF Pledged, Pending
  <2> QED
    BY <1>0, <2>1, <2>2 DEF SessionInv, AcceptedIds, AtSave
<1> QED
  BY <1>2, <1>3, <1>4, <1>5

\* A session that ends pledges nothing any more.
LEMMA SessionEnds ==
  ASSUME IInv, NEW p \in Proc,
         \/ SaveBegin(p) \/ SaveEnd(p) \/ Crash(p)
         \/ Fail(p) \/ HungUp(p) \/ Unsendable(p)
  PROVE  SessionInv(p)'
<1>1. TypeOK /\ SessionInv(p)
  BY DEF IInv, TypeInv
<1>2. /\ pc'[p] = "idle" \/ (pc[p] \in AtSave /\ pc'[p] \in AtSave)
      /\ UNCHANGED <<mem, up, down, cms, expect, accepted>>
  BY <1>1 DEF SaveBegin, SaveEnd, Crash, Fail, HungUp, Unsendable, GiveUp, Goto, AtSave,
              wire, remote, TypeOK
<1> QED
  BY <1>1, <1>2 DEF SessionInv, Spoken, AcceptedIds, InSession, AtSave

\* The outbound half of a session keeps the pledge.
LEMMA SessionOutbound ==
  ASSUME IInv, NEW p \in Proc,
         PassTurn(p) \/ OfferOutbox(p) \/ ReadAnswers(p) \/ SendNext(p) \/ OutboundDone(p)
  PROVE  SessionInv(p)'
<1>0. TypeOK /\ TypeInv /\ SessionInv(p)
  BY DEF IInv, TypeInv
\* None of these steps pledges an id that was not pledged before.
<1>1. ASSUME pc[p] \in InSession, pc'[p] \in {"answers", "sending", "listen"},
             Pledged(p)' \subseteq Pledged(p), LinesIn(down'[p]) \subseteq LinesIn(down[p]),
             cms[p] = "turn" => down'[p] = down[p],
             UNCHANGED <<cms, expect, accepted>>,
             pc'[p] = "answers" =>
               \A l \in LinesIn(up'[p]) : l.t = "outbound" =>
                 \A m \in l.mids : m.at \in batch'[p] => m.id = mem'[p].msgs[m.at].id
      PROVE  SessionInv(p)'
  <2>1. Spoken(p)' => Spoken(p)
    BY <1>1 DEF Spoken
  <2> QED
    BY <1>0, <1>1, <2>1 DEF SessionInv, AcceptedIds, AtSave
<1>2. CASE PassTurn(p)
  <2>1. /\ pc[p] = "pass" /\ pc'[p] = "listen"
        /\ UNCHANGED <<mem, down, cms, expect, accepted>>
    BY <1>0, <1>2 DEF PassTurn, Goto, remote, TypeOK
  <2>2. Pledged(p)' \subseteq Pledged(p)
    BY <2>1 DEF Pledged, Pending
  <2> QED
    BY <1>1, <2>1, <2>2 DEF InSession
<1>3. CASE OfferOutbox(p)
  <2> DEFINE box == OutboundBatch(mem[p])
             line == [t |-> "outbound", mids |-> {[at |-> i, id |-> mem[p].msgs[i].id] : i \in box}]
  <2>1. /\ pc[p] = "offer" /\ pc'[p] \in {"answers", "listen"} /\ batch'[p] = box
        /\ UNCHANGED <<mem, down, cms, expect, accepted>>
    BY <1>0, <1>3 DEF OfferOutbox, Goto, remote, TypeOK
  <2>2. up[p] = <<>> /\ down[p] = <<>>
    BY <1>0, <2>1 DEF SessionInv
  <2>3. Pledged(p)' \subseteq Pledged(p)
    BY <2>1, <2>2, EmptyLines DEF Pledged, Pending
  <2>4. ASSUME pc'[p] = "answers", NEW l \in LinesIn(up'[p]), NEW m \in l.mids
        PROVE  m.id = mem'[p].msgs[m.at].id
    <3>1. box # {}
      BY <1>0, <1>3, <2>4 DEF OfferOutbox, Goto, TypeOK
    <3>2. up' = [up EXCEPT ![p] = Append(@, line)]
      BY <1>3, <3>1 DEF OfferOutbox, Say
    <3> HIDE DEF line
    <3>3. up'[p] = <<line>>
      BY <1>0, <2>2, <3>2 DEF TypeOK
    <3>4. l = line
      BY <2>4, <3>3 DEF LinesIn
    <3>5. m \in line.mids
      BY <2>4, <3>4
    <3> QED
      BY <2>1, <3>5 DEF line
  <2> QED
    BY <1>1, <2>1, <2>3, <2>4 DEF InSession
<1>4. CASE ReadAnswers(p)
  <2>1. /\ pc[p] = "answers" /\ pc'[p] = "sending"
        /\ answers'[p] = Head(down[p]).verdict
        /\ UNCHANGED <<mem, batch, cms, expect, accepted>>
    BY <1>0, <1>4 DEF ReadAnswers, Goto, remote, TypeOK
  <2>2. /\ Head(down[p]) \in LinesIn(down[p]) /\ Head(down[p]).t = "FS"
        /\ LinesIn(down'[p]) \subseteq LinesIn(down[p]) /\ down[p] # <<>>
    BY <1>0, <1>4, Heard DEF ReadAnswers, Hear
  <2>3. Pending(p)' \subseteq Pending(p)
    BY <2>1, <2>2 DEF Pending
  <2>4. Pledged(p)' \subseteq Pledged(p)
    BY <2>1, <2>3 DEF Pledged
  <2>5. cms[p] # "turn"
    BY <1>0, <2>2 DEF SessionInv
  <2> QED
    BY <1>1, <2>1, <2>2, <2>4, <2>5 DEF InSession
<1>5. CASE SendNext(p)
  <2>1. PICK i \in batch[p] :
          /\ mem' = [mem EXCEPT ![p] = Answered(@, i, answers[p])]
          /\ batch' = [batch EXCEPT ![p] = @ \ {i}]
    BY <1>5 DEF SendNext
  <2>2. /\ pc[p] = "sending" /\ pc'[p] = "sending"
        /\ mem'[p] = Answered(mem[p], i, answers[p]) /\ batch'[p] = batch[p] \ {i}
        /\ UNCHANGED <<pc, answers, down, cms, expect, accepted>>
    BY <1>0, <1>5, <2>1 DEF SendNext, remote, TypeOK
  <2>3. batch[p] \subseteq DOMAIN mem[p].msgs
    BY <1>0, <2>2 DEF TypeInv, Positions
  <2>4. /\ \A k \in DOMAIN mem[p].msgs : mem'[p].msgs[k].id = mem[p].msgs[k].id
        /\ SentIds(mem'[p]) \subseteq
             SentIds(mem[p]) \cup {mem[p].msgs[k].id : k \in {i} \cap Claimed(answers[p])}
    BY <1>0, <2>2, AnsweredFacts DEF TypeOK
  <2>5. Pending(p)' = Pending(p) \ {i} /\ Pending(p) = batch[p] \cap Claimed(answers[p])
    BY <2>2 DEF Pending
  <2>6. {mem[p].msgs[k].id : k \in {i} \cap Claimed(answers[p])} \subseteq Pledged(p)
    BY <2>5 DEF Pledged
  <2>7. {mem'[p].msgs[k].id : k \in Pending(p)'} \subseteq Pledged(p)
    BY <2>3, <2>4, <2>5 DEF Pledged
  <2>8. Pledged(p)' \subseteq Pledged(p)
    BY <2>4, <2>6, <2>7 DEF Pledged
  <2> QED
    BY <1>1, <2>2, <2>8 DEF InSession
<1>6. CASE OutboundDone(p)
  <2>1. /\ pc[p] = "sending" /\ pc'[p] = "listen"
        /\ UNCHANGED <<mem, down, cms, expect, accepted>>
    BY <1>0, <1>6 DEF OutboundDone, Goto, remote, wire, TypeOK
  <2>2. Pledged(p)' \subseteq Pledged(p)
    BY <2>1 DEF Pledged, Pending
  <2> QED
    BY <1>1, <2>1, <2>2 DEF InSession
<1> QED
  BY <1>2, <1>3, <1>4, <1>5, <1>6

\* The inbound half of a session keeps the pledge.
LEMMA SessionInbound ==
  ASSUME IInv, NEW p \in Proc,
         AnswerInbound(p) \/ Download(p) \/ InboundDone(p) \/ NothingInbound(p) \/ CmsQuit(p)
  PROVE  SessionInv(p)'
<1>0. TypeOK /\ TypeInv /\ SessionInv(p)
  BY DEF IInv, TypeInv
\* Nothing is pledged but what the copy calls sent, and the CMS has all of it.
<1>1. ASSUME pc'[p] \in {"download"} \cup AtSave, SentIds(mem'[p]) \subseteq AcceptedIds,
             LinesIn(down'[p]) \subseteq LinesIn(down[p]),
             cms[p] = "turn" => down'[p] = down[p], UNCHANGED <<cms, expect, accepted>>
      PROVE  SessionInv(p)'
  <2>1. Spoken(p)' => Spoken(p)
    BY <1>1 DEF Spoken
  <2>2. Pledged(p)' = SentIds(mem'[p])
    BY <1>1 DEF Pledged, Pending, AtSave
  <2> QED
    BY <1>0, <1>1, <2>1, <2>2 DEF SessionInv, AcceptedIds, AtSave
\* The process has heard the line that ends the outbound turn.
<1>2. ASSUME pc[p] = "listen", NEW kind \in {"inbound", "FF", "FQ"}, Hear(p, kind)
      PROVE  /\ SentIds(mem[p]) \subseteq AcceptedIds /\ cms[p] # "turn"
             /\ LinesIn(down'[p]) \subseteq LinesIn(down[p])
  <2>1. /\ Head(down[p]) \in LinesIn(down[p]) /\ Head(down[p]).t = kind
        /\ LinesIn(down'[p]) \subseteq LinesIn(down[p]) /\ down[p] # <<>>
    BY <1>0, <1>2, Heard DEF Hear
  <2>2. Spoken(p)
    BY <2>1 DEF Spoken
  <2> QED
    BY <1>0, <1>2, <2>1, <2>2 DEF SessionInv, InSession, Pledged
<1>3. CASE AnswerInbound(p)
  <2>1. /\ pc[p] = "listen" /\ Hear(p, "inbound") /\ pc'[p] = "download"
        /\ UNCHANGED <<mem, cms, expect, accepted>>
    BY <1>0, <1>3 DEF AnswerInbound, Goto, remote, TypeOK
  <2> QED
    BY <1>1, <1>2, <2>1
<1>4. CASE Download(p)
  <2>1. PICK k \in want[p] :
          mem' = [mem EXCEPT ![p] = UpsertReceived(@, offer[p][k], Head(down[p]).text)]
    BY <1>4 DEF Download
  <2>2. /\ pc[p] = "download" /\ pc'[p] = "download" /\ down[p] # <<>>
        /\ UNCHANGED <<cms, expect, accepted>>
        /\ mem'[p] = UpsertReceived(mem[p], offer[p][k], Head(down[p]).text)
    BY <1>0, <1>4, <2>1 DEF Download, Hear, remote, TypeOK
  <2>3. /\ LinesIn(down'[p]) \subseteq LinesIn(down[p])
        /\ Head(down[p]) \in DownLine /\ Head(down[p]).t = "mail"
    BY <1>0, <1>4, Heard DEF Download
  <2>4. Head(down[p]).text \in Ids
    BY <2>3 DEF DownLine
  <2>5. offer[p][k] \in Ids
    BY <1>0, <2>1 DEF TypeInv, TypeOK, Positions
  <2>6. SentIds(mem'[p]) \subseteq SentIds(mem[p])
    BY <1>0, <2>2, <2>4, <2>5, UpsertFacts DEF TypeOK
  <2>7. SentIds(mem[p]) \subseteq AcceptedIds /\ cms[p] # "turn"
    BY <1>0, <2>2 DEF SessionInv
  <2> QED
    BY <1>1, <2>2, <2>3, <2>6, <2>7
<1>5. CASE InboundDone(p)
  <2>1. /\ pc[p] = "download" /\ pc'[p] = "truncate"
        /\ UNCHANGED <<mem, down, cms, expect, accepted>>
    BY <1>0, <1>5 DEF InboundDone, Goto, remote, TypeOK
  <2>2. SentIds(mem[p]) \subseteq AcceptedIds
    BY <1>0, <2>1 DEF SessionInv
  <2> QED
    BY <1>1, <2>1, <2>2 DEF AtSave
<1>6. CASE NothingInbound(p) \/ CmsQuit(p)
  <2>1. /\ pc[p] = "listen" /\ (Hear(p, "FF") \/ Hear(p, "FQ")) /\ pc'[p] = "truncate"
        /\ UNCHANGED <<mem, cms, expect, accepted>>
    BY <1>0, <1>6 DEF NothingInbound, CmsQuit, Goto, remote, TypeOK
  <2> QED
    BY <1>1, <1>2, <2>1 DEF AtSave
<1> QED
  BY <1>3, <1>4, <1>5, <1>6

\* The steps of the CMS keep the pledge.
LEMMA SessionCms ==
  ASSUME IInv, NEW p \in Proc, CmsProceed(p) \/ CmsDrop(p)
  PROVE  SessionInv(p)'
<1>0. TypeOK /\ TypeInv /\ SessionInv(p)
  BY DEF IInv, TypeInv
\* The CMS has the turn, or is gone, and has or had all it pledged.
<1>1. ASSUME UNCHANGED local, cms'[p] \notin {"turn", "recv"},
             AcceptedIds \subseteq AcceptedIds', LinesIn(up'[p]) \subseteq LinesIn(up[p]),
             pc[p] \in {"offer", "pass"} => up'[p] = <<>> /\ down'[p] = <<>> /\ cms'[p] = "closed",
             pc[p] \in InSession /\ (cms'[p] # "closed" \/ Spoken(p)') =>
               Pledged(p)' \subseteq AcceptedIds'
      PROVE  SessionInv(p)'
  BY <1>0, <1>1 DEF SessionInv, local, AtSave
<1>2. CASE CmsPassed(p)
  <2>1. /\ cms[p] = "turn" /\ cms'[p] = "own" /\ up[p] # <<>>
        /\ UNCHANGED local /\ UNCHANGED <<down, accepted>>
    BY <1>0, <1>2 DEF CmsPassed, CmsGoto, CmsHears, TypeOK
  <2>2. LinesIn(up'[p]) \subseteq LinesIn(up[p])
    BY <1>0, <1>2, CmsHeard DEF CmsPassed
  <2>3. Pledged(p)' = Pledged(p)
    BY <2>1 DEF Pledged, Pending, local
  <2> QED
    BY <1>0, <1>1, <2>1, <2>2, <2>3 DEF SessionInv, AcceptedIds
<1>3. CASE CmsAnswer(p)
  <2> DEFINE props == Head(up[p]).mids
  <2>1. /\ cms[p] = "turn" /\ down[p] = <<>> /\ up[p] # <<>>
        /\ UNCHANGED local /\ accepted' = accepted
    BY <1>0, <1>3 DEF CmsAnswer, CmsHears, SessionInv
  <2>2. /\ Head(up[p]) \in LinesIn(up[p]) /\ Head(up[p]).t = "outbound"
        /\ LinesIn(up'[p]) \subseteq LinesIn(up[p])
    BY <1>0, <1>3, CmsHeard DEF CmsAnswer
  <2> HIDE DEF props
  <2>3. PICK later \in SUBSET props :
          LET have == {m \in props \ later : m.id \in AcceptedIds}
              yes  == props \ (later \cup have)
          IN
          /\ CmsSays(p, [t |-> "FS", verdict |-> [yes |-> {m.at : m \in yes},
                                                 have |-> {m.at : m \in have}]])
          /\ expect' = [expect EXCEPT ![p] = {m.id : m \in yes}]
          /\ CmsGoto(p, IF yes = {} THEN "own" ELSE "recv")
    BY <1>3 DEF CmsAnswer, props
  <2> DEFINE have == {m \in props \ later : m.id \in AcceptedIds}
             yes  == props \ (later \cup have)
             v    == [yes |-> {m.at : m \in yes}, have |-> {m.at : m \in have}]
             line == [t |-> "FS", verdict |-> v]
  <2>4. /\ expect'[p] = {m.id : m \in yes}
        /\ cms'[p] = (IF yes = {} THEN "own" ELSE "recv")
        /\ down' = [down EXCEPT ![p] = Append(@, line)]
    BY <1>0, <2>3 DEF CmsGoto, CmsSays, TypeOK
  <2>5. line.t = "FS" /\ line.verdict = v
    OBVIOUS
  <2> HIDE DEF line
  <2>6. down'[p] = <<line>>
    BY <1>0, <2>1, <2>4 DEF TypeOK
  <2>7. LinesIn(down'[p]) = {line}
    BY <2>6 DEF LinesIn
  <2>8. ~Spoken(p)'
    BY <2>5, <2>7 DEF Spoken
  <2>9. SentIds(mem[p]) \subseteq Pledged(p)
    BY DEF Pledged
  <2>10. pc[p] \in InSession => Pledged(p)' \subseteq AcceptedIds \cup expect'[p]
    <3> SUFFICES ASSUME pc[p] \in InSession, NEW id \in Pledged(p)', id \notin AcceptedIds
                 PROVE  id \in expect'[p]
      OBVIOUS
    <3>1. Pledged(p) \subseteq AcceptedIds
      BY <1>0, <2>1 DEF SessionInv
    <3>2. mem' = mem /\ pc' = pc /\ batch' = batch /\ answers' = answers
      BY <2>1 DEF local
    <3>3. PICK i \in Pending(p)' : id = mem[p].msgs[i].id
      BY <2>9, <3>1, <3>2 DEF Pledged
    <3>4. CASE pc[p] = "answers"
      <4>1. i \in batch[p] /\ i \in Claimed(v)
        BY <2>5, <2>7, <3>2, <3>4 DEF Pending
      <4>2. PICK m \in yes \cup have : m.at = i
        BY <4>1 DEF Claimed
      <4>3. m \in Head(up[p]).mids
        BY <4>2 DEF props
      <4>4. m.id = id
        BY <1>0, <2>2, <3>3, <3>4, <4>1, <4>2, <4>3 DEF SessionInv
      <4>5. m \notin have
        BY <4>4
      <4> QED
        BY <2>4, <4>2, <4>4, <4>5
    <3>5. CASE pc[p] # "answers"
      <4>1. Pending(p)' = Pending(p)
        BY <3>2, <3>5 DEF Pending
      <4> QED
        BY <3>1, <3>3, <4>1 DEF Pledged
    <3> QED
      BY <3>4, <3>5
  <2>11. yes = {} => expect'[p] = {}
    BY <2>4
  <2>12. pc[p] \notin {"offer", "pass"}
    BY <1>0, <2>1 DEF SessionInv
  <2> HIDE DEF yes, have, v
  <2>13. mem' = mem /\ pc' = pc /\ batch' = batch /\ AcceptedIds' = AcceptedIds
    BY <2>1 DEF local, AcceptedIds
  <2>14. /\ cms'[p] \in {"own", "recv"}
         /\ cms'[p] = "own" => expect'[p] = {}
    BY <2>4, <2>11
  <2> QED
    BY <1>0, <2>2, <2>8, <2>10, <2>12, <2>13, <2>14 DEF SessionInv, AtSave
<1>4. CASE CmsReceive(p)
  <2> DEFINE mid == Head(up[p]).mid
  <2>1. /\ cms[p] = "recv" /\ cms'[p] = (IF expect[p] = {mid} THEN "own" ELSE "recv")
        /\ expect'[p] = expect[p] \ {mid} /\ up[p] # <<>>
        /\ UNCHANGED local /\ down' = down
    BY <1>0, <1>4 DEF CmsReceive, CmsGoto, CmsHears, TypeOK
  <2>2. LinesIn(up'[p]) \subseteq LinesIn(up[p])
    BY <1>0, <1>4, CmsHeard DEF CmsReceive
  <2>3. AcceptedIds' = AcceptedIds \cup {mid}
    <3>1. CASE mid \in AcceptedIds
      BY <1>4, <3>1 DEF CmsReceive, AcceptedIds
    <3>2. CASE mid \notin AcceptedIds
      <4> DEFINE new == [id |-> mid, text |-> Head(up[p]).text]
      <4>1. accepted' = accepted \cup {new}
        BY <1>4, <3>2 DEF CmsReceive
      <4>2. new.id = mid
        OBVIOUS
      <4> HIDE DEF new
      <4> QED
        BY <4>1, <4>2 DEF AcceptedIds
    <3> QED
      BY <3>1, <3>2
  <2>4. Pledged(p)' = Pledged(p) /\ Spoken(p)' = Spoken(p)
    BY <2>1 DEF Pledged, Pending, Spoken, local
  <2> HIDE DEF mid
  <2>5. mem' = mem /\ pc' = pc /\ batch' = batch
    BY <2>1 DEF local
  <2>6. ~Spoken(p) /\ (pc[p] \in InSession => Pledged(p) \subseteq AcceptedIds \cup expect[p])
    BY <1>0, <2>1 DEF SessionInv
  <2>7. /\ pc[p] \notin {"offer", "pass"}
        /\ pc[p] \in {"download"} \cup AtSave => SentIds(mem[p]) \subseteq AcceptedIds
    BY <1>0, <2>1 DEF SessionInv
  <2>8. /\ cms'[p] \in {"own", "recv"}
        /\ cms'[p] = "own" => expect[p] = {mid}
    BY <2>1
  <2>9. pc[p] = "answers" =>
       \A l \in LinesIn(up[p]) : l.t = "outbound" =>
         \A m \in l.mids : m.at \in batch[p] => m.id = mem[p].msgs[m.at].id
    BY <1>0 DEF SessionInv
  <2> QED
    BY <2>1, <2>2, <2>3, <2>4, <2>5, <2>6, <2>7, <2>8, <2>9 DEF SessionInv
<1>5. CASE CmsOffer(p) \/ CmsOffersNothing(p) \/ CmsSend(p)
  <2>1. /\ cms[p] \in {"own", "deliver"} /\ cms'[p] \notin {"turn", "recv"}
        /\ UNCHANGED local /\ UNCHANGED <<up, accepted>>
    BY <1>0, <1>5 DEF CmsOffer, CmsOffersNothing, CmsSend, CmsGoto, TypeOK
  <2>2. PICK l : l.t \in {"inbound", "FF", "FQ", "mail"} /\ CmsSays(p, l)
    <3> DEFINE Offer(mids) == [t |-> "inbound", mids |-> mids]
               Mail(mid)   == [t |-> "mail", mid |-> mid, text |-> TextOf(mid)]
    <3>1. CASE CmsOffer(p)
      <4>1. \E n \in 1..MaxOffer : \E mids \in [1..n -> Waiting] : CmsSays(p, Offer(mids))
        BY <3>1 DEF CmsOffer
      <4>2. \A mids : Offer(mids).t = "inbound"
        OBVIOUS
      <4> HIDE DEF Offer
      <4> QED
        BY <4>1, <4>2
    <3>2. CASE CmsOffersNothing(p)
      BY <3>2 DEF CmsOffersNothing
    <3>3. CASE CmsSend(p)
      <4>1. \E mid : CmsSays(p, Mail(mid))
        BY <3>3 DEF CmsSend
      <4>2. \A mid : Mail(mid).t = "mail"
        OBVIOUS
      <4> HIDE DEF Mail
      <4> QED
        BY <4>1, <4>2
    <3> QED
      BY <1>5, <3>1, <3>2, <3>3
  <2>3. LinesIn(down'[p]) = LinesIn(down[p]) \cup {l}
    <3>1. down[p] \in Seq(DownLine \cup {l})
      BY <1>0, SeqMonotonic DEF TypeOK
    <3>2. LinesIn(Append(down[p], l)) = LinesIn(down[p]) \cup {l}
      BY <3>1, AppendLines
    <3> QED
      BY <1>0, <2>2, <3>2 DEF CmsSays, TypeOK
  <2>4. Pledged(p)' = Pledged(p)
    <3>1. Pending(p)' = Pending(p)
      BY <2>1, <2>2, <2>3 DEF Pending, local
    <3> QED
      BY <2>1, <3>1 DEF Pledged, local
  <2>5. pc[p] \notin {"offer", "pass"}
    BY <1>0, <2>1 DEF SessionInv
  <2>6. pc[p] \in InSession => Pledged(p) \subseteq AcceptedIds
    BY <1>0, <2>1 DEF SessionInv
  <2> QED
    BY <1>1, <2>1, <2>4, <2>5, <2>6 DEF AcceptedIds
<1>6. CASE CmsAnswered(p) \/ CmsSent(p) \/ CmsEnd(p)
  <2>1. /\ cms[p] \in {"asked", "deliver", "await"} /\ cms'[p] \notin {"turn", "recv"}
        /\ UNCHANGED local /\ UNCHANGED <<down, accepted>>
    BY <1>0, <1>6 DEF CmsAnswered, CmsSent, CmsEnd, CmsGoto, wire, TypeOK
  <2>2. LinesIn(up'[p]) \subseteq LinesIn(up[p])
    BY <1>0, <1>6, CmsHeard DEF CmsAnswered, CmsSent, CmsEnd, wire
  <2>3. Pledged(p)' = Pledged(p)
    BY <2>1 DEF Pledged, Pending, local
  <2>4. /\ pc[p] \notin {"offer", "pass"}
        /\ pc[p] \in InSession => Pledged(p) \subseteq AcceptedIds
    BY <1>0, <2>1 DEF SessionInv
  <2> QED
    BY <1>1, <2>1, <2>2, <2>3, <2>4 DEF AcceptedIds
<1>7. CASE CmsTidy(p) \/ CmsDrop(p)
  <2>1. /\ cms[p] # "closed" /\ cms'[p] = "closed"
        /\ UNCHANGED local /\ UNCHANGED <<up, down, accepted>>
    BY <1>0, <1>7 DEF CmsTidy, CmsDrop, CmsClose, CmsGoto, wire, TypeOK
  <2>2. Pledged(p)' = Pledged(p) /\ Spoken(p)' = Spoken(p)
    BY <2>1 DEF Pledged, Pending, Spoken, local
  <2>3. /\ pc[p] \in {"offer", "pass"} => up[p] = <<>> /\ down[p] = <<>>
        /\ pc[p] \in InSession /\ Spoken(p) => Pledged(p) \subseteq AcceptedIds
    BY <1>0 DEF SessionInv
  <2> QED
    BY <1>1, <2>1, <2>2, <2>3 DEF AcceptedIds
<1> QED
  BY <1>2, <1>3, <1>4, <1>5, <1>6, <1>7 DEF CmsProceed

\* What is saved is what was pledged and accepted.
LEMMA DiskStep ==
  ASSUME IInv, NEW p \in Proc, Step(p)
  PROVE  SentIds(disk') \subseteq AcceptedIds'
<1>1. TypeOK /\ AcceptedIds \subseteq AcceptedIds'
  BY Frame DEF IInv, TypeInv
<1>2. disk' = disk \/ (SaveEnd(p) /\ disk' = mem[p])
  BY DEF Step, Proceed, CmsProceed, AccountSetup, Compose, SyncFake, LocalCommand, SyncStart,
         SaveBegin, SaveEnd, Crash, PassTurn, OfferOutbox, ReadAnswers, SendNext, OutboundDone,
         AnswerInbound, Download, InboundDone, NothingInbound, CmsQuit, Fail, HungUp, Unsendable,
         GiveUp, CmsPassed, CmsAnswer, CmsReceive, CmsOffer, CmsOffersNothing, CmsAnswered,
         CmsSend, CmsSent, CmsEnd, CmsTidy, CmsDrop, CmsClose
<1>3. CASE disk' = disk
  BY <1>1, <1>3 DEF IInv
<1>4. CASE SaveEnd(p) /\ disk' = mem[p]
  BY <1>1, <1>4 DEF IInv, SessionInv, SaveEnd, AtSave
<1> QED
  BY <1>2, <1>3, <1>4

\* The invariant holds at first.
LEMMA IInvInit == Init => IInv
<1> SUFFICES ASSUME Init PROVE IInv
  OBVIOUS
<1>1. SentIds(disk) \subseteq AcceptedIds
  BY NewStoreFacts DEF Init
<1>2. \A p \in Proc : SessionInv(p)
  BY EmptyLines DEF Init, SessionInv, InSession, AtSave
<1> QED
  BY <1>1, <1>2, TypeInit DEF IInv

\* Every step keeps the invariant.
LEMMA IInvNext == IInv /\ [Next]_vars => IInv'
<1> SUFFICES ASSUME IInv, [Next]_vars PROVE IInv'
  OBVIOUS
<1>1. TypeInv'
  BY TypeNext DEF IInv
<1>2. CASE UNCHANGED vars
  <2>1. UNCHANGED local /\ UNCHANGED wire /\ UNCHANGED <<disk, cms, expect, accepted>>
    BY <1>2 DEF vars, remote
  <2>2. \A p \in Proc : SessionInv(p)'
    <3> TAKE p \in Proc
    <3>1. Pledged(p)' = Pledged(p) /\ Spoken(p)' = Spoken(p)
      BY <2>1 DEF Pledged, Pending, Spoken, local, wire
    <3> QED
      BY <2>1, <3>1 DEF IInv, SessionInv, AcceptedIds, local, wire
  <2> QED
    BY <1>1, <2>1, <2>2 DEF IInv, AcceptedIds
<1>3. ASSUME NEW p \in Proc, Step(p) PROVE IInv'
  <2>1. SessionInv(p)'
    BY <1>3, SessionCommands, SessionEnds, SessionOutbound, SessionInbound, SessionCms
    DEF Step, Proceed
  <2>2. \A q \in Proc \ {p} : SessionInv(q)'
    BY <1>3, Frame, SessionOthers DEF IInv, TypeInv
  <2> QED
    BY <1>1, <1>3, <2>1, <2>2, DiskStep DEF IInv
<1> QED
  BY <1>2, <1>3 DEF Next

\* The saved store never says that the CMS has mail it does not have, however
\* many commands run at once and wherever a session or a save breaks off.
THEOREM SentAccepted == Spec => []SentWasAccepted
<1>1. Spec => []IInv
  BY IInvInit, IInvNext, PTL DEF Spec
<1>2. IInv => SentWasAccepted
  BY DEF IInv, SentWasAccepted, SentIds
<1> QED
  BY <1>1, <1>2, PTL
-----------------------------------------------------------------------------
(* The shape of what the mailbox operators return                          *)

\* The least element of a set of positions is one of them.
LEMMA MinIn ==
  ASSUME NEW T, T \subseteq Nat, T # {}
  PROVE  Min(T) \in T
<1> DEFINE R == {ss \in Nat \X Nat : ss[1] < ss[2]}
<1>1. IsWellFoundedOn(R, Nat)
  BY NatLessThanWellFounded DEF OpToRel
<1> HIDE DEF R
<1>2. PICK x \in T : \A y \in T : ~ (<<y, x>> \in R)
  BY <1>1, WFMin
<1>3. ASSUME NEW y \in T PROVE x <= y
  <2>1. <<y, x>> \notin R
    BY <1>2
  <2>2. y < x => <<y, x>> \in R
    BY DEF R
  <2> QED
    BY <2>1, <2>2
<1> QED
  BY <1>3 DEF Min

\* t is s with the message m behind it.
Added(s, t, m) ==
  /\ DOMAIN t.msgs = DOMAIN s.msgs \cup {Len(s.msgs) + 1}
  /\ \A k \in DOMAIN s.msgs : t.msgs[k] = s.msgs[k]
  /\ t.msgs[Len(s.msgs) + 1] = m

\* t is s with the message m in place of that at i.
Replaced(s, t, i, m) ==
  /\ DOMAIN t.msgs = DOMAIN s.msgs
  /\ \A k \in DOMAIN s.msgs : t.msgs[k] = IF k = i THEN m ELSE s.msgs[k]

\* A message appended.
LEMMA AddedFacts ==
  ASSUME NEW s \in Store, NEW t, NEW m \in Message, t.msgs = Append(s.msgs, m)
  PROVE  Added(s, t, m)
BY DEF Store, Added

\* Composing appends a message under the next number.
LEMMA QueueMessageShape ==
  ASSUME NEW s \in Store, NEW text \in Nat, NEW fault \in Faults,
         NEW t, t = QueueMessage(s, text, fault)
  PROVE  /\ t.seq = s.seq + 1 /\ Added(s, t, Outgoing(s, text, fault))
         /\ Outgoing(s, text, fault) \in Message
<1>1. Outgoing(s, text, fault) \in Message
  BY DEF Outgoing, Message, Store, Ids, Folders, Vias, Notes
<1>2. t.seq = s.seq + 1 /\ t.msgs = Append(s.msgs, Outgoing(s, text, fault))
  BY DEF QueueMessage
<1> QED
  BY <1>1, <1>2, AddedFacts

\* The fake sync appends its fixture message if it is not there yet, and moves
\* what is in the outbox.
LEMMA FakeSyncShape ==
  ASSUME NEW s \in Store, NEW t, t = FakeSync(s)
  PROVE  /\ t.seq = s.seq
         /\ \E got \in Seq(Message) :
              /\ \/ got = s.msgs
                 \/ FakeMid \notin IdsOf(s) /\ got = Append(s.msgs, FakeInbox)
              /\ DOMAIN t.msgs = DOMAIN got
              /\ \A k \in DOMAIN got :
                   t.msgs[k] = IF got[k].folder = "Outbox"
                               THEN Moved(got[k], "Sent", "fake", "none") ELSE got[k]
<1> DEFINE got == IF FakeMid \in IdsOf(s) THEN s.msgs ELSE Append(s.msgs, FakeInbox)
<1>1. FakeInbox \in Message
  BY DEF FakeInbox, Message, Ids, Folders, Vias, Notes, Faults
<1>2. got \in Seq(Message)
  BY <1>1 DEF Store
<1>3. t = [s EXCEPT !.msgs = [k \in DOMAIN got |->
            IF got[k].folder = "Outbox" THEN Moved(got[k], "Sent", "fake", "none") ELSE got[k]]]
  BY DEF FakeSync
<1>4. \/ got = s.msgs
      \/ FakeMid \notin IdsOf(s) /\ got = Append(s.msgs, FakeInbox)
  OBVIOUS
<1> HIDE DEF got
<1> DEFINE moved == [k \in DOMAIN got |->
            IF got[k].folder = "Outbox" THEN Moved(got[k], "Sent", "fake", "none") ELSE got[k]]
<1>5. \A k \in DOMAIN got :
         moved[k] = IF got[k].folder = "Outbox"
                    THEN Moved(got[k], "Sent", "fake", "none") ELSE got[k]
  OBVIOUS
<1>6. DOMAIN moved = DOMAIN got /\ t = [s EXCEPT !.msgs = moved]
  BY <1>3
<1> HIDE DEF moved
<1>7. t.msgs = moved /\ t.seq = s.seq
  BY <1>6 DEF Store
<1> QED
  BY <1>2, <1>4, <1>5, <1>6, <1>7

\* An answered message stays the same mail; it is marked sent over Telnet, or
\* stays where it is.
LEMMA AnsweredShape ==
  ASSUME NEW s \in Store, NEW i \in DOMAIN s.msgs, NEW v, NEW t, t = Answered(s, i, v)
  PROVE  /\ t.seq = s.seq
         /\ \E m : /\ Replaced(s, t, i, m)
                   /\ m.id = s.msgs[i].id /\ m.text = s.msgs[i].text
                   /\ \/ m.folder = "Sent" /\ m.via = "telnet"
                      \/ m.folder = s.msgs[i].folder /\ m.via = s.msgs[i].via
<1> DEFINE m == IF i \in v.yes THEN Moved(s.msgs[i], "Sent", "telnet", "none")
                ELSE IF i \in v.have THEN Moved(s.msgs[i], "Sent", "telnet", "received")
                ELSE [s.msgs[i] EXCEPT !.note = "deferred"]
<1>1. t = [s EXCEPT !.msgs = [@ EXCEPT ![i] = m]]
  BY DEF Answered, MarkSent, MarkDeferred
<1>2. s.msgs[i] \in Message
  BY DEF Store
<1>3. /\ m \in Message /\ m.id = s.msgs[i].id /\ m.text = s.msgs[i].text
      /\ \/ m.folder = "Sent" /\ m.via = "telnet"
         \/ m.folder = s.msgs[i].folder /\ m.via = s.msgs[i].via
  <2>1. CASE i \in v.yes
    BY <1>2, <2>1 DEF Moved, Message, Folders, Vias, Notes
  <2>2. CASE i \notin v.yes /\ i \in v.have
    BY <1>2, <2>2 DEF Moved, Message, Folders, Vias, Notes
  <2>3. CASE i \notin v.yes /\ i \notin v.have
    BY <1>2, <2>3 DEF Message, Notes
  <2> QED
    BY <2>1, <2>2, <2>3
<1> HIDE DEF m
<1>4. /\ DOMAIN t.msgs = DOMAIN s.msgs
      /\ \A k \in DOMAIN s.msgs : t.msgs[k] = IF k = i THEN m ELSE s.msgs[k]
  BY <1>1, <1>3, ReplaceFacts
<1>5. t.seq = s.seq
  BY <1>1 DEF Store
<1> QED
  BY <1>3, <1>4, <1>5 DEF Replaced

\* A download is appended, or takes the place of the message under its id.
LEMMA UpsertShape ==
  ASSUME NEW s \in Store, NEW mid \in Ids, NEW text \in Ids,
         NEW t, t = UpsertReceived(s, mid, text)
  PROVE  /\ t.seq = s.seq
         /\ \/ StoredId(mid) \notin IdsOf(s) /\ Added(s, t, Received(mid, text))
            \/ \E i \in DOMAIN s.msgs :
                 s.msgs[i].id = StoredId(mid) /\ Replaced(s, t, i, Received(mid, text))
<1> DEFINE got  == Received(mid, text)
           same == {i \in DOMAIN s.msgs : s.msgs[i].id = got.id}
<1>1. StoredId(mid) \in Ids
  BY StoreAssumption DEF StoredId, Ids, Range
<1>2. got \in Message /\ got.id = StoredId(mid)
  BY <1>1 DEF Received, Message, Folders, Vias, Notes, Faults
<1>3. CASE same = {}
  <2>1. t = [s EXCEPT !.msgs = Append(@, got)]
    BY <1>3 DEF UpsertReceived
  <2>2. StoredId(mid) \notin IdsOf(s)
    BY <1>2, <1>3 DEF IdsOf
  <2> HIDE DEF got, same
  <2> DEFINE q == Append(s.msgs, got)
  <2>3. t = [s EXCEPT !.msgs = q]
    BY <2>1
  <2> HIDE DEF q
  <2>4. t.msgs = q /\ t.seq = s.seq
    BY <2>3 DEF Store
  <2>5. Added(s, t, got)
    BY <1>2, <2>4, AddedFacts DEF q
  <2> QED
    BY <2>2, <2>4, <2>5 DEF got
<1>4. CASE same # {}
  <2> DEFINE i == Min(same)
  <2>1. t = [s EXCEPT !.msgs = [@ EXCEPT ![i] = got]]
    BY <1>4 DEF UpsertReceived
  <2>2. same \subseteq Nat
    BY DEF Store
  <2>3. i \in same
    BY <1>4, <2>2, MinIn
  <2>4. i \in DOMAIN s.msgs /\ s.msgs[i].id = StoredId(mid)
    BY <1>2, <2>3
  <2> HIDE DEF got, same, i
  <2>5. Replaced(s, t, i, got)
    BY <1>2, <2>1, ReplaceFacts DEF Replaced
  <2>6. t.seq = s.seq
    BY <2>1 DEF Store
  <2> QED
    BY <2>4, <2>5, <2>6 DEF got
<1> QED
  BY <1>3, <1>4

-----------------------------------------------------------------------------
(* The mail a store holds.  A message is known by its id and its text.     *)

\* The ids mail of other stations is stored under.
Foreign == ForeignMids \cup {FakeMid}

\* No two mails of other stations carry the same id in their headers: mail
\* that came under the id of another would take its place in the store.
OneMailPerId == \A m, n \in Foreign : StoredId(m) = StoredId(n) => m = n

PairOf(m) == [id |-> m.id, text |-> m.text]
Pairs(s)  == {PairOf(s.msgs[i]) : i \in DOMAIN s.msgs}

\* A message this station wrote, with a number and transport of its own.
OwnOverTelnet(m) == m.via = "telnet" /\ m.text \in Nat

\* Own texts the store calls sent, and those that came back as mail.
Known(s) == {s.msgs[i].text : i \in {j \in DOMAIN s.msgs : OwnOverTelnet(s.msgs[j])}}
Came(s)  == {s.msgs[i].text : i \in {j \in In(s, "Inbox") : OwnOverTelnet(s.msgs[j])}}

\* What a message of a store may be: one composed here, numbered below the
\* next number, or one that came, stored under the id of its header.
SoundPair(a, n) ==
  \/ a.id \in Nat /\ a.text \in Nat /\ a.id < n
  \/ a.text \in Foreign /\ a.id = StoredId(a.text)

OnePerId(S) == \A a, b \in S : a.id = b.id => a = b

Sound(s) ==
  /\ \A a \in Pairs(s) : SoundPair(a, s.seq)
  /\ OnePerId(Pairs(s))
  /\ \A i \in In(s, "Outbox") : s.msgs[i].via = "none"

\* The ids are those of the pairs, and so are the texts.
LEMMA PairsFacts ==
  ASSUME NEW s \in Store
  PROVE  /\ IdsOf(s) = {a.id : a \in Pairs(s)}
         /\ TextsOf(s) = {a.text : a \in Pairs(s)}
<1>1. \A i \in DOMAIN s.msgs : /\ PairOf(s.msgs[i]).id = s.msgs[i].id
                               /\ PairOf(s.msgs[i]).text = s.msgs[i].text
  BY DEF PairOf
<1>2. IdsOf(s) = {PairOf(s.msgs[i]).id : i \in DOMAIN s.msgs}
  BY <1>1 DEF IdsOf
<1>3. TextsOf(s) = {PairOf(s.msgs[i]).text : i \in DOMAIN s.msgs}
  BY <1>1 DEF TextsOf
<1> QED
  BY <1>2, <1>3 DEF Pairs

\* A new store is sound and holds nothing.
LEMMA NewStoreMail ==
  /\ Sound(NewStore) /\ Pairs(NewStore) = {} /\ Known(NewStore) = {} /\ Came(NewStore) = {}
  /\ IdsOf(NewStore) = {}
<1>1. DOMAIN NewStore.msgs = {}
  BY DEF NewStore
<1> QED
  BY <1>1 DEF Sound, OnePerId, Pairs, Known, Came, In, IdsOf

\* t has all s has: every mail, and every mark of having gone out.
Keeps(s, t) == Pairs(s) \subseteq Pairs(t) /\ Known(s) \subseteq Known(t)

\* One message more.
LEMMA AddedMail ==
  ASSUME NEW s \in Store, NEW t, NEW m, Added(s, t, m), Sound(s),
         s.seq \in Nat, t.seq \in Nat, s.seq <= t.seq,
         SoundPair(PairOf(m), t.seq), m.id \notin IdsOf(s),
         m.folder = "Outbox" => m.via = "none"
  PROVE  /\ Sound(t) /\ Keeps(s, t)
         /\ Pairs(t) = Pairs(s) \cup {PairOf(m)}
         /\ \A x \in Came(t) :
              x \in Came(s) \/ (x = m.text /\ m.folder = "Inbox" /\ OwnOverTelnet(m))
<1>1. /\ DOMAIN t.msgs = DOMAIN s.msgs \cup {Len(s.msgs) + 1}
      /\ \A k \in DOMAIN s.msgs : t.msgs[k] = s.msgs[k]
      /\ t.msgs[Len(s.msgs) + 1] = m
  BY DEF Added
<1>2. Pairs(t) = Pairs(s) \cup {PairOf(m)}
  BY <1>1 DEF Pairs
<1>3. Known(s) \subseteq Known(t)
  BY <1>1 DEF Known
<1>4. \A x \in Came(t) :
        x \in Came(s) \/ (x = m.text /\ m.folder = "Inbox" /\ OwnOverTelnet(m))
  BY <1>1 DEF Came, In
<1>5. \A i \in In(t, "Outbox") : t.msgs[i].via = "none"
  BY <1>1 DEF Sound, In
<1>6. \A a \in Pairs(t) : SoundPair(a, t.seq)
  BY <1>2 DEF Sound, SoundPair
<1>7. OnePerId(Pairs(t))
  <2>1. \A a \in Pairs(s) : a.id # PairOf(m).id
    BY PairsFacts DEF PairOf
  <2> QED
    BY <1>2, <2>1 DEF OnePerId, Sound
<1> QED
  BY <1>2, <1>3, <1>4, <1>5, <1>6, <1>7 DEF Sound, Keeps

\* Messages changed in place, each staying the same mail.
LEMMA InPlaceMail ==
  ASSUME NEW s \in Store, NEW t, Sound(s), t.seq = s.seq,
         DOMAIN t.msgs = DOMAIN s.msgs,
         \A k \in DOMAIN s.msgs :
            /\ t.msgs[k].id = s.msgs[k].id /\ t.msgs[k].text = s.msgs[k].text
            /\ s.msgs[k].via = "telnet" => t.msgs[k].via = "telnet"
            /\ t.msgs[k].folder = "Outbox" => t.msgs[k].via = "none"
  PROVE  /\ Sound(t) /\ Keeps(s, t) /\ Pairs(t) = Pairs(s)
<1>1. \A k \in DOMAIN s.msgs : PairOf(t.msgs[k]) = PairOf(s.msgs[k])
  BY DEF PairOf
<1>2. Pairs(t) = Pairs(s)
  BY <1>1 DEF Pairs
<1>3. Known(s) \subseteq Known(t)
  BY DEF Known, OwnOverTelnet
<1>4. \A i \in In(t, "Outbox") : t.msgs[i].via = "none"
  BY DEF In
<1> QED
  BY <1>2, <1>3, <1>4 DEF Sound, Keeps

\* Account setup changes no mail.
LEMMA SetAccountMail ==
  ASSUME NEW s \in Store, Sound(s), NEW t, t = SetAccount(s)
  PROVE  Sound(t) /\ Keeps(s, t) /\ Came(t) = Came(s)
<1>1. t.msgs = s.msgs /\ t.seq = s.seq
  BY DEF SetAccount, Store
<1> QED
  BY <1>1 DEF Sound, Keeps, Pairs, Known, Came, In

\* Composing adds a message under a number no other has.
LEMMA QueueMessageMail ==
  ASSUME NEW s \in Store, Sound(s), NEW text \in Nat, NEW fault \in Faults,
         NEW t, t = QueueMessage(s, text, fault)
  PROVE  Sound(t) /\ Keeps(s, t) /\ Came(t) \subseteq Came(s)
<1> DEFINE m == Outgoing(s, text, fault)
<1>1. t.seq = s.seq + 1 /\ Added(s, t, m) /\ s.seq \in Nat
  BY QueueMessageShape DEF Store
<1>2. m.id = s.seq /\ m.text = text /\ m.folder = "Outbox" /\ m.via = "none"
  BY DEF Outgoing
<1> HIDE DEF m
<1>3. SoundPair(PairOf(m), t.seq)
  BY <1>1, <1>2 DEF SoundPair, PairOf
<1>4. s.seq \notin IdsOf(s)
  <2> SUFFICES ASSUME NEW a \in Pairs(s), a.id = s.seq PROVE FALSE
    BY PairsFacts
  <2>1. SoundPair(a, s.seq)
    BY DEF Sound
  <2>2. StoredId(a.text) \notin Nat \/ a.text \notin Foreign
    BY StoreAssumption DEF Foreign, StoredId, Range
  <2> QED
    BY <1>1, <2>1, <2>2 DEF SoundPair
<1> QED
  BY <1>1, <1>2, <1>3, <1>4, AddedMail

\* The fake sync keeps all mail; its fixture is mail of another station.
LEMMA FakeSyncMail ==
  ASSUME NEW s \in Store, Sound(s), NEW t, t = FakeSync(s)
  PROVE  Sound(t) /\ Keeps(s, t) /\ Came(t) \subseteq Came(s)
<1>0. s.seq \in Nat /\ FakeInbox \in Message
  BY DEF Store, FakeInbox, Message, Ids, Folders, Vias, Notes, Faults
<1>1. PICK got \in Seq(Message) :
         /\ \/ got = s.msgs
            \/ FakeMid \notin IdsOf(s) /\ got = Append(s.msgs, FakeInbox)
         /\ DOMAIN t.msgs = DOMAIN got
         /\ \A k \in DOMAIN got :
              t.msgs[k] = IF got[k].folder = "Outbox"
                          THEN Moved(got[k], "Sent", "fake", "none") ELSE got[k]
  BY FakeSyncShape
<1> DEFINE u == [s EXCEPT !.msgs = got]
<1>2. u \in Store /\ u.msgs = got /\ u.seq = s.seq
  BY DEF Store
<1> HIDE DEF u
<1>3. Sound(u) /\ Keeps(s, u) /\ Came(u) \subseteq Came(s)
  <2>1. CASE got = s.msgs
    BY <1>2, <2>1 DEF Sound, Keeps, Pairs, Known, Came, In
  <2>2. CASE FakeMid \notin IdsOf(s) /\ got = Append(s.msgs, FakeInbox)
    <3>1. Added(s, u, FakeInbox)
      BY <1>0, <1>2, <2>2, AddedFacts
    <3>2. /\ FakeInbox.id = FakeMid /\ FakeInbox.text = FakeMid
          /\ FakeInbox.folder = "Inbox" /\ FakeInbox.via = "fake"
      BY DEF FakeInbox
    <3>3. SoundPair(PairOf(FakeInbox), u.seq)
      BY <3>2, StoreAssumption DEF SoundPair, PairOf, Foreign, StoredId
    <3> QED
      BY <1>0, <1>2, <2>2, <3>1, <3>2, <3>3, AddedMail DEF OwnOverTelnet
  <2> QED
    BY <1>1, <2>1, <2>2
<1>4. t.seq = u.seq
  BY <1>2, FakeSyncShape
<1>5. \A k \in DOMAIN u.msgs :
        /\ t.msgs[k].id = u.msgs[k].id /\ t.msgs[k].text = u.msgs[k].text
        /\ u.msgs[k].via = "telnet" => t.msgs[k].via = "telnet"
        /\ t.msgs[k].folder # "Outbox"
        /\ t.msgs[k].folder = "Inbox" => t.msgs[k] = u.msgs[k]
  <2> TAKE k \in DOMAIN u.msgs
  <2>1. CASE got[k].folder = "Outbox"
    <3>1. t.msgs[k] = Moved(u.msgs[k], "Sent", "fake", "none")
      BY <1>1, <1>2, <2>1
    <3>2. u.msgs[k].via = "none"
      BY <1>2, <1>3, <2>1 DEF Sound, In
    <3> QED
      BY <3>1, <3>2 DEF Moved
  <2>2. CASE got[k].folder # "Outbox"
    BY <1>1, <1>2, <2>2
  <2> QED
    BY <2>1, <2>2
<1>6. DOMAIN t.msgs = DOMAIN u.msgs
  BY <1>1, <1>2
<1>7. Sound(t) /\ Keeps(u, t)
  BY <1>2, <1>3, <1>4, <1>5, <1>6, InPlaceMail
<1>8. Came(t) \subseteq Came(u)
  BY <1>5, <1>6 DEF Came, In
<1> QED
  BY <1>3, <1>7, <1>8 DEF Keeps

\* Marking an answered message changes no mail, and takes no mark back.
LEMMA AnsweredMail ==
  ASSUME NEW s \in Store, Sound(s), NEW i \in DOMAIN s.msgs, NEW v, NEW t, t = Answered(s, i, v)
  PROVE  Sound(t) /\ Keeps(s, t) /\ Pairs(t) = Pairs(s) /\ Came(t) \subseteq Came(s)
<1>1. PICK m : /\ Replaced(s, t, i, m)
               /\ m.id = s.msgs[i].id /\ m.text = s.msgs[i].text
               /\ \/ m.folder = "Sent" /\ m.via = "telnet"
                  \/ m.folder = s.msgs[i].folder /\ m.via = s.msgs[i].via
  BY AnsweredShape
<1>2. t.seq = s.seq
  BY AnsweredShape
<1>3. /\ DOMAIN t.msgs = DOMAIN s.msgs
      /\ \A k \in DOMAIN s.msgs : t.msgs[k] = IF k = i THEN m ELSE s.msgs[k]
  BY <1>1 DEF Replaced
<1>4. \A k \in DOMAIN s.msgs : s.msgs[k].folder = "Outbox" => s.msgs[k].via = "none"
  BY DEF Sound, In
<1>5. \A k \in DOMAIN s.msgs :
        /\ t.msgs[k].id = s.msgs[k].id /\ t.msgs[k].text = s.msgs[k].text
        /\ s.msgs[k].via = "telnet" => t.msgs[k].via = "telnet"
        /\ t.msgs[k].folder = "Outbox" => t.msgs[k].via = "none"
        /\ t.msgs[k].folder = "Inbox" =>
             s.msgs[k].folder = "Inbox" /\ t.msgs[k].via = s.msgs[k].via
  BY <1>1, <1>3, <1>4
<1>6. Came(t) \subseteq Came(s)
  BY <1>3, <1>5 DEF Came, In, OwnOverTelnet
<1> QED
  BY <1>2, <1>3, <1>5, <1>6, InPlaceMail

\* A download is stored under its id and loses no other mail, if what the
\* store has under that id is the same mail.
LEMMA UpsertMail ==
  ASSUME NEW s \in Store, Sound(s), NEW mid \in Ids, NEW text \in Ids,
         NEW t, t = UpsertReceived(s, mid, text),
         SoundPair([id |-> StoredId(mid), text |-> text], s.seq),
         \A a \in Pairs(s) : a.id = StoredId(mid) => a.text = text
  PROVE  /\ Sound(t) /\ Keeps(s, t)
         /\ \A x \in Came(t) : x \in Came(s) \/ (x = text /\ x \in Nat)
<1> DEFINE m == Received(mid, text)
<1>1. /\ m.id = StoredId(mid) /\ m.text = text /\ m.folder = "Inbox" /\ m.via = "telnet"
      /\ PairOf(m) = [id |-> StoredId(mid), text |-> text]
  BY DEF Received, PairOf
<1>2. t.seq = s.seq /\ s.seq \in Nat
  BY UpsertShape DEF Store
<1> HIDE DEF m
<1>3. CASE StoredId(mid) \notin IdsOf(s) /\ Added(s, t, m)
  BY <1>1, <1>2, <1>3, AddedMail DEF OwnOverTelnet
<1>4. CASE \E i \in DOMAIN s.msgs : s.msgs[i].id = StoredId(mid) /\ Replaced(s, t, i, m)
  <2>1. PICK i \in DOMAIN s.msgs : s.msgs[i].id = StoredId(mid) /\ Replaced(s, t, i, m)
    BY <1>4
  <2>2. /\ DOMAIN t.msgs = DOMAIN s.msgs
        /\ \A k \in DOMAIN s.msgs : t.msgs[k] = IF k = i THEN m ELSE s.msgs[k]
    BY <2>1 DEF Replaced
  <2>3. s.msgs[i].text = text
    <3>1. PairOf(s.msgs[i]) \in Pairs(s)
      BY DEF Pairs
    <3> QED
      BY <2>1, <3>1 DEF PairOf
  <2>4. \A k \in DOMAIN s.msgs : s.msgs[k].folder = "Outbox" => s.msgs[k].via = "none"
    BY DEF Sound, In
  <2>5. \A k \in DOMAIN s.msgs :
          /\ t.msgs[k].id = s.msgs[k].id /\ t.msgs[k].text = s.msgs[k].text
          /\ s.msgs[k].via = "telnet" => t.msgs[k].via = "telnet"
          /\ t.msgs[k].folder = "Outbox" => t.msgs[k].via = "none"
    BY <1>1, <2>1, <2>2, <2>3, <2>4
  <2>6. Sound(t) /\ Keeps(s, t)
    BY <1>2, <2>2, <2>5, InPlaceMail
  <2>7. \A x \in Came(t) : x \in Came(s) \/ (x = text /\ x \in Nat)
    BY <1>1, <2>2 DEF Came, In, OwnOverTelnet
  <2> QED
    BY <2>6, <2>7
<1> QED
  BY <1>3, <1>4, UpsertShape DEF m

-----------------------------------------------------------------------------
(* One command at a time                                                   *)

Active(p) == pc[p] # "idle"

\* The sessions in which the station has not yet answered the CMS's offer.
Early == {"offer", "pass", "answers", "sending", "listen"}

\* One process at a time is at work, on a file it could read, so that its save
\* finds the file as it left it: empty.
ExclusiveInv ==
  /\ \A p, q \in Proc : Active(p) /\ Active(q) => p = q
  /\ \A p \in Proc : Active(p) =>
       file \in (IF pc[p] = "write" THEN {"empty"} ELSE {"absent", "whole"})
  /\ file = "absent" => disk = NewStore

\* A step that neither starts nor saves goes on within the session, ends it,
\* or leaves the process where it is.
Goes(p) ==
  /\ UNCHANGED <<file, disk>>
  /\ \/ pc' = pc
     \/ \E w \in InSession \cup {"truncate", "idle"} :
          pc[p] \in InSession /\ pc' = [pc EXCEPT ![p] = w]

\* Every step starts a command, saves, crashes, or goes on.
LEMMA StepKinds ==
  ASSUME TypeOK, NEW p \in Proc, Step(p)
  PROVE  \/ AccountSetup(p) \/ Compose(p) \/ SyncFake(p) \/ SyncStart(p)
         \/ SaveBegin(p) \/ SaveEnd(p) \/ Crash(p) \/ Goes(p)
<1> USE DEF Goes, Goto, InSession, local, remote, wire, counters
<1>1. CASE PassTurn(p) \/ OfferOutbox(p) \/ ReadAnswers(p) \/ SendNext(p) \/ OutboundDone(p)
  BY <1>1 DEF PassTurn, OfferOutbox, ReadAnswers, SendNext, OutboundDone
<1>2. CASE AnswerInbound(p) \/ Download(p) \/ InboundDone(p) \/ NothingInbound(p) \/ CmsQuit(p)
  BY <1>2 DEF AnswerInbound, Download, InboundDone, NothingInbound, CmsQuit
<1>3. CASE Fail(p) \/ HungUp(p) \/ Unsendable(p)
  BY <1>3 DEF Fail, HungUp, Unsendable, GiveUp
<1>4. CASE CmsProceed(p) \/ CmsDrop(p)
  <2>1. UNCHANGED <<file, disk, pc>>
    BY <1>4 DEF CmsProceed, CmsPassed, CmsAnswer, CmsReceive, CmsOffer, CmsOffersNothing,
       CmsAnswered, CmsSend, CmsSent, CmsEnd, CmsTidy, CmsDrop, CmsClose
  <2> QED
    BY <2>1
<1> QED
  BY <1>1, <1>2, <1>3, <1>4 DEF Step, Proceed

\* A process starts on the saved store, and alone.
LEMMA Starts ==
  ASSUME Exclusive, ExclusiveInv, NEW p \in Proc, MayStart(p)
  PROVE  Loaded = disk /\ \A q \in Proc : ~Active(q)
BY DEF MayStart, Readable, Loaded, ExclusiveInv, Active

\* Starting a command leaves the file and the saved store alone.
LEMMA StartKinds ==
  ASSUME TypeOK, NEW p \in Proc,
         AccountSetup(p) \/ Compose(p) \/ SyncFake(p) \/ SyncStart(p)
  PROVE  /\ MayStart(p) /\ UNCHANGED <<file, disk, accepted, delivered>>
         /\ \E w \in InSession \cup {"truncate"} : pc' = [pc EXCEPT ![p] = w]
BY DEF AccountSetup, Compose, SyncFake, SyncStart, LocalCommand, Goto, InSession, remote

\* Every step keeps it so.
LEMMA ExclusiveStep ==
  ASSUME TypeOK, Exclusive, ExclusiveInv, NEW p \in Proc, Step(p)
  PROVE  ExclusiveInv'
<1> USE DEF ExclusiveInv, Active, TypeOK, Goto
<1>1. CASE AccountSetup(p) \/ Compose(p) \/ SyncFake(p) \/ SyncStart(p)
  <2>1. PICK w \in InSession \cup {"truncate"} : pc' = [pc EXCEPT ![p] = w]
    BY <1>1, StartKinds
  <2>2. MayStart(p) /\ UNCHANGED <<file, disk>>
    BY <1>1, StartKinds
  <2>3. \A q \in Proc : pc[q] = "idle"
    BY <2>2, Starts
  <2> QED
    BY <2>1, <2>2, <2>3 DEF MayStart, Readable, InSession
<1>2. CASE SaveBegin(p)
  BY <1>2 DEF SaveBegin
<1>3. CASE SaveEnd(p)
  BY <1>3 DEF SaveEnd
<1>4. CASE Crash(p)
  BY <1>4 DEF Crash
<1>5. CASE Goes(p)
  BY <1>5 DEF Goes, InSession
<1> QED
  BY <1>1, <1>2, <1>3, <1>4, <1>5, StepKinds

\* Nothing but SaveEnd changes the saved store, which then is the copy of the
\* process that saves.
LEMMA DiskKinds ==
  ASSUME TypeOK, ExclusiveInv, NEW p \in Proc, Step(p)
  PROVE  \/ disk' = disk
         \/ SaveEnd(p) /\ disk' = mem[p] /\ pc[p] = "write" /\ file' = "whole"
<1>1. CASE SaveEnd(p)
  BY <1>1 DEF SaveEnd, ExclusiveInv, Active
<1>2. CASE ~SaveEnd(p)
  BY <1>2, StepKinds, StartKinds DEF SaveBegin, Crash, Goes
<1> QED
  BY <1>1, <1>2

-----------------------------------------------------------------------------
(* Downloads match the offer they answer                                   *)

\* l is the transfer of the mail mid: another station's, or one the CMS has.
MailFor(acc, l, mid) ==
  /\ l.t = "mail"
  /\ IF mid \in ForeignMids THEN l.text = mid ELSE [id |-> mid, text |-> l.text] \in acc

\* The lines q are the transfers of the first positions w of the offer o still
\* to be downloaded, in their order: line j is that of position f[j].
Fits(acc, q, w, o, f) ==
  /\ f \in [1..Len(q) -> w]
  /\ \A i, j \in 1..Len(q) : i < j => f[i] < f[j]
  /\ \A j \in 1..Len(q) : MailFor(acc, q[j], o[f[j]])
  /\ \A k \in w : k \in LinesIn(f) \/ \A j \in 1..Len(q) : f[j] < k

\* Without its first line, q still matches, and leaves as many to be sent.
RestFits(acc, q, w, o, f, k) ==
  \E g : /\ Fits(acc, Tail(q), w \ {k}, o, g)
         /\ (w \ {k}) \ LinesIn(g) = w \ LinesIn(f)

\* With the line l, q still matches, and leaves one less to be sent.
MoreFits(acc, q, w, o, f, k, l) ==
  \E g : /\ Fits(acc, Append(q, l), w, o, g)
         /\ w \ LinesIn(g) = (w \ LinesIn(f)) \ {k}

\* The first line is that of the first position; the rest match the rest.
LEMMA FitsTail ==
  ASSUME NEW acc, NEW q \in Seq(DownLine), q # <<>>, NEW w \in SUBSET Nat, NEW o, NEW f,
         Fits(acc, q, w, o, f), NEW k \in w, IsFirst(k, w)
  PROVE  MailFor(acc, Head(q), o[k]) /\ RestFits(acc, q, w, o, f, k)
<1>1. /\ Len(q) \in Nat \ {0} /\ Head(q) = q[1] /\ Len(Tail(q)) = Len(q) - 1
      /\ \A j \in 1..Len(Tail(q)) : Tail(q)[j] = q[j + 1]
      /\ 1 \in 1..Len(q)
  BY HeadTailProperties
<1>2. f[1] = k
  <2>0. f \in [1..Len(q) -> w]
    BY DEF Fits
  <2>1. f[1] \in w /\ f[1] \in Nat /\ k \in Nat /\ k <= f[1]
    BY <1>1, <2>0 DEF IsFirst
  <2>2. k \in LinesIn(f)
    <3>1. k \in LinesIn(f) \/ f[1] < k
      BY <1>1 DEF Fits
    <3> QED
      BY <2>1, <3>1
  <2>3. PICK j \in 1..Len(q) : f[j] = k
    BY <2>2 DEF LinesIn, Fits
  <2>4. j = 1 \/ f[1] < f[j]
    BY <1>1, <2>3 DEF Fits
  <2>5. f[j] = k
    BY <2>3
  <2> QED
    BY <2>1, <2>4, <2>5
<1> DEFINE n == Len(q) - 1
           g == [j \in 1..n |-> f[j + 1]]
<1>3. \A j \in 1..n : j + 1 \in 1..Len(q) /\ g[j] = f[j + 1] /\ f[j + 1] \in w /\ f[1] < f[j + 1]
  BY <1>1 DEF Fits
<1>4. DOMAIN g = 1..n /\ DOMAIN f = 1..Len(q)
  BY DEF Fits
<1>5. g \in [1..n -> w \ {k}]
  BY <1>2, <1>3
<1>6. LinesIn(g) = LinesIn(f) \ {k}
  <2>1. \A j \in 1..Len(q) : j = 1 \/ (j - 1 \in 1..n /\ g[j - 1] = f[j])
    BY <1>1, <1>3
  <2>2. LinesIn(g) \subseteq LinesIn(f) \ {k}
    BY <1>2, <1>3, <1>4 DEF LinesIn
  <2>3. LinesIn(f) \ {k} \subseteq LinesIn(g)
    <3> SUFFICES ASSUME NEW j \in 1..Len(q), f[j] # k PROVE f[j] \in LinesIn(g)
      BY <1>4 DEF LinesIn
    <3>1. j - 1 \in DOMAIN g /\ g[j - 1] = f[j]
      BY <1>2, <1>4, <2>1
    <3> QED
      BY <3>1 DEF LinesIn
  <2> QED
    BY <2>2, <2>3
<1> HIDE DEF n, g
<1>7. Fits(acc, Tail(q), w \ {k}, o, g)
  <2>1. Len(Tail(q)) = n
    BY <1>1 DEF n
  <2>2. \A i, j \in 1..n : i < j => g[i] < g[j]
    BY <1>3 DEF Fits, n
  <2>3. \A j \in 1..n : MailFor(acc, Tail(q)[j], o[g[j]])
    BY <1>1, <1>3, <2>1 DEF Fits
  <2>4. \A x \in w \ {k} : x \in LinesIn(g) \/ \A j \in 1..n : g[j] < x
    BY <1>3, <1>6 DEF Fits
  <2> QED
    BY <1>5, <2>1, <2>2, <2>3, <2>4 DEF Fits
<1>8. MailFor(acc, Head(q), o[k])
  BY <1>1, <1>2 DEF Fits
<1>9. (w \ {k}) \ LinesIn(g) = w \ LinesIn(f)
  <2>1. k \in LinesIn(f)
    BY <1>1, <1>2, <1>4 DEF LinesIn
  <2> QED
    BY <1>6, <2>1
<1> QED
  BY <1>7, <1>8, <1>9 DEF RestFits

\* The transfer of the next position matches too.
LEMMA FitsAppend ==
  ASSUME NEW acc, NEW q \in Seq(DownLine), NEW w \in SUBSET Nat, NEW o, NEW f,
         Fits(acc, q, w, o, f), NEW k \in w \ LinesIn(f), IsFirst(k, w \ LinesIn(f)),
         NEW l, MailFor(acc, l, o[k])
  PROVE  MoreFits(acc, q, w, o, f, k, l)
<1>1. /\ Len(q) \in Nat /\ Len(Append(q, l)) = Len(q) + 1
      /\ \A j \in 1..Len(q) : Append(q, l)[j] = q[j]
      /\ Append(q, l)[Len(q) + 1] = l
  <2>1. q \in Seq(DownLine \cup {l})
    BY SeqMonotonic
  <2> QED
    BY <2>1
<1> DEFINE n == Len(q) + 1
           g == [j \in 1..n |-> IF j = n THEN k ELSE f[j]]
<1>2. /\ \A j \in 1..Len(q) : j \in 1..n /\ g[j] = f[j] /\ f[j] \in w /\ f[j] < k
      /\ n \in 1..n /\ g[n] = k
  BY <1>1 DEF Fits
<1>3. /\ \A j \in 1..n : j \in 1..Len(q) \/ j = n
      /\ \A i, j \in 1..n : i < j => i \in 1..Len(q)
  BY <1>1
<1>4. DOMAIN g = 1..n /\ DOMAIN f = 1..Len(q)
  BY DEF Fits
<1>5. g \in [1..n -> w]
  BY <1>2, <1>3
<1>6. LinesIn(g) = LinesIn(f) \cup {k}
  BY <1>2, <1>3, <1>4 DEF LinesIn
<1> HIDE DEF g
<1>7. \A i, j \in 1..n : i < j => g[i] < g[j]
  BY <1>2, <1>3 DEF Fits
<1>8. \A j \in 1..n : MailFor(acc, Append(q, l)[j], o[g[j]])
  BY <1>1, <1>2, <1>3 DEF Fits
<1>9. \A x \in w : x \in LinesIn(g) \/ \A j \in 1..n : g[j] < x
  <2> SUFFICES ASSUME NEW x \in w, x \notin LinesIn(g), NEW j \in 1..n PROVE g[j] < x
    OBVIOUS
  <2>1. k < x /\ x \notin LinesIn(f)
    BY <1>6 DEF IsFirst
  <2> QED
    BY <1>2, <1>3, <2>1 DEF Fits
<1> QED
  <2>1. Fits(acc, Append(q, l), w, o, g)
    BY <1>1, <1>5, <1>7, <1>8, <1>9 DEF Fits
  <2>2. w \ LinesIn(g) = (w \ LinesIn(f)) \ {k}
    BY <1>6
  <2> QED
    BY <2>1, <2>2 DEF MoreFits

\* No line matches no position; and more mail with the CMS changes no match.
LEMMA FitsNothing ==
  ASSUME NEW acc, NEW w \in SUBSET Nat, NEW o
  PROVE  Fits(acc, <<>>, w, o, <<>>) /\ LinesIn(<<>>) = {}
BY DEF Fits, LinesIn

LEMMA FitsMore ==
  ASSUME NEW acc, NEW acc2, acc \subseteq acc2, NEW q, NEW w, NEW o, NEW f,
         Fits(acc, q, w, o, f)
  PROVE  Fits(acc2, q, w, o, f)
BY DEF Fits, MailFor

-----------------------------------------------------------------------------
(* The inductive invariant behind KeepsPromise                             *)

\* Texts the CMS has.
Had == {a.text : a \in accepted}

\* The copy of a process at work has all that was saved, and nothing in it
\* came back that the CMS does not have; until it downloads, it has no other.
Copy(p) == Active(p) =>
  /\ Sound(mem[p]) /\ Keeps(disk, mem[p]) /\ Came(mem[p]) \subseteq Had
  /\ pc[p] \in Early \ {"listen"} => Pairs(mem[p]) \subseteq Pairs(disk)

\* What is on its way to the CMS is saved mail, even if its sender is gone.
UpMail(p) ==
  \A l \in LinesIn(up[p]) : l.t = "mail" => [id |-> l.mid, text |-> l.text] \in Pairs(disk)

\* The CMS offers once, and last; then it sends what the station still wants.
Offered(p) ==
  /\ cms[p] # "deliver"
  /\ \A l \in LinesIn(down[p]) : l.t # "mail"
  /\ \A j \in 1..Len(down[p]) : down[p][j].t = "inbound" =>
       j = Len(down[p]) /\ cms[p] \in {"asked", "closed"}

Downloads(p) ==
  /\ cms[p] \in {"asked", "deliver", "await", "closed"}
  /\ cms[p] = "asked" =>
       down[p] = <<>> /\ \A l \in LinesIn(up[p]) : l.t = "FS" => l.verdict.yes = want[p]
  /\ \E f : /\ Fits(accepted, down[p], want[p], offer[p], f)
            /\ cms[p] = "deliver" => give[p] = want[p] \ LinesIn(f)

DownMail(p) ==
  /\ pc[p] \in Early => Offered(p)
  /\ pc[p] = "download" => Downloads(p)

MailInv ==
  /\ IInv /\ ExclusiveInv
  /\ Sound(disk) /\ accepted \subseteq Pairs(disk) /\ Came(disk) \subseteq Had
  /\ \A p \in Proc : Copy(p) /\ UpMail(p) /\ DownMail(p)

-----------------------------------------------------------------------------
(* The lines from the CMS                                                  *)

\* Only a transfer adds to what the CMS has.
LEMMA AcceptedKinds ==
  ASSUME NEW p \in Proc, Step(p)
  PROVE  CmsReceive(p) \/ accepted' = accepted
BY DEF Step, Proceed, CmsProceed, remote, AccountSetup, Compose, SyncFake, LocalCommand,
   SyncStart, SaveBegin, SaveEnd, Crash, PassTurn, OfferOutbox, ReadAnswers, SendNext,
   OutboundDone, AnswerInbound, Download, InboundDone, NothingInbound, CmsQuit, Fail, HungUp,
   Unsendable, GiveUp, CmsPassed, CmsAnswer, CmsOffer, CmsOffersNothing, CmsAnswered, CmsSend,
   CmsSent, CmsEnd, CmsTidy, CmsDrop, CmsClose

\* The CMS never loses mail, as before, now with the texts.
LEMMA AcceptedGrows ==
  ASSUME NEW p \in Proc, Step(p)
  PROVE  accepted \subseteq accepted' /\ Had \subseteq Had'
BY AcceptedKinds DEF CmsReceive, Had

\* A step of another process changes nothing here.
LEMMA DownMailOthers ==
  ASSUME NEW q \in Proc, DownMail(q), Same(q), accepted \subseteq accepted'
  PROVE  DownMail(q)'
<1>1. pc[q] \in Early => Offered(q)'
  BY DEF DownMail, Offered, Same
<1>2. ASSUME Downloads(q) PROVE Downloads(q)'
  <2>1. PICK f : /\ Fits(accepted, down[q], want[q], offer[q], f)
                 /\ cms[q] = "deliver" => give[q] = want[q] \ LinesIn(f)
    BY <1>2 DEF Downloads
  <2>2. Fits(accepted', down'[q], want'[q], offer'[q], f)
    BY <2>1, FitsMore DEF Same
  <2> QED
    BY <1>2, <2>1, <2>2 DEF Downloads, Same
<1> QED
  BY <1>1, <1>2 DEF DownMail, Same

\* The station's steps before it answers the offer.
LEMMA OfferedStep ==
  ASSUME TypeOK, NEW p \in Proc, DownMail(p),
         \/ PassTurn(p) \/ OfferOutbox(p) \/ ReadAnswers(p) \/ SendNext(p) \/ OutboundDone(p)
         \/ SyncStart(p)
  PROVE  DownMail(p)'
<1> USE DEF Goto, local, remote, wire, counters, Early
<1>1. CASE PassTurn(p) \/ OfferOutbox(p) \/ SendNext(p) \/ OutboundDone(p)
  <2>1. down' = down /\ cms' = cms /\ pc[p] \in Early /\ pc'[p] \in Early
    BY <1>1 DEF PassTurn, OfferOutbox, SendNext, OutboundDone, TypeOK
  <2> QED
    BY <2>1 DEF DownMail, Offered
<1>2. CASE ReadAnswers(p)
  <2>1. /\ down[p] # <<>> /\ down'[p] = Tail(down[p]) /\ cms' = cms /\ down[p] \in Seq(DownLine)
        /\ pc[p] \in Early /\ pc'[p] \in Early
    BY <1>2 DEF ReadAnswers, Hear, TypeOK
  <2>2. /\ Len(down'[p]) = Len(down[p]) - 1 /\ Len(down[p]) \in Nat
        /\ \A j \in 1..Len(down'[p]) : down'[p][j] = down[p][j + 1] /\ j + 1 \in 1..Len(down[p])
        /\ LinesIn(down'[p]) \subseteq LinesIn(down[p])
    BY <2>1, HeadTailProperties, TailLines
  <2>3. Offered(p)
    BY <2>1 DEF DownMail
  <2>4. Offered(p)'
    BY <2>1, <2>2, <2>3 DEF Offered
  <2> QED
    BY <2>1, <2>4 DEF DownMail
<1>3. CASE SyncStart(p)
  <2>1. down'[p] = <<>> /\ cms'[p] = "turn" /\ pc'[p] \in Early
    BY <1>3 DEF SyncStart, TypeOK
  <2> QED
    BY <2>1, EmptyLines DEF DownMail, Offered
<1> QED
  BY <1>1, <1>2, <1>3

\* The answer to the offer: nothing is on its way yet.
LEMMA AnswerMatches ==
  ASSUME TypeInv, NEW p \in Proc, DownMail(p), AnswerInbound(p)
  PROVE  DownMail(p)'
<1> USE DEF Goto, local, remote, wire, counters, Early
<1> DEFINE mids == Head(down[p]).mids
           said == InboundAnswers(mem[p], mids)
           line == [t |-> "FS", verdict |-> said]
<1>1. /\ Head(down[p]) \in DownLine /\ Head(down[p]) \in LinesIn(down[p])
      /\ Head(down[p]).t = "inbound"
  BY Heard DEF AnswerInbound
<1>2. mids \in Seq(Ids)
  BY <1>1 DEF DownLine
<1>3. said \in Verdict
  BY <1>2, InboundAnswersType
<1>4. line \in UpLine /\ line.verdict = said
  BY <1>3 DEF UpLine
<1>5. Say(p, line)
  BY DEF AnswerInbound
<1>6. /\ want'[p] = said.yes /\ pc'[p] = "download" /\ cms' = cms /\ pc[p] = "listen"
      /\ down[p] # <<>> /\ down'[p] = Tail(down[p]) /\ down[p] \in Seq(DownLine)
  BY DEF AnswerInbound, Hear, TypeInv, TypeOK
<1> HIDE DEF line, said, mids
<1>7. LinesIn(up'[p]) = LinesIn(up[p]) \cup {line}
  BY <1>4, <1>5, Said
<1>8. Offered(p)
  BY <1>6 DEF DownMail
<1>9. cms[p] \in {"asked", "closed"} /\ down'[p] = <<>>
  <2>1. /\ Len(down[p]) \in Nat \ {0} /\ Head(down[p]) = down[p][1]
        /\ Len(Tail(down[p])) = Len(down[p]) - 1 /\ Tail(down[p]) \in Seq(DownLine)
    BY <1>6, HeadTailProperties
  <2>2. 1 \in 1..Len(down[p]) /\ down[p][1].t = "inbound"
    BY <1>1, <2>1
  <2>3. 1 = Len(down[p]) /\ cms[p] \in {"asked", "closed"}
    BY <1>8, <2>2 DEF Offered
  <2>4. Len(Tail(down[p])) = 0 /\ Tail(down[p]) \in Seq(DownLine)
    BY <2>1, <2>3
  <2>5. Tail(down[p]) = <<>>
    BY <2>4, EmptySeq
  <2> QED
    BY <1>6, <2>3, <2>5
<1>10. \A l \in LinesIn(up[p]) : l.t # "FS"
  BY <1>6 DEF TypeInv, Positions
<1>11. \A l \in LinesIn(up'[p]) : l.t = "FS" => l.verdict.yes = want'[p]
  BY <1>4, <1>6, <1>7, <1>10
<1>12. Fits(accepted', down'[p], want'[p], offer'[p], <<>>)
  <2>1. want'[p] \in SUBSET Nat
    BY <1>3, <1>6 DEF Verdict
  <2> QED
    BY <1>9, <2>1, FitsNothing
<1>13. cms'[p] \in {"asked", "closed"}
  BY <1>6, <1>9
<1>14. Downloads(p)'
  BY <1>9, <1>11, <1>12, <1>13 DEF Downloads
<1> QED
  BY <1>6, <1>14 DEF DownMail

\* A download takes the line that belongs to it.
LEMMA DownloadMatches ==
  ASSUME TypeInv, NEW p \in Proc, DownMail(p), Download(p)
  PROVE  /\ DownMail(p)'
         /\ \E k \in want[p] :
              /\ MailFor(accepted, Head(down[p]), offer[p][k])
              /\ mem' = [mem EXCEPT ![p] = UpsertReceived(@, offer[p][k], Head(down[p]).text)]
<1>1. /\ pc[p] = "download" /\ UNCHANGED <<pc, offer, up, cms, give, accepted>>
      /\ down[p] # <<>> /\ down'[p] = Tail(down[p]) /\ down[p] \in Seq(DownLine)
      /\ want[p] \in SUBSET Nat
  BY DEF Download, Hear, remote, TypeInv, TypeOK
<1>2. PICK k \in want[p] :
         /\ IsFirst(k, want[p])
         /\ mem' = [mem EXCEPT ![p] = UpsertReceived(@, offer[p][k], Head(down[p]).text)]
         /\ want' = [want EXCEPT ![p] = @ \ {k}]
  BY DEF Download
<1>3. want'[p] = want[p] \ {k}
  BY <1>2 DEF TypeInv, TypeOK
<1>4. Downloads(p)
  BY <1>1 DEF DownMail
<1>5. PICK f : /\ Fits(accepted, down[p], want[p], offer[p], f)
               /\ cms[p] = "deliver" => give[p] = want[p] \ LinesIn(f)
  BY <1>4 DEF Downloads
<1>6. /\ MailFor(accepted, Head(down[p]), offer[p][k])
      /\ RestFits(accepted, down[p], want[p], offer[p], f, k)
  <2>1. Fits(accepted, down[p], want[p], offer[p], f) /\ IsFirst(k, want[p]) /\ k \in want[p]
    BY <1>2, <1>5
  <2>2. down[p] \in Seq(DownLine) /\ down[p] # <<>> /\ want[p] \in SUBSET Nat
    BY <1>1
  <2> QED
    BY <2>1, <2>2, FitsTail
<1>7. PICK g : /\ Fits(accepted, Tail(down[p]), want[p] \ {k}, offer[p], g)
               /\ (want[p] \ {k}) \ LinesIn(g) = want[p] \ LinesIn(f)
  BY <1>6 DEF RestFits
<1>8. Fits(accepted', down'[p], want'[p], offer'[p], g)
  BY <1>1, <1>3, <1>7
<1>9. cms'[p] = "deliver" => give'[p] = want'[p] \ LinesIn(g)
  BY <1>1, <1>3, <1>5, <1>7
<1>10. cms[p] \in {"deliver", "await", "closed"}
  BY <1>1, <1>4 DEF Downloads
<1>11. Downloads(p)'
  BY <1>1, <1>8, <1>9, <1>10 DEF Downloads
<1>12. DownMail(p)'
  BY <1>1, <1>11 DEF DownMail, Early
<1> QED
  BY <1>2, <1>6, <1>12

\* What the CMS says, as the sequence it leaves behind.
LEMMA CmsSaidSeq ==
  ASSUME TypeOK, NEW p \in Proc, NEW l, CmsSays(p, l)
  PROVE  /\ down'[p] = Append(down[p], l) /\ Len(down[p]) \in Nat
         /\ Len(down'[p]) = Len(down[p]) + 1
         /\ \A j \in 1..Len(down[p]) : down'[p][j] = down[p][j]
         /\ down'[p][Len(down[p]) + 1] = l
         /\ LinesIn(down'[p]) = LinesIn(down[p]) \cup {l}
<1>1. down'[p] = Append(down[p], l) /\ down[p] \in Seq(DownLine)
  BY DEF CmsSays, TypeOK
<1>2. down[p] \in Seq(DownLine \cup {l})
  BY <1>1, SeqMonotonic
<1>3. LinesIn(Append(down[p], l)) = LinesIn(down[p]) \cup {l}
  BY <1>2, AppendLines
<1> QED
  BY <1>1, <1>2, <1>3

\* A line that is neither mail nor an offer changes nothing before the answer.
LEMMA OfferedSaid ==
  ASSUME TypeOK, NEW p \in Proc, Offered(p), cms[p] \in {"turn", "recv", "own"},
         NEW l, CmsSays(p, l), l.t \in {"FS", "FF", "FQ"}, cms'[p] # "deliver"
  PROVE  Offered(p)'
<1>1. \A j \in 1..Len(down[p]) : down[p][j].t # "inbound"
  BY DEF Offered
<1>2. /\ Len(down[p]) \in Nat /\ Len(down'[p]) = Len(down[p]) + 1
      /\ \A j \in 1..Len(down[p]) : down'[p][j] = down[p][j]
      /\ down'[p][Len(down[p]) + 1] = l
      /\ LinesIn(down'[p]) = LinesIn(down[p]) \cup {l}
  BY CmsSaidSeq
<1>3. \A j \in 1..Len(down'[p]) : down'[p][j].t # "inbound"
  BY <1>1, <1>2, SMTT(30)
<1>4. \A x \in LinesIn(down'[p]) : x.t # "mail"
  BY <1>2 DEF Offered
<1> QED
  BY <1>3, <1>4 DEF Offered

\* The text the CMS sends under a MID is that of its mail.
LEMMA TextFits ==
  ASSUME TypeOK, NEW mid \in ForeignMids \cup AcceptedIds, NEW l,
         l.t = "mail", l.text = TextOf(mid)
  PROVE  MailFor(accepted, l, mid)
<1>1. CASE mid \in ForeignMids
  BY <1>1 DEF MailFor, TextOf
<1>2. CASE mid \notin ForeignMids
  <2>1. PICK b \in accepted : b.id = mid
    BY <1>2 DEF AcceptedIds
  <2> DEFINE a == CHOOSE x \in accepted : x.id = mid
  <2>2. a \in accepted /\ a.id = mid
    BY <2>1
  <2>3. l.text = a.text
    BY <1>2 DEF TextOf
  <2> HIDE DEF a
  <2>4. a = [id |-> mid, text |-> l.text]
    BY <2>2, <2>3 DEF TypeOK
  <2> QED
    BY <1>2, <2>2, <2>4 DEF MailFor
<1> QED
  BY <1>1, <1>2

\* The CMS's steps.
LEMMA DownMailCms ==
  ASSUME IInv, NEW p \in Proc, DownMail(p), CmsProceed(p) \/ CmsDrop(p),
         accepted \subseteq accepted'
  PROVE  DownMail(p)'
<1> USE DEF CmsGoto, remote, wire, counters
<1>0. /\ UNCHANGED <<pc, want, offer>> /\ TypeOK /\ TypeInv /\ Positions(p)
  BY DEF IInv, TypeInv, local, CmsProceed, CmsPassed, CmsAnswer, CmsReceive, CmsOffer,
     CmsOffersNothing, CmsAnswered, CmsSend, CmsSent, CmsEnd, CmsTidy, CmsDrop, CmsClose
<1>1. ASSUME Downloads(p), down'[p] = down[p], give'[p] = give[p],
             cms'[p] \in {"await", "closed"}
      PROVE  Downloads(p)'
  <2>1. PICK f : Fits(accepted, down[p], want[p], offer[p], f)
    BY <1>1 DEF Downloads
  <2>2. Fits(accepted', down'[p], want'[p], offer'[p], f)
    BY <1>0, <1>1, <2>1, FitsMore
  <2> QED
    BY <1>1, <2>2 DEF Downloads
<1>2. CASE CmsPassed(p) \/ CmsReceive(p)
  <2>1. down' = down /\ cms[p] \in {"turn", "recv"} /\ cms'[p] \in {"own", "recv"}
    BY <1>0, <1>2 DEF CmsPassed, CmsReceive, TypeOK
  <2>2. pc[p] # "download"
    BY <2>1 DEF DownMail, Downloads
  <2>3. Offered(p) => Offered(p)'
    BY <2>1 DEF Offered
  <2> QED
    BY <1>0, <2>2, <2>3 DEF DownMail
<1>3. CASE CmsAnswer(p)
  <2>1. PICK v : CmsSays(p, [t |-> "FS", verdict |-> v])
    BY <1>3 DEF CmsAnswer
  <2>2. cms[p] = "turn" /\ cms'[p] # "deliver"
    BY <1>0, <1>3 DEF CmsAnswer, TypeOK
  <2>3. pc[p] # "download"
    BY <2>2 DEF DownMail, Downloads
  <2>4. Offered(p) => Offered(p)'
    BY <1>0, <2>1, <2>2, OfferedSaid
  <2> QED
    BY <1>0, <2>3, <2>4 DEF DownMail
<1>4. CASE CmsOffersNothing(p)
  <2>1. PICK l : CmsSays(p, l) /\ l.t \in {"FF", "FQ"}
    BY <1>4 DEF CmsOffersNothing
  <2>2. cms[p] = "own" /\ cms'[p] # "deliver"
    BY <1>0, <1>4 DEF CmsOffersNothing, TypeOK
  <2>3. pc[p] # "download"
    BY <2>2 DEF DownMail, Downloads
  <2>4. Offered(p) => Offered(p)'
    BY <1>0, <2>1, <2>2, OfferedSaid
  <2> QED
    BY <1>0, <2>3, <2>4 DEF DownMail
<1>5. CASE CmsOffer(p)
  <2>1. PICK l : CmsSays(p, l) /\ l.t = "inbound"
    BY <1>5 DEF CmsOffer
  <2>2. cms[p] = "own" /\ cms'[p] = "asked"
    BY <1>0, <1>5 DEF CmsOffer, TypeOK
  <2>3. pc[p] # "download"
    BY <2>2 DEF DownMail, Downloads
  <2>4. ASSUME Offered(p) PROVE Offered(p)'
    <3>1. \A j \in 1..Len(down[p]) : down[p][j].t # "inbound"
      BY <2>2, <2>4 DEF Offered
    <3>2. /\ Len(down[p]) \in Nat /\ Len(down'[p]) = Len(down[p]) + 1
          /\ \A j \in 1..Len(down[p]) : down'[p][j] = down[p][j]
          /\ LinesIn(down'[p]) = LinesIn(down[p]) \cup {l}
      BY <1>0, <2>1, CmsSaidSeq
    <3>3. \A j \in 1..Len(down'[p]) : down'[p][j].t = "inbound" => j = Len(down'[p])
      BY <3>1, <3>2
    <3>4. \A x \in LinesIn(down'[p]) : x.t # "mail"
      BY <2>1, <2>4, <3>2 DEF Offered
    <3> QED
      BY <2>2, <3>3, <3>4 DEF Offered
  <2> QED
    BY <1>0, <2>3, <2>4 DEF DownMail
<1>6. CASE CmsAnswered(p)
  <2>1. /\ Head(up[p]) \in LinesIn(up[p]) /\ Head(up[p]).t = "FS"
    BY <1>0, <1>6, CmsHeard DEF CmsAnswered
  <2>2. /\ cms[p] = "asked" /\ cms'[p] = "deliver" /\ down' = down
        /\ give'[p] = Head(up[p]).verdict.yes
    BY <1>0, <1>6 DEF CmsAnswered, TypeOK
  <2>3. pc[p] \notin Early
    BY <1>0, <2>1 DEF Positions, Early
  <2>4. ASSUME Downloads(p) PROVE Downloads(p)'
    <3>1. down[p] = <<>> /\ Head(up[p]).verdict.yes = want[p]
      BY <2>1, <2>2, <2>4 DEF Downloads
    <3>2. want[p] \in SUBSET Nat
      BY <1>0 DEF TypeOK
    <3>3. Fits(accepted', down'[p], want'[p], offer'[p], <<>>) /\ LinesIn(<<>>) = {}
      BY <1>0, <2>2, <3>1, <3>2, FitsNothing
    <3>4. give'[p] = want'[p] \ LinesIn(<<>>)
      BY <1>0, <2>2, <3>1, <3>3
    <3> QED
      BY <2>2, <3>3, <3>4 DEF Downloads
  <2> QED
    BY <1>0, <2>3, <2>4 DEF DownMail
<1>7. CASE CmsSend(p)
  <2>1. PICK k \in give[p] :
          /\ IsFirst(k, give[p])
          /\ CmsSays(p, [t |-> "mail", mid |-> offer[p][k], text |-> TextOf(offer[p][k])])
          /\ give' = [give EXCEPT ![p] = @ \ {k}]
    BY <1>7 DEF CmsSend
  <2> DEFINE l == [t |-> "mail", mid |-> offer[p][k], text |-> TextOf(offer[p][k])]
  <2>2. cms[p] = "deliver" /\ cms' = cms /\ give'[p] = give[p] \ {k} /\ CmsSays(p, l)
        /\ accepted' = accepted
    BY <1>0, <1>7, <2>1 DEF CmsSend, TypeOK
  <2>3. pc[p] \notin Early
    BY <2>2 DEF DownMail, Offered
  <2>4. offer[p][k] \in ForeignMids \cup AcceptedIds /\ offer[p][k] \in Ids
    <3>1. k \in DOMAIN offer[p] /\ LinesIn(offer[p]) \subseteq ForeignMids \cup AcceptedIds
      BY <1>0, <2>1 DEF Positions
    <3>2. offer[p][k] \in ForeignMids \cup AcceptedIds
      BY <3>1 DEF LinesIn
    <3>3. AcceptedIds \subseteq Ids /\ ForeignMids \subseteq Ids
      BY <1>0 DEF AcceptedIds, TypeOK, Ids
    <3> QED
      BY <3>2, <3>3
  <2>5. MailFor(accepted, l, offer[p][k])
    BY <1>0, <2>4, TextFits
  <2>6. down'[p] = Append(down[p], l)
    BY <1>0, <2>2, CmsSaidSeq
  <2> HIDE DEF l
  <2>7. ASSUME Downloads(p) PROVE Downloads(p)'
    <3>1. PICK f : /\ Fits(accepted, down[p], want[p], offer[p], f)
                   /\ cms[p] = "deliver" => give[p] = want[p] \ LinesIn(f)
      BY <2>7 DEF Downloads
    <3>2. give[p] = want[p] \ LinesIn(f)
      BY <2>2, <3>1
    <3>3. k \in want[p] \ LinesIn(f) /\ IsFirst(k, want[p] \ LinesIn(f))
      BY <2>1, <3>2
    <3>4. want[p] \in SUBSET Nat /\ down[p] \in Seq(DownLine)
      BY <1>0 DEF TypeOK
    <3>5. MoreFits(accepted, down[p], want[p], offer[p], f, k, l)
      BY <2>5, <3>1, <3>3, <3>4, FitsAppend
    <3>6. PICK g : /\ Fits(accepted, Append(down[p], l), want[p], offer[p], g)
                   /\ want[p] \ LinesIn(g) = (want[p] \ LinesIn(f)) \ {k}
      BY <3>5 DEF MoreFits
    <3>7. Fits(accepted', down'[p], want'[p], offer'[p], g)
      BY <1>0, <2>2, <2>6, <3>6
    <3>8. give'[p] = want'[p] \ LinesIn(g)
      BY <1>0, <2>2, <3>2, <3>6
    <3> QED
      BY <2>2, <3>7, <3>8 DEF Downloads
  <2> QED
    BY <1>0, <2>3, <2>7 DEF DownMail
<1>8. CASE CmsSent(p) \/ CmsEnd(p) \/ CmsTidy(p) \/ CmsDrop(p)
  <2>1. down' = down /\ give' = give
    BY <1>8 DEF CmsSent, CmsEnd, CmsTidy, CmsDrop, CmsClose
  <2>2. cms'[p] \in {"await", "closed"} /\ (cms'[p] = "closed" \/ cms[p] = "deliver")
    BY <1>0, <1>8 DEF CmsSent, CmsEnd, CmsTidy, CmsDrop, CmsClose, TypeOK
  <2>3. Offered(p) => Offered(p)'
    BY <2>1, <2>2 DEF Offered
  <2>4. Downloads(p) => Downloads(p)'
    BY <1>1, <2>1, <2>2
  <2> QED
    BY <1>0, <2>3, <2>4 DEF DownMail
<1> QED
  BY <1>2, <1>3, <1>4, <1>5, <1>6, <1>7, <1>8 DEF CmsProceed

\* Every step.
LEMMA DownMailStep ==
  ASSUME IInv, NEW p \in Proc, Step(p), \A q \in Proc : DownMail(q)
  PROVE  \A q \in Proc : DownMail(q)'
<1>1. TypeInv /\ TypeOK /\ accepted \subseteq accepted' /\ DownMail(p)
  BY AcceptedGrows DEF IInv, TypeInv
<1>2. \A q \in Proc \ {p} : DownMail(q)'
  BY <1>1, Frame, DownMailOthers
<1>3. DownMail(p)'
  <2>1. ASSUME pc'[p] \in {"idle", "truncate", "write"} PROVE DownMail(p)'
    BY <2>1 DEF DownMail, Early
  <2>2. CASE PassTurn(p) \/ OfferOutbox(p) \/ ReadAnswers(p) \/ SendNext(p) \/ OutboundDone(p)
             \/ SyncStart(p)
    BY <1>1, <2>2, OfferedStep
  <2>3. CASE AnswerInbound(p)
    BY <1>1, <2>3, AnswerMatches
  <2>4. CASE Download(p)
    BY <1>1, <2>4, DownloadMatches
  <2>5. CASE CmsProceed(p) \/ CmsDrop(p)
    BY <1>1, <2>5, DownMailCms
  <2>6. CASE AccountSetup(p) \/ Compose(p) \/ SyncFake(p) \/ SaveBegin(p) \/ SaveEnd(p) \/ Crash(p)
    <3>1. pc'[p] \in {"idle", "truncate", "write"}
      BY <1>1, <2>6 DEF AccountSetup, Compose, SyncFake, LocalCommand, SaveBegin, SaveEnd, Crash,
         Goto, TypeOK
    <3> QED
      BY <2>1, <3>1
  <2>7. CASE InboundDone(p) \/ NothingInbound(p) \/ CmsQuit(p) \/ Fail(p) \/ HungUp(p)
             \/ Unsendable(p)
    <3>1. pc'[p] \in {"idle", "truncate", "write"}
      BY <1>1, <2>7 DEF InboundDone, NothingInbound, CmsQuit, Fail, HungUp, Unsendable, GiveUp,
         Goto, TypeOK
    <3> QED
      BY <2>1, <3>1
  <2> QED
    BY <2>2, <2>3, <2>4, <2>5, <2>6, <2>7 DEF Step, Proceed
<1> QED
  BY <1>2, <1>3

-----------------------------------------------------------------------------
(* The lines to the CMS                                                    *)

\* What the station says enters the channel.
LEMMA SaidLine ==
  ASSUME TypeOK, NEW p \in Proc, NEW l, Say(p, l)
  PROVE  LinesIn(up'[p]) = LinesIn(up[p]) \cup {l}
<1>1. up'[p] = Append(up[p], l) /\ up[p] \in Seq(UpLine)
  BY DEF Say, TypeOK
<1>2. up[p] \in Seq(UpLine \cup {l})
  BY <1>1, SeqMonotonic
<1> QED
  BY <1>1, <1>2, AppendLines

\* A new line to the CMS is a message of the batch, or no mail.
LEMMA UpLines ==
  ASSUME TypeInv, NEW p \in Proc, Step(p), NEW l \in LinesIn(up'[p]), l \notin LinesIn(up[p])
  PROVE  \/ l.t # "mail"
         \/ /\ pc[p] = "sending"
            /\ \E i \in batch[p] : l.mid = mem[p].msgs[i].id /\ l.text = mem[p].msgs[i].text
<1> USE DEF wire, remote, local, counters
<1>0. TypeOK
  BY DEF TypeInv
<1>1. ASSUME up' = up PROVE FALSE
  BY <1>1
<1>2. CASE PassTurn(p) \/ InboundDone(p) \/ NothingInbound(p)
  <2>1. PICK x : Say(p, x) /\ x.t # "mail"
    BY <1>2 DEF PassTurn, InboundDone, NothingInbound
  <2> QED
    BY <1>0, <2>1, SaidLine
<1>3. CASE OfferOutbox(p)
  <2>1. PICK x : Say(p, x) /\ x.t # "mail"
    <3> DEFINE box == OutboundBatch(mem[p])
               mids == {[at |-> i, id |-> mem[p].msgs[i].id] : i \in box}
    <3>1. CASE box = {}
      BY <1>3, <3>1 DEF OfferOutbox
    <3>2. CASE box # {}
      <4>1. Say(p, [t |-> "outbound", mids |-> mids])
        BY <1>3, <3>2 DEF OfferOutbox
      <4> HIDE DEF mids
      <4> QED
        BY <4>1
    <3> QED
      BY <3>1, <3>2
  <2> QED
    BY <1>0, <2>1, SaidLine
<1>4. CASE AnswerInbound(p)
  <2>1. PICK v : Say(p, [t |-> "FS", verdict |-> v])
    BY <1>4 DEF AnswerInbound
  <2> QED
    BY <1>0, <2>1, SaidLine
<1>5. CASE SendNext(p)
  <2>1. PICK i \in batch[p] :
          \/ Say(p, [t |-> "mail", mid |-> mem[p].msgs[i].id, text |-> mem[p].msgs[i].text])
          \/ up' = up
    BY <1>5 DEF SendNext
  <2>2. l = [t |-> "mail", mid |-> mem[p].msgs[i].id, text |-> mem[p].msgs[i].text]
    BY <1>0, <1>1, <2>1, SaidLine
  <2> QED
    BY <1>5, <2>2 DEF SendNext
<1>6. CASE SyncStart(p)
  <2>1. up'[p] = <<>>
    BY <1>0, <1>6 DEF SyncStart, TypeOK
  <2> QED
    BY <2>1, EmptyLines
<1>7. CASE CmsPassed(p) \/ CmsAnswer(p) \/ CmsReceive(p) \/ CmsAnswered(p) \/ CmsEnd(p)
  <2>1. LinesIn(up'[p]) \subseteq LinesIn(up[p])
    BY <1>7, CmsHeard DEF CmsPassed, CmsAnswer, CmsReceive, CmsAnswered, CmsEnd
  <2> QED
    BY <2>1
<1>8. CASE AccountSetup(p) \/ Compose(p) \/ SyncFake(p) \/ SaveBegin(p) \/ SaveEnd(p) \/ Crash(p)
  BY <1>1, <1>8 DEF AccountSetup, Compose, SyncFake, LocalCommand, SaveBegin, SaveEnd, Crash
<1>9. CASE ReadAnswers(p) \/ OutboundDone(p) \/ Download(p) \/ CmsQuit(p) \/ Fail(p) \/ HungUp(p)
           \/ Unsendable(p)
  BY <1>1, <1>9 DEF ReadAnswers, OutboundDone, Download, CmsQuit, Fail, HungUp, Unsendable, GiveUp
<1>10. CASE CmsOffer(p) \/ CmsOffersNothing(p) \/ CmsSend(p) \/ CmsSent(p) \/ CmsTidy(p)
            \/ CmsDrop(p)
  BY <1>1, <1>10 DEF CmsOffer, CmsOffersNothing, CmsSend, CmsSent, CmsTidy, CmsDrop, CmsClose
<1> QED
  BY <1>2, <1>3, <1>4, <1>5, <1>6, <1>7, <1>8, <1>9, <1>10 DEF Step, Proceed, CmsProceed

-----------------------------------------------------------------------------
(* The copies                                                              *)

\* Keeping is transitive.
LEMMA KeepsFacts ==
  ASSUME NEW s, NEW t, NEW u
  PROVE  Keeps(s, s) /\ (Keeps(s, t) /\ Keeps(t, u) => Keeps(s, u))
BY DEF Keeps

\* A download brings mail the store does not have, or has as it came.
LEMMA DownloadSound ==
  ASSUME OneMailPerId, TypeOK, NEW s \in Store, Sound(s), accepted \subseteq Pairs(s),
         NEW mid, NEW l, MailFor(accepted, l, mid)
  PROVE  /\ SoundPair([id |-> StoredId(mid), text |-> l.text], s.seq)
         /\ \A a \in Pairs(s) : a.id = StoredId(mid) => a.text = l.text
         /\ l.text \in Nat => l.text \in Had
<1>1. CASE mid \in ForeignMids
  <2>1. l.text = mid /\ mid \in Foreign /\ mid \notin Nat
    BY <1>1, StoreAssumption DEF MailFor, Foreign
  <2>2. StoredId(mid) \notin Nat
    BY <1>1, StoreAssumption DEF StoredId, Range
  <2>3. SoundPair([id |-> StoredId(mid), text |-> l.text], s.seq)
    BY <2>1 DEF SoundPair
  <2>4. ASSUME NEW a \in Pairs(s), a.id = StoredId(mid)
        PROVE  a.text = mid
    <3>1. a.text \in Foreign /\ a.id = StoredId(a.text)
      BY <2>2, <2>4 DEF Sound, SoundPair
    <3> QED
      BY <2>1, <2>4, <3>1 DEF OneMailPerId
  <2> QED
    BY <2>1, <2>3, <2>4
<1>2. CASE mid \notin ForeignMids
  <2> DEFINE b == [id |-> mid, text |-> l.text]
  <2>1. b \in accepted /\ StoredId(mid) = mid
    BY <1>2 DEF MailFor, StoredId
  <2>2. SoundPair(b, s.seq)
    BY <2>1 DEF Sound
  <2>3. b.id = mid /\ b.text = l.text
    OBVIOUS
  <2>4. \A a \in Pairs(s) : a.id = mid => a = b
    BY <2>1, <2>3 DEF Sound, OnePerId
  <2>5. b.text \in Had
    BY <2>1 DEF Had
  <2> HIDE DEF b
  <2>6. \A a \in Pairs(s) : a.id = mid => a.text = l.text
    BY <2>3, <2>4
  <2>7. SoundPair([id |-> StoredId(mid), text |-> l.text], s.seq)
    BY <2>1, <2>2 DEF b
  <2> QED
    BY <2>1, <2>3, <2>5, <2>6, <2>7
<1> QED
  BY <1>1, <1>2

\* The copy of the process that takes a step.
LEMMA CopyStep ==
  ASSUME Exclusive, OneMailPerId, MailInv, NEW p \in Proc, Step(p)
  PROVE  Copy(p)'
<1> USE DEF Goto, local, remote, wire, counters
<1>0. /\ TypeInv /\ TypeOK /\ Positions(p) /\ Copy(p) /\ DownMail(p)
      /\ Had \subseteq Had' /\ ExclusiveInv /\ disk \in Store /\ mem[p] \in Store
      /\ Sound(disk) /\ Came(disk) \subseteq Had /\ accepted \subseteq Pairs(disk)
  BY AcceptedGrows DEF MailInv, IInv, TypeInv, TypeOK
<1>1. ASSUME NEW s, mem'[p] = s, disk' = disk, Sound(s), Keeps(disk, s), Came(s) \subseteq Had,
             pc'[p] \in Early \ {"listen"} => Pairs(s) \subseteq Pairs(disk)
      PROVE  Copy(p)'
  BY <1>0, <1>1 DEF Copy
<1>2. CASE AccountSetup(p) \/ Compose(p) \/ SyncFake(p)
  <2>1. Loaded = disk /\ disk' = disk
    BY <1>0, <1>2, StartKinds, Starts
  <2>2. ASSUME NEW s, LocalCommand(p, s)
        PROVE  mem'[p] = s /\ pc'[p] = "truncate"
    BY <1>0, <2>2 DEF LocalCommand, TypeOK
  <2>3. PICK s : LocalCommand(p, s) /\ Sound(s) /\ Keeps(disk, s) /\ Came(s) \subseteq Had
    <3>1. CASE AccountSetup(p)
      BY <1>0, <2>1, <3>1, SetAccountMail DEF AccountSetup
    <3>2. CASE Compose(p)
      <4>1. PICK fault \in Faults : LocalCommand(p, QueueMessage(disk, composed + 1, fault))
        BY <2>1, <3>2 DEF Compose
      <4>2. composed + 1 \in Nat
        BY <1>0 DEF TypeOK
      <4> QED
        BY <1>0, <4>1, <4>2, QueueMessageMail
    <3>3. CASE SyncFake(p)
      BY <1>0, <2>1, <3>3, FakeSyncMail DEF SyncFake
    <3> QED
      BY <1>2, <3>1, <3>2, <3>3
  <2> QED
    BY <1>1, <2>1, <2>2, <2>3 DEF Early
<1>3. CASE SyncStart(p)
  <2>1. Loaded = disk /\ disk' = disk
    BY <1>0, <1>3, StartKinds, Starts
  <2>2. mem'[p] = disk
    BY <1>0, <1>3, <2>1 DEF SyncStart, TypeOK
  <2> QED
    BY <1>0, <1>1, <2>1, <2>2, KeepsFacts
<1>4. CASE SaveEnd(p) \/ Crash(p) \/ Fail(p) \/ HungUp(p) \/ Unsendable(p)
  <2>1. pc'[p] = "idle"
    BY <1>0, <1>4 DEF SaveEnd, Crash, Fail, HungUp, Unsendable, GiveUp, TypeOK
  <2> QED
    BY <2>1 DEF Copy, Active
<1>5. ASSUME UNCHANGED <<disk, mem>>, Active(p),
             pc'[p] \in Early \ {"listen"} => pc[p] \in Early \ {"listen"}
      PROVE  Copy(p)'
  <2>1. /\ Sound(mem[p]) /\ Keeps(disk, mem[p]) /\ Came(mem[p]) \subseteq Had
        /\ pc[p] \in Early \ {"listen"} => Pairs(mem[p]) \subseteq Pairs(disk)
    BY <1>0, <1>5 DEF Copy
  <2> QED
    BY <1>1, <1>5, <2>1
<1>6. CASE SaveBegin(p) \/ PassTurn(p) \/ OfferOutbox(p) \/ ReadAnswers(p) \/ OutboundDone(p)
  BY <1>0, <1>5, <1>6 DEF SaveBegin, PassTurn, OfferOutbox, ReadAnswers, OutboundDone, TypeOK,
     Early, Active
<1>7. CASE AnswerInbound(p) \/ InboundDone(p) \/ NothingInbound(p) \/ CmsQuit(p)
  BY <1>0, <1>5, <1>7 DEF AnswerInbound, InboundDone, NothingInbound, CmsQuit, TypeOK,
     Early, Active
<1>8. CASE CmsProceed(p) \/ CmsDrop(p)
  <2>1. UNCHANGED <<disk, mem, pc>>
    BY <1>8 DEF CmsProceed, CmsPassed, CmsAnswer, CmsReceive, CmsOffer, CmsOffersNothing,
       CmsAnswered, CmsSend, CmsSent, CmsEnd, CmsTidy, CmsDrop, CmsClose
  <2>2. CASE Active(p)
    BY <1>5, <2>1, <2>2
  <2>3. CASE ~Active(p)
    BY <2>1, <2>3 DEF Copy, Active
  <2> QED
    BY <2>2, <2>3
<1>9. CASE SendNext(p)
  <2>1. PICK i \in batch[p] : mem' = [mem EXCEPT ![p] = Answered(@, i, answers[p])]
    BY <1>9 DEF SendNext
  <2>2. /\ mem'[p] = Answered(mem[p], i, answers[p]) /\ UNCHANGED <<disk, pc>>
        /\ pc[p] = "sending" /\ i \in DOMAIN mem[p].msgs
    BY <1>0, <1>9, <2>1 DEF SendNext, TypeOK, Positions
  <2>3. /\ Sound(mem[p]) /\ Keeps(disk, mem[p]) /\ Came(mem[p]) \subseteq Had
        /\ Pairs(mem[p]) \subseteq Pairs(disk)
    BY <1>0, <2>2 DEF Copy, Active, Early
  <2>4. /\ Sound(mem'[p]) /\ Keeps(mem[p], mem'[p]) /\ Pairs(mem'[p]) = Pairs(mem[p])
        /\ Came(mem'[p]) \subseteq Came(mem[p])
    BY <1>0, <2>2, <2>3, AnsweredMail
  <2> QED
    BY <1>1, <2>2, <2>3, <2>4, KeepsFacts
<1>10. CASE Download(p)
  <2>1. PICK k \in want[p] :
          /\ MailFor(accepted, Head(down[p]), offer[p][k])
          /\ mem' = [mem EXCEPT ![p] = UpsertReceived(@, offer[p][k], Head(down[p]).text)]
    BY <1>0, <1>10, DownloadMatches
  <2> DEFINE mid == offer[p][k]
             l == Head(down[p])
  <2>2. /\ mem'[p] = UpsertReceived(mem[p], mid, l.text) /\ UNCHANGED <<disk, pc>>
        /\ pc[p] = "download"
    BY <1>0, <1>10, <2>1 DEF Download, TypeOK
  <2>3. mid \in Ids /\ l.text \in Ids
    <3>1. k \in DOMAIN offer[p] /\ offer[p] \in Seq(Ids)
      BY <1>0 DEF Positions, TypeOK
    <3>2. l \in DownLine /\ l.t = "mail"
      BY <1>0, <1>10, Heard DEF Download
    <3> QED
      BY <3>1, <3>2 DEF DownLine
  <2>4. /\ Sound(mem[p]) /\ Keeps(disk, mem[p]) /\ Came(mem[p]) \subseteq Had
    BY <1>0, <2>2 DEF Copy, Active
  <2>5. accepted \subseteq Pairs(mem[p])
    BY <1>0, <2>4 DEF Keeps
  <2>6. /\ SoundPair([id |-> StoredId(mid), text |-> l.text], mem[p].seq)
        /\ \A a \in Pairs(mem[p]) : a.id = StoredId(mid) => a.text = l.text
        /\ l.text \in Nat => l.text \in Had
    BY <1>0, <2>1, <2>4, <2>5, DownloadSound
  <2> HIDE DEF mid, l
  <2>7. /\ Sound(mem'[p]) /\ Keeps(mem[p], mem'[p])
        /\ \A x \in Came(mem'[p]) : x \in Came(mem[p]) \/ (x = l.text /\ x \in Nat)
    BY <1>0, <2>2, <2>3, <2>4, <2>6, UpsertMail
  <2>8. Came(mem'[p]) \subseteq Had
    BY <2>4, <2>6, <2>7
  <2> QED
    BY <1>1, <2>2, <2>4, <2>7, <2>8, KeepsFacts DEF Early
<1> QED
  BY <1>2, <1>3, <1>4, <1>6, <1>7, <1>8, <1>9, <1>10 DEF Step, Proceed

-----------------------------------------------------------------------------
(* The saved store, and the invariant                                      *)

\* What the saved store has it keeps.
LEMMA DiskMail ==
  ASSUME MailInv, NEW p \in Proc, Step(p)
  PROVE  /\ Keeps(disk, disk') /\ Sound(disk') /\ Came(disk') \subseteq Had
         /\ disk' = disk \/ \A q \in Proc \ {p} : ~Active(q)
<1>1. TypeOK /\ ExclusiveInv /\ Copy(p) /\ Sound(disk) /\ Came(disk) \subseteq Had
  BY DEF MailInv, IInv, TypeInv
<1>2. CASE disk' = disk
  BY <1>1, <1>2, KeepsFacts
<1>3. CASE disk' = mem[p] /\ pc[p] = "write"
  <2>1. Active(p)
    BY <1>3 DEF Active
  <2>2. Sound(mem[p]) /\ Keeps(disk, mem[p]) /\ Came(mem[p]) \subseteq Had
    BY <1>1, <2>1 DEF Copy
  <2>3. \A q \in Proc \ {p} : ~Active(q)
    BY <1>1, <2>1 DEF ExclusiveInv
  <2> QED
    BY <1>3, <2>2, <2>3
<1> QED
  BY <1>1, <1>2, <1>3, DiskKinds

\* What reaches the CMS is saved mail.
LEMMA AcceptedSaved ==
  ASSUME MailInv, NEW p \in Proc, CmsReceive(p)
  PROVE  /\ accepted' = accepted \/
              \E a \in Pairs(disk) : accepted' = accepted \cup {a}
         /\ disk' = disk
<1>1. TypeInv /\ UpMail(p)
  BY DEF MailInv, IInv
<1>2. Head(up[p]) \in LinesIn(up[p]) /\ Head(up[p]).t = "mail"
  BY <1>1, CmsHeard DEF CmsReceive
<1>3. [id |-> Head(up[p]).mid, text |-> Head(up[p]).text] \in Pairs(disk)
  BY <1>1, <1>2 DEF UpMail
<1>4. \/ accepted' = accepted
      \/ accepted' = accepted \cup {[id |-> Head(up[p]).mid, text |-> Head(up[p]).text]}
  BY DEF CmsReceive
<1> QED
  BY <1>3, <1>4 DEF CmsReceive

\* Mail on its way to the CMS stays saved mail.
LEMMA UpMailStep ==
  ASSUME MailInv, NEW p \in Proc, Step(p)
  PROVE  UpMail(p)'
<1>1. TypeInv /\ UpMail(p) /\ Copy(p) /\ Positions(p)
  BY DEF MailInv, IInv, TypeInv
<1>2. Pairs(disk) \subseteq Pairs(disk')
  BY DiskMail DEF Keeps
<1>3. SUFFICES ASSUME NEW l \in LinesIn(up'[p]), l.t = "mail"
               PROVE  [id |-> l.mid, text |-> l.text] \in Pairs(disk)
  BY <1>2 DEF UpMail
<1>4. CASE l \in LinesIn(up[p])
  BY <1>1, <1>3, <1>4 DEF UpMail
<1>5. CASE l \notin LinesIn(up[p])
  <2>1. /\ pc[p] = "sending"
        /\ \E i \in batch[p] : l.mid = mem[p].msgs[i].id /\ l.text = mem[p].msgs[i].text
    BY <1>1, <1>3, <1>5, UpLines
  <2>2. PICK i \in batch[p] : l.mid = mem[p].msgs[i].id /\ l.text = mem[p].msgs[i].text
    BY <2>1
  <2>3. i \in DOMAIN mem[p].msgs
    BY <1>1, <2>1, <2>2 DEF Positions
  <2>4. PairOf(mem[p].msgs[i]) \in Pairs(mem[p])
    BY <2>3 DEF Pairs
  <2>5. Pairs(mem[p]) \subseteq Pairs(disk)
    BY <1>1, <2>1 DEF Copy, Active, Early
  <2> QED
    BY <2>2, <2>4, <2>5 DEF PairOf
<1> QED
  BY <1>4, <1>5

\* The initial states.
LEMMA MailInvInit == Init => MailInv
<1> SUFFICES ASSUME Init PROVE MailInv
  OBVIOUS
<1>1. /\ IInv /\ disk = NewStore /\ accepted = {} /\ file = "absent"
      /\ \A p \in Proc : pc[p] = "idle" /\ up[p] = <<>>
  BY IInvInit DEF Init
<1>2. ExclusiveInv
  BY <1>1 DEF ExclusiveInv, Active
<1>3. \A p \in Proc : Copy(p) /\ UpMail(p) /\ DownMail(p)
  BY <1>1, EmptyLines DEF Copy, Active, UpMail, DownMail, Early
<1> QED
  BY <1>1, <1>2, <1>3, NewStoreMail DEF MailInv

\* Every step keeps the invariant.
LEMMA MailInvNext ==
  ASSUME Exclusive, OneMailPerId, MailInv, [Next]_vars
  PROVE  MailInv'
<1>1. IInv'
  BY IInvNext DEF MailInv
<1>2. CASE UNCHANGED vars
  <2>1. UNCHANGED <<file, disk, mem, pc, offer, want, up, down, cms, give, accepted>>
    BY <1>2 DEF vars, local, remote, wire
  <2>2. ExclusiveInv'
    BY <2>1 DEF MailInv, ExclusiveInv, Active
  <2>3. \A p \in Proc : Copy(p)' /\ UpMail(p)' /\ DownMail(p)'
    <3> TAKE p \in Proc
    <3>1. Copy(p) /\ UpMail(p) /\ DownMail(p)
      BY DEF MailInv
    <3>2. Copy(p)' /\ UpMail(p)'
      BY <2>1, <3>1 DEF Copy, Active, UpMail, Had
    <3>3. DownMail(p)'
      BY <2>1, <3>1 DEF DownMail, Offered, Downloads
    <3> QED
      BY <3>2, <3>3
  <2> QED
    BY <1>1, <2>1, <2>2, <2>3 DEF MailInv, Had
<1>3. ASSUME NEW p \in Proc, Step(p) PROVE MailInv'
  <2>1. /\ IInv /\ TypeInv /\ TypeOK /\ ExclusiveInv /\ accepted \subseteq Pairs(disk)
        /\ Had \subseteq Had' /\ accepted \subseteq accepted'
    BY <1>3, AcceptedGrows DEF MailInv, IInv, TypeInv
  <2>2. ExclusiveInv'
    BY <1>3, <2>1, ExclusiveStep
  <2>3. /\ Pairs(disk) \subseteq Pairs(disk') /\ Sound(disk') /\ Came(disk') \subseteq Had
        /\ disk' = disk \/ \A q \in Proc \ {p} : ~Active(q)
    BY <1>3, DiskMail DEF Keeps
  <2>4. accepted' \subseteq Pairs(disk')
    BY <1>3, <2>1, <2>3, AcceptedKinds, AcceptedSaved
  <2>5. \A q \in Proc \ {p} : Same(q)
    BY <1>3, <2>1, Frame
  <2>6. \A q \in Proc : DownMail(q)'
    BY <1>3, <2>1, DownMailStep DEF MailInv
  <2>7. \A q \in Proc : UpMail(q)'
    <3> TAKE q \in Proc
    <3>1. CASE q = p
      BY <1>3, <3>1, UpMailStep
    <3>2. CASE q # p
      BY <2>3, <2>5, <3>2 DEF MailInv, UpMail, Same
    <3> QED
      BY <3>1, <3>2
  <2>8. \A q \in Proc : Copy(q)'
    <3> TAKE q \in Proc
    <3>1. CASE q = p
      BY <1>3, <3>1, CopyStep
    <3>2. CASE q # p
      <4>1. Same(q) /\ Copy(q) /\ (disk' = disk \/ ~Active(q))
        BY <2>3, <2>5, <3>2 DEF MailInv
      <4> QED
        BY <2>1, <4>1 DEF Copy, Active, Same
    <3> QED
      BY <3>1, <3>2
  <2>9. Came(disk') \subseteq Had'
    BY <2>1, <2>3
  <2> QED
    BY <1>1, <2>2, <2>3, <2>4, <2>6, <2>7, <2>8, <2>9 DEF MailInv
<1> QED
  BY <1>2, <1>3 DEF Next

-----------------------------------------------------------------------------
(* The refinement                                                          *)

\* What a process is about to save calls sent only what the CMS has: its id is
\* one the CMS accepted, and in one store an id stands for one text.
LEMMA KnownIsHad ==
  ASSUME MailInv, NEW p \in Proc, pc[p] \in AtSave
  PROVE  Known(mem[p]) \subseteq Had
<1>1. /\ Sound(mem[p]) /\ Keeps(disk, mem[p]) /\ Came(mem[p]) \subseteq Had
      /\ accepted \subseteq Pairs(disk) /\ mem[p] \in Store
      /\ SentIds(mem[p]) \subseteq AcceptedIds
  <2>1. Copy(p) /\ Active(p) /\ SessionInv(p) /\ mem[p] \in Store
    BY DEF MailInv, IInv, TypeInv, TypeOK, Active, AtSave
  <2> QED
    BY <2>1 DEF Copy, SessionInv, MailInv
<1> SUFFICES ASSUME NEW i \in DOMAIN mem[p].msgs, OwnOverTelnet(mem[p].msgs[i])
             PROVE  mem[p].msgs[i].text \in Had
  BY DEF Known
<1> DEFINE m == mem[p].msgs[i]
<1>2. m \in Message /\ PairOf(m) \in Pairs(mem[p]) /\ PairOf(m).text = m.text /\ PairOf(m).id = m.id
  BY <1>1, MessageTypes DEF Pairs, PairOf
<1>3. CASE m.folder = "Inbox"
  BY <1>1, <1>3 DEF Came, In
<1>4. CASE m.folder = "Outbox"
  BY <1>1, <1>4 DEF Sound, In, OwnOverTelnet
<1>5. CASE m.folder = "Sent"
  <2>1. m.id \in SentIds(mem[p])
    BY <1>5 DEF SentIds, SentOver, In, OwnOverTelnet
  <2>2. PICK a \in accepted : a.id = m.id
    BY <1>1, <2>1 DEF AcceptedIds
  <2>3. a \in Pairs(mem[p])
    BY <1>1, <2>2 DEF Keeps
  <2>4. a = PairOf(m)
    BY <1>1, <1>2, <2>2, <2>3 DEF Sound, OnePerId
  <2> QED
    BY <1>2, <2>2, <2>4 DEF Had
<1> QED
  BY <1>2, <1>3, <1>4, <1>5 DEF Message, Folders

\* The variables of MailPromise, as the proofs call them.
LEMMA PromiseVars == KnownSent = Known(disk) /\ {a.text : a \in accepted} = Had
BY DEF KnownSent, Known, OwnOverTelnet, Had

\* The process that writes has all that was saved, so nothing is lost while there is one;
\* and when the file can be neither read nor written any more, everything is.
HeldAll ==
  /\ file \in {"absent", "whole"} \/ (\E q \in Proc : pc[q] = "write") => Held = TextsOf(disk)
  /\ file \notin {"absent", "whole"} /\ (\A q \in Proc : pc[q] # "write") => Held = {}

\* It follows from what MailInv says of the copies.
LEMMA WhatIsHeld == MailInv => HeldAll
<1> SUFFICES ASSUME MailInv PROVE HeldAll
  OBVIOUS
<1>1. ASSUME NEW q \in Proc, pc[q] = "write"
      PROVE  TextsOf(disk) \subseteq TextsOf(mem[q])
  <2>1. Copy(q) /\ Active(q) /\ mem[q] \in Store /\ disk \in Store
    BY <1>1 DEF MailInv, IInv, TypeInv, TypeOK, Active
  <2>2. Pairs(disk) \subseteq Pairs(mem[q])
    BY <2>1 DEF Copy, Keeps
  <2> QED
    BY <2>1, <2>2, PairsFacts
<1>2. ASSUME NEW q \in Proc, pc[q] = "write" PROVE Held = TextsOf(disk)
  BY <1>1, <1>2 DEF Held
<1>3. ASSUME \A q \in Proc : pc[q] # "write", file \notin {"absent", "whole"} PROVE Held = {}
  BY <1>3 DEF Held
<1> QED
  BY <1>2, <1>3 DEF Held, HeldAll

\* The same after a step.
LEMMA WhatIsHeldNext == MailInv' => HeldAll'
BY WhatIsHeld, PTL

\* Marks of sent mail are on saved texts.
LEMMA KnownIsSaved == KnownSent \subseteq TextsOf(disk)
BY DEF KnownSent, TextsOf

\* The variables of MailPromise.
Promised == <<Held, TextsOf(disk) \ Held, {a.text : a \in accepted}, KnownSent \cap Held>>

\* Nothing is kept, lost, had or sent to begin with.
LEMMA PromiseInit == Init => Promise!Init
<1> SUFFICES ASSUME Init PROVE Promise!Init
  OBVIOUS
<1>1. TextsOf(disk) = {} /\ Had = {}
  BY NewStoreMail DEF Init, NewStore, TextsOf, Had
<1>2. Held \subseteq TextsOf(disk)
  BY DEF Held
<1> QED
  BY <1>1, <1>2 DEF Promise!Init, Had

\* A save that comes to its end.
LEMMA PromiseSaves ==
  ASSUME MailInv, MailInv', NEW p \in Proc, SaveEnd(p), pc[p] = "write", disk' = mem[p],
         file' = "whole"
  PROVE  Promise!Save
<1>0. TypeOK /\ ExclusiveInv /\ disk \in Store /\ mem[p] \in Store
  BY DEF MailInv, IInv, TypeInv, TypeOK
<1>1. Had' = Had
  BY DEF SaveEnd, remote, Had
<1>2. TextsOf(disk) \subseteq TextsOf(mem[p]) /\ Known(disk) \subseteq Known(mem[p])
  <2>1. Copy(p) /\ Active(p)
    BY DEF MailInv, Active
  <2>2. Pairs(disk) \subseteq Pairs(mem[p])
    BY <2>1 DEF Copy, Keeps
  <2> QED
    BY <1>0, <2>1, <2>2, PairsFacts DEF Copy, Keeps
<1>3. TextsOf(mem[p]) \subseteq Ids
  BY <1>0, MessageTypes DEF TextsOf
<1>4. Known(mem[p]) \subseteq TextsOf(mem[p])
  BY DEF Known, TextsOf
<1>5. Known(mem[p]) \subseteq Had
  BY KnownIsHad DEF AtSave
<1>6. KnownSent' = Known(mem[p])
  BY DEF KnownSent, Known, OwnOverTelnet
<1>7. Held = TextsOf(disk)
  BY WhatIsHeld DEF HeldAll
<1>8. Held' = TextsOf(mem[p]) /\ TextsOf(disk)' = TextsOf(mem[p])
  BY DEF Held
<1>9. Held \subseteq Held' /\ Held' \subseteq Ids
  BY <1>2, <1>3, <1>7, <1>8
<1>10. /\ KnownSent \cap Held \subseteq (KnownSent \cap Held)'
       /\ (KnownSent \cap Held)' \subseteq Held' \cap {a.text : a \in accepted}'
  BY <1>1, <1>2, <1>4, <1>5, <1>6, <1>7, <1>8, PromiseVars DEF Had
<1> QED
  BY <1>1, <1>7, <1>8, <1>9, <1>10 DEF Promise!Save, Had

\* A step that leaves the saved store and what the CMS has: killed in the middle of the
\* write, a process loses everything, and no other step loses anything.
LEMMA PromiseLoses ==
  ASSUME MailInv, MailInv', NEW p \in Proc, Step(p), disk' = disk, accepted' = accepted
  PROVE  Promise!LoseAll \/ UNCHANGED Promised
<1>0. TypeOK /\ ExclusiveInv
  BY DEF MailInv, IInv, TypeInv
<1>1. TextsOf(disk)' = TextsOf(disk) /\ KnownSent' = KnownSent
  BY DEF KnownSent
<1>2. CASE Held' = Held
  BY <1>1, <1>2 DEF Promised
<1>3. CASE Crash(p) /\ pc[p] = "write"
  <2>1. Crashes /\ file' = file /\ file = "empty"
    BY <1>0, <1>3 DEF Crash, ExclusiveInv, Active
  <2>2. \A q \in Proc : pc'[q] # "write"
    BY <1>0, <1>3 DEF Crash, ExclusiveInv, Active, Goto, TypeOK
  <2>3. Held = TextsOf(disk)
    BY <1>3, WhatIsHeld DEF HeldAll
  <2>4. Held' = {}
    BY <2>1, <2>2 DEF Held
  <2>5. CASE Held = {}
    BY <1>2, <2>4, <2>5
  <2>6. CASE Held # {}
    BY <1>1, <2>1, <2>3, <2>4, <2>6 DEF Promise!LoseAll
  <2> QED
    BY <2>5, <2>6
<1>4. CASE SaveBegin(p) \/ SaveEnd(p)
  <2>1. Held = TextsOf(disk)
    <3>1. file \in {"absent", "whole"} \/ pc[p] = "write"
      BY <1>0, <1>4 DEF SaveBegin, SaveEnd, ExclusiveInv, Active
    <3> QED
      BY <3>1, WhatIsHeld DEF HeldAll
  <2>2. file' \in {"absent", "whole"} \/ pc'[p] = "write"
    BY <1>0, <1>4 DEF SaveBegin, SaveEnd, ExclusiveInv, Active, Goto, TypeOK
  <2>3. Held' = TextsOf(disk)'
    <3>1. (file \in {"absent", "whole"} \/ (\E q \in Proc : pc[q] = "write"))'
      BY <2>2
    <3> QED
      BY <3>1, WhatIsHeldNext DEF HeldAll
  <2> QED
    BY <1>1, <2>1, <2>3, <1>2
<1>5. CASE /\ ~(SaveBegin(p) \/ SaveEnd(p)) /\ ~(Crash(p) /\ pc[p] = "write")
  <2>1. file' = file
    BY <1>0, <1>5, StepKinds, StartKinds DEF Crash, Goes
  <2>2. \A q \in Proc : pc'[q] = "write" <=> pc[q] = "write"
    <3>1. \/ pc' = pc
          \/ \E w \in InSession \cup {"truncate", "idle"} :
               pc[p] # "write" /\ pc' = [pc EXCEPT ![p] = w]
      BY <1>0, <1>5, StepKinds, StartKinds DEF Crash, Goes, Goto, MayStart, InSession
    <3> QED
      BY <1>0, <3>1 DEF InSession, TypeOK
  <2>3. CASE file \in {"absent", "whole"} \/ (\E q \in Proc : pc[q] = "write")
    BY <1>1, <1>2, <2>1, <2>2, <2>3, WhatIsHeld, WhatIsHeldNext DEF HeldAll
  <2>4. CASE file \notin {"absent", "whole"} /\ (\A q \in Proc : pc[q] # "write")
    BY <1>2, <2>1, <2>2, <2>4, WhatIsHeld, WhatIsHeldNext DEF HeldAll
  <2> QED
    BY <2>3, <2>4
<1> QED
  BY <1>3, <1>4, <1>5

\* Every step is a save, an acceptance, the loss of all, or nothing to MailPromise.
LEMMA PromiseNext ==
  ASSUME MailInv, MailInv', [Next]_vars
  PROVE  [Promise!Next]_Promised
<1>1. CASE UNCHANGED vars
  BY <1>1 DEF vars, local, remote, KnownSent, Held, Promised
<1>2. ASSUME NEW p \in Proc, Step(p)
      PROVE  [Promise!Next]_Promised
  <2>0. TypeOK /\ ExclusiveInv /\ disk \in Store
    BY DEF MailInv, IInv, TypeInv, TypeOK
  <2>1. CASE disk' # disk
    BY <1>2, <2>0, <2>1, DiskKinds, PromiseSaves DEF Promise!Next
  <2>2. CASE disk' = disk /\ accepted' = accepted
    BY <1>2, <2>2, PromiseLoses DEF Promise!Next
  <2>3. CASE disk' = disk /\ accepted' # accepted
    <3>1. PICK a \in Pairs(disk) : accepted' = accepted \cup {a}
      BY <1>2, <2>3, AcceptedKinds, AcceptedSaved
    <3>2. Had' = Had \cup {a.text}
      BY <3>1 DEF Had
    <3>3. a.text \in TextsOf(disk)
      BY <2>0, <3>1, PairsFacts
    <3>4. Held' = Held /\ TextsOf(disk)' = TextsOf(disk) /\ KnownSent' = KnownSent
      BY <1>2, <2>3, AcceptedKinds DEF CmsReceive, local, Held, KnownSent
    <3>5. Held \subseteq TextsOf(disk)
      BY DEF Held
    <3>6. CASE a.text \in Had
      BY <3>2, <3>4, <3>6 DEF Promised, Had
    <3>7. CASE a.text \notin Had
      BY <3>2, <3>3, <3>4, <3>5, <3>7 DEF Promise!Next, Promise!Accept, Had
    <3> QED
      BY <3>6, <3>7
  <2> QED
    BY <2>1, <2>2, <2>3
<1> QED
  BY <1>1, <1>2 DEF Next

\* One command at a time, and no two mails of other stations under one id:
\* WinlinkSync implements MailPromise.  Through failed sessions, retries and
\* deferrals no saved text is lost, none reaches the CMS unsaved, and one is
\* marked sent only if the CMS has that very text.  Only a process killed while
\* it writes the file loses mail, and then the store as a whole, in whose place
\* nothing is saved any more.
THEOREM PromiseKept == Exclusive /\ OneMailPerId => (Spec => KeepsPromise)
<1> SUFFICES ASSUME Exclusive, OneMailPerId PROVE Spec => KeepsPromise
  OBVIOUS
<1>1. MailInv /\ [Next]_vars => MailInv'
  BY MailInvNext
<1>2. MailInv /\ MailInv' /\ [Next]_vars => [Promise!Next]_Promised
  BY PromiseNext
<1> QED
  BY <1>1, <1>2, MailInvInit, PromiseInit, PTL DEF Spec, KeepsPromise, Promise!Spec, Promised

-----------------------------------------------------------------------------
(* What is delivered is kept                                               *)

\* No mail of another station carries the MID of another such mail in its
\* header: the station would answer for the second when it has the first.
NoBorrowedMid == \A m, n \in ForeignMids : StoredId(m) = n => m = n

\* The ids a store may hold.
GoodIds == Nat \cup {StoredId(n) : n \in Foreign}

GoodStore(s) == IdsOf(s) \subseteq GoodIds

\* t has the ids of s, and no bad one.
Grown(s, t) == IdsOf(s) \subseteq IdsOf(t) /\ (GoodStore(s) => GoodStore(t))

\* One message more, or one changed in place under the same id.
LEMMA GrownFacts ==
  ASSUME NEW s \in Store, NEW t, NEW m
  PROVE  /\ Added(s, t, m) => IdsOf(t) = IdsOf(s) \cup {m.id}
         /\ \A i \in DOMAIN s.msgs :
              s.msgs[i].id = m.id /\ Replaced(s, t, i, m) =>
                IdsOf(t) = IdsOf(s) /\ m.id \in IdsOf(s)
<1>1. Added(s, t, m) => IdsOf(t) = IdsOf(s) \cup {m.id}
  BY DEF Added, IdsOf
<1>2. ASSUME NEW i \in DOMAIN s.msgs, s.msgs[i].id = m.id, Replaced(s, t, i, m)
      PROVE  IdsOf(t) = IdsOf(s) /\ m.id \in IdsOf(s)
  <2>1. /\ DOMAIN t.msgs = DOMAIN s.msgs
        /\ \A k \in DOMAIN s.msgs : t.msgs[k].id = s.msgs[k].id
    BY <1>2 DEF Replaced
  <2> QED
    BY <1>2, <2>1 DEF IdsOf
<1> QED
  BY <1>1, <1>2

\* The commands lose no id.
LEMMA SetAccountGrows ==
  ASSUME NEW s \in Store, NEW t, t = SetAccount(s)
  PROVE  Grown(s, t)
<1>1. t.msgs = s.msgs
  BY DEF SetAccount, Store
<1> QED
  BY <1>1 DEF Grown, GoodStore, IdsOf

LEMMA QueueMessageGrows ==
  ASSUME NEW s \in Store, NEW text \in Nat, NEW fault \in Faults,
         NEW t, t = QueueMessage(s, text, fault)
  PROVE  Grown(s, t)
<1> DEFINE m == Outgoing(s, text, fault)
<1>1. Added(s, t, m) /\ m.id \in GoodIds
  BY QueueMessageShape DEF Outgoing, GoodIds, Store
<1> HIDE DEF m
<1>2. IdsOf(t) = IdsOf(s) \cup {m.id}
  BY <1>1, GrownFacts
<1> QED
  BY <1>1, <1>2 DEF Grown, GoodStore

LEMMA FakeSyncGrows ==
  ASSUME NEW s \in Store, NEW t, t = FakeSync(s)
  PROVE  Grown(s, t)
<1>1. FakeInbox \in Message /\ FakeInbox.id = FakeMid /\ FakeMid \in GoodIds
  BY StoreAssumption DEF FakeInbox, Message, Ids, Folders, Vias, Notes, Faults, GoodIds, Foreign,
     StoredId
<1>2. PICK got \in Seq(Message) :
         /\ \/ got = s.msgs
            \/ FakeMid \notin IdsOf(s) /\ got = Append(s.msgs, FakeInbox)
         /\ DOMAIN t.msgs = DOMAIN got
         /\ \A k \in DOMAIN got :
              t.msgs[k] = IF got[k].folder = "Outbox"
                          THEN Moved(got[k], "Sent", "fake", "none") ELSE got[k]
  BY FakeSyncShape
<1>3. \A k \in DOMAIN got : t.msgs[k].id = got[k].id
  <2> TAKE k \in DOMAIN got
  <2>1. CASE got[k].folder = "Outbox"
    <3>1. t.msgs[k] = Moved(got[k], "Sent", "fake", "none")
      BY <1>2, <2>1
    <3> QED
      BY <3>1 DEF Moved
  <2>2. CASE got[k].folder # "Outbox"
    BY <1>2, <2>2
  <2> QED
    BY <2>1, <2>2
<1>4. IdsOf(t) = {got[k].id : k \in DOMAIN got}
  BY <1>2, <1>3 DEF IdsOf
<1>5. CASE got = s.msgs
  BY <1>4, <1>5 DEF Grown, GoodStore, IdsOf
<1>6. CASE got = Append(s.msgs, FakeInbox)
  <2>1. /\ DOMAIN got = DOMAIN s.msgs \cup {Len(s.msgs) + 1}
        /\ \A k \in DOMAIN s.msgs : got[k] = s.msgs[k]
        /\ got[Len(s.msgs) + 1] = FakeInbox
    BY <1>1, <1>6 DEF Store
  <2>2. \A k \in DOMAIN s.msgs : s.msgs[k].id \in IdsOf(t)
    BY <1>4, <2>1
  <2>3. \A k \in DOMAIN got : got[k].id \in IdsOf(s) \cup {FakeMid}
    BY <1>1, <2>1 DEF IdsOf
  <2>4. IdsOf(s) \subseteq IdsOf(t) /\ IdsOf(t) \subseteq IdsOf(s) \cup {FakeMid}
    BY <1>4, <2>2, <2>3 DEF IdsOf
  <2> QED
    BY <1>1, <2>4 DEF Grown, GoodStore
<1> QED
  BY <1>2, <1>5, <1>6

\* Answers change no id; a download adds that of its mail.
LEMMA AnsweredGrows ==
  ASSUME NEW s \in Store, NEW v \in Verdict, NEW i, NEW t, t = Answered(s, i, v)
  PROVE  Grown(s, t)
<1>1. /\ DOMAIN t.msgs = DOMAIN s.msgs
      /\ \A k \in DOMAIN s.msgs : t.msgs[k].id = s.msgs[k].id
  BY AnsweredFacts
<1>2. IdsOf(t) = IdsOf(s)
  BY <1>1 DEF IdsOf
<1> QED
  BY <1>2 DEF Grown, GoodStore

LEMMA UpsertGrows ==
  ASSUME NEW s \in Store, NEW mid \in Ids, NEW text \in Ids,
         NEW t, t = UpsertReceived(s, mid, text)
  PROVE  /\ IdsOf(t) = IdsOf(s) \cup {StoredId(mid)}
         /\ StoredId(mid) \in GoodIds => Grown(s, t)
<1> DEFINE m == Received(mid, text)
<1>1. \/ Added(s, t, m)
      \/ \E i \in DOMAIN s.msgs : s.msgs[i].id = StoredId(mid) /\ Replaced(s, t, i, m)
  BY UpsertShape
<1>2. m.id = StoredId(mid)
  BY DEF Received
<1> HIDE DEF m
<1>3. IdsOf(t) = IdsOf(s) \cup {StoredId(mid)}
  <2>1. CASE Added(s, t, m)
    BY <1>2, <2>1, GrownFacts
  <2>2. CASE \E i \in DOMAIN s.msgs : s.msgs[i].id = StoredId(mid) /\ Replaced(s, t, i, m)
    <3>1. PICK i \in DOMAIN s.msgs : s.msgs[i].id = StoredId(mid) /\ Replaced(s, t, i, m)
      BY <2>2
    <3>2. IdsOf(t) = IdsOf(s) /\ m.id \in IdsOf(s)
      BY <1>2, <3>1, GrownFacts
    <3> QED
      BY <1>2, <3>2
  <2> QED
    BY <1>1, <2>1, <2>2
<1> QED
  BY <1>3 DEF Grown, GoodStore

\* The mail named mid is in the saved store, or in a copy about to be saved.
Kept(mid) ==
  \/ StoredId(mid) \in IdsOf(disk)
  \/ \E p \in Proc : pc[p] \in AtSave /\ StoredId(mid) \in IdsOf(mem[p])

\* It is in the copy of p, or p waits for it.
Holds(p, mid) ==
  \/ StoredId(mid) \in IdsOf(mem[p])
  \/ \E k \in want[p] : offer[p][k] = mid

\* What the CMS counts as delivered once it reads all the station has said.
Answering(p) == {l \in LinesIn(up[p]) : l.t = "FS"}
Owed(p) ==
  taken[p] \cup {offer[p][k] : k \in UNION {Claimed(l.verdict) : l \in Answering(p)}}

Bye(p) == \E l \in LinesIn(up[p]) : l.t = "FQ"

Receipts(p) ==
  /\ pc[p] \in InSession => ~Bye(p)
  /\ pc[p] \in Early => taken[p] = {}
  /\ pc[p] = "download" => \A mid \in Owed(p) : Holds(p, mid)
  /\ Bye(p) => \A mid \in Owed(p) : Kept(mid)

CopyIds(p) == Active(p) => GoodStore(mem[p]) /\ IdsOf(disk) \subseteq IdsOf(mem[p])

UpIds(p) == \A l \in LinesIn(up[p]) : l.t = "mail" => l.mid \in GoodIds

DeliveryInv ==
  /\ IInv /\ ExclusiveInv
  /\ AcceptedIds \subseteq GoodIds /\ GoodStore(disk)
  /\ \A p \in Proc : UpIds(p) /\ CopyIds(p) /\ Receipts(p)
  /\ \A mid \in delivered : Kept(mid)

\* The copy of the process that takes a step.
LEMMA CopyIdsStep ==
  ASSUME Exclusive, DeliveryInv, NEW p \in Proc, Step(p)
  PROVE  /\ CopyIds(p)'
         /\ ~SyncStart(p) /\ pc[p] \in InSession /\ pc'[p] # "idle" =>
              IdsOf(mem[p]) \subseteq IdsOf(mem'[p])
<1> USE DEF Goto, local, remote, wire, counters
<1>0. /\ TypeInv /\ TypeOK /\ Positions(p) /\ CopyIds(p) /\ ExclusiveInv
      /\ disk \in Store /\ mem[p] \in Store /\ GoodStore(disk) /\ AcceptedIds \subseteq GoodIds
  BY DEF DeliveryInv, IInv, TypeInv, TypeOK
<1>1. CASE AccountSetup(p) \/ Compose(p) \/ SyncFake(p)
  <2>1. Loaded = disk /\ disk' = disk /\ pc[p] = "idle"
    BY <1>0, <1>1, StartKinds, Starts DEF Active
  <2>2. PICK s : LocalCommand(p, s) /\ Grown(disk, s)
    <3>1. CASE AccountSetup(p)
      BY <1>0, <2>1, <3>1, SetAccountGrows DEF AccountSetup
    <3>2. CASE Compose(p)
      <4>1. PICK fault \in Faults : LocalCommand(p, QueueMessage(disk, composed + 1, fault))
        BY <2>1, <3>2 DEF Compose
      <4>2. composed + 1 \in Nat
        BY <1>0 DEF TypeOK
      <4> QED
        BY <1>0, <4>1, <4>2, QueueMessageGrows
    <3>3. CASE SyncFake(p)
      BY <1>0, <2>1, <3>3, FakeSyncGrows DEF SyncFake
    <3> QED
      BY <1>1, <3>1, <3>2, <3>3
  <2>3. mem'[p] = s
    BY <1>0, <2>2 DEF LocalCommand, TypeOK
  <2> QED
    BY <1>0, <2>1, <2>2, <2>3 DEF CopyIds, Grown, InSession
<1>2. CASE SyncStart(p)
  <2>1. Loaded = disk /\ disk' = disk
    BY <1>0, <1>2, StartKinds, Starts
  <2>2. mem'[p] = disk
    BY <1>0, <1>2, <2>1 DEF SyncStart, TypeOK
  <2> QED
    BY <1>0, <1>2, <2>1, <2>2 DEF CopyIds
<1>3. CASE SaveEnd(p) \/ Crash(p) \/ Fail(p) \/ HungUp(p) \/ Unsendable(p)
  <2>1. pc'[p] = "idle"
    BY <1>0, <1>3 DEF SaveEnd, Crash, Fail, HungUp, Unsendable, GiveUp, TypeOK
  <2> QED
    BY <2>1 DEF CopyIds, Active
<1>4. ASSUME UNCHANGED <<disk, mem>>, Active(p) \/ pc' = pc
      PROVE  /\ CopyIds(p)'
             /\ IdsOf(mem[p]) \subseteq IdsOf(mem'[p])
  BY <1>0, <1>4 DEF CopyIds, Active
<1>5. CASE SaveBegin(p) \/ PassTurn(p) \/ OfferOutbox(p) \/ ReadAnswers(p) \/ OutboundDone(p)
  BY <1>4, <1>5 DEF SaveBegin, PassTurn, OfferOutbox, ReadAnswers, OutboundDone, Active
<1>6. CASE AnswerInbound(p) \/ InboundDone(p) \/ NothingInbound(p) \/ CmsQuit(p)
  BY <1>4, <1>6 DEF AnswerInbound, InboundDone, NothingInbound, CmsQuit, Active
<1>7. CASE CmsProceed(p) \/ CmsDrop(p)
  <2>1. UNCHANGED <<disk, mem, pc>>
    BY <1>7 DEF CmsProceed, CmsPassed, CmsAnswer, CmsReceive, CmsOffer, CmsOffersNothing,
       CmsAnswered, CmsSend, CmsSent, CmsEnd, CmsTidy, CmsDrop, CmsClose
  <2> QED
    BY <1>4, <2>1
<1>8. ASSUME Active(p), disk' = disk, Grown(mem[p], mem'[p])
      PROVE  /\ CopyIds(p)'
             /\ IdsOf(mem[p]) \subseteq IdsOf(mem'[p])
  BY <1>0, <1>8 DEF CopyIds, Grown
<1>9. CASE SendNext(p)
  <2>1. PICK i \in batch[p] : mem' = [mem EXCEPT ![p] = Answered(@, i, answers[p])]
    BY <1>9 DEF SendNext
  <2>2. /\ mem'[p] = Answered(mem[p], i, answers[p]) /\ disk' = disk /\ Active(p)
        /\ answers[p] \in Verdict
    BY <1>0, <1>9, <2>1 DEF SendNext, TypeOK, Active
  <2> QED
    BY <1>0, <1>8, <2>2, AnsweredGrows
<1>10. CASE Download(p)
  <2>1. PICK k \in want[p] :
          mem' = [mem EXCEPT ![p] = UpsertReceived(@, offer[p][k], Head(down[p]).text)]
    BY <1>10 DEF Download
  <2> DEFINE mid == offer[p][k]
             text == Head(down[p]).text
  <2>2. mem'[p] = UpsertReceived(mem[p], mid, text) /\ disk' = disk /\ Active(p)
    BY <1>0, <1>10, <2>1 DEF Download, TypeOK, Active
  <2>3. mid \in Ids /\ text \in Ids /\ mid \in ForeignMids \cup AcceptedIds
    <3>1. k \in DOMAIN offer[p] /\ offer[p] \in Seq(Ids)
      BY <1>0 DEF Positions, TypeOK
    <3>2. Head(down[p]) \in DownLine /\ Head(down[p]).t = "mail"
      BY <1>0, <1>10, Heard DEF Download
    <3>3. mid \in ForeignMids \cup AcceptedIds
      BY <1>0, <3>1 DEF Positions, LinesIn
    <3> QED
      BY <3>1, <3>2, <3>3 DEF DownLine
  <2> HIDE DEF mid, text
  <2>4. StoredId(mid) \in GoodIds
    BY <1>0, <2>3 DEF StoredId, GoodIds, Foreign
  <2> QED
    BY <1>0, <1>8, <2>2, <2>3, <2>4, UpsertGrows
<1> QED
  BY <1>1, <1>2, <1>3, <1>4, <1>5, <1>6, <1>7, <1>9, <1>10 DEF Step, Proceed

\* What is saved, or about to be, stays so: nobody else writes the file, and
\* the process that is about to save cannot be killed before it has.
LEMMA KeptStep ==
  ASSUME Exclusive, ~Crashes, DeliveryInv, NEW p \in Proc, Step(p), NEW mid, Kept(mid)
  PROVE  Kept(mid)'
<1>0. /\ TypeOK /\ ExclusiveInv /\ CopyIds(p)
      /\ \A q \in Proc \ {p} : Same(q)
  BY Frame DEF DeliveryInv, IInv, TypeInv
<1>1. IdsOf(disk) \subseteq IdsOf(disk')
  BY <1>0, DiskKinds DEF CopyIds, Active
<1>2. CASE StoredId(mid) \in IdsOf(disk)
  BY <1>1, <1>2 DEF Kept
<1>3. CASE StoredId(mid) \notin IdsOf(disk)
  <2>1. PICK q \in Proc : pc[q] \in AtSave /\ StoredId(mid) \in IdsOf(mem[q])
    BY <1>3 DEF Kept
  <2>2. CASE q # p
    <3>1. pc'[q] \in AtSave /\ StoredId(mid) \in IdsOf(mem'[q])
      BY <1>0, <2>1, <2>2 DEF Same
    <3> QED
      BY <3>1 DEF Kept
  <2>3. CASE q = p
    <3>1. SaveBegin(p) \/ SaveEnd(p) \/ CmsProceed(p) \/ CmsDrop(p)
      BY <2>1, <2>3 DEF Step, Proceed, AtSave, InSession, AccountSetup, Compose, SyncFake,
         LocalCommand, SyncStart, MayStart, Crash, PassTurn, OfferOutbox, ReadAnswers, SendNext,
         OutboundDone, AnswerInbound, Download, InboundDone, NothingInbound, CmsQuit, Fail,
         HungUp, Unsendable, GiveUp
    <3>2. CASE SaveBegin(p)
      <4>1. pc'[p] \in AtSave /\ mem' = mem
        BY <1>0, <3>2 DEF SaveBegin, Goto, TypeOK, AtSave
      <4> QED
        BY <2>1, <2>3, <4>1 DEF Kept
    <3>3. CASE SaveEnd(p)
      <4>1. disk' = mem[p]
        BY <1>0, <3>3 DEF SaveEnd, ExclusiveInv, Active
      <4> QED
        BY <2>1, <2>3, <4>1 DEF Kept
    <3>4. CASE CmsProceed(p) \/ CmsDrop(p)
      <4>1. UNCHANGED <<mem, pc>>
        BY <3>4 DEF CmsProceed, CmsPassed, CmsAnswer, CmsReceive, CmsOffer, CmsOffersNothing,
           CmsAnswered, CmsSend, CmsSent, CmsEnd, CmsTidy, CmsDrop, CmsClose, local
      <4> QED
        BY <2>1, <4>1 DEF Kept
    <3> QED
      BY <3>1, <3>2, <3>3, <3>4
  <2> QED
    BY <2>2, <2>3
<1> QED
  BY <1>2, <1>3

\* Only good ids go to the CMS.
LEMMA UpIdsStep ==
  ASSUME DeliveryInv, NEW p \in Proc, Step(p)
  PROVE  UpIds(p)' /\ AcceptedIds' \subseteq GoodIds
<1>1. /\ TypeInv /\ UpIds(p) /\ CopyIds(p) /\ Positions(p) /\ AcceptedIds \subseteq GoodIds
  BY DEF DeliveryInv, IInv, TypeInv
<1>2. ASSUME NEW l \in LinesIn(up'[p]), l.t = "mail" PROVE l.mid \in GoodIds
  <2>1. CASE l \in LinesIn(up[p])
    BY <1>1, <1>2, <2>1 DEF UpIds
  <2>2. CASE l \notin LinesIn(up[p])
    <3>1. /\ pc[p] = "sending"
          /\ \E i \in batch[p] : l.mid = mem[p].msgs[i].id /\ l.text = mem[p].msgs[i].text
      BY <1>1, <1>2, <2>2, UpLines
    <3>2. PICK i \in batch[p] : l.mid = mem[p].msgs[i].id
      BY <3>1
    <3>3. i \in DOMAIN mem[p].msgs
      BY <1>1, <3>1, <3>2 DEF Positions
    <3>4. IdsOf(mem[p]) \subseteq GoodIds
      BY <1>1, <3>1 DEF CopyIds, Active, GoodStore
    <3> QED
      BY <3>2, <3>3, <3>4 DEF IdsOf
  <2> QED
    BY <2>1, <2>2
<1>3. UpIds(p)'
  BY <1>2 DEF UpIds
<1>4. CASE CmsReceive(p)
  <2>1. Head(up[p]) \in LinesIn(up[p]) /\ Head(up[p]).t = "mail"
    BY <1>1, <1>4, CmsHeard DEF CmsReceive
  <2>2. Head(up[p]).mid \in GoodIds
    BY <1>1, <2>1 DEF UpIds
  <2>3. \/ accepted' = accepted
        \/ accepted' = accepted \cup {[id |-> Head(up[p]).mid, text |-> Head(up[p]).text]}
    BY <1>4 DEF CmsReceive
  <2> QED
    BY <1>1, <1>3, <2>2, <2>3 DEF AcceptedIds
<1>5. CASE accepted' = accepted
  BY <1>1, <1>3, <1>5 DEF AcceptedIds
<1> QED
  BY <1>4, <1>5, AcceptedKinds

\* The CMS counts as delivered only when the station has said goodbye.
LEMMA DeliveredKinds ==
  ASSUME NEW p \in Proc, Step(p)
  PROVE  CmsEnd(p) \/ delivered' = delivered
BY DEF Step, Proceed, CmsProceed, remote, AccountSetup, Compose, SyncFake, LocalCommand,
   SyncStart, SaveBegin, SaveEnd, Crash, PassTurn, OfferOutbox, ReadAnswers, SendNext,
   OutboundDone, AnswerInbound, Download, InboundDone, NothingInbound, CmsQuit, Fail, HungUp,
   Unsendable, GiveUp, CmsPassed, CmsAnswer, CmsReceive, CmsOffer, CmsOffersNothing, CmsAnswered,
   CmsSend, CmsSent, CmsTidy, CmsDrop, CmsClose

\* And then it counts only what is kept.
LEMMA DeliveredStep ==
  ASSUME DeliveryInv, NEW p \in Proc, Step(p), NEW mid \in delivered'
  PROVE  Kept(mid)
<1>0. TypeInv /\ TypeOK /\ Receipts(p)
  BY DEF DeliveryInv, IInv, TypeInv
<1>1. CASE delivered' = delivered
  BY <1>1 DEF DeliveryInv
<1>2. CASE CmsEnd(p)
  <2>1. delivered' = delivered \cup taken[p]
    BY <1>2 DEF CmsEnd
  <2>2. Bye(p)
    BY <1>0, <1>2, CmsHeard DEF CmsEnd, Bye
  <2>3. \A m \in taken[p] : Kept(m)
    BY <1>0, <2>2 DEF Receipts, Owed
  <2> QED
    BY <2>1, <2>3 DEF DeliveryInv
<1> QED
  BY <1>1, <1>2, DeliveredKinds

\* The station says goodbye only at the end of a session that got this far,
\* and answers an offer only by AnswerInbound.
LEMMA GoodbyeKinds ==
  ASSUME TypeInv, NEW p \in Proc, Step(p)
  PROVE  /\ Bye(p)' => (Bye(p) /\ ~SyncStart(p)) \/ InboundDone(p) \/ NothingInbound(p)
         /\ Answering(p)' \subseteq Answering(p) \/ AnswerInbound(p)
<1> USE DEF wire, remote, local, counters
<1>0. TypeOK
  BY DEF TypeInv
<1>1. ASSUME LinesIn(up'[p]) \subseteq LinesIn(up[p]), ~SyncStart(p)
      PROVE  (Bye(p)' => Bye(p)) /\ Answering(p)' \subseteq Answering(p)
  BY <1>1 DEF Bye, Answering
<1>2. CASE SyncStart(p)
  <2>1. up'[p] = <<>>
    BY <1>0, <1>2 DEF SyncStart, TypeOK
  <2> QED
    BY <2>1, EmptyLines DEF Bye, Answering
<1>3. CASE InboundDone(p) \/ NothingInbound(p)
  <2>1. LinesIn(up'[p]) = LinesIn(up[p]) \cup {[t |-> "FQ"]}
    BY <1>0, <1>3, SaidLine DEF InboundDone, NothingInbound
  <2> QED
    BY <1>3, <2>1 DEF Answering
<1>4. ASSUME NEW x, Say(p, x), x.t \notin {"FS", "FQ"}, ~SyncStart(p)
      PROVE  (Bye(p)' => Bye(p)) /\ Answering(p)' \subseteq Answering(p)
  <2>1. LinesIn(up'[p]) = LinesIn(up[p]) \cup {x}
    BY <1>0, <1>4, SaidLine
  <2> QED
    BY <1>4, <2>1 DEF Bye, Answering
<1>5. CASE PassTurn(p) /\ ~SyncStart(p)
  BY <1>4, <1>5 DEF PassTurn
<1>6. CASE OfferOutbox(p) /\ ~SyncStart(p)
  <2> DEFINE box == OutboundBatch(mem[p])
             mids == {[at |-> i, id |-> mem[p].msgs[i].id] : i \in box}
  <2>1. CASE box = {}
    BY <1>4, <1>6, <2>1 DEF OfferOutbox
  <2>2. CASE box # {}
    <3>1. Say(p, [t |-> "outbound", mids |-> mids])
      BY <1>6, <2>2 DEF OfferOutbox
    <3> HIDE DEF mids
    <3> QED
      BY <1>4, <1>6, <3>1
  <2> QED
    BY <2>1, <2>2
<1>7. CASE SendNext(p) /\ ~SyncStart(p)
  <2>1. \/ up' = up
        \/ \E i \in batch[p] : Say(p, [t |-> "mail", mid |-> mem[p].msgs[i].id,
                                       text |-> mem[p].msgs[i].text])
    BY <1>7 DEF SendNext
  <2> QED
    BY <1>1, <1>4, <1>7, <2>1
<1>8. CASE AnswerInbound(p) /\ ~SyncStart(p)
  <2>1. PICK said : Say(p, [t |-> "FS", verdict |-> said])
    BY <1>8 DEF AnswerInbound
  <2>2. LinesIn(up'[p]) = LinesIn(up[p]) \cup {[t |-> "FS", verdict |-> said]}
    BY <1>0, <2>1, SaidLine
  <2> QED
    BY <1>8, <2>2 DEF Bye
<1>9. CASE up' = up /\ ~SyncStart(p)
  BY <1>1, <1>9
<1>10. ASSUME NEW kind, CmsHears(p, kind), ~SyncStart(p)
       PROVE  (Bye(p)' => Bye(p)) /\ Answering(p)' \subseteq Answering(p)
  BY <1>1, <1>10, CmsHeard
<1>11. CASE (CmsPassed(p) \/ CmsAnswer(p) \/ CmsReceive(p) \/ CmsAnswered(p) \/ CmsEnd(p)) /\ ~SyncStart(p)
  <2>1. \E kind \in {"FF", "outbound", "mail", "FS", "FQ"} : CmsHears(p, kind)
    BY <1>11 DEF CmsPassed, CmsAnswer, CmsReceive, CmsAnswered, CmsEnd
  <2> QED
    BY <1>10, <1>11, <2>1
<1>12. \/ up' = up \/ SyncStart(p) \/ InboundDone(p) \/ NothingInbound(p) \/ PassTurn(p)
       \/ OfferOutbox(p) \/ SendNext(p) \/ AnswerInbound(p)
       \/ CmsPassed(p) \/ CmsAnswer(p) \/ CmsReceive(p) \/ CmsAnswered(p) \/ CmsEnd(p)
  BY DEF Step, Proceed, CmsProceed, AccountSetup, Compose, SyncFake, LocalCommand, SaveBegin,
     SaveEnd, Crash, ReadAnswers, OutboundDone, Download, CmsQuit, Fail, HungUp, Unsendable, GiveUp,
     CmsOffer, CmsOffersNothing, CmsSend, CmsSent, CmsTidy, CmsDrop, CmsClose
<1> QED
  BY <1>2, <1>3, <1>5, <1>6, <1>7, <1>8, <1>9, <1>11, <1>12

\* Only the station's answer to an offer adds to what it owes the CMS.
LEMMA OwedStep ==
  ASSUME TypeInv, NEW p \in Proc, Step(p), ~AnswerInbound(p)
  PROVE  Owed(p)' \subseteq Owed(p)
<1> USE DEF wire, remote, local, counters
<1>0. TypeOK /\ Answering(p)' \subseteq Answering(p)
  BY GoodbyeKinds DEF TypeInv
<1>1. CASE SyncStart(p)
  <2>1. up'[p] = <<>> /\ taken'[p] = {}
    BY <1>0, <1>1 DEF SyncStart, TypeOK
  <2>2. Answering(p)' = {}
    BY <2>1, EmptyLines DEF Answering
  <2> QED
    BY <2>1, <2>2 DEF Owed
<1>2. CASE CmsAnswered(p)
  <2> DEFINE l == Head(up[p])
  <2>1. l \in Answering(p) /\ offer' = offer
    BY <1>2, CmsHeard DEF CmsAnswered, Answering
  <2>2. taken'[p] = {offer[p][k] : k \in Claimed(l.verdict)}
    BY <1>0, <1>2 DEF CmsAnswered, TypeOK, Claimed
  <2> HIDE DEF l
  <2>3. taken'[p] \subseteq Owed(p)
    BY <2>1, <2>2 DEF Owed
  <2> QED
    BY <1>0, <2>1, <2>3 DEF Owed
<1>3. CASE offer' = offer /\ taken' = taken
  BY <1>0, <1>3 DEF Owed
<1> QED
  BY <1>1, <1>2, <1>3 DEF Step, Proceed, CmsProceed, AccountSetup, Compose, SyncFake, LocalCommand,
     SaveBegin, SaveEnd, Crash, PassTurn, OfferOutbox, ReadAnswers, SendNext, OutboundDone, Download,
     InboundDone, NothingInbound, CmsQuit, Fail, HungUp, Unsendable, GiveUp, CmsPassed, CmsAnswer,
     CmsReceive, CmsOffer, CmsOffersNothing, CmsSend, CmsSent, CmsEnd, CmsTidy, CmsDrop, CmsClose

\* Before the station has answered, the CMS has nothing to count.
LEMMA EarlyStep ==
  ASSUME DeliveryInv, NEW p \in Proc, Step(p), pc'[p] \in Early
  PROVE  taken'[p] = {}
<1> USE DEF wire, remote, local, counters
<1>0. /\ TypeInv /\ TypeOK /\ Positions(p) /\ Receipts(p)
  BY DEF DeliveryInv, IInv, TypeInv
<1>1. CASE SyncStart(p)
  BY <1>0, <1>1 DEF SyncStart, TypeOK
<1>2. CASE CmsAnswered(p)
  <2>1. pc' = pc
    BY <1>2 DEF CmsAnswered
  <2>2. \E l \in LinesIn(up[p]) : l.t = "FS"
    BY <1>0, <1>2, CmsHeard DEF CmsAnswered
  <2> QED
    BY <1>0, <2>1, <2>2 DEF Positions, Early
<1>3. CASE ~SyncStart(p) /\ ~CmsAnswered(p)
  <2>1. taken' = taken
    BY <1>3 DEF Step, Proceed, CmsProceed, AccountSetup, Compose, SyncFake, LocalCommand,
     SaveBegin, SaveEnd, Crash, PassTurn, OfferOutbox, ReadAnswers, SendNext, OutboundDone,
     AnswerInbound, Download, InboundDone, NothingInbound, CmsQuit, Fail, HungUp, Unsendable,
     GiveUp, CmsPassed, CmsAnswer, CmsReceive, CmsOffer, CmsOffersNothing, CmsSend, CmsSent,
     CmsEnd, CmsTidy, CmsDrop, CmsClose
  <2>2. pc[p] \in Early
    BY <1>0, <1>3 DEF Early, Goto, TypeOK, Step, Proceed, CmsProceed, AccountSetup, Compose, SyncFake,
     LocalCommand, SaveBegin, SaveEnd, Crash, PassTurn, OfferOutbox, ReadAnswers, SendNext,
     OutboundDone, AnswerInbound, Download, InboundDone, NothingInbound, CmsQuit, Fail, HungUp,
     Unsendable, GiveUp, CmsPassed, CmsAnswer, CmsReceive, CmsOffer, CmsOffersNothing, CmsSend,
     CmsSent, CmsEnd, CmsTidy, CmsDrop, CmsClose
  <2> QED
    BY <1>0, <2>1, <2>2 DEF Receipts
<1> QED
  BY <1>1, <1>2, <1>3

\* Mail the station calls already received is in its copy under its own id.
LEMMA HadIsInCopy ==
  ASSUME NoBorrowedMid, TypeInv, NEW p \in Proc, GoodStore(mem[p]), NEW mid \in Ids,
         HasCompleteInbox(mem[p], mid)
  PROVE  StoredId(mid) \in IdsOf(mem[p])
<1>1. mid \in IdsOf(mem[p])
  BY DEF HasCompleteInbox, In, IdsOf
<1>2. CASE mid \notin ForeignMids
  BY <1>1, <1>2 DEF StoredId
<1>3. CASE mid \in ForeignMids
  <2>1. mid \notin Nat /\ mid # FakeMid /\ FakeMid \notin ForeignMids
    BY <1>3, StoreAssumption
  <2>2. PICK n \in Foreign : StoredId(n) = mid
    BY <1>1, <2>1 DEF GoodStore, GoodIds
  <2>3. n \in ForeignMids
    BY <2>1, <2>2 DEF Foreign, StoredId
  <2>4. n = mid
    BY <1>3, <2>2, <2>3 DEF NoBorrowedMid
  <2> QED
    BY <1>1, <2>2, <2>4
<1> QED
  BY <1>2, <1>3

\* The answer to an offer owes the CMS what it asks for and what it has.
LEMMA AnswerOwes ==
  ASSUME NoBorrowedMid, DeliveryInv, NEW p \in Proc, AnswerInbound(p), NEW mid \in Owed(p)'
  PROVE  Holds(p, mid)'
<1> USE DEF wire, remote, local, counters
<1>0. /\ TypeInv /\ TypeOK /\ Positions(p) /\ Receipts(p) /\ CopyIds(p) /\ pc[p] = "listen"
  BY DEF DeliveryInv, IInv, TypeInv, AnswerInbound
<1>1. PICK mids : mids = Head(down[p]).mids
  OBVIOUS
<1>2. PICK said : said = InboundAnswers(mem[p], mids)
  OBVIOUS
<1>3. /\ Say(p, [t |-> "FS", verdict |-> said])
      /\ offer' = [offer EXCEPT ![p] = mids]
      /\ want' = [want EXCEPT ![p] = said.yes]
      /\ UNCHANGED <<mem, taken>>
  BY <1>1, <1>2 DEF AnswerInbound
<1>4. offer'[p] = mids /\ want'[p] = said.yes /\ taken'[p] = {}
  BY <1>0, <1>3 DEF TypeOK, Receipts, Early
<1>5. mids \in Seq(Ids)
  <2>1. Head(down[p]) \in DownLine /\ Head(down[p]).t = "inbound"
    BY <1>0, Heard DEF AnswerInbound
  <2> QED
    BY <1>1, <2>1 DEF DownLine
<1>6. Answering(p) = {}
  BY <1>0 DEF Positions, Answering
<1>7. LinesIn(up'[p]) = LinesIn(up[p]) \cup {[t |-> "FS", verdict |-> said]}
  BY <1>0, <1>3, SaidLine
<1>8. \A l \in LinesIn(up'[p]) : l.t = "FS" => l.verdict = said
  BY <1>6, <1>7 DEF Answering
<1>9. PICK k \in Claimed(said) : mid = mids[k]
  BY <1>4, <1>8 DEF Owed, Answering
<1>10. CASE k \in said.yes
  BY <1>4, <1>9, <1>10 DEF Holds
<1>11. CASE k \in said.have
  <2>1. k \in DOMAIN mids /\ HasCompleteInbox(mem[p], mids[k])
    BY <1>2, <1>11 DEF InboundAnswers
  <2>2. mid \in Ids /\ HasCompleteInbox(mem[p], mid)
    BY <1>5, <1>9, <2>1
  <2>3. GoodStore(mem[p])
    BY <1>0 DEF CopyIds, Active
  <2>4. StoredId(mid) \in IdsOf(mem[p])
    BY <1>0, <2>2, <2>3, HadIsInCopy
  <2> QED
    BY <1>3, <2>4 DEF Holds
<1> QED
  BY <1>9, <1>10, <1>11 DEF Claimed

\* A download puts the mail it was waiting for into the copy.
LEMMA DownloadHolds ==
  ASSUME Exclusive, DeliveryInv, NEW p \in Proc, Step(p), NEW mid, Holds(p, mid),
         pc[p] = "download", pc'[p] = "download"
  PROVE  Holds(p, mid)'
<1> USE DEF wire, remote, local, counters
<1>0. /\ TypeInv /\ TypeOK /\ Positions(p)
  BY DEF DeliveryInv, IInv, TypeInv
<1>1. ~SyncStart(p)
  BY DEF SyncStart, MayStart
<1>2. IdsOf(mem[p]) \subseteq IdsOf(mem'[p])
  BY <1>1, CopyIdsStep DEF InSession
<1>3. CASE StoredId(mid) \in IdsOf(mem[p])
  BY <1>2, <1>3 DEF Holds
<1>4. CASE StoredId(mid) \notin IdsOf(mem[p])
  <2>1. PICK k \in want[p] : offer[p][k] = mid
    BY <1>4 DEF Holds
  <2>2. CASE Download(p)
    <3>1. PICK j \in want[p] :
            /\ mem' = [mem EXCEPT ![p] = UpsertReceived(@, offer[p][j], Head(down[p]).text)]
            /\ want' = [want EXCEPT ![p] = @ \ {j}]
      BY <2>2 DEF Download
    <3>2. want'[p] = want[p] \ {j} /\ offer' = offer
      BY <1>0, <2>2, <3>1 DEF TypeOK, Download
    <3>3. CASE k # j
      BY <2>1, <3>2, <3>3 DEF Holds
    <3>4. CASE k = j
      <4> DEFINE text == Head(down[p]).text
      <4>1. mem'[p] = UpsertReceived(mem[p], mid, text)
        BY <1>0, <2>1, <3>1, <3>4 DEF TypeOK
      <4>2. mid \in Ids
        <5>1. k \in DOMAIN offer[p] /\ offer[p] \in Seq(Ids)
          BY <1>0, <2>1 DEF Positions, TypeOK
        <5> QED
          BY <2>1, <5>1
      <4>3. text \in Ids
        <5>1. Head(down[p]) \in DownLine /\ Head(down[p]).t = "mail"
          BY <1>0, <2>2, Heard DEF Download
        <5> QED
          BY <5>1 DEF DownLine
      <4>4. mem[p] \in Store
        BY <1>0 DEF TypeOK
      <4> HIDE DEF text
      <4>5. IdsOf(mem'[p]) = IdsOf(mem[p]) \cup {StoredId(mid)}
        BY <4>1, <4>2, <4>3, <4>4, UpsertGrows
      <4> QED
        BY <4>5 DEF Holds
    <3> QED
      BY <3>3, <3>4
  <2>3. CASE ~Download(p)
    <3>1. want' = want /\ offer' = offer
      BY <1>1, <2>3 DEF Step, Proceed, CmsProceed, AccountSetup, Compose, SyncFake, LocalCommand,
         SaveBegin, SaveEnd, Crash, PassTurn, OfferOutbox, ReadAnswers, SendNext, OutboundDone,
         AnswerInbound, InboundDone, NothingInbound, CmsQuit, Fail, HungUp, Unsendable, GiveUp,
         CmsPassed, CmsAnswer, CmsReceive, CmsOffer, CmsOffersNothing, CmsAnswered, CmsSend, CmsSent,
         CmsEnd, CmsTidy, CmsDrop, CmsClose
    <3> QED
      BY <2>1, <3>1 DEF Holds
  <2> QED
    BY <2>2, <2>3
<1> QED
  BY <1>3, <1>4

\* A step of p keeps its receipts.
LEMMA ReceiptsStep ==
  ASSUME Exclusive, ~Crashes, NoBorrowedMid, DeliveryInv, NEW p \in Proc, Step(p)
  PROVE  Receipts(p)'
<1> USE DEF Goto, wire, remote, local, counters
<1>0. /\ TypeInv /\ TypeOK /\ Positions(p) /\ Receipts(p)
  BY DEF DeliveryInv, IInv, TypeInv
<1>1. ASSUME pc'[p] \in InSession PROVE ~Bye(p)'
  <2>1. SyncStart(p) \/ pc[p] \in InSession
    BY <1>0, <1>1, StepKinds DEF Goes, AccountSetup, Compose, SyncFake, LocalCommand, SaveBegin,
       SaveEnd, Crash, InSession, TypeOK
  <2>2. ~InboundDone(p) /\ ~NothingInbound(p)
    BY <1>0, <1>1 DEF InboundDone, NothingInbound, InSession, TypeOK
  <2> QED
    BY <1>0, <2>1, <2>2, GoodbyeKinds DEF Receipts
<1>2. pc'[p] \in Early => taken'[p] = {}
  BY EarlyStep
<1>3. ASSUME pc'[p] = "download", NEW mid \in Owed(p)' PROVE Holds(p, mid)'
  <2>1. CASE AnswerInbound(p)
    BY <1>3, <2>1, AnswerOwes
  <2>2. CASE ~AnswerInbound(p)
    <3>1. mid \in Owed(p)
      BY <1>0, <1>3, <2>2, OwedStep
    <3>2. pc[p] = "download"
      BY <1>0, <1>3, <2>2 DEF TypeOK, Step, Proceed, CmsProceed, AccountSetup, Compose, SyncFake,
         LocalCommand, SyncStart, SaveBegin, SaveEnd, Crash, PassTurn, OfferOutbox, ReadAnswers,
         SendNext, OutboundDone, Download, InboundDone, NothingInbound, CmsQuit, Fail, HungUp,
         Unsendable, GiveUp, CmsPassed, CmsAnswer, CmsReceive, CmsOffer, CmsOffersNothing,
         CmsAnswered, CmsSend, CmsSent, CmsEnd, CmsTidy, CmsDrop, CmsClose
    <3> QED
      BY <1>0, <1>3, <3>1, <3>2, DownloadHolds DEF Receipts
  <2> QED
    BY <2>1, <2>2
<1>4. ASSUME Bye(p)', NEW mid \in Owed(p)' PROVE Kept(mid)'
  <2>1. CASE Bye(p) /\ ~SyncStart(p)
    <3>1. ~AnswerInbound(p)
      BY <1>0, <2>1 DEF Receipts, AnswerInbound, InSession
    <3>2. mid \in Owed(p)
      BY <1>0, <1>4, <3>1, OwedStep
    <3>3. Kept(mid)
      BY <1>0, <2>1, <3>2 DEF Receipts
    <3> QED
      BY <3>3, KeptStep
  <2>2. CASE InboundDone(p)
    <3>1. pc[p] = "download" /\ ~AnswerInbound(p) /\ want[p] = {}
      BY <2>2 DEF InboundDone, AnswerInbound
    <3>2. mid \in Owed(p)
      BY <1>0, <1>4, <3>1, OwedStep
    <3>3. StoredId(mid) \in IdsOf(mem[p])
      BY <1>0, <3>1, <3>2 DEF Receipts, Holds
    <3>4. pc'[p] \in AtSave /\ mem' = mem
      BY <1>0, <2>2 DEF InboundDone, TypeOK, AtSave
    <3> QED
      BY <3>3, <3>4 DEF Kept
  <2>3. CASE NothingInbound(p)
    <3>1. pc[p] = "listen" /\ taken' = taken /\ offer' = offer /\ ~AnswerInbound(p)
      <4>1. pc'[p] = "truncate"
        BY <1>0, <2>3 DEF NothingInbound, TypeOK
      <4>2. ~AnswerInbound(p)
        BY <1>0, <4>1 DEF AnswerInbound, TypeOK
      <4> QED
        BY <2>3, <4>2 DEF NothingInbound
    <3>2. mid \in Owed(p)
      BY <1>0, <1>4, <3>1, OwedStep
    <3>3. taken[p] = {} /\ Answering(p) = {}
      BY <1>0, <3>1 DEF Receipts, Early, Positions, Answering
    <3> QED
      BY <3>2, <3>3 DEF Owed
  <2> QED
    BY <1>0, <1>4, <2>1, <2>2, <2>3, GoodbyeKinds
<1> QED
  BY <1>1, <1>2, <1>3, <1>4 DEF Receipts

\* The initial states.
LEMMA DeliveryInvInit == Init => DeliveryInv
<1> SUFFICES ASSUME Init PROVE DeliveryInv
  OBVIOUS
<1>1. /\ IInv /\ disk = NewStore /\ accepted = {} /\ delivered = {} /\ file = "absent"
      /\ \A p \in Proc : pc[p] = "idle" /\ up[p] = <<>> /\ taken[p] = {}
  BY IInvInit DEF Init
<1>2. ExclusiveInv
  BY <1>1 DEF ExclusiveInv, Active
<1>3. \A p \in Proc : UpIds(p) /\ CopyIds(p) /\ Receipts(p)
  BY <1>1, EmptyLines DEF UpIds, CopyIds, Active, Receipts, InSession, Bye
<1>4. GoodStore(disk)
  BY <1>1 DEF GoodStore, IdsOf, NewStore
<1>5. AcceptedIds = {}
  BY <1>1 DEF AcceptedIds
<1> QED
  BY <1>1, <1>2, <1>3, <1>4, <1>5 DEF DeliveryInv

\* Another process's receipts stay good.
LEMMA ReceiptsOthers ==
  ASSUME Exclusive, ~Crashes, DeliveryInv, NEW p \in Proc, Step(p), NEW q \in Proc, Same(q)
  PROVE  Receipts(q)'
<1>1. Receipts(q)
  BY DEF DeliveryInv
<1>2. Owed(q)' = Owed(q) /\ (Bye(q)' <=> Bye(q))
  BY DEF Owed, Answering, Bye, Same
<1>3. \A mid : Holds(q, mid) => Holds(q, mid)'
  BY DEF Holds, Same
<1>4. \A mid : Kept(mid) => Kept(mid)'
  BY KeptStep
<1>5. (pc[q] = "download")' => \A mid \in Owed(q)' : Holds(q, mid)'
  BY <1>1, <1>2, <1>3 DEF Receipts, Same
<1>6. Bye(q)' => \A mid \in Owed(q)' : Kept(mid)'
  BY <1>1, <1>2, <1>4 DEF Receipts
<1>7. (pc'[q] \in InSession => ~Bye(q)') /\ (pc'[q] \in Early => taken'[q] = {})
  BY <1>1, <1>2 DEF Receipts, Same
<1> QED
  BY <1>5, <1>6, <1>7 DEF Receipts

\* Every step keeps the invariant.
LEMMA DeliveryInvNext ==
  ASSUME Exclusive, ~Crashes, NoBorrowedMid, DeliveryInv, [Next]_vars
  PROVE  DeliveryInv'
<1>1. IInv'
  BY IInvNext DEF DeliveryInv
<1>2. CASE UNCHANGED vars
  <2>1. UNCHANGED <<file, disk, mem, pc, offer, want, up, taken, accepted, delivered>>
    BY <1>2 DEF vars, local, remote, wire
  <2>2. ExclusiveInv' /\ AcceptedIds' \subseteq GoodIds /\ GoodStore(disk)'
    BY <2>1 DEF DeliveryInv, ExclusiveInv, Active, AcceptedIds
  <2>3. \A p \in Proc : UpIds(p)' /\ CopyIds(p)' /\ Receipts(p)'
    <3> TAKE p \in Proc
    <3>1. UpIds(p) /\ CopyIds(p) /\ Receipts(p)
      BY DEF DeliveryInv
    <3>2. UpIds(p)' /\ CopyIds(p)'
      BY <2>1, <3>1 DEF UpIds, CopyIds, Active
    <3>3. Receipts(p)'
      BY <2>1, <3>1 DEF Receipts, Owed, Answering, Bye, Holds, Kept
    <3> QED
      BY <3>2, <3>3
  <2>4. \A mid \in delivered' : Kept(mid)'
    BY <2>1 DEF DeliveryInv, Kept
  <2> QED
    BY <1>1, <2>2, <2>3, <2>4 DEF DeliveryInv
<1>3. ASSUME NEW p \in Proc, Step(p) PROVE DeliveryInv'
  <2>1. /\ TypeInv /\ TypeOK /\ ExclusiveInv /\ CopyIds(p) /\ GoodStore(disk)
    BY DEF DeliveryInv, IInv, TypeInv
  <2>2. ExclusiveInv'
    BY <1>3, <2>1, ExclusiveStep
  <2>3. \A q \in Proc \ {p} : Same(q)
    BY <1>3, <2>1, Frame
  <2>4. \/ disk' = disk
        \/ disk' = mem[p] /\ Active(p)
    BY <1>3, <2>1, DiskKinds DEF Active
  <2>5. GoodStore(disk)' /\ AcceptedIds' \subseteq GoodIds
    BY <1>3, <2>1, <2>4, UpIdsStep DEF CopyIds, GoodStore
  <2>6. \A q \in Proc : UpIds(q)'
    <3> TAKE q \in Proc
    <3>1. CASE q = p
      BY <1>3, <3>1, UpIdsStep
    <3>2. CASE q # p
      BY <2>3, <3>2 DEF DeliveryInv, UpIds, Same
    <3> QED
      BY <3>1, <3>2
  <2>7. \A q \in Proc : CopyIds(q)'
    <3> TAKE q \in Proc
    <3>1. CASE q = p
      BY <1>3, <3>1, CopyIdsStep
    <3>2. CASE q # p
      <4>1. Same(q) /\ CopyIds(q) /\ (disk' = disk \/ ~Active(q))
        BY <2>1, <2>3, <2>4, <3>2 DEF DeliveryInv, ExclusiveInv
      <4> QED
        BY <4>1 DEF CopyIds, Active, Same
    <3> QED
      BY <3>1, <3>2
  <2>8. \A q \in Proc : Receipts(q)'
    <3> TAKE q \in Proc
    <3>1. CASE q = p
      BY <1>3, <3>1, ReceiptsStep
    <3>2. CASE q # p
      BY <1>3, <2>3, <3>2, ReceiptsOthers
    <3> QED
      BY <3>1, <3>2
  <2>9. \A mid \in delivered' : Kept(mid)'
    BY <1>3, DeliveredStep, KeptStep
  <2> QED
    BY <1>1, <2>2, <2>5, <2>6, <2>7, <2>8, <2>9 DEF DeliveryInv
<1> QED
  BY <1>2, <1>3 DEF Next

\* One command at a time, never killed while it saves, and no mail of another
\* station naming a second one's MID in its header: what the CMS counts as
\* delivered is in the saved store, or in the copy about to be saved.
THEOREM DeliveredKept == Exclusive /\ ~Crashes /\ NoBorrowedMid => (Spec => []DeliveredIsKept)
<1> SUFFICES ASSUME Exclusive, ~Crashes, NoBorrowedMid PROVE Spec => []DeliveredIsKept
  OBVIOUS
<1>1. DeliveryInv /\ [Next]_vars => DeliveryInv'
  BY DeliveryInvNext
<1>2. DeliveryInv => DeliveredIsKept
  <2> SUFFICES ASSUME DeliveryInv, NEW mid \in delivered
               PROVE  \E s \in {disk} \cup {mem[p] : p \in {q \in Proc : pc[q] \in AtSave}} :
                         StoredId(mid) \in IdsOf(s)
    BY DEF DeliveredIsKept
  <2>1. Kept(mid)
    BY DEF DeliveryInv
  <2> QED
    BY <2>1 DEF Kept
<1> QED
  BY <1>1, <1>2, DeliveryInvInit, PTL DEF Spec

=============================================================================
