---------------------------- MODULE WinlinkSync ----------------------------
(***************************************************************************)
(* The Winlink commands of chattybara as processes that share one store    *)
(* file, and the Telnet/CMS session between such a process and the CMS.    *)
(*                                                                         *)
(* A command (crates/chattybara-cli/src/main.rs, run_winlink) loads the    *)
(* store file into memory, changes the copy, and writes the whole copy     *)
(* back; there is no lock.  fs::write truncates the file and then writes   *)
(* it, so a reader in between, or after a crash in between, finds a file   *)
(* that does not parse.  "winlink sync --transport telnet --live" talks to *)
(* the CMS between the load and the save: it offers its outbox (or passes  *)
(* its turn), then answers and downloads what the CMS offers, and saves    *)
(* only when the session came to its end.                                  *)
(*                                                                         *)
(* up[p] and down[p] are the two directions of p's TCP connection.  Either *)
(* end may give up at any moment (Fail, CmsDrop); what the other end has   *)
(* not read is then lost.  The CMS is not part of the repository; its      *)
(* actions are what the code takes for granted about it.                   *)
(***************************************************************************)
EXTENDS WinlinkStore

CONSTANTS
  Proc,         \* processes (operating-system processes running the CLI)
  Commands,     \* the commands the operator uses
  MaxCompose,   \* bound: messages ever composed
  MaxOffer,     \* bound: proposals in one batch of the CMS
  MaxFaults,    \* bound: broken connections, deferrals and crashes
  Exclusive,    \* TRUE: the operator runs one command at a time
  Crashes,      \* TRUE: a process may be killed while it saves
  SelfMail      \* TRUE: composed mail may be addressed to this very station

ASSUME SyncAssumption ==
  /\ Commands \subseteq {"account", "compose", "fake", "receive", "send"}
  /\ MaxCompose \in Nat /\ MaxOffer \in Nat \ {0} /\ MaxFaults \in Nat
  /\ {Exclusive, Crashes, SelfMail} \subseteq BOOLEAN

VARIABLES
  file,       \* the store file: "absent", "whole", "empty" or "garbled"
  disk,       \* the store of the last completed write, in the file only while it is whole
  mem,        \* each process's copy of the store
  pc,         \* where each process is
  batch,      \* outbound positions offered to the CMS and not yet dealt with
  answers,    \* the CMS's answers to them
  offer,      \* the inbound proposals the process answered
  want,       \* positions of that offer still to be downloaded
  up, down,   \* lines from the process to the CMS, and back
  cms,        \* where the CMS is in its session with each process
  expect,     \* ids the CMS accepted and has not received
  give,       \* positions of the inbound offer the CMS has still to send
  taken,      \* MIDs the CMS will count as delivered when the session ends
  accepted,   \* outbound mail the CMS has, as [id, text]
  delivered,  \* inbound MIDs the CMS counts as delivered
  composed,   \* how many messages were composed
  faults      \* how many faults have happened

local    == <<mem, pc, batch, answers, offer, want>>
remote   == <<cms, expect, give, taken, accepted, delivered>>
wire     == <<up, down>>
counters == <<composed, faults>>
vars     == <<file, disk, local, remote, wire, counters>>

InSession == {"offer", "pass", "answers", "sending", "listen", "download"}
AtSave    == {"truncate", "write"}
Pcs       == {"idle"} \cup InSession \cup AtSave
CmsStates == {"closed", "turn", "recv", "own", "asked", "deliver", "await"}

NoVerdict == [yes |-> {}, have |-> {}]
AcceptedIds == {a.id : a \in accepted}

Init ==
  /\ file = "absent"
  /\ disk = NewStore
  /\ mem = [p \in Proc |-> NewStore]
  /\ pc = [p \in Proc |-> "idle"]
  /\ batch = [p \in Proc |-> {}]
  /\ answers = [p \in Proc |-> NoVerdict]
  /\ offer = [p \in Proc |-> <<>>]
  /\ want = [p \in Proc |-> {}]
  /\ up = [p \in Proc |-> <<>>]
  /\ down = [p \in Proc |-> <<>>]
  /\ cms = [p \in Proc |-> "closed"]
  /\ expect = [p \in Proc |-> {}]
  /\ give = [p \in Proc |-> {}]
  /\ taken = [p \in Proc |-> {}]
  /\ accepted = {}
  /\ delivered = {}
  /\ composed = 0
  /\ faults = 0

IsFirst(i, S) == \A j \in S : i <= j

Goto(p, where) == pc' = [pc EXCEPT ![p] = where]
Say(p, line)   == up' = [up EXCEPT ![p] = Append(@, line)]
Hear(p, kind)  ==
  /\ down[p] # <<>>
  /\ Head(down[p]).t = kind
  /\ down' = [down EXCEPT ![p] = Tail(@)]

-----------------------------------------------------------------------------
(* Loading and saving                                                      *)

\* Wrong on purpose: a file that does not parse counts as no file.
ReadableAlways == TRUE

\* A file that does not parse makes every command fail at once.
Readable == file \in {"absent", "whole"}
Loaded   == IF file = "whole" THEN disk ELSE NewStore

MayStart(p) ==
  /\ pc[p] = "idle"
  /\ Readable
  /\ Exclusive => \A q \in Proc : pc[q] = "idle"

\* A command that changes its copy without talking to anyone.
LocalCommand(p, s) ==
  /\ MayStart(p)
  /\ mem' = [mem EXCEPT ![p] = s]
  /\ Goto(p, "truncate")
  /\ UNCHANGED <<file, disk, batch, answers, offer, want, wire, remote, faults>>

AccountSetup(p) ==
  /\ "account" \in Commands
  /\ LocalCommand(p, SetAccount(Loaded))
  /\ UNCHANGED composed

Compose(p) ==
  /\ "compose" \in Commands
  /\ composed < MaxCompose
  /\ \E fault \in Faults : LocalCommand(p, QueueMessage(Loaded, composed + 1, fault))
  /\ composed' = composed + 1

SyncFake(p) ==
  /\ "fake" \in Commands
  /\ LocalCommand(p, FakeSync(Loaded))
  /\ UNCHANGED composed

SaveBegin(p) ==
  /\ pc[p] = "truncate"
  /\ file' = "empty"
  /\ Goto(p, "write")
  /\ UNCHANGED <<disk, mem, batch, answers, offer, want, wire, remote, counters>>

\* Writing over what another process wrote since this one truncated the file
\* leaves the tail of a longer store behind.
SaveEnd(p) ==
  /\ pc[p] = "write"
  /\ \/ file' = "whole" /\ disk' = mem[p]
     \/ file # "empty" /\ file' = "garbled" /\ UNCHANGED disk
  /\ Goto(p, "idle")
  /\ UNCHANGED <<mem, batch, answers, offer, want, wire, remote, counters>>

\* The process is killed, or the write fails, before the store is complete.
Crash(p) ==
  /\ Crashes
  /\ faults < MaxFaults
  /\ pc[p] \in AtSave
  /\ Goto(p, "idle")
  /\ faults' = faults + 1
  /\ UNCHANGED <<file, disk, mem, batch, answers, offer, want, wire, remote, composed>>

-----------------------------------------------------------------------------
(* The session with the CMS                                                *)

\* Connect and log in: callsign, telnet password, handshake, secure login.
\* A new session reuses nothing of the one before.
SyncStart(p) ==
  /\ MayStart(p)
  /\ cms[p] = "closed"
  /\ mem' = [mem EXCEPT ![p] = Loaded]
  /\ \/ "send" \in Commands /\ Goto(p, "offer")
     \/ "receive" \in Commands /\ Goto(p, "pass")
  /\ batch' = [batch EXCEPT ![p] = {}]
  /\ answers' = [answers EXCEPT ![p] = NoVerdict]
  /\ offer' = [offer EXCEPT ![p] = <<>>]
  /\ want' = [want EXCEPT ![p] = {}]
  /\ up' = [up EXCEPT ![p] = <<>>]
  /\ down' = [down EXCEPT ![p] = <<>>]
  /\ cms' = [cms EXCEPT ![p] = "turn"]
  /\ expect' = [expect EXCEPT ![p] = {}]
  /\ give' = [give EXCEPT ![p] = {}]
  /\ taken' = [taken EXCEPT ![p] = {}]
  /\ UNCHANGED <<file, disk, accepted, delivered, counters>>

PassTurn(p) ==
  /\ pc[p] = "pass"
  /\ Say(p, [t |-> "FF"])
  /\ Goto(p, "listen")
  /\ UNCHANGED <<file, disk, mem, batch, answers, offer, want, down, remote, counters>>

\* send_outbox_messages, up to the checksum line that ends the proposals.
OfferOutbox(p) ==
  LET box == OutboundBatch(mem[p]) IN
  /\ pc[p] = "offer"
  /\ \A i \in box : mem[p].msgs[i].fault # "attachment"
  /\ IF box = {}
     THEN Say(p, [t |-> "FF"]) /\ Goto(p, "listen")
     ELSE /\ Say(p, [t |-> "outbound",
                     mids |-> {[at |-> i, id |-> mem[p].msgs[i].id] : i \in box}])
          /\ Goto(p, "answers")
  /\ batch' = [batch EXCEPT ![p] = box]
  /\ UNCHANGED <<file, disk, mem, answers, offer, want, down, remote, counters>>

ReadAnswers(p) ==
  /\ pc[p] = "answers"
  /\ Hear(p, "FS")
  /\ answers' = [answers EXCEPT ![p] = Head(down[p]).verdict]
  /\ Goto(p, "sending")
  /\ UNCHANGED <<file, disk, mem, batch, offer, want, up, remote, counters>>

\* One turn of the loop over the answers, oldest message first.
SendNext(p) ==
  /\ pc[p] = "sending"
  /\ \E i \in batch[p] :
       LET m == mem[p].msgs[i] IN
       /\ IsFirst(i, batch[p])
       /\ \/ /\ i \in answers[p].yes
             /\ m.fault # "title"
             /\ Say(p, [t |-> "mail", mid |-> m.id, text |-> m.text])
          \/ /\ i \notin answers[p].yes
             /\ UNCHANGED up
       /\ mem' = [mem EXCEPT ![p] = Answered(@, i, answers[p])]
       /\ batch' = [batch EXCEPT ![p] = @ \ {i}]
  /\ UNCHANGED <<file, disk, pc, answers, offer, want, down, remote, counters>>

OutboundDone(p) ==
  /\ pc[p] = "sending"
  /\ batch[p] = {}
  /\ Goto(p, "listen")
  /\ UNCHANGED <<file, disk, mem, batch, answers, offer, want, wire, remote, counters>>

AnswerInbound(p) ==
  LET mids == Head(down[p]).mids
      said == InboundAnswers(mem[p], mids)
  IN
  /\ pc[p] = "listen"
  /\ Hear(p, "inbound")
  /\ Say(p, [t |-> "FS", verdict |-> said])
  /\ offer' = [offer EXCEPT ![p] = mids]
  /\ want' = [want EXCEPT ![p] = said.yes]
  /\ Goto(p, "download")
  /\ UNCHANGED <<file, disk, mem, batch, answers, remote, counters>>

Download(p) ==
  /\ pc[p] = "download"
  /\ Hear(p, "mail")
  /\ \E k \in want[p] :
       /\ IsFirst(k, want[p])
       /\ mem' = [mem EXCEPT ![p] = UpsertReceived(@, offer[p][k], Head(down[p]).text)]
       /\ want' = [want EXCEPT ![p] = @ \ {k}]
  /\ UNCHANGED <<file, disk, pc, batch, answers, offer, up, remote, counters>>

\* Wrong on purpose: downloads are not saved.
InboundDoneUnsaved(p) ==
  /\ pc[p] = "download"
  /\ want[p] = {}
  /\ Say(p, [t |-> "FQ"])
  /\ Goto(p, "idle")
  /\ UNCHANGED <<file, disk, mem, batch, answers, offer, want, down, remote, counters>>

InboundDone(p) ==
  /\ pc[p] = "download"
  /\ want[p] = {}
  /\ Say(p, [t |-> "FQ"])
  /\ Goto(p, "truncate")
  /\ UNCHANGED <<file, disk, mem, batch, answers, offer, want, down, remote, counters>>

NothingInbound(p) ==
  /\ pc[p] = "listen"
  /\ Hear(p, "FF")
  /\ Say(p, [t |-> "FQ"])
  /\ Goto(p, "truncate")
  /\ UNCHANGED <<file, disk, mem, batch, answers, offer, want, remote, counters>>

CmsQuit(p) ==
  /\ pc[p] = "listen"
  /\ Hear(p, "FQ")
  /\ Goto(p, "truncate")
  /\ UNCHANGED <<file, disk, mem, batch, answers, offer, want, up, remote, counters>>

\* Wrong on purpose: a session that failed half-way is saved as far as it got.
GiveUpSaving(p) ==
  /\ pc[p] \in InSession
  /\ Goto(p, "truncate")
  /\ UNCHANGED <<file, disk, mem, batch, answers, offer, want, wire, remote, composed>>

\* Every "?" of telnet_cms_receive_sync: the copy is dropped, nothing is saved.
GiveUp(p) ==
  /\ pc[p] \in InSession
  /\ Goto(p, "idle")
  /\ UNCHANGED <<file, disk, mem, batch, answers, offer, want, wire, remote, composed>>

\* The network, a timeout, or a line or transfer that does not check out.
Fail(p) ==
  /\ faults < MaxFaults
  /\ faults' = faults + 1
  /\ GiveUp(p)

\* Wrong on purpose: a reader without a timeout.
HungUpUnnoticed(p) == FALSE

\* The connection the CMS dropped answers nothing any more.
HungUp(p) ==
  /\ cms[p] = "closed"
  /\ down[p] = <<>>
  /\ pc[p] \in {"answers", "listen", "download"}
  /\ pc[p] = "download" => want[p] # {}
  /\ UNCHANGED faults
  /\ GiveUp(p)

\* A message that cannot be sent ends the session it is offered in.
Unsendable(p) ==
  /\ \/ /\ pc[p] = "offer"
        /\ \E i \in OutboundBatch(mem[p]) : mem[p].msgs[i].fault = "attachment"
     \/ /\ pc[p] = "sending"
        /\ \E i \in batch[p] \cap answers[p].yes :
             IsFirst(i, batch[p]) /\ mem[p].msgs[i].fault = "title"
  /\ UNCHANGED faults
  /\ GiveUp(p)

-----------------------------------------------------------------------------
(* The CMS, as far as the code relies on it.  It reads and writes lines in *)
(* order, keeps mail by MID, says "already received" only of mail it has,  *)
(* speaks again only when it has read every transfer it asked for, and     *)
(* counts its own mail as delivered only when the station ends the session *)
(* after having answered for it.                                           *)

CmsSays(p, line) == down' = [down EXCEPT ![p] = Append(@, line)]
CmsHears(p, kind) ==
  /\ up[p] # <<>>
  /\ Head(up[p]).t = kind
  /\ up' = [up EXCEPT ![p] = Tail(@)]
CmsGoto(p, where) == cms' = [cms EXCEPT ![p] = where]

CmsPassed(p) ==
  /\ cms[p] = "turn"
  /\ CmsHears(p, "FF")
  /\ CmsGoto(p, "own")
  /\ UNCHANGED <<file, disk, local, down, expect, give, taken, accepted, delivered, counters>>

\* An answer that defers something counts against MaxFaults.
CmsAnswer(p) ==
  LET props == Head(up[p]).mids IN
  /\ cms[p] = "turn"
  /\ CmsHears(p, "outbound")
  /\ \E later \in SUBSET props :
       LET have == {m \in props \ later : m.id \in AcceptedIds}
           yes  == props \ (later \cup have)
       IN
       /\ IF later = {} THEN UNCHANGED faults
                        ELSE faults < MaxFaults /\ faults' = faults + 1
       /\ CmsSays(p, [t |-> "FS", verdict |-> [yes |-> {m.at : m \in yes},
                                              have |-> {m.at : m \in have}]])
       /\ expect' = [expect EXCEPT ![p] = {m.id : m \in yes}]
       /\ CmsGoto(p, IF yes = {} THEN "own" ELSE "recv")
  /\ UNCHANGED <<file, disk, local, give, taken, accepted, delivered, composed>>

CmsReceive(p) ==
  LET line == Head(up[p]) IN
  /\ cms[p] = "recv"
  /\ CmsHears(p, "mail")
  /\ line.mid \in expect[p]
  /\ accepted' = IF line.mid \in AcceptedIds THEN accepted
                 ELSE accepted \cup {[id |-> line.mid, text |-> line.text]}
  /\ expect' = [expect EXCEPT ![p] = @ \ {line.mid}]
  /\ CmsGoto(p, IF expect[p] = {line.mid} THEN "own" ELSE "recv")
  /\ UNCHANGED <<file, disk, local, down, give, taken, delivered, counters>>

\* Mail waiting for the station: other stations', and its own if it wrote to itself.
Waiting == (ForeignMids \cup (IF SelfMail THEN AcceptedIds ELSE {})) \ delivered
TextOf(mid) ==
  IF mid \in ForeignMids THEN mid ELSE (CHOOSE a \in accepted : a.id = mid).text

CmsOffer(p) ==
  /\ cms[p] = "own"
  /\ \E n \in 1..MaxOffer : \E mids \in [1..n -> Waiting] :
       CmsSays(p, [t |-> "inbound", mids |-> mids])
  /\ CmsGoto(p, "asked")
  /\ UNCHANGED <<file, disk, local, up, expect, give, taken, accepted, delivered, counters>>

CmsOffersNothing(p) ==
  /\ cms[p] = "own"
  /\ \/ CmsSays(p, [t |-> "FF"]) /\ CmsGoto(p, "await")
     \/ CmsSays(p, [t |-> "FQ"]) /\ CmsGoto(p, "closed")
  /\ UNCHANGED <<file, disk, local, up, expect, give, taken, accepted, delivered, counters>>

CmsAnswered(p) ==
  LET said == Head(up[p]).verdict IN
  /\ cms[p] = "asked"
  /\ CmsHears(p, "FS")
  /\ give' = [give EXCEPT ![p] = said.yes]
  /\ taken' = [taken EXCEPT ![p] = {offer[p][k] : k \in said.yes \cup said.have}]
  /\ CmsGoto(p, "deliver")
  /\ UNCHANGED <<file, disk, local, down, expect, accepted, delivered, counters>>

CmsSend(p) ==
  /\ cms[p] = "deliver"
  /\ \E k \in give[p] :
       /\ IsFirst(k, give[p])
       /\ CmsSays(p, [t |-> "mail", mid |-> offer[p][k], text |-> TextOf(offer[p][k])])
       /\ give' = [give EXCEPT ![p] = @ \ {k}]
  /\ UNCHANGED <<file, disk, local, up, cms, expect, taken, accepted, delivered, counters>>

CmsSent(p) ==
  /\ cms[p] = "deliver"
  /\ give[p] = {}
  /\ CmsGoto(p, "await")
  /\ UNCHANGED <<file, disk, local, wire, expect, give, taken, accepted, delivered, counters>>

CmsEnd(p) ==
  /\ cms[p] = "await"
  /\ CmsHears(p, "FQ")
  /\ delivered' = delivered \cup taken[p]
  /\ CmsGoto(p, "closed")
  /\ UNCHANGED <<file, disk, local, down, expect, give, taken, accepted, counters>>

CmsClose(p) ==
  /\ cms[p] # "closed"
  /\ CmsGoto(p, "closed")
  /\ UNCHANGED <<file, disk, local, wire, expect, give, taken, accepted, delivered, composed>>

CmsDrop(p) ==
  /\ faults < MaxFaults
  /\ faults' = faults + 1
  /\ CmsClose(p)

\* The station is gone and everything it wrote has been read.
CmsTidy(p) ==
  /\ pc[p] = "idle"
  /\ up[p] = <<>>
  /\ UNCHANGED faults
  /\ CmsClose(p)

-----------------------------------------------------------------------------
\* A command in progress goes on ...
Proceed(p) ==
  \/ SaveBegin(p) \/ SaveEnd(p) \/ PassTurn(p) \/ OfferOutbox(p)
  \/ ReadAnswers(p) \/ SendNext(p) \/ OutboundDone(p)
  \/ AnswerInbound(p) \/ Download(p) \/ InboundDone(p)
  \/ NothingInbound(p) \/ CmsQuit(p) \/ HungUp(p) \/ Unsendable(p)

\* ... the CMS serves a session ...
CmsProceed(p) ==
  \/ CmsPassed(p) \/ CmsAnswer(p) \/ CmsReceive(p)
  \/ CmsOffer(p) \/ CmsOffersNothing(p) \/ CmsAnswered(p)
  \/ CmsSend(p) \/ CmsSent(p) \/ CmsEnd(p) \/ CmsTidy(p)

\* ... the operator starts a command, or something breaks.
Step(p) ==
  \/ AccountSetup(p) \/ Compose(p) \/ SyncFake(p) \/ SyncStart(p)
  \/ Proceed(p) \/ CmsProceed(p)
  \/ Crash(p) \/ Fail(p) \/ CmsDrop(p)

Next == \E p \in Proc : Step(p)

Spec == Init /\ [][Next]_vars

-----------------------------------------------------------------------------
(* Types                                                                   *)

UpLine ==
  [t: {"FF", "FQ"}] \cup [t: {"FS"}, verdict: Verdict]
  \cup [t: {"outbound"}, mids: SUBSET [at: Nat, id: Ids]]
  \cup [t: {"mail"}, mid: Ids, text: Ids]

DownLine ==
  [t: {"FF", "FQ"}] \cup [t: {"FS"}, verdict: Verdict]
  \cup [t: {"inbound"}, mids: Seq(Ids)]
  \cup [t: {"mail"}, mid: Ids, text: Ids]

\* Every variable of WinlinkSync holds a value of its type.
TypeOK ==
  /\ file \in {"absent", "whole", "empty", "garbled"}
  /\ disk \in Store
  /\ mem \in [Proc -> Store]
  /\ pc \in [Proc -> Pcs]
  /\ batch \in [Proc -> SUBSET Nat]
  /\ answers \in [Proc -> Verdict]
  /\ offer \in [Proc -> Seq(Ids)]
  /\ want \in [Proc -> SUBSET Nat]
  /\ up \in [Proc -> Seq(UpLine)]
  /\ down \in [Proc -> Seq(DownLine)]
  /\ cms \in [Proc -> CmsStates]
  /\ expect \in [Proc -> SUBSET Ids]
  /\ give \in [Proc -> SUBSET Nat]
  /\ taken \in [Proc -> SUBSET Ids]
  /\ accepted \in SUBSET [id: Ids, text: Ids]
  /\ delivered \in SUBSET Ids
  /\ composed \in Nat /\ faults \in Nat

-----------------------------------------------------------------------------
(* Safety                                                                  *)

\* Once the saved store says a message went out over Telnet/CMS, the CMS has
\* mail under that id: send_outbox_messages marks a message sent as soon as
\* its bytes are written, before the CMS has confirmed anything, but the mark
\* is saved only after the CMS has spoken again.
SentWasAccepted ==
  \A i \in SentOver(disk, "telnet") : disk.msgs[i].id \in AcceptedIds

\* The mail the saved store knows to be with the CMS: a self-addressed message
\* that came back has replaced its copy in Sent.
KnownSent ==
  {disk.msgs[i].text : i \in {j \in DOMAIN disk.msgs :
      disk.msgs[j].via = "telnet" /\ disk.msgs[j].text \in Nat}}

\* The saved texts that there still are: those of the file, or, from the moment it is
\* truncated, those in the memory of the process that is about to write it.
Held ==
  IF file \in {"absent", "whole"} THEN TextsOf(disk)
  ELSE TextsOf(disk) \cap UNION {TextsOf(mem[p]) : p \in {q \in Proc : pc[q] = "write"}}

Promise == INSTANCE MailPromise WITH
  Texts <- Ids, MayLose <- Crashes,
  kept <- Held, lost <- TextsOf(disk) \ Held,
  has <- {a.text : a \in accepted}, sent <- KnownSent \cap Held

\* WinlinkSync implements MailPromise: through failed sessions, retries and
\* deferrals no saved text is lost, none reaches the CMS unsaved, and one is
\* marked sent only if the CMS has that very text.  A process killed while it
\* writes the file (fs::write has truncated it) loses the whole store and
\* nothing less; a new one is never begun in its place.  One killed before
\* that loses nothing that was saved.
KeepsPromise == Promise!Spec

\* What the CMS counts as delivered is in the saved store, or in the copy of
\* the one process that is about to save it.
DeliveredIsKept ==
  \A mid \in delivered :
    \E s \in {disk} \cup {mem[p] : p \in {q \in Proc : pc[q] \in AtSave}} :
       StoredId(mid) \in IdsOf(s)

-----------------------------------------------------------------------------
(* Liveness                                                                *)

\* A command runs to its end, the CMS keeps talking and closes a session whose
\* other end is gone, and the operator syncs again and again.
FairSpec ==
  /\ Spec
  /\ \A p \in Proc :
       /\ WF_vars(Proceed(p))
       /\ WF_vars(CmsProceed(p))
       /\ SF_vars(SyncStart(p))

\* Mail in the saved outbox gets through in the end, whatever failed before,
\* unless a message that can never be sent blocks the outbox, the operator
\* diverts it with a fake sync, or a command was killed just as it wrote the store.
NothingBlocks ==
  \A i \in DOMAIN disk.msgs : disk.msgs[i].fault = "none" /\ disk.msgs[i].via # "fake"

OutboxGetsThrough ==
  []NothingBlocks /\ []<>Readable =>
    \A n \in 1..MaxCompose : (n \in TextsOf(disk)) ~> (n \in KnownSent)
=============================================================================
