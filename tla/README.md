# A verification of chattybara

TLA+ models of chattybara (a Rust workspace: a chat, mail and station program for
amateur radio), TLC configurations that check them on small instances, and TLAPS
proofs of what holds for every size. Paths below are relative to the repository;
`lib.rs` alone means the crate's `crates/<crate>/src/lib.rs`.

    tlc -config winlink_exclusive.cfg MCWinlinkSync      # a run
    tlapm WinlinkProofs.tla                              # the proofs
    tlapm LiveProofs.tla                                 # of LiveChat and RigPtt
    tlapm NodeProofs.tla
    tlapm SubsequenceProofs.tla                          # lemmas several of them cite
    tlapm TerminalProofs.tla
    tlapm PeerProofs.tla
    tlapm AppProofs.tla
    tlapm AdapterProofs.tla

## 1. Inventory

| Component | State | Operations | Hard behaviour | What makes it correct |
|---|---|---|---|---|
| **Winlink mailbox and Telnet/CMS sync** (`chattybara-winlink/src/lib.rs`, `run_winlink` in `chattybara-cli/src/main.rs`) | one JSON store file per station: account, next sequence number, messages with folder, transport, last error; during a sync the in-memory copy and a B2F session with the CMS | account setup, compose, fake sync, live sync (receive only, or offering the outbox first) | load-modify-save without a lock; `fs::write` truncates first; the copy is saved only when the whole session worked; marks are set before the CMS confirmed anything; retries depend on the CMS remembering ids | no saved text is lost; the CMS gets only saved mail; *sent* means the CMS has it; ids are never reused; delivered mail is stored; the outbox drains |
| **Live local chat node** (`LocalLiveNode`, `chattybara-cli/src/local_peer.rs` 661-1006) | a TCP connection as link, `connected_peer`, chat log, reader thread with a channel | connect, send text, disconnect, poll events | two ends decide independently; CONNECT may cross; events of one poll are lost when one frame fails; the closed link is never surfaced | the two ends agree on the session once the wire is quiet; every received text was sent |
| **Scripted local nodes** (`LocalNodeSession`, 1630-2285) **and local peer session** (`LocalPeerSession`, 1008-1622) | two (or one) nodes per script, link, bytes in flight | CONNECT, SEND, EXPECT, file transfer, DISCONNECT | blocking reads on both ends, a script that goes on after an error, half-read frames | no mutual wait; what EXPECT takes is the next frame |
| **Chat backend and app model** (`chattybara-chat/src/lib.rs`) | `FakeBackend`: session, messages, sequence; `ChatAppModel`: messages, beacons, offers with one sequence | connect, send, receive, disconnect, beacon, CQ, mail, file offer | a sequence number is used up by a request that then fails validation | sequences are unique and ordered; only a connected peer's text is recorded |
| **Script runners, transcripts, peer logs** (`chattybara-chat/src/lib.rs` 559-1007) | expected and seen transcripts | run script, parse, compare | mirrored directions; comparison by position | logs of one conversation pass, and logs that pass tell the same texts |
| **CBAPP/1 application protocol** (`app_protocol.rs`) | counter for ids, ids seen; counters of a delivery | build, fragment, observe, reassemble, simulate reliable delivery with loss, duplication, retries | duplicates across retries; missing, repeated or mixed fragments; ids that two processes use | taken once or reported; the whole payload or an error |
| **Live audio modem and PTT** (`live_audio.rs`) | PTT state, output cursor, input buffer | key, play, record, unkey | an error between key and unkey leaves the transmitter keyed | every path that keys also unkeys |
| **rigctld client** (`hamlib.rs`) | a TCP connection per command | set PTT, read frequency, mode, PTT | half replies, `RPRT` errors | a reported success was acknowledged |
| **Terminal UI** (`tui.rs`) | backend, app model, screen, setup | commands, setup, poll, save session | the model records a request before the backend may refuse it; a start that fails or waits beside a running session; files saved one after the other | packet reports and log agree; a session is replaced whole or not at all; a saved report stands for a saved session |
| **External adapters** (`external_adapters.rs`) | none of their own; what the radio programs keep: fldigi's received and queued text | read from a fixture or live, send one message, write the event log | a send that failed half way and is tried again; lost answers; reads bounded by a count and a timeout | on the air goes what was asked for, once; the run ends |
| **Station guard and event log** (`chattybara-station/src/lib.rs`) | the event log file | validate an action, write a log, replay it | a log that is written over and breaks off | a log replays the run that wrote it |
| **IC-705, radio profiles, audio devices** (`ic705.rs`, `radio_profile.rs`, `audio_devices.rs`) | none of their own | probe devices, build command lines, parse reports | none beyond I/O | - |
| **CLI, lab, corpus, modem commands** (`main.rs`) | none of their own | parse arguments, run one operation, print JSON; DSP is in the external `orca` crates | none beyond I/O | - |

How they interact. The CLI and the TUI call the components directly; nothing is
shared in memory between processes. The Winlink commands share the store file.
Two chat nodes share a TCP connection that stands for the radio link; inside a
live node a reader thread hands frames to the owner through a channel. The TUI
holds a chat backend and a `ChatAppModel` and polls the backend every 200 ms. Live
audio drives the radio through a PTT callback to `hamlib.rs`.

## 2. Plan

Order of the modules, the most important behaviour first:

1. `WinlinkStore`, `WinlinkSync`, `MailPromise`, `WinlinkProofs`: the only durable
   state and the only live remote partner. *Done.*
2. `ChatBackend`, `LiveChat`, `TalkPromise`, `LiveProofs`: two live nodes with their
   link and terminals; `Subsequences` and `SubsequenceProofs`, what is picked from a
   list. *Done.*
3. `NodeScript` (two scripted processes, blocking reads and writes, frame alignment),
   `ChatLogs` (the log and script commands as operators) and `SessionLogs`, which
   composes them; `PeerScript` (both stations in one process); `NodeProofs`,
   `PeerProofs`. *Done.*
4. `RigPtt`: keying the transmitter through rigctld; its proofs stand with those about the
   live chat in `LiveProofs`. *Done.*
5. `AppPackets` (CBAPP/1 as pure operators), `AppLink` (the command that builds and
   delivers, and a caller that gathers packets from a worse link), `DeliveryPromise`,
   `AppProofs`. *Done.*
6. `Terminal`, `TerminalProofs`: setup, backend switches, in-process chat and session
   saving. *Done.* Still to come: the switch composed with the frames of `LiveChat`.
7. `ExternalAdapter`, `AdapterProofs`: the commands that use other radio programs, and the
   event log. *Done.*
8. B2F framing arithmetic as pure operators checked against reference definitions.

Abstract specifications: `MailPromise`, `TalkPromise`, `DeliveryPromise`. Every invariant
and every action property that a passing run checks has a theorem; liveness stays with
TLC.

## 3. Winlink

`WinlinkStore` is the mailbox as pure operators, one per function of `lib.rs` that
reads or changes a store. `WinlinkSync` has the processes (operating-system
processes running a `winlink` command), the store file, the two directions of the
TCP connection and the CMS.

| Code | Model |
|---|---|
| `WinlinkStore` as loaded | `mem[p]`; the file is `file` (absent, whole, empty after truncation, garbled) with the last complete content in `disk` |
| `load_or_new` | `Loaded`, guarded by `Readable`: a file that does not parse is an error |
| `save` = `fs::write` | `SaveBegin` (truncate), `SaveEnd` (content), `Crash` in between |
| what there still is of the saved mail | `Held`: the texts in the file, or, while it is truncated, those in the memory of the process that writes it |
| `account setup`, `compose`, `sync --transport fake` | `AccountSetup`, `Compose`, `SyncFake` |
| `telnet_cms_receive_sync` | `SyncStart` ... `CmsQuit`, one action per line written or awaited |
| a `?` anywhere in it | `Fail`, `HungUp`, `Unsendable`: the copy is dropped, nothing is saved |
| the CMS | `CmsPassed` ... `CmsDrop`: external, what the code takes for granted |

A message is its id, folder, transport, last error, a text that stands for
from/to/subject/body/attachments, and the point where sending it would fail. The
text of a composed message is the number of its composition, so two messages under
one id can be told apart. Logins, SIDs, checksums, compression and chunk framing are
abstracted into "the line arrives" or `Fail`.

Assumed of the CMS: it keeps mail by MID, says *already received* only of mail it
has, speaks again only after it has read every transfer it asked for, and counts
its own mail as delivered once the station answered for it and ended the session.

| Run | Question | Result |
|---|---|---|
| `winlink_exclusive` | one command at a time, batches of two in both directions, duplicates, a differing `Mid` header, fake sync, mail to oneself, one fault | `KeepsPromise` (refines `MailPromise`), `SentWasAccepted`, `DeliveredIsKept`, `TypeOK` hold; no deadlock |
| `winlink_liveness` | two processes one after the other, a new sync while the CMS still reads a broken one's bytes, two faults, a process that dies as it saves | `OutboxGetsThrough` and `KeepsPromise` hold; what a death costs is below |

What `KeepsPromise` says of a process that dies. `disk` is the last content written in
full, and no longer on the disk once `SaveBegin` has truncated the file; the promise is
therefore about `Held`, not about `disk`. Killed before the truncation, a process loses
nothing that was saved. Killed between truncation and content, it loses every saved text
(`LoseAll` of `MailPromise`), as there is no copy beside the one file. What the promise
adds is that nothing less than all is lost, that no other step loses anything, and that
`Save` is over then: no later command takes the file that does not parse for an empty
store and begins anew with ids the CMS already knows (the mutant `ReadableAlways` does).

Bounds. Two composed messages are needed for ids to collide, for a batch to carry two
(`winlink_exclusive`) or to leave one behind (`winlink_liveness`) and for a stale copy to
lose one; one fault lets a session break at any point, two let a retry break or be
deferred as well; two proposals in one inbound batch may repeat a mid and mix answers. `CHECK_DEADLOCK FALSE` stands only where the
code really stops: after a crash or an overlapping write the file may not parse, and
then every command fails.

Fairness (`FairSpec`). A command in progress goes on (each read has a timeout), the
CMS goes on, and the operator syncs again and again (strong fairness of `SyncStart`,
which other commands disable now and then). Faults and deferrals are finite by
`MaxFaults`.

What is not claimed. That mail survives a process killed while it writes the store: all of
it is lost, as said above. With two commands at once (`SentWasAccepted` still holds then, by
the theorem `SentAccepted`) the later save wins and may drop a
message or move one back to the outbox. A crash between `FQ` and the save loses mail the
CMS counts as delivered. A message that cannot be sent blocks the outbox
(`OutboxGetsThrough` assumes `NothingBlocks`, and that the file can be read again and
again: a crash inside `save` may leave one that does not parse). That a receive-only
sync defers, as docs/winlink.md:16-18 says, is not what the code does: `AnswerInbound`
of the model, like lib.rs, asks for every proposal it can take.

### Proofs (`WinlinkProofs`)

*However many run.* `TypeCorrect` and `SentAccepted` hold for any number of processes and messages, any
batch size, with or without exclusive use and crashes, from `StoreAssumption` and
`SyncAssumption` only. `SentWasAccepted` is not inductive: the marks are made in the copy
long before they are saved. The inductive invariant `IInv` says, for each process, that
the ids *pledged* (marked sent in the copy, or answered for by the CMS and waiting to be
marked) are with the CMS or still expected by it, and that they are all with the CMS
once the CMS has said a line that lets the station go on to save (`Spoken`); that the
outbound line on the wire names the ids of the batch; and that positions in answers point
into the store and the offer (`Positions`, needed for the types). Each action
keeps it because the CMS says nothing after its answers until it expects nothing more,
and a connection dropped before that leaves no such line to read.

*One command at a time.* `PromiseKept` and `DeliveredKept` hold for any number of
messages, batches, sessions and faults under the hypotheses they name, each of which the
code needs:

* `Exclusive`: two commands at once each save the store they loaded, and the later save
  loses what the earlier did.
* `OneMailPerId` (for `PromiseKept`): a mail is stored under the id its header names, and
  over an outgoing message of that id; two mails of other stations with one header id
  would replace each other. `NoBorrowedMid` (for `DeliveredKept`): if one mail's header
  names another's MID, the station says it already has the other.
* `~Crashes` (for `DeliveredKept` only): a process killed between `FQ` and the save loses
  what the CMS counts as delivered. `PromiseKept` holds with crashes too, and says of them
  only that all is lost or nothing, and that nothing is saved after all is lost.

`PromiseKept` is the whole of `KeepsPromise`, as `MailPromise` states no fairness: initial
states map to initial states, and each step saves, accepts, loses all or stutters. That
`Held` is all of `disk` while some process writes, and nothing when none does and the file
is unreadable (`WhatIsHeld`), is why a death loses all or nothing.
Its invariant `MailInv` says that the one command under way works on a copy of what is
saved, that ids are numbers below the next one, and that what is on its way to the CMS,
or claimed of it, is a text of the store under its own id. `DeliveredKept` needs
`DeliveryInv`: what the station has answered for is in its copy before it says goodbye,
and the copy is saved before anyone else loads.

`OutboxGetsThrough` (liveness) is model-checked only.

## 4. Live chat

`ChatBackend` has the operations of `FakeBackend` and `ChatAppModel` as pure
operators; every chat transport uses them. `LiveChat` has two terminals, each with its
node and its reader thread, and the connection between them.

| Code | Model |
|---|---|
| `FakeBackend`, `ChatAppModel` | `chat[n]`, `app[n]`; beacons, CQ calls, mail and offers are one list, told apart by their addressee |
| an audio frame on the TCP stream | an element of `wire[n]` (written by `n`) |
| `spawn_live_reader` and its channel | `Reader` moves a frame from `wire` to `inbox[n]`; its end is `readerClosed[n]` |
| `LocalLiveNode::poll_events` under `ChatTuiApp` | `PollBegin`, `ReceiveFrame` for each frame waiting, then `PollEnd` or, with the first error, `PollFails`, which drops the events of the poll collected so far |
| `connect`, `send_text`, `disconnect`, app commands | one action each for the whole command: record, send, show; `Refused` when the node or the model refuses |
| `send_payload` | `Written`, or `Unwritten` when the packet is too large, fails its self-decode, or the other end is gone |

Modulation is abstract. The sender decodes its own samples and sends only what
decodes to the payload, so what arrives decodes; this is assumed of the deterministic
decoder. Frames on a closed connection may be lost. BEACON stands for beacon and CQ,
MAIL for mail and file offers. Chunk, fragment and acknowledgement packets are never
sent by a live node.

| Run | Question | Result |
|---|---|---|
| `live_talk` | texts while sessions come and go, local `/rx`, one packet that cannot be sent | `OnlyCrossingSplits`: once nothing is under way the ends disagree exactly if their last CONNECT and DISCONNECT crossed; `LogIsShown`; `KeepsTalk` (refines `TalkPromise`: texts come up once, in order, and are missed only without a session) |
| `live_app` | posts with any addressee, wrongly configured peers, refusals, terminals closed at any moment | `TypeOK`, `FramesInOrder`, `ObservedWasPosted`; `AnnouncedArrives`: a post reaches the peer's app model unless its poll failed or a terminal was closed |

Bounds. Four commands let a connect and a disconnect cross after a session has
already been opened; two texts or posts let a poll take several frames and
lose the earlier with the later; one fault is enough for a session with one end.

Fairness (`live_app` only). The terminal polls every 200 ms and the reader thread
runs, so polls, their steps and reads are weakly fair. Commands are not: nobody has to
type.

What is not claimed. A CONNECT that could not be sent leaves a session with one end
(shown as *half open*). Message events of a failed poll are not shown, though they are
logged. Closing one terminal is never reported to the other.

### Proofs (`LiveProofs`)

From `ChatAssumption` and `LiveAssumption` alone, for any number of commands, faults and
calls:

* `TypeCorrect`: `TypeOK`.
* `InOrder`: `FramesInOrder`. The invariant is `Channels`: for each direction, what one
  node reported as sent is what the other reported as received, then its `inbox`, then
  the `wire`, in order and, while the other runs, completely (`Flow`, `FlowLength`). The
  lemmas `FlowSend`, `FlowRead`, `FlowTake` say how each kind of step keeps it.
* `Posting`: `ObservedWasPosted`. It needs that a post under way (sent and not yet
  observed) is in its sender's own model, which `Channels` alone does not give.
* `Splitting`: `OnlyCrossingSplits`, the theorem with the most in it. `SplitInv` adds to
  `Channels` for each node how its session follows from the last control packet it sent
  or received (`Mode`, with `HasLast`), that packet reports are numbered by position
  (`Numbered`), that all are addressed to the peer once routes are right (`Addressed`),
  and `Causal`: if a node sent its i-th packet after it received the j-th of the other,
  the other received that i-th after it sent its j-th. At rest both nodes have the same
  control packets; `Causal` leaves, of the ways their two last ones can be ordered, only
  agreement or a crossing.

* `Showing`: `LogIsShown`. A message is logged by the poll that takes it and shown when
  the poll ends, so the invariant (`View`, for each end) orders the message lines of the
  screen, then the events collected, below the next number of the log; each number below
  it is in one of the two, or the screen has an error.
* `Talking`: `KeepsTalk`, the whole of it, as `TalkPromise` states no fairness. `TalkInv` is
  `SplitInv`, which keeps what was sent and received in step, with the peer each session
  has (`PeerIsSet`) and with packets that carry texts of users (`SaidTexts`). `TalkSteps`
  sorts the steps into those that say a text, take one packet, or tell nothing.

Logs and reports are compared as what is `Picked` from them (`Subsequences`), and
`SubsequenceProofs` has what that is of a longer list. `Picked` is a recursive function on
positions; what it computes is proved by taking the least position at which it would go
wrong. `FlattenSeq` is taken apart the same way (`AppProofs`), and so are the functions with
which `ChatLogs` runs a script line by line (`NodeProofs`).

`AnnouncedArrives` (liveness) is model-checked only.

## 5. Script nodes (`NodeScript`), their logs (`ChatLogs`, `SessionLogs`) and the local peer session (`PeerScript`)

`NodeScript` has two processes, each with a script; both are chosen in `Init` from
`Scripts`. A command is one action when it does not block, and otherwise one action per
frame.

| Code | Model |
|---|---|
| a line of the script, its `CommandReport` | `Line(n)`, the next element of `results[n]` |
| a command that sends | `SendBegin` records, then per frame `FrameBegin` (the write starts, phase *blocked*) and `FrameEnd` or `SendEnd` (the write returned, the packet is reported) |
| `write_all` into full socket buffers | it returns when at most `Capacity(script)` frames of this direction are unread |
| `EXPECT-...` | `ExpectMet` or `ExpectMissed`: the frame is taken and reported either way |
| `EXPECT-FILE-SEND` | `ExpectMet` for the offer, then `ChunkKept` ... `FileSaved`, or `ChunkMissed`, which leaves the rest unread |
| the end of a process | `Finish`: the other then sees the end of the stream (`HungUp`), its writes fail or go nowhere (*lost*), and unread data resets the connection, which may cost it frames not yet read (`Reset`, external) |
| unreadable files, refused requests, packets too large or not decodable, a full disk | `RequestRefused`, `SendFails`, `SaveFails`, together at most `MaxFaults` |

`PeerScript` has one process with both stations, so a command is one action with six
ways to go: refused by its own station before anything changed, refused by the app model
(which uses up a number), stopped by a packet that was spoilt, refused by the other
station after the transmission, delivered, or not saved.

`ChatLogs` has what the commands do with logs and scripts, one operator per function of
`chattybara-chat`: a log is written, parsed, normalized and compared, a script is run
line by line (`FakeScriptRun`, `RunAppScript`) against the fake backend or the app model. Splitting a line into words is left out; a line
that cannot be read is the verb `unreadable`. `SessionLogs` applies them to the logs two
processes of `NodeScript` leave behind.

| Run | Question | Result |
|---|---|---|
| `node_script` | all pairs of scripts written from one conversation of up to four turns of sessions, messages and files, or of up to three with posts of each kind among them, with turns in which both send before they expect; and all pairs from ones of two turns with one line left out, doubled, swapped or changed, wrongly configured peers and one fault | `ConversationHolds`: in agreed scripts no command fails, all is read, the sessions agree, and logs and posts are what the fake backend and the app model make of the scripts; `ConversationEnds`: no mutual wait. After slips still `HeardWasSaid`, `SavedCameWhole`, `OkMeansDelivered`, `NobodyWaitsForTheGone`, and `PassedLogsAgree`: two logs that `compare-session-logs` passes tell the same texts, and no log with one line altered passes |
| `peer_script` | every script of four commands, one fault | `OkIsBoth`, `OnlyFailedConnectSplits` |

Bounds. The buffers hold the least a conversation can do with: nothing when the stations
take turns, one frame when both send at once; with less, two such writes would wait for
each other. Slipped scripts have one frame. A file of two chunks can break off between
them; four turns are a session opened, used twice and closed, and posts, which need no
session, have three to cross or follow one another in; a slip leaves one side a
frame ahead or behind for the rest of its script, and two turns before or after it are
enough to see that. `CHECK_DEADLOCK FALSE` in `node_script` because slipped scripts really
may wait for each other for ever (that is what a slip costs), and in `peer_script`
because scripts end.

Fairness (`FairSpec` of `NodeScript`). Each process is run by its operating system; a
blocked read or write is not enabled and is not forced.

What is not claimed. `saved` is the list of files a station received and wrote, which the
code reports as `received_files`, and not what is in the directory: each is written under its
safe name (local_peer.rs:1495-1500, 2204-2209), so two files whose safe names are the same
overwrite each other and only the last is there in the end. `OkMeansDelivered`, `OkIsBoth` and
`SavedCameWhole` are about the list. Scripts that are not two sides of a conversation may block, fail
from the first slip on, or end with sessions that disagree after crossing lines. The
comparison goes by position: texts that cross on the way are in another order in the two
logs, and it reports a conversation in which nothing went wrong. `ConversationHolds`
therefore asks for matching logs only where the stations took turns (`InTurns`).

When two scripts are the two sides of one conversation is said of the scripts themselves
(`Agreed`, in `NodeScript`): line by line, one station sends what the other expects, or
both send one frame and then expect the other's; CONNECT finds no session and MSG finds
one. `MCNodeScript` writes its pairs from a conversation, and its assumption `ToldAgrees`
has TLC check that each of them agrees in this sense. `RoomToCross` is the least the
buffers must take, `Waits` a read or write that blocks.

### Proofs about two processes (`NodeProofs`)

From `ScriptAssumption` and `ChatAssumption`, for any two scripts of any length, in step
with each other or not, any buffers, any number of chunks and faults, and any
interleaving. `TypeCorrect` has the types, that a process writes frames under its own call
and to the peer it was given, and that what it has at hand fits what it is at.

`HeardRight` is `HeardWasSaid`. It is not inductive: between a SEND and the EXPECT that
meets it the text is only in frames, and a connection that is reset takes frames away. The
*stream* of a process is what the other one read of it, what is on the wire and what the
command under way has still to write; each step leaves it, appends to it, or loses some
of it (`Loses`). `HeardInv` says that a log of received texts is part of those that were
read, and that the texts of the stream are part of the log of sent ones; being part of a
list is transitive (`SubsequenceProofs`).

`SavedWhole` is `SavedCameWhole`. A process that goes on after a broken transfer reads
chunks of one file while it expects another, so the invariant speaks of neighbours:
`ChainInv`, in the stream to a process that has not ended each chunk stands behind the
part before it, whatever the scripts are; `SavedInv`, the chunks gathered so far are the
last frames read, numbered from the offer on, and each saved file was read whole.

`OkRight` is `OkMeansDelivered`. `BehindInv`: what was read or is on the wire is a
beginning of what was reported as written, and all of it until a process ends. `BookInv`:
while all of its results are true, the log, posts and files of a process are functions of
frames, its own of those it wrote or is about to write (`Told`), the other's of those it
read (`Got`). When all has ended and as much was read as was written, the two lists of
frames are equal, and so are the books kept of them.

`LogsRight` is `PassedLogsAgree`. What two logs that pass have in common is `Mirrors`: the
same length, each line readable, sent by one and received by the other, with the same
text. `ComparesMirrors` has this from the comparison, field by field, and from the parser,
which numbers what it can read; a log has at most one mirror (`OneMirror`), so that no
altered log passes beside the log it was made from. No invariant is needed beyond the
types.

`ConversationRight` is `ConversationHolds`. `Say(n, k)` and `Hear(n, k)` are the frames
that the first `k` lines of a script write and wait for. `SayHear`: in agreed scripts what
one says the other hears, line for line, but for a frame that is crossing. That no command
fails is not inductive: it takes that the frame which arrives is the one its line waits
for. `ConversationInv` (`Goes`, for each process) is the strengthening:

* no result is false and nothing is written into a connection that is gone;
* what a process has written or is about to write is what its lines so far say, and what
  it has read is what its finished lines hear and the chunks of the one under way;
* what was written was read or is on the wire;
* the session and log are what the fake backend makes of the lines so far (`FakeAt`).

With `SayHear` the next frame is then the one expected (`ReadsOn`), and a line that expects
a session finds the one its lines left. `PostedInv` adds that the posts are those of the
lines that post; `AppRunPosts` has the same of the app model.

That the two never wait for each other is counting. Of two that both wait to read, the one
that is not ahead has been told all its next line hears (`NotBothHungry`); of two that both
wait to write, the other one has read all but what crosses, which the buffers take
(`NotBothBlocked`); and one that reads takes what one that writes has put on the wire.

### Proofs about both stations in one process (`PeerProofs`)

From `PeerAssumption` and `ChatAssumption`, for scripts of any length, any number of
chunks and faults: `TypeCorrect` is `TypeOK`, with the counters of logs and app models in
step with their lists through every way a command can end; `SplitOnlyByFailedConnect` is
`OnlyFailedConnectSplits`. The second is inductive together with the types: `StillSplit`
says that a command which opens or closes nothing leaves the reason for a split in place,
`SplitsNow` that a failed CONNECT is a reason by itself, and every other command leaves
the two sessions alike.

`ReportsAreTrue` is `OkIsBoth`, which relates the report to the logs, files and app models
of both ends. It is inductive with the types: `Effect` says for a command, in whichever
of its six ways it goes, which of the lists get its text and which stay (`CommandEffect`,
command by command), and `EffectIsTold` that such a step keeps the lists equal, or one a
subsequence of the other.

Model-checked only: `ConversationEnds` and `NobodyWaitsForTheGone`, which are liveness. Of
the first, `ConversationRight` has what keeps it from failing (never do both processes
wait); that the steps left are then taken, and are finitely many, TLC checks.

## 6. Keying the transmitter (`RigPtt`)

Each run of `rig hamlib ptt-tx`, `rig hamlib ptt-rx` or `modem live-audio` is a process;
all act on one radio through one rigctld, and nothing keeps them apart.

| Code | Model |
|---|---|
| the checks before anything is done (`--live`, `--allow-transmit`, a host to key through) | `Started`: a dry run or a refused run ends at once |
| `RigctldClient::set`: connect, write, read one line | `Ask` or `AskFails`; the answer is `reply`; `TimesOut` is the read timeout |
| rigctld and the radio | `RigSets` (also with an error for an answer) and `RigRefuses`: external. Each command has a connection of its own, so a command stays `pending` after its sender gave up on it and can overtake others |
| `run_live_audio_modem` | `Keyed` or `KeyFails`; `OpenFails` or `Play`; `FillOutput`; `StopPlaying` after `rx_seconds`; `Release`, which reports the streams' error before its own |
| Ctrl-C, a panic | `Dies` |

A block of audio stands for what one output callback takes. Reading the radio's
frequency, mode and PTT changes nothing and is left out, what was recorded too.

| Run | Question | Result |
|---|---|---|
| `rig_ptt` | three overlapping runs, late, wrong and missing answers, failing devices, deaths | `RigTypeOK`, `NobodyKeyedSilently`, `PlaysKeyed`, `OkReleases`, `RunsEnd` |
| `rig_plays` | does the live path play one packet, as docs/radio/hamlib.md:43 says? | violated: it plays for `rx_seconds` |

Bounds. Three runs are one that gives up on a command, one that is under way when the
command is carried out, and one more that overlaps both. One block is enough to tell
playing from keyed. `CHECK_DEADLOCK FALSE` because the runs are bounded and rigctld may
keep a command for ever.

Fairness (`RigFairSpec`). Started runs go on and their reads time out (rigctld need not
answer at all); nobody has to start one.

What is not claimed. A lost answer to the keying leaves the radio keyed: the run ends
with an error and releases nothing. So does a process that is killed while it plays.
A run beside another may find the radio released under it.

### Proofs (second half of `LiveProofs`)

`RigTypeCorrect`, `NobodyKeyed`, `KeyedWhilePlaying` and `ReleasedWhenOk` state the four
invariants of `rig_ptt` for any number of runs, any command lines and any bounds, from
`RigAssumption` alone. None of the last three is inductive. `IInv` has, for each, what
holds while the runs go on: some run that may transmit has the radio or failed
(`Holder`); a run alone that was told it keys has the radio keyed (`KeyedWhileInHand`);
one alone that was told it released has it receiving (`ReceivingOnceReleased`); the last
two unless an earlier run gave up on the opposite command. They rest on `Pendings` (each
command on its way is awaited by its sender or was given up on) and on `Besides` (a run
not listed as beside another had ended before). Every step but rigctld's and a new run
changes one run only and takes no claim away; `MovesKeep` says once that this keeps
`IInv`, `AnswersKeep` deals with rigctld.

`RunsEnd` is model-checked only.

## 7. The terminal (`Terminal`)

One process with one thread: a command is one action, and so is a key. The session
(backend, chat log, app model, packet reports) runs beside the setup of the next one.

| Code | Model |
|---|---|
| `ChatTuiApp`, `TuiSetupState` | `station`, `backend`, `chat`, `app`, `packets`; `setup` or `NoSetup` |
| `ensure_setup` | `Opened`, in every setup command |
| `/start` | `Start`, `StartFails`, `StartListens`; with a listener `Accepted` or `AcceptFails` later |
| `NativeLoopbackBackend::send_text` | `LoopbackAnswers`, or where it stopped: `LoopbackLoses`, `LoopbackLosesAnswer` |
| `write_session` | `Save`, `SaveBreaksOff` at any file, which is untouched or left half done; `dir` says for each file which save wrote it last |
| Ctrl-C, Ctrl-Q | `PressQuit`; `Quit` when the loop reads the key |

What a file tells is abstracted into the number of the save that wrote it, as all files
of a save tell the same state. Device and radio settings are only displayed; each
opens the setup like any other (`OpenSetup`). A local node, once connected, is
`LiveChat`'s; here nothing is said over it.

| Run | Question | Result |
|---|---|---|
| `terminal` | five commands of any kind, one packet or save that breaks off | `TypeOK`, `OneStation`, `PacketsTellTheLog`, `ReportComesLast`, `SwitchIsWhole` |
| `terminal_quits` | do the keys that quit end the program, as docs/chat/README.md:164 says? | violated: not while `/start` waits for a peer node |

Bounds. Five commands are a connect, two sends with a save after each, or a setup with
its peer and link, a start and one more command. `CHECK_DEADLOCK FALSE` because the
commands are bounded and a closed terminal stays closed.

Fairness (`FairSpec`, `terminal_quits` only). A key is read while the terminal reads keys;
no peer has to connect.

What is not claimed. A save that breaks off leaves files of two saves behind, and the
older report with newer packet files under it. A text that the loopback lost stays in
the log as sent.

### Proofs (`TerminalProofs`)

`StandsForOneStation`, `ReportStands` and `SwitchesWhole` hold for any calls and texts,
any number of commands and faults, from `TerminalAssumption` and `ChatAssumption`. The
inductive invariant `IInv` has two halves. `SessionInv`: the types; every entry of log
and app model names the call of the session, in setup or not (`OneStation` says nothing
in setup, where the session goes on all the same); and only a terminal in setup waits
for a peer. `SavedInv`: no file is from a later save than the last, and
`ReportComesLast`. Every step is of one of three kinds (`StepKinds`): the session goes
on, only setup changes, or the next session begins; each kind keeps the first half. For
the second, the list of files is taken apart (`FilesEndInReport`): a save that breaks off
has not reached the report, and all it wrote is newer than the report that is there.

`TypeCorrect` is `TypeOK`. `ReportsTellLog` is `PacketsTellTheLog`: `Tell` relates a log
and a list of reports, `Answering` says how each of the four ways a loopback send can end
extends both, and every other step leaves both alone or begins them anew.

`QuitEnds` (liveness) is model-checked only.

## 8. The application protocol (`AppPackets`, `AppLink`)

`AppPackets` has the functions of `app_protocol.rs` as pure operators; `AppLink` has the
process that runs `simulate app-link`, the only caller that uses all of them.

| Code | Model |
|---|---|
| `AppProtocolState` | a call, the next number and the ids seen; an id is the pair of call and number |
| SHA-256 | the content it is the hash of |
| the size of an encoded packet | `Size`: what its kind takes, the sender's call, the digits of its number, two hex digits per byte of data |
| `fragment_payload`, `file_transfer_packets` | `FragmentPayload`, `FileTransferPackets`, built by `BuildFragments`, `BuildFile`, or `FragmentTooLarge`, `FilePacketTooLarge` |
| `reassemble_fragments`, `reassemble_file_chunks` | `ReassembleFragments`, `ReassembleFileChunks`; any error is `Failed` |
| `simulate_reliable_delivery` | one action per attempt: `Drop`, `Arrive`; `GiveUp` after the last; `Report` |
| callers other than the command | `Gather`: any packets built by this or an earlier process of the station, in any order, with losses and repetitions |

| Run | Question | Result |
|---|---|---|
| `app_link` | payloads from none to three chunks, calls so long that a later or any fragment no longer fits, every way the link may lose and double, up to two retries; lists of up to three packets gathered from two processes | `ReassembledIsSent`: what is split is put together again, and a gathered list gives the payload of one message or an error; `CountsAddUp`; `KeepsDelivery` (refines `DeliveryPromise`: each packet is taken once or reported lost, and in the end one of the two); `TypeOK` |

Bounds. Three chunks can come in another order, miss their middle and mix two messages;
a payload with a chunk that repeats tells an index from its content; two processes use
the same ids, because numbers begin at 1 each time. Two retries lose the first attempt and
leave two. `CHECK_DEADLOCK FALSE` because the command ends.

Fairness (`FairSpec`). One thread runs the command from its start to its report;
restarting and gathering are left to chance.

What is not claimed. A receiver that lives longer than a sender takes the packets of its
next process for duplicates: their ids begin at 1 again. In the command each receiver sees
one process only.

### Proofs (`AppProofs`)

`TypeCorrect`, `CountersRight` and `DeliveryKept` hold for payloads of any length, packets
of any size, any calls, retries and waits, from `PacketAssumption` and `LinkAssumption`.
`CountsAddUp` is not inductive: that a packet which arrives is no duplicate needs that no
two packets have one id. `IInv` says that ids are the station's numbers, all different and
below the next one (`Numbered`), that nothing was delivered before the delivery starts
(`Idle`), and that what the receiver has seen and what was given up are only ids of
packets before the one being sent (`Handled`). `DeliveryKept` is the safety of
`KeepsDelivery`: initial states map to initial states, and each step takes, gives up or
posts (`OneLess`: it takes one id and only that off the list), or stutters. Its liveness
is model-checked only.

`ReassembledRight` is `ReassembledIsSent`, from the same assumptions; one of them says that
a mail and an ack take no more bytes than a fragment, which carries a message id and two
hashes besides. `BuiltInv` says that whatever was split is a `Group`, which depends on the
number of its id, the call and the payload only (`PartIsPiece`), that what is gathered
comes from groups, and at each stage which packets the process has built (`Progress`). The
rest is about data. The chunks of a payload, cut at multiples of the chunk size with the
rest last, joined in order are the payload (`TotalFits`, `JoinPieces`, `ChunksJoin`). A
list that is a permutation of a group passes every check and gives its payload
(`ShuffleIsWhole`; that no index comes twice follows by counting, `EachOnce`), and one that
passes the checks is such a permutation, whichever processes its packets are from
(`WholeIsShuffle`): two processes may use one id, but not for two payloads with one hash.
A number has at least one digit and the first two have just one (`DigitsAtLeast`), so the
mail and the ack fit when a fragment does (`MailFits`). Where a recursive function is
involved, what it computes is proved at the least place where it would go wrong.

## 9. Other radio programs (`ExternalAdapter`)

An operator runs one `station external` command after the other; JS8Call, WSJT-X, fldigi
and PSK Reporter are external. The events and texts they have to say are numbered, so that
an event names what it tells of. What else they say (status, heartbeats, the pieces of an
answer) makes no event; it has no bound, and is only known to go on (`talks`) or not.

| Code | Model |
|---|---|
| the checks of the command (limit, `--enable-tx` without `--allow-transmit`) | `Refused` |
| a fixture, or no `--live` | `Loads`, with one action for what each format may hold |
| JS8Call over TCP | `Js8Sends` writes the message to its socket, or `Listens`; then `Reads` until the limit (`HasEnough`), a timeout (`TimesOut`) or the end of the stream (`Js8HangsUp`), each of which ends the run well |
| JS8Call itself | `Js8Takes`: it takes a message out of the socket and airs it, while the run goes on, after its end, or never |
| WSJT-X over UDP | `Listens`, `Reads`, `HasEnough`, `TimesOut` |
| lines and datagrams that make no event, and answers of fldigi that go on and on | `Talks`: the program begins or ceases to say something more often than the timeout. While it does, no wait of the run (`Awaits`) is over, since each line, datagram or piece starts the next one anew |
| fldigi over XML-RPC | `FldigiReceives`, `FldigiQueues`, `FldigiKeys`; `AnswerLost`: it did what was asked and the run does not learn of it |
| `PskReporterAnswers` | at most one spot less than the limit, at least one |
| any `?`, or a killed process | `RunFails` |
| `write_event_log`, `station replay` | `Written`, by `Saves` or `SaveBreaksOff`; `ReadEventLog`, `ReplaySummary` |

| Run | Question | Result |
|---|---|---|
| `station` | two commands of any adapter, live, from a fixture or dry, that may fail at any step, and what they leave for the next | `AiredAsAsked`: on the air go only messages of live runs that were to transmit, each once, although fldigi keeps the text of a run that failed and JS8Call may take a message late; and the message of a run that says *ok* was aired by fldigi, or was aired by JS8Call or is in its socket; `LogReplaysReport`: the event log replays the last run that wrote it, or a beginning of it; `RunsEnd`: a run ends, or waits on a program that talks on and on; `TypeOK` |

Bounds. Two commands are one that fails after fldigi has queued its text and one that
keys it, or a log and one written over it. Three events or texts said are more than a limit
of one and as many as one of three; a run takes no more events than its limit, so more of
them would change nothing. What makes no event is not bounded.

Fairness (`FairSpec`). The operating system runs the command, and a read from a program
that says nothing more ends with its timeout. That a program says anything, hangs up, takes
a message or falls silent is not counted on, nor is a failure. `RunsEnd` therefore has an
exception: the timeouts of JS8Call, WSJT-X and fldigi are those of one read
(external_adapters.rs:175, 273, 630), so a program that talks more often than that keeps the
run going for ever. PSK Reporter has one timeout for the whole request.

fldigi is taken at its word: when it has answered `text.add_tx` the text is queued, and when
it has answered `main.tx` what is queued goes on the air.

What is not claimed. An *ok* from JS8Call does not say that the message was sent, or even
read: the run waits for no answer to it and takes a timeout or the end of the stream as
success (external_adapters.rs:198-224). A run that failed may have been aired, now or
by a later run that keys fldigi, or may yet be by JS8Call. A log that breaks off inside a
record is not read at all.

### Proofs (`AdapterProofs`)

From `AdapterAssumption`, for any command lines, any number of runs and whatever the
programs say:

* `TypeCorrect`: `TypeOK`, with what a run at each step has been through (`Fits`): that a
  live run keeps to its limit follows from how many events it can have at that step.
* `AiredRight`: `AiredAsAsked`. It counts, message by message, so the invariant
  (`Balance`) is about numbers: what a sender has aired and what it was given and has not
  aired is no more than the ended runs were to send, and one more if the run under way has
  handed its message over (`Gone`); what an *ok* stands for (`Shown`: aired by fldigi, aired
  by or given to JS8Call) is at least what the runs that said *ok* were to send, and one
  more once this run has nothing left but to read or to save; and the message of a run about
  to key is among those that wait in fldigi, whichever run left the others there. Keying
  moves all of them at once (`CountsKey`), JS8Call one of them, from anywhere in its socket
  (`CountsTake`).
* `LogReplays`: `LogReplaysReport`. Only a run that saves changes the file, and it is then
  the last writer; every other run that ends leaves the last writer as it was.

`RunsEnd` (liveness) is model-checked only.

## 10. Not modelled

Keychain access, dry runs of the mailbox, status reports, compression, MIME parsing,
DSP, audio device probing, argument parsing and JSON output: pure I/O or formatting, or
code of the external `orca` crates. `station guard`, `modes`, `fake-events` and
`protocol-suite` print what they compute from their arguments and a table; they share no
state with anything. Of the terminal: single-file saves and receipts, the selection in
its panes, drawing and parsing.

Three hazards in PROJECT.json have no property: a message that can never be sent blocks
the outbox, which `OutboxGetsThrough` assumes away; `/mail` and `/file-offer` go to the
peer of the link whoever they are addressed to; and a new setup of the terminal drops
frames not polled, which needs `Terminal` composed with `LiveChat`.
