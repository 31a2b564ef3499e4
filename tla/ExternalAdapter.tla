-------------------------- MODULE ExternalAdapter --------------------------
(***************************************************************************)
(* `station external` (crates/chattybara-cli/src/external_adapters.rs): an *)
(* operator runs one command after the other against the programs that     *)
(* own the radio (JS8Call, WSJT-X, fldigi) and the PSK Reporter server.  A *)
(* run reads what they say, sends at most one message, writes its records  *)
(* to an event log (crates/chattybara-station) and prints its report; any  *)
(* error ends it there, and the operator may try again.                    *)
(*                                                                         *)
(* The events and texts the programs say are numbered; an event names what *)
(* it tells of.  What else they say (status, heartbeats, the pieces of an  *)
(* answer) makes no event, has no bound, and is only known to go on or not.*)
(***************************************************************************)
EXTENDS Naturals, SequencesExt

CONSTANTS
  Text,       \* messages the operator sends
  NoText,     \* --message missing or blank
  LineKinds,  \* the kinds of event a JS8Call line may make
  Uses,       \* the command lines given
  MaxRuns, MaxHeard  \* bounds: commands given, and events and texts the programs have to say

Adapter == {"js8call", "wsjtx", "fldigi", "cw-assist", "pskreporter"}
Use == [adapter: Adapter, live: BOOLEAN, fixture: BOOLEAN, tx: BOOLEAN, allow: BOOLEAN,
        to: BOOLEAN, message: Text \cup {NoText}, limit: Nat, out: BOOLEAN]

ASSUME AdapterAssumption ==
  /\ NoText \notin Text /\ Uses \subseteq Use /\ Uses # {}
  /\ LineKinds \subseteq {"directed-message", "spot", "decode", "rig-status"}
  /\ MaxRuns \in Nat /\ MaxHeard \in Nat

VARIABLES
  run,      \* the command under way, and whether its program talks on and on
  program,  \* fldigi's RX text not handed over; what a program was given to send and has
            \* not aired; what was aired
  file,     \* the event log at --out
  heard,    \* how many events and texts the programs have said
  history   \* the commands that ended

vars == <<run, program, file, heard, history>>

Event == [kind: LineKinds \cup {"adapter-health", "mode-error", "decode", "spot"},
          of: Seq(Nat)]
EventRecord == [sequence: Nat, event: Event]
Results == {"ok", "error", "save failed"}
Sender == {"js8call", "fldigi"}

Said(kind, n) == [kind |-> kind, of |-> <<n>>]
Health == [kind |-> "adapter-health", of |-> <<>>]

Idle == [at |-> "idle", use |-> CHOOSE u \in Uses : TRUE, events |-> <<>>, talks |-> FALSE]

Init ==
  /\ run = Idle
  /\ program = [rx |-> <<>>, queue |-> [a \in Sender |-> <<>>],
                aired |-> [a \in Sender |-> <<>>]]
  /\ file = [records |-> <<>>, torn |-> FALSE]
  /\ heard = 0
  /\ history = <<>>

RecordsFromEvents(events) ==
  [i \in DOMAIN events |-> [sequence |-> i, event |-> events[i]]]

-----------------------------------------------------------------------------
(* The event log                                                           *)

\* Wrong on purpose: what the file held before stays behind what is written.
WrittenOver(records, k, torn) ==
  [records |-> SubSeq(records, 1, k) \o SubSeq(file.records, k + 1, Len(file.records)),
   torn |-> torn]

\* File::create empties the file; then come the records, and the writing may break off
\* after any number of them or within one.
Written(records, k, torn) == [records |-> SubSeq(records, 1, k), torn |-> torn]

\* Half a record does not parse, and then nothing of the log is read.
ReadEventLog(f) == [ok |-> ~f.torn, records |-> IF f.torn THEN <<>> ELSE f.records]

\* How many records there are of each kind.
ReplaySummary(records) ==
  [kind \in {records[i].event.kind : i \in DOMAIN records} |->
     Quantify(DOMAIN records, LAMBDA i : records[i].event.kind = kind)]

-----------------------------------------------------------------------------
(* A run                                                                   *)

Refused(use) == use.limit = 0 \/ (use.tx /\ ~use.allow)
FromDisk(use) == use.fixture \/ ~use.live \/ use.adapter = "cw-assist"

Ended(result, read) ==
  /\ history' = Append(history, [use |-> run.use, result |-> result, events |-> read])
  /\ run' = Idle

Start(use) ==
  /\ run.at = "idle" /\ Len(history) < MaxRuns
  /\ IF Refused(use)
     THEN /\ history' = Append(history, [use |-> use, result |-> "error", events |-> <<>>])
          /\ UNCHANGED run
     ELSE /\ run' = [at |-> IF FromDisk(use) THEN "load" ELSE "call",
                     use |-> use, events |-> <<Health>>, talks |-> FALSE]
          /\ UNCHANGED history
  /\ UNCHANGED <<program, file, heard>>

\* The connection fails, a call gets no answer, something cannot be read or parsed, or
\* the process is killed.
RunFails ==
  /\ run.at # "idle"
  /\ Ended("error", run.events)
  /\ UNCHANGED <<program, file, heard>>

\* The run goes on to the step named at, having read these events.
GoesOn(at, events) ==
  /\ run' = [run EXCEPT !.at = at, !.events = @ \o events]
  /\ UNCHANGED history

Hears(n) == heard + n <= MaxHeard /\ heard' = heard + n

\* PSK Reporter looks at the limit after it has taken a spot, so it takes one at least.
SpotLimit == Max({1, run.use.limit - 1})
Spots(n) == [i \in 1..n |-> Said("spot", heard + i)]

\* What a line of JS8Call (a datagram of WSJT-X) makes: one event or none.
LineEvents(n) == {<<>>} \cup {<<Said(kind, n)>> : kind \in LineKinds}
DatagramEvents(n) == {<<>>, <<Said("decode", n)>>}

\* A JS8Call fixture is read past the limit and past lines that do not parse.
LoadsLine ==
  /\ run.use.adapter = "js8call" /\ Hears(1)
  /\ \E events \in LineEvents(heard') \cup {<<Said("mode-error", heard')>>} : GoesOn("load", events)

\* The others hold one datagram, one text or one answer of PSK Reporter.
LoadsDatagram ==
  /\ run.use.adapter = "wsjtx" /\ Hears(1)
  /\ \E events \in DatagramEvents(heard') : GoesOn("save", events)

LoadsText ==
  /\ run.use.adapter \in {"fldigi", "cw-assist"} /\ Hears(1)
  /\ GoesOn("save", <<Said("decode", heard')>>)

LoadsSpots ==
  /\ run.use.adapter = "pskreporter"
  /\ \E n \in 1..SpotLimit : Hears(n) /\ GoesOn("save", Spots(n))

\* Without a fixture there is nothing, but CW has a text of its own.
LoadsOwnText == GoesOn("save", <<[kind |-> "decode", of |-> <<>>]>>)

Loads ==
  /\ run.at = "load"
  /\ \/ run.use.fixture /\ (LoadsLine \/ LoadsDatagram \/ LoadsText \/ LoadsSpots)
     \/ /\ ~run.use.fixture /\ run.use.adapter = "cw-assist"
        /\ LoadsOwnText /\ UNCHANGED heard
     \/ /\ run.use.fixture \/ run.use.adapter # "cw-assist"   \* it is empty, or read to its end
        /\ GoesOn("save", <<>>) /\ UNCHANGED heard
  /\ UNCHANGED <<program, file>>

Asks(adapter) == run.at = "call" /\ run.use.adapter = adapter

MessageGiven == run.use.message # NoText /\ (run.use.adapter = "js8call" => run.use.to)

\* A sender is given the message of the run.
Queued(adapter) == [program EXCEPT !.queue[adapter] = Append(@, run.use.message)]

\* Wrong on purpose: it is enough that the message may be sent.
Js8SendsAllowed ==
  /\ Asks("js8call") /\ run.use.allow /\ MessageGiven
  /\ program' = Queued("js8call")
  /\ GoesOn("read", <<>>)
  /\ UNCHANGED <<file, heard>>

\* Status is asked for, and the message is written to JS8Call's socket, before anything is
\* read.  Nothing says whether JS8Call takes it.
Js8Sends ==
  /\ Asks("js8call") /\ run.use.tx /\ MessageGiven
  /\ program' = Queued("js8call")
  /\ GoesOn("read", <<>>)
  /\ UNCHANGED <<file, heard>>

\* JS8Call reads a message out of the socket of a run, then or when the run has ended, and
\* sends it.  It may never do so.
Js8Takes ==
  /\ \E i \in DOMAIN program.queue["js8call"] :
       program' = [program EXCEPT !.queue["js8call"] = RemoveAt(@, i),
                                  !.aired["js8call"] = Append(@, program.queue["js8call"][i])]
  /\ UNCHANGED <<run, file, heard, history>>

\* JS8Call has been asked for its status by then, fldigi for its text.
MessageMissing ==
  /\ (Asks("js8call") /\ run.use.tx) \/ run.at = "send"
  /\ ~MessageGiven
  /\ Ended("error", run.events)
  /\ UNCHANGED <<program, file, heard>>

Listens ==
  /\ (Asks("js8call") /\ ~run.use.tx) \/ Asks("wsjtx")
  /\ GoesOn("read", <<>>)
  /\ UNCHANGED <<program, file, heard>>

PskReporterAnswers ==
  /\ Asks("pskreporter")
  /\ \E n \in 0..SpotLimit : Hears(n) /\ GoesOn("save", Spots(n))
  /\ UNCHANGED <<program, file>>

\* Wrong on purpose: one record more than the limit.
WantsMoreByOne == run.at = "read" /\ Len(run.events) <= run.use.limit

WantsMore == run.at = "read" /\ Len(run.events) < run.use.limit

\* The run waits for its program: for a line, a datagram or the answer of fldigi, each read
\* for no longer than the timeout.
Awaits == WantsMore \/ Asks("fldigi") \/ (run.at = "send" /\ MessageGiven) \/ run.at = "key"

\* The program begins or ceases to talk on and on: it says something more often than the
\* timeout, but nothing of interest, or the headers and pieces of an answer without end.
\* Each of them starts the wait anew, and nothing else.
Talks ==
  /\ Awaits
  /\ run' = [run EXCEPT !.talks = ~@]
  /\ UNCHANGED <<program, file, heard, history>>

\* A line or datagram that makes an event.
Reads ==
  /\ WantsMore /\ Hears(1)
  /\ \E events \in (IF run.use.adapter = "wsjtx" THEN DatagramEvents(heard')
                   ELSE LineEvents(heard')) \ {<<>>} : GoesOn("read", events)
  /\ UNCHANGED <<program, file>>

\* The loop has the events it was asked for.
HasEnough ==
  /\ run.at = "read" /\ ~WantsMore
  /\ GoesOn("save", <<>>)
  /\ UNCHANGED <<program, file, heard>>

\* Wrong on purpose: after a timeout the run waits again.
WaitsAgain ==
  /\ WantsMore /\ ~run.talks
  /\ GoesOn("read", <<>>)
  /\ UNCHANGED <<program, file, heard>>

\* Nothing came in time.
TimesOut ==
  /\ WantsMore /\ ~run.talks
  /\ GoesOn("save", <<>>)
  /\ UNCHANGED <<program, file, heard>>

\* JS8Call closes the connection.
Js8HangsUp ==
  /\ WantsMore /\ run.use.adapter = "js8call"
  /\ GoesOn("save", <<>>)
  /\ UNCHANGED <<program, file, heard>>

\* fldigi hands over everything it has received since it was asked last.
FldigiReceived ==
  IF program.rx = <<>> THEN <<>> ELSE <<[kind |-> "decode", of |-> program.rx]>>

\* What fldigi does for a call and the end of its answer are one step: nobody else calls it
\* in between.
FldigiReceives ==
  /\ Asks("fldigi") /\ ~run.talks
  /\ program' = [program EXCEPT !.rx = <<>>]
  /\ GoesOn(IF run.use.tx THEN "send" ELSE "save", FldigiReceived)
  /\ UNCHANGED <<file, heard>>

FldigiQueues ==
  /\ run.at = "send" /\ MessageGiven /\ ~run.talks
  /\ program' = Queued("fldigi")
  /\ GoesOn("key", <<>>)
  /\ UNCHANGED <<file, heard>>

\* main.tx sends whatever is queued.
Keyed ==
  [program EXCEPT !.aired["fldigi"] = @ \o program.queue["fldigi"], !.queue["fldigi"] = <<>>]

FldigiKeys ==
  /\ run.at = "key" /\ ~run.talks
  /\ program' = Keyed
  /\ GoesOn("save", <<>>)
  /\ UNCHANGED <<file, heard>>

\* fldigi did what it was called for, and its answer is lost.
AnswerLost ==
  /\ \/ /\ Asks("fldigi")
        /\ program' = [program EXCEPT !.rx = <<>>]
     \/ /\ run.at = "send" /\ MessageGiven
        /\ program' = Queued("fldigi")
     \/ /\ run.at = "key"
        /\ program' = Keyed
  /\ Ended("error", run.events)
  /\ UNCHANGED <<file, heard>>

\* The report is printed when the log, if one is asked for, is written.
Saves ==
  /\ run.at = "save"
  /\ file' = IF run.use.out
             THEN Written(RecordsFromEvents(run.events), Len(run.events), FALSE) ELSE file
  /\ Ended("ok", run.events)
  /\ UNCHANGED <<program, heard>>

SaveBreaksOff ==
  /\ run.at = "save" /\ run.use.out
  /\ \E k \in 0..(Len(run.events) - 1), torn \in BOOLEAN :
       file' = Written(RecordsFromEvents(run.events), k, torn)
  /\ Ended("save failed", run.events)
  /\ UNCHANGED <<program, heard>>

\* The band: fldigi decodes something.
FldigiDecodes ==
  /\ Hears(1)
  /\ program' = [program EXCEPT !.rx = Append(@, heard')]
  /\ UNCHANGED <<run, file, history>>

Progress ==
  \/ Loads \/ Js8Sends \/ MessageMissing \/ Listens \/ PskReporterAnswers
  \/ HasEnough \/ TimesOut \/ FldigiReceives \/ FldigiQueues \/ FldigiKeys \/ Saves

Failure == RunFails \/ AnswerLost \/ SaveBreaksOff

AllRun == run.at = "idle" /\ Len(history) = MaxRuns /\ UNCHANGED vars

World == Reads \/ Talks \/ Js8Takes \/ Js8HangsUp \/ FldigiDecodes

Next == (\E use \in Uses : Start(use)) \/ Progress \/ Failure \/ World \/ AllRun

Spec == Init /\ [][Next]_vars

\* The operating system runs the command, and a read from a program that says nothing more
\* comes back when its time is up (fldigi's with the answer, if not with RunFails).  That a
\* program says something, hangs up or falls silent is never counted on, nor a failure.
FairSpec == Spec /\ WF_vars(Progress)

-----------------------------------------------------------------------------
(* Properties                                                              *)

\* Every variable has its type, and a live run keeps to the limit it was given but for
\* the one text or spot that is read before the limit is looked at.
TypeOK ==
  /\ run \in [at: {"idle", "load", "call", "read", "send", "key", "save"}, use: Uses,
             events: Seq(Event), talks: BOOLEAN]
  /\ ~FromDisk(run.use) => Len(run.events) <= Max({2, run.use.limit})
  /\ program \in [rx: Seq(Nat), queue: [Sender -> Seq(Text)], aired: [Sender -> Seq(Text)]]
  /\ file \in [records: Seq(EventRecord), torn: BOOLEAN]
  /\ heard \in Nat
  /\ history \in Seq([use: Use, result: Results, events: Seq(Event)])

\* Live runs that are to send a message by this program.
Sends(h, adapter) ==
  /\ h.use.adapter = adapter /\ h.use.live /\ ~h.use.fixture
  /\ h.use.tx /\ h.use.allow

\* How many of the runs hs were to send x and came to one of these results.
Asked(hs, adapter, results, x) ==
  Cardinality({i \in DOMAIN hs : /\ Sends(hs[i], adapter) /\ hs[i].use.message = x
                                 /\ hs[i].result \in results})

\* How often x is in s.
Times(s, x) == Cardinality({i \in DOMAIN s : s[i] = x})

Begun == IF run.at = "idle" THEN history
         ELSE Append(history, [use |-> run.use, result |-> "error", events |-> <<>>])

\* Whatever fails, is retried, is left in fldigi's TX text for a later run to send or is taken
\* late by JS8Call: nothing goes on the air but messages of live runs with --enable-tx and
\* --allow-transmit, each of them once.  And no message of a run that says ok has gone
\* astray: fldigi has aired it; JS8Call has aired it or has it in its socket, which is all
\* that an ok says there, as the run waits for no answer to it.
AiredAsAsked ==
  \A adapter \in Sender, x \in Text \cup {NoText} :
    LET given == program.aired[adapter] \o program.queue[adapter]
    IN /\ Times(given, x) <= Asked(Begun, adapter, Results, x)
       /\ Asked(history, adapter, {"ok"}, x) <=
            Times(IF adapter = "fldigi" THEN program.aired[adapter] ELSE given, x)

\* The last run that wrote to its log.
LastWriter(hs) ==
  LET writers == {i \in DOMAIN hs : hs[i].use.out /\ hs[i].result # "error"}
  IN IF writers = {} THEN 0 ELSE Max(writers)

\* `station replay` of the log gives the summary of the last report that wrote it.  If
\* the run that wrote last broke off, it is an error or a beginning of that run's
\* records, and never has anything of an older log in the same place.
LogReplaysReport ==
  LastWriter(history) # 0 =>
    LET last == history[LastWriter(history)]
        records == RecordsFromEvents(last.events)
        replayed == ReadEventLog(file)
    IN /\ last.result = "ok" =>
            replayed.ok /\ ReplaySummary(replayed.records) = ReplaySummary(records)
       /\ \E k \in 0..Len(records) : replayed.records = SubSeq(records, 1, k)

\* Only a program that talks on and on keeps a run from its end.  The timeout is one of a
\* read, not of the run, so such a program does; but one that says nothing, or has fallen
\* silent, does not, nor do events, of which the run takes no more than its limit.
RunsEnd == run.at # "idle" ~> run.at = "idle" \/ (Awaits /\ run.talks)
=============================================================================
