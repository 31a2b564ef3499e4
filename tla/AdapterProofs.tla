--------------------------- MODULE AdapterProofs ---------------------------
(***************************************************************************)
(* Proofs about ExternalAdapter, for any command lines, any number of runs *)
(* and whatever the radio programs say: types, AiredAsAsked and            *)
(* LogReplaysReport.                                                       *)
(***************************************************************************)
EXTENDS ExternalAdapter, SubsequenceProofs, SequenceTheorems, FunctionTheorems,
        FiniteSetTheorems, TLAPS

HistoryRecord == [use: Use, result: Results, events: Seq(Event)]
Program == [rx: Seq(Nat), queue: [Sender -> Seq(Text)], aired: [Sender -> Seq(Text)]]
EventLog == [records: Seq(EventRecord), torn: BOOLEAN]

-----------------------------------------------------------------------------
(* Types                                                                   *)

\* What a run of this command line with n events may be at.
Fits(use, at, n) ==
  /\ at = "idle" => n = 0
  /\ at = "load" => FromDisk(use)
  /\ at \in {"call", "read", "send", "key"} => ~Refused(use) /\ ~FromDisk(use)
  /\ at = "call" => n = 1
  /\ at = "read" => n <= use.limit
  /\ at \in {"send", "key"} => use.adapter = "fldigi" /\ use.tx /\ n <= 2
  /\ at = "key" => use.message \in Text
  /\ at = "save" => FromDisk(use) \/ n <= 2 \/ n <= use.limit

TypeInv == TypeOK /\ Fits(run.use, run.at, Len(run.events))

\* The greater of two numbers.
LEMMA MaxOfTwo ==
  ASSUME NEW a \in Int, NEW b \in Int
  PROVE  Max({a, b}) = IF a >= b THEN a ELSE b
<1> DEFINE m == IF a >= b THEN a ELSE b
<1>1. m \in {a, b} /\ \A y \in {a, b} : m >= y
  OBVIOUS
<1>2. \A x \in {a, b} : (\A y \in {a, b} : x >= y) => x = m
  OBVIOUS
<1> QED BY <1>1, <1>2 DEF Max

\* The command lines and what is idle.
LEMMA UseFacts ==
  /\ Idle \in [at: {"idle"}, use: Uses, events: Seq(Event), talks: BOOLEAN] /\ Idle.events = <<>>
  /\ Idle.at = "idle" /\ Idle.use \in Uses /\ Uses \subseteq Use
  /\ NoText \notin Text /\ Health \in Event
<1>1. (CHOOSE u \in Uses : TRUE) \in Uses
  BY AdapterAssumption
<1>2. <<>> \in Seq(Event)
  OBVIOUS
<1> QED BY <1>1, <1>2, AdapterAssumption DEF Idle, Health, Event

\* One event of each kind that a step makes.
LEMMA EventFacts ==
  /\ \A kind \in LineKinds \cup {"decode", "spot", "mode-error"}, n \in Nat :
       Said(kind, n) \in Event
  /\ \A s \in Seq(Nat) : [kind |-> "decode", of |-> s] \in Event
<1>1. \A n \in Nat : <<n>> \in Seq(Nat)
  OBVIOUS
<1> QED BY <1>1 DEF Said, Event

Stage == {"idle", "load", "call", "read", "send", "key", "save"}
Run == [at: Stage, use: Uses, events: Seq(Event), talks: BOOLEAN]

\* The parts of a run, and of its command line.
LEMMA RunFacts ==
  ASSUME TypeOK
  PROVE  /\ run \in Run /\ run.at \in Stage /\ run.use \in Uses /\ run.use \in Use
         /\ run.events \in Seq(Event) /\ Len(run.events) \in Nat /\ run.use.limit \in Nat
         /\ run.use.message \in Text \cup {NoText} /\ run.use.adapter \in Adapter
         /\ run.use.tx \in BOOLEAN /\ run.use.out \in BOOLEAN
         /\ program \in Program /\ file \in EventLog /\ heard \in Nat
         /\ history \in Seq(HistoryRecord)
<1>1. run \in Run
  BY DEF TypeOK, Run, Stage
<1>2. run.use \in Use
  BY <1>1, UseFacts DEF Run
<1> QED
  BY <1>1, <1>2, LenProperties DEF TypeOK, Run, Use, Program, EventLog, HistoryRecord

\* How a run goes on: its events grow by those of the step.
LEMMA GoesOnFacts ==
  ASSUME TypeOK, NEW at \in Stage, NEW events \in Seq(Event), GoesOn(at, events)
  PROVE  /\ run' \in Run /\ run'.at = at /\ run'.use = run.use
         /\ run'.events = run.events \o events
         /\ Len(run'.events) = Len(run.events) + Len(events)
         /\ Len(events) \in Nat /\ history' = history
<1>1. /\ run \in Run /\ run.events \o events \in Seq(Event)
      /\ Len(run.events \o events) = Len(run.events) + Len(events)
  BY RunFacts, ConcatProperties
<1>2. run' = [run EXCEPT !.at = at, !.events = run.events \o events]
  BY DEF GoesOn
<1> QED
  BY <1>1, <1>2, LenProperties DEF GoesOn, Run

\* A run that ends leaves its record.
LEMMA EndedFacts ==
  ASSUME TypeOK, NEW result \in Results, Ended(result, run.events)
  PROVE  /\ run' = Idle /\ run' \in Run /\ run'.at = "idle" /\ run'.events = <<>>
         /\ [use |-> run.use, result |-> result, events |-> run.events] \in HistoryRecord
         /\ history' = Append(history, [use |-> run.use, result |-> result, events |-> run.events])
         /\ history' \in Seq(HistoryRecord)
BY RunFacts, UseFacts, AppendProperties DEF Ended, HistoryRecord, Run, Stage

\* A run at any stage keeps to its limit.
LEMMA FitsLimit ==
  ASSUME NEW use \in Use, NEW at \in Stage, NEW n \in Nat, Fits(use, at, n), ~FromDisk(use)
  PROVE  n <= Max({2, use.limit})
<1>1. use.limit \in Nat
  BY DEF Use
<1>2. n <= 2 \/ n <= use.limit
  BY DEF Fits, Stage
<1> QED BY <1>1, <1>2, MaxOfTwo

\* A step into states of these types keeps the invariant.
LEMMA TypeParts ==
  ASSUME run' \in Run, program' \in Program, file' \in EventLog, heard' \in Nat,
         history' \in Seq(HistoryRecord), Fits(run'.use, run'.at, Len(run'.events))
  PROVE  TypeInv'
<1>1. run'.use \in Use /\ run'.at \in Stage /\ Len(run'.events) \in Nat
  BY UseFacts, LenProperties DEF Run
<1>2. ~FromDisk(run'.use) => Len(run'.events) <= Max({2, run'.use.limit})
  BY <1>1, FitsLimit
<1>3. FromDisk(run.use)' = FromDisk(run'.use) /\ Fits(run.use, run.at, Len(run.events))'
  BY DEF FromDisk, Fits, Refused
<1> QED
  BY <1>2, <1>3 DEF TypeInv, TypeOK, Run, Stage, Program, EventLog, HistoryRecord

\* A run goes on to a stage it may be at.
LEMMA GoesOnTyped ==
  ASSUME TypeInv, NEW at \in Stage, NEW events \in Seq(Event), GoesOn(at, events),
         heard' \in Nat, program' \in Program, file' = file,
         Fits(run.use, at, Len(run.events) + Len(events))
  PROVE  TypeInv'
<1>1. /\ run' \in Run /\ run'.at = at /\ run'.use = run.use
      /\ Len(run'.events) = Len(run.events) + Len(events) /\ history' = history
  BY GoesOnFacts DEF TypeInv
<1>2. file' \in EventLog /\ history' \in Seq(HistoryRecord)
  BY <1>1, RunFacts DEF TypeInv
<1>3. Fits(run'.use, run'.at, Len(run'.events))
  BY <1>1 DEF Fits, FromDisk, Refused
<1> QED BY <1>1, <1>2, <1>3, TypeParts

\* A run ends.
LEMMA EndedTyped ==
  ASSUME TypeInv, NEW result \in Results, Ended(result, run.events),
         heard' \in Nat, program' \in Program, file' \in EventLog
  PROVE  TypeInv'
<1>1. /\ run' \in Run /\ run'.at = "idle" /\ Len(run'.events) = 0
      /\ history' \in Seq(HistoryRecord)
  BY EndedFacts, EmptySeq DEF TypeInv
<1>2. Fits(run'.use, run'.at, Len(run'.events))
  BY <1>1 DEF Fits
<1> QED BY <1>1, <1>2, TypeParts

\* The lists of events that a step reads.
LEMMA ReadFacts ==
  ASSUME TypeOK, heard' \in Nat
  PROVE  /\ <<>> \in Seq(Event) /\ Len(<<>>) = 0
         /\ \A es \in LineEvents(heard') \cup DatagramEvents(heard')
                        \cup {<<Said("mode-error", heard')>>, <<Said("decode", heard')>>} :
              es \in Seq(Event) /\ Len(es) <= 1
         /\ \A n \in Nat : Spots(n) \in Seq(Event) /\ Len(Spots(n)) = n
<1>1. \A e \in Event : <<e>> \in Seq(Event) /\ Len(<<e>>) = 1
  OBVIOUS
<1>2. \A es \in LineEvents(heard') \cup DatagramEvents(heard')
                  \cup {<<Said("mode-error", heard')>>, <<Said("decode", heard')>>} :
        \/ es = <<>>
        \/ \E kind \in LineKinds \cup {"decode", "mode-error"} : es = <<Said(kind, heard')>>
  BY DEF LineEvents, DatagramEvents
<1>3. \A kind \in LineKinds \cup {"decode", "mode-error"} : Said(kind, heard') \in Event
  BY EventFacts
<1>4. ASSUME NEW n \in Nat
      PROVE  Spots(n) \in Seq(Event) /\ Len(Spots(n)) = n
  <2>1. heard \in Nat
    BY RunFacts
  <2>2. \A i \in 1..n : heard + i \in Nat
    BY <2>1
  <2>3. \A i \in 1..n : Said("spot", heard + i) \in Event
    BY <2>2, EventFacts
  <2> QED BY <2>3 DEF Spots
<1>5. <<>> \in Seq(Event) /\ Len(<<>>) = 0
  BY EmptySeq
<1> QED BY <1>1, <1>2, <1>3, <1>4, <1>5

\* Loading a fixture, or nothing.
LEMMA TypeLoads ==
  ASSUME TypeInv, Loads
  PROVE  TypeInv'
<1>1. TypeOK /\ FromDisk(run.use) /\ program' \in Program /\ file' = file
  BY RunFacts DEF TypeInv, Fits, Loads
<1>2. heard' \in Nat
  BY <1>1, RunFacts DEF Loads, LoadsLine, LoadsDatagram, LoadsText, LoadsSpots, Hears
<1>3. \A n \in Nat, at \in {"load", "save"} : Fits(run.use, at, n)
  BY <1>1 DEF Fits
<1>4. \A at \in {"load", "save"}, es \in Seq(Event) : GoesOn(at, es) => TypeInv'
  BY <1>1, <1>2, <1>3, GoesOnTyped, RunFacts, LenProperties DEF Stage
<1>5. [kind |-> "decode", of |-> <<>>] \in Event
  BY EventFacts, EmptySeq
<1>6. <<[kind |-> "decode", of |-> <<>>]>> \in Seq(Event)
  BY <1>5
<1>7. SpotLimit \in Int
  <2>1. run.use.limit \in Nat
    BY <1>1, RunFacts
  <2> QED BY <2>1, MaxOfTwo DEF SpotLimit
<1>8. CASE LoadsLine \/ LoadsDatagram \/ LoadsText
  BY <1>1, <1>2, <1>4, <1>8, ReadFacts DEF LoadsLine, LoadsDatagram, LoadsText
<1>9. CASE LoadsSpots
  <2>1. PICK n \in 1..SpotLimit : GoesOn("save", Spots(n))
    BY <1>9 DEF LoadsSpots
  <2>2. Spots(n) \in Seq(Event)
    BY <1>1, <1>2, <1>7, <2>1, ReadFacts
  <2> QED BY <1>4, <2>1, <2>2
<1>10. CASE LoadsOwnText \/ GoesOn("save", <<>>)
  BY <1>1, <1>2, <1>4, <1>6, <1>10, ReadFacts DEF LoadsOwnText
<1> QED BY <1>8, <1>9, <1>10 DEF Loads

\* What the radio programs keep, after each kind of call.
LEMMA ProgramFacts ==
  ASSUME TypeOK, NEW m \in Text
  PROVE  \A a \in Sender : [program EXCEPT !.queue[a] = Append(@, m)] \in Program
<1> SUFFICES ASSUME NEW a \in Sender
             PROVE  [program EXCEPT !.queue[a] = Append(@, m)] \in Program
  OBVIOUS
<1>1. /\ program \in Program /\ program.queue \in [Sender -> Seq(Text)]
      /\ program.queue[a] \in Seq(Text)
  BY RunFacts DEF Program
<1>2. Append(program.queue[a], m) \in Seq(Text)
  BY <1>1, AppendProperties
<1> DEFINE added == [program.queue EXCEPT ![a] = Append(program.queue[a], m)]
<1>3. added \in [Sender -> Seq(Text)]
  BY <1>1, <1>2
<1>4. [program EXCEPT !.queue[a] = Append(@, m)] = [program EXCEPT !.queue = added]
  OBVIOUS
<1> HIDE DEF added
<1> QED BY <1>1, <1>3, <1>4 DEF Program

\* A run hands over its message.
LEMMA QueuedFacts ==
  ASSUME TypeOK, run.use.message \in Text, NEW a \in Sender
  PROVE  Queued(a) \in Program
BY ProgramFacts DEF Queued

LEMMA KeyedFacts ==
  ASSUME TypeOK
  PROVE  /\ Keyed \in Program
         /\ [program EXCEPT !.rx = <<>>] \in Program
BY RunFacts, ConcatProperties, EmptySeq DEF Program, Sender, Keyed

\* A list without one of its elements.
LEMMA RemovedType ==
  ASSUME NEW S, NEW s \in Seq(S), NEW i \in DOMAIN s
  PROVE  /\ Len(s) \in Nat /\ i \in 1..Len(s) /\ s[i] \in S
         /\ SubSeq(s, 1, i - 1) \in Seq(S) /\ SubSeq(s, i + 1, Len(s)) \in Seq(S)
         /\ RemoveAt(s, i) \in Seq(S)
<1>1. Len(s) \in Nat /\ i \in 1..Len(s) /\ s[i] \in S
  BY LenProperties, ElementOfSeq
<1>2. SubSeq(s, 1, i - 1) \in Seq(S) /\ SubSeq(s, i + 1, Len(s)) \in Seq(S)
  BY <1>1, SubSeqProperties
<1> QED BY <1>1, <1>2, ConcatProperties DEF RemoveAt

\* JS8Call takes a message out of a socket.
LEMMA TakenFacts ==
  ASSUME TypeOK, Js8Takes
  PROVE  program' \in Program
<1>1. PICK i \in DOMAIN program.queue["js8call"] :
        program' = [program EXCEPT !.queue["js8call"] = RemoveAt(@, i),
                                   !.aired["js8call"] = Append(@, program.queue["js8call"][i])]
  BY DEF Js8Takes
<1>2. /\ program \in Program
      /\ program.queue["js8call"] \in Seq(Text) /\ program.aired["js8call"] \in Seq(Text)
  BY RunFacts DEF Program, Sender
<1>3. /\ RemoveAt(program.queue["js8call"], i) \in Seq(Text)
      /\ Append(program.aired["js8call"], program.queue["js8call"][i]) \in Seq(Text)
  BY <1>1, <1>2, RemovedType, AppendProperties
<1> QED BY <1>1, <1>2, <1>3 DEF Program, Sender

\* A run stops reading.
Stops == HasEnough \/ TimesOut \/ Js8HangsUp

\* A live run that reads what JS8Call, WSJT-X or PSK Reporter say.
LEMMA TypeListens ==
  ASSUME TypeInv, Js8Sends \/ Listens \/ PskReporterAnswers \/ Reads \/ Stops
  PROVE  TypeInv'
<1>0. /\ TypeOK /\ file' = file /\ run.use.limit \in Nat /\ Len(run.events) \in Nat
      /\ program \in Program /\ heard \in Nat /\ run.use.message \in Text \cup {NoText}
  BY RunFacts
     DEF TypeInv, Js8Sends, Listens, PskReporterAnswers, Reads, Stops, HasEnough, TimesOut,
     Js8HangsUp
<1>1. heard' \in Nat
  BY <1>0
     DEF Js8Sends, Listens, PskReporterAnswers, Reads, Stops, HasEnough, TimesOut,
     Js8HangsUp, Hears
<1>2. program' \in Program
  BY <1>0, QueuedFacts
     DEF Js8Sends, Listens, PskReporterAnswers, Reads, Stops, HasEnough, TimesOut,
     Js8HangsUp, MessageGiven, Sender
<1>3. ~Refused(run.use) /\ ~FromDisk(run.use) /\ run.use.limit # 0
  BY DEF TypeInv, Fits, Js8Sends, Listens, PskReporterAnswers, Reads, Stops, HasEnough,
     TimesOut, Js8HangsUp, Asks, WantsMore,
         Refused
<1>4. \A at \in {"read", "save"}, es \in Seq(Event) :
        /\ GoesOn(at, es)
        /\ at = "read" => Len(run.events) + Len(es) <= run.use.limit
        /\ at = "save" => \/ Len(run.events) + Len(es) <= 2
                            \/ Len(run.events) + Len(es) <= run.use.limit
        => TypeInv'
  <2> SUFFICES ASSUME NEW at \in {"read", "save"}, NEW es \in Seq(Event), GoesOn(at, es),
                 at = "read" => Len(run.events) + Len(es) <= run.use.limit,
                 at = "save" => \/ Len(run.events) + Len(es) <= 2
                                \/ Len(run.events) + Len(es) <= run.use.limit
               PROVE  TypeInv'
    OBVIOUS
  <2>1. Fits(run.use, at, Len(run.events) + Len(es))
    BY <1>3 DEF Fits
  <2> QED BY <1>0, <1>1, <1>2, <2>1, GoesOnTyped DEF Stage
<1>5. <<>> \in Seq(Event) /\ Len(<<>>) = 0
  BY EmptySeq
<1>6. CASE Js8Sends \/ Listens
  <2>1. Len(run.events) = 1 /\ GoesOn("read", <<>>)
    BY <1>6 DEF TypeInv, Fits, Js8Sends, Listens, Asks
  <2>2. Len(run.events) + Len(<<>>) <= run.use.limit
    BY <1>0, <1>3, <1>5, <2>1
  <2> QED BY <1>4, <1>5, <2>1, <2>2
<1>7. CASE PskReporterAnswers
  <2>1. PICK n \in 0..SpotLimit : GoesOn("save", Spots(n))
    BY <1>7 DEF PskReporterAnswers
  <2>2. Len(run.events) = 1
    BY <1>7 DEF TypeInv, Fits, PskReporterAnswers, Asks
  <2>3. SpotLimit = IF 1 >= run.use.limit - 1 THEN 1 ELSE run.use.limit - 1
    BY <1>0, MaxOfTwo DEF SpotLimit
  <2>4. n \in Nat /\ Spots(n) \in Seq(Event) /\ Len(Spots(n)) = n
    BY <1>0, <1>1, <2>3, ReadFacts
  <2>5. 1 + n <= 2 \/ 1 + n <= run.use.limit
    BY <1>0, <2>3
  <2> QED BY <1>4, <2>1, <2>2, <2>4, <2>5
<1>8. CASE Reads
  <2>1. PICK es \in LineEvents(heard') \cup DatagramEvents(heard') : GoesOn("read", es)
    BY <1>8 DEF Reads
  <2>2. Len(run.events) < run.use.limit
    BY <1>8 DEF Reads, WantsMore
  <2>3. es \in Seq(Event) /\ Len(es) <= 1 /\ Len(es) \in Nat
    BY <1>0, <1>1, ReadFacts, LenProperties
  <2> QED BY <1>0, <1>4, <2>1, <2>2, <2>3
<1>9. CASE Stops
  <2>1. Len(run.events) <= run.use.limit /\ GoesOn("save", <<>>)
    BY <1>9 DEF TypeInv, Fits, Stops, HasEnough, TimesOut, Js8HangsUp, WantsMore
  <2>2. Len(run.events) + Len(<<>>) <= run.use.limit
    BY <1>0, <1>5, <2>1
  <2> QED BY <1>4, <1>5, <2>1, <2>2
<1> QED BY <1>6, <1>7, <1>8, <1>9

\* A live run with fldigi.
LEMMA TypeFldigi ==
  ASSUME TypeInv, FldigiReceives \/ FldigiQueues \/ FldigiKeys
  PROVE  TypeInv'
<1>0. /\ TypeOK /\ file' = file /\ heard' \in Nat /\ Len(run.events) \in Nat
      /\ program \in Program /\ run.use.message \in Text \cup {NoText}
      /\ run.use.tx \in BOOLEAN
  BY RunFacts DEF TypeInv, FldigiReceives, FldigiQueues, FldigiKeys
<1>1. program' \in Program
  BY <1>0, QueuedFacts, KeyedFacts
     DEF FldigiReceives, FldigiQueues, FldigiKeys, MessageGiven, Sender
<1>2. ~Refused(run.use) /\ ~FromDisk(run.use) /\ run.use.adapter = "fldigi"
  BY DEF TypeInv, Fits, FldigiReceives, FldigiQueues, FldigiKeys, Asks
<1>3. <<>> \in Seq(Event) /\ Len(<<>>) = 0
  BY EmptySeq
<1>4. CASE FldigiReceives
  <2> DEFINE at == IF run.use.tx THEN "send" ELSE "save"
  <2>1. Len(run.events) = 1 /\ GoesOn(at, FldigiReceived)
    BY <1>4 DEF TypeInv, Fits, FldigiReceives, Asks
  <2>2. [kind |-> "decode", of |-> program.rx] \in Event
    BY <1>0, EventFacts DEF Program
  <2>3. FldigiReceived \in Seq(Event) /\ Len(FldigiReceived) <= 1 /\ Len(FldigiReceived) \in Nat
    BY <1>3, <2>2 DEF FldigiReceived
  <2>4. Fits(run.use, at, Len(run.events) + Len(FldigiReceived))
    BY <1>2, <2>1, <2>3 DEF Fits
  <2> QED BY <1>0, <1>1, <2>1, <2>3, <2>4, GoesOnTyped DEF Stage
<1>5. CASE FldigiQueues
  <2>1. /\ run.use.tx /\ Len(run.events) <= 2 /\ run.use.message \in Text /\ GoesOn("key", <<>>)
    BY <1>0, <1>5 DEF TypeInv, Fits, FldigiQueues, MessageGiven
  <2>2. Fits(run.use, "key", Len(run.events) + Len(<<>>))
    BY <1>0, <1>2, <1>3, <2>1 DEF Fits
  <2> QED BY <1>0, <1>1, <1>3, <2>1, <2>2, GoesOnTyped DEF Stage
<1>6. CASE FldigiKeys
  <2>1. Len(run.events) <= 2 /\ GoesOn("save", <<>>)
    BY <1>6 DEF TypeInv, Fits, FldigiKeys
  <2>2. Fits(run.use, "save", Len(run.events) + Len(<<>>))
    BY <1>0, <1>3, <2>1 DEF Fits
  <2> QED BY <1>0, <1>1, <1>3, <2>1, <2>2, GoesOnTyped DEF Stage
<1> QED BY <1>4, <1>5, <1>6

\* A command given.
LEMMA TypeStart ==
  ASSUME TypeInv, NEW use \in Uses, Start(use)
  PROVE  TypeInv'
<1>0. /\ TypeOK /\ use \in Use /\ program' \in Program /\ file' \in EventLog /\ heard' \in Nat
      /\ run \in Run /\ history \in Seq(HistoryRecord)
  BY RunFacts, UseFacts DEF TypeInv, Start
<1>1. <<>> \in Seq(Event) /\ <<Health>> \in Seq(Event) /\ Len(<<Health>>) = 1
  BY UseFacts, EmptySeq
<1>2. CASE Refused(use)
  <2>1. [use |-> use, result |-> "error", events |-> <<>>] \in HistoryRecord
    BY <1>0, <1>1 DEF HistoryRecord, Results
  <2>2. run' = run /\ history' \in Seq(HistoryRecord)
    BY <1>0, <1>2, <2>1, AppendProperties DEF Start
  <2>3. Fits(run'.use, run'.at, Len(run'.events))
    BY <2>2 DEF TypeInv
  <2> QED BY <1>0, <2>2, <2>3, TypeParts
<1>3. CASE ~Refused(use)
  <2> DEFINE at == IF FromDisk(use) THEN "load" ELSE "call"
  <2>1. /\ run' = [at |-> at, use |-> use, events |-> <<Health>>, talks |-> FALSE]
        /\ history' = history
    BY <1>3 DEF Start
  <2>2. run' \in Run
    BY <1>1, <2>1 DEF Run, Stage
  <2>3. Fits(use, at, 1)
    BY <1>3 DEF Fits
  <2>4. Fits(run'.use, run'.at, Len(run'.events))
    BY <1>1, <2>1, <2>3
  <2> QED BY <1>0, <2>1, <2>2, <2>4, TypeParts
<1> QED BY <1>2, <1>3

\* What a log holds is records.
LEMMA WrittenType ==
  ASSUME NEW events \in Seq(Event), NEW k \in 0..Len(events), NEW torn \in BOOLEAN
  PROVE  /\ RecordsFromEvents(events) \in Seq(EventRecord)
         /\ Len(RecordsFromEvents(events)) = Len(events)
         /\ Written(RecordsFromEvents(events), k, torn) \in EventLog
<1> DEFINE records == RecordsFromEvents(events)
<1>1. Len(events) \in Nat /\ \A i \in 1..Len(events) : events[i] \in Event
  BY LenProperties, ElementOfSeq
<1>2. \A i \in 1..Len(events) : [sequence |-> i, event |-> events[i]] \in EventRecord
  BY <1>1 DEF EventRecord
<1>3. records = [i \in 1..Len(events) |-> [sequence |-> i, event |-> events[i]]]
  BY LenProperties DEF RecordsFromEvents
<1>4. records \in Seq(EventRecord) /\ Len(records) = Len(events)
  BY <1>1, <1>2, <1>3
<1> HIDE DEF records
<1>5. SubSeq(records, 1, k) \in Seq(EventRecord)
  BY <1>1, <1>4, SubSeqProperties
<1> QED BY <1>4, <1>5 DEF Written, EventLog, records

\* A run that ends, and what it leaves on the disk.
LEMMA TypeEnds ==
  ASSUME TypeInv, RunFails \/ MessageMissing \/ AnswerLost \/ Saves \/ SaveBreaksOff
  PROVE  TypeInv'
<1>0. /\ TypeOK /\ heard' \in Nat /\ program \in Program /\ file \in EventLog
      /\ run.events \in Seq(Event) /\ Len(run.events) \in Nat
      /\ run.use.message \in Text \cup {NoText}
  BY RunFacts DEF TypeInv, RunFails, MessageMissing, AnswerLost, Saves, SaveBreaksOff
<1>1. "ok" \in Results /\ "error" \in Results /\ "save failed" \in Results
  BY DEF Results
<1>2. program' \in Program
  BY <1>0, QueuedFacts, KeyedFacts
     DEF RunFails, MessageMissing, AnswerLost, Saves, SaveBreaksOff, MessageGiven, Sender
<1>3. file' \in EventLog
  <2>1. CASE RunFails \/ MessageMissing \/ AnswerLost
    BY <1>0, <2>1 DEF RunFails, MessageMissing, AnswerLost
  <2>2. CASE Saves
    <3>1. Len(run.events) \in 0..Len(run.events)
      BY <1>0
    <3> QED BY <1>0, <2>2, <3>1, WrittenType DEF Saves
  <2>3. CASE SaveBreaksOff
    <3>1. PICK k \in 0..(Len(run.events) - 1), torn \in BOOLEAN :
            file' = Written(RecordsFromEvents(run.events), k, torn)
      BY <2>3 DEF SaveBreaksOff
    <3>2. k \in 0..Len(run.events)
      BY <1>0, <3>1
    <3> QED BY <1>0, <3>1, <3>2, WrittenType
  <2> QED BY <2>1, <2>2, <2>3
<1>4. \E result \in Results : Ended(result, run.events)
  BY <1>1 DEF RunFails, MessageMissing, AnswerLost, Saves, SaveBreaksOff
<1> QED BY <1>0, <1>2, <1>3, <1>4, EndedTyped

\* The world outside the run, and nothing at all.
LEMMA TypeRests ==
  ASSUME TypeInv, FldigiDecodes \/ Js8Takes \/ Talks \/ UNCHANGED vars
  PROVE  TypeInv'
<1>0. /\ TypeOK /\ program \in Program /\ heard \in Nat /\ run \in Run /\ file \in EventLog
      /\ history \in Seq(HistoryRecord)
  BY RunFacts DEF TypeInv
<1>1. heard' \in Nat
  <2>1. CASE FldigiDecodes
    BY <1>0, <2>1 DEF FldigiDecodes, Hears
  <2>2. CASE Js8Takes \/ Talks \/ UNCHANGED vars
    BY <1>0, <2>2 DEF Js8Takes, Talks, vars
  <2> QED BY <2>1, <2>2
<1>2. program' \in Program
  <2>1. CASE FldigiDecodes
    <3>1. \A n \in Nat : [program EXCEPT !.rx = Append(@, n)] \in Program
      BY <1>0, AppendProperties DEF Program
    <3> QED BY <1>1, <2>1, <3>1 DEF FldigiDecodes
  <2>2. CASE Js8Takes
    BY <1>0, <2>2, TakenFacts
  <2>3. CASE Talks \/ UNCHANGED vars
    BY <1>0, <2>3 DEF Talks, vars
  <2> QED BY <2>1, <2>2, <2>3
<1>3. file' \in EventLog /\ history' \in Seq(HistoryRecord)
  BY <1>0 DEF FldigiDecodes, Js8Takes, Talks, vars
<1>4. /\ run' \in Run /\ run'.at = run.at /\ run'.use = run.use /\ run'.events = run.events
  BY <1>0 DEF FldigiDecodes, Js8Takes, Talks, vars, Run
<1>5. Fits(run'.use, run'.at, Len(run'.events))
  BY <1>4 DEF TypeInv
<1> QED BY <1>1, <1>2, <1>3, <1>4, <1>5, TypeParts

LEMMA TypeNext ==
  ASSUME TypeInv, [Next]_vars
  PROVE  TypeInv'
BY TypeLoads, TypeListens, TypeFldigi, TypeStart, TypeEnds, TypeRests
   DEF Next, Progress, Failure, World, Stops, AllRun

LEMMA TypeInit ==
  ASSUME Init
  PROVE  TypeInv
<1>1. Idle \in Run /\ Len(Idle.events) = 0 /\ Idle.at = "idle" /\ Idle.use \in Uses
  BY UseFacts, EmptySeq DEF Run, Stage
<1>2. Fits(Idle.use, Idle.at, Len(Idle.events))
  BY <1>1 DEF Fits
<1>3. Idle.use \in Use /\ Idle.at \in Stage /\ Len(Idle.events) \in Nat
  BY <1>1, UseFacts DEF Stage
<1>4. ~FromDisk(Idle.use) => Len(Idle.events) <= Max({2, Idle.use.limit})
  BY <1>2, <1>3, FitsLimit
<1>5. /\ program \in Program /\ file \in EventLog /\ heard \in Nat /\ history \in Seq(HistoryRecord)
  BY EmptySeq DEF Init, Program, EventLog, Sender
<1> QED
  BY <1>1, <1>2, <1>4, <1>5
     DEF Init, TypeInv, TypeOK, Run, Stage, Program, EventLog, HistoryRecord

\* Every variable keeps its type, and a live run keeps to its limit whatever the
\* programs send it.
THEOREM TypeCorrect == Spec => []TypeOK
<1>1. TypeInv => TypeOK
  BY DEF TypeInv
<1> QED BY TypeInit, TypeNext, <1>1, PTL DEF Spec

-----------------------------------------------------------------------------
(* The event log                                                           *)

\* The greatest of a bounded set of numbers.
LEMMA MaxFacts ==
  ASSUME NEW n \in Nat, NEW T, T \subseteq 1..n, T # {}
  PROVE  Max(T) \in T /\ \A y \in T : Max(T) >= y
<1> DEFINE above == {k \in Nat : \A y \in T : k >= y}
<1>1. above \subseteq Nat /\ n \in above
  OBVIOUS
<1>2. PICK m \in above : \A k \in above : m <= k
  BY <1>1, Least
<1>3. m \in T
  <2> SUFFICES ASSUME m \notin T PROVE FALSE
    OBVIOUS
  <2>0. PICK y : y \in T
    OBVIOUS
  <2>1. m \in Nat /\ m >= y /\ y \in 1..n
    BY <1>2, <2>0
  <2>2. m - 1 \in Nat /\ \A z \in T : m - 1 >= z
    BY <1>2, <2>1
  <2> QED BY <1>2, <2>1, <2>2
<1>4. \A x \in T : (\A y \in T : x >= y) => x = m
  BY <1>2, <1>3
<1> QED BY <1>2, <1>3, <1>4 DEF Max

Writes(h) == h.use.out /\ h.result # "error"

\* The last writer when one more run has ended.
LEMMA LastWriterMore ==
  ASSUME NEW hs \in Seq(HistoryRecord), NEW h \in HistoryRecord
  PROVE  /\ LastWriter(hs) \in 0..Len(hs) /\ Len(hs) \in Nat
         /\ LastWriter(Append(hs, h)) = IF Writes(h) THEN Len(hs) + 1 ELSE LastWriter(hs)
         /\ Append(hs, h)[Len(hs) + 1] = h
         /\ \A i \in 1..Len(hs) : Append(hs, h)[i] = hs[i]
<1> DEFINE all == Append(hs, h)
           writers(s) == {i \in DOMAIN s : s[i].use.out /\ s[i].result # "error"}
<1>1. /\ Len(hs) \in Nat /\ DOMAIN hs = 1..Len(hs) /\ DOMAIN all = 1..(Len(hs) + 1)
      /\ all[Len(hs) + 1] = h /\ \A i \in 1..Len(hs) : all[i] = hs[i]
  BY AppendProperties, LenProperties
<1>2. /\ writers(hs) \subseteq 1..Len(hs) /\ writers(all) \subseteq 1..(Len(hs) + 1)
      /\ writers(all) = IF Writes(h) THEN writers(hs) \cup {Len(hs) + 1} ELSE writers(hs)
  BY <1>1 DEF Writes
<1>3. /\ LastWriter(hs) = IF writers(hs) = {} THEN 0 ELSE Max(writers(hs))
      /\ LastWriter(all) = IF writers(all) = {} THEN 0 ELSE Max(writers(all))
  BY DEF LastWriter
<1> HIDE DEF all, writers
<1>4. LastWriter(hs) \in 0..Len(hs)
  <2>1. writers(hs) # {} => Max(writers(hs)) \in writers(hs)
    BY <1>1, <1>2, MaxFacts
  <2> QED BY <1>1, <1>2, <1>3, <2>1
<1>5. Writes(h) => LastWriter(all) = Len(hs) + 1
  <2> SUFFICES ASSUME Writes(h) PROVE LastWriter(all) = Len(hs) + 1
    OBVIOUS
  <2>1. Len(hs) + 1 \in writers(all) /\ Len(hs) + 1 \in Nat
    BY <1>1, <1>2
  <2>2. Max(writers(all)) \in writers(all) /\ Max(writers(all)) >= Len(hs) + 1
    BY <1>2, <2>1, MaxFacts
  <2> QED BY <1>1, <1>2, <1>3, <2>1, <2>2
<1> QED BY <1>1, <1>2, <1>3, <1>4, <1>5 DEF all

\* What is in the file is what the run that wrote it last left there.
Left(h, f) ==
  LET records == RecordsFromEvents(h.events)
      replayed == ReadEventLog(f)
  IN /\ h.result = "ok" => replayed.ok /\ replayed.records = records
     /\ \E k \in 0..Len(records) : replayed.records = SubSeq(records, 1, k)

Replays == LastWriter(history) # 0 => Left(history[LastWriter(history)], file)

\* A run that does not write leaves the file to the last that did.
LEMMA ReplaysOthers ==
  ASSUME TypeInv, Replays, file' = file, NEW h \in HistoryRecord, ~Writes(h),
         history' = Append(history, h)
  PROVE  Replays'
<1>1. history \in Seq(HistoryRecord)
  BY RunFacts DEF TypeInv
<1>2. /\ LastWriter(history') = LastWriter(history) /\ LastWriter(history) \in 0..Len(history)
      /\ Len(history) \in Nat /\ \A i \in 1..Len(history) : history'[i] = history[i]
  BY <1>1, LastWriterMore
<1>3. CASE LastWriter(history) = 0
  BY <1>2, <1>3 DEF Replays
<1>4. CASE LastWriter(history) # 0
  <2>1. /\ LastWriter(history)' = LastWriter(history)
        /\ history'[LastWriter(history)] = history[LastWriter(history)]
    BY <1>2, <1>4
  <2> QED BY <1>4, <2>1 DEF Replays
<1> QED BY <1>3, <1>4

\* One that writes leaves its own, whole or broken off.
LEMMA ReplaysWriter ==
  ASSUME TypeInv, NEW k \in 0..Len(run.events), NEW torn \in BOOLEAN, NEW result \in Results,
         result = "ok" => k = Len(run.events) /\ ~torn,
         Ended(result, run.events), run.use.out, result # "error",
         file' = Written(RecordsFromEvents(run.events), k, torn)
  PROVE  Replays'
<1> DEFINE records == RecordsFromEvents(run.events)
<1>0. PICK h : h = [use |-> run.use, result |-> result, events |-> run.events]
  OBVIOUS
<1>1. /\ history \in Seq(HistoryRecord) /\ h \in HistoryRecord /\ history' = Append(history, h)
      /\ run.events \in Seq(Event)
  BY <1>0, RunFacts, EndedFacts DEF TypeInv
<1>2. Writes(h) /\ h.result = result /\ h.events = run.events
  BY <1>0 DEF Writes
<1>3. LastWriter(history') = Len(history) + 1 /\ history'[Len(history) + 1] = h
  BY <1>1, <1>2, LastWriterMore
<1>4. records \in Seq(EventRecord) /\ Len(records) = Len(run.events) /\ Len(records) \in Nat
  BY <1>1, WrittenType, LenProperties
<1>5. SubSeq(records, 1, 0) = <<>> /\ SubSeq(records, 1, Len(records)) = records
  <2> HIDE DEF records
  <2> QED BY <1>4
<1>6. /\ ReadEventLog(file').ok = ~torn
      /\ ReadEventLog(file').records = IF torn THEN <<>> ELSE SubSeq(records, 1, k)
  BY DEF ReadEventLog, Written
<1>7. \E i \in 0..Len(records) : ReadEventLog(file').records = SubSeq(records, 1, i)
  <2>1. 0 \in 0..Len(records) /\ k \in 0..Len(records)
    BY <1>4
  <2> HIDE DEF records
  <2> QED BY <1>5, <1>6, <2>1
<1>8. result = "ok" => ReadEventLog(file').ok /\ ReadEventLog(file').records = records
  BY <1>4, <1>5, <1>6
<1>9. Left(h, file')
  BY <1>2, <1>7, <1>8 DEF Left
<1> QED BY <1>3, <1>9 DEF Replays

\* Each step keeps what the log was left as, or the run under way writes it.
LEMMA ReplaysNext ==
  ASSUME TypeInv, Replays, [Next]_vars
  PROVE  Replays'
<1>0. /\ TypeOK /\ run.use.out \in BOOLEAN /\ history \in Seq(HistoryRecord)
      /\ "ok" \in Results /\ "error" \in Results /\ "save failed" \in Results
  BY RunFacts DEF TypeInv, Results
<1> DEFINE n == Len(run.events)
<1>00. /\ n \in Nat /\ n \in 0..n /\ \A k \in 0..(n - 1) : k \in 0..n
  <2>1. n \in Nat
    BY RunFacts DEF TypeInv
  <2> HIDE DEF n
  <2> QED BY <2>1
<1>1. CASE file' = file /\ history' = history
  BY <1>1 DEF Replays
<1>2. CASE Saves
  <2>1. Ended("ok", run.events)
    BY <1>2 DEF Saves
  <2>2. CASE run.use.out
    <3> QED BY <1>0, <1>00, <1>2, <2>1, <2>2, ReplaysWriter DEF Saves
  <2>3. CASE ~run.use.out
    <3>1. file' = file
      BY <1>2, <2>3 DEF Saves
    <3>2. PICK h \in HistoryRecord : ~Writes(h) /\ history' = Append(history, h)
      BY <1>0, <2>1, <2>3, EndedFacts DEF Writes
    <3> QED BY <3>1, <3>2, ReplaysOthers
  <2> QED BY <2>2, <2>3
<1>3. CASE SaveBreaksOff
  <2>1. PICK k \in 0..(Len(run.events) - 1), torn \in BOOLEAN :
          file' = Written(RecordsFromEvents(run.events), k, torn)
    BY <1>3 DEF SaveBreaksOff
  <2>2. k \in 0..Len(run.events) /\ run.use.out /\ Ended("save failed", run.events)
    BY <1>00, <1>3, <2>1 DEF SaveBreaksOff
  <2> QED BY <1>0, <2>1, <2>2, ReplaysWriter
<1>4. CASE RunFails \/ MessageMissing \/ AnswerLost
  <2>1. file' = file /\ Ended("error", run.events)
    BY <1>4 DEF RunFails, MessageMissing, AnswerLost
  <2>2. PICK h \in HistoryRecord : ~Writes(h) /\ history' = Append(history, h)
    BY <1>0, <2>1, EndedFacts DEF Writes
  <2> QED BY <2>1, <2>2, ReplaysOthers
<1>5. ASSUME NEW use \in Uses, Start(use) PROVE Replays'
  <2>1. file' = file
    BY <1>5 DEF Start
  <2>2. CASE Refused(use)
    <3> DEFINE h == [use |-> use, result |-> "error", events |-> <<>>]
    <3>1. h \in HistoryRecord /\ ~Writes(h)
      BY <1>0, UseFacts, EmptySeq DEF HistoryRecord, Writes
    <3>2. history' = Append(history, h)
      BY <1>5, <2>2 DEF Start
    <3> QED BY <2>1, <3>1, <3>2, ReplaysOthers
  <2>3. CASE ~Refused(use)
    BY <1>1, <1>5, <2>1, <2>3 DEF Start
  <2> QED BY <2>2, <2>3
<1>6. CASE FldigiDecodes \/ Js8Takes \/ Talks \/ UNCHANGED vars
  BY <1>1, <1>6 DEF FldigiDecodes, Js8Takes, Talks, vars
<1>7. CASE Loads \/ Js8Sends \/ Listens \/ PskReporterAnswers
  BY <1>1, <1>7 DEF Loads, Js8Sends, Listens, PskReporterAnswers, GoesOn, LoadsLine,
     LoadsDatagram, LoadsText, LoadsSpots, LoadsOwnText
<1>8. CASE Reads \/ Stops \/ FldigiReceives \/ FldigiQueues \/ FldigiKeys
  BY <1>1, <1>8 DEF Reads, Stops, HasEnough, TimesOut, Js8HangsUp, FldigiReceives, FldigiQueues,
     FldigiKeys, GoesOn
<1> QED
  BY <1>2, <1>3, <1>4, <1>5, <1>6, <1>7, <1>8 DEF Next, Progress, Failure, World, Stops, AllRun

\* After any number of runs with or without a log, whole or broken off: replaying it
\* gives what the last run that wrote it reported, or a beginning of it, or an error.
THEOREM LogReplays == Spec => []LogReplaysReport
<1>1. Init => TypeInv /\ Replays
  <2>1. Init => LastWriter(history) = 0
    BY DEF Init, LastWriter
  <2> QED BY <2>1, TypeInit DEF Replays
<1>2. TypeInv /\ Replays /\ [Next]_vars => (TypeInv /\ Replays)'
  BY TypeNext, ReplaysNext
<1>3. Replays => LogReplaysReport
  BY DEF Replays, Left, LogReplaysReport
<1> QED BY <1>1, <1>2, <1>3, PTL DEF Spec

-----------------------------------------------------------------------------
(* Counting                                                                *)

\* A set of positions, and the next position with it.
LEMMA OneMore ==
  ASSUME NEW n \in Nat, NEW T, T \subseteq 1..n
  PROVE  /\ IsFiniteSet(T) /\ Cardinality(T) \in Nat
         /\ Cardinality(T \cup {n + 1}) = Cardinality(T) + 1
<1>1. IsFiniteSet(1..n)
  BY FS_Interval
<1>2. IsFiniteSet(T) /\ Cardinality(T) \in Nat
  BY <1>1, FS_Subset, FS_CardinalityType
<1>3. n + 1 \notin T
  OBVIOUS
<1> QED BY <1>2, <1>3, FS_AddElement

One(b) == IF b THEN 1 ELSE 0

LEMMA TimesType ==
  ASSUME NEW S, NEW s \in Seq(S), NEW x
  PROVE  Times(s, x) \in Nat
<1>1. Len(s) \in Nat /\ {i \in DOMAIN s : s[i] = x} \subseteq 1..Len(s)
  BY LenProperties
<1> QED BY <1>1, OneMore DEF Times

LEMMA AskedType ==
  ASSUME NEW S, NEW hs \in Seq(S), NEW adapter, NEW results, NEW x
  PROVE  Asked(hs, adapter, results, x) \in Nat
<1> DEFINE T == {i \in DOMAIN hs : /\ Sends(hs[i], adapter) /\ hs[i].use.message = x
                                   /\ hs[i].result \in results}
<1>1. Len(hs) \in Nat /\ T \subseteq 1..Len(hs)
  BY LenProperties
<1>2. Cardinality(T) \in Nat
  BY <1>1, OneMore
<1> QED BY <1>2 DEF Asked

\* How often x is in a list one longer.
LEMMA TimesMore ==
  ASSUME NEW S, NEW s \in Seq(S), NEW e \in S, NEW x
  PROVE  /\ Times(s, x) \in Nat
         /\ Times(Append(s, e), x) = Times(s, x) + One(e = x)
<1> DEFINE t == Append(s, e)
           n == Len(s)
           T == {i \in DOMAIN s : s[i] = x}
           U == {i \in DOMAIN t : t[i] = x}
<1>1. /\ n \in Nat /\ DOMAIN s = 1..n /\ DOMAIN t = 1..(n + 1)
      /\ t[n + 1] = e /\ \A i \in 1..n : t[i] = s[i]
  BY AppendProperties, LenProperties
<1>2. T \subseteq 1..n /\ U = IF e = x THEN T \cup {n + 1} ELSE T
  BY <1>1
<1>3. Times(s, x) = Cardinality(T) /\ Times(t, x) = Cardinality(U)
  BY DEF Times
<1> HIDE DEF T, U, t, n
<1>4. Cardinality(T) \in Nat /\ Cardinality(T \cup {n + 1}) = Cardinality(T) + 1
  BY <1>1, <1>2, OneMore
<1> QED BY <1>2, <1>3, <1>4 DEF One, t

LEMMA TimesEmpty ==
  ASSUME NEW x
  PROVE  Times(<<>>, x) = 0
<1>1. {i \in DOMAIN <<>> : <<>>[i] = x} = {}
  OBVIOUS
<1> QED BY <1>1, FS_EmptySet DEF Times

\* How often x is in two lists one behind the other.
LEMMA TimesBoth ==
  ASSUME NEW S, NEW s \in Seq(S), NEW t \in Seq(S), NEW x
  PROVE  Times(s \o t, x) = Times(s, x) + Times(t, x)
<1> DEFINE m == Len(s)
           n == Len(t)
           u == s \o t
           T == {i \in DOMAIN s : s[i] = x}
           U == {i \in DOMAIN t : t[i] = x}
           V == {i \in DOMAIN u : u[i] = x}
           W == V \ T
<1>1. /\ m \in Nat /\ n \in Nat /\ DOMAIN s = 1..m /\ DOMAIN t = 1..n /\ DOMAIN u = 1..(m + n)
      /\ \A i \in 1..m : u[i] = s[i]
      /\ \A i \in 1..n : u[m + i] = t[i]
  BY ConcatProperties, LenProperties
<1>2. /\ T \subseteq 1..m /\ U \subseteq 1..n /\ T \subseteq V
      /\ W = {i \in (m + 1)..(m + n) : u[i] = x}
  BY <1>1
<1>3. /\ Times(s, x) = Cardinality(T) /\ Times(t, x) = Cardinality(U)
      /\ Times(u, x) = Cardinality(V)
  BY DEF Times
<1>4. \A i \in U : m + i \in W
  BY <1>1, <1>2
<1>5. \A j \in W : j - m \in U /\ m + (j - m) = j
  BY <1>1, <1>2
<1> DEFINE f == [i \in U |-> m + i]
<1>6. f \in Bijection(U, W)
  <2>1. f \in [U -> W]
    BY <1>4
  <2>2. \A i, j \in U : f[i] = f[j] => i = j
    BY <1>1, <1>2
  <2>3. \A j \in W : \E i \in U : f[i] = j
    BY <1>5
  <2> QED BY <2>1, <2>2, <2>3, Fun_IsBij
<1>7. IsFiniteSet(T) /\ IsFiniteSet(U) /\ Cardinality(T) \in Nat /\ Cardinality(U) \in Nat
  BY <1>1, <1>2, OneMore
<1>8. IsFiniteSet(W) /\ Cardinality(W) = Cardinality(U)
  <2>1. ExistsBijection(U, W)
    BY <1>6 DEF ExistsBijection
  <2> QED BY <1>7, <2>1, FS_Bijection
<1>9. V = T \cup W /\ T \cap W = {}
  BY <1>2
<1> HIDE DEF T, U, V, W
<1>10. Cardinality(T \cup W) = Cardinality(T) + Cardinality(W) - Cardinality(T \cap W)
  BY <1>7, <1>8, FS_Union
<1>11. Cardinality(T \cap W) = 0
  BY <1>9, FS_EmptySet
<1> QED BY <1>3, <1>7, <1>8, <1>9, <1>10, <1>11

\* What is before one of the elements of a list, and what is behind it.
Around(S, s, i, front, back) ==
  /\ front = SubSeq(s, 1, i - 1) /\ back = SubSeq(s, i + 1, Len(s))
  /\ front \in Seq(S) /\ back \in Seq(S) /\ s[i] \in S
  /\ Append(front, s[i]) \in Seq(S)
  /\ s = Append(front, s[i]) \o back

LEMMA SplitAt ==
  ASSUME NEW S, NEW s \in Seq(S), NEW i \in DOMAIN s
  PROVE  \E front, back : Around(S, s, i, front, back)
<1>0. PICK front, back : front = SubSeq(s, 1, i - 1) /\ back = SubSeq(s, i + 1, Len(s))
  OBVIOUS
<1>1. PICK n \in Nat : n = Len(s)
  BY LenProperties
<1>2. i \in 1..n /\ s[i] \in S /\ (\A j \in 1..n : s[j] \in S)
  BY <1>1, RemovedType, ElementOfSeq
<1>3. /\ front \in Seq(S) /\ Len(front) = i - 1 /\ (\A j \in 1..(i - 1) : front[j] = s[j])
  BY <1>0, <1>1, <1>2, SubSeqProperties
<1>4. /\ back \in Seq(S) /\ Len(back) = n - i /\ (\A j \in 1..(n - i) : back[j] = s[i + j])
  BY <1>0, <1>1, <1>2, SubSeqProperties
<1>5. PICK most : most = Append(front, s[i])
  OBVIOUS
<1>6. /\ most \in Seq(S) /\ Len(most) = i
      /\ (\A j \in 1..(i - 1) : most[j] = s[j]) /\ most[i] = s[i]
  BY <1>2, <1>3, <1>5, AppendProperties
<1>7. ASSUME NEW j \in 1..i PROVE most[j] = s[j]
  <2>1. j = i \/ j \in 1..(i - 1)
    BY <1>2
  <2> QED BY <1>6, <2>1
<1>8. PICK all : all = most \o back
  OBVIOUS
<1>9. /\ all \in Seq(S) /\ Len(all) = n
      /\ \A j \in 1..n : all[j] = IF j <= i THEN most[j] ELSE back[j - i]
  <2>1. i \in Int /\ i + (n - i) = n
    BY <1>2
  <2>2. /\ all \in Seq(S) /\ Len(all) = Len(most) + Len(back)
        /\ \A j \in 1..(Len(most) + Len(back)) :
             all[j] = IF j <= Len(most) THEN most[j] ELSE back[j - Len(most)]
    <3>1. most \in Seq(S) /\ back \in Seq(S)
      BY <1>4, <1>6
    <3> QED BY <1>8, <3>1, ConcatProperties, Zenon
  <2>3. Len(most) = i /\ Len(most) + Len(back) = n
    BY <1>4, <1>6, <2>1
  <2> QED BY <2>2, <2>3
<1>10. ASSUME NEW k \in 1..n PROVE all[k] = s[k]
  <2>1. /\ \A j \in 1..i : most[j] = s[j]
        /\ \A j \in 1..(n - i) : back[j] = s[i + j]
        /\ \A j \in 1..n : all[j] = IF j <= i THEN most[j] ELSE back[j - i]
    BY <1>4, <1>7, <1>9
  <2>2. CASE k \in 1..i
    BY <1>2, <2>1, <2>2
  <2>3. CASE k \notin 1..i
    <3>1. k - i \in 1..(n - i) /\ i + (k - i) = k /\ ~(k <= i)
      BY <1>2, <2>3
    <3> QED BY <2>1, <3>1
  <2> QED BY <2>2, <2>3
<1>11. all = s
  BY <1>1, <1>9, <1>10, SeqEqual
<1>12. Around(S, s, i, front, back)
  BY <1>0, <1>2, <1>3, <1>4, <1>5, <1>6, <1>8, <1>11 DEF Around
<1> QED BY <1>12

\* How often x is in a list without one of its elements.
LEMMA TimesLess ==
  ASSUME NEW S, NEW s \in Seq(S), NEW i \in DOMAIN s, NEW x
  PROVE  Times(s, x) = Times(RemoveAt(s, i), x) + One(s[i] = x)
<1>1. PICK front, back : Around(S, s, i, front, back)
  BY SplitAt
<1>2. PICK e, most : e = s[i] /\ most = Append(front, e)
  OBVIOUS
<1>3. /\ front \in Seq(S) /\ back \in Seq(S) /\ e \in S /\ most \in Seq(S)
      /\ s = most \o back /\ RemoveAt(s, i) = front \o back
  BY <1>1, <1>2, Zenon DEF RemoveAt, Around
<1>4. Times(most, x) = Times(front, x) + One(e = x)
  BY <1>2, <1>3, TimesMore
<1>5. Times(most \o back, x) = Times(most, x) + Times(back, x)
  BY <1>3, TimesBoth
<1>6. Times(front \o back, x) = Times(front, x) + Times(back, x)
  BY <1>3, TimesBoth
<1>7. Times(front, x) \in Nat /\ Times(back, x) \in Nat /\ One(e = x) \in Nat
  BY <1>3, TimesType DEF One
<1>8. Times(s, x) = Times(most, x) + Times(back, x)
  BY <1>3, <1>5
<1>9. Times(RemoveAt(s, i), x) = Times(front, x) + Times(back, x)
  BY <1>3, <1>6
<1> QED BY <1>2, <1>4, <1>7, <1>8, <1>9

\* How many were to send x, with one run more.
LEMMA AskedMore ==
  ASSUME NEW S, NEW hs \in Seq(S), NEW h \in S, NEW adapter, NEW results, NEW x
  PROVE  /\ Asked(hs, adapter, results, x) \in Nat
         /\ Asked(Append(hs, h), adapter, results, x)
              = Asked(hs, adapter, results, x)
                + One(Sends(h, adapter) /\ h.use.message = x /\ h.result \in results)
<1> DEFINE all == Append(hs, h)
           n == Len(hs)
           of(i, s) == /\ Sends(s[i], adapter) /\ s[i].use.message = x
                       /\ s[i].result \in results
           T == {i \in DOMAIN hs : of(i, hs)}
           U == {i \in DOMAIN all : of(i, all)}
           b == Sends(h, adapter) /\ h.use.message = x /\ h.result \in results
<1>1. /\ n \in Nat /\ DOMAIN hs = 1..n /\ DOMAIN all = 1..(n + 1)
      /\ all[n + 1] = h /\ \A i \in 1..n : all[i] = hs[i]
  BY AppendProperties, LenProperties
<1>2. /\ \A i \in 1..n : of(i, all) <=> of(i, hs)
      /\ of(n + 1, all) <=> b
  BY <1>1
<1>3. /\ Asked(hs, adapter, results, x) = Cardinality(T)
      /\ Asked(all, adapter, results, x) = Cardinality(U)
  BY DEF Asked
<1>4. T \subseteq 1..n /\ U = IF b THEN T \cup {n + 1} ELSE T
  <2> HIDE DEF of, b, all
  <2> QED BY <1>1, <1>2
<1> HIDE DEF T, U, all, n, b
<1>5. Cardinality(T) \in Nat /\ Cardinality(T \cup {n + 1}) = Cardinality(T) + 1
  BY <1>1, <1>4, OneMore
<1>6. Asked(all, adapter, results, x) = Asked(hs, adapter, results, x) + One(b)
  BY <1>3, <1>4, <1>5 DEF One
<1> QED BY <1>3, <1>5, <1>6 DEF all, b

LEMMA AskedEmpty ==
  ASSUME NEW adapter, NEW results, NEW x
  PROVE  Asked(<<>>, adapter, results, x) = 0
<1>1. DOMAIN <<>> = {}
  OBVIOUS
<1>2. {i \in DOMAIN <<>> : /\ Sends(<<>>[i], adapter) /\ <<>>[i].use.message = x
                           /\ <<>>[i].result \in results} = {}
  BY <1>1
<1> QED BY <1>2, FS_EmptySet DEF Asked

-----------------------------------------------------------------------------
(* What is aired                                                           *)

Message == Text \cup {NoText}

\* How often x went out, how often a program was given it and has not sent it, and how many
\* of the runs that ended were to send it and said they did.
AiredBy(a, x) == Times(program.aired[a], x)
Waiting(a, x) == Times(program.queue[a], x)
AskedFor(a, x) == Asked(history, a, Results, x)
Told(a, x) == Asked(history, a, {"ok"}, x)

\* What an ok is answered by: what fldigi aired, or what JS8Call was given.
Shown(a, x) == IF a = "fldigi" THEN AiredBy(a, x) ELSE AiredBy(a, x) + Waiting(a, x)

\* The run under way is to send x by this program, and has handed it over.
Mine(a, x) == Sends(run, a) /\ run.use.message = x
Gone == run.at \notin {"idle", "call", "send"}

Balance(a, x) ==
  /\ AiredBy(a, x) + Waiting(a, x) <= AskedFor(a, x) + One(Gone /\ Mine(a, x))
  /\ Told(a, x) + One(run.at \in {"read", "save"} /\ Mine(a, x)) <= Shown(a, x)
  /\ run.at = "key" /\ Mine(a, x) => 1 <= Waiting(a, x)

LEMMA CountFacts ==
  ASSUME TypeInv, NEW a \in Sender, NEW x
  PROVE  /\ AiredBy(a, x) \in Nat /\ Waiting(a, x) \in Nat
         /\ AskedFor(a, x) \in Nat /\ Told(a, x) \in Nat
<1>1. /\ program.aired[a] \in Seq(Text) /\ program.queue[a] \in Seq(Text)
      /\ history \in Seq(HistoryRecord)
  BY RunFacts DEF TypeInv, Program
<1> QED BY <1>1, TimesType, AskedType DEF AiredBy, Waiting, AskedFor, Told

\* What a step leaves alone, and what it adds.
LEMMA CountsStay ==
  ASSUME NEW a \in Sender, NEW x
  PROVE  /\ program'.aired = program.aired /\ program'.queue = program.queue
           => AiredBy(a, x)' = AiredBy(a, x) /\ Waiting(a, x)' = Waiting(a, x)
         /\ history' = history => AskedFor(a, x)' = AskedFor(a, x) /\ Told(a, x)' = Told(a, x)
         /\ run'.use = run.use => (Mine(a, x)' <=> Mine(a, x))
BY DEF AiredBy, Waiting, AskedFor, Told, Mine, Sends

LEMMA CountsMore ==
  ASSUME TypeInv, NEW h \in HistoryRecord, history' = Append(history, h), NEW a \in Sender, NEW x
  PROVE  /\ AskedFor(a, x)' = AskedFor(a, x) + One(Sends(h, a) /\ h.use.message = x)
         /\ Told(a, x)' = Told(a, x) + One(Sends(h, a) /\ h.use.message = x /\ h.result = "ok")
<1>1. history \in Seq(HistoryRecord) /\ h.result \in Results
  BY RunFacts DEF TypeInv, HistoryRecord
<1>2. /\ Asked(history', a, Results, x)
           = AskedFor(a, x) + One(Sends(h, a) /\ h.use.message = x /\ h.result \in Results)
      /\ Asked(history', a, {"ok"}, x)
           = Told(a, x) + One(Sends(h, a) /\ h.use.message = x /\ h.result \in {"ok"})
  BY <1>1, AskedMore DEF AskedFor, Told
<1>3. /\ AskedFor(a, x)' = Asked(history', a, Results, x)
      /\ Told(a, x)' = Asked(history', a, {"ok"}, x)
  BY DEF AskedFor, Told
<1> QED BY <1>1, <1>2, <1>3 DEF One

\* A run that ends is one more that was to send what it was to send.
LEMMA CountsEnd ==
  ASSUME TypeInv, NEW result \in Results, Ended(result, run.events), NEW a \in Sender, NEW x
  PROVE  /\ AskedFor(a, x)' = AskedFor(a, x) + One(Mine(a, x))
         /\ Told(a, x)' = Told(a, x) + One(Mine(a, x) /\ result = "ok")
         /\ run'.at = "idle"
<1>1. PICK h \in HistoryRecord :
        /\ h = [use |-> run.use, result |-> result, events |-> run.events]
        /\ history' = Append(history, h) /\ run'.at = "idle"
  BY EndedFacts DEF TypeInv
<1>2. (Sends(h, a) <=> Sends(run, a)) /\ h.use.message = run.use.message /\ h.result = result
  BY <1>1 DEF Sends
<1> QED BY <1>1, <1>2, CountsMore DEF Mine

\* A program is given a message.
LEMMA CountsCall ==
  ASSUME TypeInv, NEW a \in Sender, NEW b \in Sender, NEW x, run.use.message \in Text,
         program' = Queued(b)
  PROVE  /\ AiredBy(a, x)' = AiredBy(a, x)
         /\ Waiting(a, x)' = Waiting(a, x) + One(a = b /\ run.use.message = x)
<1>1. program \in Program /\ program.queue[b] \in Seq(Text)
  BY RunFacts DEF TypeInv, Program
<1>2. Times(Append(program.queue[b], run.use.message), x)
        = Times(program.queue[b], x) + One(run.use.message = x)
  BY <1>1, TimesMore
<1>3. /\ program'.aired = program.aired
      /\ program'.queue[a] = IF a = b THEN Append(program.queue[b], run.use.message)
                             ELSE program.queue[a]
  BY <1>1 DEF Program, Queued
<1>4. Waiting(a, x) \in Nat
  BY CountFacts
<1> QED BY <1>2, <1>3, <1>4 DEF AiredBy, Waiting, One

\* fldigi sends what it has queued.
LEMMA CountsKey ==
  ASSUME TypeInv, NEW a \in Sender, NEW x, program' = Keyed
  PROVE  /\ AiredBy(a, x)' = AiredBy(a, x) + (IF a = "fldigi" THEN Waiting(a, x) ELSE 0)
         /\ Waiting(a, x)' = IF a = "fldigi" THEN 0 ELSE Waiting(a, x)
<1>1. /\ program \in Program
      /\ program.aired["fldigi"] \in Seq(Text) /\ program.queue["fldigi"] \in Seq(Text)
  BY RunFacts DEF TypeInv, Program, Sender
<1>2. /\ program'.queue[a] = IF a = "fldigi" THEN <<>> ELSE program.queue[a]
      /\ program'.aired[a] = IF a = "fldigi" THEN program.aired["fldigi"] \o program.queue["fldigi"]
                             ELSE program.aired[a]
  BY <1>1 DEF Program, Keyed
<1>3. Times(program.aired["fldigi"] \o program.queue["fldigi"], x)
        = Times(program.aired["fldigi"], x) + Times(program.queue["fldigi"], x)
  BY <1>1, TimesBoth
<1>4. Times(<<>>, x) = 0 /\ AiredBy(a, x) \in Nat
  BY TimesEmpty, CountFacts
<1> QED BY <1>2, <1>3, <1>4 DEF AiredBy, Waiting

\* JS8Call sends one of those that it was given.
LEMMA CountsTake ==
  ASSUME TypeInv, NEW a \in Sender, NEW x, Js8Takes
  PROVE  /\ AiredBy(a, x)' + Waiting(a, x)' = AiredBy(a, x) + Waiting(a, x)
         /\ a = "fldigi" => AiredBy(a, x)' = AiredBy(a, x) /\ Waiting(a, x)' = Waiting(a, x)
<1> DEFINE queue == program.queue["js8call"]
           aired == program.aired["js8call"]
<1>1. program \in Program /\ queue \in Seq(Text) /\ aired \in Seq(Text)
  BY RunFacts DEF TypeInv, Program, Sender
<1>2. PICK i \in DOMAIN queue :
        program' = [program EXCEPT !.queue["js8call"] = RemoveAt(@, i),
                                   !.aired["js8call"] = Append(@, queue[i])]
  BY DEF Js8Takes
<1>3. /\ program'.queue[a] = IF a = "js8call" THEN RemoveAt(queue, i) ELSE program.queue[a]
      /\ program'.aired[a] = IF a = "js8call" THEN Append(aired, queue[i]) ELSE program.aired[a]
  BY <1>1, <1>2 DEF Program
<1>4. CASE a = "fldigi"
  BY <1>3, <1>4 DEF AiredBy, Waiting
<1>5. CASE a = "js8call"
  <2>1. queue[i] \in Text /\ RemoveAt(queue, i) \in Seq(Text)
    BY <1>1, <1>2, RemovedType
  <2>2. Times(queue, x) = Times(RemoveAt(queue, i), x) + One(queue[i] = x)
    BY <1>1, <1>2, TimesLess
  <2>3. Times(Append(aired, queue[i]), x) = Times(aired, x) + One(queue[i] = x)
    BY <1>1, <2>1, TimesMore
  <2>4. Times(aired, x) \in Nat /\ Times(RemoveAt(queue, i), x) \in Nat
    BY <1>1, <2>1, TimesType
  <2> HIDE DEF queue, aired
  <2>5. /\ AiredBy(a, x)' = Times(Append(aired, queue[i]), x) /\ AiredBy(a, x) = Times(aired, x)
        /\ Waiting(a, x)' = Times(RemoveAt(queue, i), x) /\ Waiting(a, x) = Times(queue, x)
    BY <1>3, <1>5 DEF AiredBy, Waiting, queue, aired
  <2> QED BY <1>5, <2>2, <2>3, <2>4, <2>5 DEF One
<1> QED BY <1>4, <1>5 DEF Sender

-----------------------------------------------------------------------------
(* Every step keeps the balance                                            *)

\* The run goes on without handing over anything.
LEMMA BalanceQuiet ==
  ASSUME TypeInv, NEW a \in Sender, NEW x, Balance(a, x),
         program'.aired = program.aired, program'.queue = program.queue, history' = history,
         run'.use = run.use,
         Gone /\ Mine(a, x) => Gone',
         Mine(a, x) /\ run'.at \in {"read", "save"} => run.at \in {"read", "save"},
         run'.at = "key" => run.at = "key"
  PROVE  Balance(a, x)'
<1>1. /\ AiredBy(a, x)' = AiredBy(a, x) /\ Waiting(a, x)' = Waiting(a, x)
      /\ AskedFor(a, x)' = AskedFor(a, x) /\ Told(a, x)' = Told(a, x)
      /\ Mine(a, x)' <=> Mine(a, x)
  BY CountsStay
<1>2. /\ AiredBy(a, x) \in Nat /\ Waiting(a, x) \in Nat
      /\ AskedFor(a, x) \in Nat /\ Told(a, x) \in Nat
  BY CountFacts
<1> QED BY <1>1, <1>2 DEF Balance, Shown, One

\* A run ends: its message, handed over or not, is one more that was asked for; it says
\* ok only if it was shown to have been aired or given to JS8Call.
LEMMA BalanceEnds ==
  ASSUME TypeInv, NEW a \in Sender, NEW x, Balance(a, x), NEW result \in Results,
         Ended(result, run.events), result = "ok" => run.at = "save",
         AiredBy(a, x)' + Waiting(a, x)'
           <= AiredBy(a, x) + Waiting(a, x) + One(~Gone /\ Mine(a, x)),
         Shown(a, x) <= Shown(a, x)',
         AiredBy(a, x)' \in Nat, Waiting(a, x)' \in Nat
  PROVE  Balance(a, x)'
<1>1. /\ AskedFor(a, x)' = AskedFor(a, x) + One(Mine(a, x)) /\ run'.at = "idle"
      /\ Told(a, x)' = Told(a, x) + One(Mine(a, x) /\ result = "ok")
  BY CountsEnd
<1>2. /\ AiredBy(a, x) \in Nat /\ Waiting(a, x) \in Nat
      /\ AskedFor(a, x) \in Nat /\ Told(a, x) \in Nat
  BY CountFacts
<1>3. AiredBy(a, x)' + Waiting(a, x)' <= AskedFor(a, x)'
  BY <1>1, <1>2 DEF Balance, One
<1>4. Told(a, x)' <= Shown(a, x)'
  <2>1. Shown(a, x) \in Nat /\ Shown(a, x)' \in Nat
    BY <1>2 DEF Shown
  <2> QED BY <1>1, <1>2, <2>1 DEF Balance, One
<1>5. AskedFor(a, x)' \in Nat /\ Told(a, x)' \in Nat
  BY <1>1, <1>2 DEF One
<1>6. ~Gone' /\ ~(run'.at \in {"read", "save"}) /\ run'.at # "key"
  BY <1>1 DEF Gone
<1> QED BY <1>3, <1>4, <1>5, <1>6 DEF Balance, One

\* The message goes into JS8Call's socket, or into fldigi's TX text.
LEMMA BalanceHands ==
  ASSUME TypeInv, NEW a \in Sender, NEW x, Balance(a, x), history' = history,
         run'.use = run.use, ~Gone, Gone', AiredBy(a, x)' = AiredBy(a, x),
         Waiting(a, x)' = Waiting(a, x) + One(Mine(a, x)),
         run'.at = IF run.use.adapter = "fldigi" THEN "key" ELSE "read"
  PROVE  Balance(a, x)'
<1>1. /\ AskedFor(a, x)' = AskedFor(a, x) /\ Told(a, x)' = Told(a, x)
      /\ Mine(a, x)' <=> Mine(a, x)
  BY CountsStay
<1>2. /\ AiredBy(a, x) \in Nat /\ Waiting(a, x) \in Nat
      /\ AskedFor(a, x) \in Nat /\ Told(a, x) \in Nat
  BY CountFacts
<1>3. /\ AiredBy(a, x) + Waiting(a, x) <= AskedFor(a, x)
      /\ Told(a, x) <= Shown(a, x)
  <2>1. Shown(a, x) \in Nat
    BY <1>2 DEF Shown
  <2> QED BY <1>2, <2>1 DEF Balance, One
<1>4. Mine(a, x) => a = run.use.adapter
  BY DEF Mine, Sends
<1>5. Shown(a, x)' = Shown(a, x) + One(a # "fldigi" /\ Mine(a, x))
  BY <1>2 DEF Shown, One
<1> QED BY <1>1, <1>2, <1>3, <1>4, <1>5 DEF Balance, Shown, One

\* fldigi keys, and the run says so.
LEMMA BalanceKeys ==
  ASSUME TypeInv, NEW a \in Sender, NEW x, Balance(a, x), FldigiKeys
  PROVE  Balance(a, x)'
<1>1. /\ run.at = "key" /\ run'.at = "save" /\ run'.use = run.use /\ history' = history
  <2>1. <<>> \in Seq(Event) /\ "save" \in Stage
    BY EmptySeq DEF Stage
  <2> QED BY <2>1, GoesOnFacts DEF FldigiKeys, TypeInv
<1>2. /\ AskedFor(a, x)' = AskedFor(a, x) /\ Told(a, x)' = Told(a, x)
      /\ Mine(a, x)' <=> Mine(a, x)
  BY <1>1, CountsStay
<1>3. /\ AiredBy(a, x)' = AiredBy(a, x) + (IF a = "fldigi" THEN Waiting(a, x) ELSE 0)
      /\ Waiting(a, x)' = IF a = "fldigi" THEN 0 ELSE Waiting(a, x)
  BY CountsKey DEF FldigiKeys
<1>4. /\ AiredBy(a, x) \in Nat /\ Waiting(a, x) \in Nat
      /\ AskedFor(a, x) \in Nat /\ Told(a, x) \in Nat
  BY CountFacts
<1>5. Gone /\ Gone' /\ (Mine(a, x) => a = "fldigi")
  BY <1>1 DEF Gone, Mine, Sends, TypeInv, Fits
<1>6. /\ AiredBy(a, x) + Waiting(a, x) <= AskedFor(a, x) + One(Mine(a, x))
      /\ Told(a, x) <= Shown(a, x) /\ (Mine(a, x) => 1 <= Waiting(a, x))
  <2>1. Shown(a, x) \in Nat
    BY <1>4 DEF Shown
  <2> QED BY <1>1, <1>4, <1>5, <2>1 DEF Balance, One
<1> QED BY <1>1, <1>2, <1>3, <1>4, <1>5, <1>6 DEF Balance, Shown, One

\* JS8Call sends what it was given, in its own time.
LEMMA BalanceTakes ==
  ASSUME TypeInv, NEW a \in Sender, NEW x, Balance(a, x), Js8Takes,
         AiredBy(a, x)' \in Nat, Waiting(a, x)' \in Nat
  PROVE  Balance(a, x)'
<1>1. run' = run /\ history' = history
  BY DEF Js8Takes
<1>2. /\ AskedFor(a, x)' = AskedFor(a, x) /\ Told(a, x)' = Told(a, x)
      /\ (Mine(a, x)' <=> Mine(a, x)) /\ (Gone' <=> Gone)
  BY <1>1, CountsStay DEF Gone
<1>3. /\ AiredBy(a, x)' + Waiting(a, x)' = AiredBy(a, x) + Waiting(a, x)
      /\ a = "fldigi" => AiredBy(a, x)' = AiredBy(a, x) /\ Waiting(a, x)' = Waiting(a, x)
  BY CountsTake
<1>4. /\ AiredBy(a, x) \in Nat /\ Waiting(a, x) \in Nat
      /\ AskedFor(a, x) \in Nat /\ Told(a, x) \in Nat
  BY CountFacts
<1>5. run.at = "key" /\ Mine(a, x) => a = "fldigi"
  BY DEF Mine, Sends, TypeInv, Fits
<1>6. Shown(a, x)' = Shown(a, x)
  <2>1. CASE a = "fldigi"
    BY <1>3, <2>1 DEF Shown
  <2>2. CASE a # "fldigi"
    BY <1>3, <2>2 DEF Shown
  <2> QED BY <2>1, <2>2
<1>7. AiredBy(a, x)' + Waiting(a, x)' <= AskedFor(a, x)' + One(Gone' /\ Mine(a, x)')
  BY <1>2, <1>3, <1>4 DEF Balance, One
<1>8. /\ Told(a, x)' + One(run'.at \in {"read", "save"} /\ Mine(a, x)') <= Shown(a, x)'
      /\ run'.at = "key" /\ Mine(a, x)' => 1 <= Waiting(a, x)'
  BY <1>1, <1>2, <1>3, <1>5, <1>6 DEF Balance, One
<1> QED BY <1>7, <1>8 DEF Balance

\* Whose message it is that a step hands over.
LEMMA MineFacts ==
  ASSUME TypeInv, NEW a \in Sender, NEW x
  PROVE  /\ (Asks("js8call") /\ run.use.tx) \/ run.at \in {"send", "key"} =>
              (Mine(a, x) <=> a = run.use.adapter /\ run.use.message = x)
         /\ Mine(a, x) => run.use.tx /\ run.use.adapter = a /\ ~FromDisk(run.use)
BY RunFacts
   DEF TypeInv, Fits, Asks, Mine, Sends, FromDisk, Refused, Use, Sender, Stage

\* The messages counted after a call.
LEMMA CountsNat ==
  ASSUME TypeInv, TypeInv', NEW a \in Sender, NEW x
  PROVE  AiredBy(a, x)' \in Nat /\ Waiting(a, x)' \in Nat
<1>1. program'.aired[a] \in Seq(Text) /\ program'.queue[a] \in Seq(Text)
  BY DEF TypeInv, TypeOK
<1>2. AiredBy(a, x)' = Times(program'.aired[a], x) /\ Waiting(a, x)' = Times(program'.queue[a], x)
  BY DEF AiredBy, Waiting
<1> QED BY <1>1, <1>2, TimesType

LEMMA BalanceStart ==
  ASSUME TypeInv, NEW a \in Sender, NEW x, Balance(a, x), NEW use \in Uses, Start(use)
  PROVE  Balance(a, x)'
<1>0. /\ run.at = "idle" /\ use \in Use /\ program' = program
      /\ history \in Seq(HistoryRecord)
  BY RunFacts, UseFacts DEF TypeInv, Start
<1>1. /\ AiredBy(a, x) \in Nat /\ Waiting(a, x) \in Nat
      /\ AskedFor(a, x) \in Nat /\ Told(a, x) \in Nat
  BY CountFacts
<1>2. AiredBy(a, x)' = AiredBy(a, x) /\ Waiting(a, x)' = Waiting(a, x)
  BY <1>0, CountsStay
<1>3. /\ AiredBy(a, x) + Waiting(a, x) <= AskedFor(a, x) /\ Told(a, x) <= Shown(a, x)
      /\ Shown(a, x)' = Shown(a, x) /\ Shown(a, x) \in Nat
  <2>1. Shown(a, x)' = Shown(a, x) /\ Shown(a, x) \in Nat
    BY <1>1, <1>2 DEF Shown
  <2> QED BY <1>0, <1>1, <2>1 DEF Balance, Gone, One
<1>4. CASE Refused(use)
  <2> DEFINE h == [use |-> use, result |-> "error", events |-> <<>>]
  <2>1. h \in HistoryRecord /\ history' = Append(history, h) /\ run' = run
    BY <1>0, <1>4, EmptySeq DEF Start, HistoryRecord, Results
  <2>2. h.result = "error"
    OBVIOUS
  <2> HIDE DEF h
  <2>3. AskedFor(a, x)' >= AskedFor(a, x) /\ Told(a, x)' = Told(a, x) /\ AskedFor(a, x)' \in Nat
    BY <1>1, <2>1, <2>2, CountsMore DEF One
  <2> QED BY <1>0, <1>1, <1>2, <1>3, <2>1, <2>3 DEF Balance, Gone, One
<1>5. CASE ~Refused(use)
  <2>1. history' = history /\ run'.at \in {"load", "call"}
    BY <1>5 DEF Start
  <2>2. AskedFor(a, x)' = AskedFor(a, x) /\ Told(a, x)' = Told(a, x)
    BY <2>1, CountsStay
  <2> QED BY <1>1, <1>2, <1>3, <2>1, <2>2 DEF Balance, One
<1> QED BY <1>4, <1>5

\* The steps of a run that hand over nothing.
LEMMA BalanceReads ==
  ASSUME TypeInv, NEW a \in Sender, NEW x, Balance(a, x),
         Loads \/ Listens \/ PskReporterAnswers \/ Reads \/ Stops \/ FldigiReceives
  PROVE  Balance(a, x)'
<1>1. program'.aired = program.aired /\ program'.queue = program.queue
  BY RunFacts
     DEF TypeInv, Program, Loads, Listens, PskReporterAnswers, Reads, Stops, HasEnough,
     TimesOut,
     Js8HangsUp, FldigiReceives
<1>2. history' = history /\ run'.use = run.use
  BY RunFacts
     DEF TypeInv, Run, Loads, Listens, PskReporterAnswers, Reads, Stops, HasEnough, TimesOut,
     Js8HangsUp, FldigiReceives,
     GoesOn, LoadsLine, LoadsDatagram, LoadsText, LoadsSpots, LoadsOwnText
<1>3. CASE Loads
  <2>1. run'.at \in {"load", "save"} /\ FromDisk(run.use)
    BY <1>3, RunFacts
       DEF TypeInv, Fits, Run, Loads, GoesOn, LoadsLine, LoadsDatagram, LoadsText,
       LoadsSpots, LoadsOwnText
  <2>2. ~Mine(a, x)
    BY <2>1, MineFacts
  <2> QED BY <1>1, <1>2, <2>1, <2>2, BalanceQuiet
<1>4. CASE Listens \/ PskReporterAnswers
  <2>1. run'.at \in {"read", "save"} /\ ~Mine(a, x)
    BY <1>4, RunFacts, MineFacts
       DEF TypeInv, Run, Listens, PskReporterAnswers, GoesOn, Asks, Sender
  <2> QED BY <1>1, <1>2, <2>1, BalanceQuiet
<1>5. CASE Reads \/ Stops
  <2>1. run.at = "read" /\ run'.at \in {"read", "save"}
    BY <1>5, RunFacts
       DEF TypeInv, Run, Reads, Stops, HasEnough, TimesOut, Js8HangsUp, WantsMore, GoesOn
  <2>2. Gone'
    BY <2>1 DEF Gone
  <2> QED BY <1>1, <1>2, <2>1, <2>2, BalanceQuiet
<1>6. CASE FldigiReceives
  <2>1. /\ run.at = "call" /\ run'.at = IF run.use.tx THEN "send" ELSE "save"
    BY <1>6, RunFacts DEF TypeInv, Run, FldigiReceives, Asks, GoesOn
  <2>2. ~Gone /\ (Mine(a, x) => run.use.tx)
    BY <2>1, MineFacts DEF Gone
  <2> QED BY <1>1, <1>2, <2>1, <2>2, BalanceQuiet
<1> QED BY <1>3, <1>4, <1>5, <1>6

LEMMA BalanceNext ==
  ASSUME TypeInv, [Next]_vars, NEW a \in Sender, NEW x, Balance(a, x)
  PROVE  Balance(a, x)'
<1>0. /\ TypeOK /\ TypeInv' /\ run \in Run /\ program \in Program
      /\ run.use.message \in Message /\ "error" \in Results /\ "ok" \in Results
      /\ "save failed" \in Results
  BY TypeNext, RunFacts DEF TypeInv, Results, Message
<1>1. /\ AiredBy(a, x) \in Nat /\ Waiting(a, x) \in Nat
      /\ AiredBy(a, x)' \in Nat /\ Waiting(a, x)' \in Nat
  BY <1>0, CountFacts, CountsNat
<1>2. ASSUME NEW use \in Uses, Start(use) PROVE Balance(a, x)'
  BY <1>2, BalanceStart
<1>3. CASE Loads \/ Listens \/ PskReporterAnswers \/ Reads \/ Stops \/ FldigiReceives
  BY <1>3, BalanceReads
<1>4. CASE FldigiKeys
  BY <1>4, BalanceKeys
<1>5. CASE Js8Sends
  <2>1. /\ run.at = "call" /\ run'.at = "read" /\ run'.use = run.use /\ history' = history
        /\ run.use.adapter = "js8call" /\ run.use.tx /\ run.use.message \in Text
    BY <1>0, <1>5 DEF Run, Message, Js8Sends, Asks, MessageGiven, GoesOn
  <2>2. ~Gone /\ Gone'
    BY <2>1 DEF Gone
  <2>3. Mine(a, x) <=> a = "js8call" /\ run.use.message = x
    BY <2>1, MineFacts DEF Asks
  <2>4. /\ Waiting(a, x)' = Waiting(a, x) + One(a = "js8call" /\ run.use.message = x)
        /\ AiredBy(a, x)' = AiredBy(a, x)
    BY <1>5, <2>1, CountsCall DEF Js8Sends, Sender
  <2>5. Waiting(a, x)' = Waiting(a, x) + One(Mine(a, x))
    BY <2>3, <2>4 DEF One
  <2> QED BY <1>1, <2>1, <2>2, <2>4, <2>5, BalanceHands
<1>6. CASE FldigiQueues
  <2>1. /\ run.at = "send" /\ run'.at = "key" /\ run'.use = run.use /\ history' = history
        /\ run.use.adapter = "fldigi" /\ run.use.message \in Text
    BY <1>0, <1>6 DEF TypeInv, Fits, Run, Message, FldigiQueues, MessageGiven, GoesOn
  <2>2. ~Gone /\ Gone'
    BY <2>1 DEF Gone
  <2>3. Mine(a, x) <=> a = "fldigi" /\ run.use.message = x
    BY <2>1, MineFacts
  <2>4. /\ Waiting(a, x)' = Waiting(a, x) + One(a = "fldigi" /\ run.use.message = x)
        /\ AiredBy(a, x)' = AiredBy(a, x)
    BY <1>6, <2>1, CountsCall DEF FldigiQueues, Sender
  <2>5. Waiting(a, x)' = Waiting(a, x) + One(Mine(a, x))
    BY <2>3, <2>4 DEF One
  <2> QED BY <1>1, <2>1, <2>2, <2>4, <2>5, BalanceHands
<1>7. CASE RunFails \/ MessageMissing \/ Saves \/ SaveBreaksOff
  <2>1. program' = program
    BY <1>7 DEF RunFails, MessageMissing, Saves, SaveBreaksOff
  <2>2. AiredBy(a, x)' = AiredBy(a, x) /\ Waiting(a, x)' = Waiting(a, x)
    BY <2>1, CountsStay
  <2>3. \E result \in Results : Ended(result, run.events) /\ (result = "ok" => run.at = "save")
    BY <1>0, <1>7 DEF RunFails, MessageMissing, Saves, SaveBreaksOff
  <2>4. AiredBy(a, x)' + Waiting(a, x)'
          <= AiredBy(a, x) + Waiting(a, x) + One(~Gone /\ Mine(a, x))
    BY <1>1, <2>2 DEF One
  <2>5. Shown(a, x) <= Shown(a, x)'
    BY <1>1, <2>2 DEF Shown
  <2> QED BY <1>1, <2>3, <2>4, <2>5, BalanceEnds
<1>8. CASE AnswerLost
  <2>0. Ended("error", run.events)
    BY <1>8 DEF AnswerLost
  <2>1. SUFFICES
          /\ AiredBy(a, x)' + Waiting(a, x)'
               <= AiredBy(a, x) + Waiting(a, x) + One(~Gone /\ Mine(a, x))
          /\ Shown(a, x) <= Shown(a, x)'
    BY <1>0, <1>1, <2>0, BalanceEnds
  <2>2. CASE program' = [program EXCEPT !.rx = <<>>]
    <3>1. AiredBy(a, x)' = AiredBy(a, x) /\ Waiting(a, x)' = Waiting(a, x)
      BY <1>0, <2>2, CountsStay DEF Program
    <3> QED BY <1>1, <3>1 DEF One, Shown
  <2>3. CASE /\ run.at = "send" /\ MessageGiven
             /\ program' = Queued("fldigi")
    <3>1. run.use.message \in Text /\ run.use.adapter = "fldigi"
      BY <1>0, <2>3 DEF TypeInv, Fits, MessageGiven, Message
    <3>2. Mine(a, x) <=> a = "fldigi" /\ run.use.message = x
      BY <2>3, <3>1, MineFacts
    <3>3. /\ Waiting(a, x)' = Waiting(a, x) + One(a = "fldigi" /\ run.use.message = x)
          /\ AiredBy(a, x)' = AiredBy(a, x)
      BY <2>3, <3>1, CountsCall DEF Sender
    <3>4. ~Gone
      BY <2>3 DEF Gone
    <3> QED BY <1>1, <3>2, <3>3, <3>4 DEF One, Shown
  <2>4. CASE program' = Keyed
    <3>1. /\ AiredBy(a, x)' = AiredBy(a, x) + (IF a = "fldigi" THEN Waiting(a, x) ELSE 0)
          /\ Waiting(a, x)' = IF a = "fldigi" THEN 0 ELSE Waiting(a, x)
      BY <2>4, CountsKey
    <3> QED BY <1>1, <3>1 DEF One, Shown
  <2> QED BY <1>8, <2>2, <2>3, <2>4 DEF AnswerLost
<1>9. CASE FldigiDecodes \/ Talks \/ UNCHANGED vars
  <2>1. /\ program'.aired = program.aired /\ program'.queue = program.queue
        /\ history' = history /\ run'.at = run.at /\ run'.use = run.use
    BY <1>0, <1>9 DEF FldigiDecodes, Talks, vars, Program, Run
  <2>2. Gone' <=> Gone
    BY <2>1 DEF Gone
  <2> QED BY <2>1, <2>2, BalanceQuiet
<1>10. CASE Js8Takes
  BY <1>1, <1>10, BalanceTakes
<1> QED
  BY <1>2, <1>3, <1>4, <1>5, <1>6, <1>7, <1>8, <1>9, <1>10
     DEF Next, Progress, Failure, World, Stops, AllRun

Balanced == \A a \in Sender, x \in Message : Balance(a, x)

\* Whatever fails, is tried again, is left in fldigi for a later run or is taken late by
\* JS8Call: a message goes out no more often than runs were to send it; fldigi has aired it
\* for each that says ok, and JS8Call has aired it or has been given it.
THEOREM AiredRight == Spec => []AiredAsAsked
<1>1. Init => TypeInv /\ Balanced
  <2> SUFFICES ASSUME Init, NEW a \in Sender, NEW x \in Message PROVE Balance(a, x)
    BY TypeInit DEF Balanced
  <2>1. /\ AiredBy(a, x) = 0 /\ Waiting(a, x) = 0 /\ AskedFor(a, x) = 0 /\ Told(a, x) = 0
    BY TimesEmpty, AskedEmpty DEF Init, AiredBy, Waiting, AskedFor, Told, Sender
  <2>2. run.at = "idle"
    BY UseFacts DEF Init
  <2> QED BY <2>1, <2>2 DEF Balance, Shown, One, Gone
<1>2. TypeInv /\ Balanced /\ [Next]_vars => (TypeInv /\ Balanced)'
  BY TypeNext, BalanceNext DEF Balanced
<1>3. TypeInv /\ Balanced => AiredAsAsked
  <2> SUFFICES ASSUME TypeInv, NEW a \in Sender, NEW x \in Message, Balance(a, x)
               PROVE  /\ Times(program.aired[a] \o program.queue[a], x)
                            <= Asked(Begun, a, Results, x)
                      /\ Asked(history, a, {"ok"}, x) <=
                           Times(IF a = "fldigi" THEN program.aired[a]
                                 ELSE program.aired[a] \o program.queue[a], x)
    BY DEF Balanced, AiredAsAsked, Message
  <2>1. /\ AiredBy(a, x) \in Nat /\ Waiting(a, x) \in Nat
        /\ AskedFor(a, x) \in Nat /\ Told(a, x) \in Nat
    BY CountFacts
  <2>2. /\ program.aired[a] \in Seq(Text) /\ program.queue[a] \in Seq(Text)
        /\ history \in Seq(HistoryRecord) /\ run.use \in Use
    BY RunFacts DEF TypeInv, Program
  <2>3. Times(program.aired[a] \o program.queue[a], x) = AiredBy(a, x) + Waiting(a, x)
    BY <2>2, TimesBoth DEF AiredBy, Waiting
  <2>4. Asked(Begun, a, Results, x) = AskedFor(a, x) + One(run.at # "idle" /\ Mine(a, x))
    <3>1. CASE run.at = "idle"
      BY <2>1, <3>1 DEF Begun, AskedFor, One
    <3>2. CASE run.at # "idle"
      <4>1. PICK h : h = [use |-> run.use, result |-> "error", events |-> <<>>]
        OBVIOUS
      <4>2. h \in HistoryRecord /\ h.result \in Results /\ Begun = Append(history, h)
        BY <2>2, <3>2, <4>1, EmptySeq DEF HistoryRecord, Results, Begun
      <4>3. (Sends(h, a) <=> Sends(run, a)) /\ h.use.message = run.use.message
        BY <4>1 DEF Sends
      <4>4. Asked(Append(history, h), a, Results, x)
              = AskedFor(a, x) + One(Sends(h, a) /\ h.use.message = x /\ h.result \in Results)
        BY <2>2, <4>2, AskedMore DEF AskedFor
      <4> QED BY <3>2, <4>2, <4>3, <4>4 DEF One, Mine
    <3> QED BY <3>1, <3>2
  <2>5. AiredBy(a, x) + Waiting(a, x) <= AskedFor(a, x) + One(run.at # "idle" /\ Mine(a, x))
    BY <2>1 DEF Balance, One, Gone
  <2>6. Told(a, x) <= Shown(a, x)
    <3>1. Shown(a, x) \in Nat
      BY <2>1 DEF Shown
    <3> QED BY <2>1, <3>1 DEF Balance, One
  <2>7. Shown(a, x) = Times(IF a = "fldigi" THEN program.aired[a]
                            ELSE program.aired[a] \o program.queue[a], x)
    BY <2>3 DEF Shown, AiredBy
  <2> QED BY <2>3, <2>4, <2>5, <2>6, <2>7 DEF Told
<1> QED BY <1>1, <1>2, <1>3, PTL DEF Spec
=============================================================================
