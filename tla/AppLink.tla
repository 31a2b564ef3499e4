------------------------------ MODULE AppLink ------------------------------
(***************************************************************************)
(* A process that runs `simulate app-link` (run_simulate in                *)
(* crates/chattybara-cli/src/main.rs): it builds a mail, an ack, the       *)
(* fragments of a payload and the packets of a file, puts payload and file *)
(* together again, and passes every packet to a receiver over a link that  *)
(* loses attempts and doubles deliveries (simulate_reliable_delivery in    *)
(* app_protocol.rs).                                                       *)
(*                                                                         *)
(* The functions that put a payload together take any list of packets; the *)
(* command gives them only what it has just built, in order.  Here another *)
(* caller may as well Gather packets from a link that loses, doubles and   *)
(* reorders them, those of an earlier process of the same station, whose   *)
(* numbers began at 1 too, among them.                                     *)
(***************************************************************************)
EXTENDS AppPackets, FiniteSets

CONSTANTS
  Stations, Peer,  \* values of --station, and the peer's call
  Payloads,        \* payloads a command is run for; simulate itself repeats one byte
  Retries, Ticks,  \* values of --max-retries and --timeout-ticks
  MaxRuns,         \* bound: processes of the station
  MaxGather        \* bound: packets another caller gathers

Args == [retries: Retries, ticks: Ticks, dropFirst: BOOLEAN, dropAll: BOOLEAN, double: BOOLEAN]

ASSUME LinkAssumption ==
  /\ Stations \subseteq Call /\ Peer \in Call
  /\ Payloads \subseteq Payload
  \* A fragment carries an id and two hashes that the mail and the ack do not have.
  /\ \A kind \in {"mail", "ack"} : Overhead[kind] <= Overhead["fragment"]
  /\ Retries \subseteq Nat /\ Ticks \subseteq Nat
  /\ MaxRuns \in Nat /\ MaxGather \in Nat

VARIABLES
  stage,     \* what the process is at
  payload,   \* the payload it was started for
  state,     \* AppProtocolState of the sender
  packets,   \* packets built, in the order they will be sent in
  groups,    \* fragments and chunks built by this and earlier processes, list by list
  args,      \* how the link behaves
  receiver,  \* AppProtocolState of the receiver
  at,        \* the packet being sent
  attempt,   \* attempts made for it
  report,    \* SimulatedAppLinkReport
  gathered,  \* packets another caller has got
  runs       \* bounded: processes started

vars == <<stage, payload, state, packets, groups, args, receiver, at, attempt, report,
          gathered, runs>>

\* Seen before the delivery starts.
NoArgs == [retries |-> 0, ticks |-> 0, dropFirst |-> FALSE, dropAll |-> FALSE, double |-> FALSE]

NoReport == [delivered |-> 0, acknowledged |-> 0, attempts |-> 0, timeouts |-> 0,
             duplicates |-> 0, failed |-> <<>>]

Init ==
  /\ stage = "mail"
  /\ payload \in Payloads
  /\ state \in {NewState(call) : call \in Stations}
  /\ packets = <<>>
  /\ groups = {}
  /\ args = NoArgs
  /\ receiver = NewState(Peer)
  /\ at = 1
  /\ attempt = 0
  /\ report = NoReport
  /\ gathered = <<>>
  /\ runs = 1

-----------------------------------------------------------------------------
(* Building the packets                                                    *)

\* Any error ends the process; what it built is dropped.
Fails ==
  /\ stage' = "failed"
  /\ UNCHANGED <<payload, state, packets, groups, args, receiver, at, attempt, report,
                 gathered, runs>>

Built(next, ps, n) ==
  /\ stage' = next
  /\ packets' = packets \o ps
  /\ state' = Advanced(state, n)
  /\ UNCHANGED <<payload, args, receiver, at, attempt, report, gathered, runs>>

\* Wrong on purpose: the ack has the number of the mail.
BuildMailSameNumber ==
  /\ stage = "mail" /\ payload # <<>>
  /\ LET mail == BasePacket(state, "mail", Peer)
     IN Built("fragments", <<mail, Ack(state, Peer, mail.id)>>, 1)
  /\ UNCHANGED groups

BuildMail ==
  /\ stage = "mail" /\ payload # <<>>
  /\ LET mail == BasePacket(state, "mail", Peer)
     IN Built("fragments", <<mail, Ack(Advanced(state, 1), Peer, mail.id)>>, 2)
  /\ UNCHANGED groups

Refuse == stage = "mail" /\ payload = <<>> /\ Fails

AllFit(ps) == \A i \in DOMAIN ps : Fits(ps[i])

BuildFragments ==
  /\ stage = "fragments"
  /\ LET ps == FragmentPayload(state, Peer, payload)
     IN /\ AllFit(ps)
        /\ Built("file", ps, Len(ps) + 1)
        /\ groups' = groups \cup {ps}

FragmentTooLarge ==
  /\ stage = "fragments"
  /\ ~AllFit(FragmentPayload(state, Peer, payload))
  /\ Fails

BuildFile ==
  /\ stage = "file"
  /\ LET ps == FileTransferPackets(state, Peer, payload)
     IN /\ AllFit(ps)
        /\ Built("reassemble", ps, Len(ps))
        /\ groups' = groups \cup {Tail(ps)}

FilePacketTooLarge ==
  /\ stage = "file"
  /\ ~AllFit(FileTransferPackets(state, Peer, payload))
  /\ Fails

-----------------------------------------------------------------------------
(* Putting the payload together, and delivering the packets                *)

Fragments == OfKinds(packets, {"fragment"})
FilePackets == OfKinds(packets, {"file-offer", "file-chunk"})

Reassembles ==
  /\ ReassembleFragments(Fragments) # Failed
  /\ ReassembleFileChunks(FilePackets) # Failed

\* encode_app_packet looks at every packet, the mail and the ack among them, before
\* the first is sent; an error here never happens (ReassembledIsSent).  The options of the
\* link are read only here.
StartDelivery ==
  /\ stage = "reassemble" /\ Reassembles /\ AllFit(packets)
  /\ stage' = "deliver"
  /\ args' \in Args
  /\ UNCHANGED <<payload, state, packets, groups, receiver, at, attempt, report, gathered, runs>>

Sending == stage = "deliver" /\ at <= Len(packets)
Drops == args.dropAll \/ (attempt = 0 /\ args.dropFirst)
Waits == IF args.ticks > 1 THEN args.ticks ELSE 1

\* Wrong on purpose: the attempt that was not answered is not waited for.
DropNoTimeout ==
  /\ Sending /\ attempt <= args.retries /\ Drops
  /\ attempt' = attempt + 1
  /\ report' = [report EXCEPT !.attempts = @ + 1]
  /\ UNCHANGED <<stage, payload, state, packets, groups, args, receiver, at, gathered, runs>>

Drop ==
  /\ Sending /\ attempt <= args.retries /\ Drops
  /\ attempt' = attempt + 1
  /\ report' = [report EXCEPT !.attempts = @ + 1, !.timeouts = @ + Waits]
  /\ UNCHANGED <<stage, payload, state, packets, groups, args, receiver, at, gathered, runs>>

Counted(first, again) ==
  [report EXCEPT
     !.attempts = @ + 1,
     !.delivered = IF first.duplicate THEN @ ELSE @ + 1,
     !.acknowledged = IF first.duplicate THEN @ ELSE @ + 1,
     !.duplicates = @ + (IF first.duplicate THEN 1 ELSE 0)
                      + (IF args.double /\ again.duplicate THEN 1 ELSE 0)]

Arrive ==
  /\ Sending /\ attempt <= args.retries /\ ~Drops
  /\ LET first == Observe(receiver, packets[at])
         again == Observe(first.state, packets[at])
     IN /\ receiver' = first.state
        /\ report' = Counted(first, again)
  /\ at' = at + 1 /\ attempt' = 0
  /\ UNCHANGED <<stage, payload, state, packets, groups, args, gathered, runs>>

\* Wrong on purpose: the next packet goes on with the attempts of this one.
GiveUpKeepsAttempt ==
  /\ Sending /\ attempt > args.retries
  /\ report' = [report EXCEPT !.failed = Append(@, packets[at].id)]
  /\ at' = at + 1
  /\ UNCHANGED <<stage, payload, state, packets, groups, args, receiver, attempt, gathered, runs>>

GiveUp ==
  /\ Sending /\ attempt > args.retries
  /\ report' = [report EXCEPT !.failed = Append(@, packets[at].id)]
  /\ at' = at + 1 /\ attempt' = 0
  /\ UNCHANGED <<stage, payload, state, packets, groups, args, receiver, gathered, runs>>

Report ==
  /\ stage = "deliver" /\ at > Len(packets)
  /\ stage' = "done"
  /\ UNCHANGED <<payload, state, packets, groups, args, receiver, at, attempt, report, gathered, runs>>

-----------------------------------------------------------------------------
(* Other callers                                                           *)

\* A new process of the station begins at number 1 again.
Restart ==
  /\ stage = "reassemble" /\ runs < MaxRuns
  /\ stage' = "mail" /\ runs' = runs + 1
  /\ payload' \in Payloads
  /\ state' = NewState(state.call)
  /\ packets' = <<>>
  /\ UNCHANGED <<groups, args, receiver, at, attempt, report, gathered>>

Gather ==
  /\ stage \in {"reassemble", "gather"} /\ Len(gathered) < MaxGather
  /\ \E ps \in groups : \E p \in Range(ps) : gathered' = Append(gathered, p)
  /\ stage' = "gather"
  /\ UNCHANGED <<payload, state, packets, groups, args, receiver, at, attempt, report, runs>>

Building == BuildMail \/ Refuse \/ BuildFragments \/ FragmentTooLarge \/ BuildFile \/ FilePacketTooLarge
Delivering == StartDelivery \/ Drop \/ Arrive \/ GiveUp \/ Report

Next == Building \/ Delivering \/ Restart \/ Gather

Spec == Init /\ [][Next]_vars

\* One thread runs the command from its start to its report.
FairSpec == Spec /\ WF_vars(Building \/ Delivering)

-----------------------------------------------------------------------------
(* Properties                                                              *)

Stage == {"mail", "fragments", "file", "reassemble", "deliver", "done", "gather", "failed"}

\* Every variable has its type, and the link is at a packet it has.
TypeOK ==
  /\ stage \in Stage
  /\ payload \in Payloads
  /\ state \in ProtocolState
  /\ packets \in Seq(Packet)
  /\ groups \in SUBSET Seq(Packet)
  /\ args \in Args \cup {NoArgs}
  /\ receiver \in ProtocolState
  /\ at \in 1..(Len(packets) + 1)
  /\ attempt \in Nat
  /\ attempt > 0 => attempt <= args.retries + 1 /\ Sending
  /\ report \in [delivered: Nat, acknowledged: Nat, attempts: Nat, timeouts: Nat,
                 duplicates: Nat, failed: Seq(PacketId)]
  /\ gathered \in Seq(Packet)
  /\ runs \in Nat

\* What a station has split it can put together again, whatever the payload and the
\* call, and when all fragments and chunks fit a packet the mail and the ack do too.
\* Putting together any gathered list gives the payload of a message (a file) if the
\* list is all of its fragments (its chunks and whatever is no chunk), each once and in
\* any order, and an error otherwise: never a payload nobody sent, never an error for
\* packets that came in another order, also when two processes used one id.
IsShuffle(ps, qs) == Len(ps) = Len(qs) /\ Range(ps) = Range(qs)

Sent(kind) == {ps \in groups : ps # <<>> /\ ps[1].kind = kind}

Expected(ps, kind) ==
  IF \E qs \in Sent(kind) : IsShuffle(ps, qs)
  THEN LET qs == CHOOSE qs \in Sent(kind) : IsShuffle(ps, qs)
       IN FlattenSeq([i \in DOMAIN qs |-> qs[i].data])
  ELSE Failed

ReassembledIsSent ==
  /\ stage = "reassemble" =>
       /\ ReassembleFragments(Fragments) = payload
       /\ ReassembleFileChunks(FilePackets) = payload
       /\ AllFit(packets)
  /\ ReassembleFragments(gathered) = Expected(gathered, "fragment")
  /\ ReassembleFileChunks(gathered) = Expected(FileChunks(gathered), "file-chunk")

\* The counters of the report add up at every step: each packet handled was delivered
\* and acknowledged once or is listed as failed, each attempt that did not deliver was
\* waited for, and a packet counts as a duplicate only for a doubled delivery.
CountsAddUp ==
  /\ report.delivered = Cardinality(receiver.seen)
  /\ report.acknowledged = report.delivered
  /\ report.delivered + Len(report.failed) = at - 1
  /\ report.timeouts = Waits * (report.attempts - report.delivered)
  /\ report.duplicates = IF args.double THEN report.delivered ELSE 0
  /\ report.attempts <= (args.retries + 1) * (at - 1) + attempt

\* The link keeps the promise for the ids of the packets: each is observed once or
\* reported failed, and the command comes to the end of its packets.
Promise == INSTANCE DeliveryPromise WITH
  Ids <- PacketId,
  pending <- IF stage = "deliver" THEN {packets[i].id : i \in at..Len(packets)} ELSE {},
  taken <- receiver.seen,
  lost <- Range(report.failed)

KeepsDelivery == Promise!Spec
=============================================================================
