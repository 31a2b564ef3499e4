----------------------------- MODULE PeerScript -----------------------------
(***************************************************************************)
(* `chat local-peer-script` (LocalPeerSession in                           *)
(* crates/chattybara-cli/src/local_peer.rs): both stations in one process, *)
(* one script for the two.  A command changes its own station, transmits   *)
(* its packets over the link, where channel impairments may spoil any of   *)
(* them, and changes the other station with what was decoded.  It stops at *)
(* the first error; the script goes on.                                    *)
(***************************************************************************)
EXTENDS ChatBackend

CONSTANTS
  A, B,          \* the two stations, named by their calls
  Chunks,        \* the number of chunks a file is sent in
  Given,         \* bound: the kinds of commands in the script
  MaxLines,      \* bound: commands in the script
  MaxFaults      \* bound: packets spoilt, requests refused, saves failed

Side == {A, B}
Other(s) == IF s = A THEN B ELSE A

AppKind == {"BEACON", "MAIL", "OFFER"}   \* CQ goes the way of BEACON
Kind == AppKind \cup {"CONNECT", "MSG", "FILE", "DISCONNECT"}
Packet == [sequence: Nat, from: Side, kind: (Kind \ {"FILE"}) \cup {"CHUNK"}, text: Text]
Report == [side: Side, kind: Kind, text: Text, ok: BOOLEAN]

ASSUME PeerAssumption ==
  /\ A # B /\ Side \subseteq Call
  /\ 1..MaxLines \subseteq Text     \* each line has a text of its own
  /\ Chunks \in Nat \ {0}
  /\ Given \subseteq Kind
  /\ MaxLines \in Nat /\ MaxFaults \in Nat

VARIABLES
  chat,      \* FakeBackend of each station
  app,       \* ChatAppModel of each station
  packets,   \* packet reports of the session
  saved,     \* files each station received and wrote, the report's list of them
  reports,   \* a report of each command so far
  faults     \* bounded: what went wrong

vars == <<chat, app, packets, saved, reports, faults>>

Init ==
  /\ chat = [s \in Side |-> NewBackend]
  /\ app = [s \in Side |-> NewAppModel]
  /\ packets = <<>>
  /\ saved = [s \in Side |-> <<>>]
  /\ reports = <<>>
  /\ faults = 0

\* The text of a line is its number.
LineText == Len(reports) + 1

Reported(s, kind, ok) ==
  /\ Len(reports) < MaxLines /\ kind \in Given
  /\ reports' = Append(reports, [side |-> s, kind |-> kind, text |-> LineText, ok |-> ok])

Fault == faults < MaxFaults /\ faults' = faults + 1

\* connect needs no session, send_text one; the others do not ask.
Allowed(s, kind) ==
  /\ kind = "CONNECT" => ~IsConnected(chat[s])
  /\ kind = "MSG" => IsConnected(chat[s])

ChatSent(s, kind) ==
  CASE kind = "CONNECT" -> ConnectTo(chat[s], Other(s))
    [] kind = "MSG" -> SentText(chat[s], s, LineText)
    [] OTHER -> chat[s]

Addressee(s, kind) == IF kind = "BEACON" THEN NoCall ELSE Other(s)

AppWith(a, s, kind) ==
  IF kind \in AppKind \cup {"FILE"} THEN Recorded(a, s, Addressee(s, kind), LineText) ELSE a

PacketKinds(kind) ==
  IF kind = "FILE" THEN <<"OFFER">> \o [i \in 1..Chunks |-> "CHUNK"] ELSE <<kind>>

\* transmit, for the first n packets of the command.
Transmitted(s, kind, n) ==
  packets' = packets \o
    [i \in 1..n |-> [sequence |-> Len(packets) + i, from |-> s,
                     kind |-> PacketKinds(kind)[i], text |-> LineText]]

-----------------------------------------------------------------------------
(* The ways a command can go                                               *)

\* Its own station refuses, and nothing was changed.
Refused(s, kind) ==
  /\ ~Allowed(s, kind)
  /\ Reported(s, kind, FALSE)
  /\ UNCHANGED <<chat, app, packets, saved, faults>>

\* The file cannot be read or is empty, or the app model refuses the request.
RequestRefused(s, kind) ==
  /\ kind \in AppKind \cup {"FILE"} /\ Fault
  /\ \E a \in {app[s], RecordRefused(app[s])} : app' = [app EXCEPT ![s] = a]
  /\ Reported(s, kind, FALSE)
  /\ UNCHANGED <<chat, packets, saved>>

\* Wrong on purpose: the file is written as soon as its offer is decoded.
TransmitFailsSaved(s, kind) ==
  /\ Allowed(s, kind) /\ Fault
  /\ chat' = [chat EXCEPT ![s] = ChatSent(s, kind)]
  /\ app' = [app EXCEPT ![s] = AppWith(app[s], s, kind)]
  /\ \E n \in 0..(Len(PacketKinds(kind)) - 1) :
       /\ Transmitted(s, kind, n)
       /\ saved' = IF kind = "FILE" /\ n > 0
                   THEN [saved EXCEPT ![Other(s)] = Append(@, LineText)] ELSE saved
  /\ Reported(s, kind, FALSE)

\* A packet is too large, does not decode or decodes to something else: the sender
\* keeps what it recorded, the other station sees nothing of the command.
TransmitFails(s, kind) ==
  /\ Allowed(s, kind) /\ Fault
  /\ chat' = [chat EXCEPT ![s] = ChatSent(s, kind)]
  /\ app' = [app EXCEPT ![s] = AppWith(app[s], s, kind)]
  /\ \E n \in 0..(Len(PacketKinds(kind)) - 1) : Transmitted(s, kind, n)
  /\ Reported(s, kind, FALSE)
  /\ UNCHANGED saved

AllTransmitted(s, kind) ==
  /\ Allowed(s, kind)
  /\ Transmitted(s, kind, Len(PacketKinds(kind)))

\* The other station is connected already, or not to this one.
RemoteRefuses(s, kind) ==
  /\ AllTransmitted(s, kind)
  /\ \/ kind = "CONNECT" /\ IsConnected(chat[Other(s)])
     \/ kind = "MSG" /\ ~Accepts(chat[Other(s)], s)
  /\ chat' = [chat EXCEPT ![s] = ChatSent(s, kind)]
  /\ Reported(s, kind, FALSE)
  /\ UNCHANGED <<app, saved, faults>>

\* Wrong on purpose: the other station is left connected.
ChatsAfterHalf(s, kind) ==
  LET o == Other(s) IN
  CASE kind = "CONNECT" ->
         [chat EXCEPT ![s] = ChatSent(s, kind), ![o] = ConnectTo(@, s)]
    [] kind = "MSG" ->
         [chat EXCEPT ![s] = ChatSent(s, kind), ![o] = ReceivedText(@, o, s, LineText)]
    [] kind = "DISCONNECT" -> [chat EXCEPT ![s] = Disconnected(@)]
    [] OTHER -> chat

\* A disconnect ends both sessions, and only once its packet was decoded.
ChatsAfter(s, kind) ==
  LET o == Other(s) IN
  CASE kind = "CONNECT" ->
         [chat EXCEPT ![s] = ChatSent(s, kind), ![o] = ConnectTo(@, s)]
    [] kind = "MSG" ->
         [chat EXCEPT ![s] = ChatSent(s, kind), ![o] = ReceivedText(@, o, s, LineText)]
    [] kind = "DISCONNECT" -> [chat EXCEPT ![s] = Disconnected(@), ![o] = Disconnected(@)]
    [] OTHER -> chat

AppsAfter(s, kind) ==
  [app EXCEPT ![s] = AppWith(@, s, kind), ![Other(s)] = AppWith(@, s, kind)]

Delivered(s, kind) ==
  /\ AllTransmitted(s, kind)
  /\ kind = "CONNECT" => ~IsConnected(chat[Other(s)])
  /\ kind = "MSG" => Accepts(chat[Other(s)], s)
  /\ chat' = ChatsAfter(s, kind)
  /\ app' = AppsAfter(s, kind)
  /\ saved' = IF kind = "FILE" THEN [saved EXCEPT ![Other(s)] = Append(@, LineText)] ELSE saved
  /\ Reported(s, kind, TRUE)
  /\ UNCHANGED faults

\* The received directory cannot be written: the offer was recorded at both.
SaveFails(s, kind) ==
  /\ kind = "FILE" /\ Fault
  /\ AllTransmitted(s, kind)
  /\ app' = AppsAfter(s, kind)
  /\ Reported(s, kind, FALSE)
  /\ UNCHANGED <<chat, saved>>

Command(s, kind) ==
  \/ Refused(s, kind) \/ RequestRefused(s, kind) \/ TransmitFails(s, kind)
  \/ RemoteRefuses(s, kind) \/ Delivered(s, kind) \/ SaveFails(s, kind)

Next == \E s \in Side, kind \in Kind : Command(s, kind)

Spec == Init /\ [][Next]_vars

-----------------------------------------------------------------------------
(* Properties                                                              *)

\* Every variable has its type, and the counters agree with the lists.
TypeOK ==
  /\ chat \in [Side -> Backend]
  /\ app \in [Side -> AppModel]
  /\ packets \in Seq(Packet)
  /\ saved \in [Side -> Seq(Text)]
  /\ reports \in Seq(Report)
  /\ faults \in Nat
  /\ \A s \in Side :
       /\ chat[s].next = Len(chat[s].messages) + 1
       /\ app[s].next > Len(app[s].entries)
  /\ \A i \in DOMAIN packets : packets[i].sequence = i

Texts(list) == [i \in DOMAIN list |-> list[i].text]

IsOk(r, s, kinds) == r.side = s /\ r.ok /\ r.kind \in kinds
OkTexts(s, kinds) ==
  Texts(Picked(reports, {i \in DOMAIN reports : IsOk(reports[i], s, kinds)}))

TextsOf(c, direction) ==
  Texts(Picked(c.messages, {i \in DOMAIN c.messages : c.messages[i].direction = direction}))

PostsOf(a, s) ==
  Texts(Picked(a.entries, {i \in DOMAIN a.entries : a.entries[i].from = s}))

\* The report tells the truth about both ends.  A SEND is ok exactly if the other
\* station logged its text, a FILE-SEND exactly if the other station received the file
\* and wrote it, and an ok post was observed; whatever failed on the way left nothing at
\* the other station that the sender has not recorded.  (A file whose safe name is that
\* of an earlier one overwrites it in the directory, which saved does not show.)
OkIsBoth ==
  \A s \in Side :
    /\ TextsOf(chat[Other(s)], "Inbound") = OkTexts(s, {"MSG"})
    /\ saved[Other(s)] = OkTexts(s, {"FILE"})
    /\ IsPartOf(OkTexts(s, AppKind \cup {"FILE"}), PostsOf(app[Other(s)], s))
    /\ IsPartOf(PostsOf(app[Other(s)], s), PostsOf(app[s], s))
    /\ IsPartOf(OkTexts(s, {"MSG"}), TextsOf(chat[s], "Outbound"))

\* Only a CONNECT that was reported as failed leaves one station with a session the
\* other does not have, and the next ok CONNECT or DISCONNECT ends that.
OnlyFailedConnectSplits ==
  IsConnected(chat[A]) # IsConnected(chat[B]) =>
    \E i \in DOMAIN reports :
      /\ reports[i].kind = "CONNECT" /\ ~reports[i].ok
      /\ \A j \in DOMAIN reports :
           j > i /\ reports[j].kind \in {"CONNECT", "DISCONNECT"} => ~reports[j].ok
=============================================================================
