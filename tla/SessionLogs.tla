---------------------------- MODULE SessionLogs ----------------------------
(***************************************************************************)
(* The logs that two scripted processes leave, and what the commands of    *)
(* ChatLogs say of them: the fake backend and the app model run what one   *)
(* station did by itself, compare-script-log and compare-session-logs      *)
(* judge what the two stations recorded together.                          *)
(***************************************************************************)
EXTENDS NodeScript, ChatLogs

\* chat.log in the output directory of process n.
LogOf(n) == NormalizedLog(n, chat[n])

MatchesPeerLog(n, log) == ComparePeerLogs(n, log, Peer(n), LogOf(Peer(n)))

\* The lines of n's script that concern the session, as a script for the fake backend.
FakeLines(n) ==
  LET Concerns(c) == c.kind \in {"CONNECT", "MSG", "DISCONNECT"}
      lines == Picked(script[n], {i \in DOMAIN script[n] : Concerns(script[n][i])})
  IN [i \in DOMAIN lines |->
        [verb |-> IF lines[i].kind = "MSG" THEN (IF lines[i].send THEN "SEND" ELSE "RX")
                  ELSE lines[i].kind,
         call |-> peerCall[n], text |-> lines[i].text]]

\* The lines that post, as a script for the app model.
AppLines(n) ==
  LET Posts(c) == c.send /\ c.kind \in AppKind \cup {"FILE"}
      lines == Picked(script[n], {i \in DOMAIN script[n] : Posts(script[n][i])})
  IN [i \in DOMAIN lines |->
        [verb |-> IF lines[i].kind = "BEACON" THEN "BEACON" ELSE "MAIL",
         call |-> peerCall[n], text |-> lines[i].text]]

\* While the commands of one conversation are refused for nothing they contain, none
\* fails for what the other script does and, if the sockets take a frame where both
\* send at once, the two never wait for each other.  They end with everything read and
\* both sessions in one state, and all that can tell the conversation tell it alike:
\* each station's log is what the fake backend logs of that station's lines, its posts
\* are what the app model makes of them, and, if the stations took turns,
\* compare-session-logs passes the two logs.  (It goes by position: texts that cross are
\* in another order in the two logs, and it reports a conversation in which nothing went
\* wrong.)
ConversationHolds ==
  Agreed(setup) /\ faults = 0 =>
    /\ NoneFailed
    /\ RoomToCross(setup) => ~\A n \in Node : Waits(n)
    /\ AllEnded =>
         /\ AllRead /\ SessionsAgree
         /\ \A n \in Node :
              /\ CompareFakeScriptToSimpleLog(n, FakeLines(n), LogOf(n))
              /\ LET posted == RunAppScript(n, AppLines(n))
                 IN posted.ok /\ PostsOf(posted.state, n) = PostsOf(app[n], n)
         /\ InTurns(setup) => MatchesPeerLog(A, LogOf(A))

\* One line of a log lost, doubled, made unreadable, turned round or with other text.
Altered(log) ==
  {SubSeq(log, 1, i - 1) \o SubSeq(log, i + 1, Len(log)) : i \in DOMAIN log}
  \cup {SubSeq(log, 1, i) \o SubSeq(log, i, Len(log)) : i \in DOMAIN log}
  \cup {[log EXCEPT ![i].verb = verb] : i \in DOMAIN log, verb \in LogVerb}
  \cup {[log EXCEPT ![i].call = call] : i \in DOMAIN log, call \in Call}
  \cup {[log EXCEPT ![i].text = text] : i \in DOMAIN log, text \in Text}

\* compare-session-logs is no rubber stamp, also after scripts that failed or a station
\* told the wrong peer: two logs it passes record the same texts as sent here and
\* received there, and it passes neither of them with one line altered.
PassedLogsAgree ==
  AllEnded /\ (\E n \in Node : MatchesPeerLog(n, LogOf(n))) =>
    \A n \in Node :
      /\ TextsOf(chat[n], "Outbound") = TextsOf(chat[Peer(n)], "Inbound")
      /\ \A log \in Altered(LogOf(n)) \ {LogOf(n)} : ~MatchesPeerLog(n, log)
=============================================================================
