---------------------------- MODULE MailPromise ----------------------------
(***************************************************************************)
(* What the Winlink part promises the operator about mail he writes: the   *)
(* station keeps every text it ever saved, the CMS gets a text only once   *)
(* the station has it saved, and the station calls a text sent only if the *)
(* CMS has it, and never takes that back.  Nothing on the wire breaks it.  *)
(* What does is a process killed while it writes the store: then the whole *)
(* of it is lost at once, never a part, and nothing is saved any more in   *)
(* the place of what was lost.  WinlinkSync is shown to implement this.    *)
(***************************************************************************)
CONSTANTS
  Texts,
  MayLose  \* whether a process may be killed while it writes

VARIABLES
  kept,    \* saved texts that the station has
  lost,    \* saved texts that it has no longer
  has,     \* texts the CMS has
  sent     \* texts the station says went out over Telnet/CMS

Init == kept = {} /\ lost = {} /\ has = {} /\ sent = {}

Save ==
  /\ lost = {}
  /\ kept \subseteq kept' /\ kept' \subseteq Texts
  /\ sent \subseteq sent' /\ sent' \subseteq kept' \cap has
  /\ UNCHANGED <<lost, has>>

\* Mail that was on its way when the store was lost may still arrive.
Accept ==
  /\ \E t \in (kept \cup lost) \ has : has' = has \cup {t}
  /\ UNCHANGED <<kept, lost, sent>>

LoseAll ==
  /\ MayLose
  /\ kept # {}
  /\ lost' = kept /\ kept' = {} /\ sent' = {}
  /\ UNCHANGED has

Next == Save \/ Accept \/ LoseAll

Spec == Init /\ [][Next]_<<kept, lost, has, sent>>
=============================================================================
