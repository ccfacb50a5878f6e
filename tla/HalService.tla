------------------------------ MODULE HalService ------------------------------
(***************************************************************************)
(* What the HAL promises the application that opens and closes it: one     *)
(* session after another.  A session is sent messages, which wait in the   *)
(* order they came and are handled one at a time; handling one may call    *)
(* the application back.  Closing the session waits until every message    *)
(* that was let in has been handled and the callback has returned, so      *)
(* nothing of a session is left when the next one begins.                  *)
(*                                                                         *)
(* Nothing here says which memory a session has, which threads run or how  *)
(* they end: HalLifecycle.tla implements this.                             *)
(***************************************************************************)
EXTENDS Naturals, Sequences

CONSTANTS
  Session,   \* what names a session
  Nobody,    \* not a session
  Capacity   \* how many messages can wait

VARIABLES
  session,   \* the open one, or Nobody
  inbox,     \* the messages let in and not yet handled, oldest first
  callback   \* the sessions whose application is being called back

serviceVars == <<session, inbox, callback>>

Init ==
  /\ session = Nobody
  /\ inbox = <<>>
  /\ callback = {}

Open(s) ==
  /\ session = Nobody
  /\ session' = s
  /\ UNCHANGED <<inbox, callback>>

\* A message for the open session comes in; one that finds no room is dropped.
Receive(type) ==
  /\ session # Nobody
  /\ Len(inbox) < Capacity
  /\ inbox' = Append(inbox, [type |-> type, session |-> session])
  /\ UNCHANGED <<session, callback>>

\* The oldest message is handled, unless the application is still busy with an
\* earlier one.  A command is delivered to the application, if it wants any, and
\* so is the announcement of a device that a message about the state brought in.
Handle ==
  /\ inbox # <<>>
  /\ callback = {}
  /\ inbox' = Tail(inbox)
  /\ UNCHANGED callback \/ callback' = {session}
  /\ UNCHANGED session

Return ==
  /\ callback # {}
  /\ callback' = {}
  /\ UNCHANGED <<session, inbox>>

Close ==
  /\ session # Nobody
  /\ inbox = <<>>
  /\ callback = {}
  /\ session' = Nobody
  /\ UNCHANGED <<inbox, callback>>

Next ==
  \/ \E s \in Session : Open(s)
  \/ \E type \in {"COMMAND", "STATE"} : Receive(type)
  \/ Handle
  \/ Return
  \/ Close

Spec == Init /\ [][Next]_serviceVars
==============================================================================
