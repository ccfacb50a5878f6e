------------------------------- MODULE Mailbox -------------------------------
(***************************************************************************)
(* What the message queue of the CEC HAL promises to the threads that use  *)
(* it: a bounded mailbox.  Messages that are accepted are delivered to the *)
(* one consumer in the order of their acceptance, each exactly once, and   *)
(* the mailbox never holds more than Capacity of them.  A message posted   *)
(* to a full mailbox is refused without a trace.  The consumer stops once  *)
(* it has been delivered a message of type "EXIT_REQUESTED".               *)
(*                                                                         *)
(* Nothing here says how the messages are stored, who waits for whom or    *)
(* which thread runs: MsgQueue.tla implements this.                        *)
(***************************************************************************)
EXTENDS Naturals, Sequences

CONSTANTS
  Capacity,   \* how many accepted messages can wait for the consumer
  Message,    \* what can be posted: records with a field "type"
  None        \* not a message

VARIABLES
  log,      \* every message accepted so far, oldest first
  taken,    \* how many of them the consumer has been given
  holding,  \* the message the consumer is busy with, or None
  running   \* the consumer still asks for messages

mailboxVars == <<log, taken, holding, running>>

Init ==
  /\ log = <<>>
  /\ taken = 0
  /\ holding = None
  /\ running = TRUE

\* A producer posts m and there is room for it.
Post(m) ==
  /\ Len(log) - taken < Capacity
  /\ log' = Append(log, m)
  /\ UNCHANGED <<taken, holding, running>>

\* The idle consumer is given the oldest message it has not been given.
Take ==
  /\ running
  /\ holding = None
  /\ taken < Len(log)
  /\ holding' = log[taken + 1]
  /\ taken' = taken + 1
  /\ UNCHANGED <<log, running>>

\* The consumer is finished with its message, and for good if that was a
\* request to exit.
Finish ==
  /\ holding # None
  /\ running' = (holding.type # "EXIT_REQUESTED")
  /\ holding' = None
  /\ UNCHANGED <<log, taken>>

Next ==
  \/ \E m \in Message : Post(m)
  \/ Take
  \/ Finish

Spec == Init /\ [][Next]_mailboxVars
==============================================================================
