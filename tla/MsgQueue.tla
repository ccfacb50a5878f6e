------------------------------ MODULE MsgQueue ------------------------------
(***************************************************************************)
(* The message queue of one CEC HAL instance (vcHdmiCec.c): the array      *)
(* msg_queue with its fill count, the thread MessageHandler that empties   *)
(* it, the control plane that fills it through ProcessMsg, and TeardownHal *)
(* that ends the thread with a message of its own and joins it.            *)
(*                                                                         *)
(* EnqueueMessage and DequeueMessage do all their work under               *)
(* msg_queue_mutex, so each is one step, except that DequeueMessage gives  *)
(* the mutex up while it waits for the condition variable.                 *)
(***************************************************************************)
EXTENDS Naturals, Sequences

CONSTANTS
  MAX_QUEUE_SIZE,  \* slots of the array (32 in the code)
  Payloads,        \* the texts a control-plane message can carry
  NULL,            \* no text
  MaxPosts         \* BOUND: how many messages the control plane sends

ASSUME QueueAssumption ==
  /\ MAX_QUEUE_SIZE \in Nat \ {0}
  /\ MaxPosts \in Nat
  /\ NULL \notin Payloads

\* The types ProcessMsg finds for the keys the control plane registers.
PostedType == {"COMMAND", "STATE"}

Message ==
  [type : PostedType, message : Payloads] \cup
  [type : {"EXIT_REQUESTED"}, message : {NULL}]

\* What ResetMessage writes, and what memset leaves in a fresh array.
NoMessage == [type |-> "NONE", message |-> NULL]

ExitMessage == [type |-> "EXIT_REQUESTED", message |-> NULL]

Slot == 0 .. MAX_QUEUE_SIZE - 1

VARIABLES
  msg_queue,     \* the array
  msg_count,     \* how many of its slots are in use
  exit_request,  \* set by the handler, read by its loop
  handler,       \* where the handler thread is
  msg,           \* its local copy of the message it works on
  teardown,      \* where TeardownHal is
  posts,         \* how many times the control plane has called
  accepted,      \* history: the messages put in the array, oldest first
  taken          \* history: how many of them the handler has copied out

queueVars == <<msg_queue, msg_count>>
history == <<accepted, taken>>
vars == <<msg_queue, msg_count, exit_request, handler, msg, teardown, posts,
          accepted, taken>>

\* "test"     about to evaluate the condition of the loop
\* "dequeue"  in DequeueMessage, about to look at msg_count under the mutex
\* "waiting"  asleep in pthread_cond_wait
\* "switch"   holds a message and is about to handle it
\* "done"     returned from MessageHandler
HandlerState == {"test", "dequeue", "waiting", "switch", "done"}

\* "open" not called yet, "joining" in pthread_join, "joined" past it
TeardownState == {"open", "joining", "joined"}

Init ==
  /\ msg_queue = [i \in Slot |-> NoMessage]
  /\ msg_count = 0
  /\ exit_request = FALSE
  /\ handler = "test"
  /\ msg = NoMessage
  /\ teardown = "open"
  /\ posts = 0
  /\ accepted = <<>>
  /\ taken = 0

------------------------------------------------------------------------------
\* Producers

\* Mutated form of HasRoom: one message too many.
HasRoom_OffByOne == msg_count <= MAX_QUEUE_SIZE

HasRoom == msg_count < MAX_QUEUE_SIZE

\* Mutated form of Signal: the call is forgotten.
Signal_Forgotten == UNCHANGED handler

\* pthread_cond_signal: the handler is the only thread that ever waits.
Signal == handler' = IF handler = "waiting" THEN "dequeue" ELSE handler

\* A message that finds no free slot is dropped and nobody is told.
EnqueueMessage(m) ==
  IF HasRoom
  THEN /\ msg_queue' = [msg_queue EXCEPT ![msg_count] = m]
       /\ msg_count' = msg_count + 1
       /\ Signal
       /\ accepted' = Append(accepted, m)
  ELSE UNCHANGED <<msg_queue, msg_count, handler, accepted>>

\* The control plane calls ProcessMsg, which finds the HAL ready.
ProcessMsg(t, p) ==
  /\ teardown # "joined"
  /\ posts < MaxPosts
  /\ posts' = posts + 1
  /\ EnqueueMessage([type |-> t, message |-> p])
  /\ UNCHANGED <<exit_request, msg, teardown, taken>>

\* TeardownHal asks the handler to exit and goes to join it ...
RequestExit ==
  /\ teardown = "open"
  /\ teardown' = "joining"
  /\ EnqueueMessage(ExitMessage)
  /\ UNCHANGED <<exit_request, msg, posts, taken>>

\* ... and gets past pthread_join when the thread has returned.
Join ==
  /\ teardown = "joining"
  /\ handler = "done"
  /\ teardown' = "joined"
  /\ UNCHANGED <<msg_queue, msg_count, exit_request, handler, msg, posts,
                 accepted, taken>>

------------------------------------------------------------------------------
\* The handler thread

TestExit ==
  /\ handler = "test"
  /\ handler' = IF exit_request THEN "done" ELSE "dequeue"
  /\ UNCHANGED <<queueVars, exit_request, msg, teardown, posts, history>>

Wait ==
  /\ handler = "dequeue"
  /\ msg_count = 0
  /\ handler' = "waiting"
  /\ UNCHANGED <<queueVars, exit_request, msg, teardown, posts, history>>

\* pthread_cond_wait may return without a signal.
SpuriousWakeup ==
  /\ handler = "waiting"
  /\ handler' = "dequeue"
  /\ UNCHANGED <<queueVars, exit_request, msg, teardown, posts, history>>

\* Mutated form of ShiftDown: the loop stops one slot early.
ShiftDown_TooShort(queue, count) ==
  [i \in Slot |-> IF i + 2 < count THEN queue[i + 1]
                  ELSE IF i = 0 THEN NoMessage ELSE queue[i]]

\* The slots after the top move one down; the last one in use keeps a copy
\* of what it held, and when there is only the top it stays reset.
ShiftDown(queue, count) ==
  [i \in Slot |-> IF i + 1 < count THEN queue[i + 1]
                  ELSE IF i = 0 THEN NoMessage ELSE queue[i]]

DequeueMessage ==
  /\ handler = "dequeue"
  /\ msg_count > 0
  /\ msg' = msg_queue[0]
  /\ msg_queue' = ShiftDown(msg_queue, msg_count)
  /\ msg_count' = msg_count - 1
  /\ taken' = taken + 1
  /\ handler' = "switch"
  /\ UNCHANGED <<exit_request, teardown, posts, accepted>>

\* Mutated form of HandleMessage: ResetMessage runs before the switch.
HandleMessage_ResetFirst ==
  /\ handler = "switch"
  /\ msg' = NoMessage
  /\ exit_request' = (exit_request \/ msg'.type = "EXIT_REQUESTED")
  /\ handler' = "test"
  /\ UNCHANGED <<queueVars, teardown, posts, history>>

\* Mutated form of HandleMessage: STATE falls through into the exit case.
HandleMessage_FallThrough ==
  /\ handler = "switch"
  /\ exit_request' = (exit_request \/ msg.type \in {"STATE", "EXIT_REQUESTED"})
  /\ msg' = NoMessage
  /\ handler' = "test"
  /\ UNCHANGED <<queueVars, teardown, posts, history>>

\* The switch on the message type and the ResetMessage after it.  What a
\* COMMAND or STATE message does to the device map is in other modules.
HandleMessage ==
  /\ handler = "switch"
  /\ exit_request' = (exit_request \/ msg.type = "EXIT_REQUESTED")
  /\ msg' = NoMessage
  /\ handler' = "test"
  /\ UNCHANGED <<queueVars, teardown, posts, history>>

MessageHandler ==
  \/ TestExit
  \/ Wait
  \/ DequeueMessage
  \/ HandleMessage

\* The HAL is closed, its thread has ended and the control plane is silent.
Closed ==
  /\ teardown = "joined"
  /\ UNCHANGED vars

Next ==
  \/ \E t \in PostedType, p \in Payloads : ProcessMsg(t, p)
  \/ RequestExit
  \/ Join
  \/ MessageHandler
  \/ SpuriousWakeup
  \/ Closed

Spec == Init /\ [][Next]_vars

\* The scheduler runs a runnable handler thread and a join that can return.
\* Nobody is obliged to close the HAL, to send or to wake up for no reason.
FairSpec == Spec /\ WF_vars(MessageHandler) /\ WF_vars(Join)

------------------------------------------------------------------------------
\* Properties

\* The types of the variables.
TypeOK ==
  /\ msg_queue \in [Slot -> Message \cup {NoMessage}]
  /\ msg_count \in 0 .. MAX_QUEUE_SIZE
  /\ exit_request \in BOOLEAN
  /\ handler \in HandlerState
  /\ msg \in Message \cup {NoMessage}
  /\ teardown \in TeardownState
  /\ posts \in 0 .. MaxPosts
  /\ accepted \in Seq(Message)
  /\ taken \in Nat

\* The slots in use are exactly the accepted messages the handler has not
\* taken, in the order EnqueueMessage accepted them: shifting the array down
\* in DequeueMessage loses, repeats and reorders nothing.
SlotsAreBacklog ==
  /\ Len(accepted) = taken + msg_count
  /\ \A i \in Slot : i < msg_count => msg_queue[i] = accepted[taken + i + 1]

\* MessageHandler never sleeps in pthread_cond_wait on a queue that is not
\* empty: no wake-up is lost between EnqueueMessage and DequeueMessage.
NoLostWakeup == handler = "waiting" => msg_count = 0

\* The handler thread ends for one reason only: the message it took last is
\* the exit request of TeardownHal, which is by then waiting to join it.
HandlerEndsOnRequest ==
  exit_request \/ handler = "done" =>
    /\ teardown # "open"
    /\ taken \in 1 .. Len(accepted)
    /\ accepted[taken] = ExitMessage

\* What makes HandlerEndsOnRequest inductive: only TeardownHal posts an exit
\* request, the handler's local message is the one it took last for as long
\* as it works on it, and it takes nothing once the flag is set.
ExitOnlyFromTeardown ==
  \A i \in 1 .. Len(accepted) : accepted[i] = ExitMessage => teardown # "open"

HandlerInv ==
  /\ handler = "switch" => taken \in 1 .. Len(accepted) /\ msg = accepted[taken]
  /\ handler # "switch" => msg = NoMessage
  /\ exit_request => handler \in {"test", "done"}
  /\ handler = "done" => exit_request

\* What the queue, the two functions and the thread are together: a bounded
\* mailbox that delivers each accepted message once and in order.
mailbox == INSTANCE Mailbox WITH
  Capacity <- MAX_QUEUE_SIZE,
  None <- NoMessage,
  log <- accepted,
  holding <- msg,
  running <- ~exit_request

MailboxSpec == mailbox!Spec

ExitAccepted == \E i \in 1 .. Len(accepted) : accepted[i] = ExitMessage

\* TeardownHal returns from pthread_join whenever its exit request found a
\* free slot, however many messages are queued before it.
TeardownReturnsIfAsked ==
  (teardown = "joining" /\ ExitAccepted) ~> (teardown = "joined")

\* A message accepted before any exit request is handled, whether or not
\* the HAL is being closed meanwhile.
EarlierMessagesHandled ==
  \A n \in 1 .. MaxPosts :
    (Len(accepted) >= n /\ \A i \in 1 .. n : accepted[i] # ExitMessage)
      ~> (taken >= n)

\* HdmiCecClose returns: the application gets its answer
\* HDMI_CEC_IO_SUCCESS once TeardownHal has started.  The code breaks this
\* when the queue is full as the exit request is enqueued.
TeardownReturns == (teardown = "joining") ~> (teardown = "joined")

==============================================================================
