--------------------------- MODULE MsgQueueProofs ---------------------------
(***************************************************************************)
(* Theorems about MsgQueue for every queue size, every set of payloads and *)
(* every number of messages, checked by TLAPS.                             *)
(***************************************************************************)
EXTENDS MsgQueue, TLAPS

USE DEF QueueAssumption

\* What the variables range over is inductive by itself.
LEMMA TypeInit == Init => TypeOK
<1> SUFFICES ASSUME Init PROVE TypeOK
  OBVIOUS
<1>1. exit_request \in BOOLEAN
  BY Zenon DEF Init
<1>2. /\ msg_queue \in [Slot -> Message \cup {NoMessage}]
      /\ msg_count \in 0 .. MAX_QUEUE_SIZE
      /\ handler \in HandlerState
      /\ msg \in Message \cup {NoMessage}
      /\ teardown \in TeardownState
      /\ posts \in 0 .. MaxPosts
      /\ accepted \in Seq(Message)
      /\ taken \in Nat
  BY QueueAssumption DEF Init, Slot, HandlerState, TeardownState
<1> QED BY <1>1, <1>2, Zenon DEF TypeOK

\* A message can be put in a slot that is free, and in no other.
LEMMA EnqueueType ==
  ASSUME TypeOK, NEW m \in Message, EnqueueMessage(m)
  PROVE  /\ msg_queue' \in [Slot -> Message \cup {NoMessage}]
         /\ msg_count' \in 0 .. MAX_QUEUE_SIZE
         /\ handler' \in HandlerState
         /\ accepted' \in Seq(Message)
<1>1. CASE HasRoom
  <2>1. msg_count \in Slot
    BY <1>1, QueueAssumption DEF HasRoom, TypeOK, Slot
  <2>2. handler' \in HandlerState
    BY <1>1 DEF EnqueueMessage, Signal, TypeOK, HandlerState
  <2>3. msg_queue' \in [Slot -> Message \cup {NoMessage}]
    BY <1>1, <2>1 DEF EnqueueMessage, TypeOK
  <2>4. msg_count' \in 0 .. MAX_QUEUE_SIZE
    BY <1>1, QueueAssumption DEF EnqueueMessage, HasRoom, TypeOK
  <2>5. accepted' \in Seq(Message)
    BY <1>1 DEF EnqueueMessage, TypeOK
  <2> QED BY <2>2, <2>3, <2>4, <2>5
<1>2. CASE ~HasRoom
  BY <1>2 DEF EnqueueMessage, TypeOK
<1> QED BY <1>1, <1>2

LEMMA TypeNext == TypeOK /\ [Next]_vars => TypeOK'
<1> SUFFICES ASSUME TypeOK, [Next]_vars PROVE TypeOK'
  OBVIOUS
<1>1. ASSUME NEW t \in PostedType, NEW p \in Payloads, ProcessMsg(t, p)
      PROVE  TypeOK'
  <2>1. [type |-> t, message |-> p] \in Message
    BY DEF Message
  <2> QED BY <1>1, <2>1, EnqueueType, QueueAssumption DEF TypeOK, ProcessMsg
<1>2. CASE RequestExit
  <2>1. ExitMessage \in Message
    BY DEF Message, ExitMessage
  <2> QED
    BY <1>2, <2>1, EnqueueType DEF TypeOK, RequestExit, TeardownState
<1>3. CASE Join
  BY <1>3 DEF TypeOK, Join, TeardownState
<1>4. CASE TestExit
  BY <1>4 DEF TypeOK, TestExit, queueVars, history, HandlerState
<1>5. CASE Wait
  BY <1>5 DEF TypeOK, Wait, queueVars, history, HandlerState
<1>6. CASE DequeueMessage
  <2>1. msg_queue[0] \in Message \cup {NoMessage}
    BY QueueAssumption DEF TypeOK, Slot
  <2>2. ShiftDown(msg_queue, msg_count) \in [Slot -> Message \cup {NoMessage}]
    BY QueueAssumption DEF TypeOK, ShiftDown, Slot
  <2>3. msg_count - 1 \in 0 .. MAX_QUEUE_SIZE
    BY <1>6, QueueAssumption DEF TypeOK, DequeueMessage
  <2>4. taken + 1 \in Nat
    BY DEF TypeOK
  <2> QED
    BY <1>6, <2>1, <2>2, <2>3, <2>4, Zenon
    DEF TypeOK, DequeueMessage, HandlerState
<1>7. CASE HandleMessage
  BY <1>7 DEF TypeOK, HandleMessage, queueVars, history, HandlerState
<1>8. CASE SpuriousWakeup
  BY <1>8 DEF TypeOK, SpuriousWakeup, queueVars, history, HandlerState
<1>9. CASE UNCHANGED vars
  BY <1>9 DEF TypeOK, vars
<1> QED
  BY <1>1, <1>2, <1>3, <1>4, <1>5, <1>6, <1>7, <1>8, <1>9
  DEF Next, MessageHandler, Closed

\* MsgQueue is well typed whatever the constants are; in particular
\* EnqueueMessage never writes past the end of msg_queue.
THEOREM TypeCorrect == Spec => []TypeOK
<1> QED BY TypeInit, TypeNext, PTL DEF Spec

------------------------------------------------------------------------------
\* The array is a queue: SlotsAreBacklog

LEMMA BacklogEnqueue ==
  ASSUME TypeOK, SlotsAreBacklog, NEW m \in Message, EnqueueMessage(m),
         taken' = taken
  PROVE  SlotsAreBacklog'
<1>1. CASE HasRoom
  <2>1. /\ msg_queue' = [msg_queue EXCEPT ![msg_count] = m]
        /\ msg_count' = msg_count + 1
        /\ accepted' = Append(accepted, m)
    BY <1>1 DEF EnqueueMessage
  <2>2. msg_count \in Slot
    BY <1>1, QueueAssumption DEF HasRoom, TypeOK, Slot
  <2>3. /\ Len(accepted') = Len(accepted) + 1
        /\ accepted'[Len(accepted) + 1] = m
        /\ \A j \in 1 .. Len(accepted) : accepted'[j] = accepted[j]
        /\ Len(accepted) \in Nat
    BY <2>1 DEF TypeOK
  <2>4. ASSUME NEW i \in Slot, i < msg_count'
        PROVE  msg_queue'[i] = accepted'[taken' + i + 1]
    <3>1. CASE i = msg_count
      BY <2>1, <2>2, <2>3, <3>1 DEF SlotsAreBacklog, TypeOK, Slot
    <3>2. CASE i # msg_count
      <4>1. i < msg_count /\ taken + i + 1 \in 1 .. Len(accepted)
        BY <2>1, <2>4, <3>2, QueueAssumption
        DEF SlotsAreBacklog, TypeOK, Slot
      <4> QED
        BY <2>1, <2>2, <2>3, <3>2, <4>1 DEF SlotsAreBacklog, TypeOK, Slot
    <3> QED BY <3>1, <3>2
  <2>5. Len(accepted') = taken' + msg_count'
    BY <2>1, <2>3 DEF SlotsAreBacklog, TypeOK
  <2> QED BY <2>4, <2>5 DEF SlotsAreBacklog
<1>2. CASE ~HasRoom
  BY <1>2 DEF EnqueueMessage, SlotsAreBacklog
<1> QED BY <1>1, <1>2

LEMMA BacklogDequeue ==
  ASSUME TypeOK, SlotsAreBacklog, DequeueMessage
  PROVE  SlotsAreBacklog'
<1>1. /\ msg_queue' = ShiftDown(msg_queue, msg_count)
      /\ msg_count' = msg_count - 1
      /\ taken' = taken + 1
      /\ accepted' = accepted
      /\ msg_count > 0
  BY DEF DequeueMessage
<1>2. ASSUME NEW i \in Slot, i < msg_count'
      PROVE  msg_queue'[i] = accepted'[taken' + i + 1]
  <2>1. i + 1 \in Slot /\ i + 1 < msg_count
    BY <1>1, <1>2, QueueAssumption DEF TypeOK, Slot
  <2>2. msg_queue'[i] = msg_queue[i + 1]
    BY <1>1, <2>1 DEF ShiftDown
  <2>3. msg_queue[i + 1] = accepted[taken + (i + 1) + 1]
    BY <2>1 DEF SlotsAreBacklog
  <2>4. taken + (i + 1) + 1 = taken' + i + 1
    BY <1>1 DEF TypeOK, Slot
  <2> QED BY <1>1, <2>2, <2>3, <2>4
<1>3. Len(accepted') = taken' + msg_count'
  BY <1>1 DEF SlotsAreBacklog, TypeOK
<1> QED BY <1>2, <1>3 DEF SlotsAreBacklog

LEMMA BacklogNext == TypeOK /\ SlotsAreBacklog /\ [Next]_vars => SlotsAreBacklog'
<1> SUFFICES ASSUME TypeOK, SlotsAreBacklog, [Next]_vars
             PROVE  SlotsAreBacklog'
  OBVIOUS
<1>1. ASSUME NEW t \in PostedType, NEW p \in Payloads, ProcessMsg(t, p)
      PROVE  SlotsAreBacklog'
  <2>1. [type |-> t, message |-> p] \in Message
    BY DEF Message
  <2> QED BY <1>1, <2>1, BacklogEnqueue DEF ProcessMsg
<1>2. CASE RequestExit
  <2>1. ExitMessage \in Message
    BY DEF Message, ExitMessage
  <2> QED BY <1>2, <2>1, BacklogEnqueue DEF RequestExit
<1>3. CASE DequeueMessage
  BY <1>3, BacklogDequeue
<1>4. CASE Join \/ TestExit \/ Wait \/ HandleMessage \/ SpuriousWakeup
           \/ UNCHANGED vars
  BY <1>4 DEF SlotsAreBacklog, Join, TestExit, Wait, HandleMessage,
              SpuriousWakeup, queueVars, history, vars
<1> QED BY <1>1, <1>2, <1>3, <1>4 DEF Next, MessageHandler, Closed

\* The slots in use are the accepted messages not yet taken, in order:
\* DequeueMessage's shift neither loses nor repeats nor reorders a message.
THEOREM BacklogCorrect == Spec => []SlotsAreBacklog
<1>1. Init => SlotsAreBacklog
  BY QueueAssumption DEF Init, SlotsAreBacklog, Slot
<1> QED BY <1>1, BacklogNext, TypeCorrect, PTL DEF Spec

------------------------------------------------------------------------------
\* No wake-up is lost: NoLostWakeup

\* MessageHandler is never asleep while a message is queued, for any number
\* of slots: EnqueueMessage signals whenever it fills one, and the handler
\* looks at msg_count and goes to sleep in one critical section.
THEOREM WakeupCorrect == Spec => []NoLostWakeup
<1>1. Init => NoLostWakeup
  BY DEF Init, NoLostWakeup
<1>2. ASSUME NoLostWakeup, NEW m \in Message, EnqueueMessage(m)
      PROVE  NoLostWakeup'
  <2>1. CASE HasRoom
    BY <1>2, <2>1 DEF NoLostWakeup, EnqueueMessage, Signal
  <2>2. CASE ~HasRoom
    BY <1>2, <2>2 DEF NoLostWakeup, EnqueueMessage
  <2> QED BY <2>1, <2>2
<1>3. NoLostWakeup /\ [Next]_vars => NoLostWakeup'
  <2> SUFFICES ASSUME NoLostWakeup, [Next]_vars PROVE NoLostWakeup'
    OBVIOUS
  <2>1. ASSUME NEW t \in PostedType, NEW p \in Payloads, ProcessMsg(t, p)
        PROVE  NoLostWakeup'
    <3>1. [type |-> t, message |-> p] \in Message
      BY DEF Message
    <3> QED BY <1>2, <2>1, <3>1 DEF ProcessMsg
  <2>2. CASE RequestExit
    <3>1. ExitMessage \in Message
      BY DEF Message, ExitMessage
    <3> QED BY <1>2, <2>2, <3>1 DEF RequestExit
  <2>3. CASE Wait
    BY <2>3 DEF Wait, NoLostWakeup, queueVars
  <2>4. CASE TestExit \/ DequeueMessage \/ HandleMessage \/ SpuriousWakeup
    BY <2>4
    DEF TestExit, DequeueMessage, HandleMessage, SpuriousWakeup, NoLostWakeup
  <2>5. CASE Join \/ UNCHANGED vars
    BY <2>5 DEF Join, NoLostWakeup, vars
  <2> QED BY <2>1, <2>2, <2>3, <2>4, <2>5 DEF Next, MessageHandler, Closed
<1> QED BY <1>1, <1>3, PTL DEF Spec

------------------------------------------------------------------------------
\* The handler ends on request only: HandlerEndsOnRequest

IInv ==
  /\ TypeOK
  /\ SlotsAreBacklog
  /\ ExitOnlyFromTeardown
  /\ HandlerInv
  /\ HandlerEndsOnRequest

\* A message that is not an exit request keeps ExitOnlyFromTeardown, and so
\* does any message once TeardownHal has started.
LEMMA ExitEnqueue ==
  ASSUME TypeOK, ExitOnlyFromTeardown, NEW m \in Message, EnqueueMessage(m),
         m = ExitMessage => teardown' # "open",
         teardown # "open" => teardown' # "open"
  PROVE  /\ ExitOnlyFromTeardown'
         /\ Len(accepted') \in Nat
         /\ Len(accepted) \in Nat
         /\ Len(accepted) <= Len(accepted')
         /\ \A i \in 1 .. Len(accepted) : accepted'[i] = accepted[i]
<1>1. CASE HasRoom
  <2>1. accepted' = Append(accepted, m)
    BY <1>1 DEF EnqueueMessage
  <2>2. /\ Len(accepted) \in Nat
        /\ Len(accepted') = Len(accepted) + 1
        /\ accepted'[Len(accepted) + 1] = m
        /\ \A i \in 1 .. Len(accepted) : accepted'[i] = accepted[i]
    BY <2>1 DEF TypeOK
  <2>3. ASSUME NEW i \in 1 .. Len(accepted'), accepted'[i] = ExitMessage
        PROVE  teardown' # "open"
    <3>1. CASE i = Len(accepted) + 1
      BY <2>2, <2>3, <3>1
    <3>2. CASE i # Len(accepted) + 1
      BY <2>2, <2>3, <3>2 DEF ExitOnlyFromTeardown
    <3> QED BY <3>1, <3>2
  <2> QED BY <2>2, <2>3 DEF ExitOnlyFromTeardown
<1>2. CASE ~HasRoom
  <2>1. accepted' = accepted
    BY <1>2 DEF EnqueueMessage
  <2> QED BY <2>1 DEF ExitOnlyFromTeardown, TypeOK
<1> QED BY <1>1, <1>2

\* Putting a message in the queue touches nothing the handler relies on but
\* its sleep.
LEMMA HandlerEnqueue ==
  ASSUME IInv, NEW m \in Message, EnqueueMessage(m),
         m = ExitMessage => teardown' # "open",
         teardown # "open" => teardown' # "open",
         UNCHANGED <<msg, taken, exit_request>>
  PROVE  HandlerInv' /\ HandlerEndsOnRequest'
<1>1. /\ Len(accepted') \in Nat
      /\ Len(accepted) \in Nat
      /\ Len(accepted) <= Len(accepted')
      /\ \A i \in 1 .. Len(accepted) : accepted'[i] = accepted[i]
  BY ExitEnqueue DEF IInv
<1>2. \/ handler' = handler
      \/ handler = "waiting" /\ handler' = "dequeue"
  BY DEF EnqueueMessage, Signal
<1>3. taken \in 1 .. Len(accepted) =>
        /\ taken \in 1 .. Len(accepted')
        /\ accepted'[taken] = accepted[taken]
  BY <1>1
<1>4. HandlerInv'
  BY <1>2, <1>3 DEF IInv, HandlerInv
<1>5. HandlerEndsOnRequest'
  BY <1>2, <1>3 DEF IInv, HandlerEndsOnRequest
<1> QED BY <1>4, <1>5

LEMMA HandlerDequeue ==
  ASSUME IInv, DequeueMessage
  PROVE  HandlerInv' /\ HandlerEndsOnRequest'
<1>1. /\ msg' = msg_queue[0]
      /\ taken' = taken + 1
      /\ accepted' = accepted
      /\ handler = "dequeue" /\ handler' = "switch"
      /\ exit_request' = exit_request
      /\ msg_count > 0
  BY DEF DequeueMessage
<1>2. 0 \in Slot
  BY QueueAssumption DEF Slot
<1>3. msg_queue[0] = accepted[taken + 1]
  <2>1. msg_queue[0] = accepted[taken + 0 + 1]
    BY <1>1, <1>2 DEF IInv, SlotsAreBacklog
  <2> QED BY <2>1 DEF IInv, TypeOK
<1>4. taken + 1 \in 1 .. Len(accepted)
  BY <1>1 DEF IInv, TypeOK, SlotsAreBacklog
<1>5. ~exit_request
  BY <1>1 DEF IInv, HandlerInv
<1>6. HandlerInv'
  BY <1>1, <1>3, <1>4, <1>5 DEF HandlerInv
<1>7. HandlerEndsOnRequest'
  BY <1>1, <1>5 DEF HandlerEndsOnRequest
<1> QED BY <1>6, <1>7

LEMMA HandlerSwitch ==
  ASSUME IInv, HandleMessage
  PROVE  HandlerInv' /\ HandlerEndsOnRequest'
<1>1. /\ handler = "switch" /\ handler' = "test"
      /\ msg' = NoMessage
      /\ UNCHANGED <<teardown, accepted, taken>>
  BY DEF HandleMessage, history
<1>2. taken \in 1 .. Len(accepted) /\ msg = accepted[taken]
  BY <1>1 DEF IInv, HandlerInv
<1>3. exit_request' => msg = ExitMessage
  <2>1. ~exit_request
    BY <1>1 DEF IInv, HandlerInv
  <2>2. exit_request' => msg.type = "EXIT_REQUESTED"
    BY <2>1 DEF HandleMessage
  <2>3. msg \in Message
    BY <1>2 DEF IInv, TypeOK
  <2> QED BY <2>2, <2>3 DEF Message, ExitMessage, PostedType
<1>4. HandlerInv'
  BY <1>1 DEF HandlerInv
<1>5. HandlerEndsOnRequest'
  BY <1>1, <1>2, <1>3 DEF IInv, ExitOnlyFromTeardown, HandlerEndsOnRequest
<1> QED BY <1>4, <1>5

LEMMA IInvNext == IInv /\ [Next]_vars => IInv'
<1> SUFFICES ASSUME IInv, [Next]_vars PROVE IInv'
  OBVIOUS
<1>1. TypeOK' /\ SlotsAreBacklog'
  BY TypeNext, BacklogNext DEF IInv
<1>2. ExitOnlyFromTeardown' /\ HandlerInv' /\ HandlerEndsOnRequest'
  <2>1. ASSUME NEW t \in PostedType, NEW p \in Payloads, ProcessMsg(t, p)
        PROVE  ExitOnlyFromTeardown' /\ HandlerInv' /\ HandlerEndsOnRequest'
    <3> DEFINE m == [type |-> t, message |-> p]
    <3>1. m \in Message /\ m # ExitMessage
      BY DEF Message, ExitMessage, PostedType
    <3>2. EnqueueMessage(m) /\ UNCHANGED <<msg, taken, exit_request, teardown>>
      BY <2>1 DEF ProcessMsg
    <3> HIDE DEF m
    <3>3. ExitOnlyFromTeardown'
      BY <3>1, <3>2, ExitEnqueue DEF IInv
    <3> QED BY <3>1, <3>2, <3>3, HandlerEnqueue
  <2>2. CASE RequestExit
    <3>1. ExitMessage \in Message
      BY DEF Message, ExitMessage
    <3>2. /\ EnqueueMessage(ExitMessage)
          /\ UNCHANGED <<msg, taken, exit_request>>
          /\ teardown' # "open"
      BY <2>2 DEF RequestExit
    <3>3. ExitOnlyFromTeardown'
      BY <3>1, <3>2, ExitEnqueue DEF IInv
    <3> QED BY <3>1, <3>2, <3>3, HandlerEnqueue
  <2>3. CASE DequeueMessage
    <3>1. ExitOnlyFromTeardown'
      BY <2>3 DEF DequeueMessage, IInv, ExitOnlyFromTeardown
    <3> QED BY <2>3, <3>1, HandlerDequeue
  <2>4. CASE HandleMessage
    <3>1. ExitOnlyFromTeardown'
      BY <2>4 DEF HandleMessage, history, IInv, ExitOnlyFromTeardown
    <3> QED BY <2>4, <3>1, HandlerSwitch
  <2>5. CASE Join
    BY <2>5
    DEF Join, IInv, ExitOnlyFromTeardown, HandlerInv, HandlerEndsOnRequest
  <2>6. CASE TestExit
    BY <2>6
    DEF TestExit, history, queueVars, IInv, ExitOnlyFromTeardown, HandlerInv,
        HandlerEndsOnRequest
  <2>7. CASE Wait \/ SpuriousWakeup
    BY <2>7
    DEF Wait, SpuriousWakeup, history, queueVars, IInv, ExitOnlyFromTeardown,
        HandlerInv, HandlerEndsOnRequest
  <2>8. CASE UNCHANGED vars
    BY <2>8
    DEF vars, IInv, ExitOnlyFromTeardown, HandlerInv, HandlerEndsOnRequest
  <2> QED
    BY <2>1, <2>2, <2>3, <2>4, <2>5, <2>6, <2>7, <2>8
    DEF Next, MessageHandler, Closed
<1> QED BY <1>1, <1>2 DEF IInv

LEMMA IInvCorrect == Spec => []IInv
<1>1. Init => IInv
  <2>1. Init => TypeOK
    BY TypeInit
  <2>2. Init => SlotsAreBacklog
    BY QueueAssumption DEF Init, SlotsAreBacklog, Slot
  <2>3. Init => ExitOnlyFromTeardown
    BY DEF Init, ExitOnlyFromTeardown
  <2>4. Init => HandlerInv /\ HandlerEndsOnRequest
    BY DEF Init, HandlerInv, HandlerEndsOnRequest
  <2> QED BY <2>1, <2>2, <2>3, <2>4 DEF IInv
<1> QED BY <1>1, IInvNext, PTL DEF Spec

\* The handler thread of a HAL ends only after it took the exit request of
\* TeardownHal as its last message, whatever else was queued.
THEOREM EndsOnRequestCorrect == Spec => []HandlerEndsOnRequest
<1>1. IInv => HandlerEndsOnRequest
  BY DEF IInv
<1> QED BY <1>1, IInvCorrect, PTL

------------------------------------------------------------------------------
\* MsgQueue implements Mailbox

LEMMA NoMessageIsNone == NoMessage \notin Message
  BY DEF NoMessage, Message, PostedType

\* Under the mapping, EnqueueMessage posts or does nothing.
LEMMA EnqueuePosts ==
  ASSUME IInv, NEW m \in Message, EnqueueMessage(m),
         UNCHANGED <<msg, taken, exit_request>>
  PROVE  [mailbox!Next]_(mailbox!mailboxVars)
<1>1. CASE HasRoom
  <2>1. Len(accepted) - taken < MAX_QUEUE_SIZE
    BY <1>1, QueueAssumption DEF HasRoom, IInv, TypeOK, SlotsAreBacklog
  <2>2. accepted' = Append(accepted, m)
    BY <1>1 DEF EnqueueMessage
  <2>3. mailbox!Post(m)
    BY <2>1, <2>2 DEF mailbox!Post
  <2> QED BY <2>3 DEF mailbox!Next
<1>2. CASE ~HasRoom
  BY <1>2 DEF EnqueueMessage, mailbox!mailboxVars
<1> QED BY <1>1, <1>2

LEMMA DequeueTakes ==
  ASSUME IInv, DequeueMessage
  PROVE  mailbox!Take
<1>1. /\ handler = "dequeue" /\ msg_count > 0
      /\ msg' = msg_queue[0] /\ taken' = taken + 1
      /\ UNCHANGED <<accepted, exit_request>>
  BY DEF DequeueMessage
<1>2. ~exit_request /\ msg = NoMessage
  BY <1>1 DEF IInv, HandlerInv
<1>3. taken < Len(accepted)
  BY <1>1 DEF IInv, TypeOK, SlotsAreBacklog
<1>4. msg' = accepted[taken + 1]
  <2>1. 0 \in Slot
    BY QueueAssumption DEF Slot
  <2>2. msg_queue[0] = accepted[taken + 0 + 1]
    BY <1>1, <2>1 DEF IInv, SlotsAreBacklog
  <2> QED BY <1>1, <2>2 DEF IInv, TypeOK
<1> QED BY <1>1, <1>2, <1>3, <1>4 DEF mailbox!Take

LEMMA HandleFinishes ==
  ASSUME IInv, HandleMessage
  PROVE  mailbox!Finish
<1>1. handler = "switch" /\ msg' = NoMessage /\ UNCHANGED <<accepted, taken>>
  BY DEF HandleMessage, history
<1>2. msg # NoMessage
  <2>1. msg \in Message
    BY <1>1 DEF IInv, HandlerInv, TypeOK
  <2> QED BY <2>1, NoMessageIsNone
<1>3. ~exit_request
  BY <1>1 DEF IInv, HandlerInv
<1>4. (~exit_request)' = (msg.type # "EXIT_REQUESTED")
  BY <1>3 DEF HandleMessage
<1> QED BY <1>1, <1>2, <1>4 DEF mailbox!Finish

\* The array, its two functions and the handler thread implement a bounded
\* mailbox: what ProcessMsg and TeardownHal put in the queue and finds room
\* reaches the handler once, in order, and nothing does after the exit
\* request, for every size of the queue and every set of payloads.
THEOREM ImplementsMailbox == Spec => MailboxSpec
<1>1. Init => mailbox!Init
  BY DEF Init, mailbox!Init
<1>2. ASSUME IInv, [Next]_vars
      PROVE  [mailbox!Next]_(mailbox!mailboxVars)
  <2>1. ASSUME NEW t \in PostedType, NEW p \in Payloads, ProcessMsg(t, p)
        PROVE  [mailbox!Next]_(mailbox!mailboxVars)
    <3>1. [type |-> t, message |-> p] \in Message
      BY DEF Message
    <3> QED BY <1>2, <2>1, <3>1, EnqueuePosts DEF ProcessMsg
  <2>2. CASE RequestExit
    <3>1. ExitMessage \in Message
      BY DEF Message, ExitMessage
    <3> QED BY <1>2, <2>2, <3>1, EnqueuePosts DEF RequestExit
  <2>3. CASE DequeueMessage
    BY <1>2, <2>3, DequeueTakes DEF mailbox!Next
  <2>4. CASE HandleMessage
    BY <1>2, <2>4, HandleFinishes DEF mailbox!Next
  <2>5. CASE Join \/ TestExit \/ Wait \/ SpuriousWakeup \/ UNCHANGED vars
    BY <2>5
    DEF Join, TestExit, Wait, SpuriousWakeup, history, vars,
        mailbox!mailboxVars
  <2> QED
    BY <1>2, <2>1, <2>2, <2>3, <2>4, <2>5
    DEF Next, MessageHandler, Closed
<1> QED BY <1>1, <1>2, IInvCorrect, PTL DEF Spec, MailboxSpec, mailbox!Spec

==============================================================================
