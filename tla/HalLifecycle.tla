---------------------------- MODULE HalLifecycle ----------------------------
(***************************************************************************)
(* The life of the virtual component and of its HAL (vcHdmiCec.c), seen    *)
(* by the three kinds of thread that touch it:                             *)
(*   - the application's thread, which calls the vcHdmiCec_* and HdmiCec*  *)
(*     functions, one at a time;                                           *)
(*   - the thread of each control plane instance, which calls ProcessMsg;  *)
(*   - the MessageHandler thread of each HAL, which calls the receive      *)
(*     callback of the application.                                        *)
(* Memory is never reused here: a fresh identity stands for each malloc,   *)
(* so a pointer to something freed is recognised when it is followed.      *)
(* The queue of a HAL is the bounded mailbox that MsgQueue implements.     *)
(***************************************************************************)
EXTENDS Naturals, Sequences

CONSTANTS
  Vcs,             \* identities of virtual components; BOUND on Initialize
  Hals,            \* identities of HAL instances; BOUND on HdmiCecOpen
  Cps,             \* identities of control planes; BOUND on Open
  NULL,
  MAX_QUEUE_SIZE,
  MaxPosts,        \* BOUND: messages the control planes receive
  MaxFrames,       \* BOUND: nested calls the stack has room for
  \* How the application and whoever drives the control plane behave.
  InitializeOnce,  \* Initialize is called only when there is no component
  OpenOnce,        \* a component is opened once in its life
  HalClosedFirst,  \* the component is closed only when its HAL is closed
  QuietClose       \* no message is under way while the HAL is being closed

ASSUME LifecycleAssumption ==
  /\ NULL \notin Vcs \cup Hals \cup Cps
  /\ MAX_QUEUE_SIZE \in Nat \ {0}
  /\ MaxPosts \in Nat
  /\ MaxFrames \in Nat \ {0}
  /\ {InitializeOnce, OpenOnce, HalClosedFirst, QuietClose} \subseteq BOOLEAN

VARIABLES
  gvcHdmiCec,   \* the component the global points to
  vcMem,        \* vc -> "unused", "live" or "freed"
  cec_hal,      \* vc -> its HAL
  profile,      \* vc -> its profile has been read
  bOpened,      \* vc -> flag
  cp_instance,  \* vc -> its control plane
  halMem,       \* HAL -> "unused", "live" or "freed"
  state,        \* HAL -> "CLOSED" or "READY"
  backlog,      \* HAL -> the messages in its queue
  handler,      \* HAL -> where its MessageHandler thread is
  cp,           \* control plane -> what its thread is doing, for whom
  posts,        \* messages received so far
  app,          \* where the application's thread is
  fault         \* the first access to memory that is not there

vcVars == <<gvcHdmiCec, vcMem, cec_hal, profile, bOpened, cp_instance>>
halVars == <<halMem, state, backlog, handler>>
cpVars == <<cp, posts>>
vars == <<vcVars, halVars, cpVars, app, fault>>

Memory == {"unused", "live", "freed"}

\* A message remembers the HAL that was ready when ProcessMsg let it in.
Message == [type : {"COMMAND", "STATE", "EXIT_REQUESTED"}, session : Hals]

\* "none" not created, "loop" in the loop, "callback" inside the receive
\* callback, "done" returned
HandlerState == {"none", "loop", "callback", "done"}

\* "none" not created, "idle" between messages, "enqueue" past the check of
\* ProcessMsg, "stopped" after UT_ControlPlane_Exit
CpState == {"none", "idle", "enqueue", "stopped"}

CpRecord == [at : CpState, vc : Vcs \cup {NULL}, type : {"COMMAND", "STATE"},
             session : Hals \cup {NULL}]

Doing(at, vc, type, session) ==
  [at |-> at, vc |-> vc, type |-> type, session |-> session]
NoCp == Doing("none", NULL, "STATE", NULL)

\* The steps inside the calls that take more than one.
Opening == {"publish", "ready"}
Closing == {"exit", "join", "free", "clear"}
VcClosing == {"vcClose", "deinitClose"}
AppState == {"idle", "cpExit", "overflow"} \cup Opening \cup Closing \cup VcClosing

AppRecord == [at : AppState, hal : Hals \cup {NULL}, frames : 0 .. MaxFrames]

Inside(at, hal, frames) == [at |-> at, hal |-> hal, frames |-> frames]
Idle == Inside("idle", NULL, 0)

Init ==
  /\ gvcHdmiCec = NULL
  /\ vcMem = [v \in Vcs |-> "unused"]
  /\ cec_hal = [v \in Vcs |-> NULL]
  /\ profile = [v \in Vcs |-> FALSE]
  /\ bOpened = [v \in Vcs |-> FALSE]
  /\ cp_instance = [v \in Vcs |-> NULL]
  /\ halMem = [h \in Hals |-> "unused"]
  /\ state = [h \in Hals |-> "CLOSED"]
  /\ backlog = [h \in Hals |-> <<>>]
  /\ handler = [h \in Hals |-> "none"]
  /\ cp = [c \in Cps |-> NoCp]
  /\ posts = 0
  /\ app = Idle
  /\ fault = "none"

Calling(at) == app.at = at /\ fault = "none"

\* The HAL the global leads to, if any: what every HdmiCec function tests.
OpenHal == IF gvcHdmiCec = NULL THEN NULL ELSE cec_hal[gvcHdmiCec]

------------------------------------------------------------------------------
\* The component

\* A second call takes the place of the first: the global is overwritten.
vcHdmiCec_Initialize(v) ==
  /\ Calling("idle")
  /\ InitializeOnce => gvcHdmiCec = NULL
  /\ vcMem[v] = "unused"
  /\ vcMem' = [vcMem EXCEPT ![v] = "live"]
  /\ gvcHdmiCec' = v
  /\ UNCHANGED <<cec_hal, profile, bOpened, cp_instance, halVars, cpVars, app,
                 fault>>

\* Any handle but the global one is answered INVALID_HANDLE, an opened
\* component SUCCESS; neither changes anything.  The control plane of an
\* earlier Open is forgotten, not stopped.
vcHdmiCec_Open(v, enableCPMsgs) ==
  /\ Calling("idle")
  /\ v = gvcHdmiCec
  /\ ~bOpened[v]
  /\ OpenOnce => ~profile[v]
  /\ profile' = [profile EXCEPT ![v] = TRUE]
  /\ bOpened' = [bOpened EXCEPT ![v] = TRUE]
  /\ IF enableCPMsgs
     THEN \E c \in Cps :
            /\ cp[c].at = "none"
            /\ cp' = [cp EXCEPT ![c] = Doing("idle", v, "STATE", NULL)]
            /\ cp_instance' = [cp_instance EXCEPT ![v] = c]
     ELSE UNCHANGED <<cp, cp_instance>>
  /\ UNCHANGED <<gvcHdmiCec, vcMem, cec_hal, halVars, posts, app, fault>>

\* Whether vcHdmiCec_Close finds the HAL open.
HalIsOpen(v) == cec_hal[v] # NULL /\ state[cec_hal[v]] # "CLOSED"

\* A component that is not opened is answered NOT_OPENED.
vcHdmiCec_Close(v) ==
  /\ Calling("idle")
  /\ v = gvcHdmiCec
  /\ bOpened[v]
  /\ HalClosedFirst => cec_hal[v] = NULL
  /\ app' = Inside("vcClose", NULL, 1)
  /\ UNCHANGED <<vcVars, halVars, cpVars, fault>>

\* The body of vcHdmiCec_Close.  With the HAL open it calls itself, and
\* nothing has changed when it does: bOpened is cleared only after that.
vcCloseBody ==
  /\ app.at \in VcClosing /\ fault = "none"
  /\ IF HalIsOpen(gvcHdmiCec)
     THEN /\ app' = IF app.frames < MaxFrames
                    THEN Inside(app.at, NULL, app.frames + 1)
                    ELSE Inside("overflow", NULL, app.frames)
          /\ UNCHANGED bOpened
     ELSE /\ bOpened' = [bOpened EXCEPT ![gvcHdmiCec] = FALSE]
          /\ app' = IF app.at = "vcClose" THEN Idle
                    ELSE Inside("cpExit", NULL, 0)
  /\ UNCHANGED <<gvcHdmiCec, vcMem, cec_hal, profile, cp_instance, halVars,
                 cpVars, fault>>

vcHdmiCec_Deinitialize(v) ==
  /\ Calling("idle")
  /\ v = gvcHdmiCec
  /\ HalClosedFirst => cec_hal[v] = NULL
  /\ app' = IF bOpened[v]
            THEN Inside("deinitClose", NULL, 1)
            ELSE Inside("cpExit", NULL, 0)
  /\ UNCHANGED <<vcVars, halVars, cpVars, fault>>

\* UT_ControlPlane_Exit ends the thread between two messages.
StopsCp(c) ==
  /\ cp[c].at = "idle"
  /\ cp' = [cp EXCEPT ![c].at = "stopped"]

\* The component is freed and its HAL, if it has one, is not looked at.
deinitializeEnd ==
  /\ Calling("cpExit")
  /\ IF cp_instance[gvcHdmiCec] # NULL
     THEN StopsCp(cp_instance[gvcHdmiCec])
     ELSE UNCHANGED cp
  /\ vcMem' = [vcMem EXCEPT ![gvcHdmiCec] = "freed"]
  /\ gvcHdmiCec' = NULL
  /\ app' = Idle
  /\ UNCHANGED <<cec_hal, profile, bOpened, cp_instance, halVars, posts, fault>>

------------------------------------------------------------------------------
\* Opening and closing the HAL

\* Mutated form of HdmiCecOpen: an open HAL is replaced.
HdmiCecOpen_Again(h) ==
  /\ Calling("idle")
  /\ gvcHdmiCec # NULL
  /\ profile[gvcHdmiCec]
  /\ halMem[h] = "unused"
  /\ halMem' = [halMem EXCEPT ![h] = "live"]
  /\ handler' = [handler EXCEPT ![h] = "loop"]
  /\ app' = Inside("publish", h, 0)
  /\ UNCHANGED <<vcVars, state, backlog, cpVars, fault>>

\* The structure is filled and the thread started before anybody can see
\* it.  The call is answered NOT_OPENED without a component and ALREADY_OPEN
\* with a HAL.  Whether the component is opened now is not asked, only what
\* its profile holds: the assertions abort the program if that was never read.
HdmiCecOpen(h) ==
  /\ Calling("idle")
  /\ gvcHdmiCec # NULL
  /\ cec_hal[gvcHdmiCec] = NULL
  /\ profile[gvcHdmiCec]
  /\ halMem[h] = "unused"
  /\ halMem' = [halMem EXCEPT ![h] = "live"]
  /\ handler' = [handler EXCEPT ![h] = "loop"]
  /\ app' = Inside("publish", h, 0)
  /\ UNCHANGED <<vcVars, state, backlog, cpVars, fault>>

openPublish ==
  /\ Calling("publish")
  /\ cec_hal' = [cec_hal EXCEPT ![gvcHdmiCec] = app.hal]
  /\ app' = Inside("ready", app.hal, 0)
  /\ UNCHANGED <<gvcHdmiCec, vcMem, profile, bOpened, cp_instance, halVars,
                 cpVars, fault>>

openReady ==
  /\ Calling("ready")
  /\ state' = [state EXCEPT ![app.hal] = "READY"]
  /\ app' = Idle
  /\ UNCHANGED <<vcVars, halMem, backlog, handler, cpVars, fault>>

CpQuiet == \A c \in Cps : cp[c].at # "enqueue"

\* Mutated form of HdmiCecClose: the global is cleared before the teardown.
HdmiCecClose_ClearFirst ==
  /\ Calling("idle")
  /\ OpenHal # NULL
  /\ QuietClose => CpQuiet
  /\ app' = Inside("exit", OpenHal, 0)
  /\ cec_hal' = [cec_hal EXCEPT ![gvcHdmiCec] = NULL]
  /\ UNCHANGED <<gvcHdmiCec, vcMem, profile, bOpened, cp_instance, halVars,
                 cpVars, fault>>

\* Answered NOT_OPENED without a HAL.
HdmiCecClose ==
  /\ Calling("idle")
  /\ OpenHal # NULL
  /\ QuietClose => CpQuiet
  /\ app' = Inside("exit", OpenHal, 0)
  /\ UNCHANGED <<vcVars, halVars, cpVars, fault>>

\* Mutated form of Exit: the type of the message is left as it was reset.
Exit_TypeForgotten(h) == [type |-> "NONE", session |-> h]

Exit(h) == [type |-> "EXIT_REQUESTED", session |-> h]

\* Mutated form of Enqueued: the newest message goes to the front.
Enqueued_Front(queue, m) ==
  IF Len(queue) < MAX_QUEUE_SIZE THEN <<m>> \o queue ELSE queue

\* EnqueueMessage: a message that finds the queue full is dropped.
Enqueued(queue, m) ==
  IF Len(queue) < MAX_QUEUE_SIZE THEN Append(queue, m) ELSE queue

teardownExit ==
  /\ Calling("exit")
  /\ backlog' = [backlog EXCEPT ![app.hal] = Enqueued(@, Exit(app.hal))]
  /\ app' = Inside("join", app.hal, 0)
  /\ UNCHANGED <<vcVars, halMem, state, handler, cpVars, fault>>

\* Mutated form of teardownJoin: the thread is not waited for.
teardownJoin_NoWait ==
  /\ Calling("join")
  /\ app' = Inside("free", app.hal, 0)
  /\ UNCHANGED <<vcVars, halVars, cpVars, fault>>

teardownJoin ==
  /\ Calling("join")
  /\ handler[app.hal] = "done"
  /\ app' = Inside("free", app.hal, 0)
  /\ UNCHANGED <<vcVars, halVars, cpVars, fault>>

teardownFree ==
  /\ Calling("free")
  /\ halMem' = [halMem EXCEPT ![app.hal] = "freed"]
  /\ app' = Inside("clear", app.hal, 0)
  /\ UNCHANGED <<vcVars, state, backlog, handler, cpVars, fault>>

closeClear ==
  /\ Calling("clear")
  /\ cec_hal' = [cec_hal EXCEPT ![gvcHdmiCec] = NULL]
  /\ app' = Idle
  /\ UNCHANGED <<gvcHdmiCec, vcMem, profile, bOpened, cp_instance, halVars,
                 cpVars, fault>>

------------------------------------------------------------------------------
\* The control plane's thread

\* What following vc->cec_hal meets.
Follow(v) ==
  IF vcMem[v] # "live" THEN "freed component"
  ELSE IF cec_hal[v] = NULL THEN "no HAL"
  ELSE IF halMem[cec_hal[v]] # "live" THEN "freed HAL"
  ELSE "none"

\* The check at the top of ProcessMsg.
processCheck(c, t) ==
  /\ fault = "none"
  /\ posts < MaxPosts
  /\ cp[c].at = "idle"
  /\ QuietClose => app.at \notin Closing
  /\ posts' = posts + 1
  /\ LET v == cp[c].vc IN
       CASE Follow(v) = "none" ->
              /\ cp' = IF state[cec_hal[v]] = "READY"
                       THEN [cp EXCEPT ![c] = Doing("enqueue", v, t, cec_hal[v])]
                       ELSE cp
              /\ UNCHANGED fault
         [] Follow(v) = "no HAL" -> UNCHANGED <<cp, fault>>
         [] OTHER -> fault' = Follow(v) /\ UNCHANGED cp
  /\ UNCHANGED <<vcVars, halVars, app>>

\* The rest of ProcessMsg, which reads vc->cec_hal again.
processEnqueue(c) ==
  /\ fault = "none"
  /\ cp[c].at = "enqueue"
  /\ fault' = Follow(cp[c].vc)
  /\ IF fault' = "none"
     THEN backlog' = [backlog EXCEPT ![cec_hal[cp[c].vc]] =
                        Enqueued(@, [type |-> cp[c].type,
                                     session |-> cp[c].session])]
     ELSE UNCHANGED backlog
  /\ cp' = [cp EXCEPT ![c].at = "idle"]
  /\ UNCHANGED <<vcVars, halMem, state, handler, posts, app>>

------------------------------------------------------------------------------
\* The handler thread of a HAL

\* One turn of the loop.  If a callback is set, a command leads into it, and so
\* does AddDevice, a message about the state, which announces the new device.
messageHandler(h) ==
  /\ fault = "none"
  /\ handler[h] = "loop"
  /\ backlog[h] # <<>>
  /\ IF halMem[h] # "live"
     THEN fault' = "freed HAL in handler" /\ UNCHANGED <<backlog, handler>>
     ELSE /\ UNCHANGED fault
          /\ backlog' = [backlog EXCEPT ![h] = Tail(@)]
          /\ IF Head(backlog[h]).type = "EXIT_REQUESTED"
             THEN handler' = [handler EXCEPT ![h] = "done"]
             ELSE \E next \in {"loop", "callback"} :
                    handler' = [handler EXCEPT ![h] = next]
  /\ UNCHANGED <<vcVars, halMem, state, cpVars, app>>

\* The callback returns into a loop that reads the HAL again.  That of the L3
\* suite may have answered with HdmiCecTx before, which follows the global; those
\* of the other suites make no call.
rxCallback(h) ==
  /\ fault = "none"
  /\ handler[h] = "callback"
  /\ handler' = [handler EXCEPT ![h] = "loop"]
  /\ \E transmits \in BOOLEAN :
       fault' = IF \/ halMem[h] # "live"
                   \/ transmits /\ OpenHal # NULL /\ halMem[OpenHal] # "live"
                THEN "freed HAL in handler" ELSE "none"
  /\ UNCHANGED <<vcVars, halMem, state, backlog, cpVars, app>>

------------------------------------------------------------------------------

\* The calls the application may start when it is idle.
AppCall ==
  \/ \E v \in Vcs :
       \/ vcHdmiCec_Initialize(v)
       \/ \E enable \in BOOLEAN : vcHdmiCec_Open(v, enable)
       \/ vcHdmiCec_Close(v)
       \/ vcHdmiCec_Deinitialize(v)
  \/ \E h \in Hals : HdmiCecOpen(h)
  \/ HdmiCecClose

\* The steps of a call that has started.
AppStep ==
  \/ vcCloseBody
  \/ deinitializeEnd
  \/ openPublish
  \/ openReady
  \/ teardownExit
  \/ teardownJoin
  \/ teardownFree
  \/ closeClear

HandlerStep(h) == messageHandler(h) \/ rxCallback(h)

CpStep(c) == processEnqueue(c) \/ \E t \in {"COMMAND", "STATE"} : processCheck(c, t)

Next ==
  \/ AppCall
  \/ AppStep
  \/ \E h \in Hals : HandlerStep(h)
  \/ \E c \in Cps : CpStep(c)

Spec == Init /\ [][Next]_vars

\* Threads that can run do run; nobody is obliged to make a call or to send.
FairSpec ==
  /\ Spec
  /\ WF_vars(AppStep)
  /\ \A h \in Hals : WF_vars(HandlerStep(h))
  /\ \A c \in Cps : WF_vars(processEnqueue(c))

------------------------------------------------------------------------------
\* Properties

\* The types of the variables; no queue is ever longer than its array.
TypeOK ==
  /\ gvcHdmiCec \in Vcs \cup {NULL}
  /\ vcMem \in [Vcs -> Memory]
  /\ cec_hal \in [Vcs -> Hals \cup {NULL}]
  /\ profile \in [Vcs -> BOOLEAN]
  /\ bOpened \in [Vcs -> BOOLEAN]
  /\ cp_instance \in [Vcs -> Cps \cup {NULL}]
  /\ halMem \in [Hals -> Memory]
  /\ state \in [Hals -> {"CLOSED", "READY"}]
  /\ backlog \in [Hals -> Seq(Message)]
  /\ \A h \in Hals : Len(backlog[h]) <= MAX_QUEUE_SIZE
  /\ handler \in [Hals -> HandlerState]
  /\ cp \in [Cps -> CpRecord]
  /\ posts \in 0 .. MaxPosts
  /\ app \in AppRecord
  /\ fault \in {"none", "freed component", "no HAL", "freed HAL",
                "freed HAL in handler"}

\* No thread follows a pointer to a component or a HAL that is not there:
\* ProcessMsg, MessageHandler and the HAL calls of the receive callback only
\* ever meet live memory.
NoFault == fault = "none"

\* While the application is inside its receive callback, the HAL that called
\* it is the open one and is ready, even if HdmiCecClose has been called
\* meanwhile: HdmiCecTx in the callback is never answered NOT_OPENED.
CallbackSeesItsHal ==
  \A h \in Hals :
    handler[h] = "callback" =>
      OpenHal = h /\ halMem[h] = "live" /\ state[h] = "READY"

\* A message is queued in the HAL that was ready when ProcessMsg checked,
\* not in one opened since: no session sees the commands of an earlier one.
MessagesOfThisSession ==
  \A h \in Hals : \A i \in 1 .. Len(backlog[h]) : backlog[h][i].session = h

\* Every component, HAL and control plane that exists can still be reached
\* through the global (or the call under way), so it can still be closed.
NothingLeaked ==
  /\ \A v \in Vcs : vcMem[v] = "live" => gvcHdmiCec = v
  /\ \A h \in Hals : halMem[h] = "live" => h \in {OpenHal, app.hal}
  /\ \A c \in Cps : cp[c].at \in {"idle", "enqueue"} =>
       gvcHdmiCec # NULL /\ cp_instance[gvcHdmiCec] = c

\* The messages of a queue the application is still to be given: the request
\* to end that TeardownHal puts behind them is none.
Unhandled(queue) ==
  IF queue # <<>> /\ queue[Len(queue)].type = "EXIT_REQUESTED"
  THEN SubSeq(queue, 1, Len(queue) - 1)
  ELSE queue

\* The component, the HALs it creates and frees and the three threads are
\* together one session after another.
Service == INSTANCE HalService WITH
  Session <- Hals,
  Nobody <- NULL,
  Capacity <- MAX_QUEUE_SIZE,
  session <- OpenHal,
  inbox <- IF OpenHal = NULL THEN <<>> ELSE Unhandled(backlog[OpenHal]),
  callback <- {h \in Hals : handler[h] = "callback"}

\* A session begins with nothing of an earlier one, its messages are handled
\* one at a time and in order, and HdmiCecClose gives it up only when each
\* message let in is handled and the callback, if one runs, has returned.
ServiceSpec == Service!Spec

\* The exit request is about to be dropped.
ExitDoesNotFit == app.at = "exit" /\ Len(backlog[app.hal]) = MAX_QUEUE_SIZE

\* Every call the application makes returns to it, whatever the handler and
\* the control plane are doing meanwhile, unless a full queue drops the exit
\* request of HdmiCecClose (MsgQueue goes into that).
EveryCallReturns ==
  (app.at \in {"publish", "exit", "cpExit"} \cup VcClosing)
    ~> (app.at = "idle" \/ ExitDoesNotFit)

\* A message accepted by ProcessMsg is taken by the handler even if the HAL
\* is closed right after: the exit request is queued behind it.
BacklogDrains ==
  \A h \in Hals : (backlog[h] # <<>>) ~> (backlog[h] = <<>>)

\* vcHdmiCec_Close closes the component "and the state machine asociated
\* with it" (vcHdmiCec.h): it returns, HAL open or not.
VcCloseReturns == (app.at = "vcClose") ~> (app.at = "idle")
==============================================================================
