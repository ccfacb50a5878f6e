------------------------------- MODULE L3Menu -------------------------------
(***************************************************************************)
(* The program of the tests, run from its menu: the choices of the L3      *)
(* suite (test_l3_hdmi_cec_driver.c), its receive callback, which answers  *)
(* commands on the handler thread of the HAL, the two choices that start   *)
(* and stop the virtual component (test_vcomponent.c), and the tests of    *)
(* the other suites, which open a HAL of their own.  The choices and the   *)
(* callback share the globals of the L3 suite.  An assert() that fails     *)
(* ends the program.                                                       *)
(* A choice is cut where the callback can see what it has done so far.     *)
(***************************************************************************)
EXTENDS HalApi, Sequences

CONSTANTS
  Dests,         \* logical addresses a command can be sent to
  MaxBacklog,    \* BOUND: commands on their way to the callback
  QuietChanges   \* no command is under way while L3 opens a session or adds
                 \* its address

ASSUME MenuAssumption ==
  /\ Dests \subseteq 0 .. 15
  /\ MaxBacklog \in Nat
  /\ QuietChanges \in BOOLEAN

VARIABLES
  hal,
  gHandle,
  gLogicalAddress,
  gPhysicalAddressBytes,  \* whether it points to gPhysicalAddress yet
  at,         \* the menu, or how far the choice has come
  outcome,    \* whether the program still runs, and if not, why
  misused,    \* a choice was made that its description rules out
  handle,     \* the handle of the suite's test
  answer,     \* what the last call of the suite's test was answered
  backlog,    \* the messages for the handler
  handler,    \* where the handler thread is, with the answer it is sending
  sent        \* the last frame L3 sent in its own name

menuVars == <<gHandle, gLogicalAddress, gPhysicalAddressBytes>>
suiteVars == <<handle, answer>>
handlerVars == <<backlog, handler, sent>>
vars == <<hal, menuVars, at, outcome, misused, suiteVars, handlerVars>>

\* What cec_responses.yml and cecCommandTable make of an opcode: an answer to
\* the sender (feature abort, when it lists none), a broadcast, a broadcast
\* with the physical address, or no answer as the opcode is not known.
Reply == {"direct", "broadcast", "address", "none"}

Command == [type : {"COMMAND"}, dest : Dests, reply : Reply]

EXIT == [type |-> "EXIT_REQUESTED", dest |-> 0, reply |-> "none"]

Place == {"menu", "initRx", "initBytes", "initLogical", "addStore",
          "removeStore", "closeJoin", "suite", "suiteJoin"}

Outcome == {"running", "aborted", "menuCrash", "callbackCrash"}

ThreadState == [at : {"none", "loop", "respond", "done"}, to : {"sender", "all"},
                initiator : 0 .. 15]
Thread(where, to, initiator) ==
  [at |-> where, to |-> to, initiator |-> initiator]
NoThread == Thread("none", "sender", 0)
Loop == Thread("loop", "sender", 0)

NoFrame == [initiator |-> UNREGISTERED, device |-> UNREGISTERED]

Init ==
  /\ \E type \in {"SINK", "SOURCE"} : hal = NoHal(type)
  /\ gHandle = 0
  /\ gLogicalAddress = -1
  /\ gPhysicalAddressBytes = FALSE
  /\ at = "menu"
  /\ outcome = "running"
  /\ misused = FALSE
  /\ handle = 0
  /\ answer = "none"
  /\ backlog = <<>>
  /\ handler = NoThread
  /\ sent = NoFrame

Quiet == backlog = <<>> /\ handler.at \in {"none", "loop"}

\* assert(holds), and where the choice goes on.
Asserted(holds, next) ==
  IF holds THEN at' = next /\ UNCHANGED outcome
           ELSE outcome' = "aborted" /\ UNCHANGED at

\* The user makes a choice, which asks for precondition to hold.
Choose(precondition) ==
  /\ outcome = "running"
  /\ at = "menu"
  /\ misused' = ~precondition

\* The choice goes on.
GoOn(place) ==
  /\ outcome = "running"
  /\ at = place
  /\ UNCHANGED misused

\* The addresses the HAL can get when it is opened.
Allocated == IF hal.type = "SINK" THEN {UNREGISTERED} ELSE SourceAddresses

------------------------------------------------------------------------------
\* The component.  It is started when there is none and stopped with the HAL
\* closed: InitializeOnce and HalClosedFirst of HalLifecycle.

start_virtual_component ==
  /\ Choose(TRUE)
  /\ hal.state = "absent"
  /\ hal' = [hal EXCEPT !.state = "closed"]
  /\ UNCHANGED <<menuVars, at, outcome, suiteVars, handlerVars>>

stop_virtual_component ==
  /\ Choose(hal.state = "closed")
  /\ hal.state # "open"
  /\ Asserted(hal.state = "closed", "menu")
  /\ hal' = [hal EXCEPT !.state = "absent"]
  /\ UNCHANGED <<menuVars, suiteVars, handlerVars>>

------------------------------------------------------------------------------
\* The choices of the L3 suite

test_l3_hdmi_cec_hal_Init ==
  /\ Choose(hal.state = "closed")
  /\ \E allocated \in Allocated :
       LET call == HdmiCecOpen(hal, "valid", allocated) IN
         /\ hal' = call.hal
         /\ Asserted(call.status = "SUCCESS", "initRx")
         /\ IF call.status = "SUCCESS"
            THEN gHandle' = 1 /\ handler' = Loop
            ELSE UNCHANGED <<gHandle, handler>>
  /\ UNCHANGED <<gLogicalAddress, gPhysicalAddressBytes, suiteVars, backlog, sent>>

initRx ==
  /\ GoOn("initRx")
  /\ LET call == HdmiCecSetRxCallback(hal, gHandle, "L3") IN
       /\ hal' = call.hal
       /\ Asserted(call.status = "SUCCESS", "initBytes")
  /\ UNCHANGED <<menuVars, suiteVars, handlerVars>>

\* Mutated form of initBytes: only a source, whose address is not 0.0.0.0,
\* gets the pointer to it.
initBytes_SourceOnly ==
  /\ GoOn("initBytes")
  /\ gPhysicalAddressBytes' = (hal.type = "SOURCE" \/ gPhysicalAddressBytes)
  /\ Asserted(HdmiCecGetPhysicalAddress(hal, gHandle, "valid").status = "SUCCESS",
              IF hal.type = "SOURCE" THEN "initLogical" ELSE "menu")
  /\ UNCHANGED <<hal, gHandle, gLogicalAddress, suiteVars, handlerVars>>

initBytes ==
  /\ GoOn("initBytes")
  /\ gPhysicalAddressBytes' = TRUE
  /\ Asserted(HdmiCecGetPhysicalAddress(hal, gHandle, "valid").status = "SUCCESS",
              IF hal.type = "SOURCE" THEN "initLogical" ELSE "menu")
  /\ UNCHANGED <<hal, gHandle, gLogicalAddress, suiteVars, handlerVars>>

\* A source is told its address; the status is not looked at.
initLogical ==
  /\ GoOn("initLogical")
  /\ gLogicalAddress' =
       IF HdmiCecGetLogicalAddress(hal, gHandle, "valid").status = "SUCCESS"
       THEN hal.logical ELSE -1
  /\ at' = "menu"
  /\ UNCHANGED <<hal, gHandle, gPhysicalAddressBytes, outcome, suiteVars,
                 handlerVars>>

\* A source is turned away before anything is called.
test_l3_hdmi_cec_hal_AddLogicalAddress(address) ==
  /\ QuietChanges => Quiet
  /\ Choose(hal.type = "SINK" => hal.state = "open" /\ address = 0)
  /\ IF hal.type = "SOURCE" THEN UNCHANGED <<hal, at, outcome>>
     ELSE LET call == HdmiCecAddLogicalAddress(hal, gHandle, address) IN
            /\ hal' = call.hal
            /\ Asserted(call.status = "SUCCESS", "addStore")
  /\ UNCHANGED <<menuVars, suiteVars, handlerVars>>

\* Mutated form of addStore: the address is compared and not kept.
addStore_Forgets ==
  /\ GoOn("addStore")
  /\ Asserted(HdmiCecGetLogicalAddress(hal, gHandle, "valid").status = "SUCCESS"
                /\ hal.logical = 0, "menu")
  /\ UNCHANGED <<hal, menuVars, suiteVars, handlerVars>>

\* The address is read back, compared and kept.
addStore ==
  /\ GoOn("addStore")
  /\ LET read == HdmiCecGetLogicalAddress(hal, gHandle, "valid").status = "SUCCESS"
                   /\ hal.logical = 0
     IN /\ Asserted(read, "menu")
        /\ gLogicalAddress' = IF read THEN hal.logical ELSE gLogicalAddress
  /\ UNCHANGED <<hal, gHandle, gPhysicalAddressBytes, suiteVars, handlerVars>>

test_l3_hdmi_cec_hal_GetLogicalAddress ==
  /\ Choose(hal.state = "open")
  /\ LET read == HdmiCecGetLogicalAddress(hal, gHandle, "valid").status = "SUCCESS"
     IN /\ Asserted(read, "menu")
        /\ gLogicalAddress' = IF read THEN hal.logical ELSE gLogicalAddress
  /\ UNCHANGED <<hal, gHandle, gPhysicalAddressBytes, suiteVars, handlerVars>>

\* A command whose data the user has given, with the address known here.
test_l3_hdmi_cec_hal_TransmitHdmiCecCommand ==
  /\ Choose(hal.state = "open" /\ MayTransmit(hal))
  /\ LET accepted == gLogicalAddress # -1
                       /\ HdmiCecTx(hal, gHandle, "valid").status = "SUCCESS"
     IN /\ Asserted(accepted, "menu")
        /\ sent' = IF accepted
                   THEN [initiator |-> gLogicalAddress, device |-> hal.logical]
                   ELSE sent
  /\ UNCHANGED <<hal, menuVars, suiteVars, backlog, handler>>

\* The bytes of the address are printed before the status is looked at.
test_l3_hdmi_cec_hal_GetPhysicalAddress ==
  /\ Choose(hal.state = "open")
  /\ IF gPhysicalAddressBytes
     THEN Asserted(HdmiCecGetPhysicalAddress(hal, gHandle, "valid").status
                     = "SUCCESS", "menu")
     ELSE outcome' = "menuCrash" /\ UNCHANGED at
  /\ UNCHANGED <<hal, menuVars, suiteVars, handlerVars>>

\* A source is turned away; a sink removes the address known here.
test_l3_hdmi_cec_hal_RemoveLogicalAddress ==
  /\ Choose(hal.type = "SINK" =>
              hal.state = "open" /\ hal.logical # UNREGISTERED)
  /\ IF hal.type = "SOURCE" THEN UNCHANGED <<hal, at, outcome>>
     ELSE LET call == HdmiCecRemoveLogicalAddress(hal, gHandle, gLogicalAddress)
          IN IF gLogicalAddress = -1
             THEN Asserted(FALSE, "menu") /\ UNCHANGED hal
             ELSE /\ hal' = call.hal
                  /\ Asserted(call.status = "SUCCESS", "removeStore")
  /\ UNCHANGED <<menuVars, suiteVars, handlerVars>>

removeStore ==
  /\ GoOn("removeStore")
  /\ gLogicalAddress' = -1
  /\ at' = "menu"
  /\ UNCHANGED <<hal, gHandle, gPhysicalAddressBytes, outcome, suiteVars,
                 handlerVars>>

\* HdmiCecClose asks the handler to end and waits for it.
test_l3_hdmi_cec_hal_Close ==
  /\ Choose(hal.state = "open")
  /\ LET accepted == HdmiCecClose(hal, gHandle).status = "SUCCESS" IN
       /\ Asserted(accepted, "closeJoin")
       /\ backlog' = IF accepted THEN Append(backlog, EXIT) ELSE backlog
  /\ UNCHANGED <<hal, menuVars, suiteVars, handler, sent>>

\* The address stays in gLogicalAddress.
closeJoin ==
  /\ GoOn("closeJoin")
  /\ handler.at = "done"
  /\ hal' = HdmiCecClose(hal, gHandle).hal
  /\ gHandle' = 0
  /\ handler' = NoThread
  /\ backlog' = <<>>
  /\ at' = "menu"
  /\ UNCHANGED <<gLogicalAddress, gPhysicalAddressBytes, outcome, suiteVars,
                 sent>>

------------------------------------------------------------------------------
\* A test of another suite: it opens a HAL, makes calls with good and bad
\* arguments before, in between and after, and closes the HAL it opened.  Its
\* handle is zero until then, and a test that finds the HAL open ends.

suiteBegin ==
  /\ Choose(TRUE)
  /\ at' = "suite"
  /\ handle' = 0
  /\ answer' = "none"
  /\ UNCHANGED <<hal, menuVars, outcome, handlerVars>>

suiteOpen ==
  /\ GoOn("suite")
  /\ \E place \in Pointer, allocated \in Allocated :
       LET call == HdmiCecOpen(hal, place, allocated) IN
         /\ hal' = call.hal
         /\ answer' = call.status
         /\ IF call.status = "SUCCESS"
            THEN handle' = 1 /\ handler' = Loop
            ELSE UNCHANGED <<handle, handler>>
  /\ UNCHANGED <<menuVars, at, outcome, backlog, sent>>

\* What a test can call between the two, with its handle or with zero.
SuiteCalls ==
  LET some == {0, handle} IN
  {HdmiCecGetPhysicalAddress(hal, h, p) : h \in some, p \in Pointer}
  \cup {HdmiCecGetLogicalAddress(hal, h, p) : h \in some, p \in Pointer}
  \cup {HdmiCecAddLogicalAddress(hal, h, a) : h \in some, a \in {-1, 0, 16}}
  \cup {HdmiCecRemoveLogicalAddress(hal, h, a) : h \in some, a \in {-1, 0, 16}}
  \cup {HdmiCecSetRxCallback(hal, h, r) : h \in some, r \in {"suite", "nobody"}}
  \cup {HdmiCecSetTxCallback(hal, h, p) : h \in some, p \in Pointer}
  \cup {HdmiCecTx(hal, h, p) : h \in some, p \in Pointer}
  \cup {HdmiCecTxAsync(hal, h, p) : h \in some, p \in Pointer}

suiteCall ==
  /\ GoOn("suite")
  /\ \E call \in SuiteCalls :
       /\ hal' = call.hal
       /\ answer' = call.status
  /\ UNCHANGED <<menuVars, at, outcome, handle, handlerVars>>

suiteClose ==
  /\ GoOn("suite")
  /\ \E h \in {0, handle} :
       LET status == HdmiCecClose(hal, h).status IN
         /\ answer' = status
         /\ IF status = "SUCCESS"
            THEN at' = "suiteJoin" /\ backlog' = Append(backlog, EXIT)
            ELSE UNCHANGED <<at, backlog>>
  /\ UNCHANGED <<hal, menuVars, outcome, handle, handler, sent>>

suiteJoin ==
  /\ GoOn("suiteJoin")
  /\ handler.at = "done"
  /\ hal' = HdmiCecClose(hal, 1).hal
  /\ handler' = NoThread
  /\ backlog' = <<>>
  /\ at' = "suite"
  /\ UNCHANGED <<menuVars, outcome, suiteVars, sent>>

suiteEnd ==
  /\ GoOn("suite")
  /\ handle # 0 => hal.state # "open"
  /\ at' = "menu"
  /\ handle' = 0
  /\ answer' = "none"
  /\ UNCHANGED <<hal, menuVars, outcome, handlerVars>>

------------------------------------------------------------------------------
\* The control plane and the handler thread

\* A command comes while the HAL is ready: not while it is being closed, which
\* is QuietClose of HalLifecycle.
Send ==
  /\ outcome = "running"
  /\ hal.state = "open"
  /\ at \notin {"closeJoin", "suiteJoin"}
  /\ QuietChanges => at \notin {"initRx", "initBytes", "initLogical", "addStore"}
  /\ Len(backlog) < MaxBacklog
  /\ \E command \in Command : backlog' = Append(backlog, command)
  /\ UNCHANGED <<hal, menuVars, at, outcome, misused, suiteVars, handler, sent>>

\* Mutated form of Initiator: a broadcast goes out in the name of whom the
\* command was sent to.
Initiator_Addressee(command) == command.dest

\* The upper half of the first byte of the answer.
Initiator(command) ==
  IF command.reply = "direct" THEN command.dest ELSE gLogicalAddress % 16

\* One message, up to the answer in its buffer: getCommandResponse follows
\* gPhysicalAddressBytes, sendResponse reads gLogicalAddress.
MessageHandler ==
  /\ outcome = "running"
  /\ handler.at = "loop"
  /\ backlog # <<>>
  /\ backlog' = Tail(backlog)
  /\ LET message == Head(backlog)
         answered == hal.rx = "L3" /\ message.reply # "none"
     IN CASE message.type = "EXIT_REQUESTED" ->
               handler' = [handler EXCEPT !.at = "done"] /\ UNCHANGED outcome
          [] message.type = "COMMAND" /\ ~answered -> UNCHANGED <<handler, outcome>>
          [] message.type = "COMMAND" /\ answered ->
               IF message.reply = "address" /\ ~gPhysicalAddressBytes
               THEN outcome' = "callbackCrash" /\ UNCHANGED handler
               ELSE /\ handler' = Thread("respond",
                         IF message.reply = "direct" THEN "sender" ELSE "all",
                         Initiator(message))
                    /\ UNCHANGED outcome
  /\ UNCHANGED <<hal, menuVars, at, misused, suiteVars, sent>>

\* The callback transmits its answer and does not look at the status.
sendResponse ==
  /\ outcome = "running"
  /\ handler.at = "respond"
  /\ handler' = Loop
  /\ sent' = IF handler.to = "all" /\ HdmiCecTx(hal, 1, "valid").status = "SUCCESS"
             THEN [initiator |-> handler.initiator, device |-> hal.logical]
             ELSE sent
  /\ UNCHANGED <<hal, menuVars, at, outcome, misused, suiteVars, backlog>>

------------------------------------------------------------------------------

Choice ==
  \/ start_virtual_component
  \/ stop_virtual_component
  \/ test_l3_hdmi_cec_hal_Init
  \/ \E address \in 0 .. 1 : test_l3_hdmi_cec_hal_AddLogicalAddress(address)
  \/ test_l3_hdmi_cec_hal_GetLogicalAddress
  \/ test_l3_hdmi_cec_hal_TransmitHdmiCecCommand
  \/ test_l3_hdmi_cec_hal_GetPhysicalAddress
  \/ test_l3_hdmi_cec_hal_RemoveLogicalAddress
  \/ test_l3_hdmi_cec_hal_Close
  \/ suiteBegin

ChoiceStep ==
  \/ initRx
  \/ initBytes
  \/ initLogical
  \/ addStore
  \/ removeStore
  \/ closeJoin

SuiteStep ==
  \/ suiteOpen
  \/ suiteCall
  \/ suiteClose
  \/ suiteJoin
  \/ suiteEnd

Next ==
  \/ Choice
  \/ ChoiceStep
  \/ SuiteStep
  \/ Send
  \/ MessageHandler
  \/ sendResponse

Spec == Init /\ [][Next]_vars

------------------------------------------------------------------------------
\* Properties

\* The types of the variables; an address the HAL reports is one of CEC.
TypeOK ==
  /\ hal \in Hal
  /\ gHandle \in Handle
  /\ gLogicalAddress \in -1 .. 15
  /\ gPhysicalAddressBytes \in BOOLEAN
  /\ at \in Place
  /\ outcome \in Outcome
  /\ misused \in BOOLEAN
  /\ handle \in Handle
  /\ answer \in Status \cup {"none"}
  /\ backlog \in Seq(Command \cup {EXIT})
  /\ handler \in ThreadState
  /\ sent \in [initiator : 0 .. 15, device : 0 .. 15]

\* Between two choices L3 knows the address of a device that can transmit,
\* whatever session it is, and whatever an earlier one left in
\* gLogicalAddress: what it transmits next carries the right initiator.
KnownAddress ==
  at = "menu" /\ outcome = "running" /\ hal.state = "open" /\ MayTransmit(hal) =>
    gLogicalAddress = hal.logical

\* A frame that L3 sends in its own name, from the menu or as a broadcast of
\* the callback, and that the HAL accepts, has the address of the device as
\* its initiator, although the choices change the two in two steps and the
\* callback reads them in two.
SentAsSelf == sent.initiator = sent.device

\* The callback never follows gPhysicalAddressBytes before it is set.
NoCallbackCrash == outcome # "callbackCrash"

\* An assertion of the L3 suite fails, or a choice crashes, exactly when the
\* choice was made outside its precondition: a choice in its place is never
\* refused, and no value left over in the globals lets a misplaced one pass.
FailsExactlyOnMisuse ==
  /\ outcome \in {"aborted", "menuCrash"} => misused
  /\ at = "menu" /\ misused => outcome # "running"

\* A test of another suite that runs while L3 has a session can do nothing to
\* it: whatever it calls is refused, with the session unharmed.
SuiteKeptOut ==
  at \in {"suite", "suiteJoin"} /\ gHandle # 0 =>
    /\ at = "suite"
    /\ hal.state = "open"
    /\ answer \in {"none", "INVALID_HANDLE", "ALREADY_OPEN"}
=============================================================================
