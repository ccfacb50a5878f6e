------------------------------ MODULE VdHarness ------------------------------
(***************************************************************************)
(* The tests of the virtual device (test_vd_hdmi_cec_driver.c): a test     *)
(* opens the HAL, registers ReceiveCallback, says which command it expects *)
(* and waits on a semaphore until the callback has seen it.  The callback  *)
(* runs on the MessageHandler thread of the HAL and shares three globals   *)
(* with the test and no lock: gExpectedCecCommand, gCommandValidated and   *)
(* the semaphore, which lives as long as the program.                      *)
(* A frame is its opcode and whether its addresses and its parameters are  *)
(* those the validation profile gives for that opcode.                     *)
(* The queue of the HAL has room here: MsgQueue covers what a full one     *)
(* does.                                                                   *)
(***************************************************************************)
EXTENDS Naturals, Sequences, FiniteSets

CONSTANTS
  Commands,        \* opcodes the tests expect, all in gOpCode
  WithParameters,  \* those whose parameter_size is not 0 in the profile
  Unexpected,           \* any other opcode
  CEC_COMMAND_UNKNOWN,
  MaxTests,        \* BOUND: tests that are run
  MaxSends,        \* BOUND: commands sent during one test
  PromptedOnly     \* a command is sent only while a test waits for one

ASSUME HarnessAssumption ==
  /\ WithParameters \subseteq Commands
  /\ Unexpected \notin Commands
  /\ CEC_COMMAND_UNKNOWN \notin Commands \cup {Unexpected}
  /\ MaxTests \in Nat /\ MaxSends \in Nat
  /\ PromptedOnly \in BOOLEAN

VARIABLES
  test,                 \* the test thread: where it is, what it expects
  gExpectedCecCommand,
  gCommandValidated,
  gSemCallbackReceived, \* value of the semaphore
  callbacks,            \* which of the two fields of the HAL have been written
  queue,                \* messages of the HAL of this test
  handler,              \* its MessageHandler thread, inside the callback or not
  fault,                \* a null pointer was followed
  \* What happened in this test, for the properties
  sent,                 \* number of commands sent
  left,                 \* value of the semaphore when the test began
  answers,              \* commands with the opcode of the test it has handled
  heard,                \* those it was done with when the wait ended
  outcome               \* how the wait ended and what the test said

globals == <<gExpectedCecCommand, gCommandValidated, gSemCallbackReceived>>
halVars == <<callbacks, queue, handler>>
history == <<sent, left, answers, heard, outcome>>
vars == <<test, globals, halVars, fault, history>>

Frame == [opcode : Commands \cup {Unexpected}, addresses : BOOLEAN,
          parameters : BOOLEAN, n : 1..MaxSends]

EXIT == [n |-> 0]

\* "none" no thread, "loop" in MessageHandler, the others in ReceiveCallback
HandlerPlace == {"none", "loop", "lookup", "compare", "assign", "parameters",
                 "post"}

TestPlace == {"idle", "register", "expect", "clear", "wait", "check", "close",
              "join"}

\* The handler between two callbacks
Loop == [at |-> "loop", frame |-> EXIT, expected |-> CEC_COMMAND_UNKNOWN]

Init ==
  /\ test = [at |-> "idle", cmd |-> CEC_COMMAND_UNKNOWN, n |-> 0]
  /\ gExpectedCecCommand = CEC_COMMAND_UNKNOWN
  /\ gCommandValidated = CEC_COMMAND_UNKNOWN
  /\ gSemCallbackReceived = 0
  /\ callbacks = {}
  /\ queue = <<>>
  /\ handler = [Loop EXCEPT !.at = "none"]
  /\ fault = "none"
  /\ sent = 0 /\ left = 0 /\ answers = {} /\ heard = {}
  /\ outcome = [wait |-> "none", said |-> "none"]

Go(place) == test' = [test EXCEPT !.at = place]
TestAt(place) == test.at = place /\ fault = "none"

------------------------------------------------------------------------------
\* The test thread: validate_receive_callback_data

\* The HAL is a new one, with no callback and its own thread; the globals are
\* those the last test left.
Begin(cmd) ==
  /\ TestAt("idle")
  /\ test.n < MaxTests
  /\ test' = [at |-> "register", cmd |-> cmd, n |-> test.n + 1]
  /\ callbacks' = {}
  /\ queue' = <<>>
  /\ handler' = Loop
  /\ sent' = 0 /\ answers' = {} /\ heard' = {}
  /\ left' = gSemCallbackReceived
  /\ outcome' = [wait |-> "none", said |-> "none"]
  /\ UNCHANGED <<globals, fault>>

\* Two plain stores, which other threads may see in either order.
HdmiCecSetRxCallback(field) ==
  /\ TestAt("register")
  /\ field \notin callbacks
  /\ callbacks' = callbacks \cup {field}
  /\ IF callbacks' = {"func", "data"} THEN Go("expect") ELSE UNCHANGED test
  /\ UNCHANGED <<globals, queue, handler, fault, history>>

setExpected ==
  /\ TestAt("expect")
  /\ gExpectedCecCommand' = test.cmd
  /\ Go("clear")
  /\ UNCHANGED <<gCommandValidated, gSemCallbackReceived, halVars, fault,
                 history>>

\* Mutated form of clearValidated: the result of the last test stays.
clearValidated_Not ==
  /\ TestAt("clear")
  /\ Go("wait")
  /\ UNCHANGED <<globals, halVars, fault, history>>

clearValidated ==
  /\ TestAt("clear")
  /\ gCommandValidated' = CEC_COMMAND_UNKNOWN
  /\ Go("wait")
  /\ UNCHANGED <<gExpectedCecCommand, gSemCallbackReceived, halVars, fault,
                 history>>

\* Commands the callback has returned from
Done == {f \in answers : f # handler.frame}

\* Mutated form of TimedWaitForCallback: it waits for ever.
TimedWaitForCallback_NoLimit ==
  /\ TestAt("wait")
  /\ gSemCallbackReceived > 0
  /\ gSemCallbackReceived' = gSemCallbackReceived - 1
  /\ outcome' = [outcome EXCEPT !.wait = "posted"]
  /\ heard' = Done
  /\ Go("check")
  /\ UNCHANGED <<gExpectedCecCommand, gCommandValidated, halVars, fault, sent,
                 left, answers>>

\* The semaphore is taken, whoever posted it, or, when it is 0, time may be
\* up.
TimedWaitForCallback ==
  /\ TestAt("wait")
  /\ IF gSemCallbackReceived > 0
     THEN /\ gSemCallbackReceived' = gSemCallbackReceived - 1
          /\ outcome' = [outcome EXCEPT !.wait = "posted"]
     ELSE /\ outcome' = [outcome EXCEPT !.wait = "timeout"]
          /\ UNCHANGED gSemCallbackReceived
  /\ heard' = Done
  /\ Go("check")
  /\ UNCHANGED <<gExpectedCecCommand, gCommandValidated, halVars, fault, sent,
                 left, answers>>

\* UT_FAIL goes on with the test; a timeout has already failed it.
Judge ==
  /\ TestAt("check")
  /\ outcome' = [outcome EXCEPT !.said =
       IF outcome.wait = "posted" /\ gCommandValidated = gExpectedCecCommand
       THEN "passed" ELSE "failed"]
  /\ Go("close")

\* Mutated form of check: nothing is expected any more.
check_Forgets ==
  /\ Judge
  /\ gExpectedCecCommand' = CEC_COMMAND_UNKNOWN
  /\ UNCHANGED <<gCommandValidated, gSemCallbackReceived, halVars, fault, sent,
                 left, answers, heard>>

check ==
  /\ Judge
  /\ UNCHANGED <<globals, halVars, fault, sent, left, answers, heard>>

\* HdmiCecClose asks the handler to end, behind what is in the queue ...
closeRequest ==
  /\ TestAt("close")
  /\ queue' = Append(queue, EXIT)
  /\ Go("join")
  /\ UNCHANGED <<globals, callbacks, handler, fault, history>>

\* ... and waits for it.
closeJoin ==
  /\ TestAt("join")
  /\ handler.at = "none"
  /\ Go("idle")
  /\ UNCHANGED <<globals, halVars, fault, history>>

------------------------------------------------------------------------------
\* Whoever answers the prompt, at the control plane

Send(opcode, addresses, parameters) ==
  /\ test.at \in TestPlace \ {"idle", "join"} /\ fault = "none"
  /\ PromptedOnly => test.at = "wait"
  /\ sent < MaxSends
  /\ sent' = sent + 1
  /\ queue' = Append(queue, [opcode |-> opcode, addresses |-> addresses,
                             parameters |-> parameters, n |-> sent + 1])
  /\ UNCHANGED <<test, globals, callbacks, handler, fault, left, answers, heard,
                 outcome>>

------------------------------------------------------------------------------
\* The handler thread, and ReceiveCallback on it

HandlerAt(place) == handler.at = place /\ fault = "none"

\* A message is taken; a command goes to the callback, if there is one by then.
\* The callback cannot do without its data.
MessageHandler ==
  /\ HandlerAt("loop")
  /\ queue # <<>>
  /\ queue' = Tail(queue)
  /\ IF Head(queue) = EXIT
     THEN /\ handler' = [handler EXCEPT !.at = "none"]
          /\ UNCHANGED fault
     ELSE IF "func" \notin callbacks
     THEN UNCHANGED <<handler, fault>>
     ELSE /\ handler' = [handler EXCEPT !.at = "lookup", !.frame = Head(queue)]
          /\ fault' = IF "data" \in callbacks THEN "none" ELSE "no callback data"
  /\ UNCHANGED <<test, globals, callbacks, history>>

\* The name of the expected command leads to its fields in the profile; there is
\* none for CEC_COMMAND_UNKNOWN.
lookup ==
  /\ HandlerAt("lookup")
  /\ handler' = [handler EXCEPT !.at = "compare",
                                !.expected = gExpectedCecCommand]
  /\ fault' = IF gExpectedCecCommand = CEC_COMMAND_UNKNOWN
              THEN "no command name" ELSE "none"
  /\ UNCHANGED <<test, globals, callbacks, queue, history>>

\* The fields are those of the command looked up, its opcode among them.
FieldsAgree(f) == f.addresses /\ f.opcode = handler.expected

Answer(f) ==
  answers' = IF f.opcode = test.cmd THEN answers \cup {f} ELSE answers

\* Mutated form of compare: another opcode wakes the test too.
compare_AnyOpcode ==
  LET f == handler.frame IN
  /\ HandlerAt("compare")
  /\ handler' = [handler EXCEPT !.at =
       IF gExpectedCecCommand = f.opcode /\ FieldsAgree(f) THEN "assign"
       ELSE "post"]
  /\ Answer(f)
  /\ UNCHANGED <<test, globals, callbacks, queue, fault, sent, left, heard,
                 outcome>>

\* Mutated form of compare: a command that fails does not wake the test.
compare_OnlyGood ==
  LET f == handler.frame IN
  /\ HandlerAt("compare")
  /\ handler' = IF gExpectedCecCommand = f.opcode /\ FieldsAgree(f)
                THEN [handler EXCEPT !.at = "assign"] ELSE Loop
  /\ Answer(f)
  /\ UNCHANGED <<test, globals, callbacks, queue, fault, sent, left, heard,
                 outcome>>

\* Another opcode than the expected one ends the callback; wrong addresses only
\* skip the rest of the comparison.
compare ==
  LET f == handler.frame IN
  /\ HandlerAt("compare")
  /\ handler' = IF gExpectedCecCommand # f.opcode THEN Loop
                ELSE IF FieldsAgree(f) THEN [handler EXCEPT !.at = "assign"]
                ELSE [handler EXCEPT !.at = "post"]
  /\ Answer(f)
  /\ UNCHANGED <<test, globals, callbacks, queue, fault, sent, left, heard,
                 outcome>>

\* gExpectedCecCommand is read again.
assign ==
  /\ HandlerAt("assign")
  /\ gCommandValidated' = gExpectedCecCommand
  /\ handler' = [handler EXCEPT !.at = "parameters"]
  /\ UNCHANGED <<test, gExpectedCecCommand, gSemCallbackReceived, callbacks,
                 queue, fault, history>>

\* What was assigned is taken back if the parameters turn out wrong.
parameters ==
  /\ HandlerAt("parameters")
  /\ gCommandValidated' =
       IF handler.expected \in WithParameters /\ ~handler.frame.parameters
       THEN CEC_COMMAND_UNKNOWN ELSE gCommandValidated
  /\ handler' = [handler EXCEPT !.at = "post"]
  /\ UNCHANGED <<test, gExpectedCecCommand, gSemCallbackReceived, callbacks,
                 queue, fault, history>>

\* Mutated form of Posted: one post on each path and one behind them.
Posted_Twice == gSemCallbackReceived + 2

Posted == gSemCallbackReceived + 1

sem_post ==
  /\ HandlerAt("post")
  /\ gSemCallbackReceived' = Posted
  /\ handler' = Loop
  /\ UNCHANGED <<test, gExpectedCecCommand, gCommandValidated, callbacks, queue,
                 fault, history>>

ReceiveCallback == lookup \/ compare \/ assign \/ parameters \/ sem_post

------------------------------------------------------------------------------
TestThread ==
  \/ \E field \in {"func", "data"} : HdmiCecSetRxCallback(field)
  \/ setExpected \/ clearValidated
  \/ TimedWaitForCallback \/ check
  \/ closeRequest \/ closeJoin

HandlerThread == MessageHandler \/ ReceiveCallback

Next ==
  \/ \E cmd \in Commands : Begin(cmd)
  \/ TestThread
  \/ \E opcode \in Commands \cup {Unexpected} :
       \E addresses \in BOOLEAN, params \in BOOLEAN :
         Send(opcode, addresses, params)
  \/ HandlerThread

\* Both threads run; nobody has to begin a test or to answer one.
Spec == Init /\ [][Next]_vars /\ WF_vars(TestThread) /\ WF_vars(HandlerThread)

------------------------------------------------------------------------------
\* Properties

\* The variables have their types, and no frame is posted for twice: the
\* semaphore never counts more than the commands that were sent.
TypeOK ==
  /\ test \in [at : TestPlace, cmd : Commands \cup {CEC_COMMAND_UNKNOWN},
               n : 0..MaxTests]
  /\ gExpectedCecCommand \in Commands \cup {CEC_COMMAND_UNKNOWN}
  /\ gCommandValidated \in Commands \cup {CEC_COMMAND_UNKNOWN}
  /\ gSemCallbackReceived \in 0..(MaxTests * MaxSends)
  /\ callbacks \subseteq {"func", "data"}
  /\ queue \in Seq(Frame \cup {EXIT})
  /\ handler \in [at : HandlerPlace, frame : Frame \cup {EXIT},
                  expected : Commands \cup {CEC_COMMAND_UNKNOWN}]
  /\ fault \in {"none", "no callback data", "no command name"}
  /\ sent \in 0..MaxSends
  /\ left \in 0..(MaxTests * MaxSends)
  /\ answers \subseteq Frame /\ heard \subseteq Frame
  /\ outcome \in [wait : {"none", "posted", "timeout"},
                  said : {"none", "passed", "failed"}]

\* ReceiveCallback follows no null pointer, although it looks up the name of
\* whatever is expected and uses its data unchecked (lines 189-193): a command
\* still on its way when the wait ends finds both in place.
NoCrash == fault = "none"

AddressesAgree(f) == f.addresses
Exact(f) ==
  AddressesAgree(f) /\ (f.opcode \in WithParameters => f.parameters)

\* A test passes only when a command with its opcode and the right addresses has
\* come during this very test (lines 240, 319-331): no result of an earlier test
\* passes it.
PassedMeansAnswered ==
  outcome.said = "passed" => \E f \in answers : AddressesAgree(f)

\* A test that is woken and fails has either been given a wrong command with
\* its opcode, or woken by what an earlier test left in the semaphore, which is
\* set up once for all tests (lines 236-255, 400).
FailureExplained ==
  outcome.wait = "posted" /\ outcome.said = "failed" =>
    left > 0 \/ \E f \in answers : ~Exact(f)

\* A test times out only if the callback has returned from no command with its
\* opcode, right or wrong: even one that fails signals the test (line 253).
TimeoutMeansSilence == outcome.wait = "timeout" => heard = {}

\* Each test ends, whether or not it is answered and whatever the callback is
\* doing when it closes the HAL (lines 280, 332).
EveryTestEnds == test.at = "register" ~> test.at = "idle"

\* A test passes only when a command with its opcode, its addresses and its
\* parameters has come during this test: gCommandValidated is "Set by receive
\* callback after test validation is successful" (line 105).
PassedMeansValidated ==
  outcome.said = "passed" => \E f \in answers : Exact(f)
=============================================================================
