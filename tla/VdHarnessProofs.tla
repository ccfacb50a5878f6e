--------------------------- MODULE VdHarnessProofs ---------------------------
(***************************************************************************)
(* The safety properties of VdHarness for any commands, any number of      *)
(* tests and any number of answers to each.                                *)
(***************************************************************************)
EXTENDS VdHarness, Integers, TLAPS

Unknown == CEC_COMMAND_UNKNOWN

\* TypeOK without the bounds on the counts of the semaphore.
Typed ==
  /\ test \in [at : TestPlace, cmd : Commands \cup {Unknown}, n : 0..MaxTests]
  /\ gExpectedCecCommand \in Commands \cup {Unknown}
  /\ gCommandValidated \in Commands \cup {Unknown}
  /\ gSemCallbackReceived \in Nat
  /\ callbacks \subseteq {"func", "data"}
  /\ queue \in Seq(Frame \cup {EXIT})
  /\ handler \in [at : HandlerPlace, frame : Frame \cup {EXIT},
                  expected : Commands \cup {Unknown}]
  /\ fault \in {"none", "no callback data", "no command name"}
  /\ sent \in 0..MaxSends
  /\ left \in Nat
  /\ answers \subseteq Frame /\ heard \subseteq Frame
  /\ outcome \in [wait : {"none", "posted", "timeout"},
                  said : {"none", "passed", "failed"}]

InCallback == handler.at \in HandlerPlace \ {"none", "loop"}

\* Inside the callback there is a frame; only a closing test asks the handler to
\* end, which therefore runs as long as the test does.
FramesInv ==
  /\ InCallback => handler.frame \in Frame
  /\ handler.at = "loop" => handler.frame = EXIT
  /\ test.at \notin {"idle", "join"} => queue \in Seq(Frame)
  /\ test.at \notin {"idle", "join"} => handler.at # "none"
  /\ test.at = "idle" => handler.at = "none"
  /\ test.at # "idle" => test.n > 0

\* Commands on their way to the semaphore: those in the queue, without the
\* request to end, and the one in the callback.
Pending ==
  Len(queue) + (IF InCallback THEN 1 ELSE 0)
             - (IF test.at = "join" /\ handler.at # "none" THEN 1 ELSE 0)

\* The most that can have been sent so far.
SentSoFar == IF test.n = 0 THEN 0 ELSE (test.n - 1) * MaxSends + sent

\* A command sent is in one place at a time, and posts once.
PostsInv ==
  /\ gSemCallbackReceived + Pending <= SentSoFar
  /\ left <= MaxTests * MaxSends

\* The request to end stays at the end of the queue until the handler takes it.
RequestInv ==
  test.at = "join" /\ handler.at # "none" =>
    Len(queue) > 0 /\ queue[Len(queue)] = EXIT

\* Where the threads can be when commands are sent only to a waiting test.
FlowInv ==
  /\ test.at \in {"register", "expect", "clear"} =>
       queue = <<>> /\ handler.at = "loop"
  /\ test.at \notin {"idle", "register"} => callbacks = {"func", "data"}
  /\ test.at \notin {"idle", "register", "expect"} =>
       gExpectedCecCommand = test.cmd
  /\ test.at # "idle" => test.cmd \in Commands
  /\ InCallback /\ handler.at # "lookup" => handler.expected = test.cmd
  /\ fault = "none"

Right == \E f \in answers : AddressesAgree(f)
Wrong == \E f \in answers : ~Exact(f)

\* What the answers so far say about gCommandValidated.
AnswersInv ==
  /\ \A f \in answers : f.opcode = test.cmd
  /\ test.at \in {"register", "expect", "clear"} => answers = {}
  /\ handler.at \in {"assign", "parameters"} =>
       handler.frame \in answers /\ AddressesAgree(handler.frame)
  /\ test.at \in {"wait", "check"} /\ gCommandValidated = test.cmd => Right
  /\ handler.at = "parameters" => gCommandValidated = test.cmd
  /\ handler.at = "post" => gCommandValidated = test.cmd \/ Wrong

\* What has woken the test, and what it made of that.
WokenInv ==
  /\ test.at \in {"register", "expect", "clear"} =>
       gSemCallbackReceived = left
  /\ test.at \in {"register", "expect", "clear", "wait"} =>
       outcome.wait = "none" /\ outcome.said = "none"
  /\ test.at = "wait" /\ gSemCallbackReceived > 0 =>
       left > 0 \/ gCommandValidated = test.cmd \/ Wrong
  /\ test.at = "check" /\ outcome.wait = "posted" =>
       left > 0 \/ gCommandValidated = test.cmd \/ Wrong
  /\ test.at = "check" => outcome.said = "none"

\* A test that has not been woken has missed nothing.
SilenceInv == test.at = "wait" /\ gSemCallbackReceived = 0 => Done = {}

LEMMA ExitIsNoFrame == EXIT \notin Frame
  BY HarnessAssumption DEF EXIT, Frame

\* A stuttering step, one variable at a time.
Unchanged ==
  /\ test' = test /\ queue' = queue /\ handler' = handler
  /\ callbacks' = callbacks /\ fault' = fault /\ sent' = sent
  /\ left' = left /\ answers' = answers /\ heard' = heard
  /\ outcome' = outcome /\ gExpectedCecCommand' = gExpectedCecCommand
  /\ gCommandValidated' = gCommandValidated
  /\ gSemCallbackReceived' = gSemCallbackReceived

LEMMA Stutter == UNCHANGED vars => Unchanged
  BY DEF vars, globals, halVars, history, Unchanged

\* What the variables range over, with FramesInv, is inductive.
LEMMA InitTyped == Init => Typed /\ FramesInv
  BY HarnessAssumption
  DEF Init, Typed, FramesInv, InCallback, Unknown, TestPlace, HandlerPlace, Loop

LEMMA TypedStep ==
  ASSUME Typed, FramesInv, [Next]_vars
  PROVE  Typed' /\ FramesInv'
<1> USE HarnessAssumption, ExitIsNoFrame DEF Unknown, TestPlace, HandlerPlace
<1>1. ASSUME NEW cmd \in Commands, Begin(cmd) PROVE Typed' /\ FramesInv'
  BY <1>1 DEF Typed, FramesInv, InCallback, Begin, TestAt, Loop, globals
<1>2. ASSUME NEW field \in {"func", "data"}, HdmiCecSetRxCallback(field)
      PROVE  Typed' /\ FramesInv'
  BY <1>2 DEF Typed, FramesInv, InCallback, HdmiCecSetRxCallback, TestAt, Go,
              globals, history
<1>3. ASSUME setExpected PROVE Typed' /\ FramesInv'
  BY <1>3 DEF Typed, FramesInv, InCallback, setExpected, TestAt, Go, halVars,
              history
<1>4. ASSUME clearValidated PROVE Typed' /\ FramesInv'
  BY <1>4 DEF Typed, FramesInv, InCallback, clearValidated, TestAt, Go, halVars,
              history
<1>5. ASSUME TimedWaitForCallback PROVE Typed' /\ FramesInv'
  BY <1>5 DEF Typed, FramesInv, InCallback, TimedWaitForCallback, TestAt, Go,
              Done, halVars
<1>6. ASSUME check PROVE Typed' /\ FramesInv'
  BY <1>6 DEF Typed, FramesInv, InCallback, check, Judge, TestAt, Go, globals,
              halVars
<1>7. ASSUME closeRequest PROVE Typed' /\ FramesInv'
  <2>1. queue' \in Seq(Frame \cup {EXIT})
    <3> DEFINE S == Frame \cup {EXIT}
    <3>1. queue \in Seq(S) /\ EXIT \in S
      BY DEF Typed
    <3>2. queue' = Append(queue, EXIT)
      BY <1>7 DEF closeRequest
    <3> HIDE DEF S
    <3>3. Append(queue, EXIT) \in Seq(S)
      BY <3>1
    <3> QED BY <3>2, <3>3 DEF S
  <2>2. /\ test' \in [at : TestPlace, cmd : Commands \cup {Unknown},
                      n : 0..MaxTests]
        /\ test'.at = "join" /\ test'.n > 0
    BY <1>7 DEF Typed, FramesInv, closeRequest, TestAt, Go
  <2>3. Typed'
    BY <1>7, <2>1, <2>2 DEF Typed, closeRequest, globals, history
  <2>4. FramesInv'
    BY <1>7, <2>2 DEF FramesInv, InCallback, closeRequest
  <2> QED BY <2>3, <2>4
<1>8. ASSUME closeJoin PROVE Typed' /\ FramesInv'
  BY <1>8 DEF Typed, FramesInv, InCallback, closeJoin, TestAt, Go, globals,
              halVars, history
<1>9. ASSUME NEW opcode \in Commands \cup {Unexpected}, NEW addresses \in BOOLEAN,
             NEW params \in BOOLEAN, Send(opcode, addresses, params)
      PROVE  Typed' /\ FramesInv'
  BY <1>9 DEF Typed, FramesInv, InCallback, Send, Frame, globals
<1>10. ASSUME MessageHandler PROVE Typed' /\ FramesInv'
  <2>1. queue \in Seq(Frame \cup {EXIT}) /\ queue # <<>>
    BY <1>10 DEF Typed, MessageHandler
  <2>2. Head(queue) \in Frame \cup {EXIT} /\ Tail(queue) \in Seq(Frame \cup {EXIT})
    BY <2>1
  <2>3. queue \in Seq(Frame) => Tail(queue) \in Seq(Frame)
    BY <2>1
  <2>4. /\ handler' \in [at : HandlerPlace, frame : Frame \cup {EXIT},
                         expected : Commands \cup {Unknown}]
        /\ InCallback' => handler'.frame \in Frame
    BY <1>10, <2>2 DEF Typed, InCallback, MessageHandler, HandlerAt
  <2>5. fault' \in {"none", "no callback data", "no command name"}
    BY <1>10 DEF MessageHandler, HandlerAt
  <2>6. test.at \notin {"idle", "join"} => handler'.at # "none"
    <3>1. test.at \notin {"idle", "join"} => Head(queue) # EXIT
      BY <2>1 DEF FramesInv
    <3>2. Head(queue) # EXIT => handler'.at # "none"
      BY <1>10 DEF Typed, MessageHandler, HandlerAt
    <3> QED BY <3>1, <3>2
  <2>7. test.at # "idle"
    BY <1>10 DEF FramesInv, MessageHandler, HandlerAt
  <2>8. FramesInv'
    <3>1. test' = test /\ queue' = Tail(queue)
      BY <1>10 DEF MessageHandler
    <3>2. InCallback' => handler'.frame \in Frame
      BY <2>4
    <3>3. test'.at \notin {"idle", "join"} => queue' \in Seq(Frame)
      BY <2>3, <3>1 DEF FramesInv
    <3>4. /\ test'.at \notin {"idle", "join"} => handler'.at # "none"
          /\ test'.at # "idle" /\ test'.n > 0
      BY <2>6, <2>7, <3>1 DEF FramesInv
    <3>5. handler'.at = "loop" => handler'.frame = EXIT
      BY <1>10 DEF Typed, FramesInv, MessageHandler, HandlerAt
    <3> QED BY <3>2, <3>3, <3>4, <3>5, Zenon DEF FramesInv
  <2> QED
    BY <1>10, <2>2, <2>4, <2>5, <2>8 DEF Typed, MessageHandler, globals, history
<1>11. ASSUME lookup PROVE Typed' /\ FramesInv'
  BY <1>11 DEF Typed, FramesInv, InCallback, lookup, HandlerAt, globals, history
<1>12. ASSUME compare PROVE Typed' /\ FramesInv'
  BY <1>12 DEF Typed, FramesInv, InCallback, compare, HandlerAt, Answer, Loop,
               globals
<1>13. ASSUME assign PROVE Typed' /\ FramesInv'
  BY <1>13 DEF Typed, FramesInv, InCallback, assign, HandlerAt, history
<1>14. ASSUME parameters PROVE Typed' /\ FramesInv'
  BY <1>14 DEF Typed, FramesInv, InCallback, parameters, HandlerAt, history
<1>15. ASSUME sem_post PROVE Typed' /\ FramesInv'
  BY <1>15 DEF Typed, FramesInv, InCallback, sem_post, Posted, HandlerAt, Loop,
               history
<1>16. CASE UNCHANGED vars
  <2>1. Unchanged
    BY <1>16, Stutter
  <2>2. Typed'
    <3>1. queue' \in Seq(Frame \cup {EXIT})
      BY <2>1 DEF Unchanged, Typed
    <3>2. handler' \in [at : HandlerPlace, frame : Frame \cup {EXIT},
                        expected : Commands \cup {Unknown}]
      BY <2>1 DEF Unchanged, Typed
    <3>3. test' \in [at : TestPlace, cmd : Commands \cup {Unknown},
                     n : 0..MaxTests]
      BY <2>1 DEF Unchanged, Typed
    <3> QED BY <2>1, <3>1, <3>2, <3>3 DEF Unchanged, Typed
  <2>3. FramesInv'
    BY <2>1, Zenon DEF Unchanged, FramesInv, InCallback
  <2> QED BY <2>2, <2>3
<1> QED
  BY <1>1, <1>2, <1>3, <1>4, <1>5, <1>6, <1>7, <1>8, <1>9, <1>10, <1>11, <1>12,
     <1>13, <1>14, <1>15, <1>16
  DEF Next, TestThread, HandlerThread, ReceiveCallback

------------------------------------------------------------------------------
\* The semaphore never counts more than was sent.

LEMMA Lengths ==
  ASSUME Typed
  PROVE  /\ Len(queue) \in Nat
         /\ queue # <<>> => Len(queue) > 0 /\ Len(Tail(queue)) = Len(queue) - 1
         /\ \A m \in Frame \cup {EXIT} :
              LET longer == Append(queue, m) IN
              /\ Len(longer) = Len(queue) + 1
              /\ longer[Len(longer)] = m
         /\ Len(queue) > 1 => Tail(queue)[Len(Tail(queue))] = queue[Len(queue)]
<1> DEFINE S == Frame \cup {EXIT}
<1>1. queue \in Seq(S)
  BY DEF Typed
<1> HIDE DEF S
<1>2. /\ Len(queue) \in Nat
      /\ queue # <<>> => Len(queue) > 0 /\ Len(Tail(queue)) = Len(queue) - 1
      /\ Len(queue) > 1 => Tail(queue)[Len(Tail(queue))] = queue[Len(queue)]
  BY <1>1
<1>3. ASSUME NEW m \in S
      PROVE  /\ Len(Append(queue, m)) = Len(queue) + 1
             /\ Append(queue, m)[Len(Append(queue, m))] = m
  BY <1>1
<1> QED BY <1>2, <1>3 DEF S

\* What an action that moves the test thread leaves of it.
LEMMA Moves ==
  ASSUME Typed, NEW place \in TestPlace, Go(place)
  PROVE  test'.at = place /\ test'.n = test.n /\ test'.cmd = test.cmd
  BY DEF Typed, Go

LEMMA Times ==
  ASSUME NEW a \in Nat, NEW b \in Nat, NEW m \in Nat, NEW r \in 0..m, a < b
  PROVE  a * m + r \in Nat /\ a * m + r <= b * m
<1>1. b = a + 1 + (b - a - 1) /\ b - a - 1 \in Nat
  OBVIOUS
<1>2. b * m = a * m + m + (b - a - 1) * m
  BY <1>1
<1>3. (b - a - 1) * m >= 0 /\ a * m >= 0
  BY <1>1
<1> QED BY <1>2, <1>3

LEMMA Capacity ==
  ASSUME Typed
  PROVE  /\ SentSoFar \in Nat
         /\ SentSoFar <= test.n * MaxSends
         /\ SentSoFar <= MaxTests * MaxSends
<1>1. CASE test.n = 0
  BY <1>1, HarnessAssumption DEF SentSoFar
<1>2. CASE test.n # 0
  <2> DEFINE k == test.n - 1
  <2>1. /\ k \in Nat /\ MaxTests \in Nat /\ k < MaxTests
        /\ test.n \in Nat /\ k < test.n
    <3>1. test.n \in 0..MaxTests
      BY DEF Typed
    <3> QED BY <1>2, <3>1, HarnessAssumption
  <2>2. MaxSends \in Nat /\ sent \in 0..MaxSends
    BY HarnessAssumption DEF Typed
  <2>3. SentSoFar = k * MaxSends + sent
    BY <1>2 DEF SentSoFar
  <2> HIDE DEF k
  <2>4. /\ k * MaxSends + sent \in Nat
        /\ k * MaxSends + sent <= test.n * MaxSends
        /\ k * MaxSends + sent <= MaxTests * MaxSends
    BY <2>1, <2>2, Times
  <2> QED BY <2>3, <2>4
<1> QED BY <1>1, <1>2

LEMMA EndOnlyWhenAsked ==
  ASSUME Typed, FramesInv, MessageHandler
  PROVE  test.at # "join" => Head(queue) \in Frame /\ Head(queue) # EXIT
<1>1. test.at # "idle" /\ queue # <<>>
  BY DEF FramesInv, MessageHandler, HandlerAt
<1>2. test.at # "join" => queue \in Seq(Frame)
  BY <1>1 DEF FramesInv
<1>3. test.at # "join" => Head(queue) \in Frame
  BY <1>1, <1>2
<1> QED BY <1>3, ExitIsNoFrame

LEMMA Room ==
  ASSUME NEW s0 \in Int, NEW p0 \in Int, NEW s1 \in Int, NEW p1 \in Int,
         NEW room \in Int, s0 + p0 <= room, s1 + p1 <= s0 + p0
  PROVE  s1 + p1 <= room
  OBVIOUS

LEMMA Shift ==
  ASSUME NEW s0 \in Int, NEW p0 \in Int, NEW p1 \in Int, p1 <= p0
  PROVE  s0 + p1 <= s0 + p0
  OBVIOUS

LEMMA PostsStep ==
  ASSUME Typed, FramesInv, PostsInv, [Next]_vars
  PROVE  PostsInv'
<1> USE HarnessAssumption
<1>a. /\ test.n \in 0..MaxTests /\ sent \in 0..MaxSends /\ left \in Nat
      /\ gSemCallbackReceived \in Nat /\ Len(queue) \in Nat
  <2>1. Len(queue) \in Nat
    BY Lengths
  <2>2. test.n \in 0..MaxTests /\ sent \in 0..MaxSends
    BY DEF Typed
  <2> QED BY <2>1, <2>2 DEF Typed
<1>b. SentSoFar \in Nat /\ SentSoFar <= test.n * MaxSends
      /\ SentSoFar <= MaxTests * MaxSends
  BY Capacity
\* The cases below change the four terms, never the products.
<1>c. ASSUME test' = test, sent' = sent, left' = left, Pending \in Int,
             Pending' \in Int, gSemCallbackReceived' \in Nat,
             gSemCallbackReceived' + Pending' <= gSemCallbackReceived + Pending
      PROVE  PostsInv'
  <2>1. SentSoFar' = SentSoFar
    BY <1>c DEF SentSoFar
  <2>2. gSemCallbackReceived' + Pending' <= SentSoFar
    <3>1. gSemCallbackReceived + Pending <= SentSoFar
      BY DEF PostsInv
    <3>2. SentSoFar \in Int
      BY <1>b
    <3>3. gSemCallbackReceived \in Int /\ gSemCallbackReceived' \in Int
      BY <1>a, <1>c
    <3> QED BY <1>c, <3>1, <3>2, <3>3, Room, Zenon
  <2> QED BY <1>c, <2>1, <2>2 DEF PostsInv
<1>1. ASSUME NEW cmd \in Commands, Begin(cmd) PROVE PostsInv'
  <2>1. gSemCallbackReceived <= SentSoFar
    BY <1>1, <1>a, <1>b
    DEF FramesInv, PostsInv, Pending, InCallback, Begin, TestAt, HandlerPlace
  <2>2. Pending' = 0
    BY <1>1 DEF Pending, InCallback, Begin, Loop
  <2>3. SentSoFar' = test.n * MaxSends
    BY <1>1, <1>a DEF SentSoFar, Begin
  <2> QED
    BY <1>1, <1>a, <1>b, <2>1, <2>2, <2>3 DEF PostsInv, Begin, globals
<1>2. ASSUME NEW field \in {"func", "data"}, HdmiCecSetRxCallback(field)
      PROVE  PostsInv'
  BY <1>2, <1>a, <1>b
  DEF Typed, PostsInv, Pending, SentSoFar, InCallback, HdmiCecSetRxCallback,
      TestAt, Go, globals, history
<1>3. CASE setExpected \/ clearValidated
  BY <1>3, <1>a, <1>b
  DEF Typed, PostsInv, Pending, SentSoFar, InCallback, setExpected,
      clearValidated, TestAt, Go, halVars, history
<1>4. CASE TimedWaitForCallback
  BY <1>4, <1>a, <1>b
  DEF Typed, PostsInv, Pending, SentSoFar, InCallback, TimedWaitForCallback,
      TestAt, Go, halVars
<1>5. CASE check
  BY <1>5, <1>a, <1>b
  DEF Typed, PostsInv, Pending, SentSoFar, InCallback, check, Judge, TestAt, Go,
      globals, halVars
<1>6. CASE closeRequest
  <2>1. Len(queue') = Len(queue) + 1
    BY <1>6, Lengths DEF closeRequest
  <2>2. handler.at # "none"
    BY <1>6 DEF FramesInv, closeRequest, TestAt
  <2> QED
    BY <1>6, <1>a, <1>b, <2>1, <2>2
    DEF Typed, PostsInv, Pending, SentSoFar, InCallback, closeRequest, TestAt,
        Go, globals, history
<1>7. CASE closeJoin
  BY <1>7, <1>a, <1>b
  DEF Typed, PostsInv, Pending, SentSoFar, InCallback, closeJoin, TestAt, Go,
      globals, halVars, history
<1>8. ASSUME NEW opcode \in Commands \cup {Unexpected}, NEW addresses \in BOOLEAN,
             NEW params \in BOOLEAN, Send(opcode, addresses, params)
      PROVE  PostsInv'
  <2>1. Len(queue') = Len(queue) + 1
    <3> DEFINE f == [opcode |-> opcode, addresses |-> addresses,
                     parameters |-> params, n |-> sent + 1]
    <3>1. f \in Frame /\ queue' = Append(queue, f)
      BY <1>8, <1>a DEF Send, Frame
    <3> QED BY <3>1, Lengths
  <2>2. test' = test /\ test.n # 0 /\ sent' = sent + 1
    BY <1>8, <1>a DEF FramesInv, Send
  <2>3. SentSoFar' = SentSoFar + 1
    <3> DEFINE earlier == (test.n - 1) * MaxSends
    <3>1. earlier \in Int
      BY <1>a
    <3>2. SentSoFar = earlier + sent /\ SentSoFar' = earlier + (sent + 1)
      BY <2>2 DEF SentSoFar
    <3> HIDE DEF earlier
    <3> QED BY <1>a, <3>1, <3>2
  <2> QED
    BY <1>8, <1>a, <1>b, <2>1, <2>2, <2>3
    DEF PostsInv, Pending, InCallback, Send, globals
<1>9. CASE MessageHandler
  <2>1. Len(queue') = Len(queue) - 1 /\ Len(queue) > 0
    BY <1>9, Lengths DEF MessageHandler
  <2>2. test.at # "join" => Head(queue) # EXIT
    BY <1>9, EndOnlyWhenAsked
  <2>3. /\ handler.at = "loop" /\ test' = test /\ sent' = sent /\ left' = left
        /\ gSemCallbackReceived' = gSemCallbackReceived
    BY <1>9 DEF MessageHandler, HandlerAt, globals, history
  <2>4. /\ handler'.at \in {"none", "loop", "lookup"}
        /\ handler'.at = "none" <=> Head(queue) = EXIT
    BY <1>9 DEF Typed, MessageHandler, HandlerAt
  <2>5. Pending' <= Pending /\ Pending \in Int /\ Pending' \in Int
    <3>1. CASE test.at = "join"
      BY <1>a, <2>1, <2>3, <2>4, <3>1 DEF Pending, InCallback, HandlerPlace
    <3>2. CASE test.at # "join"
      BY <1>a, <2>1, <2>2, <2>3, <2>4, <3>2 DEF Pending, InCallback, HandlerPlace
    <3> QED BY <3>1, <3>2
  <2>6. /\ gSemCallbackReceived' \in Nat
        /\ gSemCallbackReceived' + Pending' <= gSemCallbackReceived + Pending
    <3>1. gSemCallbackReceived \in Int
      BY <1>a
    <3> QED BY <1>a, <2>3, <2>5, <3>1, Shift, Zenon
  <2> QED BY <1>c, <2>3, <2>5, <2>6
<1>10. CASE lookup \/ compare \/ assign \/ parameters
  <2>1. /\ queue' = queue /\ test' = test /\ left' = left /\ sent' = sent
        /\ gSemCallbackReceived' = gSemCallbackReceived
    BY <1>10
    DEF lookup, compare, assign, parameters, globals, history
  <2>2. handler.at \in HandlerPlace \ {"none", "loop"}
    BY <1>10
    DEF lookup, compare, assign, parameters, HandlerAt, HandlerPlace
  <2>3. handler'.at \in HandlerPlace \ {"none"}
    <3>1. CASE lookup \/ assign \/ parameters
      BY <1>10, <3>1 DEF Typed, lookup, assign, parameters, HandlerPlace
    <3>2. CASE compare
      BY <3>2 DEF Typed, compare, Loop, HandlerPlace
    <3> QED BY <1>10, <3>1, <3>2
  <2>4. Pending' <= Pending /\ Pending \in Int /\ Pending' \in Int
    <3>1. test.at = "join" => handler'.at # "none" /\ handler.at # "none"
      BY <2>2, <2>3
    <3>2. InCallback
      BY <2>2 DEF InCallback
    <3>3. CASE test.at = "join"
      BY <1>a, <2>1, <3>1, <3>2, <3>3 DEF Pending
    <3>4. CASE test.at # "join"
      BY <1>a, <2>1, <3>2, <3>4 DEF Pending
    <3> QED BY <3>3, <3>4
  <2>5. /\ gSemCallbackReceived' \in Nat
        /\ gSemCallbackReceived' + Pending' <= gSemCallbackReceived + Pending
    <3>1. gSemCallbackReceived \in Int
      BY <1>a
    <3> QED BY <1>a, <2>1, <2>4, <3>1, Shift, Zenon
  <2> QED BY <1>c, <2>1, <2>4, <2>5
<1>11. CASE sem_post
  BY <1>11, <1>a, <1>b
  DEF Typed, PostsInv, Pending, SentSoFar, InCallback, sem_post, Posted, Loop,
      HandlerAt, HandlerPlace, history
<1>12. CASE UNCHANGED vars
  BY <1>12, Stutter
  DEF Unchanged, PostsInv, Pending, SentSoFar, InCallback
<1> QED
  BY <1>1, <1>2, <1>3, <1>4, <1>5, <1>6, <1>7, <1>8, <1>9, <1>10, <1>11, <1>12
  DEF Next, TestThread, HandlerThread, ReceiveCallback

LEMMA RequestStep ==
  ASSUME Typed, FramesInv, RequestInv, [Next]_vars
  PROVE  RequestInv'
<1>1. CASE closeRequest
  BY <1>1, Lengths DEF RequestInv, closeRequest
<1>2. CASE MessageHandler
  <2> SUFFICES ASSUME test.at = "join", Head(queue) # EXIT PROVE RequestInv'
    BY <1>2 DEF Typed, RequestInv, MessageHandler
  <2>1. Len(queue) > 0 /\ queue[Len(queue)] = EXIT
    BY <1>2 DEF RequestInv, MessageHandler, HandlerAt
  <2>2. Len(queue) # 1
    <3>1. queue \in Seq(Frame \cup {EXIT}) /\ queue # <<>>
      BY <1>2 DEF Typed, MessageHandler
    <3>2. Head(queue) = queue[1]
      BY <3>1
    <3> QED BY <2>1, <3>2
  <2>3. Tail(queue)[Len(Tail(queue))] = EXIT /\ Len(Tail(queue)) > 0
    <3>1. Len(queue) \in Nat /\ queue # <<>>
      BY <1>2, Lengths DEF MessageHandler
    <3>2. Len(queue) > 1
      BY <2>1, <2>2, <3>1
    <3> QED BY <2>1, <3>1, <3>2, Lengths
  <2> QED BY <1>2, <2>3 DEF RequestInv, MessageHandler
<1>3. CASE ReceiveCallback
  <2>1. queue' = queue /\ test' = test /\ handler.at # "none"
    BY <1>3
    DEF ReceiveCallback, lookup, compare, assign, parameters, sem_post,
        HandlerAt, globals, history
  <2> QED BY <2>1, Zenon DEF RequestInv
<1>4. CASE UNCHANGED vars
  BY <1>4, Stutter DEF Unchanged, RequestInv
<1>5. ASSUME test'.at # "join" PROVE RequestInv'
  BY <1>5 DEF RequestInv
<1>6. ASSUME NEW cmd \in Commands, Begin(cmd) PROVE test'.at # "join"
  BY <1>6 DEF Begin
<1>7. ASSUME NEW field \in {"func", "data"}, HdmiCecSetRxCallback(field)
      PROVE  test'.at # "join"
  BY <1>7, Moves DEF HdmiCecSetRxCallback, TestAt, TestPlace
<1>8. CASE \/ setExpected \/ clearValidated \/ TimedWaitForCallback \/ check
           \/ closeJoin
  BY <1>8, <1>5, Moves
  DEF setExpected, clearValidated, TimedWaitForCallback, check, Judge, closeJoin,
      TestPlace
<1>9. ASSUME NEW opcode \in Commands \cup {Unexpected}, NEW addresses \in BOOLEAN,
             NEW params \in BOOLEAN, Send(opcode, addresses, params)
      PROVE  test'.at # "join"
  BY <1>9 DEF Send
<1> QED
  BY <1>1, <1>2, <1>3, <1>4, <1>5, <1>6, <1>7, <1>8, <1>9
  DEF Next, TestThread, HandlerThread

\* The variables have their types and the semaphore never counts more than
\* MaxTests * MaxSends, however the tests and the answers come: nothing is
\* posted for twice, in the callback or across tests.
THEOREM TypeCorrect == Spec => []TypeOK
<1> DEFINE TInv == Typed /\ FramesInv /\ PostsInv /\ RequestInv
<1>1. Init => TInv
  <2> SUFFICES ASSUME Init PROVE PostsInv /\ RequestInv
    BY InitTyped
  <2>1. MaxTests * MaxSends >= 0
    BY HarnessAssumption
  <2> QED
    BY <2>1 DEF Init, PostsInv, RequestInv, Pending, SentSoFar, InCallback,
                HandlerPlace, Loop
<1>2. TInv /\ [Next]_vars => TInv'
  BY TypedStep, PostsStep, RequestStep
<1>3. TInv => TypeOK
  <2> SUFFICES ASSUME TInv PROVE TypeOK
    OBVIOUS
  <2>1. Len(queue) \in Nat /\ gSemCallbackReceived \in Nat /\ left \in Nat
    BY Lengths DEF Typed
  <2>2. Pending >= 0 /\ Pending \in Int
    BY <2>1 DEF Pending, RequestInv
  <2>3. MaxTests * MaxSends \in Nat
    BY HarnessAssumption
  <2>4. /\ gSemCallbackReceived \in 0..(MaxTests * MaxSends)
        /\ left \in 0..(MaxTests * MaxSends)
    BY <2>1, <2>2, <2>3, Capacity DEF PostsInv
  <2> QED
    BY <2>4 DEF Typed, TypeOK, Unknown
<1> QED BY <1>1, <1>2, <1>3, PTL DEF Spec

------------------------------------------------------------------------------
\* Commands sent only to a waiting test meet a test that is ready for them.

Records ==
  /\ test \in [at : TestPlace, cmd : Commands \cup {Unknown}, n : 0..MaxTests]
  /\ handler \in [at : HandlerPlace, frame : Frame \cup {EXIT},
                  expected : Commands \cup {Unknown}]
  /\ outcome \in [wait : {"none", "posted", "timeout"},
                  said : {"none", "passed", "failed"}]

LEMMA TypedRecords == Typed => Records
  BY DEF Typed, Records

LEMMA HandlerRuns ==
  ASSUME FramesInv, FlowInv, Records, HandlerThread
  PROVE  /\ test.at \in {"wait", "check", "close", "join"}
         /\ test' = test /\ callbacks' = callbacks
         /\ gExpectedCecCommand' = gExpectedCecCommand
         /\ left' = left /\ heard' = heard /\ outcome' = outcome
<1>1. test.at \notin {"idle", "register", "expect", "clear"}
  BY DEF FramesInv, FlowInv, HandlerThread, MessageHandler, ReceiveCallback,
         lookup, compare, assign, parameters, sem_post, HandlerAt
<1>2. test.at \in TestPlace
  BY DEF Records
<1>3. /\ test' = test /\ callbacks' = callbacks
      /\ gExpectedCecCommand' = gExpectedCecCommand
      /\ left' = left /\ heard' = heard /\ outcome' = outcome
  BY DEF HandlerThread, MessageHandler, ReceiveCallback, lookup, compare, assign,
         parameters, sem_post, globals, history
<1> QED BY <1>1, <1>2, <1>3 DEF TestPlace

\* What a step of the handler makes of its own state.
LEMMA HandlerMoves ==
  ASSUME Records
  PROVE  /\ MessageHandler =>
              /\ handler'.at \in {"none", "loop", "lookup"}
              /\ handler'.at = "lookup" => "func" \in callbacks
         /\ lookup => /\ handler'.at = "compare" /\ handler'.frame = handler.frame
                      /\ handler'.expected = gExpectedCecCommand
         /\ compare =>
              /\ handler'.at \in {"loop", "assign", "post"}
              /\ handler'.at # "loop" =>
                   /\ handler'.frame = handler.frame
                   /\ handler'.expected = handler.expected
         /\ assign => /\ handler'.at = "parameters"
                      /\ handler'.frame = handler.frame
                      /\ handler'.expected = handler.expected
         /\ parameters => /\ handler'.at = "post" /\ handler'.frame = handler.frame
                          /\ handler'.expected = handler.expected
         /\ sem_post => handler'.at = "loop"
<1>1. ASSUME MessageHandler
      PROVE  /\ handler'.at \in {"none", "loop", "lookup"}
             /\ handler'.at = "lookup" => "func" \in callbacks
  BY <1>1 DEF Records, MessageHandler, HandlerAt
<1>2. ASSUME lookup
      PROVE  /\ handler'.at = "compare" /\ handler'.frame = handler.frame
             /\ handler'.expected = gExpectedCecCommand
  BY <1>2 DEF Records, lookup
<1>3. ASSUME compare
      PROVE  /\ handler'.at \in {"loop", "assign", "post"}
             /\ handler'.at # "loop" => /\ handler'.frame = handler.frame
                                       /\ handler'.expected = handler.expected
  BY <1>3 DEF Records, compare, Loop
<1>4. ASSUME assign
      PROVE  /\ handler'.at = "parameters" /\ handler'.frame = handler.frame
             /\ handler'.expected = handler.expected
  BY <1>4 DEF Records, assign
<1>5. ASSUME parameters
      PROVE  /\ handler'.at = "post" /\ handler'.frame = handler.frame
             /\ handler'.expected = handler.expected
  BY <1>5 DEF Records, parameters
<1>6. ASSUME sem_post PROVE handler'.at = "loop"
  BY <1>6 DEF sem_post, Loop
<1> QED BY <1>1, <1>2, <1>3, <1>4, <1>5, <1>6

LEMMA FlowStep ==
  ASSUME PromptedOnly, Typed, FramesInv, FlowInv, [Next]_vars
  PROVE  FlowInv'
<1> USE HarnessAssumption DEF Unknown, InCallback, HandlerPlace
<1>a. Records
  BY TypedRecords
<1>1. ASSUME NEW cmd \in Commands, Begin(cmd) PROVE FlowInv'
  BY <1>1 DEF FlowInv, Begin, TestAt, Loop
<1>2. ASSUME NEW field \in {"func", "data"}, HdmiCecSetRxCallback(field)
      PROVE  FlowInv'
  BY <1>2, <1>a, Moves
  DEF Records, FlowInv, HdmiCecSetRxCallback, TestAt, TestPlace, globals
<1>3. CASE setExpected
  BY <1>3, <1>a, Moves DEF Records, FlowInv, setExpected, TestAt, TestPlace, halVars
<1>4. CASE clearValidated
  BY <1>4, <1>a, Moves
  DEF Records, FlowInv, clearValidated, TestAt, TestPlace, halVars
<1>5. CASE TimedWaitForCallback
  BY <1>5, <1>a, Moves
  DEF Records, FlowInv, TimedWaitForCallback, TestAt, TestPlace, halVars
<1>6. CASE check
  BY <1>6, <1>a, Moves
  DEF Records, FlowInv, check, Judge, TestAt, TestPlace, halVars, globals
<1>7. CASE closeRequest
  BY <1>7, <1>a, Moves
  DEF Records, FlowInv, closeRequest, TestAt, TestPlace, globals
<1>8. CASE closeJoin
  BY <1>8, <1>a, Moves
  DEF Records, FlowInv, closeJoin, TestAt, TestPlace, globals, halVars
<1>9. ASSUME NEW opcode \in Commands \cup {Unexpected}, NEW addresses \in BOOLEAN,
             NEW params \in BOOLEAN, Send(opcode, addresses, params)
      PROVE  FlowInv'
  BY <1>9 DEF FlowInv, Send, globals
<1>10. CASE HandlerThread
  <2>1. /\ test.at \in {"wait", "check", "close", "join"} /\ test' = test
        /\ callbacks' = callbacks /\ gExpectedCecCommand' = gExpectedCecCommand
    BY <1>10, <1>a, HandlerRuns
  <2>2. callbacks = {"func", "data"} /\ gExpectedCecCommand = test.cmd
        /\ test.cmd \in Commands
    BY <2>1 DEF FlowInv
  <2>3. fault' = "none"
    BY <1>10, <2>2
    DEF FlowInv, HandlerThread, MessageHandler, ReceiveCallback, lookup, compare,
        assign, parameters, sem_post, HandlerAt
  <2>4. /\ handler'.at \in {"compare", "assign", "parameters", "post"}
        => handler'.expected = test.cmd
    BY <1>10, <1>a, <2>2, HandlerMoves
    DEF FlowInv, HandlerThread, ReceiveCallback, lookup, compare, assign,
        parameters, sem_post, HandlerAt
  <2> QED BY <2>1, <2>2, <2>3, <2>4 DEF FlowInv
<1>11. CASE UNCHANGED vars
  BY <1>11, Stutter DEF Unchanged, FlowInv
<1> QED
  BY <1>1, <1>2, <1>3, <1>4, <1>5, <1>6, <1>7, <1>8, <1>9, <1>10, <1>11
  DEF Next, TestThread

\* The callback never follows a null pointer, if commands come only when a test
\* waits for one: it finds the data registered and a command expected.
THEOREM NoCrashCorrect == PromptedOnly => (Spec => []NoCrash)
<1> SUFFICES ASSUME PromptedOnly PROVE Spec => []NoCrash
  OBVIOUS
<1> DEFINE NInv == Typed /\ FramesInv /\ FlowInv
<1>1. Init => NInv
  BY InitTyped DEF Init, FlowInv, InCallback, HandlerPlace, Loop
<1>2. NInv /\ [Next]_vars => NInv'
  BY TypedStep, FlowStep
<1>3. NInv => NoCrash
  BY DEF FlowInv, NoCrash
<1> QED BY <1>1, <1>2, <1>3, PTL DEF Spec

------------------------------------------------------------------------------
\* What a test says follows from the commands it was given.

LEMMA AnswersStep ==
  ASSUME Typed, FramesInv, FlowInv, AnswersInv, [Next]_vars
  PROVE  AnswersInv'
<1> USE HarnessAssumption DEF Unknown
<1>a. Records
  BY TypedRecords
<1>1. ASSUME NEW cmd \in Commands, Begin(cmd) PROVE AnswersInv'
  BY <1>1 DEF AnswersInv, Begin, Loop
<1>2. ASSUME NEW field \in {"func", "data"}, HdmiCecSetRxCallback(field)
      PROVE  AnswersInv'
  BY <1>2, <1>a, Moves
  DEF AnswersInv, FlowInv, HdmiCecSetRxCallback, TestAt, TestPlace, globals,
      history
<1>3. CASE setExpected
  BY <1>3, <1>a, Moves
  DEF AnswersInv, FlowInv, setExpected, TestAt, TestPlace, halVars, history
<1>4. CASE clearValidated
  BY <1>4, <1>a, Moves
  DEF AnswersInv, FlowInv, clearValidated, TestAt, TestPlace, halVars, history
<1>5. CASE TimedWaitForCallback \/ check
  <2>1. /\ test.at \in {"wait", "check"} /\ test'.at \in {"check", "close"}
        /\ test'.cmd = test.cmd
    BY <1>5, <1>a, Moves DEF TimedWaitForCallback, check, Judge, TestAt, TestPlace
  <2>2. /\ answers' = answers /\ handler' = handler
        /\ gCommandValidated' = gCommandValidated
    BY <1>5 DEF TimedWaitForCallback, check, globals, halVars
  <2> QED BY <2>1, <2>2 DEF AnswersInv, Right, Wrong
<1>6. CASE closeRequest \/ closeJoin
  <2>1. test'.at \in {"join", "idle"} /\ test'.cmd = test.cmd
    BY <1>6, <1>a, Moves DEF closeRequest, closeJoin, TestPlace
  <2>2. /\ answers' = answers /\ handler' = handler
        /\ gCommandValidated' = gCommandValidated
    BY <1>6 DEF closeRequest, closeJoin, globals, halVars, history
  <2> QED BY <2>1, <2>2 DEF AnswersInv, Right, Wrong
<1>7. ASSUME NEW opcode \in Commands \cup {Unexpected}, NEW addresses \in BOOLEAN,
             NEW params \in BOOLEAN, Send(opcode, addresses, params)
      PROVE  AnswersInv'
  BY <1>7 DEF AnswersInv, Right, Wrong, Send, globals
<1>b. ASSUME HandlerThread
      PROVE  /\ test' = test /\ test.at \notin {"register", "expect", "clear"}
             /\ test.cmd \in Commands /\ gExpectedCecCommand = test.cmd
  BY <1>b, <1>a, HandlerRuns DEF FlowInv
<1>8. CASE MessageHandler \/ lookup \/ sem_post
  <2>1. handler'.at \in {"none", "loop", "lookup", "compare"} /\ test' = test
    BY <1>8, <1>a, <1>b, HandlerMoves DEF HandlerThread, ReceiveCallback
  <2>2. answers' = answers /\ gCommandValidated' = gCommandValidated
    BY <1>8 DEF MessageHandler, lookup, sem_post, globals, history
  <2> QED BY <2>1, <2>2 DEF AnswersInv, Right, Wrong
<1>9. CASE compare
  <2> DEFINE f == handler.frame
  <2>1. f \in Frame /\ handler.expected = test.cmd
    BY <1>9 DEF FramesInv, FlowInv, InCallback, HandlerPlace, compare, HandlerAt
  <2>2. /\ test' = test /\ test.cmd \in Commands /\ gExpectedCecCommand = test.cmd
        /\ test.at \notin {"register", "expect", "clear"}
        /\ gCommandValidated' = gCommandValidated
    BY <1>9, <1>b DEF HandlerThread, ReceiveCallback, compare, globals
  <2>3. /\ answers \subseteq answers'
        /\ \A g \in answers' : g.opcode = test.cmd
        /\ f.opcode = test.cmd => f \in answers'
    BY <1>9 DEF AnswersInv, compare, Answer
  <2>4. /\ handler'.at = "assign" =>
             handler'.frame \in answers' /\ AddressesAgree(handler'.frame)
        /\ handler'.at = "post" => Wrong'
        /\ handler'.at # "parameters"
    <3>1. CASE f.opcode # test.cmd
      BY <1>9, <2>2, <3>1 DEF compare, Loop
    <3>2. CASE f.opcode = test.cmd /\ f.addresses
      <4>1. handler'.at = "assign" /\ handler'.frame = f
        BY <1>9, <1>a, <2>1, <2>2, <3>2 DEF Records, compare, FieldsAgree
      <4> QED BY <2>3, <3>2, <4>1 DEF AddressesAgree
    <3>3. CASE f.opcode = test.cmd /\ ~f.addresses
      <4>1. handler'.at = "post"
        BY <1>9, <1>a, <2>1, <2>2, <3>3 DEF Records, compare, FieldsAgree
      <4>2. Wrong'
        BY <2>3, <3>3 DEF Wrong, Exact, AddressesAgree
      <4> QED BY <4>1, <4>2
    <3> QED BY <3>1, <3>2, <3>3
  <2>5. Right => Right'
    BY <2>3 DEF Right
  <2> QED BY <2>2, <2>3, <2>4, <2>5 DEF AnswersInv
<1>10. CASE assign
  <2>1. handler'.at = "parameters" /\ answers' = answers /\ test' = test
    BY <1>10, <1>a, HandlerMoves DEF assign, history
  <2>2. gCommandValidated' = test.cmd
    BY <1>10, <1>b DEF HandlerThread, ReceiveCallback, assign
  <2>3. /\ handler'.frame = handler.frame /\ handler.frame \in answers
        /\ AddressesAgree(handler.frame)
    BY <1>10, <1>a, HandlerMoves DEF AnswersInv, assign, HandlerAt
  <2>4. Right'
    BY <2>1, <2>3 DEF Right
  <2>5. test.at \notin {"register", "expect", "clear"}
    BY <1>10, <1>b DEF HandlerThread, ReceiveCallback
  <2> QED BY <2>1, <2>2, <2>3, <2>4, <2>5 DEF AnswersInv
<1>11. CASE parameters
  <2>1. /\ handler'.at = "post" /\ answers' = answers /\ test' = test
        /\ test.cmd \in Commands /\ test.at \notin {"register", "expect", "clear"}
    BY <1>11, <1>a, <1>b, HandlerMoves
    DEF HandlerThread, ReceiveCallback, parameters, history
  <2>2. /\ handler.frame \in answers /\ gCommandValidated = test.cmd
        /\ handler.frame.opcode = test.cmd /\ handler.expected = test.cmd
    BY <1>11
    DEF AnswersInv, FlowInv, InCallback, HandlerPlace, parameters, HandlerAt
  <2>3. gCommandValidated' \in {test.cmd, CEC_COMMAND_UNKNOWN}
    BY <1>11, <2>2 DEF parameters
  <2>4. gCommandValidated' = test.cmd \/ Wrong'
    <3>1. ASSUME test.cmd \in WithParameters, ~handler.frame.parameters PROVE Wrong'
      BY <2>1, <2>2, <3>1 DEF Wrong, Exact
    <3> QED BY <1>11, <2>2, <3>1 DEF parameters
  <2>5. gCommandValidated' = test.cmd /\ test.at \in {"wait", "check"} => Right'
    BY <2>1, <2>2 DEF AnswersInv, Right
  <2> QED BY <2>1, <2>4, <2>5 DEF AnswersInv
<1>12. CASE UNCHANGED vars
  BY <1>12, Stutter DEF Unchanged, AnswersInv, Right, Wrong
<1> QED
  BY <1>1, <1>2, <1>3, <1>4, <1>5, <1>6, <1>7, <1>8, <1>9, <1>10, <1>11, <1>12
  DEF Next, TestThread, HandlerThread, ReceiveCallback

\* The answers of a test only grow, and what they say stays said.
LEMMA AnswersKept ==
  ASSUME Typed, FramesInv, FlowInv, AnswersInv, HandlerThread
  PROVE  /\ Right => Right'
         /\ Wrong => Wrong'
         /\ gCommandValidated = test.cmd \/ Wrong =>
              gCommandValidated' = test'.cmd \/ Wrong'
<1>1. answers \subseteq answers'
  BY DEF HandlerThread, MessageHandler, ReceiveCallback, lookup, compare, Answer,
         assign, parameters, sem_post, history
<1>2. (Right => Right') /\ (Wrong => Wrong')
  BY <1>1 DEF Right, Wrong
<1>3. test' = test /\ gExpectedCecCommand = test.cmd
  BY HandlerRuns, TypedRecords DEF FlowInv
<1>4. CASE MessageHandler \/ lookup \/ compare \/ sem_post
  BY <1>2, <1>3, <1>4 DEF MessageHandler, lookup, compare, sem_post, globals
<1>5. CASE assign
  BY <1>2, <1>3, <1>5 DEF assign
<1>6. CASE parameters
  <2>1. AnswersInv'
    BY <1>6, AnswersStep DEF Next, HandlerThread, ReceiveCallback
  <2>2. handler'.at = "post"
    BY <1>6, TypedRecords, HandlerMoves
  <2> QED BY <1>2, <2>1, <2>2 DEF AnswersInv
<1> QED BY <1>2, <1>4, <1>5, <1>6 DEF HandlerThread, ReceiveCallback

VerdictInv ==
  /\ WokenInv /\ SilenceInv
  /\ outcome.said = "passed" => Right
  /\ outcome.wait = "posted" /\ outcome.said = "failed" => left > 0 \/ Wrong
  /\ TimeoutMeansSilence

LEMMA VerdictStep ==
  ASSUME Typed, FramesInv, FlowInv, AnswersInv, VerdictInv, [Next]_vars
  PROVE  VerdictInv'
<1> USE DEF VerdictInv, WokenInv, SilenceInv, TimeoutMeansSilence
<1>a. Records
  BY TypedRecords
<1>b. gSemCallbackReceived \in Nat /\ left \in Nat
  BY DEF Typed
<1>1. ASSUME NEW cmd \in Commands, Begin(cmd) PROVE VerdictInv'
  BY <1>1 DEF Begin, globals
<1>2. ASSUME NEW field \in {"func", "data"}, HdmiCecSetRxCallback(field)
      PROVE  VerdictInv'
  BY <1>2, <1>a, Moves
  DEF HdmiCecSetRxCallback, TestAt, TestPlace, globals, history
<1>3. CASE setExpected
  BY <1>3, <1>a, Moves DEF setExpected, TestAt, TestPlace, halVars, history
<1>4. CASE clearValidated
  <2>1. /\ test.at = "clear" /\ test'.at = "wait" /\ answers' = {}
        /\ gSemCallbackReceived' = left /\ left' = left /\ outcome' = outcome
        /\ heard' = heard
    BY <1>4, Moves DEF AnswersInv, clearValidated, TestAt, TestPlace, history
  <2> QED BY <1>b, <2>1 DEF Done
<1>5. CASE TimedWaitForCallback
  <2>1. /\ test.at = "wait" /\ test'.at = "check" /\ test'.cmd = test.cmd
        /\ answers' = answers /\ left' = left /\ heard' = Done
        /\ gCommandValidated' = gCommandValidated
    BY <1>5, Moves DEF TimedWaitForCallback, TestAt, TestPlace
  <2>2. /\ outcome'.said = "none"
        /\ outcome'.wait = IF gSemCallbackReceived > 0 THEN "posted" ELSE "timeout"
    BY <1>5, <1>a DEF Records, TimedWaitForCallback, TestAt
  <2> QED BY <1>b, <2>1, <2>2 DEF Right, Wrong
<1>6. CASE check
  <2>1. /\ test.at = "check" /\ test'.at = "close" /\ test'.cmd = test.cmd
        /\ answers' = answers /\ left' = left /\ heard' = heard
        /\ gExpectedCecCommand = test.cmd
    BY <1>6, Moves DEF FlowInv, check, Judge, TestAt, TestPlace
  <2>2. /\ outcome'.wait = outcome.wait
        /\ outcome'.said = IF outcome.wait = "posted"
                              /\ gCommandValidated = gExpectedCecCommand
                           THEN "passed" ELSE "failed"
    BY <1>6, <1>a DEF Records, check, Judge
  <2>3. outcome'.said = "passed" => Right
    BY <2>1, <2>2 DEF AnswersInv
  <2>4. outcome'.wait = "posted" /\ outcome'.said = "failed" => left > 0 \/ Wrong
    BY <2>1, <2>2
  <2> QED BY <2>1, <2>2, <2>3, <2>4 DEF Right, Wrong
<1>7. CASE closeRequest \/ closeJoin
  <2>1. /\ test'.at \in {"join", "idle"} /\ answers' = answers /\ left' = left
        /\ heard' = heard /\ outcome' = outcome
    BY <1>7, Moves DEF closeRequest, closeJoin, TestPlace, history
  <2> QED BY <2>1 DEF Right, Wrong
<1>8. ASSUME NEW opcode \in Commands \cup {Unexpected}, NEW addresses \in BOOLEAN,
             NEW params \in BOOLEAN, Send(opcode, addresses, params)
      PROVE  VerdictInv'
  BY <1>8 DEF Send, globals, Right, Wrong, Done
<1>9. CASE HandlerThread
  <2>1. /\ test.at \in {"wait", "check", "close", "join"} /\ test' = test
        /\ left' = left /\ heard' = heard /\ outcome' = outcome
    BY <1>9, <1>a, HandlerRuns
  <2>2. /\ Right => Right'
        /\ Wrong => Wrong'
        /\ gCommandValidated = test.cmd \/ Wrong =>
             gCommandValidated' = test.cmd \/ Wrong'
    BY <1>9, <2>1, AnswersKept
  <2>3. /\ outcome'.said = "passed" => Right'
        /\ outcome'.wait = "posted" /\ outcome'.said = "failed" => left' > 0 \/ Wrong'
        /\ TimeoutMeansSilence'
    <3>1. outcome'.said = "passed" => Right'
      BY <2>1, <2>2
    <3>2. outcome'.wait = "posted" /\ outcome'.said = "failed" =>
            left' > 0 \/ Wrong'
      BY <2>1, <2>2
    <3>3. TimeoutMeansSilence'
      BY <2>1
    <3> QED BY <3>1, <3>2, <3>3
  <2>4. CASE sem_post
    <3>1. gSemCallbackReceived' = gSemCallbackReceived + 1
      BY <2>4 DEF sem_post, Posted
    <3>2. gCommandValidated = test.cmd \/ Wrong
      BY <2>4 DEF AnswersInv, sem_post, HandlerAt
    <3> QED BY <1>b, <2>1, <2>2, <2>3, <3>1, <3>2
  <2>5. CASE ~sem_post
    <3>1. gSemCallbackReceived' = gSemCallbackReceived
      BY <1>9, <2>5 DEF HandlerThread, ReceiveCallback, MessageHandler, lookup,
                        compare, assign, parameters, globals
    <3>2. Done' \subseteq Done
      <4>1. CASE MessageHandler
        <5>1. answers' = answers /\ handler.frame \notin answers
          BY <4>1, ExitIsNoFrame
          DEF Typed, FramesInv, MessageHandler, HandlerAt, history
        <5> QED BY <5>1 DEF Done
      <4>2. CASE lookup \/ assign \/ parameters
        BY <4>2, <1>a, HandlerMoves DEF Done, lookup, assign, parameters, history
      <4>3. CASE compare
        <5> DEFINE f == handler.frame
        <5>1. gExpectedCecCommand = test.cmd
          BY <2>1 DEF FlowInv
        <5>2. answers' \subseteq answers \cup {f}
          BY <4>3 DEF compare, Answer
        <5>3. CASE f.opcode = test.cmd
          <6>1. handler'.frame = f
            BY <1>a, <4>3, <5>1, <5>3 DEF Records, compare
          <6> QED BY <5>2, <6>1 DEF Done
        <5>4. CASE f.opcode # test.cmd
          <6>1. answers' = answers /\ f \notin answers
            BY <4>3, <5>4 DEF AnswersInv, compare, Answer
          <6> QED BY <6>1 DEF Done
        <5> QED BY <5>3, <5>4
      <4> QED BY <1>9, <2>5, <4>1, <4>2, <4>3 DEF HandlerThread, ReceiveCallback
    <3> QED BY <2>1, <2>2, <2>3, <3>1, <3>2
  <2> QED BY <2>4, <2>5
<1>10. CASE UNCHANGED vars
  BY <1>10, Stutter DEF Unchanged, Right, Wrong, Done
<1> QED
  BY <1>1, <1>2, <1>3, <1>4, <1>5, <1>6, <1>7, <1>8, <1>9, <1>10
  DEF Next, TestThread

LEMMA VerdictCorrect ==
  ASSUME PromptedOnly
  PROVE  Spec => [](AnswersInv /\ VerdictInv)
<1> DEFINE VInv == Typed /\ FramesInv /\ FlowInv /\ AnswersInv /\ VerdictInv
<1>1. Init => VInv
  <2> SUFFICES ASSUME Init PROVE FlowInv /\ AnswersInv /\ VerdictInv
    BY InitTyped
  <2>1. FlowInv /\ AnswersInv
    BY DEF Init, FlowInv, AnswersInv, InCallback, HandlerPlace, Loop
  <2>2. VerdictInv
    BY DEF Init, VerdictInv, WokenInv, SilenceInv, TimeoutMeansSilence
  <2> QED BY <2>1, <2>2
<1>2. VInv /\ [Next]_vars => VInv'
  BY TypedStep, FlowStep, AnswersStep, VerdictStep
<1> QED BY <1>1, <1>2, PTL DEF Spec

\* No test passes on the result of an earlier one, if commands come only when a
\* test waits for one.
THEOREM PassedCorrect == PromptedOnly => (Spec => []PassedMeansAnswered)
<1> SUFFICES ASSUME PromptedOnly PROVE Spec => []PassedMeansAnswered
  OBVIOUS
<1>1. VerdictInv => PassedMeansAnswered
  BY DEF VerdictInv, PassedMeansAnswered, Right
<1>2. Spec => [](AnswersInv /\ VerdictInv)
  BY VerdictCorrect
<1> QED BY <1>1, <1>2, PTL

\* A test that is woken and fails has been given a wrong command, or the
\* semaphore was left standing by an earlier test, under the same condition.
THEOREM FailureCorrect == PromptedOnly => (Spec => []FailureExplained)
<1> SUFFICES ASSUME PromptedOnly PROVE Spec => []FailureExplained
  OBVIOUS
<1>1. VerdictInv => FailureExplained
  BY DEF VerdictInv, FailureExplained, Wrong
<1>2. Spec => [](AnswersInv /\ VerdictInv)
  BY VerdictCorrect
<1> QED BY <1>1, <1>2, PTL

\* A test that times out has missed no command with its opcode, under the same
\* condition.
THEOREM TimeoutCorrect == PromptedOnly => (Spec => []TimeoutMeansSilence)
<1> SUFFICES ASSUME PromptedOnly PROVE Spec => []TimeoutMeansSilence
  OBVIOUS
<1>1. VerdictInv => TimeoutMeansSilence
  BY DEF VerdictInv
<1>2. Spec => [](AnswersInv /\ VerdictInv)
  BY VerdictCorrect
<1> QED BY <1>1, <1>2, PTL
=============================================================================
