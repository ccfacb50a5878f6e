---------------------------- MODULE L3MenuProofs ----------------------------
(***************************************************************************)
(* The invariants of L3Menu for any addresses a source can be given and    *)
(* any number of commands under way, and, when no command is under way     *)
(* while L3 opens a session or adds its address, those that need it.       *)
(***************************************************************************)
EXTENDS L3Menu, TLAPS

Open == hal.state = "open"

\* What holds of the HAL as the calls of HalApi leave it.
HalShape ==
  /\ ~Open => hal.rx = "nobody"
  /\ hal.type = "SINK" => hal.logical \in {0, UNREGISTERED}

\* Who has the HAL open: L3, a test of another suite, or nobody.
Owner ==
  /\ gHandle # 0 => Open /\ handle = 0
  /\ at \notin {"suite", "suiteJoin"} =>
       handle = 0 /\ answer = "none" /\ (Open => gHandle # 0)
  /\ at \notin {"menu", "suite", "suiteJoin"} => gHandle # 0
  /\ at = "suiteJoin" => handle # 0 /\ gHandle = 0 /\ Open
  /\ at = "suite" /\ Open => gHandle # 0 \/ handle # 0
  /\ at = "suite" /\ gHandle # 0 =>
       answer \in {"none", "INVALID_HANDLE", "ALREADY_OPEN"}

\* How far a choice of L3 has come with its session.
Progress ==
  /\ hal.rx = "L3" => gHandle # 0
  /\ gHandle # 0 /\ at \notin {"initRx", "initBytes"} => gPhysicalAddressBytes
  /\ at \in {"initRx", "initBytes"} /\ hal.type = "SINK" =>
       hal.logical = UNREGISTERED
  /\ at = "initLogical" => hal.type = "SOURCE"
  /\ at = "addStore" => hal.type = "SINK" /\ hal.logical = 0
  /\ at = "removeStore" => hal.type = "SINK" /\ hal.logical = UNREGISTERED

\* L3 knows the address of its device once it is done with changing it.
Known ==
  gHandle # 0 /\ at \notin {"initRx", "initBytes", "initLogical", "addStore"}
    /\ MayTransmit(hal) => gLogicalAddress = hal.logical

\* What a failure has to do with the choice that was made.
Failing ==
  /\ misused => outcome # "running"
  /\ outcome \in {"aborted", "menuCrash"} => misused

\* Nothing is queued, and nothing answered, without a session.
Backlog ==
  /\ ~Open => backlog = <<>>
  /\ handler.at = "respond" => gHandle # 0

IInv == HalShape /\ Owner /\ Progress /\ Known /\ Failing /\ Backlog

\* What quiet changes add: no command meets a session half opened, nor an
\* address half changed.
QuietInv ==
  /\ at \in {"initRx", "initBytes", "initLogical", "addStore"} => Quiet
  /\ handler.at = "respond" /\ handler.to = "all" /\ MayTransmit(hal) =>
       handler.initiator = hal.logical
  /\ sent.initiator = sent.device
  /\ outcome # "callbackCrash"

------------------------------------------------------------------------------
\* The records

\* What the assumptions say of the parameters.
LEMMA Parameters ==
  /\ \A a \in SourceAddresses : a \in 0 .. 15
  /\ \A a \in Dests : a \in 0 .. 15
BY Zenon, AddressAssumption, MenuAssumption

\* What the HAL holds.
LEMMA HalFields ==
  ASSUME NEW h \in Hal
  PROVE  /\ h.state \in {"absent", "closed", "open"}
         /\ h.type \in {"SINK", "SOURCE"} /\ h.logical \in 0 .. 15
         /\ h.rx \in Receiver /\ h.tx \in Pointer
BY DEF Hal

\* A HAL that is new, or gone.
LEMMA FreshHal ==
  ASSUME NEW state \in {"absent", "closed", "open"},
         NEW type \in {"SINK", "SOURCE"}, NEW logical \in 0 .. 15,
         NEW h, h = Fresh(state, type, logical)
  PROVE  /\ h \in Hal /\ h.state = state /\ h.type = type
         /\ h.logical = logical /\ h.rx = "nobody"
BY DEF Fresh, Hal, Receiver, Pointer

\* What each of the calls changes, and nothing else.
LEMMA LogicalChanges ==
  ASSUME NEW h \in Hal, NEW a \in 0 .. 15, NEW g, g = [h EXCEPT !.logical = a]
  PROVE  /\ g \in Hal /\ g.logical = a
         /\ g.state = h.state /\ g.type = h.type /\ g.rx = h.rx
BY DEF Hal

LEMMA RxChanges ==
  ASSUME NEW h \in Hal, NEW r \in Receiver, NEW g, g = [h EXCEPT !.rx = r]
  PROVE  /\ g \in Hal /\ g.rx = r
         /\ g.state = h.state /\ g.type = h.type /\ g.logical = h.logical
BY DEF Hal

LEMMA TxChanges ==
  ASSUME NEW h \in Hal, NEW b \in Pointer, NEW g, g = [h EXCEPT !.tx = b]
  PROVE  /\ g \in Hal
         /\ g.state = h.state /\ g.type = h.type /\ g.logical = h.logical /\ g.rx = h.rx
BY DEF Hal

LEMMA StateChanges ==
  ASSUME NEW h \in Hal, NEW b \in {"absent", "closed", "open"}, NEW g, g = [h EXCEPT !.state = b]
  PROVE  /\ g \in Hal /\ g.state = b
         /\ g.type = h.type /\ g.logical = h.logical /\ g.rx = h.rx
BY DEF Hal

LEMMA Answers ==
  ASSUME NEW status, NEW h, NEW changed,
         NEW call, call = Answer(status, h, changed)
  PROVE  /\ call.status = status
         /\ status = "SUCCESS" => call.hal = changed
         /\ status # "SUCCESS" => call.hal = h
BY DEF Answer

\* What is tested first.
LEMMA Admissions ==
  ASSUME NEW h \in Hal, NEW any \in Handle, NEW valid
  PROVE  /\ Admitted(h, any, valid) \in Status
         /\ Admitted(h, any, valid) = "SUCCESS" <=>
              h.state = "open" /\ any # 0 /\ valid
         /\ h.state = "open" /\ any = 0 =>
              Admitted(h, any, valid) = "INVALID_HANDLE"
BY DEF Admitted, Status

------------------------------------------------------------------------------
\* The calls

\* HdmiCecOpen gives a HAL to a component that has none.
LEMMA OpenAnswer ==
  ASSUME NEW h \in Hal, NEW place \in Pointer, NEW a \in 0 .. 15,
         NEW call, call = HdmiCecOpen(h, place, a)
  PROVE  /\ call.status \in Status
         /\ call.status = "SUCCESS" =>
              /\ h.state = "closed"
              /\ call.hal \in Hal /\ call.hal.state = "open"
              /\ call.hal.type = h.type /\ call.hal.rx = "nobody"
         /\ call.status = "SUCCESS" /\ h.type = "SINK" =>
              call.hal.logical = UNREGISTERED
         /\ call.status # "SUCCESS" => call.hal = h
         /\ place = "valid" /\ h.state = "closed" => call.status = "SUCCESS"
         /\ h.state = "open" => call.status \in {"INVALID_HANDLE", "ALREADY_OPEN"}
<1> DEFINE l == IF h.type = "SINK" THEN UNREGISTERED ELSE a
           opened == Fresh("open", h.type, l)
           status == OpenStatus(h, place)
<1>1. call = Answer(status, h, opened)
  BY DEF HdmiCecOpen
<1>2. h.type \in {"SINK", "SOURCE"} /\ l \in 0 .. 15
  BY HalFields DEF UNREGISTERED
<1>3. /\ opened \in Hal /\ opened.state = "open"
      /\ opened.type = h.type /\ opened.rx = "nobody" /\ opened.logical = l
  <2> HIDE DEF l
  <2> QED
    BY <1>2, FreshHal
<1>4. /\ status \in Status
      /\ status = "SUCCESS" => h.state = "closed"
      /\ place = "valid" /\ h.state = "closed" => status = "SUCCESS"
      /\ h.state = "open" => status \in {"INVALID_HANDLE", "ALREADY_OPEN"}
  BY HalFields DEF OpenStatus, Status
<1> HIDE DEF opened, status
<1>5. /\ call.status = status
      /\ call.status = "SUCCESS" => call.hal = opened
      /\ call.status # "SUCCESS" => call.hal = h
  BY <1>1, Answers
<1> QED
  BY <1>3, <1>4, <1>5

\* HdmiCecClose leaves the component without a HAL.
LEMMA CloseAnswer ==
  ASSUME NEW h \in Hal, NEW any \in Handle, NEW call, call = HdmiCecClose(h, any)
  PROVE  /\ call.status \in Status
         /\ call.status = "SUCCESS" <=> h.state = "open" /\ any # 0
         /\ h.state = "open" /\ any = 0 => call.status = "INVALID_HANDLE"
         /\ call.status = "SUCCESS" =>
              /\ call.hal \in Hal /\ call.hal.state = "closed"
              /\ call.hal.type = h.type /\ call.hal.rx = "nobody"
              /\ call.hal.logical = UNREGISTERED
<1> DEFINE closed == Fresh("closed", h.type, UNREGISTERED)
           status == Admitted(h, any, TRUE)
<1>1. call = Answer(status, h, closed)
  BY DEF HdmiCecClose
<1>2. /\ closed \in Hal /\ closed.state = "closed"
      /\ closed.type = h.type /\ closed.rx = "nobody"
      /\ closed.logical = UNREGISTERED
  BY HalFields, FreshHal DEF UNREGISTERED
<1>3. /\ status \in Status
      /\ status = "SUCCESS" <=> h.state = "open" /\ any # 0
      /\ h.state = "open" /\ any = 0 => status = "INVALID_HANDLE"
  BY DEF Admitted, Status
<1> HIDE DEF closed, status
<1> QED
  BY <1>1, <1>2, <1>3, Answers

\* Adding an address: only a sink, and only 0.
LEMMA AddAnswer ==
  ASSUME NEW h \in Hal, NEW any \in Handle, NEW address,
         NEW call, call = HdmiCecAddLogicalAddress(h, any, address)
  PROVE  /\ call.status \in Status
         /\ call.status = "SUCCESS" <=>
              h.state = "open" /\ any # 0 /\ h.type = "SINK" /\ address = 0
         /\ h.state = "open" /\ any = 0 => call.status = "INVALID_HANDLE"
         /\ call.status = "SUCCESS" =>
              /\ call.hal \in Hal /\ call.hal.logical = 0
              /\ call.hal.state = h.state /\ call.hal.type = h.type
              /\ call.hal.rx = h.rx
         /\ call.status # "SUCCESS" => call.hal = h
<1> DEFINE added == [h EXCEPT !.logical = address]
           status == Admitted(h, any, h.type = "SINK" /\ address = 0)
<1>1. call = Answer(status, h, added)
  BY DEF HdmiCecAddLogicalAddress
<1>2. /\ status \in Status
      /\ status = "SUCCESS" <=>
           h.state = "open" /\ any # 0 /\ h.type = "SINK" /\ address = 0
      /\ h.state = "open" /\ any = 0 => status = "INVALID_HANDLE"
  BY DEF Admitted, Status
<1>3. address = 0 => /\ added \in Hal /\ added.logical = 0
                     /\ added.state = h.state /\ added.type = h.type
                     /\ added.rx = h.rx
  <2>1. address = 0 => address \in 0 .. 15
    OBVIOUS
  <2> QED
    BY <2>1, LogicalChanges
<1> HIDE DEF added, status
<1> QED
  BY <1>1, <1>2, <1>3, Answers

\* Removing an address: only a sink, only 0, and only one that is there.
LEMMA RemoveAnswer ==
  ASSUME NEW h \in Hal, NEW any \in Handle, NEW address,
         NEW call, call = HdmiCecRemoveLogicalAddress(h, any, address)
  PROVE  /\ call.status \in Status
         /\ call.status = "SUCCESS" <=>
              /\ h.state = "open" /\ any # 0 /\ h.type = "SINK" /\ address = 0
              /\ h.logical # UNREGISTERED
         /\ h.state = "open" /\ any = 0 => call.status = "INVALID_HANDLE"
         /\ call.status = "SUCCESS" =>
              /\ call.hal \in Hal /\ call.hal.logical = UNREGISTERED
              /\ call.hal.state = h.state /\ call.hal.type = h.type
              /\ call.hal.rx = h.rx
         /\ call.status # "SUCCESS" => call.hal = h
<1> DEFINE admitted == Admitted(h, any, h.type = "SINK" /\ address = 0)
           status == IF admitted = "SUCCESS" /\ h.logical = UNREGISTERED
                     THEN "ALREADY_REMOVED" ELSE admitted
           removed == [h EXCEPT !.logical = UNREGISTERED]
<1>1. call = Answer(status, h, removed)
  BY DEF HdmiCecRemoveLogicalAddress
<1>2. /\ removed \in Hal /\ removed.logical = UNREGISTERED
      /\ removed.state = h.state /\ removed.type = h.type /\ removed.rx = h.rx
  <2>1. UNREGISTERED \in 0 .. 15
    BY DEF UNREGISTERED
  <2> QED
    BY <2>1, LogicalChanges
<1>3. /\ admitted \in Status
      /\ admitted = "SUCCESS" <=>
           h.state = "open" /\ any # 0 /\ h.type = "SINK" /\ address = 0
      /\ h.state = "open" /\ any = 0 => admitted = "INVALID_HANDLE"
  BY DEF Admitted, Status
<1> HIDE DEF admitted, removed
<1>4. /\ status \in Status
      /\ status = "SUCCESS" <=> admitted = "SUCCESS" /\ h.logical # UNREGISTERED
      /\ admitted = "INVALID_HANDLE" => status = "INVALID_HANDLE"
  BY <1>3 DEF Status
<1> HIDE DEF status
<1> QED
  BY <1>1, <1>2, <1>3, <1>4, Answers

\* Setting the receive callback.
LEMMA RxAnswer ==
  ASSUME NEW h \in Hal, NEW any \in Handle, NEW r \in Receiver,
         NEW call, call = HdmiCecSetRxCallback(h, any, r)
  PROVE  /\ call.status \in Status
         /\ call.status = "SUCCESS" <=> h.state = "open" /\ any # 0
         /\ h.state = "open" /\ any = 0 => call.status = "INVALID_HANDLE"
         /\ call.status = "SUCCESS" =>
              /\ call.hal \in Hal /\ call.hal.logical = h.logical
              /\ call.hal.state = h.state /\ call.hal.type = h.type
              /\ call.hal.rx = r
         /\ call.status # "SUCCESS" => call.hal = h
<1> DEFINE changed == [h EXCEPT !.rx = r]
           status == Admitted(h, any, TRUE)
<1>1. call = Answer(status, h, changed)
  BY DEF HdmiCecSetRxCallback
<1>2. /\ status \in Status
      /\ status = "SUCCESS" <=> h.state = "open" /\ any # 0
      /\ h.state = "open" /\ any = 0 => status = "INVALID_HANDLE"
  BY DEF Admitted, Status
<1>3. /\ changed \in Hal /\ changed.logical = h.logical
      /\ changed.state = h.state /\ changed.type = h.type /\ changed.rx = r
  BY RxChanges
<1> HIDE DEF changed, status
<1> QED
  BY <1>1, <1>2, <1>3, Answers

\* Setting the transmit callback.
LEMMA TxAnswer ==
  ASSUME NEW h \in Hal, NEW any \in Handle, NEW b \in Pointer,
         NEW call, call = HdmiCecSetTxCallback(h, any, b)
  PROVE  /\ call.status \in Status
         /\ call.status = "SUCCESS" <=> h.state = "open" /\ any # 0
         /\ h.state = "open" /\ any = 0 => call.status = "INVALID_HANDLE"
         /\ call.status = "SUCCESS" =>
              /\ call.hal \in Hal /\ call.hal.logical = h.logical
              /\ call.hal.state = h.state /\ call.hal.type = h.type
              /\ call.hal.rx = h.rx
         /\ call.status # "SUCCESS" => call.hal = h
<1> DEFINE changed == [h EXCEPT !.tx = b]
           status == Admitted(h, any, TRUE)
<1>1. call = Answer(status, h, changed)
  BY DEF HdmiCecSetTxCallback
<1>2. /\ status \in Status
      /\ status = "SUCCESS" <=> h.state = "open" /\ any # 0
      /\ h.state = "open" /\ any = 0 => status = "INVALID_HANDLE"
  BY DEF Admitted, Status
<1>3. /\ changed \in Hal /\ changed.logical = h.logical
      /\ changed.state = h.state /\ changed.type = h.type /\ changed.rx = h.rx
  BY TxChanges
<1> HIDE DEF changed, status
<1> QED
  BY <1>1, <1>2, <1>3, Answers

\* The calls that leave the HAL alone: reading an address, and sending.
LEMMA ReadAnswer ==
  ASSUME NEW h \in Hal, NEW any \in Handle, NEW b \in Pointer, NEW call,
         \/ call = HdmiCecGetPhysicalAddress(h, any, b)
         \/ call = HdmiCecGetLogicalAddress(h, any, b)
  PROVE  /\ call.hal = h /\ call.status \in Status
         /\ call.status = "SUCCESS" <=>
              h.state = "open" /\ any # 0 /\ b # "NULL"
         /\ h.state = "open" /\ any = 0 => call.status = "INVALID_HANDLE"
<1> DEFINE status == Admitted(h, any, b # "NULL")
<1>1. call = Answer(status, h, h)
  BY DEF HdmiCecGetPhysicalAddress, HdmiCecGetLogicalAddress
<1>2. /\ status \in Status
      /\ status = "SUCCESS" <=> h.state = "open" /\ any # 0 /\ b # "NULL"
      /\ h.state = "open" /\ any = 0 => status = "INVALID_HANDLE"
  BY DEF Admitted, Status
<1> HIDE DEF status
<1> QED
  BY <1>1, <1>2, Answers

LEMMA SendAnswer ==
  ASSUME NEW h \in Hal, NEW any \in Handle, NEW b \in Pointer, NEW call,
         call = HdmiCecTx(h, any, b) \/ call = HdmiCecTxAsync(h, any, b)
  PROVE  /\ call.hal = h /\ call.status \in Status
         /\ call.status = "SUCCESS" =>
              h.state = "open" /\ any # 0 /\ b = "valid" /\ MayTransmit(h)
         /\ h.state = "open" /\ any = 0 => call.status = "INVALID_HANDLE"
         /\ h.state = "open" /\ any # 0 /\ b = "valid" /\ MayTransmit(h)
              /\ call = HdmiCecTx(h, any, b) => call.status = "SUCCESS"
<1> DEFINE admitted == Admitted(h, any, b = "valid")
           tx == IF admitted = "SUCCESS" /\ ~MayTransmit(h) THEN "SENT_FAILED"
                 ELSE admitted
           async == IF admitted = "SUCCESS" /\ ~(MayTransmit(h) /\ h.tx = "valid")
                    THEN "SENT_FAILED" ELSE admitted
<1>1. \/ call = Answer(tx, h, h)
      \/ call = Answer(async, h, h) /\ call # HdmiCecTx(h, any, b)
  BY DEF HdmiCecTx, HdmiCecTxAsync
<1>2. /\ admitted \in Status
      /\ admitted = "SUCCESS" <=> h.state = "open" /\ any # 0 /\ b = "valid"
      /\ h.state = "open" /\ any = 0 => admitted = "INVALID_HANDLE"
  BY DEF Admitted, Status
<1> HIDE DEF admitted
<1>3. /\ tx \in Status /\ async \in Status
      /\ tx = "SUCCESS" <=> admitted = "SUCCESS" /\ MayTransmit(h)
      /\ async = "SUCCESS" => admitted = "SUCCESS" /\ MayTransmit(h)
      /\ admitted = "INVALID_HANDLE" =>
           tx = "INVALID_HANDLE" /\ async = "INVALID_HANDLE"
  BY <1>2 DEF Status
<1>4. PICK s \in {tx, async} :
        call = Answer(s, h, h) /\ (call = HdmiCecTx(h, any, b) => s = tx)
  BY <1>1
<1> HIDE DEF tx, async
<1>5. call.status = s /\ call.hal = h
  BY <1>4, Answers
<1>6. call.hal = h /\ call.status \in Status
  BY <1>3, <1>4, <1>5
<1>7. call.status = "SUCCESS" =>
        h.state = "open" /\ any # 0 /\ b = "valid" /\ MayTransmit(h)
  BY <1>2, <1>3, <1>4, <1>5
<1>8. h.state = "open" /\ any = 0 => call.status = "INVALID_HANDLE"
  BY <1>2, <1>3, <1>4, <1>5
<1>9. h.state = "open" /\ any # 0 /\ b = "valid" /\ MayTransmit(h)
        /\ call = HdmiCecTx(h, any, b) => call.status = "SUCCESS"
  BY <1>2, <1>3, <1>4, <1>5
<1> QED
  BY <1>6, <1>7, <1>8, <1>9

------------------------------------------------------------------------------
\* Every step keeps the types, the invariant, and what quiet changes add

Kept == TypeOK' /\ IInv' /\ (QuietChanges /\ QuietInv => QuietInv')

\* The records of the handler thread.
LEMMA Threads ==
  /\ \A where \in {"none", "loop", "respond", "done"}, to \in {"sender", "all"},
        i \in 0 .. 15 :
       LET t == Thread(where, to, i)
       IN t \in ThreadState /\ t.at = where /\ t.to = to /\ t.initiator = i
  /\ NoThread \in ThreadState /\ NoThread.at = "none"
  /\ Loop \in ThreadState /\ Loop.at = "loop"
BY DEF NoThread, Loop, ThreadState, Thread

\* The queue takes and loses messages.
LEMMA Queues ==
  ASSUME NEW S, NEW q \in Seq(S)
  PROVE  /\ <<>> \in Seq(S)
         /\ \A m \in S : Append(q, m) \in Seq(S)
         /\ q # <<>> => Tail(q) \in Seq(S) /\ Head(q) \in S
OBVIOUS

\* What a state tells about the HAL and the handle of L3.
LEMMA State ==
  ASSUME TypeOK, IInv
  PROVE  /\ hal \in Hal /\ gHandle \in Handle /\ handle \in Handle
         /\ hal.state \in {"absent", "closed", "open"}
         /\ hal.type \in {"SINK", "SOURCE"} /\ hal.logical \in 0 .. 15
         /\ hal.rx \in Receiver
         /\ gLogicalAddress \in -1 .. 15
         /\ HalShape /\ Owner /\ Progress /\ Known /\ Failing /\ Backlog
BY HalFields DEF TypeOK, IInv

\* Starting and stopping the component.
LEMMA ComponentKeeps ==
  ASSUME TypeOK, IInv, start_virtual_component \/ stop_virtual_component
  PROVE  Kept
<1> USE State
<1>1. PICK s \in {"absent", "closed", "open"} :
        s # "open" /\ hal.state # "open" /\ hal' = [hal EXCEPT !.state = s]
  BY DEF start_virtual_component, stop_virtual_component
<1>2. /\ outcome = "running" /\ at = "menu" /\ at' = "menu"
      /\ \/ UNCHANGED outcome /\ misused' = FALSE
         \/ outcome' = "aborted" /\ misused' = TRUE
      /\ UNCHANGED <<gHandle, gLogicalAddress, gPhysicalAddressBytes,
                     handle, answer, backlog, handler, sent>>
  BY DEF start_virtual_component, stop_virtual_component, Choose, Asserted,
         menuVars, suiteVars, handlerVars
<1>3. /\ hal' \in Hal /\ hal'.state = s
      /\ hal'.type = hal.type /\ hal'.logical = hal.logical /\ hal'.rx = hal.rx
  BY <1>1, StateChanges
<1>4. TypeOK'
  BY <1>2, <1>3 DEF TypeOK, Outcome
<1>5. IInv'
  BY <1>1, <1>2, <1>3
     DEF IInv, HalShape, Owner, Progress, Known, MayTransmit, Failing, Backlog, Open
<1>6. QuietInv => QuietInv'
  BY <1>1, <1>2, <1>3 DEF QuietInv, Quiet, MayTransmit
<1> QED
  BY <1>4, <1>5, <1>6 DEF Kept

\* Opening a session.
LEMMA InitKeeps == ASSUME TypeOK, IInv, test_l3_hdmi_cec_hal_Init PROVE Kept
<1> USE State
<1>1. /\ outcome = "running" /\ at = "menu" /\ misused' = ~(hal.state = "closed")
      /\ UNCHANGED <<gLogicalAddress, gPhysicalAddressBytes, handle, answer,
                     backlog, sent>>
  BY DEF test_l3_hdmi_cec_hal_Init, Choose, suiteVars
<1>2. PICK allocated \in Allocated :
        LET call == HdmiCecOpen(hal, "valid", allocated) IN
          /\ hal' = call.hal
          /\ Asserted(call.status = "SUCCESS", "initRx")
          /\ IF call.status = "SUCCESS"
             THEN gHandle' = 1 /\ handler' = Loop
             ELSE UNCHANGED <<gHandle, handler>>
  BY DEF test_l3_hdmi_cec_hal_Init
<1> DEFINE call == HdmiCecOpen(hal, "valid", allocated)
           place == "valid"
<1>3. allocated \in 0 .. 15 /\ place \in Pointer
  BY Parameters DEF Allocated, UNREGISTERED, Pointer
<1>4. call = HdmiCecOpen(hal, place, allocated)
  OBVIOUS
<1>5. /\ hal' = call.hal
      /\ IF call.status = "SUCCESS"
         THEN gHandle' = 1 /\ handler' = Loop /\ at' = "initRx" /\ UNCHANGED outcome
         ELSE UNCHANGED <<gHandle, handler, at>> /\ outcome' = "aborted"
  BY <1>2 DEF Asserted
<1> HIDE DEF call
<1>6. /\ call.status = "SUCCESS" =>
           /\ call.hal \in Hal /\ call.hal.state = "open"
           /\ call.hal.type = hal.type /\ call.hal.rx = "nobody"
      /\ call.status = "SUCCESS" /\ hal.type = "SINK" =>
           call.hal.logical = UNREGISTERED
      /\ call.status # "SUCCESS" => call.hal = hal
      /\ call.status = "SUCCESS" <=> hal.state = "closed"
  <2>1. hal \in Hal
    OBVIOUS
  <2> HIDE State
  <2> HIDE DEF place
  <2>2. call.status = "SUCCESS" =>
           /\ hal.state = "closed"
           /\ call.hal \in Hal /\ call.hal.state = "open"
           /\ call.hal.type = hal.type /\ call.hal.rx = "nobody"
    BY <1>3, <1>4, <2>1, OpenAnswer, SMTT(60)
  <2>3. call.status = "SUCCESS" /\ hal.type = "SINK" =>
           call.hal.logical = UNREGISTERED
    BY <1>3, <1>4, <2>1, OpenAnswer, SMTT(60)
  <2>4. call.status # "SUCCESS" => call.hal = hal
    BY <1>3, <1>4, <2>1, OpenAnswer, SMTT(60)
  <2>5. place = "valid" /\ hal.state = "closed" => call.status = "SUCCESS"
    BY <1>3, <1>4, <2>1, OpenAnswer, SMTT(60)
  <2> QED
    BY <2>2, <2>3, <2>4, <2>5 DEF place
<1>7. CASE call.status = "SUCCESS"
  <2>1. TypeOK'
    BY <1>1, <1>5, <1>6, <1>7, Threads DEF TypeOK, Handle, Place, ThreadState
  <2>2. /\ at' = "initRx" /\ outcome' = "running" /\ misused' = FALSE
        /\ gHandle' = 1 /\ handle' = 0 /\ answer' = "none"
        /\ hal'.state = "open" /\ hal'.rx = "nobody" /\ hal'.type = hal.type
        /\ hal'.type = "SINK" => hal'.logical = UNREGISTERED
    BY <1>1, <1>5, <1>6, <1>7 DEF Owner
  <2>3. HalShape' /\ Owner' /\ Known' /\ Failing'
    BY <2>2 DEF HalShape, Owner, Known, Failing, Open
  <2>4. Progress' /\ Backlog'
    BY <2>2 DEF Progress, Backlog, Open
  <2>5. QuietInv => QuietInv'
    BY <1>1, <1>5, <1>6, <1>7, Threads DEF QuietInv, Quiet, Backlog, Open
  <2> QED
    BY <2>1, <2>3, <2>4, <2>5 DEF Kept, IInv
<1>8. CASE call.status # "SUCCESS"
  <2>1. TypeOK'
    BY <1>1, <1>5, <1>6, <1>8 DEF TypeOK, Outcome
  <2>2. IInv'
    BY <1>1, <1>5, <1>6, <1>8
       DEF IInv, HalShape, Owner, Progress, Known, MayTransmit, Failing, Backlog,
           Open
  <2>3. QuietInv => QuietInv'
    BY <1>1, <1>5, <1>6, <1>8 DEF QuietInv, Quiet, MayTransmit
  <2> QED
    BY <2>1, <2>2, <2>3 DEF Kept
<1> QED
  BY <1>7, <1>8

\* In a choice that has come past its first call, L3 has the HAL open.
LEMMA Underway ==
  ASSUME TypeOK, IInv, at \notin {"menu", "suite", "suiteJoin"}
  PROVE  /\ gHandle # 0 /\ hal.state = "open" /\ handle = 0 /\ answer = "none"
         /\ HdmiCecGetPhysicalAddress(hal, gHandle, "valid").status = "SUCCESS"
         /\ HdmiCecGetLogicalAddress(hal, gHandle, "valid").status = "SUCCESS"
<1> USE State
<1>1. gHandle # 0 /\ hal.state = "open" /\ handle = 0 /\ answer = "none"
  BY DEF Owner, Open
<1>2. "valid" \in Pointer /\ "valid" # "NULL"
  BY DEF Pointer
<1> QED
  BY <1>1, <1>2, ReadAnswer

\* Setting the receive callback of the session.
LEMMA InitRxKeeps == ASSUME TypeOK, IInv, initRx PROVE Kept
<1> USE State
<1>1. /\ outcome = "running" /\ at = "initRx" /\ misused' = misused
      /\ UNCHANGED <<gHandle, gLogicalAddress, gPhysicalAddressBytes,
                     handle, answer, backlog, handler, sent>>
  BY DEF initRx, GoOn, menuVars, suiteVars, handlerVars
<1>2. gHandle # 0 /\ hal.state = "open" /\ handle = 0 /\ answer = "none"
  BY <1>1, Underway
<1> DEFINE call == HdmiCecSetRxCallback(hal, gHandle, "L3")
<1>3. hal' = call.hal /\ (call.status = "SUCCESS" => at' = "initBytes" /\ UNCHANGED outcome)
  BY DEF initRx, Asserted
<1>4. call = HdmiCecSetRxCallback(hal, gHandle, "L3") /\ "L3" \in Receiver
  BY DEF Receiver
<1> HIDE DEF call
<1>5. /\ call.status = "SUCCESS"
      /\ call.hal \in Hal /\ call.hal.logical = hal.logical
      /\ call.hal.state = hal.state /\ call.hal.type = hal.type
      /\ call.hal.rx = "L3"
  BY <1>2, <1>4, RxAnswer
<1>6. TypeOK'
  BY <1>1, <1>3, <1>5 DEF TypeOK, Place
<1>7. IInv'
  BY <1>1, <1>2, <1>3, <1>5
     DEF IInv, HalShape, Owner, Progress, Known, Failing, Backlog, Open
<1>8. QuietInv => QuietInv'
  BY <1>1, <1>3, <1>5 DEF QuietInv, Quiet, MayTransmit
<1> QED
  BY <1>6, <1>7, <1>8 DEF Kept

\* The pointer to the physical address, and the address.
LEMMA InitBytesKeeps == ASSUME TypeOK, IInv, initBytes PROVE Kept
<1> USE State
<1>1. /\ outcome = "running" /\ at = "initBytes" /\ misused' = misused
      /\ gPhysicalAddressBytes' = TRUE
      /\ UNCHANGED <<hal, gHandle, gLogicalAddress, handle, answer, backlog,
                     handler, sent>>
  BY DEF initBytes, GoOn, suiteVars, handlerVars
<1>2. gHandle # 0 /\ hal.state = "open" /\ handle = 0 /\ answer = "none"
  BY <1>1, Underway
<1>3. /\ at' = IF hal.type = "SOURCE" THEN "initLogical" ELSE "menu"
      /\ UNCHANGED outcome
  BY <1>1, Underway DEF initBytes, Asserted
<1>4. TypeOK'
  BY <1>1, <1>3 DEF TypeOK, Place
<1>5. HalShape' /\ Owner' /\ Progress' /\ Failing' /\ Backlog'
  BY <1>1, <1>2, <1>3 DEF HalShape, Owner, Progress, Failing, Backlog, Open
<1>6. QuietInv => QuietInv'
  BY <1>1, <1>3 DEF QuietInv, Quiet, MayTransmit
<1>7. Known'
  BY <1>1, <1>3 DEF Known, Progress, MayTransmit
<1> QED
  BY <1>4, <1>5, <1>6, <1>7 DEF Kept, IInv

\* A source learns its address.
LEMMA InitLogicalKeeps == ASSUME TypeOK, IInv, initLogical PROVE Kept
<1> USE State
<1>1. /\ outcome = "running" /\ at = "initLogical" /\ at' = "menu"
      /\ misused' = misused
      /\ UNCHANGED <<hal, gHandle, gPhysicalAddressBytes, outcome, handle, answer,
                     backlog, handler, sent>>
  BY DEF initLogical, GoOn, suiteVars, handlerVars
<1>2. gHandle # 0 /\ hal.state = "open" /\ handle = 0 /\ answer = "none"
  BY <1>1, Underway
<1>3. gLogicalAddress' = hal.logical
  BY <1>1, Underway DEF initLogical
<1>4. TypeOK'
  BY <1>1, <1>3 DEF TypeOK, Place
<1>5. HalShape' /\ Owner' /\ Progress' /\ Failing' /\ Backlog'
  BY <1>1, <1>2, <1>3 DEF HalShape, Owner, Progress, Failing, Backlog, Open
<1>6. Known'
  BY <1>1, <1>3 DEF Known
<1>7. QuietInv => QuietInv'
  BY <1>1 DEF QuietInv, Quiet, MayTransmit
<1> QED
  BY <1>4, <1>5, <1>6, <1>7 DEF Kept, IInv

\* At the menu L3 has the handle of the HAL that is open.
LEMMA AtMenu ==
  ASSUME TypeOK, IInv, at = "menu"
  PROVE  /\ handle = 0 /\ answer = "none"
         /\ hal.state = "open" <=> gHandle # 0
         /\ hal.state = "open" => gPhysicalAddressBytes
         /\ hal.state = "open" /\ MayTransmit(hal) => gLogicalAddress = hal.logical
BY State DEF Owner, Progress, Known, Open

\* Adding the address of a sink.
LEMMA AddKeeps ==
  ASSUME TypeOK, IInv, NEW address \in 0 .. 1,
         test_l3_hdmi_cec_hal_AddLogicalAddress(address)
  PROVE  Kept
<1> USE State
<1>1. /\ outcome = "running" /\ at = "menu"
      /\ misused' = ~(hal.type = "SINK" => hal.state = "open" /\ address = 0)
      /\ QuietChanges => Quiet
      /\ UNCHANGED <<gHandle, gLogicalAddress, gPhysicalAddressBytes, handle,
                     answer, backlog, handler, sent>>
  BY DEF test_l3_hdmi_cec_hal_AddLogicalAddress, Choose, menuVars, suiteVars,
         handlerVars
<1>2. /\ handle = 0 /\ answer = "none"
      /\ hal.state = "open" <=> gHandle # 0
  BY <1>1, AtMenu
<1>3. CASE hal.type = "SOURCE" \/ hal.state # "open" \/ address # 0
  <2>1. /\ hal' = hal /\ at' = at
        /\ \/ hal.type = "SOURCE" /\ UNCHANGED outcome
           \/ hal.type = "SINK" /\ outcome' = "aborted"
    <3>1. CASE hal.type = "SOURCE"
      BY <3>1 DEF test_l3_hdmi_cec_hal_AddLogicalAddress
    <3>2. CASE hal.type # "SOURCE"
      <4> DEFINE call == HdmiCecAddLogicalAddress(hal, gHandle, address)
      <4>1. hal' = call.hal /\ (call.status # "SUCCESS" => outcome' = "aborted" /\ UNCHANGED at)
        BY <3>2 DEF test_l3_hdmi_cec_hal_AddLogicalAddress, Asserted
      <4>2. call = HdmiCecAddLogicalAddress(hal, gHandle, address)
        OBVIOUS
      <4> HIDE DEF call
      <4>3. call.status # "SUCCESS" /\ call.hal = hal
        BY <1>3, <3>2, <4>2, AddAnswer
      <4> QED
        BY <3>2, <4>1, <4>3
    <3> QED
      BY <3>1, <3>2
  <2>2. TypeOK'
    BY <1>1, <2>1 DEF TypeOK, Outcome
  <2>3. HalShape' /\ Owner' /\ Progress' /\ Known' /\ Backlog'
    BY <1>1, <2>1
       DEF HalShape, Owner, Progress, Known, MayTransmit, Backlog, Open
  <2>4. Failing'
    BY <1>1, <1>3, <2>1 DEF Failing
  <2>5. QuietInv => QuietInv'
    BY <1>1, <2>1 DEF QuietInv, Quiet, MayTransmit
  <2> QED
    BY <2>2, <2>3, <2>4, <2>5 DEF Kept, IInv
<1>4. CASE hal.type = "SINK" /\ hal.state = "open" /\ address = 0
  <2> DEFINE call == HdmiCecAddLogicalAddress(hal, gHandle, address)
  <2>1. hal' = call.hal /\ (call.status = "SUCCESS" => at' = "addStore" /\ UNCHANGED outcome)
    BY <1>4 DEF test_l3_hdmi_cec_hal_AddLogicalAddress, Asserted
  <2>2. call = HdmiCecAddLogicalAddress(hal, gHandle, address)
    OBVIOUS
  <2> HIDE DEF call
  <2>3. /\ call.status = "SUCCESS"
        /\ call.hal \in Hal /\ call.hal.logical = 0
        /\ call.hal.state = hal.state /\ call.hal.type = hal.type
        /\ call.hal.rx = hal.rx
    BY <1>2, <1>4, <2>2, AddAnswer, SMTT(30)
  <2>4. TypeOK'
    BY <1>1, <2>1, <2>3 DEF TypeOK, Place
  <2>5. HalShape' /\ Owner' /\ Progress' /\ Known' /\ Failing' /\ Backlog'
    BY <1>1, <1>2, <1>4, <2>1, <2>3
       DEF HalShape, Owner, Progress, Known, Failing, Backlog, Open
  <2>6. QuietChanges /\ QuietInv => QuietInv'
    BY <1>1, <2>1, <2>3 DEF QuietInv, Quiet, MayTransmit
  <2> QED
    BY <2>4, <2>5, <2>6 DEF Kept, IInv
<1> QED
  BY <1>3, <1>4

\* Reading the added address back.
LEMMA AddStoreKeeps == ASSUME TypeOK, IInv, addStore PROVE Kept
<1> USE State
<1>1. /\ outcome = "running" /\ at = "addStore" /\ misused' = misused
      /\ UNCHANGED <<hal, gHandle, gPhysicalAddressBytes, handle, answer, backlog,
                     handler, sent>>
  BY DEF addStore, GoOn, suiteVars, handlerVars
<1>2. gHandle # 0 /\ hal.state = "open" /\ handle = 0 /\ answer = "none"
  BY <1>1, Underway
<1>3. hal.type = "SINK" /\ hal.logical = 0
  BY <1>1 DEF Progress
<1>4. gLogicalAddress' = hal.logical /\ at' = "menu" /\ UNCHANGED outcome
  BY <1>1, <1>3, Underway DEF addStore, Asserted
<1>5. TypeOK'
  BY <1>1, <1>4 DEF TypeOK, Place
<1>6. HalShape' /\ Owner' /\ Progress' /\ Failing' /\ Backlog'
  BY <1>1, <1>2, <1>4 DEF HalShape, Owner, Progress, Failing, Backlog, Open
<1>7. Known'
  BY <1>1, <1>4 DEF Known
<1>8. QuietInv => QuietInv'
  BY <1>1, <1>4 DEF QuietInv, Quiet, MayTransmit
<1> QED
  BY <1>5, <1>6, <1>7, <1>8 DEF Kept, IInv

\* Reading the address.
LEMMA GetLogicalKeeps ==
  ASSUME TypeOK, IInv, test_l3_hdmi_cec_hal_GetLogicalAddress PROVE Kept
<1> USE State
<1>1. /\ outcome = "running" /\ at = "menu" /\ misused' = ~(hal.state = "open")
      /\ UNCHANGED <<hal, gHandle, gPhysicalAddressBytes, handle, answer, backlog,
                     handler, sent>>
  BY DEF test_l3_hdmi_cec_hal_GetLogicalAddress, Choose, suiteVars, handlerVars
<1>2. /\ handle = 0 /\ answer = "none"
      /\ hal.state = "open" <=> gHandle # 0
  BY <1>1, AtMenu
<1> DEFINE status == HdmiCecGetLogicalAddress(hal, gHandle, "valid").status
<1>3. status = "SUCCESS" <=> hal.state = "open"
  <2>1. "valid" \in Pointer /\ "valid" # "NULL"
    BY DEF Pointer
  <2> QED
    BY <1>2, <2>1, ReadAnswer
<1>4. \/ /\ status = "SUCCESS"
         /\ gLogicalAddress' = hal.logical /\ at' = "menu" /\ UNCHANGED outcome
      \/ /\ status # "SUCCESS"
         /\ UNCHANGED <<gLogicalAddress, at>> /\ outcome' = "aborted"
  BY DEF test_l3_hdmi_cec_hal_GetLogicalAddress, Asserted
<1> HIDE DEF status
<1>5. TypeOK'
  BY <1>1, <1>4 DEF TypeOK, Place, Outcome
<1>6. HalShape' /\ Owner' /\ Progress' /\ Failing' /\ Backlog'
  BY <1>1, <1>2, <1>3, <1>4 DEF HalShape, Owner, Progress, Failing, Backlog, Open
<1>7. Known'
  BY <1>1, <1>4 DEF Known, MayTransmit
<1>8. QuietInv => QuietInv'
  BY <1>1, <1>4 DEF QuietInv, Quiet, MayTransmit
<1> QED
  BY <1>5, <1>6, <1>7, <1>8 DEF Kept, IInv

\* Sending a command: accepted exactly when the choice is in its place.
LEMMA TransmitKeeps ==
  ASSUME TypeOK, IInv, test_l3_hdmi_cec_hal_TransmitHdmiCecCommand PROVE Kept
<1> USE State
<1> DEFINE inPlace == hal.state = "open" /\ MayTransmit(hal)
           status == HdmiCecTx(hal, gHandle, "valid").status
<1>1. /\ outcome = "running" /\ at = "menu" /\ misused' = ~inPlace
      /\ UNCHANGED <<hal, gHandle, gLogicalAddress, gPhysicalAddressBytes, handle,
                     answer, backlog, handler>>
  BY DEF test_l3_hdmi_cec_hal_TransmitHdmiCecCommand, Choose, menuVars, suiteVars
<1>2. /\ handle = 0 /\ answer = "none"
      /\ hal.state = "open" <=> gHandle # 0
      /\ inPlace => gLogicalAddress = hal.logical
  BY <1>1, AtMenu
<1>3. status = "SUCCESS" <=> inPlace
  <2> DEFINE call == HdmiCecTx(hal, gHandle, "valid")
             arguments == "valid"
  <2>1. call = HdmiCecTx(hal, gHandle, arguments) /\ arguments \in Pointer
    BY DEF Pointer
  <2> HIDE DEF call, arguments
  <2>2. call.status = "SUCCESS" => hal.state = "open" /\ MayTransmit(hal)
    BY <2>1, SendAnswer
  <2>3. arguments = "valid" /\ gHandle # 0 /\ inPlace => call.status = "SUCCESS"
    BY <2>1, SendAnswer
  <2> QED
    BY <1>2, <2>2, <2>3 DEF call, arguments
<1>4. /\ at' = "menu"
      /\ \/ /\ gLogicalAddress # -1 /\ status = "SUCCESS" /\ UNCHANGED outcome
            /\ sent' = [initiator |-> gLogicalAddress, device |-> hal.logical]
         \/ /\ ~(gLogicalAddress # -1 /\ status = "SUCCESS")
            /\ UNCHANGED sent /\ outcome' = "aborted"
  BY <1>1 DEF test_l3_hdmi_cec_hal_TransmitHdmiCecCommand, Asserted
<1> HIDE DEF inPlace, status
<1>5. \/ /\ inPlace /\ UNCHANGED outcome
         /\ sent' = [initiator |-> hal.logical, device |-> hal.logical]
      \/ ~inPlace /\ UNCHANGED sent /\ outcome' = "aborted"
  BY <1>2, <1>3, <1>4
<1>6. /\ sent' \in [initiator : 0 .. 15, device : 0 .. 15]
      /\ sent.initiator = sent.device => sent'.initiator = sent'.device
  BY <1>5 DEF TypeOK
<1>7. TypeOK'
  BY <1>1, <1>4, <1>5, <1>6 DEF TypeOK, Place, Outcome
<1>8. HalShape' /\ Owner' /\ Progress' /\ Known' /\ Failing' /\ Backlog'
  BY <1>1, <1>4, <1>5
     DEF HalShape, Owner, Progress, Known, MayTransmit, Failing, Backlog, Open
<1>9. QuietInv => QuietInv'
  BY <1>1, <1>4, <1>5, <1>6 DEF QuietInv, Quiet, MayTransmit
<1> QED
  BY <1>7, <1>8, <1>9 DEF Kept, IInv

\* Reading the physical address, through a pointer that may not be set.
LEMMA GetPhysicalKeeps ==
  ASSUME TypeOK, IInv, test_l3_hdmi_cec_hal_GetPhysicalAddress PROVE Kept
<1> USE State
<1>1. /\ outcome = "running" /\ at = "menu" /\ misused' = ~(hal.state = "open")
      /\ UNCHANGED <<hal, gHandle, gLogicalAddress, gPhysicalAddressBytes, handle,
                     answer, backlog, handler, sent>>
  BY DEF test_l3_hdmi_cec_hal_GetPhysicalAddress, Choose, menuVars, suiteVars,
         handlerVars
<1>2. /\ hal.state = "open" <=> gHandle # 0
      /\ hal.state = "open" => gPhysicalAddressBytes
  BY <1>1, AtMenu
<1> DEFINE status == HdmiCecGetPhysicalAddress(hal, gHandle, "valid").status
<1>3. status = "SUCCESS" <=> hal.state = "open"
  <2>1. "valid" \in Pointer /\ "valid" # "NULL"
    BY DEF Pointer
  <2> QED
    BY <1>2, <2>1, ReadAnswer
<1>4. /\ at' = "menu"
      /\ \/ gPhysicalAddressBytes /\ status = "SUCCESS" /\ UNCHANGED outcome
         \/ gPhysicalAddressBytes /\ status # "SUCCESS" /\ outcome' = "aborted"
         \/ ~gPhysicalAddressBytes /\ outcome' = "menuCrash"
  BY <1>1 DEF test_l3_hdmi_cec_hal_GetPhysicalAddress, Asserted
<1> HIDE DEF status
<1>5. \/ hal.state = "open" /\ UNCHANGED outcome
      \/ hal.state # "open" /\ outcome' \in {"aborted", "menuCrash"}
  BY <1>2, <1>3, <1>4
<1>6. TypeOK'
  BY <1>1, <1>4, <1>5 DEF TypeOK, Outcome
<1>7. HalShape' /\ Owner' /\ Progress' /\ Known' /\ Failing' /\ Backlog'
  BY <1>1, <1>4, <1>5
     DEF HalShape, Owner, Progress, Known, MayTransmit, Failing, Backlog, Open
<1>8. QuietInv => QuietInv'
  BY <1>1, <1>4, <1>5 DEF QuietInv, Quiet, MayTransmit
<1> QED
  BY <1>6, <1>7, <1>8 DEF Kept, IInv

\* Removing the address of a sink: refused exactly when the choice is not in its
\* place, as what is removed is what the HAL has.
LEMMA RemoveKeeps ==
  ASSUME TypeOK, IInv, test_l3_hdmi_cec_hal_RemoveLogicalAddress PROVE Kept
<1> USE State
<1> DEFINE there == hal.state = "open" /\ hal.logical # UNREGISTERED
           call == HdmiCecRemoveLogicalAddress(hal, gHandle, gLogicalAddress)
<1>1. /\ outcome = "running" /\ at = "menu"
      /\ misused' = ~(hal.type = "SINK" => there)
      /\ UNCHANGED <<gHandle, gLogicalAddress, gPhysicalAddressBytes, handle,
                     answer, backlog, handler, sent>>
  BY DEF test_l3_hdmi_cec_hal_RemoveLogicalAddress, Choose, menuVars, suiteVars,
         handlerVars
<1>2. /\ handle = 0 /\ answer = "none"
      /\ hal.state = "open" <=> gHandle # 0
      /\ there => gLogicalAddress = hal.logical
  BY <1>1, AtMenu DEF MayTransmit
<1>3. hal.type = "SINK" /\ there => gLogicalAddress = 0
  BY <1>2 DEF HalShape
<1>4. /\ call.status = "SUCCESS" <=>
           /\ hal.state = "open" /\ gHandle # 0 /\ hal.type = "SINK"
           /\ gLogicalAddress = 0 /\ hal.logical # UNREGISTERED
      /\ call.status = "SUCCESS" =>
           /\ call.hal \in Hal /\ call.hal.logical = UNREGISTERED
           /\ call.hal.state = hal.state /\ call.hal.type = hal.type
           /\ call.hal.rx = hal.rx
      /\ call.status # "SUCCESS" => call.hal = hal
  BY RemoveAnswer, SMTT(30)
<1>5. \/ hal.type = "SOURCE" /\ UNCHANGED <<hal, at, outcome>>
      \/ /\ hal.type = "SINK" /\ gLogicalAddress = -1
         /\ UNCHANGED <<hal, at>> /\ outcome' = "aborted"
      \/ /\ hal.type = "SINK" /\ gLogicalAddress # -1 /\ hal' = call.hal
         /\ \/ call.status = "SUCCESS" /\ at' = "removeStore" /\ UNCHANGED outcome
            \/ call.status # "SUCCESS" /\ outcome' = "aborted" /\ UNCHANGED at
  BY DEF test_l3_hdmi_cec_hal_RemoveLogicalAddress, Asserted
<1> HIDE DEF call
<1>6. \/ hal.type = "SOURCE" /\ UNCHANGED <<hal, at, outcome>>
      \/ /\ hal.type = "SINK" /\ ~there /\ UNCHANGED <<hal, at>>
         /\ outcome' = "aborted"
      \/ /\ hal.type = "SINK" /\ there /\ at' = "removeStore" /\ UNCHANGED outcome
         /\ hal' \in Hal /\ hal'.logical = UNREGISTERED
         /\ hal'.state = hal.state /\ hal'.type = hal.type /\ hal'.rx = hal.rx
  BY <1>2, <1>3, <1>4, <1>5
<1>7. CASE UNCHANGED <<hal, at>>
  <2>1. /\ hal' = hal /\ at' = at
        /\ \/ UNCHANGED outcome /\ misused' = FALSE
           \/ outcome' = "aborted" /\ misused' = TRUE
    BY <1>1, <1>6, <1>7
  <2>2. TypeOK'
    BY <1>1, <2>1 DEF TypeOK, Outcome
  <2>3. HalShape' /\ Owner' /\ Progress' /\ Known' /\ Failing' /\ Backlog'
    BY <1>1, <2>1
       DEF HalShape, Owner, Progress, Known, MayTransmit, Failing, Backlog, Open
  <2>4. QuietInv => QuietInv'
    BY <1>1, <2>1 DEF QuietInv, Quiet, MayTransmit
  <2> QED
    BY <2>2, <2>3, <2>4 DEF Kept, IInv
<1>8. CASE ~UNCHANGED <<hal, at>>
  <2>1. /\ hal.type = "SINK" /\ there /\ at' = "removeStore" /\ UNCHANGED outcome
        /\ hal' \in Hal /\ hal'.logical = UNREGISTERED /\ misused' = FALSE
        /\ hal'.state = hal.state /\ hal'.type = hal.type /\ hal'.rx = hal.rx
    BY <1>1, <1>6, <1>8
  <2>2. TypeOK'
    BY <1>1, <2>1 DEF TypeOK, Place
  <2>3. HalShape' /\ Owner' /\ Progress' /\ Known' /\ Failing' /\ Backlog'
    BY <1>1, <1>2, <2>1
       DEF HalShape, Owner, Progress, Known, MayTransmit, Failing, Backlog, Open
  <2>4. QuietInv => QuietInv'
    BY <1>1, <2>1 DEF QuietInv, Quiet, MayTransmit
  <2> QED
    BY <2>2, <2>3, <2>4 DEF Kept, IInv
<1> QED
  BY <1>7, <1>8

\* Forgetting the removed address.
LEMMA RemoveStoreKeeps == ASSUME TypeOK, IInv, removeStore PROVE Kept
<1> USE State
<1>1. /\ outcome = "running" /\ at = "removeStore" /\ at' = "menu"
      /\ misused' = misused /\ gLogicalAddress' = -1
      /\ UNCHANGED <<hal, gHandle, gPhysicalAddressBytes, outcome, handle, answer,
                     backlog, handler, sent>>
  BY DEF removeStore, GoOn, suiteVars, handlerVars
<1>2. gHandle # 0 /\ hal.state = "open" /\ handle = 0 /\ answer = "none"
  BY <1>1, Underway
<1>3. TypeOK'
  BY <1>1 DEF TypeOK, Place
<1>4. HalShape' /\ Owner' /\ Progress' /\ Failing' /\ Backlog'
  BY <1>1, <1>2 DEF HalShape, Owner, Progress, Failing, Backlog, Open
<1>5. Known'
  BY <1>1 DEF Known, Progress, MayTransmit
<1>6. QuietInv => QuietInv'
  BY <1>1 DEF QuietInv, Quiet, MayTransmit
<1> QED
  BY <1>3, <1>4, <1>5, <1>6 DEF Kept, IInv

\* Asking the handler of the session to end.
LEMMA CloseKeeps == ASSUME TypeOK, IInv, test_l3_hdmi_cec_hal_Close PROVE Kept
<1> USE State
<1>1. /\ outcome = "running" /\ at = "menu" /\ misused' = ~(hal.state = "open")
      /\ UNCHANGED <<hal, gHandle, gLogicalAddress, gPhysicalAddressBytes, handle,
                     answer, handler, sent>>
  BY DEF test_l3_hdmi_cec_hal_Close, Choose, menuVars, suiteVars
<1>2. /\ handle = 0 /\ answer = "none"
      /\ hal.state = "open" <=> gHandle # 0
  BY <1>1, AtMenu
<1> DEFINE accepted == HdmiCecClose(hal, gHandle).status = "SUCCESS"
<1>3. accepted <=> hal.state = "open"
  BY <1>2, CloseAnswer
<1>4. \/ /\ accepted /\ at' = "closeJoin" /\ UNCHANGED outcome
         /\ backlog' = Append(backlog, EXIT)
      \/ /\ ~accepted /\ at' = "menu" /\ outcome' = "aborted" /\ backlog' = backlog
  BY <1>1 DEF test_l3_hdmi_cec_hal_Close, Asserted
<1> HIDE DEF accepted
<1>5. backlog' \in Seq(Command \cup {EXIT})
  <2> DEFINE S == Command \cup {EXIT}
  <2>1. backlog \in Seq(S) /\ EXIT \in S
    BY DEF TypeOK
  <2> HIDE DEF S
  <2>2. backlog' \in Seq(S)
    BY <1>4, <2>1, Queues
  <2> QED
    BY <2>2 DEF S
<1>6. TypeOK'
  BY <1>1, <1>4, <1>5 DEF TypeOK, Place, Outcome
<1>7. HalShape' /\ Owner' /\ Progress' /\ Known' /\ Failing' /\ Backlog'
  BY <1>1, <1>2, <1>3, <1>4
     DEF HalShape, Owner, Progress, Known, MayTransmit, Failing, Backlog, Open
<1>8. QuietInv => QuietInv'
  BY <1>1, <1>4 DEF QuietInv, Quiet, MayTransmit
<1> QED
  BY <1>6, <1>7, <1>8 DEF Kept, IInv

\* What freeing the HAL leaves, whoever had it.
LEMMA Freed ==
  ASSUME TypeOK, IInv, Open, NEW any \in Handle, any # 0,
         hal' = HdmiCecClose(hal, any).hal, handler' = NoThread, backlog' = <<>>
  PROVE  /\ hal' \in Hal /\ hal'.state = "closed" /\ hal'.rx = "nobody"
         /\ hal'.type = hal.type /\ hal'.logical = UNREGISTERED
         /\ handler' \in ThreadState /\ handler'.at = "none"
         /\ backlog' \in Seq(Command \cup {EXIT})
<1>1. hal \in Hal /\ hal.state = "open"
  BY State DEF Open
<1> DEFINE call == HdmiCecClose(hal, any)
<1>2. call = HdmiCecClose(hal, any) /\ hal' = call.hal
  OBVIOUS
<1> HIDE DEF call
<1>3. /\ call.hal \in Hal /\ call.hal.state = "closed"
      /\ call.hal.type = hal.type /\ call.hal.rx = "nobody"
      /\ call.hal.logical = UNREGISTERED
  BY <1>1, <1>2, CloseAnswer
<1>4. handler' \in ThreadState /\ handler'.at = "none"
  BY Threads
<1>5. backlog' \in Seq(Command \cup {EXIT})
  OBVIOUS
<1> QED
  BY <1>2, <1>3, <1>4, <1>5

\* The handler has ended and the HAL is freed.
LEMMA CloseJoinKeeps == ASSUME TypeOK, IInv, closeJoin PROVE Kept
<1> USE State
<1>1. /\ outcome = "running" /\ at = "closeJoin" /\ at' = "menu"
      /\ misused' = misused /\ gHandle' = 0 /\ backlog' = <<>>
      /\ UNCHANGED <<gLogicalAddress, gPhysicalAddressBytes, outcome, handle,
                     answer, sent>>
  BY DEF closeJoin, GoOn, suiteVars
<1>2. gHandle # 0 /\ hal.state = "open" /\ handle = 0 /\ answer = "none"
  BY <1>1, Underway
<1>3. /\ hal' \in Hal /\ hal'.state = "closed" /\ hal'.rx = "nobody"
      /\ hal'.type = hal.type /\ hal'.logical = UNREGISTERED
      /\ handler' \in ThreadState /\ handler'.at = "none"
      /\ backlog' \in Seq(Command \cup {EXIT})
  BY <1>2, Freed DEF closeJoin, Open
<1>4. TypeOK'
  BY <1>1, <1>3 DEF TypeOK, Place, Handle
<1>5. HalShape' /\ Owner' /\ Progress' /\ Known' /\ Failing' /\ Backlog'
  BY <1>1, <1>2, <1>3
     DEF HalShape, Owner, Progress, Known, Failing, Backlog, Open
<1>6. QuietInv => QuietInv'
  BY <1>1, <1>3 DEF QuietInv
<1> QED
  BY <1>4, <1>5, <1>6 DEF Kept, IInv

------------------------------------------------------------------------------
\* The tests of the other suites

\* A test begins with no handle.
LEMMA SuiteBeginKeeps == ASSUME TypeOK, IInv, suiteBegin PROVE Kept
<1> USE State
<1>1. /\ outcome = "running" /\ at = "menu" /\ at' = "suite" /\ misused' = FALSE
      /\ handle' = 0 /\ answer' = "none"
      /\ UNCHANGED <<hal, gHandle, gLogicalAddress, gPhysicalAddressBytes, outcome,
                     backlog, handler, sent>>
  BY DEF suiteBegin, Choose, menuVars, handlerVars
<1>2. TypeOK'
  BY <1>1 DEF TypeOK, Place, Handle
<1>3. HalShape' /\ Owner' /\ Progress' /\ Known' /\ Failing' /\ Backlog'
  BY <1>1 DEF HalShape, Owner, Progress, Known, MayTransmit, Failing, Backlog, Open
<1>4. QuietInv => QuietInv'
  BY <1>1 DEF QuietInv, Quiet, MayTransmit
<1> QED
  BY <1>2, <1>3, <1>4 DEF Kept, IInv

\* A test opens the HAL, or finds that L3 has it.
LEMMA SuiteOpenKeeps == ASSUME TypeOK, IInv, suiteOpen PROVE Kept
<1> USE State
<1>1. /\ outcome = "running" /\ at = "suite" /\ at' = "suite"
      /\ misused' = misused
      /\ UNCHANGED <<gHandle, gLogicalAddress, gPhysicalAddressBytes, outcome,
                     backlog, sent>>
  BY DEF suiteOpen, GoOn, menuVars
<1>2. PICK place \in Pointer, allocated \in Allocated :
        LET call == HdmiCecOpen(hal, place, allocated) IN
          /\ hal' = call.hal
          /\ answer' = call.status
          /\ IF call.status = "SUCCESS"
             THEN handle' = 1 /\ handler' = Loop
             ELSE UNCHANGED <<handle, handler>>
  BY DEF suiteOpen
<1> DEFINE call == HdmiCecOpen(hal, place, allocated)
<1>3. /\ hal' = call.hal /\ answer' = call.status
      /\ call.status = "SUCCESS" => handle' = 1 /\ handler' = Loop
      /\ call.status # "SUCCESS" => UNCHANGED <<handle, handler>>
  BY <1>2
<1>4. allocated \in 0 .. 15
  BY Parameters DEF Allocated, UNREGISTERED
<1>5. call = HdmiCecOpen(hal, place, allocated) /\ hal \in Hal
  OBVIOUS
<1> HIDE DEF call
<1>6. /\ call.status \in Status
      /\ call.status = "SUCCESS" =>
           /\ hal.state = "closed"
           /\ call.hal \in Hal /\ call.hal.state = "open"
           /\ call.hal.type = hal.type /\ call.hal.rx = "nobody"
      /\ call.status = "SUCCESS" /\ hal.type = "SINK" =>
           call.hal.logical = UNREGISTERED
      /\ call.status # "SUCCESS" => call.hal = hal
      /\ hal.state = "open" => call.status \in {"INVALID_HANDLE", "ALREADY_OPEN"}
  BY ONLY <1>4, <1>5, OpenAnswer, place \in Pointer, SMTT(60)
<1>7. CASE call.status = "SUCCESS"
  <2>1. /\ hal.state = "closed" /\ hal' \in Hal /\ hal'.state = "open"
        /\ hal'.type = hal.type /\ hal'.rx = "nobody" /\ handle' = 1
        /\ hal'.type = "SINK" => hal'.logical = UNREGISTERED
        /\ handler' \in ThreadState /\ handler'.at = "loop"
        /\ answer' \in Status
    BY <1>3, <1>6, <1>7, Threads
  <2>2. gHandle = 0
    BY <2>1 DEF Owner, Open
  <2>3. TypeOK'
    BY <1>1, <2>1 DEF TypeOK, Handle
  <2>4. HalShape' /\ Owner' /\ Progress' /\ Known' /\ Failing' /\ Backlog'
    BY <1>1, <2>1, <2>2
       DEF HalShape, Owner, Progress, Known, Failing, Backlog, Open
  <2>5. QuietInv => QuietInv'
    BY <1>1, <2>1 DEF QuietInv
  <2> QED
    BY <2>3, <2>4, <2>5 DEF Kept, IInv
<1>8. CASE call.status # "SUCCESS"
  <2>1. /\ hal' = hal /\ answer' \in Status /\ UNCHANGED <<handle, handler>>
        /\ hal.state = "open" => answer' \in {"INVALID_HANDLE", "ALREADY_OPEN"}
    BY <1>3, <1>6, <1>8
  <2>2. TypeOK'
    BY <1>1, <2>1 DEF TypeOK
  <2>3. HalShape' /\ Progress' /\ Known' /\ Failing' /\ Backlog'
    BY <1>1, <2>1
       DEF HalShape, Progress, Known, MayTransmit, Failing, Backlog, Open
  <2>4. Owner'
    BY <1>1, <2>1 DEF Owner, Open
  <2>5. QuietInv => QuietInv'
    BY <1>1, <2>1 DEF QuietInv, Quiet, MayTransmit
  <2> QED
    BY <2>2, <2>3, <2>4, <2>5 DEF Kept, IInv
<1> QED
  BY <1>7, <1>8

\* What a call of a test can do to the HAL: nothing without a handle, and with
\* one it sets its own callback, or the address of a sink.
Harmless(call) ==
  /\ call.status \in Status /\ call.hal \in Hal
  /\ call.hal.state = hal.state /\ call.hal.type = hal.type
  /\ call.hal.rx \in {hal.rx, "suite", "nobody"}
  /\ call.hal.logical \in {hal.logical, 0, UNREGISTERED}
  /\ hal.state # "open" \/ handle = 0 => call.hal = hal
  /\ hal.state = "open" /\ handle = 0 => call.status = "INVALID_HANDLE"

LEMMA SuiteAnswers ==
  ASSUME hal \in Hal, handle \in Handle, NEW call \in SuiteCalls
  PROVE  Harmless(call)
<1>1. \A h \in {0, handle} : h \in Handle /\ (handle = 0 => h = 0)
  BY DEF Handle
<1>2. PICK h \in {0, handle} :
        \/ \E p \in Pointer : \/ call = HdmiCecGetPhysicalAddress(hal, h, p)
                              \/ call = HdmiCecGetLogicalAddress(hal, h, p)
        \/ \E p \in Pointer : call = HdmiCecTx(hal, h, p) \/ call = HdmiCecTxAsync(hal, h, p)
        \/ \E a \in {-1, 0, 16} : call = HdmiCecAddLogicalAddress(hal, h, a)
        \/ \E a \in {-1, 0, 16} : call = HdmiCecRemoveLogicalAddress(hal, h, a)
        \/ \E r \in {"suite", "nobody"} : call = HdmiCecSetRxCallback(hal, h, r)
        \/ \E p \in Pointer : call = HdmiCecSetTxCallback(hal, h, p)
  BY DEF SuiteCalls
<1>3. h \in Handle /\ (handle = 0 => h = 0)
  BY <1>1
<1>4. CASE \E p \in Pointer : \/ call = HdmiCecGetPhysicalAddress(hal, h, p)
                              \/ call = HdmiCecGetLogicalAddress(hal, h, p)
  BY <1>3, <1>4, ReadAnswer DEF Harmless
<1>5. CASE \E p \in Pointer : call = HdmiCecTx(hal, h, p) \/ call = HdmiCecTxAsync(hal, h, p)
  BY <1>3, <1>5, SendAnswer DEF Harmless
<1>6. CASE \E a \in {-1, 0, 16} : call = HdmiCecAddLogicalAddress(hal, h, a)
  <2>1. PICK a \in {-1, 0, 16} : call = HdmiCecAddLogicalAddress(hal, h, a)
    BY <1>6
  <2>2. /\ call.status \in Status
        /\ call.status = "SUCCESS" =>
             /\ hal.state = "open" /\ h # 0
             /\ call.hal \in Hal /\ call.hal.logical = 0
             /\ call.hal.state = hal.state /\ call.hal.type = hal.type
             /\ call.hal.rx = hal.rx
        /\ call.status # "SUCCESS" => call.hal = hal
        /\ hal.state = "open" /\ h = 0 => call.status = "INVALID_HANDLE"
    BY <1>3, <2>1, AddAnswer, SMTT(60)
  <2> QED
    BY <1>3, <2>2 DEF Harmless
<1>7. CASE \E a \in {-1, 0, 16} : call = HdmiCecRemoveLogicalAddress(hal, h, a)
  <2>1. PICK a \in {-1, 0, 16} : call = HdmiCecRemoveLogicalAddress(hal, h, a)
    BY <1>7
  <2>2. /\ call.status \in Status
        /\ call.status = "SUCCESS" =>
             /\ hal.state = "open" /\ h # 0
             /\ call.hal \in Hal /\ call.hal.logical = UNREGISTERED
             /\ call.hal.state = hal.state /\ call.hal.type = hal.type
             /\ call.hal.rx = hal.rx
        /\ call.status # "SUCCESS" => call.hal = hal
        /\ hal.state = "open" /\ h = 0 => call.status = "INVALID_HANDLE"
    BY <1>3, <2>1, RemoveAnswer, SMTT(60)
  <2> QED
    BY <1>3, <2>2 DEF Harmless
<1>8. CASE \E r \in {"suite", "nobody"} : call = HdmiCecSetRxCallback(hal, h, r)
  <2>1. PICK r \in {"suite", "nobody"} : call = HdmiCecSetRxCallback(hal, h, r)
    BY <1>8
  <2>2. r \in Receiver
    BY DEF Receiver
  <2>3. /\ call.status \in Status
        /\ call.status = "SUCCESS" =>
             /\ hal.state = "open" /\ h # 0
             /\ call.hal \in Hal /\ call.hal.logical = hal.logical
             /\ call.hal.state = hal.state /\ call.hal.type = hal.type
             /\ call.hal.rx = r
        /\ call.status # "SUCCESS" => call.hal = hal
        /\ hal.state = "open" /\ h = 0 => call.status = "INVALID_HANDLE"
    BY <1>3, <2>1, <2>2, RxAnswer, SMTT(60)
  <2> QED
    BY <1>3, <2>3 DEF Harmless
<1>9. CASE \E p \in Pointer : call = HdmiCecSetTxCallback(hal, h, p)
  <2>1. PICK p \in Pointer : call = HdmiCecSetTxCallback(hal, h, p)
    BY <1>9
  <2>2. /\ call.status \in Status
        /\ call.status = "SUCCESS" =>
             /\ hal.state = "open" /\ h # 0
             /\ call.hal \in Hal /\ call.hal.logical = hal.logical
             /\ call.hal.state = hal.state /\ call.hal.type = hal.type
             /\ call.hal.rx = hal.rx
        /\ call.status # "SUCCESS" => call.hal = hal
        /\ hal.state = "open" /\ h = 0 => call.status = "INVALID_HANDLE"
    BY <1>3, <2>1, TxAnswer, SMTT(60)
  <2> QED
    BY <1>3, <2>2 DEF Harmless
<1> QED
  BY <1>2, <1>4, <1>5, <1>6, <1>7, <1>8, <1>9

\* A call of a test.
LEMMA SuiteCallKeeps == ASSUME TypeOK, IInv, suiteCall PROVE Kept
<1> USE State
<1>1. /\ outcome = "running" /\ at = "suite" /\ at' = "suite"
      /\ misused' = misused
      /\ UNCHANGED <<gHandle, gLogicalAddress, gPhysicalAddressBytes, outcome,
                     handle, backlog, handler, sent>>
  BY DEF suiteCall, GoOn, menuVars, handlerVars
<1>2. PICK call \in SuiteCalls : hal' = call.hal /\ answer' = call.status
  BY DEF suiteCall
<1>3. Harmless(call)
  BY SuiteAnswers
<1>4. /\ answer' \in Status /\ hal' \in Hal
      /\ hal'.state = hal.state /\ hal'.type = hal.type
      /\ hal'.rx \in {hal.rx, "suite", "nobody"}
      /\ hal'.logical \in {hal.logical, 0, UNREGISTERED}
      /\ hal.state # "open" \/ handle = 0 => hal' = hal
      /\ hal.state = "open" /\ handle = 0 => answer' = "INVALID_HANDLE"
  BY <1>2, <1>3 DEF Harmless
<1>5. gHandle # 0 => handle = 0 /\ hal.state = "open"
  BY DEF Owner, Open
<1>6. TypeOK'
  BY <1>1, <1>4 DEF TypeOK
<1>7. HalShape' /\ Failing' /\ Backlog'
  BY <1>1, <1>4 DEF HalShape, Failing, Backlog, Open
<1>8. Owner' /\ Progress'
  BY <1>1, <1>4, <1>5 DEF Owner, Progress, Open
<1>9. Known'
  BY <1>1, <1>4, <1>5 DEF Known, MayTransmit
<1>10. QuietInv => QuietInv'
  BY <1>1, <1>4, <1>5 DEF QuietInv, Quiet, MayTransmit, Backlog
<1> QED
  BY <1>6, <1>7, <1>8, <1>9, <1>10 DEF Kept, IInv

\* A test asks its handler to end.
LEMMA SuiteCloseKeeps == ASSUME TypeOK, IInv, suiteClose PROVE Kept
<1> USE State
<1>1. /\ outcome = "running" /\ at = "suite" /\ misused' = misused
      /\ UNCHANGED <<hal, gHandle, gLogicalAddress, gPhysicalAddressBytes, outcome,
                     handle, handler, sent>>
  BY DEF suiteClose, GoOn, menuVars
<1>2. PICK h \in {0, handle} :
        LET status == HdmiCecClose(hal, h).status IN
          /\ answer' = status
          /\ IF status = "SUCCESS"
             THEN at' = "suiteJoin" /\ backlog' = Append(backlog, EXIT)
             ELSE UNCHANGED <<at, backlog>>
  BY DEF suiteClose
<1> DEFINE call == HdmiCecClose(hal, h)
<1>3. call = HdmiCecClose(hal, h) /\ h \in Handle /\ (handle = 0 => h = 0)
  BY DEF Handle
<1>4. /\ answer' = call.status
      /\ call.status = "SUCCESS" =>
           at' = "suiteJoin" /\ backlog' = Append(backlog, EXIT)
      /\ call.status # "SUCCESS" => UNCHANGED <<at, backlog>>
  BY <1>2
<1> HIDE DEF call
<1>5. /\ call.status \in Status
      /\ call.status = "SUCCESS" => hal.state = "open" /\ h # 0
      /\ hal.state = "open" /\ h = 0 => call.status = "INVALID_HANDLE"
  BY <1>3, CloseAnswer
<1>6. gHandle # 0 => handle = 0 /\ hal.state = "open"
  BY DEF Owner, Open
<1>7. /\ answer' \in Status
      /\ gHandle # 0 => answer' = "INVALID_HANDLE"
      /\ \/ /\ at' = "suiteJoin" /\ backlog' = Append(backlog, EXIT)
            /\ gHandle = 0 /\ handle # 0 /\ hal.state = "open"
         \/ at' = "suite" /\ backlog' = backlog
  BY <1>1, <1>3, <1>4, <1>5, <1>6
<1>8. backlog' \in Seq(Command \cup {EXIT})
  <2> DEFINE S == Command \cup {EXIT}
  <2>1. backlog \in Seq(S) /\ EXIT \in S
    BY DEF TypeOK
  <2> HIDE DEF S
  <2>2. backlog' \in Seq(S)
    BY <1>7, <2>1, Queues
  <2> QED
    BY <2>2 DEF S
<1>9. TypeOK'
  BY <1>1, <1>7, <1>8 DEF TypeOK, Place
<1>10. HalShape' /\ Owner' /\ Progress' /\ Known' /\ Failing' /\ Backlog'
  BY <1>1, <1>7
     DEF HalShape, Owner, Progress, Known, MayTransmit, Failing, Backlog, Open
<1>11. QuietInv => QuietInv'
  BY <1>1, <1>7 DEF QuietInv, Quiet, MayTransmit
<1> QED
  BY <1>9, <1>10, <1>11 DEF Kept, IInv

\* The handler of the test has ended and its HAL is freed.
LEMMA SuiteJoinKeeps == ASSUME TypeOK, IInv, suiteJoin PROVE Kept
<1> USE State
<1>1. /\ outcome = "running" /\ at = "suiteJoin" /\ at' = "suite"
      /\ misused' = misused /\ backlog' = <<>>
      /\ UNCHANGED <<gHandle, gLogicalAddress, gPhysicalAddressBytes, outcome,
                     handle, answer, sent>>
  BY DEF suiteJoin, GoOn, suiteVars, menuVars
<1>2. handle # 0 /\ gHandle = 0 /\ Open /\ 1 \in Handle /\ 1 # 0
  BY <1>1 DEF Owner, Handle
<1>3. /\ hal' \in Hal /\ hal'.state = "closed" /\ hal'.rx = "nobody"
      /\ hal'.type = hal.type /\ hal'.logical = UNREGISTERED
      /\ handler' \in ThreadState /\ handler'.at = "none"
      /\ backlog' \in Seq(Command \cup {EXIT})
  BY <1>2, Freed DEF suiteJoin
<1>4. TypeOK'
  BY <1>1, <1>3 DEF TypeOK, Place
<1>5. HalShape' /\ Owner' /\ Progress' /\ Known' /\ Failing' /\ Backlog'
  BY <1>1, <1>2, <1>3
     DEF HalShape, Owner, Progress, Known, Failing, Backlog, Open
<1>6. QuietInv => QuietInv'
  BY <1>1, <1>3 DEF QuietInv
<1> QED
  BY <1>4, <1>5, <1>6 DEF Kept, IInv

\* A test ends, with the HAL it opened closed.
LEMMA SuiteEndKeeps == ASSUME TypeOK, IInv, suiteEnd PROVE Kept
<1> USE State
<1>1. /\ outcome = "running" /\ at = "suite" /\ at' = "menu" /\ misused' = misused
      /\ handle' = 0 /\ answer' = "none"
      /\ handle # 0 => hal.state # "open"
      /\ UNCHANGED <<hal, gHandle, gLogicalAddress, gPhysicalAddressBytes, outcome,
                     backlog, handler, sent>>
  BY DEF suiteEnd, GoOn, menuVars, handlerVars
<1>2. TypeOK'
  BY <1>1 DEF TypeOK, Place, Handle
<1>3. HalShape' /\ Owner' /\ Progress' /\ Known' /\ Failing' /\ Backlog'
  BY <1>1 DEF HalShape, Owner, Progress, Known, MayTransmit, Failing, Backlog, Open
<1>4. QuietInv => QuietInv'
  BY <1>1 DEF QuietInv, Quiet, MayTransmit
<1> QED
  BY <1>2, <1>3, <1>4 DEF Kept, IInv

------------------------------------------------------------------------------
\* The control plane and the handler thread

\* A command comes.
LEMMA SendKeeps == ASSUME TypeOK, IInv, Send PROVE Kept
<1> USE State
<1>1. /\ outcome = "running" /\ hal.state = "open"
      /\ QuietChanges => at \notin {"initRx", "initBytes", "initLogical", "addStore"}
      /\ UNCHANGED <<hal, gHandle, gLogicalAddress, gPhysicalAddressBytes, at,
                     outcome, misused, handle, answer, handler, sent>>
  BY DEF Send, menuVars, suiteVars
<1>2. PICK command \in Command : backlog' = Append(backlog, command)
  BY DEF Send
<1>3. backlog' \in Seq(Command \cup {EXIT})
  <2> DEFINE S == Command \cup {EXIT}
  <2>1. backlog \in Seq(S) /\ command \in S
    BY DEF TypeOK
  <2> HIDE DEF S
  <2>2. backlog' \in Seq(S)
    BY <1>2, <2>1, Queues
  <2> QED
    BY <2>2 DEF S
<1>4. TypeOK'
  BY <1>1, <1>3 DEF TypeOK
<1>5. HalShape' /\ Owner' /\ Progress' /\ Known' /\ Failing' /\ Backlog'
  BY <1>1 DEF HalShape, Owner, Progress, Known, MayTransmit, Failing, Backlog, Open
<1>6. QuietChanges /\ QuietInv => QuietInv'
  BY <1>1 DEF QuietInv, MayTransmit
<1> QED
  BY <1>4, <1>5, <1>6 DEF Kept, IInv

\* The handler takes a message and, if it answers, builds its answer.
LEMMA HandlerKeeps == ASSUME TypeOK, IInv, MessageHandler PROVE Kept
<1> USE State
<1> DEFINE message == Head(backlog)
           answered == hal.rx = "L3" /\ message.reply # "none"
           to == IF message.reply = "direct" THEN "sender" ELSE "all"
<1>1. /\ outcome = "running" /\ handler.at = "loop" /\ backlog # <<>>
      /\ backlog' = Tail(backlog)
      /\ UNCHANGED <<hal, gHandle, gLogicalAddress, gPhysicalAddressBytes, at,
                     misused, handle, answer, sent>>
  BY DEF MessageHandler, menuVars, suiteVars
<1>2. /\ backlog' \in Seq(Command \cup {EXIT})
      /\ message \in Command \cup {EXIT}
  <2> DEFINE S == Command \cup {EXIT}
  <2>1. backlog \in Seq(S)
    BY DEF TypeOK
  <2> HIDE DEF S
  <2>2. backlog' \in Seq(S) /\ message \in S
    BY <1>1, <2>1, Queues
  <2> QED
    BY <2>2 DEF S
<1>3. message.type = "COMMAND" => message.dest \in 0 .. 15
  BY <1>2, Parameters DEF Command, EXIT
<1>4. message.type \in {"COMMAND", "EXIT_REQUESTED"}
  BY <1>2 DEF Command, EXIT
<1>5. Initiator(message) =
        IF to = "sender" THEN message.dest ELSE gLogicalAddress % 16
  BY DEF Initiator
<1>6. hal.state = "open" /\ (hal.rx = "L3" => gHandle # 0)
  BY <1>1 DEF Backlog, Progress, Open
<1>7. CASE \/ message.type = "EXIT_REQUESTED"
           \/ message.type = "COMMAND" /\ ~answered
  <2>1. /\ UNCHANGED outcome
        /\ handler' \in ThreadState /\ handler'.at \in {"loop", "done"}
    <3>1. handler \in ThreadState
      BY DEF TypeOK
    <3>2. UNCHANGED outcome
          /\ (handler' = handler \/ handler' = [handler EXCEPT !.at = "done"])
      BY <1>7 DEF MessageHandler
    <3> QED
      BY <1>1, <3>1, <3>2 DEF ThreadState
  <2>2. TypeOK'
    BY <1>1, <1>2, <2>1 DEF TypeOK
  <2>3. HalShape' /\ Owner' /\ Progress' /\ Known' /\ Failing' /\ Backlog'
    BY <1>1, <1>6, <2>1
       DEF HalShape, Owner, Progress, Known, MayTransmit, Failing, Backlog, Open
  <2>4. QuietInv => QuietInv'
    BY <1>1, <2>1 DEF QuietInv, Quiet
  <2> QED
    BY <2>2, <2>3, <2>4 DEF Kept, IInv
<1>8. CASE message.type = "COMMAND" /\ answered
  <2>1. IF message.reply = "address" /\ ~gPhysicalAddressBytes
        THEN outcome' = "callbackCrash" /\ UNCHANGED handler
        ELSE /\ handler' = Thread("respond", to, Initiator(message))
             /\ UNCHANGED outcome
    BY <1>8 DEF MessageHandler
  <2>2. gHandle # 0
    BY <1>6, <1>8
  <2>3. CASE message.reply = "address" /\ ~gPhysicalAddressBytes
    <3>1. outcome' = "callbackCrash" /\ UNCHANGED handler
      BY <2>1, <2>3
    <3>2. TypeOK'
      BY <1>1, <1>2, <3>1 DEF TypeOK, Outcome
    <3>3. HalShape' /\ Owner' /\ Progress' /\ Known' /\ Failing' /\ Backlog'
      BY <1>1, <1>6, <3>1
         DEF HalShape, Owner, Progress, Known, MayTransmit, Failing, Backlog, Open
    <3>4. ~QuietInv
      BY <1>1, <2>2, <2>3 DEF QuietInv, Quiet, Progress
    <3> QED
      BY <3>2, <3>3, <3>4 DEF Kept, IInv
  <2>4. CASE ~(message.reply = "address" /\ ~gPhysicalAddressBytes)
    <3> DEFINE i == IF to = "sender" THEN message.dest ELSE gLogicalAddress % 16
    <3>1. handler' = Thread("respond", to, i) /\ UNCHANGED outcome
      BY <1>5, <2>1, <2>4
    <3>2. i \in 0 .. 15 /\ to \in {"sender", "all"}
      BY <1>3, <1>8
    <3>3. at \notin {"initRx", "initBytes", "initLogical", "addStore"}
            /\ to = "all" /\ MayTransmit(hal) => i = hal.logical
      BY <2>2 DEF Known
    <3> HIDE DEF i, to
    <3>4. /\ handler' \in ThreadState /\ handler'.at = "respond"
          /\ handler'.to = to /\ handler'.initiator = i
      BY <3>1, <3>2, Threads, "respond" \in {"none", "loop", "respond", "done"}
    <3>5. TypeOK'
      BY <1>1, <1>2, <3>1, <3>4 DEF TypeOK
    <3>6. HalShape' /\ Owner' /\ Progress' /\ Known' /\ Failing' /\ Backlog'
      BY <1>1, <1>6, <2>2, <3>1
         DEF HalShape, Owner, Progress, Known, MayTransmit, Failing, Backlog, Open
    <3>7. QuietInv => QuietInv'
      BY <1>1, <3>1, <3>3, <3>4 DEF QuietInv, Quiet, MayTransmit
    <3> QED
      BY <3>5, <3>6, <3>7 DEF Kept, IInv
  <2> QED
    BY <2>3, <2>4
<1> QED
  BY <1>4, <1>7, <1>8

\* The callback transmits its answer.
LEMMA ResponseKeeps == ASSUME TypeOK, IInv, sendResponse PROVE Kept
<1> USE State
<1>1. /\ outcome = "running" /\ handler.at = "respond" /\ handler' = Loop
      /\ UNCHANGED <<hal, gHandle, gLogicalAddress, gPhysicalAddressBytes, at,
                     outcome, misused, handle, answer, backlog>>
  BY DEF sendResponse, menuVars, suiteVars
<1>2. handler' \in ThreadState /\ handler'.at = "loop"
  BY <1>1, Threads
<1>3. handler \in ThreadState /\ handler.initiator \in 0 .. 15
  BY DEF TypeOK, ThreadState
<1>4. HdmiCecTx(hal, 1, "valid").status = "SUCCESS" => MayTransmit(hal)
  <2> DEFINE call == HdmiCecTx(hal, 1, "valid")
             arguments == "valid"
  <2>1. call = HdmiCecTx(hal, 1, arguments) /\ arguments \in Pointer /\ 1 \in Handle
    BY DEF Pointer, Handle
  <2> HIDE DEF call, arguments
  <2>2. call.status = "SUCCESS" => MayTransmit(hal)
    BY <2>1, SendAnswer
  <2> QED
    BY <2>2 DEF call
<1>5. \/ sent' = sent
      \/ /\ handler.to = "all" /\ MayTransmit(hal)
         /\ sent' = [initiator |-> handler.initiator, device |-> hal.logical]
  BY <1>4 DEF sendResponse
<1>6. /\ sent' \in [initiator : 0 .. 15, device : 0 .. 15]
      /\ QuietInv => sent'.initiator = sent'.device
  BY <1>1, <1>3, <1>5 DEF TypeOK, QuietInv
<1>7. TypeOK'
  BY <1>1, <1>2, <1>6 DEF TypeOK
<1>8. HalShape' /\ Owner' /\ Progress' /\ Known' /\ Failing' /\ Backlog'
  BY <1>1, <1>2
     DEF HalShape, Owner, Progress, Known, MayTransmit, Failing, Backlog, Open
<1>9. QuietInv => QuietInv'
  BY <1>1, <1>2, <1>6 DEF QuietInv, Quiet
<1> QED
  BY <1>7, <1>8, <1>9 DEF Kept, IInv

------------------------------------------------------------------------------
\* The program

\* The menu, with nothing started.
LEMMA InitInv == ASSUME Init PROVE TypeOK /\ IInv /\ QuietInv
<1>1. PICK type \in {"SINK", "SOURCE"} : hal = NoHal(type)
  BY DEF Init
<1>2. /\ hal \in Hal /\ hal.state = "absent" /\ hal.logical = UNREGISTERED
      /\ hal.rx = "nobody"
  BY <1>1, FreshHal, "absent" \in {"absent", "closed", "open"},
     UNREGISTERED \in 0 .. 15 DEF NoHal, UNREGISTERED
<1>3. handler = NoThread /\ handler \in ThreadState /\ handler.at = "none"
  BY Threads DEF Init
<1>4. sent.initiator = sent.device /\ sent \in [initiator : 0 .. 15, device : 0 .. 15]
  BY DEF Init, NoFrame, UNREGISTERED
<1>5. /\ gHandle = 0 /\ gLogicalAddress = -1 /\ gPhysicalAddressBytes = FALSE
      /\ at = "menu" /\ outcome = "running" /\ misused = FALSE
      /\ handle = 0 /\ answer = "none" /\ backlog = <<>>
  BY DEF Init
<1>6. TypeOK
  <2>1. backlog \in Seq(Command \cup {EXIT})
    BY <1>5
  <2>2. gPhysicalAddressBytes \in BOOLEAN /\ misused \in BOOLEAN
    BY <1>5
  <2>3. gHandle \in Handle /\ handle \in Handle /\ gLogicalAddress \in -1 .. 15
    BY <1>5 DEF Handle
  <2>4. /\ at \in Place /\ outcome \in Outcome /\ answer \in Status \cup {"none"}
    BY <1>5 DEF Place, Outcome
  <2> QED
    BY <1>2, <1>3, <1>4, <2>1, <2>2, <2>3, <2>4 DEF TypeOK
<1>7. IInv
  BY <1>2, <1>3, <1>5
     DEF IInv, HalShape, Owner, Progress, Known, Failing, Backlog, Open
<1>8. QuietInv
  BY <1>2, <1>3, <1>4, <1>5 DEF QuietInv
<1> QED
  BY <1>6, <1>7, <1>8

\* Every step of the program.
LEMMA Step == ASSUME TypeOK, IInv, [Next]_vars PROVE Kept
<1>1. CASE Choice
  BY <1>1, ComponentKeeps, InitKeeps, AddKeeps, GetLogicalKeeps, TransmitKeeps,
     GetPhysicalKeeps, RemoveKeeps, CloseKeeps, SuiteBeginKeeps DEF Choice
<1>2. CASE ChoiceStep
  BY <1>2, InitRxKeeps, InitBytesKeeps, InitLogicalKeeps, AddStoreKeeps,
     RemoveStoreKeeps, CloseJoinKeeps DEF ChoiceStep
<1>3. CASE SuiteStep
  BY <1>3, SuiteOpenKeeps, SuiteCallKeeps, SuiteCloseKeeps, SuiteJoinKeeps,
     SuiteEndKeeps DEF SuiteStep
<1>4. CASE Send \/ MessageHandler \/ sendResponse
  BY <1>4, SendKeeps, HandlerKeeps, ResponseKeeps
<1>5. CASE UNCHANGED vars
  <2>1. UNCHANGED <<hal, gHandle, gLogicalAddress, gPhysicalAddressBytes, at,
                    outcome, misused, handle, answer, backlog, handler, sent>>
    BY <1>5 DEF vars, menuVars, suiteVars, handlerVars
  <2>2. TypeOK'
    BY <2>1 DEF TypeOK
  <2>3. IInv'
    BY <2>1
       DEF IInv, HalShape, Owner, Progress, Known, MayTransmit, Failing, Backlog, Open
  <2>4. QuietInv => QuietInv'
    BY <2>1 DEF QuietInv, Quiet, MayTransmit
  <2> QED
    BY <2>2, <2>3, <2>4 DEF Kept
<1> QED
  BY <1>1, <1>2, <1>3, <1>4, <1>5 DEF Next

\* The inductive invariant.
LEMMA Invariant == Spec => [](TypeOK /\ IInv)
<1>1. Init => TypeOK /\ IInv
  BY InitInv
<1>2. TypeOK /\ IInv /\ [Next]_vars => (TypeOK /\ IInv)'
  BY Step DEF Kept
<1> QED
  BY <1>1, <1>2, PTL DEF Spec

\* With quiet changes, what they add.
LEMMA QuietInvariant ==
  ASSUME QuietChanges PROVE Spec => [](TypeOK /\ IInv /\ QuietInv)
<1>1. Init => TypeOK /\ IInv /\ QuietInv
  BY InitInv
<1>2. TypeOK /\ IInv /\ QuietInv /\ [Next]_vars => (TypeOK /\ IInv /\ QuietInv)'
  BY Step DEF Kept
<1> QED
  BY <1>1, <1>2, PTL DEF Spec

\* The variables keep their types, however the choices, the commands and the
\* tests of other suites follow each other.
THEOREM TypeCorrect == Spec => []TypeOK
BY Invariant, PTL

\* What L3 transmits next carries the address of its device, although the
\* address of an earlier session is never cleared (test_l3_hdmi_cec_hal_Close).
THEOREM KnownAddressCorrect == Spec => []KnownAddress
<1>1. TypeOK /\ IInv => KnownAddress
  BY DEF KnownAddress, IInv, Known, Owner, Open
<1> QED
  BY <1>1, Invariant, PTL

\* The assertions of the L3 suite stop the misplaced choices and no others.
THEOREM FailsExactlyOnMisuseCorrect == Spec => []FailsExactlyOnMisuse
<1>1. TypeOK /\ IInv => FailsExactlyOnMisuse
  BY DEF FailsExactlyOnMisuse, IInv, Failing
<1> QED
  BY <1>1, Invariant, PTL

\* Every call of another suite during a session of L3 is refused, though the
\* HAL accepts any handle but zero.
THEOREM SuiteKeptOutCorrect == Spec => []SuiteKeptOut
<1>1. TypeOK /\ IInv => SuiteKeptOut
  BY DEF SuiteKeptOut, IInv, Owner, Open
<1> QED
  BY <1>1, Invariant, PTL

\* While no command is under way when L3 opens a session, its callback never
\* follows gPhysicalAddressBytes before it is set (test_l3_hdmi_cec_hal_Init).
THEOREM NoCallbackCrashCorrect == QuietChanges => (Spec => []NoCallbackCrash)
<1> SUFFICES ASSUME QuietChanges PROVE Spec => []NoCallbackCrash
  OBVIOUS
<1>1. TypeOK /\ IInv /\ QuietInv => NoCallbackCrash
  BY DEF NoCallbackCrash, QuietInv
<1> QED
  BY <1>1, QuietInvariant, PTL

\* While no command is under way when L3 adds its address, every frame it sends
\* in its own name has its address (sendResponse).
THEOREM SentAsSelfCorrect == QuietChanges => (Spec => []SentAsSelf)
<1> SUFFICES ASSUME QuietChanges PROVE Spec => []SentAsSelf
  OBVIOUS
<1>1. TypeOK /\ IInv /\ QuietInv => SentAsSelf
  BY DEF SentAsSelf, QuietInv
<1> QED
  BY <1>1, QuietInvariant, PTL
=============================================================================
