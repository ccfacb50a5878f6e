------------------------------- MODULE HalApi -------------------------------
(***************************************************************************)
(* The HdmiCec* calls (vcHdmiCec.c) as the application sees them: what a   *)
(* call answers in each state of the HAL, and the state it leaves.  Each   *)
(* operator takes the HAL and the arguments and returns both; a call that  *)
(* is refused leaves the HAL as it was.  How the calls interleave with the *)
(* other threads is the subject of HalLifecycle, DeviceMap and L3Menu.     *)
(***************************************************************************)
EXTENDS Integers

CONSTANT SourceAddresses  \* logical addresses the allocation can give a source

ASSUME AddressAssumption == SourceAddresses \subseteq 0 .. 15

\* Zero, or the address of a HAL cut to an int.  Every handle but zero is
\* accepted, that of a HAL closed long ago too.
Handle == {0, 1}

\* What the caller passes for a pointer, or for the arguments of a transmission.
Pointer == {"valid", "NULL"}

UNREGISTERED == 15

\* Whose receive callback is set.
Receiver == {"nobody", "L3", "suite"}

\* The component and its HAL: no component, one without a HAL, one with a HAL.
\* The type is that of the emulated device, which the profile of the program
\* names.
Hal == [state : {"absent", "closed", "open"}, type : {"SINK", "SOURCE"},
        logical : 0 .. 15, rx : Receiver, tx : Pointer]

Status == {"SUCCESS", "NOT_OPENED", "ALREADY_OPEN", "ALREADY_REMOVED",
           "INVALID_HANDLE", "INVALID_ARGUMENT", "SENT_FAILED"}

Fresh(state, type, logical) ==
  [state |-> state, type |-> type, logical |-> logical, rx |-> "nobody",
   tx |-> "NULL"]

NoHal(type) == Fresh("absent", type, UNREGISTERED)

Answer(status, hal, changed) ==
  [status |-> status, hal |-> IF status = "SUCCESS" THEN changed ELSE hal]

\* Mutated form of Admitted: the handle is not looked at.
Admitted_AnyHandle(hal, handle, valid) ==
  IF hal.state # "open" THEN "NOT_OPENED"
  ELSE IF ~valid THEN "INVALID_ARGUMENT"
  ELSE "SUCCESS"

\* What every call tests first, in this order: is a HAL open, is the handle
\* not zero, are the arguments valid.
Admitted(hal, handle, valid) ==
  IF hal.state # "open" THEN "NOT_OPENED"
  ELSE IF handle = 0 THEN "INVALID_HANDLE"
  ELSE IF ~valid THEN "INVALID_ARGUMENT"
  ELSE "SUCCESS"

\* place: where the handle is to be written.
OpenStatus(hal, place) ==
  IF place = "NULL" THEN "INVALID_HANDLE"
  ELSE IF hal.state = "absent" THEN "NOT_OPENED"
  ELSE IF hal.state = "open" THEN "ALREADY_OPEN"
  ELSE "SUCCESS"

\* Mutated form of HdmiCecOpen: a sink keeps the address its device is
\* created with.
HdmiCecOpen_Unset(hal, place, allocated) ==
  Answer(OpenStatus(hal, place), hal,
         Fresh("open", hal.type, IF hal.type = "SINK" THEN -1 ELSE allocated))

\* A sink starts unregistered; a source has what the allocation found.
HdmiCecOpen(hal, place, allocated) ==
  Answer(OpenStatus(hal, place), hal,
         Fresh("open", hal.type,
               IF hal.type = "SINK" THEN UNREGISTERED ELSE allocated))

\* The answer comes when the handler thread has ended and the HAL is freed.
HdmiCecClose(hal, handle) ==
  Answer(Admitted(hal, handle, TRUE), hal,
         Fresh("closed", hal.type, UNREGISTERED))

\* The two calls that only read.
HdmiCecGetPhysicalAddress(hal, handle, place) ==
  Answer(Admitted(hal, handle, place # "NULL"), hal, hal)

HdmiCecGetLogicalAddress(hal, handle, place) ==
  Answer(Admitted(hal, handle, place # "NULL"), hal, hal)

HdmiCecAddLogicalAddress(hal, handle, address) ==
  Answer(Admitted(hal, handle, hal.type = "SINK" /\ address = 0), hal,
         [hal EXCEPT !.logical = address])

\* Mutated form of HdmiCecRemoveLogicalAddress: removing twice is accepted.
HdmiCecRemoveLogicalAddress_Twice(hal, handle, address) ==
  Answer(Admitted(hal, handle, hal.type = "SINK" /\ address = 0), hal,
         [hal EXCEPT !.logical = UNREGISTERED])

HdmiCecRemoveLogicalAddress(hal, handle, address) ==
  LET admitted == Admitted(hal, handle, hal.type = "SINK" /\ address = 0)
      removed == hal.logical = UNREGISTERED
  IN Answer(IF admitted = "SUCCESS" /\ removed THEN "ALREADY_REMOVED"
            ELSE admitted,
            hal, [hal EXCEPT !.logical = UNREGISTERED])

HdmiCecSetRxCallback(hal, handle, receiver) ==
  Answer(Admitted(hal, handle, TRUE), hal, [hal EXCEPT !.rx = receiver])

HdmiCecSetTxCallback(hal, handle, callback) ==
  Answer(Admitted(hal, handle, TRUE), hal, [hal EXCEPT !.tx = callback])

\* An unregistered sink cannot transmit.
MayTransmit(hal) == hal.type = "SINK" => hal.logical # UNREGISTERED

\* arguments: a buffer, a length and a place for the result.  What is sent is
\* printed, and is said to be sent and not acknowledged.
HdmiCecTx(hal, handle, arguments) ==
  LET admitted == Admitted(hal, handle, arguments = "valid")
  IN Answer(IF admitted = "SUCCESS" /\ ~MayTransmit(hal) THEN "SENT_FAILED"
            ELSE admitted,
            hal, hal)

\* Without a transmit callback nothing is sent; with one, it is never called.
HdmiCecTxAsync(hal, handle, arguments) ==
  LET admitted == Admitted(hal, handle, arguments = "valid")
  IN Answer(IF admitted = "SUCCESS" /\ ~(MayTransmit(hal) /\ hal.tx = "valid")
            THEN "SENT_FAILED" ELSE admitted,
            hal, hal)
=============================================================================
