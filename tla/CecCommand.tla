----------------------------- MODULE CecCommand -----------------------------
(***************************************************************************)
(* From a message of the control plane to the bytes the application gets:  *)
(* ParseCommand, the COMMAND case of MessageHandler and the announcement   *)
(* of AddDevice (vcHdmiCec.c), with the vcCommand_t they fill and flatten  *)
(* (vcCommand.c).                                                          *)
(*                                                                         *)
(* The bytes put in the handler's buffer and the length the callback is    *)
(* told are kept apart, because the code does not always make them agree.  *)
(***************************************************************************)
EXTENDS Integers, Sequences

CONSTANTS
  VCCOMMAND_MAX_DATA_SIZE,
  Devices,           \* the names of the devices of the network
  logical_address,   \* device -> -1 .. 15
  physical_address,  \* device -> 0 .. 65535
  type,              \* device -> the code of its type
  OpCode,            \* the opcodes commands can name: name -> code
  Requests,          \* what the control plane sends, well formed or not:
                     \* command, initiator, destination, osd_name
  NULL,
  WILD               \* a pointer to no device: reading it ends the program

LOGICAL_ADDRESS_UNKNOWN == -1
LOGICAL_ADDRESS_BROADCAST == 15
CEC_OPCODE_UNKNOWN == -1
CEC_BROADCAST == "broadcast"
Byte == 0 .. 255
Word == 0 .. 65535

ASSUME BufferAssumption == VCCOMMAND_MAX_DATA_SIZE \in Nat /\ VCCOMMAND_MAX_DATA_SIZE > 4

ASSUME DeviceAssumption ==
  /\ \A d \in Devices : /\ logical_address[d] \in -1 .. 15
                        /\ physical_address[d] \in Word
                        /\ type[d] \in Byte

ASSUME OpCodeAssumption ==
  /\ \A name \in DOMAIN OpCode : OpCode[name] \in Byte
  /\ "ReportPhysicalAddress" \in DOMAIN OpCode

\* An announcement is no command.
ASSUME RequestAssumption ==
  /\ \A r \in Requests : r.osd_name \in Seq(Byte) /\ r.command # "AddDevice"
  /\ "AddDevice" \notin DOMAIN OpCode

ASSUME NameAssumption ==
  /\ NULL \notin Devices /\ WILD \notin Devices /\ CEC_BROADCAST \notin Devices
  /\ NULL # WILD

VARIABLES
  at,        \* "dequeue", "raw", "callback", or "crashed"
  request,   \* the message in hand, if any
  cmd,       \* the vcCommand_t on the handler's stack
  cec_data,  \* the bytes copied to the handler's buffer
  len        \* what vcCommand_GetRawBytes returned

vars == <<at, request, cmd, cec_data, len>>

------------------------------------------------------------------------------
\* vcCommand.c

vcCommand_t(initiator, destination, opcode, opcode_set) ==
  [initiator |-> initiator, destination |-> destination, opcode |-> opcode,
   opcode_set |-> opcode_set, parameter_data |-> <<>>]

\* Mutated form of vcCommand_Clear: the structure is only zeroed.
Clear_ToZero == vcCommand_t(0, 0, 0, FALSE)

vcCommand_Clear ==
  vcCommand_t(LOGICAL_ADDRESS_UNKNOWN, LOGICAL_ADDRESS_UNKNOWN,
              CEC_OPCODE_UNKNOWN, FALSE)

vcCommand_Format(initiator, destination, opcode) ==
  vcCommand_t(initiator, destination, opcode, opcode # CEC_OPCODE_UNKNOWN)

\* An array longer than the command has room for is dropped whole; bytes past
\* the end are dropped one by one.
vcCommand_PushBackArray(c, data) ==
  LET all == c.parameter_data \o data
  IN  IF Len(data) > VCCOMMAND_MAX_DATA_SIZE THEN c
      ELSE [c EXCEPT !.parameter_data =
              IF Len(all) <= VCCOMMAND_MAX_DATA_SIZE THEN all
              ELSE SubSeq(all, 1, VCCOMMAND_MAX_DATA_SIZE)]

\* Mutated form of Header: the cut to a byte is forgotten.
Header_Wide(initiator, destination) == 16 * initiator + destination

\* (initiator << 4) | destination, cut to a byte; -1 has every bit set.
Header(initiator, destination) ==
  IF destination = LOGICAL_ADDRESS_UNKNOWN THEN 255
  ELSE (16 * initiator + destination) % 256

AddressByte(c) == Header(c.initiator, c.destination)

Flattened(c) ==
  <<AddressByte(c)>>
    \o (IF c.opcode_set THEN <<c.opcode>> ELSE <<>>) \o c.parameter_data

FrameSize(c) == Len(c.parameter_data) + 2

\* Mutated form of HasRoomFor: the two bytes before the parameters are forgotten.
HasRoomFor_ParametersOnly(c) == Len(c.parameter_data) <= VCCOMMAND_MAX_DATA_SIZE

HasRoomFor(c) == FrameSize(c) <= VCCOMMAND_MAX_DATA_SIZE

\* The size is returned whether or not anything was copied.
vcCommand_GetRawBytes(c) ==
  /\ len' = FrameSize(c)
  /\ cec_data' = IF HasRoomFor(c) THEN Flattened(c) ELSE <<>>

------------------------------------------------------------------------------
\* vcHdmiCec.c

\* Mutated form of AddressBytes: the low byte first.
AddressBytes_Swapped(a) == <<a % 256, a \div 256>>

\* Big-endian, as CEC has it.
AddressBytes(a) == <<a \div 256, a % 256>>

PhysicalAddress(device) == AddressBytes(physical_address[device])

Parameters(r) ==
  CASE r.command \in {"ActiveSource", "InactiveSource"} -> PhysicalAddress(r.initiator)
    [] r.command = "SetOsdName" -> r.osd_name
    [] OTHER -> <<>>

\* vcCommand_GetOpCode and vcDevice_Get give up on a name they do not know.
Accepted(r) ==
  /\ r.command \in DOMAIN OpCode
  /\ r.initiator \in Devices
  /\ r.destination \in Devices \cup {CEC_BROADCAST}

\* The command of r, with la for its destination.
Parsed(r, la) ==
  vcCommand_PushBackArray(
    vcCommand_Format(logical_address[r.initiator], la, OpCode[r.command]),
    Parameters(r))

\* The local variable dest is not initialised, and not assigned when the
\* destination is CEC_BROADCAST: it holds whatever the stack held.
Dest(r) ==
  IF r.destination = CEC_BROADCAST THEN Devices \cup {NULL, WILD}
  ELSE {r.destination}

Init ==
  /\ at = "dequeue"
  /\ request = NULL
  /\ cmd = vcCommand_Clear
  /\ cec_data = <<>>
  /\ len = 0

\* A command the code cannot make out leaves the structure cleared, and the
\* caller, who is not told, goes on with that.
RejectCommand(r) ==
  /\ at = "dequeue"
  /\ ~ Accepted(r)
  /\ cmd' = vcCommand_Clear
  /\ at' = "raw"
  /\ request' = r
  /\ UNCHANGED <<cec_data, len>>

ParseCommand(r) ==
  /\ at = "dequeue"
  /\ Accepted(r)
  /\ request' = r
  /\ \E dest \in Dest(r) :
       IF dest = WILD
       THEN /\ at' = "crashed"
            /\ UNCHANGED cmd
       ELSE /\ at' = "raw"
            /\ LET la == IF dest = NULL THEN LOGICAL_ADDRESS_BROADCAST
                         ELSE logical_address[dest]
               IN  cmd' = Parsed(r, la)
  /\ UNCHANGED <<cec_data, len>>

NewDevice(device) ==
  [command |-> "AddDevice", initiator |-> device,
   destination |-> CEC_BROADCAST, osd_name |-> <<>>]

\* vcDevice_info_t keeps the type, which goes out as a byte.
Announcement(device) ==
  vcCommand_PushBackArray(
    vcCommand_PushBackArray(
      vcCommand_Format(logical_address[device], LOGICAL_ADDRESS_BROADCAST,
                       OpCode["ReportPhysicalAddress"]),
      PhysicalAddress(device)),
    <<type[device]>>)

\* The announcement at the end of AddDevice, for a device of the network.
Announce(device) ==
  /\ at = "dequeue"
  /\ at' = "raw"
  /\ request' = NewDevice(device)
  /\ cmd' = Announcement(device)
  /\ UNCHANGED <<cec_data, len>>

GetRawBytes ==
  /\ at = "raw"
  /\ at' = "callback"
  /\ vcCommand_GetRawBytes(cmd)
  /\ UNCHANGED <<request, cmd>>

\* The callback returns and the next message is taken; the buffer goes out of
\* scope.
rx_cb_func ==
  /\ at = "callback"
  /\ at' = "dequeue"
  /\ cec_data' = <<>>
  /\ len' = 0
  /\ UNCHANGED <<request, cmd>>

Next ==
  \/ \E r \in Requests : RejectCommand(r) \/ ParseCommand(r)
  \/ \E device \in Devices : Announce(device)
  \/ GetRawBytes
  \/ rx_cb_func

Spec == Init /\ [][Next]_vars

------------------------------------------------------------------------------
\* Properties

\* The types of the variables.
TypeOK ==
  /\ at \in {"dequeue", "raw", "callback", "crashed"}
  /\ cmd.initiator \in -1 .. 15 /\ cmd.destination \in -1 .. 15
  /\ cmd.opcode \in Byte \cup {CEC_OPCODE_UNKNOWN}
  /\ cmd.opcode_set <=> cmd.opcode # CEC_OPCODE_UNKNOWN
  /\ cmd.parameter_data \in Seq(Byte)
  /\ cec_data \in Seq(Byte)
  /\ len \in Nat

\* Nothing is ever written past the end of the handler's buffer, however long
\* the text of the control plane is: the parameters, which fill an array of
\* the same size by themselves, share the buffer with two more bytes.
NoOverrun == Len(cec_data) <= VCCOMMAND_MAX_DATA_SIZE

Delivered == at = "callback"

\* What the application makes of a frame.
Source(frame) == frame[1] \div 16
Destination(frame) == frame[1] % 16
Operands(frame) == SubSeq(frame, 3, Len(frame))

Addressable(device) ==
  device \in Devices /\ logical_address[device] # LOGICAL_ADDRESS_UNKNOWN

\* A command from one device with an address to another, with operands that
\* fit, reaches the application as it was sent, and so does the announcement
\* of a new device: both addresses, the opcode, every operand and the exact
\* length can be read back from the bytes.  This ties the lookups and the
\* operands of ParseCommand to the packing of vcCommand_GetRawBytes.
FrameDecodes ==
  Delivered =>
    /\ /\ Accepted(request)
       /\ Addressable(request.initiator) /\ Addressable(request.destination)
       /\ Len(request.osd_name) + 2 <= VCCOMMAND_MAX_DATA_SIZE
       => /\ len = Len(cec_data)
          /\ Source(cec_data) = logical_address[request.initiator]
          /\ Destination(cec_data) = logical_address[request.destination]
          /\ cec_data[2] = OpCode[request.command]
          /\ request.command = "SetOsdName" => Operands(cec_data) = request.osd_name
          /\ request.command \in {"ActiveSource", "InactiveSource"} =>
               /\ len = 4
               /\ 256 * cec_data[3] + cec_data[4] = physical_address[request.initiator]
    /\ request.command = "AddDevice" /\ Addressable(request.initiator)
       => /\ len = 5 /\ Len(cec_data) = 5
          /\ Source(cec_data) = logical_address[request.initiator]
          /\ Destination(cec_data) = LOGICAL_ADDRESS_BROADCAST
          /\ cec_data[2] = OpCode["ReportPhysicalAddress"]
          /\ 256 * cec_data[3] + cec_data[4] = physical_address[request.initiator]
          /\ cec_data[5] = type[request.initiator]

Rejected(r) == ~ Accepted(r) /\ r.command # "AddDevice"

\* Of what is delivered, only a command ParseCommand gave up on names nobody:
\* all that is put in the buffer for it is the header byte from 15 to 15, and
\* nothing of the command before it.  A command or an announcement of a device
\* with a registered address, to any address, cannot be taken for it.  And
\* vcCommand_GetRawBytes, which returns "The number of bytes copied" (vcCommand.h),
\* breaks that promise for no other message, but for a text it copied nothing of.
RejectedNamesNobody ==
  Delivered =>
    /\ Rejected(request) => cec_data = <<255>>
    /\ len # Len(cec_data) => Rejected(request) \/ cec_data = <<>>
    /\ /\ ~ Rejected(request)
       /\ cec_data # <<>>
       /\ logical_address[request.initiator] \in 0 .. 14
       /\ cmd.destination # LOGICAL_ADDRESS_UNKNOWN
       => cec_data[1] # 255

\* A command whose destination is Broadcast, as the documentation of the
\* control plane writes it, reaches the application as a frame to address 15
\* with the opcode it names ("0F:36" for Standby).  vcDevice_Get knows no such
\* name, so the code gives up on the command.
BroadcastIsSent ==
  Delivered
    /\ request.destination = "Broadcast"
    /\ request.command \in DOMAIN OpCode /\ Addressable(request.initiator)
  => /\ Destination(cec_data) = LOGICAL_ADDRESS_BROADCAST
     /\ Source(cec_data) = logical_address[request.initiator]
     /\ len >= 2 /\ Len(cec_data) >= 2
     /\ cec_data[2] = OpCode[request.command]
==============================================================================
