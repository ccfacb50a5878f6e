-------------------------- MODULE CecCommandProofs --------------------------
(***************************************************************************)
(* What the application can read from the bytes it gets, for every size of *)
(* the buffer, every network and every message of the control plane.       *)
(***************************************************************************)
EXTENDS CecCommand, SequenceTheorems, TLAPS

Max == VCCOMMAND_MAX_DATA_SIZE

\* The command with these fields; p is what was pushed.
Command(i, d, op, p) ==
  [initiator |-> i, destination |-> d, opcode |-> op,
   opcode_set |-> op # CEC_OPCODE_UNKNOWN, parameter_data |-> p]

\* The command in the handler's hand comes from the message in its hand.
Refused == request \in Requests /\ ~ Accepted(request) /\ cmd = vcCommand_Clear

Sent ==
  /\ request \in Requests /\ Accepted(request)
  /\ \E la \in -1 .. 15 :
       /\ request.destination \in Devices => la = logical_address[request.destination]
       /\ cmd = Parsed(request, la)

Announced ==
  \E device \in Devices :
    request = NewDevice(device) /\ cmd = Announcement(device)

Places == {"dequeue", "raw", "callback", "crashed"}

Shape ==
  \E i, d \in -1 .. 15, op \in Byte \cup {CEC_OPCODE_UNKNOWN}, p \in Seq(Byte) :
    cmd = Command(i, d, op, p)

Hand == at \in {"raw", "callback"} => Refused \/ Sent \/ Announced

\* The bytes in the buffer are those of the command.
Copied ==
  len = FrameSize(cmd) /\ cec_data = IF HasRoomFor(cmd) THEN Flattened(cmd) ELSE <<>>

Buffer == IF at = "callback" THEN Copied ELSE cec_data = <<>> /\ len = 0

IInv == at \in Places /\ Shape /\ Hand /\ Buffer

------------------------------------------------------------------------------
\* Bytes

\* The first byte is a byte, and its two halves can be told apart again.
LEMMA HeaderDecodes ==
  /\ \A i, d \in -1 .. 15 : Header(i, d) \in Byte
  /\ \A i, d \in 0 .. 15 : Header(i, d) \div 16 = i /\ Header(i, d) % 16 = d
  /\ \A i \in 0 .. 14, d \in 0 .. 15 : Header(i, d) # 255
  /\ \A i : Header(i, -1) = 255
<1>0. LOGICAL_ADDRESS_UNKNOWN = -1
  BY DEF LOGICAL_ADDRESS_UNKNOWN
<1>1. ASSUME NEW i \in -1 .. 15, NEW d \in -1 .. 15
      PROVE  Header(i, d) \in Byte
  BY <1>0 DEF Header, Byte
<1>2. ASSUME NEW i \in 0 .. 15, NEW d \in 0 .. 15
      PROVE  Header(i, d) = 16 * i + d
  BY <1>0 DEF Header
<1>3. ASSUME NEW i \in 0 .. 15, NEW d \in 0 .. 15
      PROVE  Header(i, d) \div 16 = i /\ Header(i, d) % 16 = d
  BY <1>2
<1>4. ASSUME NEW i \in 0 .. 14, NEW d \in 0 .. 15
      PROVE  Header(i, d) # 255
  BY <1>2
<1>5. ASSUME NEW i PROVE Header(i, -1) = 255
  BY <1>0 DEF Header
<1> QED
  BY <1>1, <1>3, <1>4, <1>5

\* And so can the two bytes of a physical address.
LEMMA AddressDecodes ==
  ASSUME NEW a \in Word
  PROVE  /\ AddressBytes(a) \in Seq(Byte) /\ Len(AddressBytes(a)) = 2
         /\ 256 * AddressBytes(a)[1] + AddressBytes(a)[2] = a
<1>1. a \div 256 \in 0 .. 255
  <2>1. a \in Int /\ 0 <= a /\ a <= 65535
    BY DEF Word
  <2> QED
    BY <2>1
<1>2. a % 256 \in 0 .. 255
  BY DEF Word
<1>3. a = 256 * (a \div 256) + (a % 256)
  BY Z3 DEF Word
<1> DEFINE h == a \div 256  l == a % 256
<1>4. h \in Byte /\ l \in Byte /\ 256 * h + l = a /\ AddressBytes(a) = <<h, l>>
  BY <1>1, <1>2, <1>3 DEF Byte, AddressBytes
<1> HIDE DEF h, l
<1>5. <<h, l>> \in Seq(Byte) /\ Len(<<h, l>>) = 2 /\ <<h, l>>[1] = h /\ <<h, l>>[2] = l
  BY <1>4
<1> QED
  BY <1>4, <1>5

------------------------------------------------------------------------------
\* Commands

\* Its fields.
LEMMA Fields ==
  ASSUME NEW i, NEW d, NEW op, NEW p
  PROVE  /\ Command(i, d, op, p).initiator = i
         /\ Command(i, d, op, p).destination = d
         /\ Command(i, d, op, p).opcode = op
         /\ Command(i, d, op, p).opcode_set <=> op # CEC_OPCODE_UNKNOWN
         /\ Command(i, d, op, p).parameter_data = p
BY Zenon DEF Command

\* A command that was only cleared.
LEMMA Cleared == vcCommand_Clear = Command(-1, -1, CEC_OPCODE_UNKNOWN, <<>>)
BY DEF vcCommand_Clear, vcCommand_t, Command, LOGICAL_ADDRESS_UNKNOWN

\* A command without parameters.
LEMMA Formatted ==
  ASSUME NEW i, NEW d, NEW op
  PROVE  vcCommand_Format(i, d, op) = Command(i, d, op, <<>>)
BY Zenon DEF vcCommand_Format, vcCommand_t, Command

\* What is pushed is appended, if there is room for all of it.
LEMMA Pushed ==
  ASSUME NEW i, NEW d, NEW op, NEW p \in Seq(Byte), NEW data \in Seq(Byte),
         Len(p) + Len(data) <= Max
  PROVE  vcCommand_PushBackArray(Command(i, d, op, p), data) = Command(i, d, op, p \o data)
<1> DEFINE all == p \o data
<1>1. Len(all) = Len(p) + Len(data)
  BY ConcatProperties
<1>2. Len(p) \in Nat /\ Len(data) \in Nat /\ Max \in Nat
  BY LenProperties, BufferAssumption DEF Max
<1>3. ~(Len(data) > VCCOMMAND_MAX_DATA_SIZE) /\ Len(all) <= VCCOMMAND_MAX_DATA_SIZE
  BY <1>1, <1>2 DEF Max
<1> DEFINE c == Command(i, d, op, p)
<1>4. c.parameter_data = p
  BY Fields
<1>5. [c EXCEPT !.parameter_data = all] = Command(i, d, op, all)
  <2> DEFINE set == op # CEC_OPCODE_UNKNOWN
  <2>1. /\ c = [initiator |-> i, destination |-> d, opcode |-> op,
               opcode_set |-> set, parameter_data |-> p]
        /\ Command(i, d, op, all) =
              [initiator |-> i, destination |-> d, opcode |-> op,
               opcode_set |-> set, parameter_data |-> all]
    BY DEF Command
  <2> HIDE DEF set, all, c
  <2> QED
    BY <2>1
<1> HIDE DEF c
<1>6. vcCommand_PushBackArray(c, data) = [c EXCEPT !.parameter_data = all]
  BY <1>3, <1>4 DEF vcCommand_PushBackArray
<1> QED
  BY <1>5, <1>6 DEF c

\* A text the command has no room for leaves it without parameters.
LEMMA Dropped ==
  ASSUME NEW c, NEW data, Len(data) > Max
  PROVE  vcCommand_PushBackArray(c, data) = c
BY DEF vcCommand_PushBackArray, Max

\* f is the frame with header h, opcode op and parameters p.
IsFrame(f, h, op, p) ==
  /\ f \in Seq(Byte) /\ Len(f) = Len(p) + 2
  /\ f[1] = h /\ f[2] = op
  /\ \A k \in 1 .. Len(p) : f[k + 2] = p[k]

\* The bytes of a command with an opcode.
LEMMA Frame ==
  ASSUME NEW i, NEW d, NEW op \in Byte, NEW p \in Seq(Byte), Header(i, d) \in Byte
  PROVE  IsFrame(Flattened(Command(i, d, op, p)), Header(i, d), op, p)
<1> DEFINE c == Command(i, d, op, p)  f == Flattened(c)  h == Header(i, d)
           t == <<h>> \o <<op>>
<1>1. /\ c.initiator = i /\ c.destination = d /\ c.opcode = op /\ c.parameter_data = p
      /\ c.opcode_set
  BY Fields DEF Byte, CEC_OPCODE_UNKNOWN
<1>2. h \in Byte /\ Len(p) \in Nat
  BY LenProperties
<1> HIDE DEF c, h
<1>3. f = t \o p
  BY <1>1 DEF Flattened, AddressByte, h
<1>4. t \in Seq(Byte) /\ Len(t) = 2 /\ t[1] = h /\ t[2] = op
  BY <1>2
<1> HIDE DEF t, f
<1>5. /\ t \o p \in Seq(Byte) /\ Len(t \o p) = Len(t) + Len(p)
      /\ \A k \in 1 .. Len(t) + Len(p) :
           (t \o p)[k] = IF k <= Len(t) THEN t[k] ELSE p[k - Len(t)]
  BY Zenon, <1>4, ConcatProperties
<1>6. f \in Seq(Byte) /\ Len(f) = Len(p) + 2
  BY <1>2, <1>3, <1>4, <1>5
<1>7. f[1] = h /\ f[2] = op
  BY <1>2, <1>3, <1>4, <1>5
<1>8. \A k \in 1 .. Len(p) : f[k + 2] = p[k]
  BY <1>2, <1>3, <1>4, <1>5
<1> QED
  BY <1>6, <1>7, <1>8 DEF IsFrame, f, c, h

\* The one byte of a command that was only cleared.
LEMMA FrameOfCleared ==
  ASSUME NEW i, NEW d, Header(i, d) \in Byte
  PROVE  Flattened(Command(i, d, CEC_OPCODE_UNKNOWN, <<>>)) = <<Header(i, d)>>
<1> DEFINE c == Command(i, d, CEC_OPCODE_UNKNOWN, <<>>)  h == Header(i, d)
<1>1. /\ c.initiator = i /\ c.destination = d /\ c.parameter_data = <<>>
      /\ ~ c.opcode_set
  BY Fields
<1> HIDE DEF c
<1>2. Flattened(c) = <<h>> \o <<>> \o <<>>
  BY <1>1 DEF Flattened, AddressByte
<1> HIDE DEF h
<1>3. <<h>> \in Seq(Byte)
  BY DEF h
<1>4. <<h>> \o <<>> = <<h>>
  BY <1>3, ConcatEmptySeq
<1> QED
  BY <1>2, <1>4 DEF c, h

\* The size of a command.
LEMMA Room ==
  ASSUME NEW i, NEW d, NEW op, NEW p
  PROVE  /\ FrameSize(Command(i, d, op, p)) = Len(p) + 2
         /\ HasRoomFor(Command(i, d, op, p)) <=> Len(p) + 2 <= Max
<1> DEFINE c == Command(i, d, op, p)
<1>1. c.parameter_data = p
  BY Fields
<1> HIDE DEF c
<1>2. FrameSize(c) = Len(p) + 2
  BY <1>1 DEF FrameSize
<1> QED
  BY <1>2 DEF HasRoomFor, c, Max

------------------------------------------------------------------------------
\* What the two handlers make of a message

\* A command the code accepts.
LEMMA ParsedIs ==
  ASSUME NEW r \in Requests, Accepted(r), NEW la
  PROVE  /\ r.initiator \in Devices
         /\ OpCode[r.command] \in Byte
         /\ Parameters(r) \in Seq(Byte)
         /\ Parsed(r, la) =
              Command(logical_address[r.initiator], la, OpCode[r.command],
                      IF Len(Parameters(r)) <= Max THEN Parameters(r) ELSE <<>>)
<1>1. r.initiator \in Devices /\ r.command \in DOMAIN OpCode
  BY DEF Accepted
<1>2. OpCode[r.command] \in Byte
  BY <1>1, OpCodeAssumption
<1>3. physical_address[r.initiator] \in Word
  BY Zenon, <1>1, DeviceAssumption
<1>4. r.osd_name \in Seq(Byte)
  BY RequestAssumption
<1> DEFINE a == PhysicalAddress(r.initiator)  p == Parameters(r)
           i == logical_address[r.initiator]  op == OpCode[r.command]
<1>5. a \in Seq(Byte)
  BY Zenon, <1>3, AddressDecodes DEF PhysicalAddress
<1>6. <<>> \in Seq(Byte)
  OBVIOUS
<1> HIDE DEF a, i, op
<1>7. p \in Seq(Byte)
  BY <1>4, <1>5, <1>6 DEF Parameters, a
<1> HIDE DEF p
<1>8. Parsed(r, la) = vcCommand_PushBackArray(Command(i, la, op, <<>>), p)
  BY Formatted DEF Parsed, i, op, p
<1>9. Len(p) \in Nat /\ Max \in Nat /\ Len(<<>>) = 0
  BY <1>7, LenProperties, BufferAssumption DEF Max
<1>10. CASE Len(p) <= Max
  <2>1. vcCommand_PushBackArray(Command(i, la, op, <<>>), p) = Command(i, la, op, <<>> \o p)
    <3>1. Len(<<>>) + Len(p) <= Max
      BY <1>9, <1>10
    <3> QED
      BY Zenon, <3>1, <1>6, <1>7, Pushed
  <2>2. <<>> \o p = p
    BY <1>7, ConcatEmptySeq
  <2> QED
    BY <1>1, <1>2, <1>7, <1>8, <1>10, <2>1, <2>2 DEF i, op, p
<1>11. CASE ~ (Len(p) <= Max)
  <2>1. vcCommand_PushBackArray(Command(i, la, op, <<>>), p) = Command(i, la, op, <<>>)
    BY <1>9, <1>11, Dropped
  <2> QED
    BY <1>1, <1>2, <1>7, <1>8, <1>11, <2>1 DEF i, op, p
<1> QED
  BY <1>10, <1>11

\* The announcement of a device.
LEMMA AnnouncementIs ==
  ASSUME NEW device \in Devices
  PROVE  LET p == PhysicalAddress(device) \o <<type[device]>>
         IN  /\ p \in Seq(Byte) /\ Len(p) = 3
             /\ 256 * p[1] + p[2] = physical_address[device] /\ p[3] = type[device]
             /\ Announcement(device) =
                  Command(logical_address[device], 15, OpCode["ReportPhysicalAddress"], p)
<1> DEFINE a == PhysicalAddress(device)  t == type[device]  p == a \o <<t>>
           i == logical_address[device]  op == OpCode["ReportPhysicalAddress"]
<1>1. physical_address[device] \in Word /\ t \in Byte
  BY Zenon, DeviceAssumption
<1>2. a \in Seq(Byte) /\ Len(a) = 2 /\ 256 * a[1] + a[2] = physical_address[device]
  BY Zenon, <1>1, AddressDecodes DEF PhysicalAddress
<1> HIDE DEF a, t, i, op
<1>3. <<t>> \in Seq(Byte) /\ Len(<<t>>) = 1 /\ <<t>>[1] = t
  BY <1>1
<1>4. Max \in Nat /\ Max > 4 /\ <<>> \in Seq(Byte) /\ Len(<<>>) = 0
  BY BufferAssumption DEF Max
<1>5. /\ a \o <<t>> \in Seq(Byte) /\ Len(a \o <<t>>) = Len(a) + Len(<<t>>)
      /\ \A k \in 1 .. Len(a) + Len(<<t>>) :
           (a \o <<t>>)[k] = IF k <= Len(a) THEN a[k] ELSE <<t>>[k - Len(a)]
  BY Zenon, <1>2, <1>3, ConcatProperties
<1>6. p \in Seq(Byte) /\ Len(p) = 3 /\ p[1] = a[1] /\ p[2] = a[2] /\ p[3] = t
  BY <1>2, <1>3, <1>5
<1>7. vcCommand_PushBackArray(Command(i, 15, op, <<>>), a) = Command(i, 15, op, <<>> \o a)
  <2>1. Len(<<>>) + Len(a) <= Max
    BY <1>2, <1>4
  <2> QED
    BY Zenon, <2>1, <1>2, <1>4, Pushed
<1>8. <<>> \o a = a
  BY <1>2, ConcatEmptySeq
<1>9. vcCommand_PushBackArray(Command(i, 15, op, a), <<t>>) = Command(i, 15, op, a \o <<t>>)
  <2>1. Len(a) + Len(<<t>>) <= Max
    BY <1>2, <1>3, <1>4
  <2> QED
    BY Zenon, <2>1, <1>2, <1>3, Pushed
<1>10. Announcement(device) =
         vcCommand_PushBackArray(vcCommand_PushBackArray(Command(i, 15, op, <<>>), a), <<t>>)
  BY Formatted DEF Announcement, LOGICAL_ADDRESS_BROADCAST, a, t, i, op
<1>11. Announcement(device) = Command(i, 15, op, p)
  BY <1>7, <1>8, <1>9, <1>10
<1> QED
  BY <1>2, <1>6, <1>11 DEF a, t, i, op

------------------------------------------------------------------------------
\* The inductive invariant

\* A command of either kind is one with typed fields.
LEMMA Shaped ==
  ASSUME Refused \/ Sent \/ Announced
  PROVE  Shape
<1>0. -1 \in -1 .. 15 /\ 15 \in -1 .. 15
  OBVIOUS
<1>1. CASE Refused
  <2>1. cmd = Command(-1, -1, CEC_OPCODE_UNKNOWN, <<>>)
    BY <1>1, Cleared DEF Refused
  <2>2. <<>> \in Seq(Byte)
    OBVIOUS
  <2> QED
    BY Zenon, <1>0, <2>1, <2>2 DEF Shape
<1>2. CASE Sent
  <2>1. PICK la \in -1 .. 15 : cmd = Parsed(request, la)
    BY <1>2 DEF Sent
  <2> DEFINE p == IF Len(Parameters(request)) <= Max THEN Parameters(request) ELSE <<>>
  <2>2. /\ request.initiator \in Devices /\ OpCode[request.command] \in Byte
        /\ Parameters(request) \in Seq(Byte)
        /\ cmd = Command(logical_address[request.initiator], la, OpCode[request.command], p)
    BY Zenon, <1>2, <2>1, ParsedIs DEF Sent
  <2>3. p \in Seq(Byte)
    <3>1. <<>> \in Seq(Byte)
      OBVIOUS
    <3> QED
      BY Zenon, <2>2, <3>1
  <2> HIDE DEF p
  <2>4. logical_address[request.initiator] \in -1 .. 15
    BY Zenon, <2>2, DeviceAssumption
  <2>5. OpCode[request.command] \in Byte \cup {CEC_OPCODE_UNKNOWN}
    BY Zenon, <2>2
  <2> QED
    BY Zenon, <2>2, <2>3, <2>4, <2>5 DEF Shape
<1>3. CASE Announced
  <2>1. PICK device \in Devices : cmd = Announcement(device)
    BY <1>3 DEF Announced
  <2> DEFINE p == PhysicalAddress(device) \o <<type[device]>>
  <2>2. p \in Seq(Byte)
        /\ cmd = Command(logical_address[device], 15, OpCode["ReportPhysicalAddress"], p)
    BY Zenon, <2>1, AnnouncementIs
  <2> HIDE DEF p
  <2>3. logical_address[device] \in -1 .. 15
    BY Zenon, DeviceAssumption
  <2>4. OpCode["ReportPhysicalAddress"] \in Byte \cup {CEC_OPCODE_UNKNOWN}
    BY Zenon, OpCodeAssumption
  <2> QED
    BY Zenon, <1>0, <2>2, <2>3, <2>4 DEF Shape
<1> QED
  BY <1>1, <1>2, <1>3

\* It holds at the start.
LEMMA InitIInv == Init => IInv
<1> SUFFICES ASSUME Init PROVE IInv
  OBVIOUS
<1>1. cmd = Command(-1, -1, CEC_OPCODE_UNKNOWN, <<>>)
  BY Cleared DEF Init
<1>2. -1 \in -1 .. 15 /\ <<>> \in Seq(Byte)
  OBVIOUS
<1>3. Shape
  BY Zenon, <1>1, <1>2 DEF Shape
<1> QED
  BY <1>3 DEF Init, IInv, Places, Hand, Buffer

\* Every step keeps it.
LEMMA StepIInv == IInv /\ [Next]_vars => IInv'
<1> SUFFICES ASSUME IInv, [Next]_vars PROVE IInv'
  OBVIOUS
<1>1. ASSUME NEW r \in Requests, RejectCommand(r) PROVE IInv'
  <2>1. Refused'
    BY <1>1 DEF RejectCommand, Refused, Accepted, vcCommand_Clear, vcCommand_t
  <2>2. Shape'
    BY <2>1, Shaped, PTL
  <2> QED
    BY <1>1, <2>1, <2>2 DEF IInv, RejectCommand, Places, Hand, Buffer
<1>2. ASSUME NEW r \in Requests, ParseCommand(r) PROVE IInv'
  <2>1. PICK dest \in Dest(r) :
          IF dest = WILD THEN at' = "crashed" /\ UNCHANGED cmd
          ELSE /\ at' = "raw"
               /\ cmd' = Parsed(r, IF dest = NULL THEN LOGICAL_ADDRESS_BROADCAST
                                   ELSE logical_address[dest])
    BY <1>2 DEF ParseCommand
  <2>2. CASE dest = WILD
    BY <1>2, <2>1, <2>2 DEF ParseCommand, IInv, Places, Shape, Hand, Buffer
  <2>3. CASE dest # WILD
    <3> DEFINE la == IF dest = NULL THEN LOGICAL_ADDRESS_BROADCAST
                     ELSE logical_address[dest]
    <3>1. request' = r /\ cmd' = Parsed(r, la) /\ Accepted(r)
      BY <1>2, <2>1, <2>3 DEF ParseCommand
    <3>2. dest = NULL \/ dest \in Devices
      BY <2>3, <3>1 DEF Dest, Accepted
    <3>3. la \in -1 .. 15
      <4>1. dest \in Devices => logical_address[dest] \in -1 .. 15
        BY Zenon, DeviceAssumption
      <4> QED
        BY <3>2, <4>1 DEF LOGICAL_ADDRESS_BROADCAST
    <3>4. r.destination \in Devices => la = logical_address[r.destination]
      <4>1. r.destination \in Devices => dest = r.destination
        BY NameAssumption DEF Dest
      <4> QED
        BY <4>1, NameAssumption
    <3> HIDE DEF la
    <3>5. Sent'
      BY Zenon, <3>1, <3>3, <3>4 DEF Sent
    <3>6. Shape'
      BY <3>5, Shaped, PTL
    <3> QED
      BY <1>2, <2>1, <2>3, <3>5, <3>6 DEF ParseCommand, IInv, Places, Hand, Buffer
  <2> QED
    BY <2>2, <2>3
<1>3. ASSUME NEW device \in Devices, Announce(device) PROVE IInv'
  <2>1. Announced'
    BY <1>3 DEF Announce, Announced
  <2>2. Shape'
    BY <2>1, Shaped, PTL
  <2> QED
    BY <1>3, <2>1, <2>2 DEF IInv, Announce, Places, Hand, Buffer
<1>4. CASE GetRawBytes
  BY <1>4 DEF IInv, GetRawBytes, vcCommand_GetRawBytes, Places, Shape, Hand, Buffer,
    Copied, Refused, Sent, Announced, FrameSize, HasRoomFor, Flattened, AddressByte
<1>5. CASE rx_cb_func
  BY <1>5 DEF IInv, rx_cb_func, Places, Shape, Hand, Buffer
<1>6. CASE UNCHANGED vars
  BY <1>6 DEF IInv, vars, Places, Shape, Hand, Buffer, Copied, Refused, Sent, Announced,
    FrameSize, HasRoomFor, Flattened, AddressByte
<1> QED
  BY <1>1, <1>2, <1>3, <1>4, <1>5, <1>6 DEF Next

\* So it is one.
THEOREM Inductive == Spec => []IInv
BY InitIInv, StepIInv, PTL DEF Spec

------------------------------------------------------------------------------
\* What the bytes in the buffer are, message by message

\* The bytes of a command that fits.
LEMMA Fitting ==
  ASSUME Copied, NEW i \in -1 .. 15, NEW d \in -1 .. 15,
         NEW op \in Byte \cup {CEC_OPCODE_UNKNOWN}, NEW p \in Seq(Byte),
         cmd = Command(i, d, op, p), Len(p) + 2 <= Max
  PROVE  cec_data = Flattened(Command(i, d, op, p)) /\ len = Len(p) + 2
BY Room DEF Copied

\* An announcement is no command of the control plane.
LEMMA NewDeviceIsNotAccepted ==
  ASSUME NEW device
  PROVE  ~ Accepted(NewDevice(device)) /\ NewDevice(device).command = "AddDevice"
BY RequestAssumption DEF Accepted, NewDevice

\* Only a cleared command has no opcode.
LEMMA CommandHasOpcode ==
  ASSUME Sent \/ Announced
  PROVE  cmd.opcode # CEC_OPCODE_UNKNOWN
<1>1. CASE Sent
  <2>1. PICK la \in -1 .. 15 : cmd = Parsed(request, la)
    BY <1>1 DEF Sent
  <2> DEFINE op == OpCode[request.command]
  <2>2. op \in Byte /\ \E i, p : cmd = Command(i, la, op, p)
    BY Zenon, <1>1, <2>1, ParsedIs DEF Sent
  <2> HIDE DEF op
  <2>3. cmd.opcode = op
    BY <2>2, Fields
  <2> QED
    BY <2>2, <2>3 DEF Byte, CEC_OPCODE_UNKNOWN
<1>2. CASE Announced
  <2>1. PICK device \in Devices : cmd = Announcement(device)
    BY <1>2 DEF Announced
  <2> DEFINE op == OpCode["ReportPhysicalAddress"]
  <2>2. cmd = Command(logical_address[device], 15, op,
                      PhysicalAddress(device) \o <<type[device]>>)
    BY Zenon, <2>1, AnnouncementIs
  <2>3. op \in Byte
    BY Zenon, OpCodeAssumption
  <2> HIDE DEF op
  <2>4. cmd.opcode = op
    BY <2>2, Fields
  <2> QED
    BY <2>3, <2>4 DEF Byte, CEC_OPCODE_UNKNOWN
<1> QED
  BY <1>1, <1>2

\* What the control plane asked for, when both ends have an address.
LEMMA SentDecodes ==
  ASSUME Copied, Sent, Addressable(request.initiator), Addressable(request.destination),
         Len(request.osd_name) + 2 <= Max
  PROVE  /\ len = Len(cec_data)
         /\ Source(cec_data) = logical_address[request.initiator]
         /\ Destination(cec_data) = logical_address[request.destination]
         /\ cec_data[2] = OpCode[request.command]
         /\ request.command = "SetOsdName" => Operands(cec_data) = request.osd_name
         /\ request.command \in {"ActiveSource", "InactiveSource"} =>
              /\ len = 4
              /\ 256 * cec_data[3] + cec_data[4] = physical_address[request.initiator]
<1>1. PICK la \in -1 .. 15 : cmd = Parsed(request, la)
                             /\ la = logical_address[request.destination]
  BY DEF Sent, Addressable
<1> DEFINE i == logical_address[request.initiator]  op == OpCode[request.command]
           p == Parameters(request)  a == PhysicalAddress(request.initiator)
<1>2. op \in Byte /\ p \in Seq(Byte)
      /\ cmd = Command(i, la, op, IF Len(p) <= Max THEN p ELSE <<>>)
  BY Zenon, <1>1, ParsedIs DEF Sent
<1>3. request.initiator \in Devices /\ request.destination \in Devices
      /\ i # -1 /\ la # -1
  BY <1>1 DEF Addressable, LOGICAL_ADDRESS_UNKNOWN
<1>4. i \in -1 .. 15 /\ physical_address[request.initiator] \in Word
  BY Zenon, <1>3, DeviceAssumption
<1>5. i \in 0 .. 15 /\ la \in 0 .. 15
  BY <1>3, <1>4
<1>6. a \in Seq(Byte) /\ Len(a) = 2 /\ 256 * a[1] + a[2] = physical_address[request.initiator]
  BY Zenon, <1>4, AddressDecodes DEF PhysicalAddress
<1>7. /\ request.command \in {"ActiveSource", "InactiveSource"} => p = a
      /\ request.command = "SetOsdName" => p = request.osd_name
      /\ p \in {a, request.osd_name, <<>>}
  BY DEF Parameters
<1>8. Max \in Nat /\ Max > 4 /\ Len(<<>>) = 0
  BY BufferAssumption DEF Max
<1> HIDE DEF i, op, p, a
<1>9. Len(p) \in Nat /\ Len(p) + 2 <= Max
  <2>1. Len(p) \in Nat
    BY <1>2, LenProperties
  <2>2. CASE p = a
    <3>1. Len(p) = 2
      BY Zenon, <1>6, <2>2
    <3> QED
      BY <1>8, <3>1
  <2>3. CASE p = request.osd_name
    BY <2>1, <2>3
  <2>4. CASE p = <<>>
    BY <1>8, <2>1, <2>4
  <2> QED
    BY <1>7, <2>1, <2>2, <2>3, <2>4
<1>10. cmd = Command(i, la, op, p)
  BY <1>2, <1>8, <1>9
<1>11. cec_data = Flattened(Command(i, la, op, p)) /\ len = Len(p) + 2
  BY <1>2, <1>4, <1>9, <1>10, Fitting
<1>12. Header(i, la) \in Byte /\ Header(i, la) \div 16 = i /\ Header(i, la) % 16 = la
  BY <1>4, <1>5, HeaderDecodes
<1>13. /\ cec_data \in Seq(Byte) /\ Len(cec_data) = Len(p) + 2
       /\ cec_data[1] = Header(i, la) /\ cec_data[2] = op
       /\ \A k \in 1 .. Len(p) : cec_data[k + 2] = p[k]
  <2>1. IsFrame(Flattened(Command(i, la, op, p)), Header(i, la), op, p)
    BY <1>2, <1>12, Frame
  <2>2. IsFrame(cec_data, Header(i, la), op, p)
    BY Zenon, <1>11, <2>1
  <2> QED
    BY Zenon, <2>2 DEF IsFrame
<1>14. request.command \in {"ActiveSource", "InactiveSource"} =>
         len = 4 /\ 256 * cec_data[3] + cec_data[4] = physical_address[request.initiator]
  <2> SUFFICES ASSUME p = a
               PROVE  len = 4 /\ 256 * cec_data[3] + cec_data[4]
                                   = physical_address[request.initiator]
    BY <1>7
  <2>1. cec_data[3] = a[1] /\ cec_data[4] = a[2]
    BY <1>6, <1>13
  <2>2. len = 4
    <3>1. Len(p) = 2
      BY Zenon, <1>6
    <3> QED
      BY <1>11, <3>1
  <2>3. 256 * a[1] + a[2] = physical_address[request.initiator]
    BY <1>6
  <2> QED
    BY <2>1, <2>2, <2>3
<1>15. request.command = "SetOsdName" => Operands(cec_data) = request.osd_name
  <2>1. SubSeq(cec_data, 3, Len(cec_data)) = p
    BY <1>2, <1>9, <1>13
  <2> QED
    BY <1>7, <2>1 DEF Operands
<1>16. Source(cec_data) = i /\ Destination(cec_data) = la
  BY <1>12, <1>13 DEF Source, Destination
<1> QED
  BY <1>1, <1>11, <1>13, <1>14, <1>15, <1>16 DEF i, op

\* What AddDevice announced.
LEMMA AnnouncedDecodes ==
  ASSUME Copied, Announced, Addressable(request.initiator)
  PROVE  /\ len = 5 /\ Len(cec_data) = 5
         /\ Source(cec_data) = logical_address[request.initiator]
         /\ Destination(cec_data) = LOGICAL_ADDRESS_BROADCAST
         /\ cec_data[2] = OpCode["ReportPhysicalAddress"]
         /\ 256 * cec_data[3] + cec_data[4] = physical_address[request.initiator]
         /\ cec_data[5] = type[request.initiator]
<1>1. PICK device \in Devices : request = NewDevice(device) /\ cmd = Announcement(device)
  BY DEF Announced
<1>2. request.initiator = device
  BY <1>1 DEF NewDevice
<1> DEFINE i == logical_address[device]  op == OpCode["ReportPhysicalAddress"]
           p == PhysicalAddress(device) \o <<type[device]>>
<1>3. /\ p \in Seq(Byte) /\ Len(p) = 3
      /\ 256 * p[1] + p[2] = physical_address[device] /\ p[3] = type[device]
      /\ cmd = Command(i, 15, op, p)
  BY Zenon, <1>1, AnnouncementIs
<1>4. i \in -1 .. 15 /\ op \in Byte
  BY Zenon, DeviceAssumption, OpCodeAssumption
<1>5. i \in 0 .. 15
  BY <1>2, <1>4 DEF Addressable, LOGICAL_ADDRESS_UNKNOWN
<1>6. Max \in Nat /\ Max > 4 /\ 15 \in -1 .. 15 /\ 15 \in 0 .. 15
  BY BufferAssumption DEF Max
<1> HIDE DEF i, op, p
<1>7. cec_data = Flattened(Command(i, 15, op, p)) /\ len = 5
  <2>1. Len(p) + 2 <= Max /\ Len(p) + 2 = 5 /\ op \in Byte \cup {CEC_OPCODE_UNKNOWN}
    BY <1>3, <1>4, <1>6
  <2> QED
    BY <2>1, <1>3, <1>4, <1>6, Fitting
<1>8. Header(i, 15) \in Byte /\ Header(i, 15) \div 16 = i /\ Header(i, 15) % 16 = 15
  BY <1>4, <1>5, <1>6, HeaderDecodes
<1>9. op \in Byte
  BY <1>4
<1>10. /\ cec_data[1] = Header(i, 15) /\ cec_data[2] = op
       /\ Len(cec_data) = Len(p) + 2
       /\ \A k \in 1 .. Len(p) : cec_data[k + 2] = p[k]
  <2>1. IsFrame(Flattened(Command(i, 15, op, p)), Header(i, 15), op, p)
    BY <1>3, <1>8, <1>9, Frame
  <2>2. IsFrame(cec_data, Header(i, 15), op, p)
    BY Zenon, <1>7, <2>1
  <2> QED
    BY Zenon, <2>2 DEF IsFrame
<1>11. cec_data[3] = p[1] /\ cec_data[4] = p[2] /\ cec_data[5] = p[3] /\ Len(cec_data) = 5
  BY <1>3, <1>10
<1>12. Source(cec_data) = i /\ Destination(cec_data) = LOGICAL_ADDRESS_BROADCAST
  BY <1>8, <1>10 DEF Source, Destination, LOGICAL_ADDRESS_BROADCAST
<1> QED
  BY <1>2, <1>3, <1>7, <1>10, <1>11, <1>12 DEF i, op

------------------------------------------------------------------------------
\* The properties

\* The state has the types TypeOK gives it.
THEOREM TypeCorrect == Spec => []TypeOK
<1>1. IInv => TypeOK
  <2> SUFFICES ASSUME IInv PROVE TypeOK
    OBVIOUS
  <2>1. PICK i \in -1 .. 15, d \in -1 .. 15, op \in Byte \cup {CEC_OPCODE_UNKNOWN},
             p \in Seq(Byte) : cmd = Command(i, d, op, p)
    BY Zenon DEF IInv, Shape
  <2>2. /\ cmd.initiator = i /\ cmd.destination = d /\ cmd.opcode = op
        /\ cmd.parameter_data = p /\ (cmd.opcode_set <=> op # CEC_OPCODE_UNKNOWN)
    BY <2>1, Fields
  <2>3. cec_data \in Seq(Byte) /\ len \in Nat
    <3>1. CASE at = "callback"
      <4>1. Copied
        BY <3>1 DEF IInv, Buffer
      <4>2. len = Len(p) + 2 /\ Len(p) \in Nat
        BY <2>1, <4>1, Room, LenProperties DEF Copied
      <4>3. <<>> \in Seq(Byte)
        OBVIOUS
      <4>4. Header(i, d) \in Byte
        BY HeaderDecodes
      <4>5. Flattened(cmd) \in Seq(Byte)
        <5>1. CASE op = CEC_OPCODE_UNKNOWN
          <6>1. Refused
            BY <2>2, <3>1, <5>1, CommandHasOpcode DEF IInv, Hand
          <6>2. cmd = Command(-1, -1, CEC_OPCODE_UNKNOWN, <<>>)
            BY <6>1, Cleared DEF Refused
          <6>3. Header(-1, -1) \in Byte
            BY HeaderDecodes
          <6>4. Flattened(cmd) = <<Header(-1, -1)>>
            BY <6>2, <6>3, FrameOfCleared
          <6> QED
            BY <6>3, <6>4
        <5>2. CASE op \in Byte
          <6>1. IsFrame(Flattened(Command(i, d, op, p)), Header(i, d), op, p)
            BY <4>4, <5>2, Frame
          <6> QED
            BY Zenon, <2>1, <6>1 DEF IsFrame
        <5> QED
          BY <5>1, <5>2
      <4> QED
        BY <4>1, <4>2, <4>3, <4>5 DEF Copied
    <3>2. CASE at # "callback"
      BY <3>2 DEF IInv, Buffer
    <3> QED
      BY <3>1, <3>2
  <2> QED
    BY <2>2, <2>3 DEF IInv, Places, TypeOK
<1> QED
  BY <1>1, Inductive, PTL

\* Nothing is written past the end of the handler's buffer, whatever its size
\* and whatever the control plane says.
THEOREM NoOverrunCorrect == Spec => []NoOverrun
<1>1. IInv => NoOverrun
  <2> SUFFICES ASSUME IInv PROVE NoOverrun
    OBVIOUS
  <2>0. Max \in Nat /\ Max > 4 /\ Len(<<>>) = 0
    BY BufferAssumption DEF Max
  <2>1. CASE cec_data = <<>>
    BY <2>0, <2>1 DEF NoOverrun, Max
  <2>2. CASE cec_data # <<>>
    <3>1. at = "callback" /\ Copied
      BY <2>2 DEF IInv, Buffer
    <3>2. HasRoomFor(cmd) /\ cec_data = Flattened(cmd)
      BY <2>2, <3>1 DEF Copied
    <3>3. PICK i \in -1 .. 15, d \in -1 .. 15, op \in Byte \cup {CEC_OPCODE_UNKNOWN},
               p \in Seq(Byte) : cmd = Command(i, d, op, p)
      BY Zenon DEF IInv, Shape
    <3>4. Len(p) \in Nat /\ Len(p) + 2 <= Max
      BY <3>2, <3>3, Room, LenProperties
    <3>5. Header(i, d) \in Byte
      BY HeaderDecodes
    <3>6. CASE op = CEC_OPCODE_UNKNOWN
      <4>1. Refused
        BY <3>1, <3>3, <3>6, Fields, CommandHasOpcode DEF IInv, Hand
      <4>2. cec_data = <<Header(-1, -1)>>
        BY <3>2, <4>1, Cleared, HeaderDecodes, FrameOfCleared DEF Refused
      <4> QED
        BY <2>0, <4>2 DEF NoOverrun, Max
    <3>7. CASE op \in Byte
      <4>1. IsFrame(Flattened(Command(i, d, op, p)), Header(i, d), op, p)
        BY <3>5, <3>7, Frame
      <4>2. Len(cec_data) = Len(p) + 2
        BY Zenon, <3>2, <3>3, <4>1 DEF IsFrame
      <4> QED
        BY <3>4, <4>2 DEF NoOverrun, Max
    <3> QED
      BY <3>6, <3>7
  <2> QED
    BY <2>1, <2>2
<1> QED
  BY <1>1, Inductive, PTL

\* A command between devices with an address, and an announcement, can be read
\* back from the bytes: addresses, opcode, operands and length.
THEOREM FrameDecodesCorrect == Spec => []FrameDecodes
<1>1. IInv => FrameDecodes
  <2> SUFFICES ASSUME IInv, Delivered PROVE FrameDecodes
    BY DEF FrameDecodes
  <2>1. Copied /\ (Refused \/ Sent \/ Announced)
    BY DEF IInv, Delivered, Buffer, Hand
  <2>2. Accepted(request) => Sent
    BY <2>1, NewDeviceIsNotAccepted DEF Refused, Announced
  <2>3. request.command = "AddDevice" => Announced
    BY <2>1, RequestAssumption DEF Refused, Sent
  <2>4. ASSUME Accepted(request), Addressable(request.initiator),
               Addressable(request.destination),
               Len(request.osd_name) + 2 <= VCCOMMAND_MAX_DATA_SIZE
        PROVE  /\ len = Len(cec_data)
               /\ Source(cec_data) = logical_address[request.initiator]
               /\ Destination(cec_data) = logical_address[request.destination]
               /\ cec_data[2] = OpCode[request.command]
               /\ request.command = "SetOsdName" => Operands(cec_data) = request.osd_name
               /\ request.command \in {"ActiveSource", "InactiveSource"} =>
                    /\ len = 4
                    /\ 256 * cec_data[3] + cec_data[4] = physical_address[request.initiator]
    BY Zenon, <2>1, <2>2, <2>4, SentDecodes DEF Max
  <2>5. ASSUME request.command = "AddDevice", Addressable(request.initiator)
        PROVE  /\ len = 5 /\ Len(cec_data) = 5
               /\ Source(cec_data) = logical_address[request.initiator]
               /\ Destination(cec_data) = LOGICAL_ADDRESS_BROADCAST
               /\ cec_data[2] = OpCode["ReportPhysicalAddress"]
               /\ 256 * cec_data[3] + cec_data[4] = physical_address[request.initiator]
               /\ cec_data[5] = type[request.initiator]
    BY Zenon, <2>1, <2>3, <2>5, AnnouncedDecodes
  <2> QED
    BY Zenon, <2>4, <2>5 DEF FrameDecodes
<1> QED
  BY <1>1, Inductive, PTL

\* What was not given up on is a command with an opcode, of the device the
\* message names.
LEMMA HandIs ==
  ASSUME Sent \/ Announced
  PROVE  \E d \in -1 .. 15, op \in Byte, p \in Seq(Byte) :
           /\ logical_address[request.initiator] \in -1 .. 15
           /\ cmd = Command(logical_address[request.initiator], d, op, p)
<1> DEFINE i == logical_address[request.initiator]
<1>1. CASE Sent
  <2>1. PICK la \in -1 .. 15 : cmd = Parsed(request, la)
    BY <1>1 DEF Sent
  <2> DEFINE op == OpCode[request.command]
             p == IF Len(Parameters(request)) <= Max THEN Parameters(request) ELSE <<>>
  <2>2. /\ request.initiator \in Devices /\ op \in Byte
        /\ Parameters(request) \in Seq(Byte) /\ cmd = Command(i, la, op, p)
    BY Zenon, <1>1, <2>1, ParsedIs DEF Sent
  <2>3. p \in Seq(Byte)
    <3>1. <<>> \in Seq(Byte)
      OBVIOUS
    <3> QED
      BY Zenon, <2>2, <3>1
  <2>4. i \in -1 .. 15
    BY Zenon, <2>2, DeviceAssumption
  <2> HIDE DEF op, p
  <2> QED
    BY Zenon, <2>2, <2>3, <2>4
<1>2. CASE Announced
  <2>1. PICK device \in Devices : request = NewDevice(device) /\ cmd = Announcement(device)
    BY <1>2 DEF Announced
  <2>2. request.initiator = device
    BY <2>1 DEF NewDevice
  <2> DEFINE op == OpCode["ReportPhysicalAddress"]
             p == PhysicalAddress(device) \o <<type[device]>>
  <2>3. p \in Seq(Byte) /\ cmd = Command(logical_address[device], 15, op, p)
    BY Zenon, <2>1, AnnouncementIs
  <2>4. i \in -1 .. 15 /\ op \in Byte
    BY Zenon, <2>2, DeviceAssumption, OpCodeAssumption
  <2>5. 15 \in -1 .. 15
    OBVIOUS
  <2> HIDE DEF op, p
  <2> QED
    BY Zenon, <2>2, <2>3, <2>4, <2>5
<1> QED
  BY <1>1, <1>2

\* What ParseCommand gave up on is one byte that names nobody, with the wrong
\* length; no message of a device with a registered address looks like it.
THEOREM RejectedCorrect == Spec => []RejectedNamesNobody
<1>1. IInv => RejectedNamesNobody
  <2> SUFFICES ASSUME IInv, Delivered PROVE RejectedNamesNobody
    BY DEF RejectedNamesNobody
  <2>1. Copied /\ (Refused \/ Sent \/ Announced)
    BY DEF IInv, Delivered, Buffer, Hand
  <2>2. ASSUME Rejected(request) PROVE cec_data = <<255>>
    <3>1. Refused
      BY <2>1, <2>2, NewDeviceIsNotAccepted DEF Rejected, Sent, Announced, NewDevice
    <3>2. cmd = Command(-1, -1, CEC_OPCODE_UNKNOWN, <<>>)
      BY <3>1, Cleared DEF Refused
    <3>3. -1 \in -1 .. 15 /\ Len(<<>>) + 2 = 2 /\ Max > 4 /\ Max \in Nat
      BY BufferAssumption DEF Max
    <3>4. Header(-1, -1) = 255 /\ Header(-1, -1) \in Byte
      BY <3>3, HeaderDecodes
    <3>5. cec_data = Flattened(Command(-1, -1, CEC_OPCODE_UNKNOWN, <<>>))
      <4>1. HasRoomFor(cmd)
        BY <3>2, <3>3, Room
      <4> QED
        BY <2>1, <3>2, <4>1 DEF Copied
    <3> QED
      BY <3>4, <3>5, FrameOfCleared
  <2>3. ASSUME ~ Rejected(request), cec_data # <<>>
        PROVE  /\ len = Len(cec_data)
               /\ /\ logical_address[request.initiator] \in 0 .. 14
                  /\ cmd.destination # LOGICAL_ADDRESS_UNKNOWN
                  => cec_data[1] # 255
    <3>1. Sent \/ Announced
      BY <2>1, <2>3, RequestAssumption DEF Refused, Rejected
    <3> DEFINE i == logical_address[request.initiator]
    <3>2. PICK d \in -1 .. 15, op \in Byte, p \in Seq(Byte) :
            i \in -1 .. 15 /\ cmd = Command(i, d, op, p)
      BY Zenon, <3>1, HandIs
    <3> HIDE DEF i
    <3>3. cec_data = Flattened(Command(i, d, op, p)) /\ len = Len(p) + 2
      BY <2>1, <2>3, <3>2, Room DEF Copied
    <3>4. Header(i, d) \in Byte
      BY <3>2, HeaderDecodes
    <3>5. IsFrame(Flattened(Command(i, d, op, p)), Header(i, d), op, p)
      BY <3>2, <3>4, Frame
    <3>6. cec_data[1] = Header(i, d) /\ Len(cec_data) = Len(p) + 2
      BY Zenon, <3>3, <3>5 DEF IsFrame
    <3>7. cmd.destination = d
      BY <3>2, Fields
    <3>8. i \in 0 .. 14 /\ d # -1 => Header(i, d) # 255
      BY <3>2, HeaderDecodes
    <3> QED
      BY <3>3, <3>6, <3>7, <3>8 DEF i, LOGICAL_ADDRESS_UNKNOWN
  <2> QED
    BY <2>2, <2>3 DEF RejectedNamesNobody
<1> QED
  BY <1>1, Inductive, PTL
=============================================================================
