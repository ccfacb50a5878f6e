----------------------------- MODULE DeviceMap -----------------------------
(***************************************************************************)
(* The network of CEC devices the virtual component emulates: the tree of  *)
(* vcDevice_info_t (vcDevice.c), the pool of logical addresses, and what   *)
(* HdmiCecOpen, the AddDevice and RemoveDevice messages and the logical    *)
(* address calls of the HAL do to them.                                    *)
(*                                                                         *)
(* The tree is kept as the code keeps it, in the pointers parent,          *)
(* first_child and next_sibling.  A node stands for one malloc and is      *)
(* never used twice, so a pointer to something freed is recognised.  The   *)
(* recursion of vcDevice_AllocatePhysicalLogicalAddresses is a stack of    *)
(* the calls still to be made; the application's thread, which takes no    *)
(* lock, may run between two of them.                                      *)
(***************************************************************************)
EXTENDS Integers, Sequences, FiniteSets

CONSTANTS
  MaxNodes,   \* BOUND: devices created in one session
  Profiles,   \* what the component can be opened with: a device_map, the
              \* name of the emulated_device and the number_ports it has
  Additions,  \* the descriptions AddDevice messages can carry
  Names       \* the names messages can mention

NULL == 0
OPENING == -1
Node == 1 .. MaxNodes
Ref == Node \cup {NULL}
Root == 1

LOGICAL_ADDRESS_UNKNOWN == -1
LOGICAL_ADDRESS_TV == 0
LOGICAL_ADDRESS_UNREGISTERED == 15
LogicalAddress == -1 .. 15

DeviceType == {"TV", "Recorder", "Tuner", "Playback", "AudioSystem", "Other"}

\* A description lists a device and what is connected through it, each entry
\* after the one it hangs on: "up" is the position of that entry, 0 for none.
Entry == [name : Names, type : DeviceType, port : 0 .. 15, up : Nat]

IsDescription(d) ==
  /\ d \in Seq(Entry) /\ d # <<>>
  /\ d[1].up = 0
  /\ \A k \in 2 .. Len(d) : d[k].up \in 1 .. k - 1

ASSUME DeviceAssumption ==
  /\ MaxNodes \in Nat \ {0}
  /\ \A p \in Profiles :
       /\ IsDescription(p.device_map) /\ Len(p.device_map) <= MaxNodes
       /\ p.number_ports \in Nat
       /\ \E k \in 1 .. Len(p.device_map) :
            p.device_map[k].name = p.emulated_device
  /\ \A d \in Additions : IsDescription(d)

VARIABLES
  used,              \* how many nodes have been allocated
  live,              \* those that have not been freed
  info,              \* node -> its name, type, parent_port_id, number_children
  parent,            \* node -> Ref
  first_child,       \* node -> Ref
  next_sibling,      \* node -> Ref
  physical_address,  \* node -> four digits
  logical_address,   \* node -> LogicalAddress
  allocated,         \* the addresses marked in the pool
  emulated_device,   \* Ref
  num_ports,         \* how many ports the emulated device has
  todo,              \* the calls of the allocation still to be made
  task,              \* what the allocation is for: OPENING, a new node, or NULL
  announced,         \* history: the announcement the last message led to, if any
  named,             \* history: the device the last message wanted removed
  fault              \* a freed device has been accessed

halVars == <<emulated_device, num_ports>>
treeVars == <<used, live, info, parent, first_child, next_sibling>>
addressVars == <<physical_address, logical_address, allocated>>
vars == <<treeVars, addressVars, halVars, todo, task, announced, named, fault>>

------------------------------------------------------------------------------
\* Building a tree: vcDevice_CreateMapFromProfile

Children(d, k) == {j \in 1 .. Len(d) : d[j].up = k}

Largest(S) ==
  IF \E m \in S : \A j \in S : j <= m
  THEN CHOOSE m \in S : \A j \in S : j <= m
  ELSE NULL

\* vcDevice_InsertChild puts each child before those inserted earlier, so
\* the last child of the description becomes the first of the list and the
\* next sibling of a child is the one described just before it.
Shifted(base, k) == IF k = NULL THEN NULL ELSE base + k

NodeInfo(d, k) ==
  [name |-> d[k].name, type |-> d[k].type, port |-> d[k].port,
   number_children |-> Cardinality(Children(d, k))]

Blank ==
  [name |-> CHOOSE name \in Names : TRUE, type |-> "Other", port |-> 0,
   number_children |-> 0]

\* The values of f with those of the nodes base + 1 .. base + Len(d) replaced.
Built(f, base, d, value(_)) ==
  [n \in Node |-> IF n - base \in 1 .. Len(d) THEN value(n - base) ELSE f[n]]

BuiltInfo(f, base, d) == Built(f, base, d, LAMBDA k : NodeInfo(d, k))

BuiltParent(f, base, d) == Built(f, base, d, LAMBDA k : Shifted(base, d[k].up))

BuiltFirst(f, base, d) ==
  Built(f, base, d, LAMBDA k : Shifted(base, Largest(Children(d, k))))

BuiltNext(f, base, d) ==
  Built(f, base, d, LAMBDA k :
    IF d[k].up = 0 THEN NULL
    ELSE Shifted(base, Largest({j \in Children(d, d[k].up) : j < k})))

------------------------------------------------------------------------------
\* Going through the tree: the recursion of vcDevice_Get, the walk along the
\* children of the root at the start of vcDevice_RemoveChild, and what
\* vcDevice_DestroyMap frees

GetIn(names, first, next, name) ==
  LET find[n \in Ref] ==
        IF n = NULL \/ names[n].name = name THEN n
        ELSE LET below == find[first[n]]
             IN  IF below # NULL THEN below ELSE find[next[n]]
  IN  find[Root]

vcDevice_Get(name) == GetIn(info, first_child, next_sibling, name)

\* The devices of the map that following the pointers leads to from n: they
\* are in every set that has n and has where its members lead.
Reached(n, pointers) ==
  LET start == {n} \cap live
      closed == {S \in {start \cup others : others \in SUBSET (live \ start)} :
                   \A f \in pointers : \A m \in S : f[m] \in live => f[m] \in S}
  IN  {m \in live : \A S \in closed : m \in S}

\* vcDevice_DestroyMap: n, its children and its siblings, and theirs.
Destroyed(n, first, next) == Reached(n, {first, next})

\* n and the siblings after it.
Listed(n) == Reached(n, {next_sibling})

\* Mutated form of ChildNamed: the whole map is searched, the root included.
ChildNamed_Any(name) ==
  {n \in live : info[n].name = name}

\* The first child of the root with the name, if there is one.
ChildNamed(name) ==
  LET same == {n \in Listed(first_child[Root]) : info[n].name = name}
  IN  {n \in same : same \subseteq Listed(n)}

------------------------------------------------------------------------------
\* HdmiCecOpen: the map is built, the emulated device found in it, the pool
\* emptied, and the allocation starts at the root.

Open(p) ==
  LET none == [n \in Node |-> NULL]
      names == BuiltInfo([n \in Node |-> Blank], 0, p.device_map)
      first == BuiltFirst(none, 0, p.device_map)
      next == BuiltNext(none, 0, p.device_map)
  IN
  /\ used = Len(p.device_map)
  /\ live = 1 .. Len(p.device_map)
  /\ info = names
  /\ parent = BuiltParent(none, 0, p.device_map)
  /\ first_child = first
  /\ next_sibling = next
  /\ physical_address = [n \in Node |-> <<15, 15, 15, 15>>]
  /\ logical_address = [n \in Node |-> LOGICAL_ADDRESS_UNKNOWN]
  /\ allocated = {}
  /\ emulated_device \in live
  /\ emulated_device = GetIn(names, first, next, p.emulated_device)
  /\ num_ports = p.number_ports
  /\ todo = <<Root>>
  /\ task = OPENING
  /\ announced = {}
  /\ named = NULL
  /\ fault = FALSE

Init == \E p \in Profiles : Open(p)

------------------------------------------------------------------------------
\* vcDevice_AllocatePhysicalLogicalAddresses

\* Mutated form of ChildAddress: the test for a zero is dropped.
ChildAddress_AnyDigit(pa, port) == [pa EXCEPT ![1] = port]

\* The first digit that is zero in the parent's address becomes the port.
\* An address with no zero left is passed on as it is.
ChildAddress(pa, port) ==
  LET zeros == {i \in 1 .. 4 : pa[i] = 0}
      slot == CHOOSE i \in zeros : \A j \in zeros : i <= j
  IN  IF zeros = {} THEN pa ELSE [pa EXCEPT ![slot] = port]

\* In the order the code tries them.  A pool index of 15 is one past the end
\* of the array and falls on a byte of padding, which behaves as a slot.
PossibleAddresses(type) ==
  CASE type = "TV" -> <<0, 14>>
    [] type = "Playback" -> <<4, 8, 11>>
    [] type = "AudioSystem" -> <<5>>
    [] type = "Recorder" -> <<1, 2, 9>>
    [] type = "Tuner" -> <<3, 6, 7, 10>>
    [] OTHER -> <<LOGICAL_ADDRESS_UNREGISTERED>>

\* Mutated form of FreeAddresses: the pool is not asked.
FreeAddresses_Any(type) ==
  {i \in 1 .. Len(PossibleAddresses(type)) : TRUE}

FreeAddresses(type) ==
  {i \in 1 .. Len(PossibleAddresses(type)) :
     PossibleAddresses(type)[i] \notin allocated}

vcDevice_AllocateLogicalAddress(type) ==
  LET free == FreeAddresses(type)
  IN  IF free = {} THEN LOGICAL_ADDRESS_UNREGISTERED
      ELSE PossibleAddresses(type)[CHOOSE i \in free : \A j \in free : i <= j]

AllocatePhysical(n) ==
  physical_address' =
    [physical_address EXCEPT ![n] =
       IF parent[n] = NULL THEN <<0, 0, 0, 0>>
       ELSE ChildAddress(physical_address[parent[n]], info[n].port)]

\* Mutated form of AllocateLogical: an address is allocated on every walk.
AllocateLogical_Again(n) ==
  IF parent[n] # NULL
  THEN LET la == vcDevice_AllocateLogicalAddress(info[n].type) IN
         /\ logical_address' = [logical_address EXCEPT ![n] = la]
         /\ allocated' = IF FreeAddresses(info[n].type) = {} THEN allocated
                         ELSE allocated \cup {la}
         /\ UNCHANGED fault
  ELSE UNCHANGED <<logical_address, allocated, fault>>

\* Only a device without an address gets one.  The root gets no address of
\* its own: 15 if it is the emulated device (compared by name, which follows
\* the pointer), none at all otherwise.
AllocateLogical(n) ==
  IF logical_address[n] # LOGICAL_ADDRESS_UNKNOWN
  THEN UNCHANGED <<logical_address, allocated, fault>>
  ELSE IF parent[n] = NULL
  THEN /\ fault' = (fault \/ emulated_device \notin live)
       /\ logical_address' =
            IF info[n].name = info[emulated_device].name
            THEN [logical_address EXCEPT ![n] = LOGICAL_ADDRESS_UNREGISTERED]
            ELSE logical_address
       /\ UNCHANGED allocated
  ELSE LET la == vcDevice_AllocateLogicalAddress(info[n].type) IN
         /\ logical_address' = [logical_address EXCEPT ![n] = la]
         /\ allocated' = IF FreeAddresses(info[n].type) = {} THEN allocated
                         ELSE allocated \cup {la}
         /\ UNCHANGED fault

\* Mutated form of Push: pointers are followed without a test.
Push_Untested(n, rest) == <<next_sibling[n], first_child[n]>> \o rest

\* The calls a visit leaves to be made: the siblings first, then the children.
Push(n, rest) ==
  (IF next_sibling[n] = NULL THEN <<>> ELSE <<next_sibling[n]>>) \o
  (IF first_child[n] = NULL THEN <<>> ELSE <<first_child[n]>>) \o rest

\* One call of the function, up to its two recursive calls.
Visit ==
  /\ todo # <<>>
  /\ LET n == Head(todo) IN
       /\ AllocatePhysical(n)
       /\ AllocateLogical(n)
       /\ todo' = Push(n, Tail(todo))
  /\ UNCHANGED <<treeVars, halVars, task, announced, named>>

\* The rest of HdmiCecOpen: an emulated TV starts without an address.
openEnd ==
  /\ task = OPENING
  /\ todo = <<>>
  /\ IF info[emulated_device].type = "TV"
     THEN /\ physical_address' =
               [physical_address EXCEPT ![emulated_device] = <<0, 0, 0, 0>>]
          /\ logical_address' =
               [logical_address EXCEPT ![emulated_device] =
                  LOGICAL_ADDRESS_UNREGISTERED]
     ELSE UNCHANGED <<physical_address, logical_address>>
  /\ task' = NULL
  /\ UNCHANGED <<treeVars, allocated, halVars, todo, announced, named, fault>>

------------------------------------------------------------------------------
\* HandleStateMessages, run by the handler thread between two messages

Ready == task = NULL

\* The children counted are those the profile or the message declared:
\* vcDevice_InsertChild and vcDevice_RemoveChild do not touch the count.
HasFreePort(p) ==
  p = emulated_device /\ info[p].type = "TV" => info[p].number_children < num_ports

\* Mutated forms of InsertFirst: the list is lost when a child is put first,
\* and the parent's pointer is read after it has been overwritten.
InsertFirst_Lost(next, p, top) == next

InsertFirst_Swapped(next, p, top) ==
  IF first_child[p] = NULL THEN next ELSE [next EXCEPT ![top] = top]

\* The siblings of a new first child of p.
InsertFirst(next, p, top) ==
  IF first_child[p] = NULL THEN next ELSE [next EXCEPT ![top] = first_child[p]]

\* AddDevice.  A message that names no parent, or an emulated TV without a
\* free port, is dropped: the devices it created are destroyed again.
AddDevice(d, parentName) ==
  LET top == used + 1 IN
  /\ Ready
  /\ used + Len(d) <= MaxNodes
  /\ \E p \in live :
       /\ p = vcDevice_Get(parentName)
       /\ HasFreePort(p)
       /\ parent' = [BuiltParent(parent, used, d) EXCEPT ![top] = p]
       /\ next_sibling' = InsertFirst(BuiltNext(next_sibling, used, d), p, top)
       /\ first_child' = [BuiltFirst(first_child, used, d) EXCEPT ![p] = top]
  /\ used' = used + Len(d)
  /\ live' = live \cup (used + 1 .. used + Len(d))
  /\ info' = BuiltInfo(info, used, d)
  /\ task' = top
  /\ todo' = <<Root>>
  /\ announced' = {}
  /\ named' = NULL
  /\ UNCHANGED <<addressVars, halVars, fault>>

\* Mutated form of Announce: the announcement comes before the allocation.
Announce_First ==
  /\ task \in Node
  /\ task \notin {a.device : a \in announced}
  /\ announced' = {[device |-> task, initiator |-> logical_address[task],
                    address |-> physical_address[task]]}
  /\ task' = IF todo = <<>> THEN NULL ELSE task
  /\ UNCHANGED <<treeVars, addressVars, halVars, todo, named, fault>>

\* The end of AddDevice: <Report Physical Address> for the new device.
Announce ==
  /\ task \in Node
  /\ todo = <<>>
  /\ announced' = {[device |-> task, initiator |-> logical_address[task],
                    address |-> physical_address[task]]}
  /\ task' = NULL
  /\ UNCHANGED <<treeVars, addressVars, halVars, todo, named, fault>>

\* Mutated form of Unlinked: the removed device keeps its siblings.
Unlinked_KeepsSiblings(n) ==
  [m \in Node |-> IF next_sibling[m] = n THEN next_sibling[n]
                  ELSE next_sibling[m]]

\* The sibling pointers with n taken out of the list it is in.
Unlinked(n) ==
  [m \in Node |-> IF m = n THEN NULL
                  ELSE IF next_sibling[m] = n THEN next_sibling[n]
                  ELSE next_sibling[m]]

\* RemoveDevice.  The device is looked for everywhere, but removed only from
\* among the children of the root; no address goes back to the pool, and
\* nobody asks whether the emulated device is among the removed ones.
RemoveDevice(name) ==
  /\ Ready
  /\ \E found \in Node : found = vcDevice_Get(name) /\ named' = found
  /\ LET children == ChildNamed(name) IN
       \/ children = {} /\ UNCHANGED treeVars
       \/ \E n \in children :
            /\ next_sibling' = Unlinked(n)
            /\ first_child' = IF first_child[Root] = n
                              THEN [first_child EXCEPT ![Root] = next_sibling[n]]
                              ELSE first_child
            /\ live' = live \ Destroyed(n, first_child, next_sibling')
            /\ UNCHANGED <<used, info, parent>>
  /\ announced' = {}
  /\ UNCHANGED <<addressVars, halVars, todo, task, fault>>

------------------------------------------------------------------------------
\* The application's thread, at any time once HdmiCecOpen has returned

Opened == task # OPENING

EmulatesTv == info[emulated_device].type = "TV"

\* Every call looks at the type or an address of the emulated device first.
TouchEmulated == fault' = (fault \/ emulated_device \notin live)

\* Only an emulated TV can be given an address, and only that of a TV.
HdmiCecAddLogicalAddress ==
  /\ Opened
  /\ TouchEmulated
  /\ logical_address' =
       IF EmulatesTv
       THEN [logical_address EXCEPT ![emulated_device] = LOGICAL_ADDRESS_TV]
       ELSE logical_address
  /\ UNCHANGED <<treeVars, physical_address, allocated, halVars, todo,
                 task, announced, named>>

HdmiCecRemoveLogicalAddress ==
  /\ Opened
  /\ TouchEmulated
  /\ logical_address' =
       IF EmulatesTv
       THEN [logical_address EXCEPT ![emulated_device] =
               LOGICAL_ADDRESS_UNREGISTERED]
       ELSE logical_address
  /\ UNCHANGED <<treeVars, physical_address, allocated, halVars, todo,
                 task, announced, named>>

\* HdmiCecGetPhysicalAddress, HdmiCecGetLogicalAddress, HdmiCecTx and
\* HdmiCecTxAsync read the emulated device and change nothing.
HalReads ==
  /\ Opened
  /\ TouchEmulated
  /\ UNCHANGED <<treeVars, addressVars, halVars, todo, task, announced, named>>

------------------------------------------------------------------------------

Handler ==
  \/ Visit
  \/ openEnd
  \/ Announce

Messages ==
  \/ \E d \in Additions, name \in Names : AddDevice(d, name)
  \/ \E name \in Names : RemoveDevice(name)

Application ==
  \/ HdmiCecAddLogicalAddress
  \/ HdmiCecRemoveLogicalAddress
  \/ HalReads

Next == Handler \/ Messages \/ Application

Spec == Init /\ [][Next]_vars

\* The thread that walks the tree keeps walking.
FairSpec == Spec /\ WF_vars(Handler)

------------------------------------------------------------------------------
\* Properties

\* The types of the variables.
TypeOK ==
  /\ used \in 1 .. MaxNodes
  /\ live \subseteq 1 .. used
  /\ DOMAIN info = Node
  /\ \A n \in Node : info[n].name \in Names /\ info[n].type \in DeviceType
                     /\ info[n].port \in 0 .. 15
  /\ parent \in [Node -> Ref]
  /\ first_child \in [Node -> Ref]
  /\ next_sibling \in [Node -> Ref]
  /\ physical_address \in [Node -> [1 .. 4 -> 0 .. 15]]
  /\ logical_address \in [Node -> LogicalAddress]
  /\ allocated \subseteq 0 .. 15
  /\ emulated_device \in Node
  /\ num_ports \in Nat
  /\ todo \in Seq(Node)
  /\ task \in Node \cup {NULL, OPENING}
  /\ announced \subseteq [device : Node, initiator : LogicalAddress,
                         address : [1 .. 4 -> 0 .. 15]]
  /\ named \in Ref
  /\ fault \in BOOLEAN

\* InsertChild and RemoveChild leave a tree: no pointer of a device in the map
\* leads to a freed one, every device is in the list of its parent, once, and
\* every device that was not freed can be reached from the root.
TreeSound ==
  /\ Root \in live
  /\ \A n \in live :
       /\ first_child[n] # NULL =>
            first_child[n] \in live /\ parent[first_child[n]] = n
       /\ next_sibling[n] # NULL =>
            next_sibling[n] \in live /\ parent[next_sibling[n]] = parent[n]
       /\ Cardinality({m \in live : first_child[m] = n})
            + Cardinality({m \in live : next_sibling[m] = n})
          = IF n = Root THEN 0 ELSE 1
  /\ Destroyed(Root, first_child, next_sibling) = live

\* No two devices of the network answer to the same logical address, however
\* many devices AddDevice and RemoveDevice have added and removed before;
\* 15 (unregistered) and "none yet" are not addresses.  One clash is left: the
\* address of the emulated TV is not in the pool, so a second TV can hold it.
LogicalAddressesUnique ==
  \A m, n \in live :
    m # n /\ logical_address[m] = logical_address[n] =>
      \/ logical_address[n] \in {LOGICAL_ADDRESS_UNKNOWN, LOGICAL_ADDRESS_UNREGISTERED}
      \/ /\ logical_address[n] = LOGICAL_ADDRESS_TV
         /\ emulated_device \in {m, n}
         /\ info[m].type = "TV" /\ info[n].type = "TV"

\* What the messages must respect for physical addresses to make sense: a
\* port, other than 0, per child of a device, and no fifth level.
PortsAreUsable ==
  \A n \in live \ {Root} :
    /\ info[n].port # 0
    /\ \E i \in 1 .. 4 : physical_address[parent[n]][i] = 0
    /\ \A m \in live \ {Root, n} :
         parent[m] = parent[n] => info[m].port # info[n].port

\* Once an allocation has gone through the tree, physical addresses tell all
\* devices apart, if the ports do.
PhysicalAddressesUnique ==
  todo = <<>> /\ PortsAreUsable =>
    \A m, n \in live : m # n => physical_address[m] # physical_address[n]

\* An announcement <Report Physical Address> carries the addresses the device
\* has in the map once its message has been handled.
AnnouncedIsTrue ==
  \A a \in announced :
    /\ a.device \in live
    /\ a.initiator = logical_address[a.device]
    /\ a.address = physical_address[a.device]

\* Adding and removing devices renumbers nobody: a device keeps its addresses,
\* although each AddDevice goes through the whole tree again.  (The logical
\* address of the emulated device is the application's to change.)
AddressesStable ==
  [][\A n \in live \cap live' :
       /\ physical_address[n] # <<15, 15, 15, 15>> =>
            physical_address'[n] = physical_address[n]
       /\ logical_address[n] # LOGICAL_ADDRESS_UNKNOWN /\ n # emulated_device =>
            logical_address'[n] = logical_address[n]]_vars

\* The pointers, the walks over them and the pool of addresses, with the
\* application writing in between, implement a network of devices that hang
\* on one another.
Net == INSTANCE Network WITH
  Device <- Node, Nobody <- NULL,
  devices <- live,
  type <- [n \in live |-> info[n].type],
  hangs_on <- [n \in live |-> parent[n]],
  address <- [n \in live |-> logical_address[n]],
  speaker <- emulated_device

\* What AddDevice puts in comes in as one tree, what RemoveDevice takes out is
\* a child of the root with all below it and nothing else, and in between a
\* device gets an address once, of its type and of nobody else.
NetworkSpec == Net!Spec

\* The emulated device leaves the map, and the HAL keeps a pointer to what is
\* freed, only by a RemoveDevice message that names it, or names the device
\* under the root it is connected through.  No other message frees it, whatever
\* the order of the siblings, and an emulated device at the root always stays.
EmulatedLeavesOnlyIfNamed ==
  [][(emulated_device \in live \ live') =>
       \E top \in live \ live', name \in Names :
         /\ named' = vcDevice_Get(name)
         /\ info[top].name = name
         /\ parent[top] = Root
         /\ emulated_device \in Net!Below(top, live, parent)]_vars

\* HdmiCecOpen returns and every AddDevice that was accepted is announced:
\* the walk over the tree comes to an end.
EveryWalkEnds == (task # NULL) ~> (task = NULL)

\* RemoveDevice "removes a device and its children from the Virtual Component
\* state" (hdmi_cec_VirtualComponent_ControlPlaneCommands.md), if the device is
\* not the one at the top.
RemoveDeviceRemoves == named # Root => named \notin live

\* A playback device takes 15 when "there is already 3 Playback devices in
\* network" (tv_panel_5_devices_validation.yaml), and else one of their three
\* addresses.
UnregisteredWhenThree ==
  [][\A n \in live :
       /\ info[n].type = "Playback"
       /\ logical_address[n] = LOGICAL_ADDRESS_UNKNOWN
       /\ logical_address'[n] = LOGICAL_ADDRESS_UNREGISTERED
       => Cardinality({m \in live \ {n} : info[m].type = "Playback"}) >= 3]_vars

==============================================================================
