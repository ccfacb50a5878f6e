-------------------------- MODULE DeviceMapProofs --------------------------
(***************************************************************************)
(* The types, the logical addresses and the announcements of a session,    *)
(* for every network it is opened with, every device that may be added and *)
(* any number of them.                                                     *)
(***************************************************************************)
EXTENDS DeviceMap, TLAPS

------------------------------------------------------------------------------
\* Descriptions

\* What the assumption says of the number of nodes.
LEMMA Bound == MaxNodes \in Nat /\ MaxNodes >= 1
<1>1. MaxNodes \in Nat \ {0}
  BY Zenon, DeviceAssumption
<1> QED
  BY <1>1

\* And of the networks and the messages.
LEMMA Descriptions ==
  /\ \A p \in Profiles : /\ IsDescription(p.device_map) /\ Len(p.device_map) <= MaxNodes
                         /\ p.number_ports \in Nat
  /\ \A d \in Additions : IsDescription(d)
BY Zenon, DeviceAssumption

\* An entry of a description.
LEMMA EntryOf ==
  ASSUME NEW d, IsDescription(d)
  PROVE  /\ Len(d) \in Nat /\ Len(d) >= 1
         /\ \A k \in 1 .. Len(d) :
              /\ d[k].name \in Names /\ d[k].type \in DeviceType /\ d[k].port \in 0 .. 15
              /\ d[k].up \in 0 .. Len(d) /\ d[k].up < k
<1>1. d \in Seq(Entry) /\ d # <<>> /\ d[1].up = 0
      /\ \A k \in 2 .. Len(d) : d[k].up \in 1 .. k - 1
  BY DEF IsDescription
<1>2. Len(d) \in Nat /\ Len(d) >= 1
  BY <1>1
<1>3. ASSUME NEW k \in 1 .. Len(d)
      PROVE  /\ d[k].name \in Names /\ d[k].type \in DeviceType /\ d[k].port \in 0 .. 15
             /\ d[k].up \in Nat
  <2>1. d[k] \in Entry
    BY <1>1
  <2> QED
    BY <2>1 DEF Entry
<1>4. ASSUME NEW k \in 1 .. Len(d) PROVE d[k].up \in 0 .. Len(d) /\ d[k].up < k
  <2>1. CASE k = 1
    BY <1>1, <1>2, <2>1
  <2>2. CASE k # 1
    <3>1. d[k].up \in 1 .. k - 1
      BY <1>1, <1>2, <2>2
    <3> QED
      BY <1>2, <3>1
  <2> QED
    BY <2>1, <2>2
<1> QED
  BY <1>2, <1>3, <1>4

\* The largest of some positions is one of them.
LEMMA LargestIs ==
  ASSUME NEW n \in Nat, NEW S \in SUBSET (1 .. n)
  PROVE  Largest(S) \in 0 .. n
<1>1. CASE \E m \in S : \A j \in S : j <= m
  <2>1. (CHOOSE m \in S : \A j \in S : j <= m) \in S
    BY <1>1
  <2>2. Largest(S) \in S
    BY <1>1, <2>1 DEF Largest
  <2>3. Largest(S) \in 1 .. n
    BY Zenon, <2>2
  <2> QED
    BY <2>3
<1>2. CASE ~ \E m \in S : \A j \in S : j <= m
  BY <1>2 DEF Largest, NULL
<1> QED
  BY <1>1, <1>2

\* The smallest of up to four positions.
LEMMA Smallest ==
  ASSUME NEW S \in SUBSET (1 .. 4), S # {}
  PROVE  (CHOOSE i \in S : \A j \in S : i <= j) \in S
<1>1. \E i \in S : \A j \in S : i <= j
  <2>1. CASE 1 \in S
    BY <2>1
  <2>2. CASE 1 \notin S /\ 2 \in S
    BY <2>2
  <2>3. CASE 1 \notin S /\ 2 \notin S /\ 3 \in S
    BY <2>3
  <2>4. CASE 1 \notin S /\ 2 \notin S /\ 3 \notin S
    <3>1. ASSUME NEW j \in S PROVE j = 4
      <4>1. j \in 1 .. 4
        BY Zenon
      <4>2. j # 1 /\ j # 2 /\ j # 3
        BY Zenon, <2>4
      <4> QED
        BY <4>1, <4>2
    <3>2. PICK x \in S : TRUE
      BY Zenon
    <3>3. x = 4
      BY Zenon, <3>1
    <3> QED
      BY <3>1, <3>2, <3>3
  <2> QED
    BY <2>1, <2>2, <2>3, <2>4
<1> QED
  BY <1>1

\* The pointers of f lead to the first m nodes, if anywhere.
Within(f, m) == f \in [Node -> Ref] /\ \A n \in Node : f[n] <= m

\* A position, moved.
LEMMA ShiftedIs ==
  ASSUME NEW base \in Nat, NEW length \in Nat, base + length <= MaxNodes,
         NEW k \in 0 .. length
  PROVE  Shifted(base, k) \in Ref /\ Shifted(base, k) <= base + length
BY Bound DEF Shifted, Ref, Node, NULL

\* The parents of what is built from a description are nodes.
LEMMA BuiltParents ==
  ASSUME NEW base \in Nat, NEW d, IsDescription(d), base + Len(d) <= MaxNodes,
         NEW f \in [Node -> Ref]
  PROVE  BuiltParent(f, base, d) \in [Node -> Ref]
<1>1. ASSUME NEW n \in Node, n - base \in 1 .. Len(d)
      PROVE  Shifted(base, d[n - base].up) \in Ref
  BY <1>1, EntryOf, ShiftedIs
<1> QED
  BY <1>1 DEF BuiltParent, Built

\* And its other pointers lead to old nodes from old ones, and to new ones
\* from new ones.
LEMMA BuiltPointers ==
  ASSUME NEW base \in Nat, NEW d, IsDescription(d), base + Len(d) <= MaxNodes,
         NEW m, m = base + Len(d), NEW f, Within(f, m)
  PROVE  Within(BuiltFirst(f, base, d), m) /\ Within(BuiltNext(f, base, d), m)
<1>1. Len(d) \in Nat /\ m \in Nat
  BY EntryOf
<1>2. ASSUME NEW k \in 0 .. Len(d)
      PROVE  Shifted(base, k) \in Ref /\ Shifted(base, k) <= m
  BY <1>1, ShiftedIs
<1>3. ASSUME NEW k PROVE Largest(Children(d, k)) \in 0 .. Len(d)
  BY <1>1, LargestIs DEF Children
<1>4. ASSUME NEW k, NEW j PROVE Largest({i \in Children(d, k) : i < j}) \in 0 .. Len(d)
  BY <1>1, LargestIs DEF Children
<1>5. NULL \in Ref /\ NULL <= m
  BY <1>1 DEF NULL, Ref
<1> DEFINE F(n) == Shifted(base, Largest(Children(d, n - base)))
           N(n) == IF d[n - base].up = 0 THEN NULL
                   ELSE Shifted(base, Largest({j \in Children(d, d[n - base].up) : j < n - base}))
<1>6. /\ BuiltFirst(f, base, d) = [n \in Node |-> IF n - base \in 1 .. Len(d) THEN F(n) ELSE f[n]]
      /\ BuiltNext(f, base, d) = [n \in Node |-> IF n - base \in 1 .. Len(d) THEN N(n) ELSE f[n]]
  BY DEF BuiltFirst, BuiltNext, Built
<1>7. ASSUME NEW n \in Node PROVE F(n) \in Ref /\ F(n) <= m /\ N(n) \in Ref /\ N(n) <= m
  BY <1>2, <1>3, <1>4, <1>5
<1> HIDE DEF F, N
<1> QED
  BY <1>6, <1>7 DEF Within

\* What is known of the new nodes.
LEMMA BuiltInfos ==
  ASSUME NEW base \in Nat, NEW d, IsDescription(d), base + Len(d) <= MaxNodes, NEW f
  PROVE  /\ DOMAIN BuiltInfo(f, base, d) = Node
         /\ \A n \in Node : n - base \in 1 .. Len(d) =>
              /\ BuiltInfo(f, base, d)[n].name \in Names
              /\ BuiltInfo(f, base, d)[n].type \in DeviceType
              /\ BuiltInfo(f, base, d)[n].port \in 0 .. 15
<1>1. ASSUME NEW k \in 1 .. Len(d)
      PROVE  /\ NodeInfo(d, k).name \in Names /\ NodeInfo(d, k).type \in DeviceType
             /\ NodeInfo(d, k).port \in 0 .. 15
  BY EntryOf DEF NodeInfo
<1>2. BuiltInfo(f, base, d) =
        [n \in Node |-> IF n - base \in 1 .. Len(d) THEN NodeInfo(d, n - base) ELSE f[n]]
  BY DEF BuiltInfo, Built
<1> QED
  BY Zenon, <1>1, <1>2

------------------------------------------------------------------------------
\* Addresses

\* A device gets an address of the pool that is free, or 15; 0 is for a TV.
LEMMA Allocation ==
  ASSUME NEW t \in DeviceType
  PROVE  /\ vcDevice_AllocateLogicalAddress(t) \in 0 .. 15
         /\ FreeAddresses(t) # {} =>
              /\ vcDevice_AllocateLogicalAddress(t) \notin allocated
              /\ vcDevice_AllocateLogicalAddress(t) = 0 => t = "TV"
         /\ FreeAddresses(t) = {} => vcDevice_AllocateLogicalAddress(t) = 15
<1> DEFINE s == PossibleAddresses(t)  S == FreeAddresses(t)
           first == CHOOSE i \in S : \A j \in S : i <= j
<1>1. /\ Len(s) \in 1 .. 4
      /\ \A i \in 1 .. Len(s) : s[i] \in 0 .. 15 /\ (s[i] = 0 => t = "TV")
  <2>1. CASE t = "TV"
    <3>1. s = <<0, 14>>
      BY <2>1 DEF PossibleAddresses
    <3> QED
      BY <2>1, <3>1
  <2>2. CASE t = "Playback"
    <3>1. s = <<4, 8, 11>>
      BY <2>2 DEF PossibleAddresses
    <3> QED
      BY <3>1
  <2>3. CASE t = "AudioSystem"
    <3>1. s = <<5>>
      BY <2>3 DEF PossibleAddresses
    <3> QED
      BY <3>1
  <2>4. CASE t = "Recorder"
    <3>1. s = <<1, 2, 9>>
      BY <2>4 DEF PossibleAddresses
    <3> QED
      BY <3>1
  <2>5. CASE t = "Tuner"
    <3>1. s = <<3, 6, 7, 10>>
      BY <2>5 DEF PossibleAddresses
    <3> QED
      BY <3>1
  <2>6. CASE t = "Other"
    <3>1. s = <<15>>
      BY <2>6 DEF PossibleAddresses, LOGICAL_ADDRESS_UNREGISTERED
    <3> QED
      BY <3>1
  <2> QED
    BY <2>1, <2>2, <2>3, <2>4, <2>5, <2>6 DEF DeviceType
<1>2. S = {i \in 1 .. Len(s) : s[i] \notin allocated}
  BY DEF FreeAddresses
<1>3. vcDevice_AllocateLogicalAddress(t) = IF S = {} THEN 15 ELSE s[first]
  BY DEF vcDevice_AllocateLogicalAddress, LOGICAL_ADDRESS_UNREGISTERED
<1>4. S # {} => first \in S
  <2>1. S \in SUBSET (1 .. 4)
    BY <1>1, <1>2
  <2> HIDE DEF S
  <2> QED
    BY <2>1, Smallest
<1> HIDE DEF s, first
<1>5. CASE S = {}
  BY <1>3, <1>5
<1>6. CASE S # {}
  <2>1. first \in 1 .. Len(s) /\ s[first] \notin allocated
    BY <1>2, <1>4, <1>6
  <2>2. s[first] \in 0 .. 15 /\ (s[first] = 0 => t = "TV")
    BY <1>1, <2>1
  <2> QED
    BY <1>3, <1>6, <2>1, <2>2
<1> QED
  BY <1>5, <1>6

Digits == [1 .. 4 -> 0 .. 15]

\* The address of a child has four digits.
LEMMA ChildDigits ==
  ASSUME NEW pa \in Digits, NEW port \in 0 .. 15
  PROVE  ChildAddress(pa, port) \in Digits
<1> DEFINE Z == {i \in 1 .. 4 : pa[i] = 0}
           slot == CHOOSE i \in Z : \A j \in Z : i <= j
<1>1. ChildAddress(pa, port) = IF Z = {} THEN pa ELSE [pa EXCEPT ![slot] = port]
  BY DEF ChildAddress
<1>2. ASSUME NEW i PROVE [pa EXCEPT ![i] = port] \in Digits
  BY DEF Digits
<1> HIDE DEF Z, slot
<1> QED
  BY <1>1, <1>2

------------------------------------------------------------------------------
\* The inductive invariant

Counts ==
  /\ used \in 1 .. MaxNodes
  /\ live \subseteq 1 .. used
  /\ emulated_device \in 1 .. used

\* Pointers lead to nodes that have been allocated.
Tree ==
  /\ DOMAIN info = Node
  /\ \A n \in Node : /\ info[n].name \in Names /\ info[n].type \in DeviceType
                     /\ info[n].port \in 0 .. 15
  /\ parent \in [Node -> Ref]
  /\ Within(first_child, used) /\ Within(next_sibling, used)

Addresses ==
  /\ physical_address \in [Node -> Digits]
  /\ logical_address \in [Node -> LogicalAddress]
  /\ allocated \subseteq 0 .. 15

\* Only new nodes are without an address; the pool knows every address in
\* use but the one the application gave the emulated TV.
Pool ==
  /\ \A n \in Node : n > used => logical_address[n] = -1
  /\ \A n \in Node : logical_address[n] \in 0 .. 14 =>
       logical_address[n] \in allocated \/ (n = emulated_device /\ logical_address[n] = 0)
  /\ \A n \in Node : logical_address[n] = 0 => info[n].type = "TV"
  /\ \A m, n \in Node :
       m # n /\ logical_address[m] = logical_address[n] /\ logical_address[n] \in 0 .. 14
       => logical_address[n] = 0 /\ emulated_device \in {m, n}

\* The device being added is no other than the one announced.
Walk ==
  /\ todo \in Seq(1 .. used)
  /\ task \in live \cup {NULL, OPENING}
  /\ task = NULL => todo = <<>>
  /\ task # NULL => announced = {}
  /\ task \in live => task # emulated_device
  /\ \A a \in announced : a.device # emulated_device

History ==
  /\ announced \subseteq [device : Node, initiator : LogicalAddress, address : Digits]
  /\ named \in Ref
  /\ num_ports \in Nat
  /\ fault \in BOOLEAN

IInv == Counts /\ Tree /\ Addresses /\ Pool /\ Walk /\ AnnouncedIsTrue /\ History

\* Nodes and numbers.
LEMMA Numbers ==
  ASSUME Counts
  PROVE  /\ used \in Node /\ Root \in 1 .. used /\ emulated_device \in Node
         /\ \A n \in 1 .. used : n \in Node
         /\ \A n \in live : n \in Node
         /\ NULL \notin Node /\ OPENING \notin Node
BY Bound DEF Counts, Node, Root, NULL, OPENING

\* What a step may do to the logical addresses.
Gives(n, x) ==
  /\ logical_address' = [logical_address EXCEPT ![n] = x]
  /\ \/ x = 15 /\ allocated \subseteq allocated'
     \/ /\ x \in 0 .. 14 /\ x \notin allocated /\ allocated' = allocated \cup {x}
        /\ x = 0 => info[n].type = "TV"
     \/ /\ x = 0 /\ n = emulated_device /\ info[n].type = "TV"
        /\ allocated' = allocated

\* It keeps them apart.
LEMMA GivesKeepsPool ==
  ASSUME Counts, Addresses, Pool, UNCHANGED <<used, info, emulated_device>>,
         NEW n \in 1 .. used, NEW x, Gives(n, x)
  PROVE  Pool'
<1>1. n \in Node /\ used \in Int /\ n <= used
  BY Numbers DEF Counts
<1>2. /\ logical_address'[n] = x
      /\ \A m \in Node : m # n => logical_address'[m] = logical_address[m]
  BY <1>1 DEF Gives, Addresses
<1>3. allocated \subseteq allocated'
  BY DEF Gives
<1>4. x \in 0 .. 14 =>
        \/ x \notin allocated /\ x \in allocated'
        \/ x = 0 /\ n = emulated_device
  BY DEF Gives
<1>5. x \in 0 .. 15 /\ (x = 0 => info[n].type = "TV")
  BY DEF Gives
<1>6. \A m \in Node : m > used' => logical_address'[m] = -1
  BY <1>1, <1>2 DEF Pool
<1>7. \A m \in Node : logical_address'[m] \in 0 .. 14 =>
        logical_address'[m] \in allocated'
          \/ (m = emulated_device' /\ logical_address'[m] = 0)
  <2> TAKE m \in Node
  <2>1. CASE m = n
    BY <1>2, <1>4, <2>1
  <2>2. CASE m # n
    BY <1>2, <1>3, <2>2 DEF Pool
  <2> QED
    BY <2>1, <2>2
<1>8. \A m \in Node : logical_address'[m] = 0 => info'[m].type = "TV"
  BY <1>2, <1>5 DEF Pool
<1>9. ASSUME NEW m \in Node, m # n, logical_address[m] = x, x \in 0 .. 14
      PROVE  x = 0 /\ emulated_device \in {m, n}
  <2>1. x \in allocated \/ (m = emulated_device /\ x = 0)
    BY <1>9 DEF Pool
  <2> QED
    BY <1>4, <1>9, <2>1
<1>10. \A k, m \in Node :
         k # m /\ logical_address'[k] = logical_address'[m] /\ logical_address'[m] \in 0 .. 14
         => logical_address'[m] = 0 /\ emulated_device' \in {k, m}
  <2> SUFFICES ASSUME NEW k \in Node, NEW m \in Node, k # m,
                      logical_address'[k] = logical_address'[m],
                      logical_address'[m] \in 0 .. 14
               PROVE  logical_address'[m] = 0 /\ emulated_device' \in {k, m}
    OBVIOUS
  <2>1. CASE k = n
    BY <1>2, <1>9, <2>1
  <2>2. CASE m = n
    BY <1>2, <1>9, <2>2
  <2>3. CASE k # n /\ m # n
    BY <1>2, <2>3 DEF Pool
  <2> QED
    BY <2>1, <2>2, <2>3
<1> QED
  BY <1>6, <1>7, <1>8, <1>10 DEF Pool

\* And typed.
LEMMA GivesKeepsAddresses ==
  ASSUME Addresses, NEW n, NEW x, Gives(n, x), allocated' \subseteq 0 .. 15
  PROVE  logical_address' \in [Node -> LogicalAddress]
<1>1. x \in LogicalAddress
  BY DEF Gives, LogicalAddress
<1> QED
  BY <1>1 DEF Gives, Addresses

\* Nothing changes for the addresses.
LEMMA SameKeepsPool ==
  ASSUME Pool, UNCHANGED <<used, info, emulated_device, logical_address>>,
         allocated \subseteq allocated'
  PROVE  Pool'
BY DEF Pool

------------------------------------------------------------------------------
\* The walk over the tree

\* A visit gives the device it visits an address, if it has none.
LEMMA VisitGives ==
  ASSUME IInv, NEW n \in 1 .. used, AllocateLogical(n)
  PROVE  /\ allocated \subseteq allocated' /\ allocated' \subseteq 0 .. 15
         /\ \/ UNCHANGED logical_address
            \/ \E x : Gives(n, x)
<1>1. n \in Node /\ info[n].type \in DeviceType /\ allocated \subseteq 0 .. 15
  BY Numbers DEF IInv, Tree, Addresses
<1>2. CASE logical_address[n] # LOGICAL_ADDRESS_UNKNOWN
  BY <1>1, <1>2 DEF AllocateLogical
<1>3. CASE logical_address[n] = LOGICAL_ADDRESS_UNKNOWN /\ parent[n] = NULL
  <2>1. CASE info[n].name = info[emulated_device].name
    <3>1. Gives(n, 15)
      BY <1>3, <2>1 DEF AllocateLogical, Gives, LOGICAL_ADDRESS_UNREGISTERED
    <3> QED
      BY <1>1, <1>3, <3>1 DEF AllocateLogical
  <2>2. CASE info[n].name # info[emulated_device].name
    BY <1>1, <1>3, <2>2 DEF AllocateLogical
  <2> QED
    BY <2>1, <2>2
<1>4. CASE logical_address[n] = LOGICAL_ADDRESS_UNKNOWN /\ parent[n] # NULL
  <2> DEFINE la == vcDevice_AllocateLogicalAddress(info[n].type)
             F == FreeAddresses(info[n].type)
  <2>1. /\ la \in 0 .. 15
        /\ F # {} => la \notin allocated /\ (la = 0 => info[n].type = "TV")
        /\ F = {} => la = 15
    BY <1>1, Allocation
  <2>2. /\ logical_address' = [logical_address EXCEPT ![n] = la]
        /\ allocated' = IF F = {} THEN allocated ELSE allocated \cup {la}
    BY <1>4 DEF AllocateLogical
  <2> HIDE DEF la, F
  <2>3. CASE la = 15
    BY <1>1, <2>1, <2>2, <2>3 DEF Gives
  <2>4. CASE la # 15
    <3>1. F # {} /\ la \in 0 .. 14
      BY <2>1, <2>4
    <3>2. Gives(n, la)
      BY <2>1, <2>2, <3>1 DEF Gives
    <3> QED
      BY <1>1, <2>1, <2>2, <3>1, <3>2
  <2> QED
    BY <2>3, <2>4
<1> QED
  BY <1>2, <1>3, <1>4

\* And an address of four digits.
LEMMA VisitDigits ==
  ASSUME IInv, NEW n \in 1 .. used, AllocatePhysical(n)
  PROVE  physical_address' \in [Node -> Digits]
<1>1. n \in Node /\ info[n].port \in 0 .. 15 /\ physical_address \in [Node -> Digits]
      /\ parent[n] \in Ref
  BY Numbers DEF IInv, Tree, Addresses
<1>2. parent[n] # NULL => parent[n] \in Node
  BY <1>1 DEF Ref
<1>3. <<0, 0, 0, 0>> \in Digits
  BY DEF Digits
<1>4. parent[n] # NULL => ChildAddress(physical_address[parent[n]], info[n].port) \in Digits
  BY <1>1, <1>2, ChildDigits
<1> QED
  BY <1>1, <1>3, <1>4 DEF AllocatePhysical

\* A visit leaves calls for nodes that have been allocated.
LEMMA Pushes ==
  ASSUME IInv, NEW n \in 1 .. used, NEW rest \in Seq(1 .. used)
  PROVE  Push(n, rest) \in Seq(1 .. used)
<1>1. n \in Node /\ next_sibling[n] \in Ref /\ first_child[n] \in Ref
      /\ next_sibling[n] <= used /\ first_child[n] <= used /\ used \in Nat
  BY Numbers DEF IInv, Tree, Counts, Within
<1>2. /\ next_sibling[n] # NULL => next_sibling[n] \in 1 .. used
      /\ first_child[n] # NULL => first_child[n] \in 1 .. used
  BY <1>1, Bound DEF Ref, Node, NULL
<1> DEFINE U == 1 .. used
           s == IF next_sibling[n] = NULL THEN <<>> ELSE <<next_sibling[n]>>
           c == IF first_child[n] = NULL THEN <<>> ELSE <<first_child[n]>>
<1>3. s \in Seq(U) /\ c \in Seq(U) /\ rest \in Seq(U)
  <2>1. /\ next_sibling[n] # NULL => next_sibling[n] \in U
        /\ first_child[n] # NULL => first_child[n] \in U
        /\ rest \in Seq(U)
    BY <1>2
  <2> HIDE DEF U
  <2> QED
    BY <2>1
<1>4. Push(n, rest) = s \o c \o rest
  BY DEF Push
<1> HIDE DEF s, c, U
<1>5. s \o c \o rest \in Seq(U)
  BY <1>3
<1> QED
  BY <1>4, <1>5 DEF U

\* A visit keeps the invariant.
LEMMA VisitKeeps == IInv /\ Visit => IInv'
<1> SUFFICES ASSUME IInv, Visit PROVE IInv'
  OBVIOUS
<1> DEFINE n == Head(todo)
<1>1. todo \in Seq(1 .. used) /\ todo # <<>>
  BY DEF IInv, Walk, Visit
<1>2. n \in 1 .. used /\ Tail(todo) \in Seq(1 .. used)
  <2> DEFINE U == 1 .. used
  <2>1. todo \in Seq(U) /\ todo # <<>>
    BY <1>1
  <2> HIDE DEF U
  <2>2. Head(todo) \in U /\ Tail(todo) \in Seq(U)
    BY <2>1
  <2> QED
    BY <2>2 DEF U
<1>3. /\ AllocatePhysical(n) /\ AllocateLogical(n) /\ todo' = Push(n, Tail(todo))
      /\ UNCHANGED <<treeVars, halVars, task, announced, named>>
  BY DEF Visit
<1> HIDE DEF n
<1>4. UNCHANGED <<used, live, info, parent, first_child, next_sibling, emulated_device,
                  num_ports, task, announced, named>>
  BY <1>3 DEF treeVars, halVars
<1>5. Counts' /\ Tree'
  BY <1>4 DEF IInv, Counts, Tree
<1>6. physical_address' \in [Node -> Digits]
  BY <1>2, <1>3, VisitDigits
<1>7. /\ allocated \subseteq allocated' /\ allocated' \subseteq 0 .. 15
      /\ UNCHANGED logical_address \/ \E x : Gives(n, x)
  BY <1>2, <1>3, VisitGives
<1>8. Addresses' /\ Pool'
  <2>1. CASE UNCHANGED logical_address
    <3>1. Addresses'
      BY <1>6, <1>7, <2>1 DEF IInv, Addresses
    <3>2. Pool'
      BY <1>4, <1>7, <2>1, SameKeepsPool DEF IInv
    <3> QED
      BY <3>1, <3>2
  <2>2. ASSUME NEW x, Gives(n, x) PROVE Addresses' /\ Pool'
    <3>1. logical_address' \in [Node -> LogicalAddress]
      BY <1>7, <2>2, GivesKeepsAddresses DEF IInv
    <3>2. Pool'
      BY <1>2, <1>4, <2>2, GivesKeepsPool DEF IInv
    <3> QED
      BY <1>6, <1>7, <3>1, <3>2 DEF Addresses
  <2> QED
    BY <1>7, <2>1, <2>2
<1>9. todo' \in Seq(1 .. used)
  BY <1>2, <1>3, Pushes
<1>10. task # NULL
  BY <1>1 DEF IInv, Walk
<1>11. announced = {}
  BY <1>10 DEF IInv, Walk
<1>12. Walk' /\ AnnouncedIsTrue'
  BY <1>4, <1>9, <1>10, <1>11 DEF IInv, Walk, AnnouncedIsTrue
<1>13. fault' \in BOOLEAN
  BY <1>3 DEF AllocateLogical, IInv, History
<1>14. History'
  BY <1>4, <1>13 DEF IInv, History
<1> QED
  BY <1>5, <1>8, <1>12, <1>14 DEF IInv

\* So does the end of HdmiCecOpen.
LEMMA OpenEndKeeps == IInv /\ openEnd => IInv'
<1> SUFFICES ASSUME IInv, openEnd PROVE IInv'
  OBVIOUS
<1>1. task = OPENING /\ todo = <<>> /\ task' = NULL
  BY DEF openEnd
<1>2. UNCHANGED <<used, live, info, parent, first_child, next_sibling, allocated,
                  emulated_device, num_ports, todo, announced, named, fault>>
  BY DEF openEnd, treeVars, halVars
<1>3. emulated_device \in Node /\ emulated_device \in 1 .. used
  BY Numbers DEF IInv, Counts
<1>4. Addresses' /\ Pool'
  <2>1. CASE info[emulated_device].type = "TV"
    <3>1. physical_address' = [physical_address EXCEPT ![emulated_device] = <<0, 0, 0, 0>>]
      BY <2>1 DEF openEnd
    <3>2. Gives(emulated_device, 15)
      BY <1>2, <2>1 DEF openEnd, Gives, LOGICAL_ADDRESS_UNREGISTERED
    <3>3. <<0, 0, 0, 0>> \in Digits
      BY DEF Digits
    <3>4. physical_address' \in [Node -> Digits]
      BY <3>1, <3>3 DEF IInv, Addresses
    <3>5. allocated' \subseteq 0 .. 15
      BY <1>2 DEF IInv, Addresses
    <3>6. logical_address' \in [Node -> LogicalAddress]
      BY <3>2, <3>5, GivesKeepsAddresses DEF IInv
    <3>7. Pool'
      BY <1>2, <1>3, <3>2, GivesKeepsPool DEF IInv
    <3> QED
      BY <3>4, <3>5, <3>6, <3>7 DEF Addresses
  <2>2. CASE info[emulated_device].type # "TV"
    BY <1>2, <2>2 DEF openEnd, IInv, Addresses, Pool
  <2> QED
    BY <2>1, <2>2
<1>5. NULL # OPENING /\ NULL \notin live /\ announced = {}
  BY <1>1, Numbers DEF IInv, Walk, NULL, OPENING
<1>6. Walk' /\ AnnouncedIsTrue'
  BY <1>1, <1>2, <1>5 DEF IInv, Walk, AnnouncedIsTrue
<1>7. Counts' /\ Tree' /\ History'
  BY <1>2 DEF IInv, Counts, Tree, History
<1> QED
  BY <1>4, <1>6, <1>7 DEF IInv

\* So does the announcement.
LEMMA AnnounceKeeps == IInv /\ Announce => IInv'
<1> SUFFICES ASSUME IInv, Announce PROVE IInv'
  OBVIOUS
<1> DEFINE a == [device |-> task, initiator |-> logical_address[task],
                 address |-> physical_address[task]]
<1>1. task \in Node /\ todo = <<>> /\ task' = NULL /\ announced' = {a}
  BY DEF Announce
<1>2. UNCHANGED <<used, live, info, parent, first_child, next_sibling, physical_address,
                  logical_address, allocated, emulated_device, num_ports, todo, named, fault>>
  BY DEF Announce, treeVars, halVars, addressVars
<1>3. task \in live /\ task # emulated_device
  BY <1>1, Numbers DEF IInv, Walk
<1>4. logical_address[task] \in LogicalAddress /\ physical_address[task] \in Digits
  BY <1>1 DEF IInv, Addresses
<1>5. /\ a.device = task /\ a.initiator = logical_address[task]
      /\ a.address = physical_address[task]
      /\ a \in [device : Node, initiator : LogicalAddress, address : Digits]
  BY <1>1, <1>4
<1> HIDE DEF a
<1>6. NULL \notin live
  BY Numbers DEF IInv
<1>7. AnnouncedIsTrue'
  BY <1>1, <1>2, <1>3, <1>5 DEF AnnouncedIsTrue
<1>8. Walk'
  BY <1>1, <1>2, <1>3, <1>5, <1>6 DEF IInv, Walk
<1>9. History'
  BY <1>1, <1>2, <1>5 DEF IInv, History
<1>10. Counts' /\ Tree' /\ Addresses' /\ Pool'
  BY <1>2 DEF IInv, Counts, Tree, Addresses, Pool
<1> QED
  BY <1>7, <1>8, <1>9, <1>10 DEF IInv

------------------------------------------------------------------------------
\* The messages

\* A device that is added is new, and so is everything behind it.
LEMMA AddKeeps ==
  ASSUME IInv, NEW d \in Additions, NEW name \in Names, AddDevice(d, name)
  PROVE  IInv'
<1> DEFINE top == used + 1
<1>1. PICK p \in Node :
        /\ parent' = [BuiltParent(parent, used, d) EXCEPT ![top] = p]
        /\ next_sibling' = InsertFirst(BuiltNext(next_sibling, used, d), p, top)
        /\ first_child' = [BuiltFirst(first_child, used, d) EXCEPT ![p] = top]
  BY Numbers DEF AddDevice, IInv
<1>2. /\ task = NULL /\ used + Len(d) <= MaxNodes /\ used' = used + Len(d)
      /\ live' = live \cup (used + 1 .. used + Len(d))
      /\ info' = BuiltInfo(info, used, d)
      /\ task' = top /\ todo' = <<Root>> /\ announced' = {} /\ named' = NULL
  BY DEF AddDevice, Ready
<1>3. UNCHANGED <<physical_address, logical_address, allocated, emulated_device, num_ports,
                  fault>>
  BY DEF AddDevice, addressVars, halVars
<1>4. IsDescription(d)
  BY Descriptions
<1>5. Len(d) \in Nat /\ Len(d) >= 1 /\ used \in Nat /\ used >= 1 /\ MaxNodes \in Nat
  BY <1>4, EntryOf, Bound DEF IInv, Counts
<1>6. Counts'
  <2>1. used' \in 1 .. MaxNodes /\ used' >= used
    BY <1>2, <1>5
  <2>2. emulated_device' \in 1 .. used'
    BY <1>3, <1>5, <2>1 DEF IInv, Counts
  <2>3. live \subseteq 1 .. used
    BY DEF IInv, Counts
  <2>4. ASSUME NEW n \in live' PROVE n \in 1 .. used'
    <3>1. CASE n \in live
      BY <1>5, <2>1, <2>3, <3>1
    <3>2. CASE n \in used + 1 .. used + Len(d)
      BY <1>2, <1>5, <3>2
    <3> QED
      BY <1>2, <3>1, <3>2
  <2> QED
    BY <2>1, <2>2, <2>4 DEF Counts
<1>7. top \in Node /\ top <= used' /\ top \in live' /\ top # emulated_device
  BY <1>2, <1>5 DEF Node, IInv, Counts
<1> HIDE DEF top
<1>8. ASSUME NEW r \in Ref, r <= used PROVE r <= used'
  BY <1>2, <1>5, <1>8 DEF Ref, Node, NULL
<1>9. Within(first_child, used') /\ Within(next_sibling, used')
  BY <1>8 DEF Within, IInv, Tree
<1> DEFINE F == BuiltFirst(first_child, used, d)  N == BuiltNext(next_sibling, used, d)
<1>10. Within(F, used') /\ Within(N, used')
  BY <1>2, <1>4, <1>5, <1>9, BuiltPointers
<1>11. BuiltParent(parent, used, d) \in [Node -> Ref]
  BY <1>2, <1>4, <1>5, BuiltParents DEF IInv, Tree
<1>12. parent' \in [Node -> Ref]
  BY <1>1, <1>7, <1>11 DEF Ref
<1> HIDE DEF F, N
<1>13. Within(first_child', used')
  <2>1. first_child' = [F EXCEPT ![p] = top]
    BY <1>1 DEF F
  <2> QED
    BY <1>7, <1>10, <2>1 DEF Within, Ref
<1>14. Within(next_sibling', used')
  <2>1. next_sibling' = InsertFirst(N, p, top)
    BY <1>1 DEF N
  <2>2. first_child[p] \in Ref /\ first_child[p] <= used'
    BY <1>9 DEF Within
  <2> QED
    BY <1>10, <2>1, <2>2 DEF InsertFirst, Within
<1>15. /\ \A n \in Node : n - used \in 1 .. Len(d) =>
            info'[n].name \in Names /\ info'[n].type \in DeviceType /\ info'[n].port \in 0 .. 15
       /\ \A n \in Node : n - used \notin 1 .. Len(d) => info'[n] = info[n]
  <2>1. info' = [n \in Node |-> IF n - used \in 1 .. Len(d) THEN NodeInfo(d, n - used)
                               ELSE info[n]]
    BY <1>2 DEF BuiltInfo, Built
  <2>2. \A n \in Node : n - used \in 1 .. Len(d) =>
          info'[n].name \in Names /\ info'[n].type \in DeviceType /\ info'[n].port \in 0 .. 15
    BY Zenon, <1>2, <1>4, <1>5, BuiltInfos
  <2>3. \A n \in Node : n - used \notin 1 .. Len(d) => info'[n] = info[n]
    BY Zenon, <2>1
  <2> QED
    BY <2>2, <2>3
<1>16. DOMAIN info' = Node
  BY <1>2, <1>4, <1>5, BuiltInfos
<1>17. Tree'
  BY <1>12, <1>13, <1>14, <1>15, <1>16 DEF IInv, Tree
<1>18. \A n \in Node : n <= used => info'[n] = info[n]
  BY <1>5, <1>15 DEF Node
<1>19. Addresses'
  BY <1>3 DEF IInv, Addresses
<1>20. Pool'
  <2>1. \A n \in Node : n > used' => logical_address'[n] = -1
    <3>1. \A n \in Node : n > used' => n > used
      BY <1>2, <1>5 DEF Node
    <3> QED
      BY <1>3, <3>1 DEF IInv, Pool
  <2>2. ASSUME NEW n \in Node, logical_address'[n] = 0 PROVE info'[n].type = "TV"
    <3>1. n <= used
      BY <1>3, <1>5, <2>2 DEF IInv, Pool, Node
    <3> QED
      BY <1>3, <1>18, <2>2, <3>1 DEF IInv, Pool
  <2> QED
    BY <1>3, <2>1, <2>2 DEF IInv, Pool
<1>21. Walk'
  <2>1. Root \in 1 .. used'
    BY <1>2, <1>5 DEF Root
  <2>2. <<Root>> \in Seq(1 .. used')
    BY <2>1
  <2>3. task' # NULL
    BY <1>2, <1>7, Numbers DEF IInv
  <2> QED
    BY <1>2, <1>3, <1>7, <2>2, <2>3 DEF Walk
<1>22. AnnouncedIsTrue' /\ History'
  BY <1>2, <1>3 DEF AnnouncedIsTrue, IInv, History, Ref
<1> QED
  BY <1>6, <1>17, <1>19, <1>20, <1>21, <1>22 DEF IInv

\* What RemoveDevice does to the tree when it finds n.
Removes(n) ==
  /\ next_sibling' = Unlinked(n)
  /\ first_child' = IF first_child[Root] = n
                    THEN [first_child EXCEPT ![Root] = next_sibling[n]]
                    ELSE first_child
  /\ live' = live \ Destroyed(n, first_child, next_sibling')
  /\ UNCHANGED <<used, info, parent>>

\* It finds a device of the list that starts at the root's first child, or
\* leaves the tree as it is.
LEMMA RemoveFinds ==
  ASSUME NEW name, RemoveDevice(name)
  PROVE  UNCHANGED treeVars \/ \E n \in Listed(first_child[Root]) : Removes(n)
<1>1. \A n \in ChildNamed(name) : n \in Listed(first_child[Root])
  BY DEF ChildNamed
<1> QED
  BY <1>1 DEF RemoveDevice, Removes

\* A device that is removed leaves its address behind, and no announcement.
LEMMA RemoveKeeps ==
  ASSUME IInv, NEW name \in Names, RemoveDevice(name)
  PROVE  IInv'
<1>1. /\ task = NULL /\ named' \in Node /\ announced' = {}
      /\ UNCHANGED <<physical_address, logical_address, allocated, emulated_device,
                     num_ports, todo, task, fault>>
  BY DEF RemoveDevice, Ready, addressVars, halVars
<1>3. live' \subseteq live /\ UNCHANGED <<used, info, parent>>
  BY RemoveFinds DEF Removes, treeVars
<1>4. Within(first_child', used) /\ Within(next_sibling', used)
  <2>0. Within(first_child, used) /\ Within(next_sibling, used)
    BY DEF IInv, Tree
  <2>1. CASE UNCHANGED treeVars
    BY <2>0, <2>1 DEF treeVars
  <2>2. ASSUME NEW n \in Listed(first_child[Root]), Removes(n)
        PROVE  Within(first_child', used) /\ Within(next_sibling', used)
    <3>0. n \in live
      BY DEF Listed, Reached
    <3>1. n \in Node /\ next_sibling[n] \in Ref /\ next_sibling[n] <= used
      BY <2>0, <3>0, Numbers DEF IInv, Within
    <3>2. NULL \in Ref /\ NULL <= used
      BY DEF Ref, NULL, IInv, Counts
    <3>3. Within(first_child', used)
      BY <2>0, <2>2, <3>1 DEF Removes, Within
    <3>4. Within(next_sibling', used)
      BY <2>0, <2>2, <3>1, <3>2 DEF Removes, Unlinked, Within
    <3> QED
      BY <3>3, <3>4
  <2> QED
    BY <2>1, <2>2, RemoveFinds
<1>5. Counts' /\ Tree'
  BY <1>1, <1>3, <1>4 DEF IInv, Counts, Tree
<1>6. Addresses' /\ Pool'
  BY <1>1, <1>3 DEF IInv, Addresses, Pool
<1>7. NULL \notin live'
  BY <1>3, Numbers DEF IInv
<1>8. Walk' /\ AnnouncedIsTrue'
  BY <1>1, <1>3, <1>7 DEF IInv, Walk, AnnouncedIsTrue
<1>9. History'
  BY <1>1 DEF IInv, History, Ref
<1> QED
  BY <1>5, <1>6, <1>8, <1>9 DEF IInv

------------------------------------------------------------------------------
\* The application

\* A call that gives the emulated device the address x, or none.
LEMMA CallKeeps ==
  ASSUME IInv, NEW x, x = 0 \/ x = 15,
         logical_address' = IF EmulatesTv
                            THEN [logical_address EXCEPT ![emulated_device] = x]
                            ELSE logical_address,
         UNCHANGED <<treeVars, physical_address, allocated, halVars, todo, task, announced,
                     named>>,
         fault' \in BOOLEAN
  PROVE  IInv'
<1>1. UNCHANGED <<used, live, info, parent, first_child, next_sibling, physical_address,
                  allocated, emulated_device, num_ports, todo, task, announced, named>>
  BY DEF treeVars, halVars
<1>2. emulated_device \in Node /\ emulated_device \in 1 .. used
  BY Numbers DEF IInv, Counts
<1>3. Addresses' /\ Pool'
  <2>1. CASE EmulatesTv
    <3>1. Gives(emulated_device, x)
      BY <1>1, <2>1 DEF EmulatesTv, Gives
    <3>2. allocated' \subseteq 0 .. 15
      BY <1>1 DEF IInv, Addresses
    <3>3. logical_address' \in [Node -> LogicalAddress]
      BY <3>1, <3>2, GivesKeepsAddresses DEF IInv
    <3>4. Pool'
      BY <1>1, <1>2, <3>1, GivesKeepsPool DEF IInv
    <3> QED
      BY <1>1, <3>2, <3>3, <3>4 DEF IInv, Addresses
  <2>2. CASE ~ EmulatesTv
    BY <1>1, <2>2 DEF IInv, Addresses, Pool
  <2> QED
    BY <2>1, <2>2
<1>4. AnnouncedIsTrue'
  <2>1. \A a \in announced : a.device \in Node /\ a.device # emulated_device
    BY Numbers DEF IInv, AnnouncedIsTrue, Walk
  <2>2. \A n \in Node : n # emulated_device => logical_address'[n] = logical_address[n]
    BY DEF IInv, Addresses
  <2> QED
    BY <1>1, <2>1, <2>2 DEF IInv, AnnouncedIsTrue
<1>5. Counts' /\ Tree' /\ Walk' /\ History'
  BY <1>1 DEF IInv, Counts, Tree, Walk, History
<1> QED
  BY <1>3, <1>4, <1>5 DEF IInv

------------------------------------------------------------------------------
\* The start

\* HdmiCecOpen builds the map of its profile.
LEMMA InitIInv == Init => IInv
<1> SUFFICES ASSUME NEW profile \in Profiles, Open(profile) PROVE IInv
  BY DEF Init
<1> DEFINE d == profile.device_map
           none == [n \in Node |-> NULL]
           blank == [n \in Node |-> Blank]
<1>1. IsDescription(d) /\ Len(d) <= MaxNodes /\ profile.number_ports \in Nat
  BY Descriptions
<1>2. Len(d) \in Nat /\ Len(d) >= 1 /\ MaxNodes \in Nat
  BY <1>1, EntryOf, Bound
<1>3. /\ used = Len(d) /\ live = 1 .. Len(d) /\ info = BuiltInfo(blank, 0, d)
      /\ parent = BuiltParent(none, 0, d) /\ first_child = BuiltFirst(none, 0, d)
      /\ next_sibling = BuiltNext(none, 0, d)
      /\ physical_address = [n \in Node |-> <<15, 15, 15, 15>>]
      /\ logical_address = [n \in Node |-> LOGICAL_ADDRESS_UNKNOWN]
      /\ allocated = {} /\ emulated_device \in live /\ num_ports = profile.number_ports
      /\ todo = <<Root>> /\ task = OPENING /\ announced = {} /\ named = NULL
      /\ fault = FALSE
  BY DEF Open
<1> HIDE DEF d, blank
<1>4. Counts
  BY <1>1, <1>2, <1>3 DEF Counts
<1>5. none \in [Node -> Ref] /\ Within(none, used)
  BY <1>2, <1>3 DEF Ref, Within, NULL
<1> HIDE DEF none
<1>6. 0 + Len(d) <= MaxNodes /\ used = 0 + Len(d) /\ 0 \in Nat
  BY <1>1, <1>2, <1>3
<1>8. parent \in [Node -> Ref]
  BY <1>1, <1>3, <1>5, <1>6, BuiltParents
<1>9. Within(first_child, used) /\ Within(next_sibling, used)
  BY <1>1, <1>3, <1>5, <1>6, BuiltPointers
<1>10. \A n \in Node : n \notin 1 .. Len(d) => info[n] = Blank
  <2>1. ASSUME NEW n \in Node PROVE n - 0 = n
    BY <1>2 DEF Node
  <2>2. \A n \in Node : n - 0 \notin 1 .. Len(d) => info[n] = blank[n]
    <3>1. info = [n \in Node |-> IF n - 0 \in 1 .. Len(d) THEN NodeInfo(d, n - 0)
                                ELSE blank[n]]
      BY <1>3 DEF BuiltInfo, Built
    <3> QED
      BY Zenon, <3>1
  <2> QED
    BY <2>1, <2>2 DEF blank
<1>11. \A n \in Node : n \in 1 .. Len(d) =>
         info[n].name \in Names /\ info[n].type \in DeviceType /\ info[n].port \in 0 .. 15
  <2>1. ASSUME NEW n \in Node PROVE n - 0 = n
    BY <1>2 DEF Node
  <2>2. \A n \in Node : n - 0 \in 1 .. Len(d) =>
          info[n].name \in Names /\ info[n].type \in DeviceType /\ info[n].port \in 0 .. 15
    BY Zenon, <1>1, <1>3, <1>6, BuiltInfos
  <2> QED
    BY <2>1, <2>2
<1>12. Blank.name \in Names /\ Blank.type \in DeviceType /\ Blank.port \in 0 .. 15
  <2>1. d[1].name \in Names
    BY <1>1, <1>2, EntryOf
  <2>2. (CHOOSE name \in Names : TRUE) \in Names
    BY <2>1
  <2> QED
    BY <2>2 DEF Blank, DeviceType
<1>13. DOMAIN info = Node
  BY Zenon, <1>1, <1>3, <1>6, BuiltInfos
<1>14. Tree
  BY <1>8, <1>9, <1>10, <1>11, <1>12, <1>13 DEF Tree
<1>15. <<15, 15, 15, 15>> \in Digits
  BY DEF Digits
<1>16. Addresses
  BY <1>3, <1>15 DEF Addresses, LogicalAddress, LOGICAL_ADDRESS_UNKNOWN
<1>17. Pool
  BY <1>3 DEF Pool, LOGICAL_ADDRESS_UNKNOWN
<1>18. todo \in Seq(1 .. used)
  <2>1. Root \in 1 .. used
    BY <1>2, <1>3 DEF Root
  <2> QED
    BY <1>3, <2>1
<1>19. OPENING # NULL /\ OPENING \notin live
  BY <1>4, Numbers DEF OPENING, NULL
<1>20. Walk
  BY <1>3, <1>18, <1>19 DEF Walk
<1>21. AnnouncedIsTrue /\ History
  BY <1>1, <1>3 DEF AnnouncedIsTrue, History, Ref
<1> QED
  BY <1>4, <1>14, <1>16, <1>17, <1>20, <1>21 DEF IInv

\* Every step keeps the invariant.
LEMMA StepIInv == IInv /\ [Next]_vars => IInv'
<1> SUFFICES ASSUME IInv, [Next]_vars PROVE IInv'
  OBVIOUS
<1>1. ASSUME TouchEmulated PROVE fault' \in BOOLEAN
  BY <1>1 DEF TouchEmulated, IInv, History
<1>2. CASE Handler
  BY <1>2, VisitKeeps, OpenEndKeeps, AnnounceKeeps DEF Handler
<1>3. CASE Messages
  BY <1>3, AddKeeps, RemoveKeeps DEF Messages
<1>4. CASE HdmiCecAddLogicalAddress
  BY <1>1, <1>4, CallKeeps DEF HdmiCecAddLogicalAddress, LOGICAL_ADDRESS_TV
<1>5. CASE HdmiCecRemoveLogicalAddress
  BY <1>1, <1>5, CallKeeps DEF HdmiCecRemoveLogicalAddress, LOGICAL_ADDRESS_UNREGISTERED
<1>6. CASE HalReads
  <2>1. UNCHANGED <<used, live, info, parent, first_child, next_sibling, physical_address,
                    logical_address, allocated, emulated_device, num_ports, todo, task,
                    announced, named>>
    BY <1>6 DEF HalReads, treeVars, addressVars, halVars
  <2>2. fault' \in BOOLEAN
    BY <1>1, <1>6 DEF HalReads
  <2> QED
    BY <2>1, <2>2 DEF IInv, Counts, Tree, Addresses, Pool, Walk, AnnouncedIsTrue, History
<1>7. CASE UNCHANGED vars
  BY <1>7 DEF vars, treeVars, addressVars, halVars, IInv, Counts, Tree, Addresses, Pool,
    Walk, AnnouncedIsTrue, History
<1> QED
  BY <1>2, <1>3, <1>4, <1>5, <1>6, <1>7 DEF Next, Application

\* So it always holds.
THEOREM Inductive == Spec => []IInv
BY InitIInv, StepIInv, PTL DEF Spec

------------------------------------------------------------------------------
\* The properties

\* The state has the types TypeOK gives it.
THEOREM TypeCorrect == Spec => []TypeOK
<1>1. IInv => TypeOK
  <2> SUFFICES ASSUME IInv PROVE TypeOK
    OBVIOUS
  <2>1. /\ used \in 1 .. MaxNodes /\ live \subseteq 1 .. used /\ emulated_device \in Node
        /\ \A n \in 1 .. used : n \in Node
    BY Numbers DEF IInv, Counts
  <2>2. todo \in Seq(Node)
    <3> DEFINE U == 1 .. used
    <3>1. todo \in Seq(U) /\ \A n \in U : n \in Node
      BY <2>1 DEF IInv, Walk
    <3> HIDE DEF U
    <3> QED
      BY <3>1
  <2>3. task \in Node \cup {NULL, OPENING}
    BY Numbers DEF IInv, Walk
  <2> QED
    BY <2>1, <2>2, <2>3 DEF IInv, Tree, Within, Addresses, History, Digits, TypeOK
<1> QED
  BY <1>1, Inductive, PTL

\* Two devices of the network never answer to the same logical address, but
\* for the emulated TV and another TV, however many devices come and go.
THEOREM AddressesCorrect == Spec => []LogicalAddressesUnique
<1>1. IInv => LogicalAddressesUnique
  <2> SUFFICES ASSUME IInv, NEW m \in live, NEW n \in live, m # n,
                      logical_address[m] = logical_address[n],
                      logical_address[n] # -1, logical_address[n] # 15
               PROVE  /\ logical_address[n] = 0
                      /\ emulated_device \in {m, n}
                      /\ info[m].type = "TV" /\ info[n].type = "TV"
    BY DEF LogicalAddressesUnique, LOGICAL_ADDRESS_UNKNOWN, LOGICAL_ADDRESS_UNREGISTERED,
      LOGICAL_ADDRESS_TV
  <2>1. m \in Node /\ n \in Node
    BY Numbers DEF IInv
  <2>2. logical_address[n] \in 0 .. 14
    BY <2>1 DEF IInv, Addresses, LogicalAddress
  <2> QED
    BY <2>1, <2>2 DEF IInv, Pool
<1> QED
  BY <1>1, Inductive, PTL

\* What AddDevice announced is what the map says until the next message.
THEOREM AnnouncedCorrect == Spec => []AnnouncedIsTrue
<1>1. IInv => AnnouncedIsTrue
  BY DEF IInv
<1> QED
  BY <1>1, Inductive, PTL

------------------------------------------------------------------------------
\* Nobody is renumbered

\* What no profile of the repository breaks when a session starts: a component
\* that emulates a TV has it at the root.  HdmiCecOpen gives any other TV the root's address.
SinkIsRoot == EmulatesTv => emulated_device = Root

Unset == <<15, 15, 15, 15>>

\* The address a walk gives a node.
Target(n) ==
  IF parent[n] = NULL THEN <<0, 0, 0, 0>>
  ELSE ChildAddress(physical_address[parent[n]], info[n].port)

\* A node that has an address has the one the next walk will give it.
Settled ==
  /\ parent[Root] = NULL
  /\ \A n \in Node : n > used => physical_address[n] = Unset
  /\ \A n \in Node : physical_address[n] = Unset \/ physical_address[n] = Target(n)

\* Below a node without an address there is none to be had.
LEMMA UnsetBelow ==
  ASSUME NEW port
  PROVE  ChildAddress(Unset, port) = Unset
<1>1. {i \in 1 .. 4 : Unset[i] = 0} = {}
  BY DEF Unset
<1> QED
  BY <1>1 DEF ChildAddress

\* When the node x gets an address it had not, those who had one keep theirs.
LEMMA SettledByStep ==
  ASSUME IInv, Settled, UNCHANGED <<used, parent, info>>, NEW x \in 1 .. used,
         physical_address' = [physical_address EXCEPT ![x] = Target(x)]
  PROVE  /\ Settled'
         /\ \A n \in Node : physical_address[n] # Unset =>
              physical_address'[n] = physical_address[n]
<1>1. x \in Node /\ physical_address \in [Node -> Digits] /\ used \in Int /\ x <= used
  BY Numbers DEF IInv, Addresses, Counts
<1>2. /\ physical_address'[x] = Target(x)
      /\ \A n \in Node : n # x => physical_address'[n] = physical_address[n]
  BY <1>1
<1>3. \A n \in Node : physical_address[n] # Unset =>
        physical_address'[n] = physical_address[n]
  BY <1>1, <1>2 DEF Settled
<1>4. ASSUME NEW n \in Node
      PROVE  physical_address'[n] = Unset \/ physical_address'[n] = Target(n)'
  <2>1. CASE parent[n] = NULL
    <3>1. Target(n)' = <<0, 0, 0, 0>> /\ Target(n) = <<0, 0, 0, 0>>
      BY <2>1 DEF Target
    <3> QED
      BY <1>2, <3>1 DEF Settled
  <2>2. CASE parent[n] # NULL
    <3> DEFINE q == parent[n]
    <3>1. q \in Node
      BY <2>2 DEF IInv, Tree, Ref
    <3>2. /\ Target(n) = ChildAddress(physical_address[q], info[n].port)
          /\ Target(n)' = ChildAddress(physical_address'[q], info[n].port)
      BY <2>2 DEF Target
    <3> HIDE DEF q
    <3>3. CASE physical_address'[q] = physical_address[q]
      <4>1. Target(n)' = Target(n)
        BY <3>2, <3>3
      <4> QED
        BY <1>2, <4>1 DEF Settled
    <3>4. CASE physical_address'[q] # physical_address[q]
      <4>1. q = x /\ physical_address[x] = Unset
        BY <1>1, <1>2, <1>3, <3>1, <3>4
      <4>2. Target(n) = Unset
        BY <3>2, <4>1, UnsetBelow
      <4>3. physical_address[n] = Unset
        BY <4>2 DEF Settled
      <4>4. physical_address'[n] = Unset
        BY <1>2, <4>2, <4>3
      <4> QED
        BY <4>4
    <3> QED
      BY <3>3, <3>4
  <2> QED
    BY <2>1, <2>2
<1>5. parent'[Root] = NULL /\ \A n \in Node : n > used' => physical_address'[n] = Unset
  BY <1>1, <1>2 DEF Settled, Node
<1> QED
  BY <1>3, <1>4, <1>5 DEF Settled

Stable ==
  \A n \in Node :
    /\ physical_address[n] # Unset => physical_address'[n] = physical_address[n]
    /\ logical_address[n] # LOGICAL_ADDRESS_UNKNOWN /\ n # emulated_device =>
         logical_address'[n] = logical_address[n]

\* The physical addresses and what they are made of stay as they are.
LEMMA SettledBySame ==
  ASSUME Settled, UNCHANGED <<used, parent, info, physical_address>>
  PROVE  Settled'
BY DEF Settled, Target

\* AddDevice only makes new nodes.
LEMMA SettledByAdd ==
  ASSUME IInv, Settled, NEW d \in Additions, NEW name \in Names, AddDevice(d, name)
  PROVE  Settled'
<1>1. PICK p \in Node : parent' = [BuiltParent(parent, used, d) EXCEPT ![used + 1] = p]
  BY Numbers DEF AddDevice, IInv
<1>2. /\ used' = used + Len(d) /\ info' = BuiltInfo(info, used, d)
      /\ UNCHANGED physical_address
  BY DEF AddDevice, addressVars
<1>3. Len(d) \in Nat /\ used \in Nat /\ used >= 1 /\ \A n \in Node : n \in Nat
  BY Descriptions, EntryOf, Bound DEF IInv, Counts, Node
<1>4. ASSUME NEW n \in Node, n <= used
      PROVE  parent'[n] = parent[n] /\ info'[n] = info[n]
  <2>1. n - used \notin 1 .. Len(d) /\ n # used + 1
    BY <1>3, <1>4
  <2>2. info'[n] = info[n]
    BY <1>2, <2>1 DEF BuiltInfo, Built
  <2>3. BuiltParent(parent, used, d)[n] = parent[n]
    BY <2>1 DEF BuiltParent, Built
  <2>4. parent'[n] = BuiltParent(parent, used, d)[n]
    BY <1>1, <2>1 DEF BuiltParent, Built
  <2> QED
    BY <2>2, <2>3, <2>4
<1>5. Root \in Node /\ Root <= used
  BY <1>3, Numbers DEF IInv, Root
<1>6. ASSUME NEW n \in Node
      PROVE  physical_address'[n] = Unset \/ physical_address'[n] = Target(n)'
  <2>1. CASE n > used
    BY <1>2, <2>1 DEF Settled
  <2>2. CASE n <= used
    <3>1. Target(n)' = Target(n)
      BY <1>2, <1>4, <2>2 DEF Target
    <3> QED
      BY <1>2, <3>1 DEF Settled
  <2> QED
    BY <1>3, <2>1, <2>2
<1>7. \A n \in Node : n > used' => physical_address'[n] = Unset
  <2>1. \A n \in Node : n > used' => n > used
    BY <1>2, <1>3
  <2> QED
    BY <1>2, <2>1 DEF Settled
<1>8. parent'[Root] = NULL
  BY <1>4, <1>5 DEF Settled
<1> QED
  BY <1>6, <1>7, <1>8 DEF Settled

\* Every step is stable.
LEMMA StepStable == IInv /\ SinkIsRoot /\ Settled /\ [Next]_vars => Settled' /\ Stable
<1> SUFFICES ASSUME IInv, SinkIsRoot, Settled, [Next]_vars PROVE Settled' /\ Stable
  OBVIOUS
<1>0. logical_address \in [Node -> LogicalAddress] /\ physical_address \in [Node -> Digits]
  BY DEF IInv, Addresses
<1>1. CASE Visit
  <2> DEFINE x == Head(todo)
  <2>1. todo \in Seq(1 .. used) /\ todo # <<>>
    BY <1>1 DEF IInv, Walk, Visit
  <2>2. x \in 1 .. used
    <3> DEFINE U == 1 .. used
    <3>1. todo \in Seq(U) /\ todo # <<>>
      BY <2>1
    <3> HIDE DEF U
    <3>2. Head(todo) \in U
      BY <3>1
    <3> QED
      BY <3>2 DEF U
  <2>3. /\ AllocatePhysical(x) /\ AllocateLogical(x)
        /\ UNCHANGED <<used, parent, info>>
    BY <1>1 DEF Visit, treeVars
  <2> HIDE DEF x
  <2>4. physical_address' = [physical_address EXCEPT ![x] = Target(x)]
    BY <2>3 DEF AllocatePhysical, Target
  <2>5. Settled' /\ \A n \in Node : physical_address[n] # Unset =>
          physical_address'[n] = physical_address[n]
    BY <2>2, <2>3, <2>4, SettledByStep
  <2>6. \A n \in Node : logical_address[n] # LOGICAL_ADDRESS_UNKNOWN =>
          logical_address'[n] = logical_address[n]
    <3>1. CASE logical_address[x] # LOGICAL_ADDRESS_UNKNOWN
      BY <2>3, <3>1 DEF AllocateLogical
    <3>2. CASE logical_address[x] = LOGICAL_ADDRESS_UNKNOWN
      <4>1. UNCHANGED logical_address
              \/ \E la : logical_address' = [logical_address EXCEPT ![x] = la]
        BY <2>3, <3>2 DEF AllocateLogical
      <4> QED
        BY <1>0, <3>2, <4>1
    <3> QED
      BY <3>1, <3>2
  <2> QED
    BY <2>5, <2>6 DEF Stable
<1>2. CASE openEnd
  <2>1. UNCHANGED <<used, parent, info>>
    BY <1>2 DEF openEnd, treeVars
  <2>2. CASE EmulatesTv
    <3>1. emulated_device = Root /\ Root \in 1 .. used
      BY <2>2, Numbers DEF SinkIsRoot, IInv
    <3>2. Target(Root) = <<0, 0, 0, 0>>
      BY DEF Settled, Target
    <3>3. physical_address' = [physical_address EXCEPT ![Root] = Target(Root)]
      BY <1>2, <2>2, <3>1, <3>2 DEF openEnd, EmulatesTv
    <3>4. Settled' /\ \A n \in Node : physical_address[n] # Unset =>
            physical_address'[n] = physical_address[n]
      BY <2>1, <3>1, <3>3, SettledByStep
    <3>5. \A n \in Node : n # emulated_device => logical_address'[n] = logical_address[n]
      BY <1>0, <1>2, <2>2 DEF openEnd, EmulatesTv
    <3> QED
      BY <3>4, <3>5 DEF Stable
  <2>3. CASE ~ EmulatesTv
    <3>1. UNCHANGED <<physical_address, logical_address>>
      BY <1>2, <2>3 DEF openEnd, EmulatesTv
    <3> QED
      BY <2>1, <3>1, SettledBySame DEF Stable
  <2> QED
    BY <2>2, <2>3
<1>3. CASE Announce
  BY <1>3, SettledBySame DEF Announce, treeVars, addressVars, Stable
<1>4. ASSUME NEW d \in Additions, NEW name \in Names, AddDevice(d, name)
      PROVE  Settled' /\ Stable
  <2>1. UNCHANGED <<physical_address, logical_address>>
    BY <1>4 DEF AddDevice, addressVars
  <2> QED
    BY <1>4, <2>1, SettledByAdd DEF Stable
<1>5. ASSUME NEW name \in Names, RemoveDevice(name) PROVE Settled' /\ Stable
  <2>1. UNCHANGED <<used, parent, info, physical_address, logical_address>>
    BY <1>5 DEF RemoveDevice, treeVars, addressVars
  <2> QED
    BY <2>1, SettledBySame DEF Stable
<1>6. CASE Application
  <2>1. UNCHANGED <<used, parent, info, physical_address>>
    BY <1>6 DEF Application, HdmiCecAddLogicalAddress, HdmiCecRemoveLogicalAddress,
      HalReads, treeVars, addressVars
  <2>2. \A n \in Node : n # emulated_device => logical_address'[n] = logical_address[n]
    BY <1>0, <1>6 DEF Application, HdmiCecAddLogicalAddress, HdmiCecRemoveLogicalAddress,
      HalReads, addressVars
  <2> QED
    BY <2>1, <2>2, SettledBySame DEF Stable
<1>7. CASE UNCHANGED vars
  BY <1>7, SettledBySame DEF vars, treeVars, addressVars, Stable
<1> QED
  BY <1>1, <1>2, <1>3, <1>4, <1>5, <1>6, <1>7 DEF Next, Handler, Messages

\* It holds at the start.
LEMMA InitSettled == Init => Settled
<1> SUFFICES ASSUME NEW profile \in Profiles, Open(profile) PROVE Settled
  BY DEF Init
<1> DEFINE d == profile.device_map
           none == [n \in Node |-> NULL]
<1>1. physical_address = [n \in Node |-> Unset] /\ parent = BuiltParent(none, 0, d)
  BY DEF Open, Unset
<1>2. IsDescription(d)
  BY Descriptions
<1> HIDE DEF d
<1>3. Root \in Node /\ Len(d) \in Nat /\ Len(d) >= 1
  BY <1>2, Bound, EntryOf DEF Root, Node
<1>4. parent[Root] = Shifted(0, d[1].up)
  BY <1>1, <1>3 DEF BuiltParent, Built, Root
<1>5. d[1].up = 0
  BY <1>2 DEF IsDescription
<1>6. parent[Root] = NULL
  BY <1>4, <1>5 DEF Shifted, NULL
<1> QED
  BY <1>1, <1>6 DEF Settled

\* Which device is emulated, and its type, are settled when the map is built.
LEMMA StepSink == IInv /\ SinkIsRoot /\ [Next]_vars => SinkIsRoot'
<1> SUFFICES ASSUME IInv, SinkIsRoot, [Next]_vars PROVE SinkIsRoot'
  OBVIOUS
<1>1. CASE Handler \/ Application
  BY <1>1 DEF Handler, Visit, openEnd, Announce, Application, HdmiCecAddLogicalAddress,
    HdmiCecRemoveLogicalAddress, HalReads, treeVars, halVars, SinkIsRoot, EmulatesTv
<1>2. ASSUME NEW d \in Additions, NEW name \in Names, AddDevice(d, name)
      PROVE  SinkIsRoot'
  <2>1. /\ info' = BuiltInfo(info, used, d) /\ emulated_device' = emulated_device
        /\ emulated_device \in Node /\ emulated_device \in 1 .. used /\ used \in Nat
    BY <1>2, Numbers, Bound DEF AddDevice, halVars, IInv, Counts
  <2>2. emulated_device - used \notin 1 .. Len(d)
    BY <2>1
  <2>3. info'[emulated_device] = info[emulated_device]
    BY <2>1, <2>2 DEF BuiltInfo, Built
  <2> QED
    BY <2>1, <2>3 DEF SinkIsRoot, EmulatesTv
<1>3. ASSUME NEW name \in Names, RemoveDevice(name) PROVE SinkIsRoot'
  BY <1>3 DEF RemoveDevice, treeVars, halVars, SinkIsRoot, EmulatesTv
<1>4. CASE UNCHANGED vars
  BY <1>4 DEF vars, treeVars, halVars, SinkIsRoot, EmulatesTv
<1> QED
  BY <1>1, <1>2, <1>3, <1>4 DEF Next, Messages

\* In a session that starts with an emulated TV, if any, at the root of its
\* network, adding and removing devices renumbers nobody.
THEOREM StableCorrect == Spec /\ SinkIsRoot => AddressesStable
<1>1. IInv /\ Stable =>
        \A n \in live \cap live' :
          /\ physical_address[n] # <<15, 15, 15, 15>> =>
               physical_address'[n] = physical_address[n]
          /\ logical_address[n] # LOGICAL_ADDRESS_UNKNOWN /\ n # emulated_device =>
               logical_address'[n] = logical_address[n]
  BY Numbers DEF IInv, Stable, Unset
<1>2. Spec /\ SinkIsRoot => []SinkIsRoot
  BY StepSink, Inductive, PTL DEF Spec
<1> QED
  BY <1>1, <1>2, InitIInv, StepIInv, InitSettled, StepStable, PTL DEF Spec, AddressesStable
=============================================================================
