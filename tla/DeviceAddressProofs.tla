------------------------ MODULE DeviceAddressProofs ------------------------
(***************************************************************************)
(* The physical addresses of DeviceMap: the walk over the tree reaches     *)
(* every device, and the addresses it leaves are those of different paths. *)
(***************************************************************************)
EXTENDS DeviceTreeProofs

------------------------------------------------------------------------------
\* Paths

\* The set S has where its members lead.
Closed(S) ==
  \A m \in S : /\ first_child[m] \in live => first_child[m] \in S
               /\ next_sibling[m] \in live => next_sibling[m] \in S

\* A set with the first child of n has all its children.
LEMMA ChildrenTogether ==
  ASSUME IInv, Linked, NEW S \in SUBSET live, Closed(S), NEW n \in live,
         first_child[n] \in live => first_child[n] \in S,
         NEW c \in live, parent[c] = n
  PROVE  c \in S
<1> DEFINE T == {m \in live : parent[m] = n => m \in S}
<1>1. NULL \notin live /\ NULL # Root
  BY Numbers DEF IInv, Linked
<1>2. T \in SUBSET live /\ Root \in T
  BY <1>1 DEF Linked
<1>3. ASSUME NEW m \in T, first_child[m] \in live PROVE first_child[m] \in T
  BY <1>1, <1>3 DEF Linked
<1>4. ASSUME NEW m \in T, next_sibling[m] \in live PROVE next_sibling[m] \in T
  BY <1>1, <1>4 DEF Linked, Closed
<1> HIDE DEF T
<1>5. T = live
  BY <1>2, <1>3, <1>4, NoneIsLeftOut
<1> QED
  BY <1>5 DEF T

------------------------------------------------------------------------------
\* The walk

\* The device has the address that follows from its parent's.
Done(n) == physical_address[n] = Target(n)

\* What is not done can be reached from the calls still to be made.
Covered ==
  /\ todo \in Seq(live)
  /\ \A S \in SUBSET live :
       Closed(S) /\ (\A i \in 1 .. Len(todo) : todo[i] \in S) =>
         \A n \in live \ S : Done(n)

\* When no call is left, all is done.
LEMMA AllDone ==
  ASSUME Covered, todo = <<>>, NEW n \in live
  PROVE  Done(n)
<1>1. {} \in SUBSET live /\ Closed({})
  BY DEF Closed
<1>2. \A i \in 1 .. Len(todo) : todo[i] \in {}
  OBVIOUS
<1> QED
  BY <1>1, <1>2 DEF Covered

\* A walk that starts at the root covers the tree.
LEMMA RootCovers == Linked /\ todo = <<Root>> => Covered
<1> SUFFICES ASSUME Linked, todo = <<Root>> PROVE Covered
  OBVIOUS
<1>1. todo \in Seq(live)
  BY DEF Linked
<1>2. ASSUME NEW S \in SUBSET live, Closed(S), \A i \in 1 .. Len(todo) : todo[i] \in S
      PROVE  S = live
  <2>1. Root \in S
    BY <1>2
  <2> QED
    BY <1>2, <2>1, NoneIsLeftOut DEF Closed
<1> QED
  BY <1>1, <1>2 DEF Covered

\* A visit leaves to be made what the device leads to.
LEMMA VisitCovers == IInv /\ Linked /\ Covered /\ Visit => Covered'
<1> SUFFICES ASSUME IInv, Linked, Covered, Visit PROVE Covered'
  OBVIOUS
<1> DEFINE n == Head(todo)
           rest == Tail(todo)
<1>1. /\ todo # <<>> /\ AllocatePhysical(n) /\ todo' = Push(n, rest)
      /\ UNCHANGED <<used, live, info, parent, first_child, next_sibling>>
  BY DEF Visit, treeVars
<1>2. /\ n \in live /\ rest \in Seq(live)
      /\ \A S : n \in S /\ (\A i \in 1 .. Len(rest) : rest[i] \in S) =>
           \A i \in 1 .. Len(todo) : todo[i] \in S
  BY <1>1 DEF Covered
<1>3. /\ NULL \notin live /\ Root \in live /\ \A m \in live : m \in Node
      /\ \A m \in live : /\ first_child[m] \in live \/ first_child[m] = NULL
                         /\ next_sibling[m] \in live \/ next_sibling[m] = NULL
  BY Numbers DEF IInv, Linked
<1> HIDE DEF n, rest
<1>4. /\ todo' \in Seq(live)
      /\ \A S : (\A i \in 1 .. Len(todo') : todo'[i] \in S) =>
           /\ first_child[n] \in live => first_child[n] \in S
           /\ next_sibling[n] \in live => next_sibling[n] \in S
           /\ \A i \in 1 .. Len(rest) : rest[i] \in S
  <2> DEFINE x == IF next_sibling[n] = NULL THEN <<>> ELSE <<next_sibling[n]>>
             f == IF first_child[n] = NULL THEN <<>> ELSE <<first_child[n]>>
  <2>1. /\ x \in Seq(live)
        /\ next_sibling[n] \in live => 1 \in 1 .. Len(x) /\ x[1] = next_sibling[n]
        /\ f \in Seq(live)
        /\ first_child[n] \in live => 1 \in 1 .. Len(f) /\ f[1] = first_child[n]
    BY <1>2, <1>3
  <2>2. todo' = x \o f \o rest
    BY <1>1 DEF Push
  <2> HIDE DEF x, f
  <2>3. /\ todo' \in Seq(live)
        /\ Len(todo') = Len(x) + Len(f) + Len(rest)
        /\ \A i \in 1 .. Len(x) : todo'[i] = x[i]
        /\ \A i \in 1 .. Len(f) : todo'[Len(x) + i] = f[i]
        /\ \A i \in 1 .. Len(rest) : todo'[Len(x) + Len(f) + i] = rest[i]
    BY <1>2, <2>1, <2>2
  <2>4. Len(x) \in Nat /\ Len(f) \in Nat /\ Len(rest) \in Nat
    BY <1>2, <2>1
  <2>5. ASSUME NEW S, \A i \in 1 .. Len(todo') : todo'[i] \in S
        PROVE  /\ \A i \in 1 .. Len(x) : x[i] \in S
               /\ \A i \in 1 .. Len(f) : f[i] \in S
               /\ \A i \in 1 .. Len(rest) : rest[i] \in S
    <3>1. ASSUME NEW i \in 1 .. Len(x) PROVE x[i] \in S
      BY <2>3, <2>4, <2>5
    <3>2. ASSUME NEW i \in 1 .. Len(f) PROVE f[i] \in S
      <4>1. Len(x) + i \in 1 .. Len(todo')
        BY <2>3, <2>4
      <4> QED
        BY <2>3, <2>5, <4>1
    <3>3. ASSUME NEW i \in 1 .. Len(rest) PROVE rest[i] \in S
      <4>1. Len(x) + Len(f) + i \in 1 .. Len(todo')
        BY <2>3, <2>4
      <4> QED
        BY <2>3, <2>5, <4>1
    <3> QED
      BY <3>1, <3>2, <3>3
  <2>6. ASSUME NEW S, \A i \in 1 .. Len(todo') : todo'[i] \in S
        PROVE  /\ first_child[n] \in live => first_child[n] \in S
               /\ next_sibling[n] \in live => next_sibling[n] \in S
               /\ \A i \in 1 .. Len(rest) : rest[i] \in S
    <3>1. /\ \A i \in 1 .. Len(x) : x[i] \in S
          /\ \A i \in 1 .. Len(f) : f[i] \in S
          /\ \A i \in 1 .. Len(rest) : rest[i] \in S
      BY <2>5, <2>6
    <3> QED
      BY <2>1, <3>1
  <2> QED
    BY <2>3, <2>6
<1>5. ASSUME NEW m \in live, parent[m] # n \/ m = n,
             m = n \/ Done(m)
      PROVE  Done(m)'
  <2>0. parent[n] # n
    <3> SUFFICES ASSUME parent[n] = n PROVE FALSE
      OBVIOUS
    <3> DEFINE S == {k \in live : parent[k] # n}
    <3>1. S \in SUBSET live /\ Root \in S
      BY <1>2, <1>3 DEF Linked
    <3>2. ASSUME NEW k \in S, first_child[k] \in live PROVE first_child[k] \in S
      BY <1>3, <3>2 DEF Linked
    <3>3. ASSUME NEW k \in S, next_sibling[k] \in live PROVE next_sibling[k] \in S
      BY <1>3, <3>3 DEF Linked
    <3> HIDE DEF S
    <3>4. S = live
      BY <3>1, <3>2, <3>3, NoneIsLeftOut
    <3> QED
      BY <1>2, <3>4 DEF S
  <2> QED
    BY <1>1, <1>2, <1>3, <1>5, <2>0 DEF AllocatePhysical, Done, Target, IInv, Addresses
<1>6. ASSUME NEW S \in SUBSET live', Closed(S)',
             \A i \in 1 .. Len(todo') : todo'[i] \in S,
             NEW m \in live' \ S
      PROVE  Done(m)'
  <2> DEFINE T == S \cup {n}
  <2>1. S \in SUBSET live /\ Closed(S) /\ m \in live /\ m \notin S
    BY <1>1, <1>6 DEF Closed
  <2>2. /\ first_child[n] \in live => first_child[n] \in S
        /\ next_sibling[n] \in live => next_sibling[n] \in S
        /\ \A i \in 1 .. Len(rest) : rest[i] \in S
    BY <1>4, <1>6
  <2>3. T \in SUBSET live /\ Closed(T)
    BY <1>2, <2>1, <2>2 DEF Closed
  <2>4. \A i \in 1 .. Len(todo) : todo[i] \in T
    BY <1>2, <2>2
  <2>5. m = n \/ Done(m)
    <3>1. ASSUME m # n PROVE m \in live \ T
      BY <2>1, <3>1
    <3> HIDE DEF T
    <3> QED
      BY <2>3, <2>4, <3>1 DEF Covered
  <2>6. parent[m] # n
    BY <1>2, <2>1, <2>2, ChildrenTogether
  <2> QED
    BY <1>5, <2>1, <2>5, <2>6
<1> QED
  BY <1>1, <1>4, <1>6 DEF Covered

\* A device that is removed takes none of the others' addresses.
LEMMA RemoveCovers ==
  ASSUME Covered, Ready, todo = <<>>, todo' = todo, UNCHANGED physical_address,
         live' \subseteq live, UNCHANGED <<info, parent>>
  PROVE  Covered'
<1>1. todo' \in Seq(live')
  OBVIOUS
<1>2. ASSUME NEW n \in live' PROVE Done(n)'
  <2>1. Done(n)
    BY AllDone
  <2> QED
    BY <2>1 DEF Done, Target
<1> QED
  BY <1>1, <1>2 DEF Covered

\* Every step leaves the tree covered by the calls still to be made.
LEMMA StepCovered ==
  IInv /\ Linked /\ SinkIsRoot /\ Covered /\ [Next]_vars => Covered'
<1> SUFFICES ASSUME IInv, Linked, SinkIsRoot, Covered, [Next]_vars PROVE Covered'
  OBVIOUS
<1>1. ASSUME UNCHANGED <<live, info, parent, first_child, next_sibling, physical_address,
                         todo>>
      PROVE  Covered'
  BY <1>1 DEF Covered, Closed, Done, Target
<1>2. CASE Visit
  BY <1>2, VisitCovers
<1>3. CASE openEnd
  <2>1. physical_address' = physical_address
    <3>1. CASE EmulatesTv
      <4>1. emulated_device = Root /\ Root \in live /\ Root \in Node /\ parent[Root] = NULL
        BY <3>1, Numbers DEF SinkIsRoot, Linked, IInv
      <4>2. physical_address[Root] = <<0, 0, 0, 0>>
        BY <1>3, <4>1, AllDone DEF openEnd, Done, Target
      <4>3. physical_address \in [Node -> Digits]
        BY DEF IInv, Addresses
      <4> QED
        BY <1>3, <3>1, <4>1, <4>2, <4>3 DEF openEnd, EmulatesTv
    <3>2. CASE ~ EmulatesTv
      BY <1>3, <3>2 DEF openEnd, EmulatesTv
    <3> QED
      BY <3>1, <3>2
  <2> QED
    BY <1>1, <1>3, <2>1 DEF openEnd, treeVars
<1>4. CASE Announce
  BY <1>1, <1>4 DEF Announce, treeVars, addressVars
<1>5. ASSUME NEW d \in Additions, NEW name \in Names, AddDevice(d, name)
      PROVE  Covered'
  <2>1. Linked' /\ todo' = <<Root>>'
    BY <1>5, AddLinked DEF AddDevice, Root
  <2>2. (Linked /\ todo = <<Root>> => Covered)'
    BY RootCovers, PTL
  <2> QED
    BY <2>1, <2>2
<1>6. ASSUME NEW name \in Names, RemoveDevice(name)
      PROVE  Covered'
  <2>1. todo = <<>> /\ todo' = todo /\ Ready /\ UNCHANGED physical_address
    BY <1>6 DEF RemoveDevice, Ready, addressVars, IInv, Walk
  <2>2. live' \subseteq live /\ UNCHANGED <<info, parent>>
    BY <1>6, RemoveFinds DEF Removes, treeVars
  <2> QED
    BY <2>1, <2>2, RemoveCovers
<1>7. CASE Application
  BY <1>1, <1>7 DEF Application, HdmiCecAddLogicalAddress, HdmiCecRemoveLogicalAddress,
    HalReads, treeVars, addressVars
<1>8. CASE UNCHANGED vars
  BY <1>1, <1>8 DEF vars, treeVars, addressVars
<1> QED
  BY <1>2, <1>3, <1>4, <1>5, <1>6, <1>7, <1>8 DEF Next, Handler, Messages

\* HdmiCecOpen starts its walk at the root.
LEMMA InitCovered == Init => Covered
<1>1. Init => todo = <<Root>>
  BY DEF Init, Open
<1> QED
  BY <1>1, InitLinked, RootCovers

------------------------------------------------------------------------------
\* Addresses as paths

\* k digits that are not zero and then only zeros: the address of level k.
Level(a, k) ==
  /\ \A i \in 1 .. 4 : i <= k => a[i] # 0
  /\ \A i \in 1 .. 4 : i > k => a[i] = 0

\* An address has one level at most.
LEMMA OneLevel ==
  ASSUME NEW a, NEW j \in 0 .. 4, NEW k \in 0 .. 4, Level(a, j), Level(a, k)
  PROVE  j = k
<1>1. \A i \in 1 .. 4 : i <= j <=> i <= k
  BY DEF Level
<1> QED
  BY <1>1

\* The port of a child is the first zero of its parent's address.
LEMMA ChildLevel ==
  ASSUME NEW pa \in Digits, NEW port \in 0 .. 15, port # 0,
         NEW k \in 0 .. 3, Level(pa, k)
  PROVE  /\ ChildAddress(pa, port) = [pa EXCEPT ![k + 1] = port]
         /\ Level(ChildAddress(pa, port), k + 1)
<1> DEFINE zeros == {i \in 1 .. 4 : pa[i] = 0}
<1>1. k + 1 \in zeros /\ \A i \in zeros : k + 1 <= i
  BY DEF Level
<1>2. \A i \in zeros : (\A j \in zeros : i <= j) => i = k + 1
  BY <1>1
<1>3. (CHOOSE i \in zeros : \A j \in zeros : i <= j) = k + 1
  BY <1>1, <1>2
<1>4. ChildAddress(pa, port) = [pa EXCEPT ![k + 1] = port]
  BY <1>1, <1>3 DEF ChildAddress
<1>5. Level([pa EXCEPT ![k + 1] = port], k + 1)
  BY DEF Level, Digits
<1> QED
  BY <1>4, <1>5

\* A walk has ended, over ports that are usable.
Addressed ==
  IInv /\ Linked /\ (\A n \in live : Done(n)) /\ PortsAreUsable

\* The root has the address of level 0, every other device that of its parent
\* with its port appended.
LEMMA AddressOf ==
  ASSUME Addressed
  PROVE  /\ physical_address[Root] = <<0, 0, 0, 0>>
         /\ \A n \in live : physical_address[n] \in Digits
         /\ \A n \in live \ {Root} :
              /\ parent[n] \in live
              /\ info[n].port \in 0 .. 15 /\ info[n].port # 0
              /\ physical_address[n] =
                   ChildAddress(physical_address[parent[n]], info[n].port)
<1>1. Root \in live /\ parent[Root] = NULL /\ NULL \notin live /\ \A n \in live : n \in Node
  BY Numbers DEF Addressed, IInv, Linked
<1>2. physical_address[Root] = <<0, 0, 0, 0>>
  BY <1>1 DEF Addressed, Done, Target
<1>3. \A n \in live : physical_address[n] \in Digits /\ info[n].port \in 0 .. 15
  BY <1>1 DEF Addressed, IInv, Addresses, Tree
<1>4. ASSUME NEW n \in live \ {Root}
      PROVE  /\ parent[n] \in live /\ info[n].port # 0
             /\ physical_address[n] =
                  ChildAddress(physical_address[parent[n]], info[n].port)
  <2>1. parent[n] \in live
    BY ParentLives DEF Addressed
  <2> QED
    BY <1>1, <2>1 DEF Addressed, PortsAreUsable, Done, Target
<1> QED
  BY <1>2, <1>3, <1>4

\* So every address has a level, one below that of the parent.
LEMMA Levels ==
  ASSUME Addressed, NEW n \in live, n # Root
  PROVE  \E k \in 0 .. 3 : /\ Level(physical_address[parent[n]], k)
                           /\ Level(physical_address[n], k + 1)
                           /\ physical_address[n] =
                                [physical_address[parent[n]] EXCEPT ![k + 1] = info[n].port]
<1> DEFINE a(m) == physical_address[m]
           S == {m \in live : m = Root \/ \E k \in 0 .. 3 : Level(a(parent[m]), k)}
<1>1. Root \in live /\ NULL \notin live /\ NULL # Root
  BY Numbers DEF Addressed, IInv, Linked
<1>2. ASSUME NEW m \in live, m # Root, NEW k \in 0 .. 3, Level(a(parent[m]), k)
      PROVE  /\ Level(a(m), k + 1)
             /\ a(m) = [a(parent[m]) EXCEPT ![k + 1] = info[m].port]
  <2>1. /\ a(parent[m]) \in Digits /\ info[m].port \in 0 .. 15 /\ info[m].port # 0
        /\ a(m) = ChildAddress(a(parent[m]), info[m].port)
    BY <1>2, AddressOf
  <2> HIDE DEF a
  <2> QED
    BY <1>2, <2>1, ChildLevel
<1>3. ASSUME NEW m \in S, first_child[m] \in live PROVE first_child[m] \in S
  <2>1. parent[first_child[m]] = m /\ first_child[m] # Root
    BY <1>1, <1>3 DEF Addressed, Linked
  <2>2. PICK k \in 0 .. 4 : Level(a(m), k)
    <3>1. CASE m = Root
      <4>1. Level(a(m), 0)
        BY <3>1, AddressOf DEF Level
      <4> QED
        BY <4>1
    <3>2. CASE m # Root
      <4>1. PICK k \in 0 .. 3 : Level(a(parent[m]), k)
        BY <3>2
      <4>2. Level(a(m), k + 1)
        BY Zenon, <1>2, <3>2, <4>1
      <4>3. k + 1 \in 0 .. 4
        OBVIOUS
      <4> QED
        BY <4>2, <4>3
    <3> QED
      BY <3>1, <3>2
  <2>3. \E i \in 1 .. 4 : a(m)[i] = 0
    BY <1>3, <2>1 DEF Addressed, PortsAreUsable
  <2>4. k \in 0 .. 3
    BY <2>2, <2>3 DEF Level
  <2> QED
    BY <1>3, <2>1, <2>2, <2>4
<1>4. ASSUME NEW m \in S, next_sibling[m] \in live PROVE next_sibling[m] \in S
  <2>1. parent[next_sibling[m]] = parent[m] /\ m # Root
    BY <1>1, <1>4 DEF Addressed, Linked
  <2> QED
    BY <1>4, <2>1
<1>5. S \in SUBSET live /\ Root \in S
  BY <1>1
<1> HIDE DEF S
<1>6. S = live
  BY <1>3, <1>4, <1>5, NoneIsLeftOut DEF Addressed
<1>7. PICK k \in 0 .. 3 : Level(a(parent[n]), k)
  BY <1>6 DEF S
<1> QED
  BY <1>2, <1>7

\* Devices of level k with one address are one.
Distinct(k) ==
  \A m, n \in live :
    Level(physical_address[m], k) /\ physical_address[m] = physical_address[n] => m = n

\* Level 0 is the root's.
LEMMA DistinctRoot ==
  ASSUME Addressed
  PROVE  Distinct(0)
<1>1. ASSUME NEW n \in live, Level(physical_address[n], 0) PROVE n = Root
  <2> SUFFICES ASSUME n # Root PROVE FALSE
    OBVIOUS
  <2>1. PICK k \in 0 .. 3 : Level(physical_address[n], k + 1)
    BY Levels
  <2>2. k + 1 \in 0 .. 4 /\ k + 1 # 0
    OBVIOUS
  <2> QED
    BY <1>1, <2>1, <2>2, OneLevel
<1> QED
  BY <1>1 DEF Distinct

\* From level to level: the same address means the same parent's address, so
\* the same parent, and the same port.
LEMMA DistinctBelow ==
  ASSUME Addressed, NEW k \in 0 .. 3, Distinct(k)
  PROVE  Distinct(k + 1)
<1> DEFINE a(m) == physical_address[m]
<1>1. ASSUME NEW m \in live, NEW n \in live, Level(a(m), k + 1), a(m) = a(n)
      PROVE  m = n
  <2>1. ASSUME NEW x \in live, Level(a(x), k + 1)
        PROVE  /\ x # Root /\ Level(a(parent[x]), k)
               /\ a(x) = [a(parent[x]) EXCEPT ![k + 1] = info[x].port]
               /\ parent[x] \in live /\ a(parent[x]) \in Digits
    <3>1. x # Root
      <4>1. Level(a(Root), 0)
        BY AddressOf DEF Level
      <4>2. k + 1 \in 0 .. 4 /\ k + 1 # 0
        OBVIOUS
      <4> QED
        BY <2>1, <4>1, <4>2, OneLevel
    <3>2. PICK j \in 0 .. 3 : /\ Level(a(parent[x]), j) /\ Level(a(x), j + 1)
                              /\ a(x) = [a(parent[x]) EXCEPT ![j + 1] = info[x].port]
      BY <3>1, Levels
    <3>3. j = k
      <4>1. j + 1 \in 0 .. 4 /\ k + 1 \in 0 .. 4
        OBVIOUS
      <4>2. j + 1 = k + 1
        BY <2>1, <3>2, <4>1, OneLevel
      <4> QED
        BY <4>2
    <3> QED
      BY <3>1, <3>2, <3>3, AddressOf
  <2>2. /\ m # Root /\ Level(a(parent[m]), k)
        /\ a(m) = [a(parent[m]) EXCEPT ![k + 1] = info[m].port]
        /\ parent[m] \in live /\ a(parent[m]) \in Digits
    BY <1>1, <2>1
  <2>3. /\ n # Root /\ Level(a(parent[n]), k)
        /\ a(n) = [a(parent[n]) EXCEPT ![k + 1] = info[n].port]
        /\ parent[n] \in live /\ a(parent[n]) \in Digits
    BY <1>1, <2>1
  <2> HIDE DEF a
  <2>4. \A i \in 1 .. 4 : a(parent[m])[i] = a(parent[n])[i]
    <3>1. ASSUME NEW i \in 1 .. 4 PROVE a(parent[m])[i] = a(parent[n])[i]
      <4>1. CASE i = k + 1
        BY <2>2, <2>3, <4>1 DEF Level
      <4>2. CASE i # k + 1
        <5>1. a(m)[i] = a(parent[m])[i]
          BY <2>2, <4>2 DEF Digits
        <5>2. a(n)[i] = a(parent[n])[i]
          BY <2>3, <4>2 DEF Digits
        <5> QED
          BY <1>1, <5>1, <5>2
      <4> QED
        BY <4>1, <4>2
    <3> QED
      BY <3>1
  <2>5. a(parent[m]) = a(parent[n])
    BY <2>2, <2>3, <2>4 DEF Digits
  <2>6. parent[m] = parent[n]
    BY <2>2, <2>3, <2>5 DEF Distinct, a
  <2>7. info[m].port = info[n].port
    <3>1. k + 1 \in 1 .. 4
      OBVIOUS
    <3>2. a(m)[k + 1] = info[m].port /\ a(n)[k + 1] = info[n].port
      BY <2>2, <2>3, <3>1 DEF Digits
    <3> QED
      BY <1>1, <3>2
  <2> QED
    BY <2>2, <2>3, <2>6, <2>7 DEF Addressed, PortsAreUsable
<1> QED
  BY <1>1 DEF Distinct

\* In a session that starts with an emulated TV, if any, at the root, devices
\* come and go and the application changes addresses; after each walk the
\* physical addresses of the network are different, if its ports are.
THEOREM PhysicalCorrect == Spec /\ SinkIsRoot => []PhysicalAddressesUnique
<1>1. Spec /\ SinkIsRoot => []Covered
  BY StepSink, InitCovered, StepCovered, Inductive, LinkedAlways, PTL DEF Spec
<1>2. IInv /\ Linked /\ Covered => PhysicalAddressesUnique
  <2> SUFFICES ASSUME IInv, Linked, Covered, todo = <<>>, PortsAreUsable,
                      NEW m \in live, NEW n \in live,
                      physical_address[m] = physical_address[n]
               PROVE  m = n
    BY DEF PhysicalAddressesUnique
  <2>1. Addressed
    BY AllDone DEF Addressed
  <2>2. /\ Distinct(0) /\ Distinct(1) /\ Distinct(2) /\ Distinct(3) /\ Distinct(4)
    <3>1. Distinct(0)
      BY <2>1, DistinctRoot
    <3>2. \A k \in 0 .. 3 : Distinct(k) => Distinct(k + 1)
      BY <2>1, DistinctBelow
    <3> QED
      BY <3>1, <3>2
  <2>3. \E k \in 0 .. 4 : Level(physical_address[m], k)
    <3>1. CASE m = Root
      <4>1. Level(physical_address[m], 0)
        BY <2>1, <3>1, AddressOf DEF Level
      <4> QED
        BY <4>1
    <3>2. CASE m # Root
      <4>1. PICK k \in 0 .. 3 : Level(physical_address[m], k + 1)
        BY <2>1, <3>2, Levels
      <4> QED
        BY <4>1
    <3> QED
      BY <3>1, <3>2
  <2>4. \A k \in 0 .. 4 : Distinct(k)
    BY <2>2
  <2> QED
    BY <2>3, <2>4 DEF Distinct
<1> QED
  BY <1>1, <1>2, Inductive, LinkedAlways, PTL
=============================================================================
