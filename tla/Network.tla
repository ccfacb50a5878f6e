------------------------------ MODULE Network ------------------------------
(***************************************************************************)
(* What the virtual component promises of the network it emulates: a tree  *)
(* of devices under a root, which other devices join, with what hangs on   *)
(* them, and which the devices directly under the root leave, with all     *)
(* that hangs on them.  A device that is in the network is given one       *)
(* logical address of its type that no other device answers to, or 15 if   *)
(* it gets none, and keeps it.  Only the device the HAL speaks for may     *)
(* change its address again, if it is a TV.                                *)
(*                                                                         *)
(* Nothing here says in which pointers the tree is kept, how it is walked, *)
(* which addresses are preferred or which are thought to be taken:         *)
(* DeviceMap.tla implements this.                                          *)
(***************************************************************************)
EXTENDS Integers

CONSTANTS
  Device,  \* what can be a device, now or later
  Root,    \* the device at the top
  Nobody   \* what the root hangs on

VARIABLES
  devices,  \* those in the network
  type,     \* device -> what it is
  hangs_on, \* device -> the device it hangs on, or Nobody
  address,  \* device -> the logical address it has been given
  speaker   \* the device the HAL speaks for

networkVars == <<devices, type, hangs_on, address, speaker>>

None == -1
Unregistered == 15

DeviceType == {"TV", "Recorder", "Tuner", "Playback", "AudioSystem", "Other"}

AddressesOf(t) ==
  CASE t = "TV" -> {0, 14}
    [] t = "Playback" -> {4, 8, 11}
    [] t = "AudioSystem" -> {5}
    [] t = "Recorder" -> {1, 2, 9}
    [] t = "Tuner" -> {3, 6, 7, 10}
    [] OTHER -> {}

\* Of the devices in "all" that hang on others as "up" says: n, and those that
\* hang on it, directly or through others.
Below(n, all, up) ==
  {m \in all : \A S \in SUBSET all :
     n \in S /\ (\A k \in all : up[k] \in S => k \in S) => m \in S}

------------------------------------------------------------------------------

Init ==
  /\ devices \subseteq Device
  /\ Root \in devices
  /\ type \in [devices -> DeviceType]
  /\ hangs_on \in [devices -> devices \cup {Nobody}]
  /\ hangs_on[Root] = Nobody
  /\ Below(Root, devices, hangs_on) = devices
  /\ address = [n \in devices |-> None]

\* Devices come in: "top" hangs on a device of the network, the other new ones
\* hang on top, directly or through others.  None of them has an address.
Join(top) ==
  /\ top \notin devices
  /\ top \in devices'
  /\ devices \subseteq devices'
  /\ devices' \subseteq Device
  /\ type' \in [devices' -> DeviceType]
  /\ hangs_on' \in [devices' -> devices' \cup {Nobody}]
  /\ \A n \in devices : type'[n] = type[n] /\ hangs_on'[n] = hangs_on[n]
  /\ hangs_on'[top] \in devices
  /\ Below(top, devices' \ devices, hangs_on') = devices' \ devices
  /\ address' = [n \in devices' |-> IF n \in devices THEN address[n] ELSE None]
  /\ UNCHANGED speaker

\* A device directly under the root goes out, with what hangs on it.
Leave(n) ==
  /\ hangs_on[n] = Root
  /\ n \notin devices'
  /\ devices' = devices \ Below(n, devices, hangs_on)
  /\ type' = [m \in devices' |-> type[m]]
  /\ hangs_on' = [m \in devices' |-> hangs_on[m]]
  /\ address' = [m \in devices' |-> address[m]]
  /\ UNCHANGED speaker

\* A device without an address is given one nobody has: the TV the HAL speaks
\* for does not count, its address is its own affair.
Assign(n, a) ==
  /\ address[n] = None
  /\ a = Unregistered
     \/ /\ a \in AddressesOf(type[n])
        /\ \A m \in devices : address[m] = a => m = speaker /\ a = 0
  /\ address' = [address EXCEPT ![n] = a]
  /\ UNCHANGED <<devices, type, hangs_on, speaker>>

\* The application gives the TV it speaks for the address of a TV, or takes it
\* back.
Change(a) ==
  /\ speaker \in devices
  /\ type[speaker] = "TV"
  /\ a \in {0, Unregistered}
  /\ address' = [address EXCEPT ![speaker] = a]
  /\ UNCHANGED <<devices, type, hangs_on, speaker>>

Next ==
  \/ \E top \in Device : Join(top)
  \/ \E n \in devices : Leave(n)
  \/ \E n \in devices, a \in 0 .. 15 : Assign(n, a)
  \/ \E a \in {0, Unregistered} : Change(a)

Spec == Init /\ [][Next]_networkVars
==============================================================================
