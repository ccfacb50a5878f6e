---------------------------- MODULE MCCecCommand ----------------------------
(***************************************************************************)
(* A network and the messages of the control plane for checking            *)
(* CecCommand with TLC.                                                    *)
(***************************************************************************)
EXTENDS CecCommand

\* One device without an address (the root of a source's network), one that
\* is unregistered, and two that are neither.
MCDevices == {"TV", "PS3", "Root", "Fourth"}

MCLogicalAddress ==
  [d \in MCDevices |-> CASE d = "TV" -> 0 [] d = "PS3" -> 4
                        [] d = "Root" -> -1 [] d = "Fourth" -> 15]

MCPhysicalAddress ==
  [d \in MCDevices |-> CASE d = "TV" -> 0 [] d = "PS3" -> 4608
                        [] d = "Root" -> 65535 [] d = "Fourth" -> 8448]

MCType == [d \in MCDevices |-> IF d = "TV" THEN 0 ELSE 4]

MCOpCode ==
  [c \in {"ActiveSource", "InactiveSource", "SetOsdName", "Standby",
          "ReportPhysicalAddress"} |->
     CASE c = "ActiveSource" -> 130 [] c = "InactiveSource" -> 157
       [] c = "SetOsdName" -> 71 [] c = "Standby" -> 54
       [] c = "ReportPhysicalAddress" -> 132]

\* Texts of every length from nothing to one more than the array holds.
OsdNames == {[i \in 1 .. n |-> 64 + i] : n \in 0 .. 7}

Request(command, initiator, destination, osd_name) ==
  [command |-> command, initiator |-> initiator,
   destination |-> destination, osd_name |-> osd_name]

Names == MCDevices \cup {"Nobody"}

MCRequests ==
  {Request(c, i, d, <<>>) :
     c \in DOMAIN MCOpCode \cup {"NoSuchCommand"}, i \in Names,
     d \in Names \cup {"broadcast", "Broadcast"}}
  \cup
  {Request("SetOsdName", i, d, n) :
     i \in Names, d \in Names \cup {"broadcast", "Broadcast"}, n \in OsdNames}
==============================================================================
