----------------------------- MODULE MCDeviceMap -----------------------------
(***************************************************************************)
(* Networks for checking DeviceMap with TLC, cut down from the profiles    *)
(* under profiles/ and from the control messages of the tests.             *)
(***************************************************************************)
EXTENDS DeviceMap

Device(name, type, port, up) ==
  [name |-> name, type |-> type, port |-> port, up |-> up]

MCNames == {"TV", "Sony", "IPSTB", "PS3", "TestDevice", "Hub"}

\* tv_panel_5_devices.yaml, with one playback device less.
SinkProfile ==
  [device_map |-> << Device("TV", "TV", 0, 0),
                     Device("Sony", "AudioSystem", 1, 1),
                     Device("IPSTB", "Playback", 2, 2),
                     Device("PS3", "Playback", 2, 1) >>,
   emulated_device |-> "TV", number_ports |-> 3]

\* stb-source-device.yaml, likewise: the emulated device is two levels down.
SourceProfile ==
  [device_map |-> << Device("TV", "TV", 0, 0),
                     Device("Sony", "AudioSystem", 1, 1),
                     Device("IPSTB", "Playback", 2, 2) >>,
   emulated_device |-> "IPSTB", number_ports |-> 1]

Both == {SinkProfile, SourceProfile}
SinkOnly == {SinkProfile}

\* adddevice.yaml, and a second TV that comes with a device behind it.
MCAdditions ==
  { << Device("TestDevice", "Playback", 3, 0) >>,
    << Device("Hub", "TV", 1, 0), Device("TestDevice", "Playback", 1, 1) >> }

TestDeviceOnly == { << Device("TestDevice", "Playback", 3, 0) >> }
==============================================================================
