---------------------------- MODULE MCCommissioning ----------------------------
(***************************************************************************)
(* One card that is renamed, flashed, replaced by another of its model or  *)
(* of another maker with its address cloned, moved to another slot, or     *)
(* joined by a clone there; and a driver that lists it twice.              *)
(***************************************************************************)
EXTENDS Commissioning

Interface(key, name, identity) ==
    [interface_key |-> key, kernel_name_observed |-> name, identity |-> identity]

Original ==
    [bus_path |-> "pci-2", permanent_mac |-> "0a", pci_id |-> "8086:1521",
     usb_vid_pid |-> Unpinned, serial |-> "A1", driver |-> "igb",
     firmware_version |-> "1", wireless_phy |-> Unpinned, physical_label |-> "WAN"]

Card == Interface("nic-0", "eth0", Original)

Renamed == [Card EXCEPT !.kernel_name_observed = "eth1"]

Flashed == [Card EXCEPT !.identity.firmware_version = "2"]

Replacement == [Card EXCEPT !.identity.serial = "B2"]

Impostor == [Replacement EXCEPT !.identity.pci_id = "10ec:8168"]

Moved == [Card EXCEPT !.interface_key = "nic-1", !.identity.bus_path = "pci-3"]

Listed2 == [Card EXCEPT !.interface_key = "nic-1", !.kernel_name_observed = "mon0"]

Neighbour == [Flashed EXCEPT !.interface_key = "nic-1"]

MCHardwareStates ==
    {{}, {Card}, {Renamed}, {Flashed}, {Replacement}, {Impostor}, {Moved}, {Card, Moved},
     {Card, Listed2}, {Card, Neighbour}}

MCPinnings ==
    {CompositeIdentityFields, {"bus_path", "permanent_mac", "pci_id"},
     {"bus_path", "permanent_mac", "serial"}, {"permanent_mac", "serial"}, {"bus_path", "permanent_mac"}}
=============================================================================
