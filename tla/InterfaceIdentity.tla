--------------------------- MODULE InterfaceIdentity ---------------------------
(***************************************************************************)
(* azazel_fabric.provisioning_contracts: what identifies a network         *)
(* interface, and how a commissioned assignment is resolved to one.  An    *)
(* interface is [interface_key, identity, kernel_name_observed], where     *)
(* identity maps the composite fields to what was read; a selector maps    *)
(* the same fields to what it pins, Unpinned where it pins nothing.        *)
(***************************************************************************)
EXTENDS Integers

CONSTANT Unpinned   \* a composite field that is None

CompositeIdentityFields ==
    {"bus_path", "permanent_mac", "pci_id", "usb_vid_pid", "serial", "driver",
     "firmware_version", "wireless_phy", "physical_label"}

RequiredSelectorFields == {"bus_path", "permanent_mac"}

DiscriminatorFields == {"pci_id", "usb_vid_pid", "serial"}

(* An inventory holds no two interfaces under one key or one identity. *)
HardwareInventoryOK(interfaces) ==
    \A i, j \in interfaces :
        i.interface_key = j.interface_key \/ i.identity = j.identity => i = j

SelectorIsComposite(selector) ==
    /\ \A f \in RequiredSelectorFields : selector[f] # Unpinned
    /\ \E f \in DiscriminatorFields : selector[f] # Unpinned

MatchesByAddress(interface, selector) ==   \* faulty: the slot and the address will do
    \A f \in RequiredSelectorFields :
        selector[f] # Unpinned => interface.identity[f] = selector[f]

Matches(interface, selector) ==
    \A f \in CompositeIdentityFields :
        selector[f] # Unpinned => interface.identity[f] = selector[f]

MatchingInterfaces(interfaces, selector) == {i \in interfaces : Matches(i, selector)}

FirstMatch(interfaces, selector, interface) ==   \* faulty: any match will do
    /\ SelectorIsComposite(selector)
    /\ interface \in MatchingInterfaces(interfaces, selector)

(* The one interface resolve_interface_assignment returns: none when no
   interface matches, and none when several do. *)
Resolves(interfaces, selector, interface) ==
    /\ SelectorIsComposite(selector)
    /\ MatchingInterfaces(interfaces, selector) = {interface}
=============================================================================
