----------------------------- MODULE Commissioning -----------------------------
(***************************************************************************)
(* Commissioning of a node: its hardware is inventoried, an operator       *)
(* confirms what an interface is for, and a topology profile and a         *)
(* commissioning record bind the confirmations to one inventory.  Cards    *)
(* are swapped, moved, flashed and renamed at any time in between, and     *)
(* assignments are resolved against any inventory, earlier or later.       *)
(*                                                                         *)
(* An inventory is [number, interfaces]; the number stands for its id and  *)
(* time of collection, so the record serves as its own digest.  An         *)
(* assignment also keeps, for the properties only, the interface the       *)
(* operator was looking at.  The role it assigns constrains nothing and    *)
(* is left out: an assignment_id stands for it.                            *)
(***************************************************************************)
EXTENDS InterfaceIdentity, FiniteSets

CONSTANTS None,            \* no record and no profile yet
          HardwareStates,  \* sets of interfaces that may be fitted together
          Pinnings,        \* sets of composite fields an operator may pin
          AssignmentIds,
          MaxInventories,  \* bound: inventories ever collected
          MaxAssignments   \* bound: assignments ever confirmed

ASSUME CommissioningAssumption ==
    /\ MaxInventories \in Nat /\ MaxAssignments \in Nat
    /\ \A p \in Pinnings : p \subseteq CompositeIdentityFields

VARIABLES inventories,   \* every HardwareInventory collected
          assignments,   \* every InterfaceAssignment an operator confirmed
          profile,       \* the TopologyProfile, or None
          record         \* the CommissioningRecord, or None

vars == <<inventories, assignments, profile, record>>

SelectorFor(interface, pinned) ==
    [f \in CompositeIdentityFields |->
        IF f \in pinned THEN interface.identity[f] ELSE Unpinned]

Init ==
    /\ inventories = {} /\ assignments = {}
    /\ profile = None /\ record = None

CollectUnchecked(hardware) ==   \* faulty: an ambiguous inventory is recorded
    /\ Cardinality(inventories) < MaxInventories
    /\ inventories' = inventories \cup
           {[number |-> Cardinality(inventories) + 1, interfaces |-> hardware]}
    /\ UNCHANGED <<assignments, profile, record>>

(* The hardware may have changed in any way since the last inventory. *)
Collect(hardware) ==
    /\ HardwareInventoryOK(hardware)
    /\ Cardinality(inventories) < MaxInventories
    /\ inventories' = inventories \cup
           {[number |-> Cardinality(inventories) + 1, interfaces |-> hardware]}
    /\ UNCHANGED <<assignments, profile, record>>

(* The operator confirms an interface, with an inventory at hand. *)
Confirm(id, inventory, interface, pinned) ==
    LET selector == SelectorFor(interface, pinned) IN
    /\ SelectorIsComposite(selector)
    /\ Cardinality(assignments) < MaxAssignments
    /\ assignments' = assignments \cup
           {[assignment_id |-> id, selector |-> selector,
             inventory_digest |-> inventory, confirmed |-> interface]}
    /\ UNCHANGED <<inventories, profile, record>>

UniqueIds(chosen) ==
    \A a, b \in chosen : a.assignment_id = b.assignment_id => a = b

BoundTo(chosen, inventory) == \A a \in chosen : a.inventory_digest = inventory

CommissionAcrossInventories(chosen, inventory) ==   \* faulty: digests not compared
    /\ UniqueIds(chosen)
    /\ \A a, b \in chosen : a.selector = b.selector => a = b
    /\ record' = [hardware_inventory_digest |-> inventory, assignments |-> chosen]
    /\ UNCHANGED <<inventories, assignments, profile>>

CommissionRepeatedSelectors(chosen, inventory) ==   \* faulty: one interface, two roles
    /\ UniqueIds(chosen) /\ BoundTo(chosen, inventory)
    /\ record' = [hardware_inventory_digest |-> inventory, assignments |-> chosen]
    /\ UNCHANGED <<inventories, assignments, profile>>

Commission(chosen, inventory) ==
    /\ UniqueIds(chosen) /\ BoundTo(chosen, inventory)
    /\ \A a, b \in chosen : a.selector = b.selector => a = b
    /\ record' = [hardware_inventory_digest |-> inventory, assignments |-> chosen]
    /\ UNCHANGED <<inventories, assignments, profile>>

(* A profile may name a selector twice; only a record may not. *)
Profile(chosen, inventory) ==
    /\ UniqueIds(chosen) /\ BoundTo(chosen, inventory)
    /\ profile' = [hardware_inventory_digest |-> inventory,
                   commissioned_assignments |-> chosen]
    /\ UNCHANGED <<inventories, assignments, record>>

Next ==
    \/ \E hardware \in HardwareStates : Collect(hardware)
    \/ \E id \in AssignmentIds, inventory \in inventories, pinned \in Pinnings :
          \E interface \in inventory.interfaces : Confirm(id, inventory, interface, pinned)
    \/ \E chosen \in SUBSET assignments, inventory \in inventories :
          \/ Commission(chosen, inventory)
          \/ Profile(chosen, inventory)

Spec == Init /\ [][Next]_vars

-----------------------------------------------------------------------------
Interfaces == UNION HardwareStates

Inventories == [number : 1 .. MaxInventories, interfaces : SUBSET Interfaces]

(* Inventories identify what they hold, and what is published was confirmed. *)
TypeOK ==
    /\ inventories \subseteq {v \in Inventories : HardwareInventoryOK(v.interfaces)}
    /\ \A a \in assignments :
          /\ a.assignment_id \in AssignmentIds
          /\ a.inventory_digest \in inventories
          /\ a.confirmed \in a.inventory_digest.interfaces
    /\ record # None =>
          /\ record.hardware_inventory_digest \in inventories
          /\ record.assignments \subseteq assignments
    /\ profile # None =>
          /\ profile.hardware_inventory_digest \in inventories
          /\ profile.commissioned_assignments \subseteq assignments

(* While the confirmed interface is still there, under whatever name, its
   assignment resolves to it or to nothing: a rename, a move or a new card
   never takes the role away to another interface. *)
StillFittedStillBound ==
    \A a \in assignments, v \in inventories : \A i, j \in v.interfaces :
        Resolves(v.interfaces, a.selector, i) /\ j.identity = a.confirmed.identity => i = j

(* What an assignment resolves to sits in the confirmed slot, has the
   confirmed address and reads the same in some discriminator the confirmed
   card has: a cloned address, even in the same slot, never takes a role. *)
OnlyLookalikesBind ==
    \A a \in assignments, v \in inventories : \A i \in v.interfaces :
        Resolves(v.interfaces, a.selector, i) =>
            /\ \A f \in RequiredSelectorFields : i.identity[f] = a.confirmed.identity[f]
            /\ \E f \in DiscriminatorFields :
                  /\ a.confirmed.identity[f] # Unpinned
                  /\ i.identity[f] = a.confirmed.identity[f]

(* In the inventory a record or a profile names, every assignment of it
   resolves to what the operator confirmed, or not at all. *)
CommissionedMeansConfirmed ==
    LET Confirmed(inventory, chosen) ==
            \A a \in chosen : \A i \in inventory.interfaces :
                Resolves(inventory.interfaces, a.selector, i) => i = a.confirmed
    IN  /\ record # None =>
              Confirmed(record.hardware_inventory_digest, record.assignments)
        /\ profile # None =>
              Confirmed(profile.hardware_inventory_digest, profile.commissioned_assignments)

(* Two assignments of a record whose selectors pin the same fields never
   resolve to one interface, in this inventory or a later one. *)
OneRolePerInterface ==
    record # None =>
        \A a, b \in record.assignments, v \in inventories : \A i \in v.interfaces :
            /\ Resolves(v.interfaces, a.selector, i)
            /\ Resolves(v.interfaces, b.selector, i)
            /\ \A f \in CompositeIdentityFields :
                  a.selector[f] = Unpinned <=> b.selector[f] = Unpinned
            => a = b

(* docs/provisioning-contracts.md: a changed NIC identity invalidates an
   assignment instead of silently re-binding it. *)
ChangedIdentityIsRefused ==
    \A a \in assignments, v \in inventories : \A i \in v.interfaces :
        Resolves(v.interfaces, a.selector, i) => i.identity = a.confirmed.identity
=============================================================================
