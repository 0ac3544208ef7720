-------------------------- MODULE CommissioningProofs --------------------------
(***************************************************************************)
(* What a commissioned role can resolve to, for any hardware and any       *)
(* choice of pinned fields.  The inductive invariant adds to TypeOK where  *)
(* each selector comes from (the interface the operator confirmed) and     *)
(* that records and profiles hold confirmations of one inventory.          *)
(***************************************************************************)
EXTENDS Commissioning, FiniteSetTheorems, TLAPS

(* A selector pins fields of the confirmed interface, enough of them. *)
AssignmentOK(a) ==
    /\ SelectorIsComposite(a.selector)
    /\ \E p \in Pinnings : a.selector = SelectorFor(a.confirmed, p)

RecordOK ==
    record # None =>
        /\ BoundTo(record.assignments, record.hardware_inventory_digest)
        /\ \A a, b \in record.assignments : a.selector = b.selector => a = b

ProfileOK ==
    profile # None =>
        BoundTo(profile.commissioned_assignments, profile.hardware_inventory_digest)

IInv ==
    /\ TypeOK
    /\ IsFiniteSet(inventories)
    /\ \A a \in assignments : AssignmentOK(a)
    /\ RecordOK
    /\ ProfileOK

(* A selector taken from an interface matches every interface of the same
   identity, and what it matches agrees with that identity where it pins. *)
LEMMA SelectorMatchesItsInterface ==
    ASSUME NEW interface, NEW other, NEW pinned, other.identity = interface.identity
    PROVE  Matches(other, SelectorFor(interface, pinned))
BY DEF Matches, SelectorFor

(* The one match is the interface itself wherever that is present. *)
LEMMA OneMatch ==
    ASSUME NEW interfaces, NEW selector, NEW i, NEW j \in interfaces,
           Resolves(interfaces, selector, i), Matches(j, selector)
    PROVE  i = j
BY DEF Resolves, MatchingInterfaces

LEMMA InitInvariant == Init => IInv
BY FS_EmptySet DEF Init, IInv, TypeOK, RecordOK, ProfileOK

LEMMA CollectPreserves ==
    ASSUME IInv, NEW hardware \in HardwareStates, Collect(hardware)
    PROVE  IInv'
<1> DEFINE v == [number |-> Cardinality(inventories) + 1, interfaces |-> hardware]
<1>1. v \in Inventories /\ HardwareInventoryOK(v.interfaces)
  <2>1. Cardinality(inventories) \in Nat
    BY FS_CardinalityType DEF IInv
  <2>2. Cardinality(inventories) + 1 \in 1 .. MaxInventories
    BY <2>1, CommissioningAssumption DEF Collect
  <2>3. hardware \in SUBSET Interfaces
    BY DEF Interfaces
  <2>4. QED
    BY <2>2, <2>3 DEF Inventories, Collect
<1>2. inventories' = inventories \cup {v} /\ assignments' = assignments
      /\ record' = record /\ profile' = profile
  BY DEF Collect
<1> HIDE DEF v
<1>3. IsFiniteSet(inventories')
  BY <1>2, FS_AddElement DEF IInv
<1>4. TypeOK'
  BY <1>1, <1>2 DEF IInv, TypeOK
<1>5. QED
  BY <1>2, <1>3, <1>4 DEF IInv, RecordOK, ProfileOK

LEMMA ConfirmPreserves ==
    ASSUME IInv, NEW id \in AssignmentIds, NEW inventory \in inventories,
           NEW pinned \in Pinnings, NEW interface \in inventory.interfaces,
           Confirm(id, inventory, interface, pinned)
    PROVE  IInv'
<1> DEFINE s == SelectorFor(interface, pinned)
           a == [assignment_id |-> id, selector |-> s,
                 inventory_digest |-> inventory, confirmed |-> interface]
<1>1. assignments' = assignments \cup {a} /\ inventories' = inventories
      /\ record' = record /\ profile' = profile /\ SelectorIsComposite(s)
  BY DEF Confirm
<1>2. a.assignment_id = id /\ a.selector = SelectorFor(interface, pinned)
      /\ a.inventory_digest = inventory /\ a.confirmed = interface
  OBVIOUS
<1>3. AssignmentOK(a)
  BY <1>1, <1>2 DEF AssignmentOK
<1> HIDE DEF a, s
<1>4. TypeOK'
  BY <1>1, <1>2 DEF IInv, TypeOK
<1>5. QED
  BY <1>1, <1>3, <1>4 DEF IInv, RecordOK, ProfileOK

LEMMA PublishPreserves ==
    ASSUME IInv, NEW chosen \in SUBSET assignments, NEW inventory \in inventories,
           Commission(chosen, inventory) \/ Profile(chosen, inventory)
    PROVE  IInv'
<1>1. CASE Commission(chosen, inventory)
  <2>1. /\ record'.hardware_inventory_digest = inventory
        /\ record'.assignments = chosen
        /\ UNCHANGED <<inventories, assignments, profile>>
    BY <1>1 DEF Commission
  <2>2. TypeOK'
    BY <2>1 DEF IInv, TypeOK
  <2>3. RecordOK'
    BY <1>1, <2>1 DEF Commission, RecordOK, BoundTo
  <2>4. QED
    BY <2>1, <2>2, <2>3 DEF IInv, ProfileOK
<1>2. CASE Profile(chosen, inventory)
  <2>1. /\ profile'.hardware_inventory_digest = inventory
        /\ profile'.commissioned_assignments = chosen
        /\ UNCHANGED <<inventories, assignments, record>>
    BY <1>2 DEF Profile
  <2>2. TypeOK'
    BY <2>1 DEF IInv, TypeOK
  <2>3. ProfileOK'
    BY <1>2, <2>1 DEF Profile, ProfileOK, BoundTo
  <2>4. QED
    BY <2>1, <2>2, <2>3 DEF IInv, RecordOK
<1>3. QED
  BY <1>1, <1>2

LEMMA Inductive == Spec => []IInv
<1>1. IInv /\ [Next]_vars => IInv'
  <2> SUFFICES ASSUME IInv, [Next]_vars PROVE IInv'
    OBVIOUS
  <2>1. CASE \E hardware \in HardwareStates : Collect(hardware)
    BY <2>1, CollectPreserves
  <2>2. CASE \E id \in AssignmentIds, inventory \in inventories, pinned \in Pinnings :
                \E interface \in inventory.interfaces :
                    Confirm(id, inventory, interface, pinned)
    BY <2>2, ConfirmPreserves
  <2>3. CASE \E chosen \in SUBSET assignments, inventory \in inventories :
                Commission(chosen, inventory) \/ Profile(chosen, inventory)
    BY <2>3, PublishPreserves
  <2>4. CASE UNCHANGED vars
    BY <2>4 DEF vars, IInv, TypeOK, RecordOK, ProfileOK
  <2>5. QED
    BY <2>1, <2>2, <2>3, <2>4 DEF Next
<1>2. QED
  BY InitInvariant, <1>1, PTL DEF Spec

-----------------------------------------------------------------------------
(* Inventories are unambiguous, and what is published was confirmed. *)
THEOREM TypeCorrect == Spec => []TypeOK
<1>1. IInv => TypeOK
  BY DEF IInv
<1>2. QED
  BY <1>1, Inductive, PTL

(* validation.py, interface_composite_key: a rename, or anything else that
   leaves the identity in place, never moves a role to another interface. *)
THEOREM RenameKeepsRole == Spec => []StillFittedStillBound
<1>1. IInv => StillFittedStillBound
  <2> SUFFICES ASSUME IInv, NEW a \in assignments, NEW v \in inventories,
                      NEW i \in v.interfaces, NEW j \in v.interfaces,
                      Resolves(v.interfaces, a.selector, i),
                      j.identity = a.confirmed.identity
               PROVE  i = j
    BY DEF StillFittedStillBound
  <2>1. Matches(j, a.selector)
    BY SelectorMatchesItsInterface DEF IInv, AssignmentOK
  <2>2. QED
    BY <2>1, OneMatch
<1>2. QED
  BY <1>1, Inductive, PTL

(* models.py, InterfaceIdentitySelector: a cloned or spoofed MAC never resolves
   an assignment without a discriminator the confirmed card has, and its slot. *)
THEOREM CloneTakesNoRole == Spec => []OnlyLookalikesBind
<1>1. IInv => OnlyLookalikesBind
  <2> SUFFICES ASSUME IInv, NEW a \in assignments, NEW v \in inventories,
                      NEW i \in v.interfaces, Resolves(v.interfaces, a.selector, i)
               PROVE  /\ \A f \in RequiredSelectorFields :
                            i.identity[f] = a.confirmed.identity[f]
                      /\ \E f \in DiscriminatorFields :
                            /\ a.confirmed.identity[f] # Unpinned
                            /\ i.identity[f] = a.confirmed.identity[f]
    BY DEF OnlyLookalikesBind
  <2>1. Matches(i, a.selector)
    BY DEF Resolves, MatchingInterfaces
  <2>2. SelectorIsComposite(a.selector) /\ Matches(a.confirmed, a.selector)
    BY SelectorMatchesItsInterface DEF IInv, AssignmentOK
  <2>3. \A f \in CompositeIdentityFields :
           a.selector[f] # Unpinned => i.identity[f] = a.confirmed.identity[f]
    BY <2>1, <2>2 DEF Matches
  <2>4. RequiredSelectorFields \subseteq CompositeIdentityFields
        /\ DiscriminatorFields \subseteq CompositeIdentityFields
    BY DEF RequiredSelectorFields, DiscriminatorFields, CompositeIdentityFields
  <2>5. PICK f \in DiscriminatorFields : a.selector[f] # Unpinned
    BY <2>2 DEF SelectorIsComposite
  <2>6. a.confirmed.identity[f] # Unpinned
    BY <2>2, <2>4, <2>5 DEF Matches
  <2>7. QED
    BY <2>2, <2>3, <2>4, <2>5, <2>6 DEF SelectorIsComposite
<1>2. QED
  BY <1>1, Inductive, PTL

(* models.py, CommissioningRecord and TopologyProfile: bound to one
   inventory, their assignments mean there what the operator confirmed. *)
THEOREM RecordsMeanWhatWasConfirmed == Spec => []CommissionedMeansConfirmed
<1>1. ASSUME IInv, NEW chosen \in SUBSET assignments, NEW inventory,
             BoundTo(chosen, inventory), NEW a \in chosen, NEW i \in inventory.interfaces,
             Resolves(inventory.interfaces, a.selector, i)
      PROVE  i = a.confirmed
  <2>1. a \in assignments /\ a.inventory_digest = inventory
    BY <1>1 DEF BoundTo
  <2>2. a.confirmed \in inventory.interfaces
    BY <1>1, <2>1 DEF IInv, TypeOK
  <2>3. Matches(a.confirmed, a.selector)
    BY <1>1, <2>1, SelectorMatchesItsInterface DEF IInv, AssignmentOK
  <2>4. QED
    BY <1>1, <2>2, <2>3, OneMatch
<1>2. IInv => CommissionedMeansConfirmed
  <2> SUFFICES ASSUME IInv PROVE CommissionedMeansConfirmed
    OBVIOUS
  <2>1. record # None =>
           /\ record.assignments \in SUBSET assignments
           /\ BoundTo(record.assignments, record.hardware_inventory_digest)
    BY DEF IInv, TypeOK, RecordOK
  <2>2. profile # None =>
           /\ profile.commissioned_assignments \in SUBSET assignments
           /\ BoundTo(profile.commissioned_assignments, profile.hardware_inventory_digest)
    BY DEF IInv, TypeOK, ProfileOK
  <2>3. QED
    BY <1>1, <2>1, <2>2 DEF CommissionedMeansConfirmed
<1>3. QED
  BY <1>2, Inductive, PTL

(* models.py, CommissioningRecord: the unique composite keys of a record
   keep two roles off one interface when they pin the same fields. *)
THEOREM RolesStayApart == Spec => []OneRolePerInterface
<1>1. IInv => OneRolePerInterface
  <2> SUFFICES ASSUME IInv, record # None, NEW a \in record.assignments,
                      NEW b \in record.assignments, NEW v \in inventories,
                      NEW i \in v.interfaces,
                      Resolves(v.interfaces, a.selector, i),
                      Resolves(v.interfaces, b.selector, i),
                      \A f \in CompositeIdentityFields :
                         a.selector[f] = Unpinned <=> b.selector[f] = Unpinned
               PROVE  a = b
    BY DEF OneRolePerInterface
  <2>1. Matches(i, a.selector) /\ Matches(i, b.selector)
    BY DEF Resolves, MatchingInterfaces
  <2>2. \A f \in CompositeIdentityFields : a.selector[f] = b.selector[f]
    BY <2>1 DEF Matches
  <2>3. AssignmentOK(a) /\ AssignmentOK(b)
    BY DEF IInv, TypeOK
  <2>4. a.selector = [f \in CompositeIdentityFields |-> a.selector[f]]
        /\ b.selector = [f \in CompositeIdentityFields |-> b.selector[f]]
    BY <2>3 DEF AssignmentOK, SelectorFor
  <2>5. a.selector = b.selector
    BY <2>2, <2>4
  <2>6. QED
    BY <2>5 DEF IInv, RecordOK
<1>2. QED
  BY <1>1, Inductive, PTL
=============================================================================
