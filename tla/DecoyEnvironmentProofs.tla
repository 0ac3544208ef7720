------------------------- MODULE DecoyEnvironmentProofs -------------------------
(***************************************************************************)
(* Proofs about DecoyEnvironment, for all packages, catalogs, decisions    *)
(* and keys.  A decision that verifies is one whose own signature the Edge *)
(* sent; a digest that matches gives back the fields it was taken of.      *)
(***************************************************************************)
EXTENDS DecoyEnvironment, TLAPS

(* What a host remembers of a check is a catalog that matched. *)
VouchedMatches ==
    \A h \in Hosts : vouched[h] # None => CatalogDigestMatches(vouched[h])

(* A step in the catalog that was checked took what the digest's own content
   selects. *)
StepsFollowDigest ==
    \A s \in steps : s.intact => s.taken = SelectTransition(s.digest, s.from, s.to)

(* The Edge signed activations only for packages it could construct. *)
SignedNamesAPackage == \A s \in signatures : NamesAPackage(s.bytes)

Inv == /\ TypeOK /\ VouchedMatches /\ StepsFollowDigest
       /\ SignedNamesAPackage /\ RunsWithinItsPackage

-----------------------------------------------------------------------------
(* What the fields of a signed decision are: its own, and the signature. *)
LEMMA SignedFields ==
    ASSUME NEW d \in Decisions, NEW s
    PROVE  /\ CanonicalBytes(SignedAs(d, s)) = d
           /\ \A f \in DOMAIN d : SignedAs(d, s)[f] = d[f]
           /\ SignedAs(d, s).decision_signature = s
<1>1. CanonicalBytes(d) = d
  BY DecisionsAssumption
<1>2. "decision_signature" \notin DOMAIN d /\ d = [f \in DOMAIN d |-> d[f]]
  BY <1>1 DEF CanonicalBytes, Restrict
<1>3. DOMAIN SignedAs(d, s) \ {"decision_signature"} = DOMAIN d
  BY <1>2 DEF SignedAs
<1>4. \A f \in DOMAIN d : SignedAs(d, s)[f] = d[f]
  BY <1>2 DEF SignedAs
<1>5. SignedAs(d, s).decision_signature = s
  BY DEF SignedAs
<1>6. CanonicalBytes(SignedAs(d, s)) = [f \in DOMAIN d |-> SignedAs(d, s)[f]]
  BY <1>3 DEF CanonicalBytes, Restrict
<1> QED BY <1>2, <1>4, <1>5, <1>6

(* A decision that verifies under any key was signed, as it is, by the Edge. *)
LEMMA VerifiedWasSigned ==
    ASSUME NEW d \in Decisions, NEW s \in SignaturesFor(d), NEW k,
           VerifyDecisionSignature(SignedAs(d, s), k)
    PROVE  s \in signatures /\ s.bytes = d
<1>1. s # Missing /\ s = ComputeSignature(SignedAs(d, s), k) /\ AsKey(k) # NoKey
  BY SignedFields DEF VerifyDecisionSignature
<1>2. s.bytes = d /\ s.key = AsKey(k)
  BY <1>1, SignedFields DEF ComputeSignature
<1>3. s.key # Zeros
  BY <1>1, <1>2, KeysAssumption DEF AsKey
<1>4. s # Degenerate(d)
  BY <1>3 DEF Degenerate
<1> QED BY <1>1, <1>2, <1>4 DEF SignaturesFor

(* A catalog that matches its digest selects what the digest's content does. *)
LEMMA DigestSelects ==
    ASSUME NEW c \in Catalogs, CatalogDigestMatches(c), NEW x, NEW y
    PROVE  SelectTransition(c, x, y) = SelectTransition(c.catalog_digest, x, y)
<1>1. c.catalog_digest.transitions = c.transitions
  BY ObjectsAssumption DEF CatalogDigestMatches, CatalogPayload, Restrict
<1> QED BY <1>1 DEF SelectTransition, Matching

(* A package that matches its digest has the fields of the digest's content. *)
LEMMA DigestOfPackage ==
    ASSUME NEW p \in Packages, PackageDigestMatches(p)
    PROVE  /\ p.package_digest.components = p.components
           /\ p.package_digest.deployment_tiers = p.deployment_tiers
           /\ p.package_digest.maximum_budget = p.maximum_budget
  BY ObjectsAssumption DEF PackageDigestMatches, PackagePayload, Restrict

-----------------------------------------------------------------------------
LEMMA InitEstablishes == Init => Inv
  BY DEF Init, Inv, TypeOK, VouchedMatches, StepsFollowDigest, SignedNamesAPackage, RunsWithinItsPackage

(* An activation that is admitted runs within the package it names. *)
LEMMA ActivationFits ==
    ASSUME Inv, NEW h \in Hosts, NEW d \in Decisions, NEW s \in SignaturesFor(d),
           Activate(h, SignedAs(d, s))
    PROVE  /\ TypeOK' /\ RunsWithinItsPackage'
           /\ s \in signatures /\ s.bytes = d
           /\ d.kind = "activation" /\ d.target_node_id = h
           /\ environment'[h].decision = d
<1> DEFINE m == SignedAs(d, s)
           p == packages[h]
<1>1. /\ VerifyDecisionSignature(m, keys[h]) /\ m.kind = "activation"
      /\ m.target_node_id = h /\ environment[h] = None /\ p # None
      /\ PackageDigestMatches(p) /\ m.package_digest = p.package_digest
      /\ IsWithin(m.budget, p.maximum_budget, TRUE)
  BY DEF Activate, Admits
<1>2. s \in signatures /\ s.bytes = d /\ CanonicalBytes(m) = d
  BY <1>1, VerifiedWasSigned, SignedFields
<1>3. d.kind = "activation"
  BY <1>1, SignedFields, DecisionsAssumption
<1>4. d.target_node_id = h /\ d.package_digest = p.package_digest /\ d.budget = m.budget
  BY <1>1, <1>3, SignedFields, DecisionsAssumption
<1>5. p \in Packages
  BY <1>1 DEF Inv, TypeOK
<1>6. PICK q \in Packages : PackageOK(q) /\ PackageDigestMatches(q)
                            /\ d.package_digest = q.package_digest
  BY <1>2, <1>3 DEF Inv, SignedNamesAPackage, NamesAPackage
<1> DEFINE named == d.package_digest
<1>7. /\ named.components = q.components /\ named.deployment_tiers = q.deployment_tiers
      /\ named.maximum_budget = q.maximum_budget
      /\ named.deployment_tiers = p.deployment_tiers
      /\ named.maximum_budget = p.maximum_budget
  BY <1>1, <1>4, <1>5, <1>6, DigestOfPackage
<1>8. PICK t \in Range(p.deployment_tiers) :
        environment' = [environment EXCEPT ![h] =
            [state |-> Baseline, decision |-> CanonicalBytes(m),
             running |-> t.include_components]]
  BY DEF Activate
<1>9. Required(named) \subseteq t.include_components
  <2>1. t \in Range(q.deployment_tiers)
    BY <1>7, <1>8
  <2>2. Required(q) \subseteq t.include_components
    BY <1>6, <2>1 DEF PackageOK
  <2> QED BY <1>7, <2>2 DEF Required
<1>10. /\ \A dim \in Dims : d.budget.limits[dim] <= named.maximum_budget.limits[dim]
       /\ d.budget.bandwidth # Unbounded
       /\ d.budget.bandwidth <= named.maximum_budget.bandwidth
  <2>1. named.maximum_budget.bandwidth # Unbounded
    BY <1>6, <1>7 DEF PackageOK
  <2>2. IsWithin(d.budget, named.maximum_budget, TRUE)
    BY <1>1, <1>4, <1>7
  <2> QED BY <2>1, <2>2 DEF IsWithin
<1>11. environment' = [environment EXCEPT ![h] =
            [state |-> Baseline, decision |-> d, running |-> t.include_components]]
  BY <1>2, <1>8
<1>12. DOMAIN environment = Hosts
  BY DEF Inv, TypeOK
<1>13. /\ environment'[h] = [state |-> Baseline, decision |-> d,
                             running |-> t.include_components]
       /\ \A g \in Hosts \ {h} : environment'[g] = environment[g]
       /\ DOMAIN environment' = Hosts
  BY <1>11, <1>12
<1>14. TypeOK'
  BY <1>13 DEF Inv, TypeOK, Activate
<1>15. RunsWithinItsPackage'
  <2> SUFFICES ASSUME NEW g \in Hosts, environment'[g] # None
               PROVE  /\ \A dim \in Dims :
                            environment'[g].decision.budget.limits[dim]
                              <= environment'[g].decision.package_digest.maximum_budget.limits[dim]
                      /\ environment'[g].decision.budget.bandwidth # Unbounded
                      /\ environment'[g].decision.budget.bandwidth
                           <= environment'[g].decision.package_digest.maximum_budget.bandwidth
                      /\ Required(environment'[g].decision.package_digest)
                           \subseteq environment'[g].running
    BY DEF RunsWithinItsPackage
  <2>1. CASE g = h
    <3>1. environment'[g].decision = d /\ environment'[g].running = t.include_components
      BY <1>13, <2>1
    <3> QED BY <3>1, <1>9, <1>10
  <2>2. CASE g # h
    BY <1>13, <2>2 DEF Inv, RunsWithinItsPackage
  <2> QED BY <2>1, <2>2
<1> QED BY <1>2, <1>3, <1>4, <1>13, <1>14, <1>15

(* A transition that is admitted was decided for this environment and state. *)
LEMMA TransitionFits ==
    ASSUME Inv, NEW h \in Hosts, NEW d \in Decisions, NEW s \in SignaturesFor(d),
           Transit(h, SignedAs(d, s))
    PROVE  /\ Inv'
           /\ s \in signatures /\ s.bytes = d
           /\ d.kind = "transition" /\ d.environment_id = h
           /\ environment[h] # None /\ d.current_state = environment[h].state
           /\ environment' = [environment EXCEPT ![h].state = d.target_state]
<1> DEFINE m == SignedAs(d, s)
           c == catalogs[h]
<1>1. /\ VerifyDecisionSignature(m, keys[h]) /\ m.kind = "transition"
      /\ m.environment_id = h /\ m.current_state = environment[h].state
      /\ environment[h] # None /\ c # None
      /\ environment' = [environment EXCEPT ![h].state = m.target_state]
      /\ steps' = steps \cup
            {[from |-> m.current_state, to |-> m.target_state, intact |-> vouched[h] = c,
              taken |-> SelectTransition(c, m.current_state, m.target_state),
              digest |-> c.catalog_digest]}
      /\ UNCHANGED <<packages, catalogs, vouched, keys, signatures>>
  BY DEF Transit, Admits
<1>2. s \in signatures /\ s.bytes = d
  BY <1>1, VerifiedWasSigned
<1>3. d.kind = "transition"
  BY <1>1, SignedFields, DecisionsAssumption
<1>4. /\ d.environment_id = h /\ d.current_state = environment[h].state
      /\ d.target_state = m.target_state
  BY <1>1, <1>3, SignedFields, DecisionsAssumption
<1>5. /\ DOMAIN environment = Hosts
      /\ DOMAIN environment[h] = {"state", "decision", "running"}
  BY <1>1 DEF Inv, TypeOK
<1>6. /\ environment'[h] = [environment[h] EXCEPT !.state = m.target_state]
      /\ \A g \in Hosts \ {h} : environment'[g] = environment[g]
      /\ DOMAIN environment' = Hosts
  BY <1>1, <1>5
<1>7. /\ environment'[h].decision = environment[h].decision
      /\ environment'[h].running = environment[h].running
      /\ DOMAIN environment'[h] = {"state", "decision", "running"}
  BY <1>5, <1>6
<1>8. TypeOK'
  BY <1>1, <1>6, <1>7 DEF Inv, TypeOK
<1>9. StepsFollowDigest'
  <2>1. vouched[h] = c => SelectTransition(c, m.current_state, m.target_state)
                     = SelectTransition(c.catalog_digest, m.current_state, m.target_state)
    <3>1. vouched[h] = c => CatalogDigestMatches(c)
      BY <1>1 DEF Inv, VouchedMatches
    <3>2. c \in Catalogs
      BY <1>1 DEF Inv, TypeOK
    <3> QED BY <3>1, <3>2, DigestSelects
  <2> DEFINE step == [from |-> m.current_state, to |-> m.target_state,
                      intact |-> vouched[h] = c,
                      taken |-> SelectTransition(c, m.current_state, m.target_state),
                      digest |-> c.catalog_digest]
  <2>2. step.intact => step.taken = SelectTransition(step.digest, step.from, step.to)
    BY <2>1
  <2> HIDE DEF step
  <2>3. \A x \in steps : x.intact => x.taken = SelectTransition(x.digest, x.from, x.to)
    BY DEF Inv, StepsFollowDigest
  <2> SUFFICES ASSUME NEW x \in steps', x.intact
               PROVE  x.taken = SelectTransition(x.digest, x.from, x.to)
    BY DEF StepsFollowDigest, SelectTransition, Matching
  <2>4. x \in steps \/ x = step
    BY <1>1 DEF step
  <2> QED BY <2>2, <2>3, <2>4
<1>10. SignedNamesAPackage'
  BY <1>1 DEF Inv, SignedNamesAPackage, NamesAPackage
<1>11. RunsWithinItsPackage'
  BY <1>1, <1>6, <1>7 DEF Inv, RunsWithinItsPackage
<1>12. VouchedMatches'
  BY <1>1 DEF Inv, VouchedMatches
<1> QED BY <1>1, <1>2, <1>3, <1>4, <1>8, <1>9, <1>10, <1>11, <1>12 DEF Inv

(* A termination that is admitted was decided for this environment. *)
LEMMA TerminationFits ==
    ASSUME Inv, NEW h \in Hosts, NEW d \in Decisions, NEW s \in SignaturesFor(d),
           Terminate(h, SignedAs(d, s))
    PROVE  /\ Inv'
           /\ s \in signatures /\ s.bytes = d
           /\ d.kind = "termination" /\ d.environment_id = h
           /\ environment' = [environment EXCEPT ![h] = None]
<1> DEFINE m == SignedAs(d, s)
<1>1. /\ VerifyDecisionSignature(m, keys[h]) /\ m.kind = "termination"
      /\ m.environment_id = h
      /\ environment' = [environment EXCEPT ![h] = None]
      /\ UNCHANGED <<packages, catalogs, vouched, keys, signatures, steps>>
  BY DEF Terminate, Admits
<1>2. s \in signatures /\ s.bytes = d
  BY <1>1, VerifiedWasSigned
<1>3. d.kind = "termination"
  BY <1>1, SignedFields, DecisionsAssumption
<1>4. d.environment_id = h
  BY <1>1, <1>3, SignedFields, DecisionsAssumption
<1>5. /\ environment'[h] = None /\ DOMAIN environment' = Hosts
      /\ \A g \in Hosts \ {h} : environment'[g] = environment[g]
  BY <1>1 DEF Inv, TypeOK
<1>6. TypeOK'
  BY <1>1, <1>5 DEF Inv, TypeOK
<1>7. VouchedMatches' /\ StepsFollowDigest' /\ SignedNamesAPackage'
  BY <1>1 DEF Inv, VouchedMatches, StepsFollowDigest, SignedNamesAPackage, NamesAPackage
<1>8. RunsWithinItsPackage'
  BY <1>5 DEF Inv, RunsWithinItsPackage
<1> QED BY <1>1, <1>2, <1>3, <1>4, <1>6, <1>7, <1>8 DEF Inv

(* What the Edge signs is a decision, under a secret, for a package it holds. *)
LEMMA DecidePreserves ==
    ASSUME Inv, NEW d \in Decisions, NEW k \in Keys, Decide(d, k)
    PROVE  Inv'
<1> DEFINE new == SignDecision(d, k).decision_signature
<1>1. /\ NamesAPackage(d) /\ AsKey(k) # NoKey
      /\ signatures' = signatures \cup {new}
      /\ UNCHANGED <<packages, catalogs, vouched, keys, environment, steps>>
  BY DEF Decide
<1>2. new = [key |-> k, bytes |-> d] /\ k \in Secrets
  <2>1. k \in Secrets /\ AsKey(k) = k
    BY <1>1 DEF AsKey
  <2>2. new = ComputeSignature(d, k)
    BY SignedFields DEF SignDecision
  <2> QED BY <2>1, <2>2, DecisionsAssumption DEF ComputeSignature
<1>3. TypeOK'
  BY <1>1, <1>2 DEF Inv, TypeOK
<1>4. SignedNamesAPackage'
  BY <1>1, <1>2 DEF Inv, SignedNamesAPackage, NamesAPackage
<1>5. VouchedMatches' /\ StepsFollowDigest' /\ RunsWithinItsPackage'
  BY <1>1 DEF Inv, VouchedMatches, StepsFollowDigest, RunsWithinItsPackage
<1> QED BY <1>3, <1>4, <1>5 DEF Inv

(* What a host holds, has checked or is configured with is read only when it
   acts; what it has checked matched when it did. *)
LEMMA HoldingPreserves ==
    ASSUME Inv, NEW h \in Hosts,
           \/ \E p \in Packages : HoldPackage(h, p) \/ AssignPackage(h, p)
           \/ \E c \in Catalogs : HoldCatalog(h, c) \/ AssignCatalog(h, c)
           \/ CheckCatalog(h)
           \/ \E k \in Keys : Configure(h, k)
    PROVE  Inv' /\ UNCHANGED environment
<1>1. UNCHANGED <<signatures, environment, steps>>
  BY DEF HoldPackage, AssignPackage, HoldCatalog, AssignCatalog, CheckCatalog, Configure
<1>2. TypeOK'
  BY DEF Inv, TypeOK, HoldPackage, AssignPackage, HoldCatalog, AssignCatalog, CheckCatalog,
         Configure
<1>3. VouchedMatches'
  <2>1. \/ UNCHANGED vouched
        \/ vouched' = [vouched EXCEPT ![h] = None]
        \/ vouched' = [vouched EXCEPT ![h] = catalogs[h]] /\ CatalogDigestMatches(catalogs[h])
    BY DEF HoldPackage, AssignPackage, HoldCatalog, AssignCatalog, CheckCatalog, Configure
  <2>2. vouched \in [Hosts -> Catalogs \cup {None}]
    BY DEF Inv, TypeOK
  <2> QED BY <2>1, <2>2 DEF Inv, VouchedMatches
<1> QED
  BY <1>1, <1>2, <1>3 DEF Inv, StepsFollowDigest, SignedNamesAPackage, NamesAPackage,
                          RunsWithinItsPackage

LEMMA NextPreserves ==
    ASSUME Inv, [Next]_vars
    PROVE  Inv'
<1>1. ASSUME NEW h \in Hosts,
             \/ \E p \in Packages : HoldPackage(h, p) \/ AssignPackage(h, p)
             \/ \E c \in Catalogs : HoldCatalog(h, c) \/ AssignCatalog(h, c)
             \/ CheckCatalog(h)
             \/ \E k \in Keys : Configure(h, k)
      PROVE  Inv'
  BY <1>1, HoldingPreserves
<1>2. ASSUME NEW h \in Hosts, NEW d \in Decisions, NEW s \in SignaturesFor(d),
             Activate(h, SignedAs(d, s))
      PROVE  Inv'
  <2>1. TypeOK' /\ RunsWithinItsPackage'
    BY <1>2, ActivationFits
  <2>2. UNCHANGED <<signatures, steps, packages, vouched>>
    BY <1>2 DEF Activate
  <2> QED BY <2>1, <2>2 DEF Inv, VouchedMatches, StepsFollowDigest, SignedNamesAPackage,
                            NamesAPackage
<1>3. ASSUME NEW h \in Hosts, NEW d \in Decisions, NEW s \in SignaturesFor(d),
             Transit(h, SignedAs(d, s))
      PROVE  Inv'
  BY <1>3, TransitionFits
<1>4. ASSUME NEW h \in Hosts, NEW d \in Decisions, NEW s \in SignaturesFor(d),
             Terminate(h, SignedAs(d, s))
      PROVE  Inv'
  BY <1>4, TerminationFits
<1>5. ASSUME NEW d \in Decisions, NEW k \in Keys, Decide(d, k)
      PROVE  Inv'
  BY <1>5, DecidePreserves
<1>6. CASE UNCHANGED vars
  BY <1>6 DEF vars, Inv, TypeOK, VouchedMatches, StepsFollowDigest, SignedNamesAPackage, NamesAPackage,
              RunsWithinItsPackage
<1> QED BY <1>1, <1>2, <1>3, <1>4, <1>5, <1>6 DEF Next

-----------------------------------------------------------------------------
(* The strengthened invariant holds in every reachable state. *)
THEOREM Invariance == Spec => []Inv
<1>1. Inv /\ [Next]_vars => Inv'
  BY NextPreserves
<1> QED BY InitEstablishes, <1>1, PTL DEF Spec

(* What is held, sent, run and remembered has its shape. *)
THEOREM TypeCorrect == Spec => []TypeOK
<1>1. Inv => TypeOK
  BY DEF Inv
<1> QED BY Invariance, <1>1, PTL

(* Whatever is assigned to a catalog or reordered in it, two steps of one digest
   between the same states, each in the catalog its host checked, took the same
   transition. *)
THEOREM DigestSettlesTheStep == Spec => []DigestFixesTheStep
<1>1. Inv => DigestFixesTheStep
  BY DEF Inv, StepsFollowDigest, DigestFixesTheStep
<1> QED BY Invariance, <1>1, PTL

(* What runs is within the package the Edge named, in every dimension. *)
THEOREM RunningIsBounded == Spec => []RunsWithinItsPackage
<1>1. Inv => RunsWithinItsPackage
  BY DEF Inv
<1> QED BY Invariance, <1>1, PTL

(* An environment starts, moves and stops only as a decision says that the Edge
   signed, unaltered, for it and for the state it was in. *)
THEOREM OnlyDecisionsMove == Spec => EveryMoveWasDecided
<1> DEFINE Decided(h) ==
        environment'[h] # environment[h] =>
            \E d \in {s.bytes : s \in signatures} :
                \/ /\ d.kind = "activation" /\ d.target_node_id = h
                   /\ environment[h] = None
                   /\ environment'[h].decision = d
                \/ /\ d.kind = "transition" /\ d.environment_id = h
                   /\ environment[h] # None
                   /\ d.current_state = environment[h].state
                   /\ environment'[h] = [environment[h] EXCEPT !.state = d.target_state]
                \/ /\ d.kind = "termination" /\ d.environment_id = h
                   /\ environment'[h] = None
<1>1. ASSUME Inv, Next, NEW h \in Hosts
      PROVE  Decided(h)
  <2> SUFFICES ASSUME environment'[h] # environment[h] PROVE Decided(h)
    OBVIOUS
  <2>1. DOMAIN environment = Hosts
    BY <1>1 DEF Inv, TypeOK
  <2>2. ASSUME NEW g \in Hosts,
               \/ \E p \in Packages : HoldPackage(g, p) \/ AssignPackage(g, p)
               \/ \E c \in Catalogs : HoldCatalog(g, c) \/ AssignCatalog(g, c)
               \/ CheckCatalog(g)
               \/ \E k \in Keys : Configure(g, k)
        PROVE  FALSE
    BY <1>1, <2>2, HoldingPreserves
  <2>3. ASSUME NEW g \in Hosts, NEW d \in Decisions, NEW s \in SignaturesFor(d),
               Activate(g, SignedAs(d, s))
        PROVE  Decided(h)
    <3>1. /\ s \in signatures /\ s.bytes = d /\ d.kind = "activation"
          /\ d.target_node_id = g /\ environment'[g].decision = d
      BY <1>1, <2>3, ActivationFits
    <3>2. environment[g] = None /\ g = h
      BY <2>1, <2>3 DEF Activate
    <3> QED BY <3>1, <3>2
  <2>4. ASSUME NEW g \in Hosts, NEW d \in Decisions, NEW s \in SignaturesFor(d),
               Transit(g, SignedAs(d, s))
        PROVE  Decided(h)
    <3>1. /\ s \in signatures /\ s.bytes = d /\ d.kind = "transition"
          /\ d.environment_id = g /\ environment[g] # None
          /\ d.current_state = environment[g].state
          /\ environment' = [environment EXCEPT ![g].state = d.target_state]
      BY <1>1, <2>4, TransitionFits
    <3>2. g = h /\ environment'[g] = [environment[g] EXCEPT !.state = d.target_state]
      BY <2>1, <3>1
    <3> QED BY <3>1, <3>2
  <2>5. ASSUME NEW g \in Hosts, NEW d \in Decisions, NEW s \in SignaturesFor(d),
               Terminate(g, SignedAs(d, s))
        PROVE  Decided(h)
    <3>1. /\ s \in signatures /\ s.bytes = d /\ d.kind = "termination"
          /\ d.environment_id = g /\ environment' = [environment EXCEPT ![g] = None]
      BY <1>1, <2>5, TerminationFits
    <3>2. g = h /\ environment'[g] = None
      BY <2>1, <3>1
    <3> QED BY <3>1, <3>2
  <2>6. ASSUME NEW d \in Decisions, NEW k \in Keys, Decide(d, k)
        PROVE  FALSE
    BY <2>6 DEF Decide
  <2> QED BY <1>1, <2>2, <2>3, <2>4, <2>5, <2>6 DEF Next
<1>2. Inv /\ [Next]_vars => [\A h \in Hosts : Decided(h)]_vars
  BY <1>1
<1> QED BY Invariance, <1>2, PTL DEF Spec, EveryMoveWasDecided
=============================================================================
