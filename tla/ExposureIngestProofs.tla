------------------------- MODULE ExposureIngestProofs -------------------------
(***************************************************************************)
(* Every value of the constants: the safety properties of ExposureIngest,  *)
(* and that it implements BoundedExposure.                                 *)
(***************************************************************************)
EXTENDS ExposureIngest, TLAPS

(* Every proposal held would construct, and every report held was bound to a
   proposal that is still held: proposals are never dropped or replaced. *)
LedgersJustified ==
    /\ \A p \in proposals : ProposalOK(p)
    /\ \A r \in reports : \E p \in proposals : DeviceObservationWithinProposal(p, r)

IInv == TypeOK /\ OneContentPerProposal /\ LedgersJustified

(* Coercing a status leaves the rest of the report alone. *)
LEMMA CoercionKeepsInstants ==
    ASSUME NEW o \in CoercedReports
    PROVE  o.observed_at \in Nat /\ o.window.start \in Nat /\ o.window.end \in Nat
BY ReportInputsAssumption DEF CoercedReports, CoerceStatus

LEMMA InitIInv == Init => IInv
BY BoundsAssumption
   DEF Init, IInv, TypeOK, OneContentPerProposal, LedgersJustified

LEMMA AdmitProposalIInv ==
    ASSUME IInv, NEW p \in ProposalInputs, AdmitProposal(p)
    PROVE  IInv'
<1>1. TypeOK'
  BY DEF IInv, TypeOK, AdmitProposal
<1>2. OneContentPerProposal'
  BY DEF IInv, OneContentPerProposal, AdmitProposal, NoReplayExtension
<1>3. LedgersJustified'
  BY DEF IInv, LedgersJustified, AdmitProposal, AsProposal
<1> QED BY <1>1, <1>2, <1>3 DEF IInv

LEMMA AdmitReportIInv ==
    ASSUME IInv, NEW raw \in ReportInputs, AdmitReport(raw)
    PROVE  IInv'
<1>1. TypeOK'
  BY DEF IInv, TypeOK, AdmitReport, CoercedReports
<1>2. OneContentPerProposal'
  BY DEF IInv, OneContentPerProposal, AdmitReport
<1>3. LedgersJustified'
  BY DEF IInv, LedgersJustified, AdmitReport
<1> QED BY <1>1, <1>2, <1>3 DEF IInv

LEMMA NextIInv == IInv /\ [Next]_vars => IInv'
<1> SUFFICES ASSUME IInv, [Next]_vars PROVE IInv'
  OBVIOUS
<1>1. CASE Tick
  BY <1>1, BoundsAssumption
     DEF Tick, IInv, TypeOK, OneContentPerProposal, LedgersJustified
<1>2. CASE \E p \in ProposalInputs : AdmitProposal(p)
  BY <1>2, AdmitProposalIInv
<1>3. CASE \E raw \in ReportInputs : AdmitReport(raw)
  BY <1>3, AdmitReportIInv
<1>4. CASE UNCHANGED vars
  BY <1>4 DEF vars, IInv, TypeOK, OneContentPerProposal, LedgersJustified
<1> QED BY <1>1, <1>2, <1>3, <1>4 DEF Next

(* The strengthened invariant holds throughout. *)
THEOREM Inductive == Spec => []IInv
BY InitIInv, NextIInv, PTL DEF Spec

(* The ledgers hold only records that were sent, as the validators read them. *)
THEOREM TypeCorrect == Spec => []TypeOK
BY Inductive, PTL DEF IInv

(* No two contents are ever held under one proposal id. *)
THEOREM ReplayChangesNothing == Spec => []OneContentPerProposal
BY Inductive, PTL DEF IInv

(* An in-place report lies in the window of the one proposal held under its id. *)
LEMMA InPlaceInWindow ==
    ASSUME IInv, NEW r \in reports, InPlace(r)
    PROVE  \E p \in proposals :
              /\ p.proposal_id = r.proposal_ref
              /\ p.tenant_ref = r.tenant_ref /\ p.decision_ref = r.decision_ref
              /\ p.not_before <= r.window.start /\ r.window.end <= p.expires_at
              /\ p.not_before <= r.observed_at /\ r.observed_at <= p.expires_at
              /\ ProposalOK(p) /\ DeviceObservationOK(r)
BY DEF IInv, LedgersJustified, InPlace, DeviceObservationWithinProposal, AsDeviceObservation

LEMMA SpanBounded == IInv => InPlaceSpanBounded
<1> SUFFICES ASSUME IInv, NEW r \in reports, NEW s \in reports,
                    InPlace(r), InPlace(s), r.proposal_ref = s.proposal_ref
             PROVE  /\ r.tenant_ref = s.tenant_ref
                    /\ r.decision_ref = s.decision_ref
                    /\ r.observed_at - s.window.start <= MaxProposalWindow
  BY DEF InPlaceSpanBounded
<1>1. PICK p \in proposals :
          /\ p.proposal_id = r.proposal_ref
          /\ p.tenant_ref = r.tenant_ref /\ p.decision_ref = r.decision_ref
          /\ r.observed_at <= p.expires_at
          /\ ProposalOK(p)
  BY InPlaceInWindow
<1>2. PICK q \in proposals :
          /\ q.proposal_id = s.proposal_ref
          /\ q.tenant_ref = s.tenant_ref /\ q.decision_ref = s.decision_ref
          /\ q.not_before <= s.window.start
  BY InPlaceInWindow
<1>3. p = q
  BY <1>1, <1>2 DEF IInv, OneContentPerProposal
<1>4. p.expires_at - p.not_before <= MaxProposalWindow
  BY <1>1 DEF ProposalOK
<1>5. /\ p.expires_at \in Nat /\ p.not_before \in Nat
      /\ r.observed_at \in Nat /\ s.window.start \in Nat
  BY CoercionKeepsInstants, ProposalInputsAssumption DEF IInv, TypeOK
<1> QED
  BY <1>1, <1>2, <1>3, <1>4, <1>5, MaxProposalWindowAssumption

(* No sequence of reports and replays stretches one proposal id past the bound. *)
THEOREM NoStandingExposure == Spec => []InPlaceSpanBounded
BY Inductive, SpanBounded, PTL

LEMMA TenantsAgree == IInv => NoCrossTenantEvidence
<1> SUFFICES ASSUME IInv, NEW r \in reports, NEW p \in proposals,
                    r.proposal_ref = p.proposal_id,
                    NEW i \in DOMAIN r.chain, NEW j \in DOMAIN p.chain
             PROVE  r.chain[i].tenant = p.chain[j].tenant
  BY DEF NoCrossTenantEvidence
<1>1. PICK q \in proposals : DeviceObservationWithinProposal(q, r)
  BY DEF IInv, LedgersJustified
<1>2. p = q
  BY <1>1 DEF IInv, OneContentPerProposal, DeviceObservationWithinProposal
<1>3. r.chain[i].tenant = r.tenant_ref
  BY <1>1 DEF DeviceObservationWithinProposal, AsDeviceObservation,
              DeviceObservationOK, EnvelopeOK, TenantConfined
<1>4. p.chain[j].tenant = p.tenant_ref
  BY DEF IInv, LedgersJustified, ProposalOK, EnvelopeOK, TenantConfined
<1> QED BY <1>1, <1>2, <1>3, <1>4 DEF DeviceObservationWithinProposal

(* Ids shared by two tenants never file one tenant's evidence under the other. *)
THEOREM TenantsStayApart == Spec => []NoCrossTenantEvidence
BY Inductive, TenantsAgree, PTL

LEMMA EndKnown == IInv => ExposureHasAnEnd
<1> SUFFICES ASSUME IInv, NEW r \in reports, InPlace(r)
             PROVE  \E p \in proposals :
                       /\ p.proposal_id = r.proposal_ref
                       /\ r.observed_at <= p.expires_at
                       /\ p.requested_effect \in ExposingEffects =>
                             /\ {"on_expiry", "on_failure"} \subseteq p.rollback.triggers
                             /\ p.rollback.max_seconds # NoBound
  BY DEF ExposureHasAnEnd
<1>1. PICK p \in proposals :
          /\ p.proposal_id = r.proposal_ref
          /\ r.observed_at <= p.expires_at
          /\ ProposalOK(p)
  BY InPlaceInWindow
<1>2. p.requested_effect \in ExposingEffects =>
          /\ {"on_expiry", "on_failure"} \subseteq p.rollback.triggers
          /\ p.rollback.max_seconds # NoBound
  BY <1>1 DEF ProposalOK, RollbackOK
<1> QED BY <1>1, <1>2

(* An exposing change reported in place has a known, bounded end. *)
THEOREM ExposureEnds == Spec => []ExposureHasAnEnd
BY Inductive, EndKnown, PTL

(* What a step does to the two ledgers: at most one proposal is added, under
   an id the ledger does not hold, or at most one report. *)
LEMMA StepEffect ==
    ASSUME IInv, [Next]_vars
    PROVE  \/ UNCHANGED <<proposals, reports>>
           \/ /\ UNCHANGED reports
              /\ \E p \in ProposalInputs :
                    /\ ProposalOK(p)
                    /\ \A q \in proposals : q.proposal_id # p.proposal_id
                    /\ proposals' = proposals \cup {p}
           \/ /\ UNCHANGED proposals
              /\ \E o \in CoercedReports :
                    /\ \E p \in proposals : DeviceObservationWithinProposal(p, o)
                    /\ reports' = reports \cup {o}
<1>1. CASE Tick
  BY <1>1 DEF Tick
<1>2. CASE \E p \in ProposalInputs : AdmitProposal(p)
  <2> PICK p \in ProposalInputs : AdmitProposal(p)
    BY <1>2
  <2>1. CASE \E q \in proposals : q.proposal_id = p.proposal_id
    <3>1. p \in proposals
      BY <2>1 DEF AdmitProposal, NoReplayExtension
    <3> QED BY <3>1 DEF AdmitProposal
  <2>2. CASE \A q \in proposals : q.proposal_id # p.proposal_id
    BY <2>2 DEF AdmitProposal, AsProposal
  <2> QED BY <2>1, <2>2
<1>3. CASE \E raw \in ReportInputs : AdmitReport(raw)
  BY <1>3 DEF AdmitReport, CoercedReports
<1>4. CASE UNCHANGED vars
  BY <1>4 DEF vars
<1> QED BY <1>1, <1>2, <1>3, <1>4 DEF Next

LEMMA StepKeepsEnds ==
    ASSUME IInv, [Next]_vars, NEW i \in ProposalIds, EndsOf(i, proposals) # {}
    PROVE  EndsOf(i, proposals') = EndsOf(i, proposals)
<1>1. PICK q \in proposals : q.proposal_id = i
  BY DEF EndsOf
<1>2. CASE proposals' = proposals
  BY <1>2
<1>3. CASE \E p \in ProposalInputs :
              /\ \A r \in proposals : r.proposal_id # p.proposal_id
              /\ proposals' = proposals \cup {p}
  BY <1>1, <1>3 DEF EndsOf
<1> QED BY <1>2, <1>3, StepEffect

(* The expiry a consumer holds for a proposal id never changes. *)
THEOREM RenewalNeedsANewId == Spec => ExpiryNeverMoves
<1>1. IInv /\ [Next]_vars =>
        [\A i \in ProposalIds :
           EndsOf(i, proposals) # {} => EndsOf(i, proposals') = EndsOf(i, proposals)]_vars
  BY StepKeepsEnds
<1> QED BY <1>1, Inductive, PTL DEF Spec, ExpiryNeverMoves

-----------------------------------------------------------------------------
(* The refinement.  The two abstract variables, as the mapping gives them. *)
AbsWindow == [i \in ProposalIds |-> HeldWindow(i)]

AbsCovered == [i \in ProposalIds |-> CoveredInstants(i)]

LEMMA InitRefines == Init => Bounded!Init
BY DEF Init, Bounded!Init, Bounded!Unopened, HeldWindow, CoveredInstants

(* A held proposal's window is the abstract window of its id. *)
LEMMA HeldWindowIs ==
    ASSUME OneContentPerProposal, NEW p \in proposals
    PROVE  HeldWindow(p.proposal_id) = [from |-> p.not_before, to |-> p.expires_at]
BY DEF HeldWindow, OneContentPerProposal

LEMMA InstantsInWindow ==
    ASSUME NEW p \in ProposalInputs, NEW o \in CoercedReports, InPlace(o),
           DeviceObservationWithinProposal(p, o)
    PROVE  InstantsOf(o) \subseteq p.not_before .. p.expires_at
BY CoercionKeepsInstants, ProposalInputsAssumption
   DEF InstantsOf, InPlace, DeviceObservationWithinProposal

LEMMA AdmittedProposalOpens ==
    ASSUME IInv, IInv', UNCHANGED reports,
           NEW p \in ProposalInputs, ProposalOK(p),
           \A q \in proposals : q.proposal_id # p.proposal_id,
           proposals' = proposals \cup {p}
    PROVE  \E i \in ProposalIds : Bounded!Open(i)
<1> DEFINE n == p.proposal_id
           w == [from |-> p.not_before, to |-> p.expires_at]
<1>1. n \in ProposalIds
  BY DEF ProposalIds
<1>2. HeldWindow(n) = Bounded!Unopened
  BY DEF HeldWindow, Bounded!Unopened
<1>3. HeldWindow(n)' = w
  BY DEF IInv, HeldWindow, OneContentPerProposal
<1>4. Bounded!IsWindow(w)
  BY ProposalInputsAssumption DEF Bounded!IsWindow, ProposalOK, WindowOK
<1>5. ASSUME NEW i \in ProposalIds, i # n
      PROVE  HeldWindow(i)' = HeldWindow(i)
  <2>1. \A q \in proposals' : q.proposal_id = i <=> q \in proposals /\ q.proposal_id = i
    BY <1>5
  <2>2. CASE \E q \in proposals : q.proposal_id = i
    <3>1. PICK q \in proposals : q.proposal_id = i
      BY <2>2
    <3>2. HeldWindow(i) = [from |-> q.not_before, to |-> q.expires_at]
      BY <3>1, HeldWindowIs DEF IInv
    <3>3. HeldWindow(i)' = [from |-> q.not_before, to |-> q.expires_at]
      BY <3>1 DEF IInv, HeldWindow, OneContentPerProposal
    <3> QED BY <3>2, <3>3
  <2>3. CASE ~ \E q \in proposals : q.proposal_id = i
    BY <2>1, <2>3 DEF HeldWindow
  <2> QED BY <2>2, <2>3
<1>6. AbsWindow' = [AbsWindow EXCEPT ![n] = w]
  BY <1>1, <1>3, <1>5 DEF AbsWindow
<1>7. AbsCovered' = AbsCovered
  BY DEF AbsCovered, CoveredInstants
<1> QED
  BY <1>1, <1>2, <1>3, <1>4, <1>6, <1>7
     DEF Bounded!Open, AbsWindow, AbsCovered

LEMMA AdmittedReportCovers ==
    ASSUME IInv, IInv', UNCHANGED proposals,
           NEW o \in CoercedReports,
           \E p \in proposals : DeviceObservationWithinProposal(p, o),
           reports' = reports \cup {o}
    PROVE  [Bounded!Next]_(Bounded!vars)
<1> PICK p \in proposals : DeviceObservationWithinProposal(p, o)
  OBVIOUS
<1> DEFINE n == p.proposal_id
<1>1. n = o.proposal_ref /\ n \in ProposalIds /\ p \in ProposalInputs
  BY DEF DeviceObservationWithinProposal, IInv, TypeOK, ProposalIds
<1>2. AbsWindow' = AbsWindow
  BY DEF AbsWindow, HeldWindow
<1>3. CASE ~InPlace(o)
  <2>1. \A i : CoveredInstants(i)' = CoveredInstants(i)
    BY <1>3 DEF CoveredInstants
  <2>2. AbsCovered' = AbsCovered
    BY <2>1 DEF AbsCovered
  <2> QED BY <1>2, <2>2 DEF Bounded!vars, AbsWindow, AbsCovered
<1>4. CASE InPlace(o)
  <2>1. ASSUME NEW i \in ProposalIds, i # n
        PROVE  CoveredInstants(i)' = CoveredInstants(i)
    BY <1>1, <2>1 DEF CoveredInstants
  <2>2. AbsCovered' = [AbsCovered EXCEPT ![n] = CoveredInstants(n)']
    BY <1>1, <2>1 DEF AbsCovered
  <2>3. CoveredInstants(n) \subseteq CoveredInstants(n)'
    BY DEF CoveredInstants
  <2>4. HeldWindow(n) = [from |-> p.not_before, to |-> p.expires_at]
    BY HeldWindowIs DEF IInv
  <2>5. HeldWindow(n) # Bounded!Unopened
    BY <2>4, <1>1, ProposalInputsAssumption DEF Bounded!Unopened
  <2>6. ASSUME NEW r \in reports', InPlace(r), r.proposal_ref = n
        PROVE  InstantsOf(r) \subseteq p.not_before .. p.expires_at
    <3>1. PICK q \in proposals : DeviceObservationWithinProposal(q, r)
      BY DEF IInv, LedgersJustified
    <3>2. q = p
      BY <2>6, <3>1 DEF IInv, OneContentPerProposal, DeviceObservationWithinProposal
    <3>3. r \in CoercedReports
      BY DEF IInv, TypeOK
    <3> QED BY <1>1, <2>6, <3>1, <3>2, <3>3, InstantsInWindow
  <2>7. CoveredInstants(n)' \subseteq p.not_before .. p.expires_at
    BY <2>6 DEF CoveredInstants, InPlace
  <2>8. AbsWindow[n] = HeldWindow(n) /\ AbsCovered[n] = CoveredInstants(n)
    BY <1>1 DEF AbsWindow, AbsCovered
  <2>9. AbsCovered'[n] = CoveredInstants(n)'
    BY <1>1, <2>2 DEF AbsCovered
  <2>10. AbsCovered' = [AbsCovered EXCEPT ![n] = AbsCovered'[n]]
    BY <2>2, <2>9
  <2>11. AbsCovered'[n] \subseteq AbsWindow[n].from .. AbsWindow[n].to
    BY <2>4, <2>7, <2>8, <2>9
  <2>12. AbsCovered[n] \subseteq AbsCovered'[n] /\ AbsWindow[n] # Bounded!Unopened
    BY <2>3, <2>5, <2>8, <2>9
  <2>13. Bounded!Cover(n)
    <3> HIDE DEF n
    <3> QED BY <1>2, <2>10, <2>11, <2>12 DEF Bounded!Cover, AbsWindow, AbsCovered
  <2> QED BY <1>1, <2>13 DEF Bounded!Next
<1> QED BY <1>3, <1>4

LEMMA StepRefines == IInv /\ IInv' /\ [Next]_vars => [Bounded!Next]_(Bounded!vars)
<1> SUFFICES ASSUME IInv, IInv', [Next]_vars
             PROVE  [Bounded!Next]_(Bounded!vars)
  OBVIOUS
<1>1. CASE UNCHANGED <<proposals, reports>>
  BY <1>1 DEF Bounded!vars, HeldWindow, CoveredInstants
<1>2. CASE /\ UNCHANGED reports
           /\ \E p \in ProposalInputs :
                 /\ ProposalOK(p)
                 /\ \A q \in proposals : q.proposal_id # p.proposal_id
                 /\ proposals' = proposals \cup {p}
  BY <1>2, AdmittedProposalOpens DEF Bounded!Next
<1>3. CASE /\ UNCHANGED proposals
           /\ \E o \in CoercedReports :
                 /\ \E p \in proposals : DeviceObservationWithinProposal(p, o)
                 /\ reports' = reports \cup {o}
  BY <1>3, AdmittedReportCovers
<1> QED BY <1>1, <1>2, <1>3, StepEffect

(* The guards, composed at ingest, implement the bounded-exposure promise. *)
THEOREM ExposureRefines == Spec => ImplementsBoundedExposure
BY InitRefines, StepRefines, Inductive, PTL
   DEF Spec, ImplementsBoundedExposure, Bounded!Spec
=============================================================================
