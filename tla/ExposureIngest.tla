---------------------------- MODULE ExposureIngest ----------------------------
(***************************************************************************)
(* A consumer of the exposure records.  Deception's proposals and the      *)
(* device adapters' reports reach it as mappings, from any sender, in any  *)
(* order, late, more than once, altered or never: an admission picks any   *)
(* member of ProposalInputs or ReportInputs.  The consumer keeps what the  *)
(* guards of ExternalRecords let through and supplies the clock they lack. *)
(***************************************************************************)
EXTENDS ExternalRecords

CONSTANTS ProposalInputs,     \* proposal mappings a sender may put on the wire
          ReportInputs,       \* device-observation mappings
          AdmittedPrivacy,    \* the consumer's own admission set
          MaxTime,            \* bound: the clock stops here
          MaxReports          \* bound: reports kept at once

ASSUME ProposalInputsAssumption ==
    \A p \in ProposalInputs : p.not_before \in Nat /\ p.expires_at \in Nat

ASSUME ReportInputsAssumption ==
    \A o \in ReportInputs :
        /\ {"observed_at", "window", "proposal_ref"} \subseteq DOMAIN o
        /\ o.observed_at \in Nat /\ o.window.start \in Nat /\ o.window.end \in Nat

ASSUME BoundsAssumption == MaxTime \in Nat /\ MaxReports \in Nat

VARIABLES now,         \* the consumer's clock, the as_of it passes
          proposals,   \* proposals admitted, held as the originals of the replay check
          reports      \* device observations admitted against one of them

vars == <<now, proposals, reports>>

Init ==
    /\ now = 0
    /\ proposals = {}
    /\ reports = {}

Tick ==
    /\ now < MaxTime
    /\ now' = now + 1
    /\ UNCHANGED <<proposals, reports>>

AdmitRawReport(raw) ==   \* faulty: the report is filed as sent, not as validated
    /\ \E p \in proposals : DeviceObservationWithinProposal(p, CoerceStatus(raw))
    /\ reports' = reports \cup {raw}
    /\ UNCHANGED <<now, proposals>>

AdmitProposal(p) ==
    /\ AsProposal(p)
    /\ PrivacyAdmitted(p, AdmittedPrivacy)
    /\ NotExpired(p, now)
    /\ \A original \in proposals : NoReplayExtension(original, p)
    /\ proposals' = proposals \cup {p}
    /\ UNCHANGED <<now, reports>>

(* The report is bound to the proposal the consumer holds; one that arrives
   before its proposal finds nothing to be bound to. *)
AdmitReport(raw) ==
    LET o == CoerceStatus(raw) IN
    /\ Cardinality(reports) < MaxReports
    /\ PrivacyAdmitted(o, AdmittedPrivacy)
    /\ \E p \in proposals : DeviceObservationWithinProposal(p, o)
    /\ reports' = reports \cup {o}
    /\ UNCHANGED <<now, proposals>>

Next ==
    \/ Tick
    \/ \E p \in ProposalInputs : AdmitProposal(p)
    \/ \E raw \in ReportInputs : AdmitReport(raw)

Spec == Init /\ [][Next]_vars

-----------------------------------------------------------------------------
InPlace(o) == o.status \in InPlaceDeviceStatuses

ProposalIds == {p.proposal_id : p \in ProposalInputs}

CoercedReports == {CoerceStatus(raw) : raw \in ReportInputs}

(* The ledgers hold only what was sent, as read by the before-validator. *)
TypeOK ==
    /\ now \in 0 .. MaxTime
    /\ proposals \subseteq ProposalInputs
    /\ reports \subseteq CoercedReports

(* The consumer never holds two contents under one proposal id, however
   copies are altered, delayed or reordered. *)
OneContentPerProposal ==
    \A p, q \in proposals : p.proposal_id = q.proposal_id => p = q

(* Two reports that a change is in place under one proposal id agree on the
   tenant and the decision and lie, with their windows, within one proposal
   window's length of each other: no sequence of reports or replays stretches
   one proposal into a standing exposure. *)
InPlaceSpanBounded ==
    \A r, s \in reports :
        InPlace(r) /\ InPlace(s) /\ r.proposal_ref = s.proposal_ref =>
            /\ r.tenant_ref = s.tenant_ref
            /\ r.decision_ref = s.decision_ref
            /\ r.observed_at - s.window.start <= MaxProposalWindow

(* A report a consumer holds was relayed only by the tenant that owns the
   proposal it is filed under, whatever ids the two tenants happen to share. *)
NoCrossTenantEvidence ==
    \A r \in reports, p \in proposals :
        r.proposal_ref = p.proposal_id =>
            \A i \in DOMAIN r.chain, j \in DOMAIN p.chain :
                r.chain[i].tenant = p.chain[j].tenant

(* Whenever an exposing change is reported in place the consumer knows when
   and how it must end: a rollback on expiry and on failure, with a time
   bound, and no report later than that expiry. *)
ExposureHasAnEnd ==
    \A r \in reports : InPlace(r) =>
        \E p \in proposals :
            /\ p.proposal_id = r.proposal_ref
            /\ r.observed_at <= p.expires_at
            /\ p.requested_effect \in ExposingEffects =>
                  /\ {"on_expiry", "on_failure"} \subseteq p.rollback.triggers
                  /\ p.rollback.max_seconds # NoBound

EndsOf(i, held) == {p.expires_at : p \in {q \in held : q.proposal_id = i}}

(* The end of a proposal's window, once the consumer holds one, never moves:
   a re-sent copy with a later expiry is not a renewal. *)
ExpiryNeverMoves ==
    [][\A i \in ProposalIds :
          EndsOf(i, proposals) # {} => EndsOf(i, proposals') = EndsOf(i, proposals)]_vars

-----------------------------------------------------------------------------
(* The refinement mapping: a proposal id is open once a proposal with it is
   held, and covered at the instants its in-place reports speak of. *)
HeldWindow(i) ==
    IF \E p \in proposals : p.proposal_id = i
    THEN LET p == CHOOSE q \in proposals : q.proposal_id = i
         IN  [from |-> p.not_before, to |-> p.expires_at]
    ELSE [from |-> 0, to |-> -1]

InstantsOf(r) == (r.window.start .. r.window.end) \cup {r.observed_at}

CoveredInstants(i) ==
    UNION {InstantsOf(r) : r \in {s \in reports : InPlace(s) /\ s.proposal_ref = i}}

Bounded == INSTANCE BoundedExposure WITH
    window  <- [i \in ProposalIds |-> HeldWindow(i)],
    covered <- [i \in ProposalIds |-> CoveredInstants(i)]

(* The consumer's ledgers implement the bounded-exposure promise. *)
ImplementsBoundedExposure == Bounded!Spec
=============================================================================
