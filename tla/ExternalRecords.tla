--------------------------- MODULE ExternalRecords ---------------------------
(***************************************************************************)
(* The exposure half of azazel_fabric.external_security_contracts: what a  *)
(* mapping must look like to construct an ExposureChangeProposal or a      *)
(* DeviceChangeObservation, and the pure guards a consumer runs on the     *)
(* records it receives.  A ref is [kind, id]; an instant is a natural      *)
(* number (the code compares datetimes that carry an offset); the bounded  *)
(* payload walks are represented by the banned material they would find,   *)
(* the field "carries".                                                    *)
(***************************************************************************)
EXTENDS Integers, Sequences, FiniteSets

CONSTANT MaxProposalWindow   \* MAX_PROPOSAL_WINDOW_SECONDS, in model instants

ASSUME MaxProposalWindowAssumption == MaxProposalWindow \in Nat \ {0}

PrivacyClasses == {"public", "internal", "sensitive", "restricted"}

ExposureEffects == {"observe_deception_surface", "expose_deception_surface",
                    "redirect_to_deception_surface", "withdraw_deception_surface"}

ExposingEffects == {"expose_deception_surface", "redirect_to_deception_surface"}

DeviceChangeStatuses == {"requested", "accepted_by_device", "applied", "observed",
                         "released", "failed", "stale", "unknown"}

InPlaceDeviceStatuses == {"accepted_by_device", "applied", "observed"}

NotADecisionKinds == {"environment", "lifecycle", "presentation", "advisory",
                      "proposal", "effect", "surface"}

Ref(kind, id) == [kind |-> kind, id |-> id]

NoRef == Ref("none", 0)      \* an optional ref that is None

NoLabel == ""                \* source_status_label is None

NoBound == 0                 \* max_rollback_seconds is None; a stated bound is >= 1

NoCount == -1                \* sources_expected or sources_reporting is None

RequireRefKind(ref, kinds) == ref.kind \in kinds

DecisionRefOK(ref) ==
    /\ ref.kind \notin NotADecisionKinds
    /\ RequireRefKind(ref, {"decision"})

(* _window: finish may not precede begin, nor equal it when strict. *)
WindowOK(start, end, strict) == start < end \/ (~strict /\ start = end)

RequireUnique(values) ==
    \A i, j \in DOMAIN values : values[i] = values[j] => i = j

(***************************************************************************)
(* Shared parts.                                                           *)
(***************************************************************************)
CoverageOK(c) ==
    LET counted == c.expected # NoCount /\ c.reporting # NoCount IN
    /\ c.coverage_complete <=> c.gaps = {}
    /\ counted => c.reporting <= c.expected
    /\ c.coverage_complete => counted /\ c.reporting >= 1 /\ c.reporting = c.expected

ProvenanceOK(chain) ==
    /\ chain # <<>>
    /\ \A i, j \in DOMAIN chain : i < j => chain[i].at <= chain[j].at

TenantConfined(r) == \A i \in DOMAIN r.chain : r.chain[i].tenant = r.tenant_ref

(* _Envelope._check_envelope.  A hop's product stands for its (product,
   node_ref) pair, which the last hop must share with the producer. *)
EnvelopeOK(r, forbidTargetLocators) ==
    /\ r.privacy_class \in PrivacyClasses
    /\ ProvenanceOK(r.chain)
    /\ r.carries \cap {"directive", "secret"} = {}
    /\ forbidTargetLocators => "locator" \notin r.carries
    /\ RequireRefKind(r.tenant_ref, {"tenant"})
    /\ TenantConfined(r)
    /\ r.chain[Len(r.chain)].product = r.producer

(* A vendor extension's body is bound to its digest; a digest is represented
   by the body it was computed from. *)
ExtensionsOK(extensions) ==
    /\ Len(extensions) <= 4
    /\ RequireUnique([i \in DOMAIN extensions |-> extensions[i].namespace])
    /\ \A i \in DOMAIN extensions : extensions[i].body_digest = extensions[i].body

RollbackOK(rollback) ==
    /\ rollback.required => rollback.triggers # {} /\ rollback.max_seconds # NoBound
    /\ ~rollback.required => rollback.triggers = {} /\ rollback.max_seconds = NoBound

(* Faulty variants, used by no definition: each is a plausible bug in the
   definition after it that a run must notice. *)
LaxProposalOK(p) ==   \* the exposing-effect rule is forgotten
    /\ EnvelopeOK(p, TRUE)
    /\ DecisionRefOK(p.decision_ref)
    /\ WindowOK(p.not_before, p.expires_at, TRUE)
    /\ p.expires_at - p.not_before <= MaxProposalWindow

UnboundedProposalOK(p) ==   \* the window has no longest duration
    /\ EnvelopeOK(p, TRUE)
    /\ WindowOK(p.not_before, p.expires_at, TRUE)

(***************************************************************************)
(* The two records.                                                        *)
(***************************************************************************)
ProposalOK(p) ==
    /\ EnvelopeOK(p, TRUE)
    /\ RequireRefKind(p.proposal_id, {"proposal"})
    /\ RequireRefKind(p.trace_ref, {"trace"})
    /\ RequireRefKind(p.environment_ref, {"environment"})
    /\ DecisionRefOK(p.decision_ref)
    /\ RequireRefKind(p.target_scope_ref, {"scope"})
    /\ p.requested_effect \in ExposureEffects
    /\ RollbackOK(p.rollback)
    /\ p.safety_constraints # {}
    /\ WindowOK(p.not_before, p.expires_at, TRUE)
    /\ p.expires_at - p.not_before <= MaxProposalWindow
    /\ p.requested_effect \in ExposingEffects =>
          /\ p.rollback.required
          /\ {"on_expiry", "on_failure"} \subseteq p.rollback.triggers
          /\ "bounded_duration" \in p.safety_constraints

(* The before-validator: a status outside the vocabulary lands on unknown and
   the word the source used is kept as its label. *)
CoerceStatus(raw) ==
    IF raw.status \in DeviceChangeStatuses
    THEN raw
    ELSE [raw EXCEPT !.status = "unknown",
                     !.source_status_label = IF @ = NoLabel THEN raw.status ELSE @]

DeviceObservationOK(o) ==
    /\ EnvelopeOK(o, FALSE)
    /\ RequireRefKind(o.trace_ref, {"trace"})
    /\ DecisionRefOK(o.decision_ref)
    /\ o.proposal_ref # NoRef => RequireRefKind(o.proposal_ref, {"proposal"})
    /\ RequireRefKind(o.target_scope_ref, {"scope"})
    /\ o.status \in DeviceChangeStatuses
    /\ WindowOK(o.window.start, o.window.end, FALSE)
    /\ o.window.end <= o.observed_at
    /\ CoverageOK(o.coverage)
    /\ o.status = "failed" <=> o.states_failure_reason
    /\ o.status = "observed" => o.evidence_refs # {}
    /\ o.status \in {"stale", "unknown"} =>
          o.states_limitation \/ o.source_status_label # NoLabel
    /\ ExtensionsOK(o.extensions)

(***************************************************************************)
(* The guards of section 6 of docs/external-security-contracts.md.  Each   *)
(* runs as_record first: a mapping that would not construct a record, or a *)
(* model changed after construction, is refused before it is compared.     *)
(***************************************************************************)
AsProposal(p) == ProposalOK(p)

AsDeviceObservation(o) == DeviceObservationOK(o)

PrivacyAdmitted(r, admitted) ==
    /\ r.privacy_class \in PrivacyClasses
    /\ admitted \subseteq PrivacyClasses
    /\ r.privacy_class \in admitted

NotExpired(r, asOf) == r.expires_at > asOf

LaxNoReplayExtension(original, candidate) ==   \* only the scope is compared
    original.proposal_id = candidate.proposal_id =>
        original.target_scope_ref = candidate.target_scope_ref

(* Equal canonical digests are equal records. *)
NoReplayExtension(original, candidate) ==
    /\ AsProposal(original)
    /\ AsProposal(candidate)
    /\ original.proposal_id = candidate.proposal_id => original = candidate

AnyTenantWithinProposal(p, o) ==   \* tenant_ref is not compared
    /\ o.proposal_ref = p.proposal_id
    /\ o.trace_ref = p.trace_ref
    /\ o.decision_ref = p.decision_ref
    /\ o.status \in InPlaceDeviceStatuses =>
          /\ p.not_before <= o.observed_at /\ o.observed_at <= p.expires_at

WindowlessWithinProposal(p, o) ==   \* observation_window is not compared
    /\ o.proposal_ref = p.proposal_id
    /\ o.tenant_ref = p.tenant_ref /\ o.decision_ref = p.decision_ref
    /\ o.status \in InPlaceDeviceStatuses =>
          /\ p.not_before <= o.observed_at /\ o.observed_at <= p.expires_at

DeviceObservationWithinProposal(p, o) ==
    /\ AsProposal(p)
    /\ AsDeviceObservation(o)
    /\ o.proposal_ref = p.proposal_id
    /\ o.tenant_ref = p.tenant_ref
    /\ o.trace_ref = p.trace_ref
    /\ o.decision_ref = p.decision_ref
    /\ o.status \in InPlaceDeviceStatuses =>
          /\ p.not_before <= o.observed_at /\ o.observed_at <= p.expires_at
          /\ p.not_before <= o.window.start /\ o.window.end <= p.expires_at
=============================================================================
