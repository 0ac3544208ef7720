----------------------------- MODULE EffectRecords -----------------------------
(***************************************************************************)
(* azazel_fabric.effect_contracts: what a mapping must look like to        *)
(* construct one of its records, and the guards that relate the records of *)
(* one chain.  A ref is [kind, id], of kind "untyped" where an id          *)
(* inherited from the outcome contracts need not announce itself; an       *)
(* instant is a natural number; the payload walks and the wording rules    *)
(* are represented by what they would find, the field "carries".           *)
(***************************************************************************)
EXTENDS Integers, Sequences

CONSTANT None   \* an optional record that is absent

AuthorityClasses == {"observed_fact", "producer_decision_ref", "advisory_inference",
                     "planned_shadow", "active_materialized", "stale_or_unknown"}

ObservableAuthorityClasses == {"observed_fact", "active_materialized"}

EffectClasses == {"observe_only", "notify_only", "rate_limit",
                  "redirect_to_presented_terrain", "network_isolation",
                  "session_termination"}

EffectStatuses == {"eligible", "selected", "rejected", "started", "active",
                   "completed", "terminated", "failed"}

LiveStatuses == {"started", "active"}

ObservationContextKinds == {"observation_objective", "hypothesis", "frame"}

NotADecision == {"lifecycle", "presentation", "advisory", "effect", "effect_observation",
                 "environment", "surface", "artifact"} \cup ObservationContextKinds

Ref(kind, id) == [kind |-> kind, id |-> id]

NoRef == Ref("none", 0)   \* an optional ref that is None

RequireRefKind(ref, kind) == ref.kind = kind

RejectRefKinds(ref, forbidden) == ref.kind \notin forbidden

OptionalRef(ref, kind) == ref = NoRef \/ RequireRefKind(ref, kind)

(* Unknown input lands on the class that claims least. *)
CoerceAuthorityClass(raw) == IF raw \in AuthorityClasses THEN raw ELSE "stale_or_unknown"

IsAuthoritativeDecisionReference(raw) ==
    CoerceAuthorityClass(raw) = "producer_decision_ref"

(* assert_no_runtime_directives and assert_no_effect_authority_fields. *)
PayloadOK(r) == r.carries \cap {"directive", "authority"} = {}

(***************************************************************************)
(* The records.                                                            *)
(***************************************************************************)
AmbivalentEffectOK(e) ==   \* faulty: advice may name a decision
    /\ PayloadOK(e)
    /\ RequireRefKind(e.effect_id, "effect")
    /\ RejectRefKinds(e.trace_id, NotADecision) /\ RejectRefKinds(e.decision_ref, NotADecision)
    /\ e.created_at < e.expires_at
    /\ e.authority_class = "producer_decision_ref" => e.decision_ref # NoRef
    /\ e.authority_class = "advisory_inference" => RequireRefKind(e.advisory_ref, "advisory")

DefensiveEffectOK(e) ==
    /\ PayloadOK(e)
    /\ RequireRefKind(e.effect_id, "effect")
    /\ RequireRefKind(e.target_scope_ref, "scope")
    /\ RejectRefKinds(e.trace_id, NotADecision)
    /\ RejectRefKinds(e.decision_ref, NotADecision)
    /\ e.effect_class \in EffectClasses
    /\ e.created_at < e.expires_at
    /\ e.authority_class \in AuthorityClasses \ ObservableAuthorityClasses
    /\ e.authority_class = "producer_decision_ref" =>
          e.decision_ref # NoRef /\ e.advisory_ref = NoRef
    /\ e.authority_class = "advisory_inference" =>
          RequireRefKind(e.advisory_ref, "advisory") /\ e.decision_ref = NoRef

EffectObservationOK(o) ==
    /\ PayloadOK(o)
    /\ RequireRefKind(o.observation_id, "effect_observation")
    /\ RequireRefKind(o.effect_ref, "effect")
    /\ RejectRefKinds(o.execution_ref, NotADecision)
    /\ o.status \in EffectStatuses
    /\ o.authority_class \in ObservableAuthorityClasses
    /\ o.status \in {"terminated", "failed"} => o.states_reason
    /\ o.status \in LiveStatuses <=> o.authority_class = "active_materialized"

(* What a terrain exposes is a set of [slot, ref]: each of the four tuples
   takes refs of its own kind only. *)
PresentedTerrainOK(t) ==
    /\ PayloadOK(t) /\ "secret" \notin t.carries
    /\ RequireRefKind(t.presentation_id, "presentation")
    /\ RequireRefKind(t.lifecycle_state_ref, "lifecycle")
    /\ RejectRefKinds(t.activation_decision_ref, NotADecision)
    /\ RejectRefKinds(t.trace_id, NotADecision)
    /\ OptionalRef(t.source_effect_ref, "effect")
    /\ t.activation_decision_ref # NoRef \/ t.source_effect_ref # NoRef
    /\ t.source_effect_ref # NoRef => t.trace_id # NoRef
    /\ \A x \in t.exposes : RequireRefKind(x.ref, x.slot)
    /\ t.created_at < t.expires_at
    /\ t.authority_class \in AuthorityClasses \ {"advisory_inference"}

(* ReplayProvenance.confers_authority is pinned, so the model has no field
   for it: whoever vouches for the bytes gives the record no authority. *)
OutcomeEnvelopeOK(v) ==
    LET objective == \/ v.observation_objective_ref # NoRef
                     \/ v.hypothesis_refs # <<>>
                     \/ v.frame_ref # NoRef
    IN
    /\ PayloadOK(v) /\ "imperative" \notin v.carries
    /\ RequireRefKind(v.envelope_id, "envelope")
    /\ RejectRefKinds(v.decision_ref, NotADecision)
    /\ RejectRefKinds(v.trace_id, ObservationContextKinds)
    /\ OptionalRef(v.effect_ref, "effect")
    /\ OptionalRef(v.presentation_ref, "presentation")
    /\ OptionalRef(v.observation_objective_ref, "observation_objective")
    /\ OptionalRef(v.frame_ref, "frame")
    /\ \A i \in DOMAIN v.hypothesis_refs : RequireRefKind(v.hypothesis_refs[i], "hypothesis")
    /\ \A i, j \in DOMAIN v.hypothesis_refs :
          v.hypothesis_refs[i] = v.hypothesis_refs[j] => i = j
    /\ v.hypothesis_refs # <<>> => v.frame_ref # NoRef
    /\ objective /\ v.decision_ref = NoRef => v.authority_class # "active_materialized"
    /\ v.window_start <= v.window_end
    /\ v.coverage_complete <=> v.telemetry_gaps = {}
    /\ v.authority_class \in AuthorityClasses \ {"producer_decision_ref"}

(***************************************************************************)
(* The chain guards.                                                       *)
(***************************************************************************)
UnboundShadowTerrain(e, t) ==   \* faulty: nothing is compared without a decision
    /\ e.decision_ref # NoRef => t.activation_decision_ref = e.decision_ref
    /\ e.decision_ref = NoRef => t.activation_decision_ref = NoRef

TerrainBindsToEffect(e, t) ==
    /\ t.activation_decision_ref = e.decision_ref
    /\ e.decision_ref = NoRef => t.source_effect_ref # NoRef
    /\ t.trace_id # NoRef => t.trace_id = e.trace_id
    /\ t.source_effect_ref # NoRef => t.source_effect_ref = e.effect_id

CrossTraceChain(e, observations, envelope, terrain) ==   \* faulty: ids only
    /\ \A o \in observations : o.effect_ref = e.effect_id
    /\ envelope # None => envelope.effect_ref \in {NoRef, e.effect_id}
    /\ terrain # None => TerrainBindsToEffect(e, terrain)

TerrainFirst(e, observations, envelope, terrain) ==   \* faulty: an envelope has to wait
    /\ \A o \in observations : o.trace_id = e.trace_id /\ o.effect_ref = e.effect_id
    /\ envelope # None =>
          /\ envelope.trace_id = e.trace_id
          /\ envelope.effect_ref \in {NoRef, e.effect_id}
          /\ envelope.presentation_ref # NoRef =>
                terrain # None /\ envelope.presentation_ref = terrain.presentation_id
    /\ terrain # None => TerrainBindsToEffect(e, terrain)

EffectChainConsistent(e, observations, envelope, terrain) ==
    /\ \A o \in observations : o.trace_id = e.trace_id /\ o.effect_ref = e.effect_id
    /\ envelope # None =>
          /\ envelope.trace_id = e.trace_id
          /\ envelope.effect_ref \in {NoRef, e.effect_id}
    /\ terrain # None => TerrainBindsToEffect(e, terrain)
    /\ envelope # None /\ terrain # None =>
          envelope.presentation_ref \in {NoRef, terrain.presentation_id}

OnlyActiveIsLive(e, o) ==   \* faulty: a replayed "started" gets through
    o.status = "active" => o.observed_at <= e.expires_at

ObservationWithinEffectWindow(e, o) ==
    o.status \in LiveStatuses => o.observed_at <= e.expires_at
=============================================================================
