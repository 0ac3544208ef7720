----------------------------- MODULE MCEffectChain -----------------------------
(***************************************************************************)
(* Two incidents whose producers mint the same ids: a decided effect in    *)
(* each (under one untyped decision id), a shadow effect in each without   *)
(* any, and advice.  Reports of every kind for all of them.                *)
(***************************************************************************)
EXTENDS EffectChain

Trace(n) == Ref("untyped", n)

Decision == Ref("decision", 1)

Decided(trace) ==
    [effect_id |-> Ref("effect", 1), trace_id |-> Trace(trace), decision_ref |-> Decision,
     advisory_ref |-> NoRef, target_scope_ref |-> Ref("scope", 1),
     effect_class |-> "redirect_to_presented_terrain", created_at |-> 0, expires_at |-> 1,
     authority_class |-> "producer_decision_ref", carries |-> {}]

Shadow(n, trace) ==
    [Decided(trace) EXCEPT !.effect_id = Ref("effect", n), !.decision_ref = NoRef,
                           !.authority_class = "planned_shadow"]

Advice == [Shadow(2, 1) EXCEPT !.authority_class = "advisory_inference",
                               !.advisory_ref = Ref("advisory", 1)]

MCEffectInputs ==
    {Decided(1), Decided(2), Shadow(1, 1), Shadow(2, 1), Shadow(1, 2), Advice,
     [Advice EXCEPT !.decision_ref = Decision],
     [Decided(1) EXCEPT !.decision_ref = Ref("lifecycle", 1)],
     [Shadow(1, 1) EXCEPT !.decision_ref = Decision],
     [Decided(1) EXCEPT !.expires_at = 0]}

Report(trace, status, at) ==
    [observation_id |-> Ref("effect_observation", at), effect_ref |-> Ref("effect", 1),
     trace_id |-> Trace(trace), status |-> status, observed_at |-> at,
     execution_ref |-> NoRef, states_reason |-> status = "terminated",
     authority_class |-> IF status \in LiveStatuses THEN "active_materialized"
                         ELSE "observed_fact",
     carries |-> {}]

MCObservationInputs ==
    {Report(1, "started", 1), Report(1, "started", 2), Report(2, "active", 1),
     Report(1, "terminated", 2),
     [Report(1, "terminated", 2) EXCEPT !.authority_class = "active_materialized"]}

Envelope(trace, presentation) ==
    [envelope_id |-> Ref("envelope", 1), trace_id |-> Trace(trace), decision_ref |-> NoRef,
     effect_ref |-> NoRef, presentation_ref |-> presentation,
     observation_objective_ref |-> Ref("observation_objective", 1),
     hypothesis_refs |-> <<Ref("hypothesis", 1)>>, frame_ref |-> Ref("frame", 1),
     window_start |-> 0, window_end |-> 1, coverage_complete |-> FALSE,
     telemetry_gaps |-> {"http_access_log"}, authority_class |-> "observed_fact",
     carries |-> {}]

MCEnvelopeInputs ==
    {Envelope(1, Ref("presentation", 1)), Envelope(1, Ref("presentation", 2)), Envelope(2, NoRef),
     [Envelope(1, NoRef) EXCEPT !.frame_ref = NoRef],
     [Envelope(1, NoRef) EXCEPT !.authority_class = "active_materialized"]}

Terrain(n, decision, effect, trace) ==
    [presentation_id |-> Ref("presentation", n), lifecycle_state_ref |-> Ref("lifecycle", 1),
     activation_decision_ref |-> decision, source_effect_ref |-> effect, trace_id |-> trace,
     exposes |-> {[slot |-> "surface", ref |-> Ref("surface", 1)]},
     created_at |-> 0, expires_at |-> 2, authority_class |-> "active_materialized",
     carries |-> {}]

MCTerrainInputs ==
    {Terrain(1, Decision, NoRef, NoRef), Terrain(2, Decision, Ref("effect", 1), Trace(1)),
     Terrain(2, NoRef, Ref("effect", 1), Trace(1)), Terrain(1, NoRef, Ref("effect", 2), Trace(1)),
     Terrain(1, NoRef, NoRef, Trace(1)), Terrain(1, NoRef, Ref("effect", 1), NoRef)}
=============================================================================
