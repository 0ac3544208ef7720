---------------------------- MODULE EvidenceRecords ----------------------------
(***************************************************************************)
(* azazel_fabric.outcome_contracts: an execution, the mechanism that was   *)
(* observed, the outcomes that were observed, and the assessment that      *)
(* rests on them, four claims of growing strength that are kept apart; and *)
(* assert_evidence_chain_consistent, which relates them.  Ids are numbers; *)
(* "carries" is what the walks would find in a record and "facts" what     *)
(* they would find in its free-form maps: a "directive" stands for all     *)
(* that _walk refuses, "oversized" for a map past the canonical size.      *)
(***************************************************************************)
EXTENDS Naturals, Sequences, Functions

CONSTANT None   \* an optional record, or reference, that is absent

ExecutionStatuses == {"applied", "partial", "failed", "rejected", "unverified", "released"}

MechanismStatuses == {"observed", "not_observed", "unverified", "released", "stale", "disputed"}

Phases == {"before", "during", "after"}

Assessments == {"supported", "unsupported", "inconclusive"}

TacticalEffects == {"delay", "divert", "containment", "isolation", "observe", "restore"}

(* What the three guards refuse wherever it lies: assert_no_runtime_directives,
   assert_no_tactical_claim_fields, assert_bounded_fact_payload. *)
NoRuntimeDirectives(found) == "directive" \notin found

NoTacticalClaims(found) == "tactical_claim" \notin found

BoundedFacts(found) == "oversized" \notin found

FactMapOK(found) ==
    NoRuntimeDirectives(found) /\ BoundedFacts(found) /\ NoTacticalClaims(found)

(***************************************************************************)
(* The records.  Every constructor walks its whole dump; only mechanisms   *)
(* and outcomes have fact maps, which may not claim what only an           *)
(* assessment claims.                                                      *)
(***************************************************************************)
ExecutionOK(x) ==
    /\ x.status \in ExecutionStatuses
    /\ NoRuntimeDirectives(x.carries)

MechanismOK(m) ==
    /\ m.status \in MechanismStatuses
    /\ NoRuntimeDirectives(m.carries \cup m.facts)
    /\ FactMapOK(m.facts)

OutcomeOK(o) ==
    /\ o.phase \in Phases
    /\ NoRuntimeDirectives(o.carries \cup o.facts)
    /\ FactMapOK(o.facts)

AssessmentOK(a) ==
    /\ a.tactical_effect \in TacticalEffects
    /\ a.assessment \in Assessments
    /\ a.mechanism_observation_ref # None
    /\ a.outcome_observation_refs # <<>>
    /\ NoRuntimeDirectives(a.carries)

(***************************************************************************)
(* The chain guard.  Records are of one execution when all three ids agree *)
(* (the producers are not compared).  Without a mechanism there is nothing *)
(* to compare the mechanisms with that the others name.                    *)
(***************************************************************************)
ExecutionKey(r) == <<r.trace_id, r.decision_ref, r.execution_ref>>

ObservationIds(outcomes) == {o.observation_id : o \in outcomes}

TraceOnlyChain(x, m, outcomes, a) ==   \* faulty: belonging is judged by the trace alone
    /\ \A r \in outcomes \cup ({m, a} \ {None}) : r.trace_id = x.trace_id
    /\ a # None =>
          /\ m # None => a.mechanism_observation_ref = m.observation_id
          /\ Range(a.outcome_observation_refs) \subseteq ObservationIds(outcomes)

SomeOutcomeSupplied(x, m, outcomes, a) ==   \* faulty: one cited outcome is enough
    /\ \A r \in outcomes \cup ({m, a} \ {None}) : ExecutionKey(r) = ExecutionKey(x)
    /\ m # None => \A o \in outcomes : o.mechanism_observation_ref \in {None, m.observation_id}
    /\ a # None =>
          /\ m # None => a.mechanism_observation_ref = m.observation_id
          /\ Range(a.outcome_observation_refs) \cap ObservationIds(outcomes) # {}

MechanismFirst(m, outcomes, a) ==   \* faulty: an outcome has to wait for what it names
    /\ \A o \in outcomes :
          o.mechanism_observation_ref \in {None} \cup (IF m = None THEN {} ELSE {m.observation_id})
    /\ m # None /\ a # None => a.mechanism_observation_ref = m.observation_id

MechanismBinds(m, outcomes, a) ==
    m # None =>
        /\ \A o \in outcomes : o.mechanism_observation_ref \in {None, m.observation_id}
        /\ a # None => a.mechanism_observation_ref = m.observation_id

EvidenceChainConsistent(x, m, outcomes, a) ==
    /\ \A r \in outcomes \cup ({m, a} \ {None}) : ExecutionKey(r) = ExecutionKey(x)
    /\ MechanismBinds(m, outcomes, a)
    /\ a # None => Range(a.outcome_observation_refs) \subseteq ObservationIds(outcomes)
=============================================================================
