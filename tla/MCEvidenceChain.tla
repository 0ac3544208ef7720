---------------------------- MODULE MCEvidenceChain ----------------------------
(***************************************************************************)
(* Three executions: two of one decision, and one of another decision      *)
(* under the same trace whose producer mints the same execution id.  Their *)
(* producers number observations alike.                                    *)
(***************************************************************************)
EXTENDS EvidenceChain

Execution(decision, n) ==
    [trace_id |-> 1, decision_ref |-> decision, execution_ref |-> n, status |-> "applied",
     carries |-> {}]

MCExecutionInputs ==
    {Execution(1, 1), Execution(1, 2), Execution(2, 1),
     [Execution(1, 1) EXCEPT !.status = "failed"],
     [Execution(1, 1) EXCEPT !.carries = {"directive"}]}

Mechanism(decision, n, id, status) ==
    [observation_id |-> id, trace_id |-> 1, decision_ref |-> decision, execution_ref |-> n,
     status |-> status, carries |-> {}, facts |-> {}]

MCMechanismInputs ==
    {Mechanism(1, 1, 1, "observed"), Mechanism(1, 1, 1, "disputed"),
     Mechanism(1, 1, 2, "observed"), Mechanism(2, 1, 1, "observed"),
     Mechanism(1, 2, 1, "unverified"),
     [Mechanism(1, 1, 1, "observed") EXCEPT !.facts = {"tactical_claim"}]}

Outcome(decision, n, id, mechanism) ==
    [observation_id |-> id, trace_id |-> 1, decision_ref |-> decision, execution_ref |-> n,
     mechanism_observation_ref |-> mechanism, phase |-> "during", carries |-> {}, facts |-> {}]

MCOutcomeInputs ==
    {Outcome(1, 1, 1, None), Outcome(1, 1, 1, 2), Outcome(1, 1, 2, 1),
     Outcome(1, 2, 1, None), Outcome(2, 1, 1, 1),
     [Outcome(1, 1, 1, None) EXCEPT !.facts = {"directive"}],
     [Outcome(1, 1, 1, None) EXCEPT !.facts = {"tactical_claim"}]}

Assessment(decision, n, mechanism, refs) ==
    [assessment_id |-> 1, trace_id |-> 1, decision_ref |-> decision, execution_ref |-> n,
     mechanism_observation_ref |-> mechanism, outcome_observation_refs |-> refs,
     tactical_effect |-> "divert", assessment |-> "supported", carries |-> {}]

MCAssessmentInputs ==
    {Assessment(1, 1, 1, <<1>>), Assessment(1, 1, 1, <<2, 1>>), Assessment(1, 1, 2, <<1>>),
     Assessment(1, 2, 1, <<1>>), Assessment(2, 1, 1, <<1, 1>>), Assessment(1, 1, 1, <<>>)}
=============================================================================
