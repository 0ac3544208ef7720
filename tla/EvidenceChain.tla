----------------------------- MODULE EvidenceChain -----------------------------
(***************************************************************************)
(* A consumer that collects the evidence of what was executed.  Producers  *)
(* report on their own: outcomes may come before the mechanism they name,  *)
(* an assessment after either, a mechanism again with another status, and  *)
(* records of another execution with ids that happen to agree.  Each       *)
(* addition is judged with the whole chain it would join.                  *)
(***************************************************************************)
EXTENDS EvidenceRecords, FiniteSets

CONSTANTS ExecutionInputs,    \* ExecutionRefV0 mappings that may arrive
          MechanismInputs,    \* MechanismObservationV0 mappings
          OutcomeInputs,      \* OutcomeObservationV0 mappings
          AssessmentInputs,   \* TacticalEffectAssessmentRefV0 mappings
          MaxExecutions,      \* bound: chains kept at once
          MaxOutcomes         \* bound: outcomes in one chain

ASSUME NoneIsNoEvidence ==
    None \notin MechanismInputs \cup OutcomeInputs \cup AssessmentInputs

VARIABLE chains   \* by execution: the evidence collected of it

vars == <<chains>>

Executions == DOMAIN chains

Init == chains = [x \in {} |-> None]

OpenChain(x) ==
    /\ ExecutionOK(x)
    /\ x \notin Executions
    /\ Cardinality(Executions) < MaxExecutions
    /\ chains' = [y \in Executions \cup {x} |->
                     IF y = x THEN [mechanism |-> None, outcomes |-> {}, assessment |-> None]
                     ELSE chains[y]]

(* A later observation of the mechanism takes the place of an earlier one. *)
SetMechanism(x, m) ==
    LET chain == chains[x] IN
    /\ MechanismOK(m)
    /\ EvidenceChainConsistent(x, m, chain.outcomes, chain.assessment)
    /\ chains' = [chains EXCEPT ![x].mechanism = m]

AddOutcome(x, o) ==
    LET chain == chains[x] IN
    /\ OutcomeOK(o)
    /\ Cardinality(chain.outcomes \cup {o}) <= MaxOutcomes
    /\ EvidenceChainConsistent(x, chain.mechanism, chain.outcomes \cup {o}, chain.assessment)
    /\ chains' = [chains EXCEPT ![x].outcomes = @ \cup {o}]

SetAssessment(x, a) ==
    LET chain == chains[x] IN
    /\ AssessmentOK(a)
    /\ EvidenceChainConsistent(x, chain.mechanism, chain.outcomes, a)
    /\ chains' = [chains EXCEPT ![x].assessment = a]

Next ==
    \/ \E x \in ExecutionInputs : OpenChain(x)
    \/ \E x \in Executions :
          \/ \E m \in MechanismInputs : SetMechanism(x, m)
          \/ \E o \in OutcomeInputs : AddOutcome(x, o)
          \/ \E a \in AssessmentInputs : SetAssessment(x, a)

Spec == Init /\ [][Next]_vars

-----------------------------------------------------------------------------
Chains == [mechanism : {m \in MechanismInputs : MechanismOK(m)} \cup {None},
           outcomes : SUBSET {o \in OutcomeInputs : OutcomeOK(o)},
           assessment : {a \in AssessmentInputs : AssessmentOK(a)} \cup {None}]

(* Chains hang on executions that construct and hold records that construct:
   no fact in them claims a tactical effect, and nothing in them directs. *)
TypeOK ==
    /\ Executions \subseteq {x \in ExecutionInputs : ExecutionOK(x)}
    /\ chains \in [Executions -> Chains]

(* No record is evidence of two executions: not when they share a trace, not
   when they share a trace and a decision, and not by an assessment that was
   accepted before the evidence it rests on was complete. *)
ExecutionsStayApart ==
    \A x, y \in Executions : ExecutionKey(x) # ExecutionKey(y) =>
        /\ chains[x].outcomes \cap chains[y].outcomes = {}
        /\ chains[x].mechanism = chains[y].mechanism => chains[x].mechanism = None
        /\ chains[x].assessment = chains[y].assessment => chains[x].assessment = None

(* What an assessment rests on is in its chain whatever arrived or was
   replaced since: an outcome for every reference and, once a mechanism is
   there, that mechanism, and for every reference an outcome that names no
   other. *)
AssessmentRestsOnItsChain ==
    \A x \in Executions :
        LET c == chains[x]
            a == c.assessment
        IN  a # None =>
              /\ \A i \in DOMAIN a.outcome_observation_refs :
                    \E o \in c.outcomes :
                        /\ o.observation_id = a.outcome_observation_refs[i]
                        /\ o.execution_ref = x.execution_ref
                        /\ c.mechanism # None =>
                              o.mechanism_observation_ref
                                  \in {None, a.mechanism_observation_ref}
              /\ c.mechanism # None =>
                    c.mechanism.observation_id = a.mechanism_observation_ref

(* What a chain holds, mechanism or assessment replaced as they may have been,
   could have been collected in any order that has an assessment follow the
   outcomes it cites: nothing was accepted only because of what was there. *)
CollectableInAnyOrder ==
    \A x \in Executions :
        \A m \in {None, chains[x].mechanism},
           some \in SUBSET chains[x].outcomes,
           a \in {None, chains[x].assessment} :
              (a # None => Range(a.outcome_observation_refs) \subseteq ObservationIds(some)) =>
                  EvidenceChainConsistent(x, m, some, a)
=============================================================================
