-------------------------- MODULE EvidenceChainProofs --------------------------
(***************************************************************************)
(* What a consumer may conclude from the evidence it collects, for every   *)
(* set of records and every order of arrival.  The inductive invariant     *)
(* says that each chain would pass assert_evidence_chain_consistent as it  *)
(* stands: whatever is replaced is judged with all that depends on it.     *)
(***************************************************************************)
EXTENDS EvidenceChain, TLAPS

Consistent(x) ==
    EvidenceChainConsistent(x, chains[x].mechanism, chains[x].outcomes, chains[x].assessment)

IInv == TypeOK /\ \A x \in Executions : Consistent(x)

(* A step that replaces one chain by a consistent one keeps the invariant. *)
LEMMA OneChainAtATime ==
    ASSUME IInv, NEW x \in Executions, NEW c \in Chains,
           chains' = [chains EXCEPT ![x] = c],
           EvidenceChainConsistent(x, c.mechanism, c.outcomes, c.assessment)
    PROVE  IInv'
<1>1. DOMAIN chains' = Executions /\ Executions' = Executions
  BY DEF Executions, IInv, TypeOK
<1>2. \A y \in Executions : chains'[y] = IF y = x THEN c ELSE chains[y]
  BY DEF Executions, IInv, TypeOK
<1>3. TypeOK'
  BY <1>1, <1>2 DEF IInv, TypeOK, Executions
<1>4. ASSUME NEW y \in Executions PROVE Consistent(y)'
  <2>1. CASE y = x
    BY <1>2, <2>1 DEF Consistent
  <2>2. CASE y # x
    BY <1>2, <2>2 DEF IInv, Consistent
  <2>3. QED
    BY <2>1, <2>2
<1>5. QED
  BY <1>1, <1>3, <1>4 DEF IInv

LEMMA OpenChainPreserves ==
    ASSUME IInv, NEW x \in ExecutionInputs, OpenChain(x)
    PROVE  IInv'
<1> DEFINE c == [mechanism |-> None, outcomes |-> {}, assessment |-> None]
<1>1. chains' = [y \in Executions \cup {x} |-> IF y = x THEN c ELSE chains[y]]
      /\ x \notin Executions
  BY DEF OpenChain
<1>2. Executions' = Executions \cup {x} /\ c \in Chains
  BY <1>1 DEF Executions, Chains
<1>3. TypeOK'
  BY <1>1, <1>2 DEF IInv, TypeOK, OpenChain, Executions
<1>4. ASSUME NEW y \in Executions' PROVE Consistent(y)'
  <2>1. CASE y = x
    <3>1. chains'[y] = c
      BY <1>1, <2>1
    <3>2. c.mechanism = None /\ c.outcomes = {} /\ c.assessment = None
      OBVIOUS
    <3> HIDE DEF c
    <3>3. EvidenceChainConsistent(y, c.mechanism, c.outcomes, c.assessment)
      BY <3>2 DEF EvidenceChainConsistent, MechanismBinds
    <3>4. QED
      BY <3>1, <3>3 DEF Consistent
  <2>2. CASE y # x
    <3>1. y \in Executions /\ chains'[y] = chains[y]
      BY <1>1, <1>2, <2>2
    <3>2. QED
      BY <3>1 DEF IInv, Consistent
  <2>3. QED
    BY <2>1, <2>2
<1>5. QED
  BY <1>3, <1>4 DEF IInv

LEMMA SetMechanismPreserves ==
    ASSUME IInv, NEW x \in Executions, NEW m \in MechanismInputs, SetMechanism(x, m)
    PROVE  IInv'
<1> DEFINE c == [chains[x] EXCEPT !.mechanism = m]
<1>1. chains[x] \in Chains
  BY DEF IInv, TypeOK, Executions
<1>2. c \in Chains /\ c.mechanism = m /\ c.outcomes = chains[x].outcomes
      /\ c.assessment = chains[x].assessment
  BY <1>1 DEF Chains, SetMechanism
<1>3. chains' = [chains EXCEPT ![x] = c]
  BY DEF SetMechanism
<1>4. EvidenceChainConsistent(x, c.mechanism, c.outcomes, c.assessment)
  BY <1>2 DEF SetMechanism
<1> HIDE DEF c
<1>5. QED
  BY <1>2, <1>3, <1>4, OneChainAtATime

LEMMA AddOutcomePreserves ==
    ASSUME IInv, NEW x \in Executions, NEW o \in OutcomeInputs, AddOutcome(x, o)
    PROVE  IInv'
<1> DEFINE c == [chains[x] EXCEPT !.outcomes = @ \cup {o}]
<1>1. chains[x] \in Chains
  BY DEF IInv, TypeOK, Executions
<1>2. c \in Chains /\ c.mechanism = chains[x].mechanism
      /\ c.outcomes = chains[x].outcomes \cup {o} /\ c.assessment = chains[x].assessment
  BY <1>1 DEF Chains, AddOutcome
<1>3. chains' = [chains EXCEPT ![x] = c]
  BY DEF AddOutcome
<1>4. EvidenceChainConsistent(x, c.mechanism, c.outcomes, c.assessment)
  BY <1>2 DEF AddOutcome
<1> HIDE DEF c
<1>5. QED
  BY <1>2, <1>3, <1>4, OneChainAtATime

LEMMA SetAssessmentPreserves ==
    ASSUME IInv, NEW x \in Executions, NEW a \in AssessmentInputs, SetAssessment(x, a)
    PROVE  IInv'
<1> DEFINE c == [chains[x] EXCEPT !.assessment = a]
<1>1. chains[x] \in Chains
  BY DEF IInv, TypeOK, Executions
<1>2. c \in Chains /\ c.mechanism = chains[x].mechanism
      /\ c.outcomes = chains[x].outcomes /\ c.assessment = a
  BY <1>1 DEF Chains, SetAssessment
<1>3. chains' = [chains EXCEPT ![x] = c]
  BY DEF SetAssessment
<1>4. EvidenceChainConsistent(x, c.mechanism, c.outcomes, c.assessment)
  BY <1>2 DEF SetAssessment
<1> HIDE DEF c
<1>5. QED
  BY <1>2, <1>3, <1>4, OneChainAtATime

LEMMA Inductive == Spec => []IInv
<1>1. Init => IInv
  BY DEF Init, IInv, TypeOK, Executions
<1>2. IInv /\ [Next]_vars => IInv'
  <2> SUFFICES ASSUME IInv, [Next]_vars PROVE IInv'
    OBVIOUS
  <2>1. CASE \E x \in ExecutionInputs : OpenChain(x)
    BY <2>1, OpenChainPreserves
  <2>2. CASE \E x \in Executions, m \in MechanismInputs : SetMechanism(x, m)
    BY <2>2, SetMechanismPreserves
  <2>3. CASE \E x \in Executions, o \in OutcomeInputs : AddOutcome(x, o)
    BY <2>3, AddOutcomePreserves
  <2>4. CASE \E x \in Executions, a \in AssessmentInputs : SetAssessment(x, a)
    BY <2>4, SetAssessmentPreserves
  <2>5. CASE UNCHANGED vars
    BY <2>5 DEF vars, IInv, TypeOK, Consistent, Executions
  <2>6. QED
    BY <2>1, <2>2, <2>3, <2>4, <2>5 DEF Next
<1>3. QED
  BY <1>1, <1>2, PTL DEF Spec

-----------------------------------------------------------------------------
(* outcome_contracts constructors: a chain holds only what constructs, so no
   fact in it claims a tactical effect or directs anything. *)
THEOREM TypeCorrect == Spec => []TypeOK
<1>1. IInv => TypeOK
  BY DEF IInv
<1>2. QED
  BY <1>1, Inductive, PTL

(* assert_evidence_chain_consistent, called with each addition: no record
   becomes evidence of two executions, in whatever order it arrives. *)
THEOREM EvidenceStaysApart == Spec => []ExecutionsStayApart
<1>1. IInv => ExecutionsStayApart
  <2> SUFFICES ASSUME IInv, NEW x \in Executions, NEW y \in Executions,
                      ExecutionKey(x) # ExecutionKey(y)
               PROVE  /\ chains[x].outcomes \cap chains[y].outcomes = {}
                      /\ chains[x].mechanism = chains[y].mechanism => chains[x].mechanism = None
                      /\ chains[x].assessment = chains[y].assessment
                            => chains[x].assessment = None
    BY DEF ExecutionsStayApart
  <2>1. ASSUME NEW z \in Executions,
               NEW r \in chains[z].outcomes
                            \cup ({chains[z].mechanism, chains[z].assessment} \ {None})
        PROVE  ExecutionKey(r) = ExecutionKey(z)
    BY DEF IInv, Consistent, EvidenceChainConsistent
  <2>2. chains[x].outcomes \cap chains[y].outcomes = {}
    BY <2>1
  <2>3. chains[x].mechanism = chains[y].mechanism => chains[x].mechanism = None
    BY <2>1
  <2>4. chains[x].assessment = chains[y].assessment => chains[x].assessment = None
    BY <2>1
  <2>5. QED
    BY <2>2, <2>3, <2>4
<1>2. QED
  BY <1>1, Inductive, PTL

(* The same guard: nothing that arrives later, and no replacement of the
   mechanism, takes away what an accepted assessment rests on. *)
THEOREM AssessmentsAreGrounded == Spec => []AssessmentRestsOnItsChain
<1>1. IInv => AssessmentRestsOnItsChain
  <2> SUFFICES ASSUME IInv, NEW x \in Executions, chains[x].assessment # None
               PROVE  LET c == chains[x]
                          a == c.assessment
                      IN  /\ \A i \in DOMAIN a.outcome_observation_refs :
                                \E o \in c.outcomes :
                                    /\ o.observation_id = a.outcome_observation_refs[i]
                                    /\ o.execution_ref = x.execution_ref
                                    /\ c.mechanism # None =>
                                          o.mechanism_observation_ref
                                              \in {None, a.mechanism_observation_ref}
                          /\ c.mechanism # None =>
                                c.mechanism.observation_id = a.mechanism_observation_ref
    BY DEF AssessmentRestsOnItsChain
  <2> DEFINE c == chains[x]
             a == c.assessment
  <2>1. EvidenceChainConsistent(x, c.mechanism, c.outcomes, a)
    BY DEF IInv, Consistent
  <2> HIDE DEF c
  <2>2. c.mechanism # None => c.mechanism.observation_id = a.mechanism_observation_ref
    BY <2>1 DEF EvidenceChainConsistent, MechanismBinds, c
  <2>3. ASSUME NEW i \in DOMAIN a.outcome_observation_refs
        PROVE  \E o \in c.outcomes :
                  /\ o.observation_id = a.outcome_observation_refs[i]
                  /\ o.execution_ref = x.execution_ref
                  /\ c.mechanism # None =>
                        o.mechanism_observation_ref \in {None, a.mechanism_observation_ref}
    <3>1. PICK o \in c.outcomes : o.observation_id = a.outcome_observation_refs[i]
      BY <2>1 DEF EvidenceChainConsistent, ObservationIds, Range, c
    <3>2. o.execution_ref = x.execution_ref
      BY <2>1 DEF EvidenceChainConsistent, ExecutionKey
    <3>3. c.mechanism # None =>
             o.mechanism_observation_ref \in {None, c.mechanism.observation_id}
      BY <2>1 DEF EvidenceChainConsistent, MechanismBinds
    <3>4. QED
      BY <3>1, <3>2, <3>3, <2>2
  <2>4. QED
    BY <2>2, <2>3 DEF c
<1>2. QED
  BY <1>1, Inductive, PTL

(* The same guard, of fewer records: it compares what is supplied and asks for
   nothing but what an assessment cites, so that no order of arrival is better. *)
THEOREM AnyOrderWillDo == Spec => []CollectableInAnyOrder
<1>1. ASSUME IInv, NEW x \in Executions,
             NEW m \in {None, chains[x].mechanism}, NEW some \in SUBSET chains[x].outcomes,
             NEW a \in {None, chains[x].assessment},
             a # None => Range(a.outcome_observation_refs) \subseteq ObservationIds(some)
      PROVE  EvidenceChainConsistent(x, m, some, a)
  <2>1. EvidenceChainConsistent(x, chains[x].mechanism, chains[x].outcomes,
                                chains[x].assessment)
    BY <1>1 DEF IInv, Consistent
  <2>2. \A r \in some \cup ({m, a} \ {None}) : ExecutionKey(r) = ExecutionKey(x)
    BY <2>1 DEF EvidenceChainConsistent
  <2>3. MechanismBinds(m, some, a)
    BY <2>1 DEF EvidenceChainConsistent, MechanismBinds
  <2> QED
    BY <1>1, <2>2, <2>3 DEF EvidenceChainConsistent
<1>2. IInv => CollectableInAnyOrder
  BY <1>1 DEF CollectableInAnyOrder
<1> QED
  BY <1>2, Inductive, PTL
=============================================================================
