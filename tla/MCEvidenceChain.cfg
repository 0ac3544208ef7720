SPECIFICATION Spec
CONSTANTS
    None = None
    ExecutionInputs <- MCExecutionInputs
    MechanismInputs <- MCMechanismInputs
    OutcomeInputs <- MCOutcomeInputs
    AssessmentInputs <- MCAssessmentInputs
    MaxExecutions = 2
    MaxOutcomes = 2
INVARIANT ExecutionsStayApart
INVARIANT AssessmentRestsOnItsChain
INVARIANT CollectableInAnyOrder
