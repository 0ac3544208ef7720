CONSTANTS
    host = host
    domain = domain
    None <- MCNone
    RequestInputs <- MCRequestInputs
    ResponseInputs <- MCResponseInputs
    MaxHeld = 2
    MaxDone = 2
SPECIFICATION Spec
INVARIANTS
    ConclusionsRestOnTheQuestion
    SharedAnswersAgree
    OnlyValidIsPassedOn
PROPERTY ImplementsAskedOnly
