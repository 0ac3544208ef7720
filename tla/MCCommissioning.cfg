SPECIFICATION Spec
CONSTANTS
    None = None
    Unpinned = Unpinned
    HardwareStates <- MCHardwareStates
    Pinnings <- MCPinnings
    AssignmentIds = {"a1", "a2"}
    MaxInventories = 2
    MaxAssignments = 2
INVARIANT TypeOK
INVARIANT StillFittedStillBound
INVARIANT OnlyLookalikesBind
INVARIANT CommissionedMeansConfirmed
INVARIANT OneRolePerInterface
