SPECIFICATION RelaySpec
CONSTANTS
    Keys <- MCKeys
    Leaves <- MCLeaves
    Levels <- MCLevels
    Widths <- MCWidths
    MaxSteps = 3
INVARIANT RefusedExactlyWhenDue
INVARIANT PredicatesAgree
INVARIANT CanonicalIsRefusedEverywhere
PROPERTY NestingNeverLaunders
CHECK_DEADLOCK FALSE
