SPECIFICATION Spec
CONSTANTS
    None = None
    Frames <- MCFrames
    Answers <- MCAnswers
    MaxAnswers = 2
    MaxClaims = 2
INVARIANT NoContradictionIsDropped
