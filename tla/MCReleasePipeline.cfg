SPECIFICATION Spec
CONSTANTS
    stable = stable
    rc = rc
    firstSrc = firstSrc
    editedSrc = editedSrc
    None = None
    Candidates = {stable, rc}
    StableCandidates = {stable}
    Surfaces = {firstSrc, editedSrc}
    VersionOf <- MCVersionOf
    KeyIds = {"release-owner"}
    Keys = {"owner key", "foreign key"}
    OwnerKeys = {"owner key"}
    InitialTrust <- MCInitialTrust
    TaggedCommits <- MCTaggedCommits
    MaxLines = 2
    MaxLateSteps = 1
    MaxCommits = 2
    MaxTags = 1
    MaxMoves = 1
    MaxGuards = 1
INVARIANT ReleasableIsOwnerSigned
INVARIANT ShippedWasOwnerSigned
