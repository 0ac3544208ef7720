SPECIFICATION PublishingSpec
CONSTANTS
    rc = rc
    stable = stable
    candidateSrc = candidateSrc
    stableSrc = stableSrc
    editedSrc = editedSrc
    None = None
    Candidates = {rc, stable}
    StableCandidates = {stable}
    Surfaces = {candidateSrc, stableSrc, editedSrc}
    VersionOf <- MCVersionOf
    KeyIds = {"release-owner"}
    Keys = {"owner key"}
    OwnerKeys = {"owner key"}
    TaggedCommits <- MCTaggedCommits
    MaxTags = 1
    MaxMoves = 2
    MaxGuards = 2
INVARIANT PublishingTypeOK
INVARIANT QuietReleaseWasChecked
INVARIANT WrongMarkIsAnEdit
PROPERTY UncheckedIsWithdrawn
PROPERTY ImplementsSafePublishing
