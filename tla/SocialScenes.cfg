SPECIFICATION SceneSpec
CONSTANTS
    Users = {1, 2}
    Posts = {1, 2, 4}
    Talk = {1, 2}
    Sites = {4}
    CoreRoots = {3}
    ProposalIds = {1, 2}
    Author <- SceneAuthor
    Half <- SceneHalf
    VotingDays = 1
    ProposalGap = 1
    RetentionDays = 3
    MaxNow = 1
    MaxPin = 3
    Texts = 2
    Readers = {1}
    Hideable = {3}
    Restrictable = {1}
    Rollbacks = FALSE
    NoProposal = NoProposal
INVARIANTS
    SourcePinsTransferred
PROPERTIES
    AdoptedOnBase
    SweepSettles
