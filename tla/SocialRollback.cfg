SPECIFICATION Spec
CONSTANTS
    Users = {1, 2}
    Posts = {1}
    Sites = {1}
    CoreRoots = {2}
    ProposalIds = {}
    Author <- MCAuthor
    Half <- MCHalf
    VotingDays = 1
    ProposalGap = 1
    RetentionDays = 3
    MaxNow = 0
    MaxPin = 3
    Hideable = {}
    Restrictable = {}
    Rollbacks = TRUE
    NoProposal = NoProposal
INVARIANTS
    SourcePinsTransferred
