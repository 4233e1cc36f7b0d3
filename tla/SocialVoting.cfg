SPECIFICATION Spec
CONSTANTS
    Users = {1, 2, 3}
    Posts = {1}
    Sites = {1}
    CoreRoots = {}
    ProposalIds = {1}
    Author <- MCAuthor
    Half <- MCHalf
    VotingDays = 2
    ProposalGap = 1
    RetentionDays = 2
    MaxNow = 3
    MaxPin = 3
    Hideable = {1}
    Restrictable = {}
    Rollbacks = FALSE
    NoProposal = NoProposal
INVARIANTS
    OneStance
    BallotBacked
    PurgedIsBare
PROPERTIES
    SupportedTextKept
    StanceIsPersonal
    EarlyIsUnanimous
    ProposalsSettle
