CONSTANTS
    Admin = Admin
    V1 = V1
    None = None
    Holders <- MCHolders
    Pools <- MCPools
    LoopPools <- MCLoopPools
    LoopClosed = FALSE
    LoopPeriod = 2
    LoopFirstExp = 2
    MinVoting = 1
    MaxVoting = 2
    InitConfig <- MCInitConfig
    ConfigUpdates <- MCConfigUpdates
    Powers <- MCPowers
    ProposeInputs <- MCProposeInputs
    VoteLists <- MCVoteLists
    OptionLists <- MCOptionLists
    MaxProposals = 1
    MaxTime = 4
    MaxRounds = 1
    MaxStakes = 1
    MaxVotes = 2
    MaxVersions = 3

SPECIFICATION Spec
INVARIANT TypeOK
INVARIANT ChoicesWithinTotal
INVARIANT ChoiceBackedByBallots
