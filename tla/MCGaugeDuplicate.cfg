\* A list naming one option twice: the tally against the stored votes.
SPECIFICATION Spec
CONSTANTS
    Voters = {v1, v2}
    Owner = owner
    Stranger = stranger
    VotingPowers = powers
    Callers <- MCCallers
    None = None
    Options <- MCOptions
    InitOptions <- MCInitOptions
    Powers <- MCPowers
    WDen <- MCWDen
    PDen <- MCPDen
    Ballots <- MCBallotsDup
    GaugeUpdates <- MCGaugeUpdatesBad
    Epoch <- MCEpoch
    PendingSize <- MCPendingSize
    FirstEpoch <- MCFirstEpoch
    MaxTime <- MCNoTime
    MaxEpochs <- MCNoEpochs
SYMMETRY MCSymmetry
INVARIANT
    TallyMatchesVotes
