\* Tally accounting of the gauge: votes, stake changes and option changes
\* between two epochs; ballots never name an option twice.
SPECIFICATION Spec
CONSTANTS
    Voters = {v1, v2}
    Owner = owner
    Stranger = stranger
    VotingPowers = powers
    Callers <- MCCallers
    None = None
    Options <- MCOptions
    InitOptions <- MCInitOptions
    Powers <- MCPowers
    WDen <- MCWDen
    PDen <- MCPDen
    Ballots <- MCBallots
    GaugeUpdates <- MCGaugeUpdatesBad
    Epoch <- MCEpoch
    PendingSize <- MCPendingSize
    FirstEpoch <- MCFirstEpoch
    MaxTime <- MCNoTime
    MaxEpochs <- MCNoEpochs
SYMMETRY MCSymmetry
INVARIANTS
    TypeOK
    TallyMatchesVotes
    IndexMatchesTally
    TotalCastIsSum
