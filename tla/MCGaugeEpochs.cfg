\* Epochs of the gauge: voting, the pending window, Execute, the WYND gauge
\* moving its own epoch, and the selection parameters the owner updates.
SPECIFICATION Spec
CONSTANTS
    Voters = {v1, v2}
    Owner = owner
    Stranger = stranger
    VotingPowers = powers
    Callers <- MCOwnerOnly
    None = None
    Options <- MCInitOptions
    InitOptions <- MCInitOptions
    Powers <- MCPowersFixed
    WDen <- MCWDen
    PDen <- MCPDen
    Ballots <- MCBallotsEpoch
    GaugeUpdates <- MCGaugeUpdateOne
    Epoch <- MCEpoch
    PendingSize <- MCPendingSize
    FirstEpoch <- MCFirstEpoch
    MaxTime <- MCMaxTime
    MaxEpochs <- MCMaxEpochs
SYMMETRY MCSymmetry
PROPERTY
    ExecuteForwardsTop
