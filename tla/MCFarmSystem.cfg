CONSTANTS
    Users = {u1, u2}
    Farming = Farming
    Treasury = Treasury
    None = None
    FeeMult <- MCFeeMult
    InitFee <- MCInitFee
    FeeInputs <- MCFeeInputs
    WeightScale <- MCWeightScale
    Amounts <- MCAmounts
    LpInit <- MCLpInit
    IncomeStep <- MCIncomeStep
    MaxIncome <- MCMaxIncome
    OverflowChecks = TRUE

SPECIFICATION Spec
INVARIANT TypeOK
INVARIANT RewardSolvency
INVARIANT StakeConservation
INVARIANT OthersKeepTheirReward
INVARIANT ClaimPaysQueriedReward
PROPERTY FarmLedgerSpec
