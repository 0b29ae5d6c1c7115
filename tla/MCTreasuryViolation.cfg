CONSTANTS
    Users = {u1, u2}
    Converter = Converter
    Vault = Vault
    Admin = Admin
    BloopToken = BloopToken
    TreasuryWallet = TreasuryWallet
    SyneDist = SyneDist
    None = None
    FeeDen <- MCFeeDen
    PowerScale <- MCPowerScale
    Amounts <- MCAmounts
    IncomeStep <- MCIncomeStep
    MaxIncome <- MCMaxIncome
    LoopInit <- MCLoopInit
    StakeHarvests = TRUE
    HarvestOnConvert = FALSE
    InitTreasuryFee <- MCInitTreasuryFee
    TreasuryFeeLimit <- MCTreasuryFeeLimit
    TotalFeeCap <- MCTotalFeeCap
    FeeInputs <- MCFeeInputs
    Withdrawers <- MCWithdrawers

SPECIFICATION Spec
INVARIANT QueuedTreasuryWithdrawCompletes
SYMMETRY MCSymmetry
