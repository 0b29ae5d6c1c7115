CONSTANTS
    Users = {u1}
    Converter = Converter
    Vault = Vault
    Admin = Admin
    BloopToken = BloopToken
    TreasuryWallet = TreasuryWallet
    SyneDist = SyneDist
    None = None
    FeeDen <- MCFeeDen
    PowerScale <- MCPowerScale
    Amounts <- MCAmountsOne
    IncomeStep <- MCIncomeStepTen
    MaxIncome <- MCMaxIncomeTen
    LoopInit <- MCLoopInitOne
    StakeHarvests = FALSE
    HarvestOnConvert = TRUE
    InitTreasuryFee <- MCInitTreasuryFee
    TreasuryFeeLimit <- MCTreasuryFeeLimit
    TotalFeeCap <- MCTotalFeeCap
    FeeInputs <- MCFeeInputsWide
    Withdrawers <- MCWithdrawers

SPECIFICATION Spec
INVARIANT Solvency
INVARIANT Backing
