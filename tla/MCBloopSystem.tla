--------------------------- MODULE MCBloopSystem ---------------------------
(* Model-checking instance of BloopSystem: two stakers, fees and the       *)
(* fixed-point unit chosen so that fee cuts, truncated per-share           *)
(* increments and deferred operations all occur.                          *)
EXTENDS BloopSystem, TLC

(* Decimal ratios over 20: 0.05 = 1/20, 0.2 = 4/20, 0.3 = 6/20. *)
MCFeeDen          == 20
MCInitTreasuryFee == 4
MCTreasuryFeeLimit == 1
MCTotalFeeCap     == 6
MCFeeInputs       == {}
MCFeeInputsWide   == {2}
(* power carries one decimal digit: 5 / 3 = 1.6 per share, 0.1 lost. *)
MCPowerScale      == 10
MCAmounts         == {1, 2}
MCAmountsOne      == {1}
MCIncomeStep      == 5
MCMaxIncome       == 5
MCMaxIncomeTen    == 10
MCIncomeStepTen   == 10
MCLoopInit        == 2
MCLoopInitOne     == 1
MCWithdrawers     == {Converter}
(* stakers are interchangeable: every entry message ranges over all of them *)
MCSymmetry == Permutations(Users)
=============================================================================
