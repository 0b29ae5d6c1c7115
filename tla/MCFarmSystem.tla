--------------------------- MODULE MCFarmSystem ----------------------------
(* Model-checking instance of FarmSystem: two stakers, a fee of 1/5 and   *)
(* one decimal digit of weight, so that fees, truncated weights and       *)
(* replies that see fresh and stale farm reward all occur.                *)
EXTENDS FarmSystem, TLC

(* fee_multiplier 5, treasury_fee 1: 20%, as instantiate's 200000/1000000 *)
MCFeeMult     == 5
MCInitFee     == 1
MCFeeInputs   == {2}
(* a fee above the multiplier: UpdateTreasuryFee does not validate it *)
MCFeeInputsBad == {6}
MCWeightScale == 10
MCAmounts     == {1, 2}
MCLpInit      == 2
MCIncomeStep  == 3
MCMaxIncome   == 3
MCMaxIncomeSix == 6
(* stakers are interchangeable: every entry message ranges over all of them *)
MCSymmetry == Permutations(Users)
=============================================================================
