---------------------------- MODULE VaultLedger ----------------------------
(***************************************************************************)
(* The reward-accumulator ledger of the bLOOP vault                        *)
(* (src/contracts/bloop-vault/src/contract.rs, state.rs): the fixed-point  *)
(* arithmetic, the per-staker settlement and the fee split, as pure        *)
(* operators over the vault's stored state.                                *)
(*                                                                         *)
(* A vault state is a record                                               *)
(*   staked, power, pendTreasury, pendSyne     TOTAL_STAKED (TokenInfo)    *)
(*   stake[u], diff[u]                         STAKE[u] (StakingInfo)      *)
(*   action                                    REWARD_ACTION               *)
(* cosmwasm Decimal has 18 fractional digits; here `power` is an integer   *)
(* scaled by PowerScale, so truncation at the last digit is kept, only at  *)
(* a coarser digit. Fee ratios are integers over FeeDen.                   *)
(***************************************************************************)
EXTENDS Integers, Functions

CONSTANTS
    Users,        \* stakers (model values)
    Converter,    \* cfg.bloop_converter_and_staker: the instantiating converter
    None,         \* Option::None
    FeeDen,       \* a fee ratio f is the Decimal f / FeeDen
    PowerScale    \* the fixed-point unit of `power`

ASSUME FeeDen \in Nat \ {0} /\ PowerScale \in Nat \ {0}

(* RewardAction, the single pending-action slot (state.rs 45-65). *)
Slot(kind, addr, amount) == [kind |-> kind, addr |-> addr, amount |-> amount]
NoAction == Slot("NoAction", None, None)

(* Uint128::checked_sub(..).unwrap_or_default(): saturates at zero. *)
SatSub(a, b) == IF a >= b THEN a - b ELSE 0

(* Decimal::from_atomics(r, 0) * fee, to_uint_floor. *)
FeeCut(r, fee) == (r * fee) \div FeeDen

(* ---- mutants: plausible bugs in the definitions below ------------------ *)
(* add_stake that forgets to move the staker's snapshot to the current power *)
add_stake_keepdiff(v, a, n) ==
    [v EXCEPT !.stake[a] = @ + n, !.staked = @ + n]
(* the callback that forgets to empty the slot after dispatching            *)
ClearSlot_keep(v) == v
(* ------------------------------------------------------------------------ *)

(* Decimal::from_atomics(net, 0).checked_div(Decimal(staked)): truncated at *)
(* the last fractional digit.                                               *)
PowerIncrement(net, staked) == (net * PowerScale) \div staked

(* The reward owed to staker a: (power - power_diff) * stake, floored      *)
(* (the closure body shared by update_rewards, add_stake, remove_stake).   *)
Owed(v, a) == (SatSub(v.power, v.diff[a]) * v.stake[a]) \div PowerScale

(* mutant: the syne staking fee split off but not taken out of the net *)
update_total_rewards_nosyne(v, cfg, reward) ==
    LET t   == FeeCut(reward, cfg.treasuryFee)
        s   == FeeCut(reward, cfg.syneFee)
    IN  [v EXCEPT !.pendTreasury = @ + t,
                  !.pendSyne     = @ + s,
                  !.power        = IF v.staked > 0
                                   THEN @ + PowerIncrement(reward - t, v.staked)
                                   ELSE @]

(* update_total_rewards: split the fees off an income, add the rest per    *)
(* share to `power`; with nothing staked the net income is not credited.   *)
update_total_rewards(v, cfg, reward) ==
    LET t   == FeeCut(reward, cfg.treasuryFee)
        s   == FeeCut(reward, cfg.syneFee)
        net == reward - t - s
    IN  [v EXCEPT !.pendTreasury = @ + t,
                  !.pendSyne     = @ + s,
                  !.power        = IF v.staked > 0
                                   THEN @ + PowerIncrement(net, v.staked)
                                   ELSE @]

(* update_rewards: settle a (the caller pays Owed(v, a) out). *)
update_rewards(v, a) == [v EXCEPT !.diff[a] = v.power]

(* add_stake: settle a, then add n to its stake and to the total. *)
add_stake(v, a, n) ==
    [v EXCEPT !.stake[a] = @ + n, !.diff[a] = v.power, !.staked = @ + n]

(* remove_stake: settle a, then take n off (saturating, as the code does). *)
remove_stake(v, a, n) ==
    [v EXCEPT !.stake[a] = SatSub(@, n), !.diff[a] = v.power,
              !.staked = SatSub(@, n)]

(* update_treasury_amounts / update_syne_staking_amounts: the caller must  *)
(* be the converter, the amount defaults to the whole pending balance and  *)
(* may not exceed it.                                                       *)
WithdrawAmount(pending, amount) == IF amount = None THEN pending ELSE amount
(* mutant: the amount no longer compared with the pending balance *)
TreasuryAmountOK_nocap(v, sender, amount) == sender = Converter
TreasuryAmountOK(v, sender, amount) ==
    /\ sender = Converter
    /\ WithdrawAmount(v.pendTreasury, amount) <= v.pendTreasury
update_treasury_amounts(v, amount) ==
    [v EXCEPT !.pendTreasury = @ - WithdrawAmount(@, amount)]
SyneAmountOK(v, sender, amount) ==
    /\ sender = Converter
    /\ WithdrawAmount(v.pendSyne, amount) <= v.pendSyne
update_syne_staking_amounts(v, amount) ==
    [v EXCEPT !.pendSyne = @ - WithdrawAmount(@, amount)]

(* execute_distribute_rewards, lines 562-563: the slot is emptied. *)
ClearSlot(v) == [v EXCEPT !.action = NoAction]

=============================================================================
