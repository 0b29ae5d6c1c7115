---------------------------- MODULE BloopSystem ----------------------------
(***************************************************************************)
(* The bLOOP staking system: the bloop-vault contract, the                 *)
(* bloop-converter-and-staker contract, the bLOOP cw20 token and the LOOP  *)
(* protocol staking contract the converter stakes into, run under the      *)
(* CosmWasm execution model.                                               *)
(*                                                                         *)
(* A transaction starts with one message from an external account          *)
(* (Submit). Each step runs the handler of the message at the head of      *)
(* `msgs`; the messages the handler returns are executed next, before the  *)
(* rest of the queue (depth-first, in order). A handler that returns an    *)
(* error, or panics on an unwrap, aborts the whole transaction: every      *)
(* contract's state goes back to `snap`, taken when the transaction began. *)
(* Upstream income accrues only between transactions.                      *)
(***************************************************************************)
EXTENDS VaultLedger, Sequences, FiniteSets

CONSTANTS
    Admin,            \* the vault's admin
    Vault,            \* the bloop-vault contract
    BloopToken,       \* the bLOOP cw20 contract (info.sender of Receive hooks)
    TreasuryWallet,   \* the address UpdateConfig may set as treasury_wallet
    SyneDist,         \* ... as syne_staking_reward_distributor
    Withdrawers,      \* addresses UpdateConfig may set as treasury_withdrawer
    Amounts,          \* amounts users send, stake, unstake, withdraw
    IncomeStep,       \* upstream income accrued in one step
    MaxIncome,        \* bound on the total upstream income accrued
    LoopInit,         \* each user's initial LOOP balance
    StakeHarvests,    \* does the upstream Stake{} also restake pending rewards?
    HarvestOnConvert, \* the converter is bwynd-converter-and-staker, whose
                      \* Convert withdraws and restakes the income it mints
    InitTreasuryFee,  \* instantiate: treasury_fee = 0.2
    TreasuryFeeLimit, \* instantiate: treasury_fee_limit = 0.05
    TotalFeeCap,      \* instantiate: total_fee_cap = 0.3
    FeeInputs         \* fee values UpdateConfig may be called with

ASSUME StakeHarvests \in BOOLEAN /\ HarvestOnConvert \in BOOLEAN
ASSUME IncomeStep \in Nat \ {0} /\ MaxIncome \in Nat /\ LoopInit \in Nat

Holders == Users \cup {Vault, Converter, TreasuryWallet, SyneDist}

VARIABLES
    vault,    \* the vault's ledger (see VaultLedger) and its slot
    cfg,      \* the vault's CONFIG fields that change: fees, optional addresses
    bloop,    \* bLOOP cw20 balances
    up,       \* LOOP protocol staking, account of the converter: staked, reward
    loop,     \* users' LOOP balances
    msgs,     \* messages still to run in the current transaction
    snap,     \* contract state when the current transaction began
    lastTx,   \* the entry message kind of the last transaction and its outcome
    accrued   \* total upstream income accrued so far (bounded by MaxIncome)

state == <<vault, cfg, bloop, up, loop>>
vars  == <<vault, cfg, bloop, up, loop, msgs, snap, lastTx, accrued>>

Msg(kind, from, addr, amount, opt) ==
    [kind |-> kind, from |-> from, addr |-> addr, amount |-> amount, opt |-> opt]
BTransfer(from, to, n) == Msg("BTransfer", from, to, n, None)
(* a vault transfer of n to `to`, added to a response only when n > 0 *)
PayIf(to, n) == IF n > 0 THEN <<BTransfer(Vault, to, n)>> ELSE <<>>

-----------------------------------------------------------------------------
(* Transaction plumbing *)

(* The head message succeeded and returned `children`. *)
Continue(children) ==
    /\ msgs' = children \o Tail(msgs)
    /\ UNCHANGED <<snap, accrued>>

(* The head message failed: the transaction is rolled back. *)
Revert ==
    /\ vault' = snap[1] /\ cfg' = snap[2] /\ bloop' = snap[3]
    /\ up' = snap[4] /\ loop' = snap[5]
    /\ msgs' = <<>>
    /\ lastTx' = [lastTx EXCEPT !.ok = FALSE]
    /\ UNCHANGED <<snap, accrued>>

(* An external account sends message m. *)
Submit(m) ==
    /\ msgs = <<>>
    /\ msgs' = <<m>>
    /\ snap' = state
    /\ lastTx' = [kind |-> m.kind, ok |-> TRUE, deferred |-> FALSE]
    /\ UNCHANGED <<vault, cfg, bloop, up, loop, accrued>>

-----------------------------------------------------------------------------
(* The vault (src/contracts/bloop-vault/src/contract.rs) *)

(* query_loop_protocol_staking_rewards: user_reward + pending_reward of    *)
(* the converter's upstream account.                                       *)
Withdrawable == up.reward

(* The shared deferral branch of the five user operations: park the       *)
(* operation in the slot and ask the converter to harvest, or fail with    *)
(* InvalidAction if the slot is taken.                                     *)
Defer(slot) ==
    \/ /\ vault.action.kind = "NoAction"
       /\ vault' = [vault EXCEPT !.action = slot]
       /\ lastTx' = [lastTx EXCEPT !.deferred = TRUE]
       /\ Continue(<<Msg("ConvWithdrawRewards", Vault, None, None, None)>>)
       /\ UNCHANGED <<cfg, bloop, up, loop>>
    \/ /\ vault.action.kind # "NoAction"
       /\ Revert

(* mutant: execute_stake that never looks at the upstream income *)
execute_stake_nocheck(m) ==
    LET r == Owed(vault, m.from) IN
    /\ vault' = add_stake(vault, m.from, m.amount)
    /\ Continue(PayIf(m.from, r))
    /\ UNCHANGED <<cfg, bloop, up, loop, lastTx>>

(* Receive{Stake}: m.from is the cw20 sender, m.amount what it sent. *)
execute_stake(m) ==
    \/ /\ Withdrawable > 0
       /\ Defer(Slot("Stake", m.from, m.amount))
    \/ /\ Withdrawable = 0
       /\ LET r == Owed(vault, m.from) IN
          /\ vault' = add_stake(vault, m.from, m.amount)
          /\ Continue(PayIf(m.from, r))
          /\ UNCHANGED <<cfg, bloop, up, loop, lastTx>>

(* WithdrawRewards{address}: the transfer is added even when it is zero. *)
execute_withdraw_rewards(m) ==
    \/ /\ Withdrawable > 0
       /\ Defer(Slot("Reward", m.addr, None))
    \/ /\ Withdrawable = 0
       /\ vault' = update_rewards(vault, m.addr)
       /\ Continue(<<BTransfer(Vault, m.addr, Owed(vault, m.addr))>>)
       /\ UNCHANGED <<cfg, bloop, up, loop, lastTx>>

(* WithdrawTreasuryRewards{amount}: the caller must be treasury_withdrawer *)
(* (a None withdrawer panics on unwrap), and update_treasury_amounts       *)
(* requires it to be the converter too.                                    *)
execute_withdraw_treasury_rewards(m) ==
    LET amt == WithdrawAmount(vault.pendTreasury, m.amount) IN
    \/ /\ m.from # cfg.treasuryWithdrawer
       /\ Revert
    \/ /\ m.from = cfg.treasuryWithdrawer
       /\ Withdrawable > 0
       /\ Defer(Slot("TreasuryWithdraw", None, m.amount))
    \/ /\ m.from = cfg.treasuryWithdrawer
       /\ Withdrawable = 0
       /\ \/ ~TreasuryAmountOK(vault, m.from, m.amount)
          \/ amt = 0
          \/ cfg.treasuryWallet = None
       /\ Revert
    \/ /\ m.from = cfg.treasuryWithdrawer
       /\ Withdrawable = 0
       /\ TreasuryAmountOK(vault, m.from, m.amount)
       /\ amt > 0
       /\ cfg.treasuryWallet # None
       /\ vault' = update_treasury_amounts(vault, m.amount)
       /\ Continue(<<BTransfer(Vault, cfg.treasuryWallet, amt)>>)
       /\ UNCHANGED <<cfg, bloop, up, loop, lastTx>>

(* WithdrawSyneStakingRewards{amount}: no check at the entry point,        *)
(* update_syne_staking_amounts requires the converter.                      *)
execute_withdraw_syne_staking_rewards(m) ==
    LET amt == WithdrawAmount(vault.pendSyne, m.amount) IN
    \/ /\ Withdrawable > 0
       /\ Defer(Slot("SyneStakingRewardWithdraw", None, m.amount))
    \/ /\ Withdrawable = 0
       /\ \/ ~SyneAmountOK(vault, m.from, m.amount)
          \/ amt = 0
          \/ cfg.syneDist = None
       /\ Revert
    \/ /\ Withdrawable = 0
       /\ SyneAmountOK(vault, m.from, m.amount)
       /\ amt > 0
       /\ cfg.syneDist # None
       /\ vault' = update_syne_staking_amounts(vault, m.amount)
       /\ Continue(<<BTransfer(Vault, cfg.syneDist, amt)>>)
       /\ UNCHANGED <<cfg, bloop, up, loop, lastTx>>

(* ExecuteMsg::DistributeRewards{address}: settle and pay, no check. *)
execute_distribute_user_rewards(m) ==
    /\ vault' = update_rewards(vault, m.addr)
    /\ Continue(PayIf(m.addr, Owed(vault, m.addr)))
    /\ UNCHANGED <<cfg, bloop, up, loop, lastTx>>

(* mutant: the requested amount compared with nothing but zero *)
execute_unstake_nocap(m) ==
    \/ /\ m.amount = 0
       /\ Revert
    \/ /\ 0 < m.amount
       /\ Withdrawable > 0
       /\ Defer(Slot("Unstake", m.from, m.amount))
    \/ /\ 0 < m.amount
       /\ Withdrawable = 0
       /\ LET p == Owed(vault, m.from) IN
          /\ vault' = remove_stake(vault, m.from, m.amount)
          /\ Continue(<<BTransfer(Vault, m.from, m.amount)>> \o PayIf(m.from, p))
          /\ UNCHANGED <<cfg, bloop, up, loop, lastTx>>

(* Unstake{amount}: 0 < amount <= stake is checked when requested. *)
execute_unstake(m) ==
    \/ /\ \/ m.amount = 0
          \/ m.amount > vault.stake[m.from]
       /\ Revert
    \/ /\ 0 < m.amount /\ m.amount <= vault.stake[m.from]
       /\ Withdrawable > 0
       /\ Defer(Slot("Unstake", m.from, m.amount))
    \/ /\ 0 < m.amount /\ m.amount <= vault.stake[m.from]
       /\ Withdrawable = 0
       /\ LET p == Owed(vault, m.from) IN
          /\ vault' = remove_stake(vault, m.from, m.amount)
          /\ Continue(<<BTransfer(Vault, m.from, m.amount)>> \o PayIf(m.from, p))
          /\ UNCHANGED <<cfg, bloop, up, loop, lastTx>>

(* Receive{DistributeRewards{address}}: the income notification. Credit   *)
(* the income, let `address` (if any) replace the parked action, run that *)
(* action, empty the slot. info.sender here is the bLOOP token.           *)
execute_distribute_rewards(m) ==
    LET v1  == update_total_rewards(vault, cfg, m.amount)
        act == IF m.opt # None THEN Slot("Reward", m.opt, None) ELSE vault.action
        tAmt == WithdrawAmount(v1.pendTreasury, act.amount)
        sAmt == WithdrawAmount(v1.pendSyne, act.amount)
    IN
    \/ /\ act.kind = "NoAction"
       /\ vault' = ClearSlot(v1)
       /\ Continue(<<>>)
       /\ UNCHANGED <<cfg, bloop, up, loop, lastTx>>
    \/ /\ act.kind = "Reward"
       /\ vault' = ClearSlot(update_rewards(v1, act.addr))
       /\ Continue(PayIf(act.addr, Owed(v1, act.addr)))
       /\ UNCHANGED <<cfg, bloop, up, loop, lastTx>>
    \/ /\ act.kind = "Stake"
       /\ vault' = ClearSlot(add_stake(v1, act.addr, act.amount))
       /\ Continue(PayIf(act.addr, Owed(v1, act.addr)))
       /\ UNCHANGED <<cfg, bloop, up, loop, lastTx>>
    \/ /\ act.kind = "TreasuryWithdraw"
       /\ \/ ~TreasuryAmountOK(v1, BloopToken, act.amount)
          \/ cfg.treasuryWallet = None
       /\ Revert
    \/ /\ act.kind = "TreasuryWithdraw"
       /\ TreasuryAmountOK(v1, BloopToken, act.amount)
       /\ cfg.treasuryWallet # None
       /\ vault' = ClearSlot(update_treasury_amounts(v1, act.amount))
       /\ Continue(<<BTransfer(Vault, cfg.treasuryWallet, tAmt)>>)
       /\ UNCHANGED <<cfg, bloop, up, loop, lastTx>>
    \/ /\ act.kind = "SyneStakingRewardWithdraw"
       /\ \/ ~SyneAmountOK(v1, BloopToken, act.amount)
          \/ cfg.syneDist = None
       /\ Revert
    \/ /\ act.kind = "SyneStakingRewardWithdraw"
       /\ SyneAmountOK(v1, BloopToken, act.amount)
       /\ cfg.syneDist # None
       /\ vault' = ClearSlot(update_syne_staking_amounts(v1, act.amount))
       /\ Continue(<<BTransfer(Vault, cfg.syneDist, sAmt)>>)
       /\ UNCHANGED <<cfg, bloop, up, loop, lastTx>>
    \/ /\ act.kind = "Unstake"
       /\ vault' = ClearSlot(remove_stake(v1, act.addr, act.amount))
       /\ Continue(<<BTransfer(Vault, act.addr, act.amount)>>
                   \o PayIf(act.addr, Owed(v1, act.addr)))
       /\ UNCHANGED <<cfg, bloop, up, loop, lastTx>>

(* UpdateConfig by the admin: a transaction of one handler that returns no *)
(* messages, so it is one step; a rejected call changes nothing.           *)
execute_update_config(tFee, sFee, wallet, withdrawer, dist) ==
    LET newT == IF tFee = None THEN cfg.treasuryFee ELSE tFee
        newS == IF sFee = None THEN cfg.syneFee ELSE sFee
    IN
    /\ msgs = <<>>
    /\ tFee # None => tFee > TreasuryFeeLimit
    /\ newT + newS <= TotalFeeCap
    /\ \E x \in {tFee, sFee, wallet, withdrawer, dist} : x # None
    /\ cfg' = [treasuryFee        |-> newT,
               syneFee            |-> newS,
               treasuryWallet     |-> IF wallet = None THEN cfg.treasuryWallet ELSE wallet,
               treasuryWithdrawer |-> IF withdrawer = None THEN cfg.treasuryWithdrawer ELSE withdrawer,
               syneDist           |-> IF dist = None THEN cfg.syneDist ELSE dist]
    /\ UNCHANGED <<vault, bloop, up, loop, msgs, snap, lastTx, accrued>>

-----------------------------------------------------------------------------
(* The converter (src/contracts/bloop-converter-and-staker/src/contract.rs) *)

(* mutant: the bWYND converter's Convert without its WithdrawRewards and *)
(* Delegate of the income (the bLOOP converter's message list)            *)
ConvertMsgs_noharvest(from, a, w) ==
    <<Msg("UpStake", Converter, None, a, None), Msg("BMint", Converter, from, a, None)>>
    \o IF w > 0
       THEN <<Msg("BMint", Converter, Converter, w, None),
              Msg("BSendDistribute", Converter, None, w, from)>>
       ELSE <<Msg("VaultDistributeUser", Converter, from, None, None)>>

(* The messages of Convert for `a` tokens from `from` when the upstream   *)
(* income is w: stake the tokens upstream, mint the same bLOOP to the     *)
(* sender, and pass any income to the vault (minted, and with             *)
(* HarvestOnConvert first withdrawn and restaked) or else ask the vault   *)
(* to settle the sender.                                                   *)
ConvertMsgs(from, a, w) ==
    <<Msg("UpStake", Converter, None, a, None), Msg("BMint", Converter, from, a, None)>>
    \o IF w > 0
       THEN (IF HarvestOnConvert THEN <<Msg("UpRestake", Converter, None, None, None)>>
             ELSE <<>>)
            \o <<Msg("BMint", Converter, Converter, w, None),
                 Msg("BSendDistribute", Converter, None, w, from)>>
       ELSE <<Msg("VaultDistributeUser", Converter, from, None, None)>>

(* Receive{Convert} from the LOOP token: a zero amount fails. *)
execute_convert_token(m) ==
    \/ /\ m.amount = 0
       /\ Revert
    \/ /\ m.amount > 0
       /\ Continue(ConvertMsgs(m.from, m.amount, Withdrawable))
       /\ UNCHANGED <<vault, cfg, bloop, up, loop, lastTx>>

(* mutant: the harvest left out of the withdrawal *)
WithdrawRewardsMsgs_noharvest(w) ==
    <<Msg("BMint", Converter, Converter, w, None),
      Msg("BSendDistribute", Converter, None, w, None)>>

(* The messages of WithdrawRewards{}: restake (harvest) the income        *)
(* upstream, mint it as bLOOP and send it to the vault with               *)
(* DistributeRewards{address: None}.                                      *)
WithdrawRewardsMsgs(w) ==
    <<Msg("UpRestake", Converter, None, None, None),
      Msg("BMint", Converter, Converter, w, None),
      Msg("BSendDistribute", Converter, None, w, None)>>

(* WithdrawRewards{}: anyone may call it; fails when there is no income. *)
execute_withdraw_rewards_conv(m) ==
    \/ /\ Withdrawable = 0
       /\ Revert
    \/ /\ Withdrawable > 0
       /\ Continue(WithdrawRewardsMsgs(Withdrawable))
       /\ UNCHANGED <<vault, cfg, bloop, up, loop, lastTx>>

-----------------------------------------------------------------------------
(* The tokens and the upstream staking contract *)

(* bLOOP Transfer (cw20 execute_transfer): zero amounts and overdrafts fail. *)
execute_transfer(m) ==
    \/ /\ \/ m.amount = 0
          \/ bloop[m.from] < m.amount
       /\ Revert
    \/ /\ m.amount > 0 /\ bloop[m.from] >= m.amount
       /\ bloop' = [bloop EXCEPT ![m.from] = @ - m.amount, ![m.addr] = @ + m.amount]
       /\ Continue(<<>>)
       /\ UNCHANGED <<vault, cfg, up, loop, lastTx>>

(* bLOOP Send to the vault (cw20 execute_send): move the tokens, then the  *)
(* vault's Receive hook runs with the sender and the amount.               *)
execute_send(m) ==
    \/ /\ \/ m.amount = 0
          \/ bloop[m.from] < m.amount
       /\ Revert
    \/ /\ m.amount > 0 /\ bloop[m.from] >= m.amount
       /\ bloop' = [bloop EXCEPT ![m.from] = @ - m.amount, ![Vault] = @ + m.amount]
       /\ Continue(<<IF m.kind = "BSendStake"
                     THEN Msg("VaultStake", m.from, None, m.amount, None)
                     ELSE Msg("VaultDistribute", m.from, None, m.amount, m.opt)>>)
       /\ UNCHANGED <<vault, cfg, up, loop, lastTx>>

(* bLOOP Mint (cw20 execute_mint): only the converter is the minter, no cap. *)
execute_mint(m) ==
    \/ /\ m.amount = 0 \/ m.from # Converter
       /\ Revert
    \/ /\ m.amount > 0 /\ m.from = Converter
       /\ bloop' = [bloop EXCEPT ![m.addr] = @ + m.amount]
       /\ Continue(<<>>)
       /\ UNCHANGED <<vault, cfg, up, loop, lastTx>>

(* LOOP Send{Convert} from a user to the converter. *)
LoopSendConvert(m) ==
    \/ /\ m.amount = 0 \/ loop[m.from] < m.amount
       /\ Revert
    \/ /\ m.amount > 0 /\ loop[m.from] >= m.amount
       /\ loop' = [loop EXCEPT ![m.from] = @ - m.amount]
       /\ Continue(<<Msg("ConvConvert", m.from, None, m.amount, None)>>)
       /\ UNCHANGED <<vault, cfg, bloop, up, lastTx>>

(* The converter's LOOP Send{Stake} to the upstream staking contract. *)
UpStake(m) ==
    /\ up' = IF StakeHarvests
             THEN [staked |-> up.staked + m.amount + up.reward, reward |-> 0]
             ELSE [up EXCEPT !.staked = @ + m.amount]
    /\ Continue(<<>>)
    /\ UNCHANGED <<vault, cfg, bloop, loop, lastTx>>

(* Restake{}: the upstream turns the converter's income into stake. *)
UpRestake(m) ==
    /\ up' = [staked |-> up.staked + up.reward, reward |-> 0]
    /\ Continue(<<>>)
    /\ UNCHANGED <<vault, cfg, bloop, loop, lastTx>>

(* Income accrues upstream between transactions. *)
Accrue ==
    /\ msgs = <<>>
    /\ accrued + IncomeStep <= MaxIncome
    /\ up' = [up EXCEPT !.reward = @ + IncomeStep]
    /\ accrued' = accrued + IncomeStep
    /\ UNCHANGED <<vault, cfg, bloop, loop, msgs, snap, lastTx>>

-----------------------------------------------------------------------------
(* Handlers by message kind *)
Handler(m) ==
    CASE m.kind = "VaultStake"          -> execute_stake(m)
      [] m.kind = "VaultWithdrawRewards" -> execute_withdraw_rewards(m)
      [] m.kind = "VaultWithdrawTreasury" -> execute_withdraw_treasury_rewards(m)
      [] m.kind = "VaultWithdrawSyne"   -> execute_withdraw_syne_staking_rewards(m)
      [] m.kind = "VaultDistributeUser" -> execute_distribute_user_rewards(m)
      [] m.kind = "VaultUnstake"        -> execute_unstake(m)
      [] m.kind = "VaultDistribute"     -> execute_distribute_rewards(m)
      [] m.kind = "ConvConvert"         -> execute_convert_token(m)
      [] m.kind = "ConvWithdrawRewards" -> execute_withdraw_rewards_conv(m)
      [] m.kind = "BTransfer"           -> execute_transfer(m)
      [] m.kind \in {"BSendStake", "BSendDistribute"} -> execute_send(m)
      [] m.kind = "BMint"               -> execute_mint(m)
      [] m.kind = "LoopSendConvert"     -> LoopSendConvert(m)
      [] m.kind = "UpStake"             -> UpStake(m)
      [] m.kind = "UpRestake"           -> UpRestake(m)

(* What external accounts can send. The converter is a caller of the      *)
(* vault's withdraw entry points through its admin's ExecuteCosmosMsgs.   *)
EntryMsgs ==
       {Msg("LoopSendConvert", u, None, a, None) : u \in Users, a \in Amounts}
  \cup {Msg("BSendStake", u, None, a, None) : u \in Users, a \in Amounts}
  \cup {Msg("VaultUnstake", u, None, a, None) : u \in Users, a \in Amounts}
  \cup {Msg("VaultWithdrawRewards", u, u, None, None) : u \in Users}
  \cup {Msg("VaultDistributeUser", u, u, None, None) : u \in Users}
  \cup {Msg("ConvWithdrawRewards", u, None, None, None) : u \in Users}
  \cup {Msg(k, c, None, a, None) :
          k \in {"VaultWithdrawTreasury", "VaultWithdrawSyne"},
          c \in Users \cup {Converter}, a \in Amounts \cup {None}}

Init ==
    /\ vault = [staked |-> 0, power |-> 0, pendTreasury |-> 0, pendSyne |-> 0,
                stake |-> [u \in Users |-> 0], diff |-> [u \in Users |-> 0],
                action |-> NoAction]
    /\ cfg = [treasuryFee |-> InitTreasuryFee, syneFee |-> 0,
              treasuryWallet |-> None, treasuryWithdrawer |-> None, syneDist |-> None]
    /\ bloop = [h \in Holders |-> 0]
    /\ up = [staked |-> 0, reward |-> 0]
    /\ loop = [u \in Users |-> LoopInit]
    /\ msgs = <<>>
    /\ snap = <<vault, cfg, bloop, up, loop>>
    /\ lastTx = [kind |-> "none", ok |-> TRUE, deferred |-> FALSE]
    /\ accrued = 0

Next ==
    \/ \E m \in EntryMsgs : Submit(m)
    \/ msgs # <<>> /\ Handler(Head(msgs))
    \/ Accrue
    \/ \E t, s \in FeeInputs \cup {None}, w \in {None, TreasuryWallet},
          wd \in Withdrawers \cup {None}, d \in {None, SyneDist} :
          execute_update_config(t, s, w, wd, d)

Spec == Init /\ [][Next]_vars

-----------------------------------------------------------------------------
(* Properties *)

AtRest == msgs = <<>>

TypeOK ==
    /\ vault.staked \in Nat /\ vault.power \in Nat
    /\ vault.pendTreasury \in Nat /\ vault.pendSyne \in Nat
    /\ vault.stake \in [Users -> Nat] /\ vault.diff \in [Users -> Nat]
    /\ vault.action.kind \in {"NoAction", "Reward", "Stake", "TreasuryWithdraw",
                              "SyneStakingRewardWithdraw", "Unstake"}
    /\ bloop \in [Holders -> Nat] /\ loop \in [Users -> Nat]
    /\ up \in [staked : Nat, reward : Nat]
    /\ msgs \in Seq([kind : STRING, from : Holders \cup {None},
                     addr : Holders \cup {None}, amount : Nat \cup {None},
                     opt : Users \cup {None}])
    /\ accrued \in 0..MaxIncome

TotalOwed == SumFunction([u \in Users |-> Owed(vault, u)])

(* Solvency: between transactions the vault holds at least every staker's *)
(* stake, both pending fee balances and every staker's owed reward, so    *)
(* every unstake, claim and fee withdrawal the ledger allows can be paid. *)
(* It is about the rounding in update_total_rewards / the settlement and  *)
(* the snapshot moves of add_stake/remove_stake across deferred calls.    *)
Solvency ==
    AtRest => bloop[Vault] >= vault.staked + vault.pendTreasury
                              + vault.pendSyne + TotalOwed

(* The pending-action slot is empty whenever no transaction is running:   *)
(* every operation parked by a vault handler is resumed and cleared by    *)
(* the income callback of the same transaction.                           *)
SlotFreeAtRest == AtRest => vault.action = NoAction

(* No dilution: a step that changes the total stake, other than a         *)
(* rollback, happens only when the converter has no unharvested upstream  *)
(* income, so income earned before a stake change is credited to the     *)
(* stakes that earned it (the reason execute_stake/execute_unstake defer). *)
NoDilution ==
    [][vault'.staked # vault.staked /\ lastTx'.ok => Withdrawable = 0]_vars

(* Backing: between transactions every bLOOP in existence is backed by a  *)
(* LOOP staked upstream by the converter (bLOOP is minted 1:1 for LOOP    *)
(* converted and for income harvested by a restake).                      *)
Backing == AtRest => SumFunction(bloop) <= up.staked

(* A treasury withdrawal by the configured withdrawer that had to wait    *)
(* for the upstream income completes once the income lands (spec 4.4).    *)
QueuedTreasuryWithdrawCompletes ==
    (AtRest /\ lastTx.kind = "VaultWithdrawTreasury" /\ lastTx.deferred)
        => lastTx.ok

(* The stakers' view of the system, refinement mapping for StakeLedger:  *)
(* between transactions the current ledger and balances; while one runs,  *)
(* those of `snap`, so a whole transaction is one step of StakeLedger.    *)
Viewed == IF AtRest THEN <<vault, bloop, loop>> ELSE <<snap[1], snap[3], snap[5]>>

Ledger == INSTANCE StakeLedger WITH
              WalletInit <- 0,
              stake  <- Viewed[1].stake,
              staked <- Viewed[1].staked,
              wallet <- [u \in Users |-> Viewed[2][u]],
              lp     <- Viewed[3]

(* Refinement: every committed transaction, whatever chain of vault,      *)
(* converter, token and upstream handlers it runs and whether or not the  *)
(* vault defers it through the pending-action slot, is one atomic         *)
(* StakeLedger operation of a single staker: Convert, Stake, Unstake      *)
(* (0 < amount <= stake), ClaimReward, or nothing a staker can see; the   *)
(* total stake moves with the stake entries, and no staker's bLOOP moves  *)
(* for another staker's operation.                                        *)
LedgerSpec == Ledger!Spec

=============================================================================
