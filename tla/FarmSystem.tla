---------------------------- MODULE FarmSystem ----------------------------
(***************************************************************************)
(* The loopswap_farming contract (src/contracts/loopswap_farming) for one  *)
(* registered pool and one reward token, with the LOOP farm it stakes the  *)
(* pool's LP tokens into, under the CosmWasm execution model.              *)
(*                                                                         *)
(* Every user action is a chain of sub-messages with replies: the entry    *)
(* handler stores USER_ACTION and calls the farm's DistributeByLimit; its  *)
(* reply dispatches on USER_ACTION to handle_stake / handle_claim /        *)
(* handle_unstake_and_claim, which query the farm's pending reward, store *)
(* it in CURRENT_*_INFO and call the farm; the reply to that call does    *)
(* the reward bookkeeping. A SubMsg with ReplyOn::Success is modelled as  *)
(* the call followed by a Reply message: the call's own messages run      *)
(* first, and a failure anywhere reverts the whole transaction.           *)
(***************************************************************************)
EXTENDS Integers, Sequences, FiniteSets, Functions

CONSTANTS
    Users,          \* stakers (model values)
    Farming,        \* the loopswap_farming contract
    Treasury,       \* config.treasury_addr
    None,           \* Option::None / an absent map entry
    Amounts,        \* LP amounts users stake and unstake
    LpInit,         \* each user's initial LP balance
    IncomeStep,     \* farm reward accrued to the contract in one step
    MaxIncome,      \* bound on the total reward accrued
    WeightScale,    \* the fixed-point unit of Decimal reward weights
    FeeMult,        \* config.fee_multiplier
    InitFee,        \* instantiate: treasury_fee
    FeeInputs,      \* values UpdateTreasuryFee may be called with
    OverflowChecks  \* is the wasm built with overflow-checks (u64 underflow panics)?

ASSUME WeightScale \in Nat \ {0} /\ FeeMult \in Nat \ {0} /\ OverflowChecks \in BOOLEAN

VARIABLES
    cfg,      \* CONFIG (treasury_addr, treasury_fee) and whether the pool is in STAKEABLE_INFOS
    action,   \* USER_ACTION
    cur,      \* CURRENT_STAKE_INFO, CURRENT_UNSTAKE_INFO, CURRENT_CLAIM_REWARD_INFO
    led,      \* the reward ledger of the pool (see below)
    lp,       \* LP token balances
    rwd,      \* reward token balances
    farm,     \* the LOOP farm's account of the contract: LP staked, FLP held, pending reward
    msgs,     \* messages still to run in the current transaction
    pre,      \* contract state when the current transaction began
    lastTx,   \* the entry message of the last transaction and its outcome
    accrued   \* total reward accrued by the farm so far

(* led: total = TOTAL_STAKED, staked[u] = USER_STAKED_AMOUNT,              *)
(* weight = TOTAL_REWARDS_WEIGHT, totalRewards = TOTAL_REWARDS,            *)
(* snap = PENDING_REWARDS (None when removed), info[u] = USER_REWARD_INFO_ *)
(* MAP (None or [w, p]), treasury = TREASURY_REWARDS.                      *)
state == <<cfg, action, cur, led, lp, rwd, farm>>
vars  == <<cfg, action, cur, led, lp, rwd, farm, msgs, pre, lastTx, accrued>>

Msg(kind, from, to, amount) ==
    [kind |-> kind, from |-> from, to |-> to, amount |-> amount]
Reply(id) == Msg(id, Farming, Farming, None)

-----------------------------------------------------------------------------
(* Transaction plumbing *)

Continue(children) ==
    /\ msgs' = children \o Tail(msgs)
    /\ UNCHANGED <<pre, lastTx, accrued>>

Revert ==
    /\ cfg' = pre[1] /\ action' = pre[2] /\ cur' = pre[3] /\ led' = pre[4]
    /\ lp' = pre[5] /\ rwd' = pre[6] /\ farm' = pre[7]
    /\ msgs' = <<>>
    /\ lastTx' = [lastTx EXCEPT !.ok = FALSE]
    /\ UNCHANGED <<pre, accrued>>

Submit(m) ==
    /\ msgs = <<>>
    /\ msgs' = <<m>>
    /\ pre' = state
    /\ lastTx' = [msg |-> m, ok |-> TRUE]
    /\ UNCHANGED <<cfg, action, cur, led, lp, rwd, farm, accrued>>

-----------------------------------------------------------------------------
(* Reward arithmetic *)

(* Decimal::from_ratio(n, d): truncated at the last fractional digit. *)
Ratio(n, d) == (n * WeightScale) \div d

(* The reward that reached the farm since the last snapshot (the loop     *)
(* over PENDING_REWARDS subtracting the stored amount).                    *)
Delta(l, pending) == IF l.snap = None THEN pending ELSE pending - l.snap

(* The Uint128 `current_pending_reward -= reward.1` of the replies does  *)
(* not underflow; the claim reply further needs the difference positive. *)
NoUnderflow(pending) == IF led.snap = None THEN TRUE ELSE pending >= led.snap
FreshReward(pending) == IF led.snap = None THEN TRUE ELSE pending > led.snap

(* get_user_reward_info_from_map_storage: a missing entry starts at the    *)
(* current weight with nothing pending.                                     *)
UserInfo(l, u, w) == IF l.info[u] = None THEN [w |-> w, p |-> 0] ELSE l.info[u]

(* pending_reward + (weight - pool_reward_weight) * user_staked, floored. *)
Earned(l, u, w) ==
    LET i == UserInfo(l, u, w)
    IN  i.p + ((IF w >= i.w THEN w - i.w ELSE 0) * l.staked[u]) \div WeightScale

(* pending_reward.multiply_ratio(fee_multiplier - treasury_fee, fee_multiplier) *)
UserShare(pend) == (pend * (FeeMult - cfg.treasuryFee)) \div FeeMult

(* The u64 subtraction fee_multiplier - treasury_fee: with overflow checks *)
(* it panics whenever the fee exceeds the multiplier; without them it      *)
(* wraps and any positive reward becomes an unpayable transfer.            *)
FeeFails(pend) ==
    /\ cfg.treasuryFee > FeeMult
    /\ OverflowChecks \/ pend > 0

RTransfer(from, to, n) == Msg("RTransfer", from, to, n)
LTransfer(from, to, n) == Msg("LTransfer", from, to, n)
Up(kind, n) == Msg(kind, Farming, None, n)
PayReward(u, n) == IF n > 0 THEN <<RTransfer(Farming, u, n)>> ELSE <<>>

(* Mutant: PENDING_REWARDS is not removed after the farm paid it out. *)
Settle_keepsnap(l, u, w, d, pend) ==
    [l EXCEPT !.weight = w, !.totalRewards = @ + d,
              !.treasury = @ + (pend - UserShare(pend)),
              !.info[u] = [w |-> w, p |-> 0]]

(* Mutant: the fee is computed as user_pending_reward - pending_reward. *)
Settle_feeswapped(l, u, w, d, pend) ==
    [l EXCEPT !.weight = w, !.totalRewards = @ + d,
              !.treasury = @ + (UserShare(pend) - pend),
              !.info[u] = [w |-> w, p |-> 0], !.snap = None]

(* The bookkeeping the unstake and claim replies share: the weight moves  *)
(* to w, the reward d since the snapshot is added to TOTAL_REWARDS, the   *)
(* treasury keeps the fee of the staker's reward pend, the staker is      *)
(* settled at w and PENDING_REWARDS is removed.                           *)
Settle(l, u, w, d, pend) ==
    [l EXCEPT !.weight = w, !.totalRewards = @ + d,
              !.treasury = @ + (pend - UserShare(pend)),
              !.info[u] = [w |-> w, p |-> 0], !.snap = None]

-----------------------------------------------------------------------------
(* Entry points (contract.rs execute / receive_cw20) *)

(* The three user entries store USER_ACTION and call DistributeByLimit on *)
(* the farm as a SubMsg with reply id EXECUTE_DISTRIBUTE_BY_LIMIT.         *)
StartAction(kind, u, amount) ==
    /\ action' = [kind |-> kind, account |-> u, amount |-> amount]
    /\ Continue(<<Up("UpDistribute", None), Reply("Reply4")>>)
    /\ UNCHANGED <<cfg, cur, led, lp, rwd, farm>>

(* Receive{Stake} from the pool's LP token: only a registered pool. *)
execute_stake(m) ==
    \/ /\ ~cfg.registered
       /\ Revert
    \/ /\ cfg.registered
       /\ StartAction("Stake", m.from, m.amount)

execute_unstake_and_claim(m) ==
    \/ /\ ~cfg.registered
       /\ Revert
    \/ /\ cfg.registered
       /\ StartAction("Unstake", m.from, m.amount)

(* ClaimReward: no check that the pool is registered. *)
execute_claim_reward(m) == StartAction("Claim", m.from, None)

(* DistributeByLimit{start_after: None}: forwarded to the farm. *)
execute_distribute_by_limit(m) ==
    /\ Continue(<<Up("UpDistribute", None)>>)
    /\ UNCHANGED <<cfg, action, cur, led, lp, rwd, farm>>

(* WithdrawTreasuryReward{amount}: the caller must be treasury_addr and  *)
(* the amount must EXCEED the stored fee balance t, and then t - amount   *)
(* is unwrapped, which panics: no call passes all three, so the handler   *)
(* reverts whatever it is given and the transfer after it is dead code.   *)
execute_withdraw_treasury_reward(m) ==
    /\ \/ m.from # cfg.treasuryAddr
       \/ ~(m.amount > led.treasury)
       \/ led.treasury < m.amount
    /\ Revert

-----------------------------------------------------------------------------
(* Replies (contract.rs reply) *)

(* handle_unstake_and_claim: a zero amount is refused; the pending reward *)
(* is queried and stored in CURRENT_UNSTAKE_INFO, and ALL of TOTAL_STAKED  *)
(* worth of FLP is sent to the farm with UnstakeAndClaim.                  *)
handle_unstake_and_claim(a) ==
    \/ /\ a.amount = 0
       /\ Revert
    \/ /\ a.amount > 0
       /\ cur' = [cur EXCEPT !.unstake = [account |-> a.account, amount |-> a.amount,
                                          pending |-> farm.pending]]
       /\ Continue(<<Up("UpUnstakeAndClaim", led.total), Reply("Reply2")>>)
       /\ UNCHANGED <<cfg, action, led, lp, rwd, farm>>

(* Mutant: the pending reward is read after the farm's ClaimReward has   *)
(* already paid it out, so the stored amount is 0.                        *)
handle_claim_after(a) ==
    /\ cur' = [cur EXCEPT !.claim = [account |-> a.account, pending |-> 0]]
    /\ Continue(<<Up("UpClaim", None), Reply("Reply3")>>)
    /\ UNCHANGED <<cfg, action, led, lp, rwd, farm>>

(* handle_claim: store the queried pending reward, call ClaimReward. *)
handle_claim(a) ==
    /\ cur' = [cur EXCEPT !.claim = [account |-> a.account, pending |-> farm.pending]]
    /\ Continue(<<Up("UpClaim", None), Reply("Reply3")>>)
    /\ UNCHANGED <<cfg, action, led, lp, rwd, farm>>

(* handle_stake: store the queried pending reward, send the LP to the farm. *)
handle_stake(a) ==
    /\ cur' = [cur EXCEPT !.stake = [account |-> a.account, amount |-> a.amount,
                                     pending |-> farm.pending]]
    /\ Continue(<<Up("UpStake", a.amount), Reply("Reply1")>>)
    /\ UNCHANGED <<cfg, action, led, lp, rwd, farm>>

(* handle_distribute_by_limit_reply: dispatch on the stored USER_ACTION. *)
handle_distribute_by_limit_reply(m) ==
    CASE action.kind = "Unstake" -> handle_unstake_and_claim(action)
      [] action.kind = "Claim"   -> handle_claim(action)
      [] action.kind = "Stake"   -> handle_stake(action)

(* Mutant: the weight is overwritten by the increment. *)
NewWeight_assign(l, d) == Ratio(d, l.total)

(* The new TOTAL_REWARDS_WEIGHT when reward d arrived over l.total staked. *)
NewWeight(l, d) == l.weight + Ratio(d, l.total)

(* Mutant: USER_STAKED_AMOUNT is saved but TOTAL_STAKED is not. *)
AddStake_useronly(l, u, n) == [l EXCEPT !.staked[u] = @ + n]

(* user_staked += share; USER_STAKED_AMOUNT and TOTAL_STAKED saved. *)
AddStake(l, u, n) == [l EXCEPT !.staked[u] = @ + n, !.total = @ + n]

(* handle_stake_reply: credit the reward that arrived since the snapshot  *)
(* (not per share when nothing was staked), settle the staker, add the    *)
(* stake, and store the queried pending reward as the new snapshot.       *)
handle_stake_reply(m) ==
    LET c == cur.stake
        u == c.account
        d == Delta(led, c.pending)
        w == IF led.total = 0 THEN led.weight ELSE NewWeight(led, d)
    IN
    \/ /\ ~NoUnderflow(c.pending)
       /\ Revert
    \/ /\ NoUnderflow(c.pending)
       /\ led' = AddStake([led EXCEPT
                    !.weight = w,
                    !.totalRewards = @ + d,
                    !.info[u] = IF led.total = 0 THEN UserInfo(led, u, w)
                                ELSE [w |-> w, p |-> Earned(led, u, w)],
                    !.snap = c.pending], u, c.amount)
       /\ Continue(<<>>)
       /\ UNCHANGED <<cfg, action, cur, lp, rwd, farm>>

(* Mutant: the reply no longer compares the amount with the stake. *)
handle_unstake_and_claim_reply_nocheck(m) ==
    LET c    == cur.unstake
        u    == c.account
        w    == NewWeight(led, Delta(led, c.pending))
        pend == Earned(led, u, w)
        rest == led.total - c.amount
    IN
    \/ /\ \/ ~NoUnderflow(c.pending)
          \/ FeeFails(pend)
       /\ Revert
    \/ /\ NoUnderflow(c.pending)
       /\ ~FeeFails(pend)
       /\ led' = [Settle(led, u, w, Delta(led, c.pending), pend)
                    EXCEPT !.staked[u] = @ - c.amount, !.total = rest]
       /\ Continue(<<LTransfer(Farming, u, c.amount)>>
                   \o PayReward(u, UserShare(pend))
                   \o IF rest > 0 THEN <<Up("UpStake", rest)>> ELSE <<>>)
       /\ UNCHANGED <<cfg, action, cur, lp, rwd, farm>>

(* handle_unstake_and_claim_reply: the farm has returned every LP token   *)
(* and paid the pending reward; pay the user `amount` LP and its reward   *)
(* net of the treasury fee, restake the rest. The user must keep strictly *)
(* more than `amount` staked.                                             *)
handle_unstake_and_claim_reply(m) ==
    LET c    == cur.unstake
        u    == c.account
        w    == NewWeight(led, Delta(led, c.pending))
        pend == Earned(led, u, w)
        rest == led.total - c.amount
    IN
    \/ /\ \/ ~(led.staked[u] > c.amount)
          \/ ~NoUnderflow(c.pending)
          \/ FeeFails(pend)
       /\ Revert
    \/ /\ led.staked[u] > c.amount
       /\ NoUnderflow(c.pending)
       /\ ~FeeFails(pend)
       /\ led' = [Settle(led, u, w, Delta(led, c.pending), pend)
                    EXCEPT !.staked[u] = @ - c.amount, !.total = rest]
       /\ Continue(<<LTransfer(Farming, u, c.amount)>>
                   \o PayReward(u, UserShare(pend))
                   \o IF rest > 0 THEN <<Up("UpStake", rest)>> ELSE <<>>)
       /\ UNCHANGED <<cfg, action, cur, lp, rwd, farm>>

(* handle_claim_reward_reply: like the unstake reply without the stake    *)
(* change; the reward since the snapshot must be strictly positive, and   *)
(* Decimal::from_ratio panics when nothing is staked.                     *)
handle_claim_reward_reply(m) ==
    LET c    == cur.claim
        u    == c.account
        d    == Delta(led, c.pending)
        w    == NewWeight(led, d)
        pend == Earned(led, u, w)
    IN
    \/ /\ \/ ~FreshReward(c.pending)
          \/ led.total = 0
          \/ FeeFails(pend)
       /\ Revert
    \/ /\ FreshReward(c.pending)
       /\ led.total > 0
       /\ ~FeeFails(pend)
       /\ led' = Settle(led, u, w, d, pend)
       /\ Continue(PayReward(u, UserShare(pend)))
       /\ UNCHANGED <<cfg, action, cur, lp, rwd, farm>>

-----------------------------------------------------------------------------
(* The LOOP farm and the tokens (environment; not in the repository) *)

(* DistributeByLimit moves rewards inside the farm; nothing the contract   *)
(* observes changes.                                                        *)
UpDistribute(m) ==
    /\ Continue(<<>>)
    /\ UNCHANGED <<cfg, action, cur, led, lp, rwd, farm>>

(* LP Send{Stake} from the contract to the farm (handle_stake and the     *)
(* restake of the unstake reply): cw20 rejects a zero amount and an        *)
(* overdraft; the farm mints as much FLP and does not pay pending reward.  *)
UpStake(m) ==
    \/ /\ m.amount = 0 \/ lp[Farming] < m.amount
       /\ Revert
    \/ /\ 0 < m.amount /\ m.amount <= lp[Farming]
       /\ lp' = [lp EXCEPT ![Farming] = @ - m.amount]
       /\ farm' = [farm EXCEPT !.staked = @ + m.amount, !.flp = @ + m.amount]
       /\ Continue(<<>>)
       /\ UNCHANGED <<cfg, action, cur, led, rwd>>

(* FLP Send{UnstakeAndClaim} of all of TOTAL_STAKED: the farm burns the   *)
(* FLP, returns the LP and pays the contract its pending reward.           *)
UpUnstakeAndClaim(m) ==
    \/ /\ m.amount = 0 \/ farm.flp < m.amount
       /\ Revert
    \/ /\ 0 < m.amount /\ m.amount <= farm.flp
       /\ farm' = [staked |-> farm.staked - m.amount, flp |-> farm.flp - m.amount,
                   pending |-> 0]
       /\ lp' = [lp EXCEPT ![Farming] = @ + m.amount]
       /\ rwd' = [rwd EXCEPT ![Farming] = @ + farm.pending]
       /\ Continue(<<>>)
       /\ UNCHANGED <<cfg, action, cur, led>>

(* ClaimReward{pool_address}: the farm pays the pending reward. *)
UpClaim(m) ==
    /\ rwd' = [rwd EXCEPT ![Farming] = @ + farm.pending]
    /\ farm' = [farm EXCEPT !.pending = 0]
    /\ Continue(<<>>)
    /\ UNCHANGED <<cfg, action, cur, led, lp>>

(* cw20 Transfer (cw20-vesting execute_transfer semantics). *)
Transfer(bal, m) ==
    \/ /\ m.amount = 0 \/ bal[m.from] < m.amount
       /\ Revert
    \/ /\ 0 < m.amount /\ m.amount <= bal[m.from]
       /\ bal' = [bal EXCEPT ![m.from] = @ - m.amount, ![m.to] = @ + m.amount]
       /\ Continue(<<>>)

RewardTransfer(m) == Transfer(rwd, m) /\ UNCHANGED <<cfg, action, cur, led, lp, farm>>
LpTransfer(m)     == Transfer(lp, m)  /\ UNCHANGED <<cfg, action, cur, led, rwd, farm>>

(* A user's LP Send{Stake} to the contract: the tokens move, then the     *)
(* contract's Receive hook runs.                                           *)
LpSendStake(m) ==
    \/ /\ m.amount = 0 \/ lp[m.from] < m.amount
       /\ Revert
    \/ /\ 0 < m.amount /\ m.amount <= lp[m.from]
       /\ lp' = [lp EXCEPT ![m.from] = @ - m.amount, ![Farming] = @ + m.amount]
       /\ Continue(<<Msg("FReceiveStake", m.from, Farming, m.amount)>>)
       /\ UNCHANGED <<cfg, action, cur, led, rwd, farm>>

(* The farm's reward accrues to the contract's FLP between transactions. *)
Accrue ==
    /\ msgs = <<>>
    /\ farm.staked > 0
    /\ accrued + IncomeStep <= MaxIncome
    /\ farm' = [farm EXCEPT !.pending = @ + IncomeStep]
    /\ accrued' = accrued + IncomeStep
    /\ UNCHANGED <<cfg, action, cur, led, lp, rwd, msgs, pre, lastTx>>

-----------------------------------------------------------------------------
(* Owner steps: they return no messages, so each is one atomic step; a    *)
(* rejected call changes nothing and is a stutter.                        *)

(* UpdateTreasuryFee{treasury_fee}: stored without any validation. *)
execute_update_treasury_fee(f) ==
    /\ msgs = <<>>
    /\ cfg' = [cfg EXCEPT !.treasuryFee = f]
    /\ UNCHANGED <<action, cur, led, lp, rwd, farm, msgs, pre, lastTx, accrued>>

(* AddStakeableToken: "Token already exists in list" when registered. *)
execute_add_stakeable_token ==
    /\ msgs = <<>>
    /\ ~cfg.registered
    /\ cfg' = [cfg EXCEPT !.registered = TRUE]
    /\ UNCHANGED <<action, cur, led, lp, rwd, farm, msgs, pre, lastTx, accrued>>

(* AddStakeableTokens with the pool listed n times: the loop registers it *)
(* and a second occurrence fails the whole call; n = 0 changes nothing.   *)
(* A one-element list is AddStakeableToken itself.                        *)
execute_add_stakeable_tokens(n) ==
    /\ n = 1
    /\ execute_add_stakeable_token

-----------------------------------------------------------------------------
(* reply: dispatch on the reply id. *)
reply(m) ==
    CASE m.kind = "Reply1" -> handle_stake_reply(m)
      [] m.kind = "Reply2" -> handle_unstake_and_claim_reply(m)
      [] m.kind = "Reply3" -> handle_claim_reward_reply(m)
      [] m.kind = "Reply4" -> handle_distribute_by_limit_reply(m)

(* execute / receive_cw20 and the environment's handlers. *)
Handler(m) ==
    CASE m.kind \in {"Reply1", "Reply2", "Reply3", "Reply4"} -> reply(m)
      [] m.kind = "FReceiveStake"     -> execute_stake(m)
      [] m.kind = "FUnstake"          -> execute_unstake_and_claim(m)
      [] m.kind = "FClaim"            -> execute_claim_reward(m)
      [] m.kind = "FDistribute"       -> execute_distribute_by_limit(m)
      [] m.kind = "FWithdrawTreasury" -> execute_withdraw_treasury_reward(m)
      [] m.kind = "LpSendStake"       -> LpSendStake(m)
      [] m.kind = "UpDistribute"      -> UpDistribute(m)
      [] m.kind = "UpStake"           -> UpStake(m)
      [] m.kind = "UpUnstakeAndClaim" -> UpUnstakeAndClaim(m)
      [] m.kind = "UpClaim"           -> UpClaim(m)
      [] m.kind = "RTransfer"         -> RewardTransfer(m)
      [] m.kind = "LTransfer"         -> LpTransfer(m)

(* The messages external accounts send. *)
EntryMsgs ==
    {Msg("LpSendStake", u, Farming, a) : u \in Users, a \in Amounts}
    \cup {Msg("FUnstake", u, Farming, a) : u \in Users, a \in Amounts \cup {0}}
    \cup {Msg(k, u, Farming, None) : u \in Users, k \in {"FClaim", "FDistribute"}}
    \cup {Msg("FWithdrawTreasury", t, Farming, a) : t \in {Treasury}, a \in Amounts}

Init ==
    /\ cfg = [treasuryAddr |-> Treasury, treasuryFee |-> InitFee, registered |-> FALSE]
    /\ action = None
    /\ cur = [stake |-> None, unstake |-> None, claim |-> None]
    /\ led = [total |-> 0, staked |-> [u \in Users |-> 0], weight |-> 0,
              totalRewards |-> 0, snap |-> None, info |-> [u \in Users |-> None],
              treasury |-> 0]
    /\ lp = [a \in Users \cup {Farming} |-> IF a = Farming THEN 0 ELSE LpInit]
    /\ rwd = [a \in Users \cup {Farming, Treasury} |-> 0]
    /\ farm = [staked |-> 0, flp |-> 0, pending |-> 0]
    /\ msgs = <<>>
    /\ pre = <<cfg, action, cur, led, lp, rwd, farm>>
    /\ lastTx = [msg |-> Msg("none", None, None, None), ok |-> TRUE]
    /\ accrued = 0

(* The next message of the running transaction is handled. *)
Step == msgs # <<>> /\ Handler(Head(msgs))

Next ==
    \/ \E m \in EntryMsgs : Submit(m)
    \/ Step
    \/ Accrue
    \/ \E f \in FeeInputs : execute_update_treasury_fee(f)
    \/ \E n \in 0..2 : execute_add_stakeable_tokens(n)

Spec == Init /\ [][Next]_vars

-----------------------------------------------------------------------------
(* query_user_reward_in_pool: the reward a user would receive, net of the *)
(* treasury fee, computed from contract state c, ledger l and the farm's  *)
(* pending reward; a query that errors (unregistered pool, fee above the  *)
(* multiplier) reports nothing.                                           *)
QueryUserReward(c, l, pending, u) ==
    IF ~c.registered \/ l.total = 0 \/ c.treasuryFee > FeeMult THEN 0
    ELSE LET w == l.weight + Ratio(Delta(l, pending), l.total)
             i == UserInfo(l, u, w)
             r == i.p + ((w - i.w) * l.staked[u]) \div WeightScale
         IN  (r * (FeeMult - c.treasuryFee)) \div FeeMult

-----------------------------------------------------------------------------
(* Properties *)

AtRest == msgs = <<>>
Snapshot == IF led.snap = None THEN 0 ELSE led.snap
Owed(u) == Earned(led, u, led.weight)

TypeOK ==
    /\ cfg.treasuryFee \in {InitFee} \cup FeeInputs /\ cfg.registered \in BOOLEAN
    /\ led.total \in Nat /\ led.staked \in [Users -> Nat] /\ led.weight \in Nat
    /\ led.treasury \in Nat /\ led.snap \in Nat \cup {None}
    /\ lp \in [Users \cup {Farming} -> Nat] /\ rwd \in [Users \cup {Farming, Treasury} -> Nat]
    /\ farm \in [staked : Nat, flp : Nat, pending : Nat]
    /\ action \in {None} \cup [kind : {"Stake", "Unstake", "Claim"},
                               account : Users, amount : Nat \cup {None}]

(* Between transactions the reward tokens the contract holds, plus the    *)
(* farm reward it has already credited through the PENDING_REWARDS       *)
(* snapshot and not yet collected, cover the treasury's fee balance and   *)
(* every staker's owed reward; and the snapshot never exceeds what the    *)
(* farm still owes. The stake, claim and unstake replies each split the   *)
(* reward between weight, snapshot and payments in a different order.     *)
RewardSolvency ==
    AtRest =>
        /\ rwd[Farming] + Snapshot >= led.treasury + SumFunction([u \in Users |-> Owed(u)])
        /\ farm.pending >= Snapshot

(* Between transactions TOTAL_STAKED is the sum of USER_STAKED_AMOUNT, and *)
(* both equal the LP the farm holds for the contract and the FLP it has   *)
(* minted to it, with no LP left in the contract: the unstake flow pulls  *)
(* out everything and restakes the rest.                                  *)
StakeConservation ==
    AtRest =>
        /\ SumFunction(led.staked) = led.total
        /\ farm.staked = led.total /\ farm.flp = led.total
        /\ lp[Farming] = 0

(* A committed transaction never lowers the reward owed to any staker    *)
(* other than its sender (the weight only grows, and the replies settle  *)
(* only the sender's USER_REWARD_INFO).                                  *)
OthersKeepTheirReward ==
    AtRest /\ lastTx.ok =>
        \A u \in Users \ {lastTx.msg.from} :
            Owed(u) >= Earned(pre[4], u, pre[4].weight)

(* A committed ClaimReward pays its sender exactly the reward that       *)
(* query_user_reward_in_pool reported for them just before: the query    *)
(* re-derives the farm's unharvested reward the way the three replies    *)
(* fold it into the weight.                                              *)
ClaimPaysQueriedReward ==
    (AtRest /\ lastTx.ok /\ lastTx.msg.kind = "FClaim") =>
        LET u == lastTx.msg.from
        IN  rwd[u] - pre[6][u] = QueryUserReward(pre[1], pre[4], pre[7].pending, u)

(* A ClaimReward by a user the query shows a positive reward for commits. *)
ClaimSucceedsWhenOwed ==
    (AtRest /\ lastTx.msg.kind = "FClaim"
            /\ QueryUserReward(pre[1], pre[4], pre[7].pending, lastTx.msg.from) > 0)
        => lastTx.ok

(* The treasury can take its fees out: a WithdrawTreasuryReward{amount}  *)
(* sent by treasury_addr for 0 < amount <= TREASURY_REWARDS commits, as   *)
(* the handler's "Invalid amount" check and its transfer intend.          *)
TreasuryFeesWithdrawable ==
    (/\ AtRest /\ lastTx.msg.kind = "FWithdrawTreasury"
     /\ lastTx.msg.from = pre[1].treasuryAddr
     /\ 0 < lastTx.msg.amount /\ lastTx.msg.amount <= pre[4].treasury)
        => lastTx.ok

(* The stakers' view for the refinement mapping: between transactions the *)
(* current stake ledger and LP balances, while one runs those of `pre`,   *)
(* so a whole transaction with its chain of farm calls and replies is one *)
(* step of StakeLedger.                                                    *)
ViewedLed == IF AtRest THEN led ELSE pre[4]
ViewedLp  == IF AtRest THEN lp ELSE pre[5]

Ledger == INSTANCE StakeLedger WITH
              LoopInit   <- 0,
              WalletInit <- LpInit,
              stake      <- ViewedLed.staked,
              staked     <- ViewedLed.total,
              wallet     <- [u \in Users |-> ViewedLp[u]],
              lp         <- [u \in Users |-> 0]

(* Refinement: every committed farming transaction, however its           *)
(* DistributeByLimit, farm call and reply are chained through the global  *)
(* USER_ACTION and CURRENT_*_INFO items, is one staker's Stake of LP they *)
(* hold, Unstake of at most their USER_STAKED_AMOUNT, or a claim: the LP  *)
(* of that staker moves by exactly the amount, TOTAL_STAKED with it, and  *)
(* no other staker's LP or stake moves.                                   *)
FarmLedgerSpec == Ledger!Spec

====
