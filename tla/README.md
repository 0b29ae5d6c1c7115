# TLA+ models of the Synergistic JUNO contracts

This directory holds TLA+ models of the contracts under `src/contracts`, the
TLC configurations that check them, and `PROJECT.json`. `PROJECT.json` lists
the components, runs, mutants, the source lines behind every definition, the
findings and the hazards.

## 1. The system

| Part | Source | Role |
|---|---|---|
| bloop-vault | `bloop-vault/src/contract.rs`, `state.rs` | Stakers deposit bLOOP. Income from the LOOP staking contract arrives as bLOOP, and the vault splits it into a treasury fee, a syne-staking fee and a per-share accumulator `power`. |
| bloop-converter-and-staker | `bloop-converter-and-staker/src/contract.rs`, `queriers.rs` | Takes LOOP (`Receive{Convert}`), stakes it upstream and mints bLOOP 1:1. It harvests upstream income (`WithdrawRewards{}`: Restake, mint, send to the vault). It is the bLOOP minter and instantiates the vault. |
| cw20-vesting | `cw20-vesting/src/contract.rs` | The repository's cw20. It supplies the token semantics: zero amounts fail, overdrafts fail, only the minter may mint, and Send calls the receiver's hook. |
| LOOP protocol staking | not in the repository | The upstream contract. It holds the converter's LOOP stake and accrues rewards, which the converter and the vault query. |
| bwynd-converter-and-staker, bwynd-vault | `bwynd-*` | The WYND version. The vault's `contract.rs` is not in the repository. |
| loopswap_farming | `loopswap_farming/src` | LP farming. User actions are continued in `reply` handlers. |
| synergistic_wynd_gauge | `synergistic_wynd_gauge/src` | veSYNE holders put weighted votes on options. The voting-power contract reports stake changes through `MemberChangedHook`. Once per WYND gauge epoch, `Execute` forwards the top of the tally to the WYND staker. |
| syneswap_loop_multiple_choice_proposal | `.../src` | The admin opens a proposal mirroring one LOOP gauge proposal and locks `proposal_creation_token_limit` of its veSYNE power. Holders put percentage votes on its pools. After the voting window, any holder can execute (the result goes to the LOOP staker as a vote) or reject it. A later LOOP round reopens it as a new version. |
| packages `synedao`, `synedex`, `syneswap` | `src/packages` | Message types only. |

### How the bLOOP parts interact

Every vault operation first asks the upstream contract how much income the
converter has not yet harvested (`Withdrawable`).

- **No pending income.** The operation settles the staker and runs at once.
- **Pending income.** The operation parks itself in the single slot
  `REWARD_ACTION`, then asks the converter for `WithdrawRewards{}`. That
  produces Restake upstream, then mints the income as bLOOP, then does
  `Send{DistributeRewards{None}}` to the vault. The vault's
  `execute_distribute_rewards` credits the income, runs the parked operation
  and empties the slot.

Convert takes a shortcut. When income is pending, it mints the income and
sends it with `DistributeRewards{Some(user)}`, which overrides the slot with a
claim for that user.

**Execution model.** CosmWasm runs a transaction depth-first: the messages a
handler returns run next, in order. Any error, including an `unwrap` panic,
reverts every contract touched in the transaction. So the "asynchronous"
income fetch described in spec §4.4 happens inside one transaction. The slot
is filled and emptied in that transaction, or the transaction reverts as a
whole.

## 2. Modules

| Module | Models | State ↔ code |
|---|---|---|
| `VaultLedger` | The ledger arithmetic and the slot, as pure operators over a vault record: `update_total_rewards`, `update_rewards`, `add_stake`, `remove_stake`, `update_treasury_amounts`, `update_syne_staking_amounts`, `Owed`, `FeeCut`, `PowerIncrement`. | `staked`, `power`, `pendTreasury`, `pendSyne` are `TOTAL_STAKED`. `stake[u]` and `diff[u]` are `STAKE[u]`. `action` is `REWARD_ACTION`. `power` is an integer scaled by `PowerScale`, so the truncation of Decimal division is kept. Fees are integers over `FeeDen`. |
| `BloopSystem` | The vault handlers, the converter handlers, the bLOOP token and an environment model of LOOP and of upstream staking. All of it runs on a model of the CosmWasm message queue. | `msgs` is the pending messages of the current transaction. `snap` is the state at the start of the transaction, restored by `Revert`. `cfg` is the mutable `CONFIG` fields. `bloop` and `loop` are token balances. `up` is the converter's upstream account: `staked` and pending `reward`. |
| `MCBloopSystem` | The constants for TLC. | |
| `StakeLedger` | The abstract staking pool of spec §4.2, §4.5, §5 and §7, seen by the stakers: each convert, stake, unstake or claim is one atomic step of one staker, settling at most that staker's staked token (the reward amount is left open). Both the bLOOP vault and `loopswap_farming` implement it. | For the vault, `stake`, `staked`, `wallet`, `lp` are `STAKE`, `TOTAL_STAKED`, the stakers' bLOOP and LOOP balances (`WalletInit` 0). For the farm they are `USER_STAKED_AMOUNT`, `TOTAL_STAKED` and the LP balances (`WalletInit` is `LpInit`), and `lp` is unused. |
| `FarmSystem` | `loopswap_farming` for one registered pool and one reward token, with the LOOP farm and the LP and reward cw20s as environment, on the same message-queue model. | `action` is `USER_ACTION`. `cur` is `CURRENT_STAKE_INFO`, `CURRENT_UNSTAKE_INFO`, `CURRENT_CLAIM_REWARD_INFO`. `led` holds `TOTAL_STAKED`, `USER_STAKED_AMOUNT`, `TOTAL_REWARDS_WEIGHT` (integer scaled by `WeightScale`), `TOTAL_REWARDS`, `PENDING_REWARDS` (`snap`), `USER_REWARD_INFO_MAP` and `TREASURY_REWARDS`. `farm` is the contract's position in the farm: LP staked, FLP held, pending reward. `pre` is the state at the start of the transaction, restored by `Revert`. |
| `MCFarmSystem` | The constants for TLC. | |
| `GaugeSystem` | `synergistic_wynd_gauge` for one gauge. The staking contract, the WYND gauge's epoch clock and the block clock are the environment. | `tally`, `totalCast` and `byPoints` are `TALLY`, `TOTAL_CAST` and the `OPTION_BY_POINTS` index. `votes[u]` is `VOTES` (the power stored with the vote and the list of `<<option, weight>>`). `vp` is the power the staking contract reports. `gauge` is `GAUGES[0]`. `wne` is the WYND gauge's `next_epoch`. `history` is `VOTE_HISTORY` in `LAST_EPOCH` order. Weights and percentages are integers over `WDen` and `PDen`. |
| `MCGaugeSystem` | The constants for TLC. | |
| `ProposalSystem` | `syneswap_loop_multiple_choice_proposal`. The veSYNE dao, one LOOP gauge proposal and the clock are the environment. | `props` is `PROPOSALS`: status, expiration, voting start, pending period, `total_power` and `choices` as a sequence of `[pool, power]`. `count` is `PROPOSAL_COUNT`. `version` is `PROPOSAL_VERSION`. `ballots[p]` is the `BALLOTS` of version `p.version`: older versions' keys are never read again. `locked` is `PROPOSERS_INFO[admin]`. `config` holds the limit, the hold duration and the min pending period. `loop` is the LOOP proposal's start and expiration. `lastTx.sent` is the vote `get_execution_message` forwarded. |
| `MCProposalSystem` | The constants for TLC. | |

### Actions

`Next` has four disjuncts:
- `Submit(m)`: an external account starts a transaction.
- `Handler(Head(msgs))`: the next message runs.
- `Accrue`: upstream income arrives between transactions.
- `execute_update_config`: an admin `UpdateConfig`. It returns no messages, so it is one step.

`Handler` dispatches on the message kind. There is one action per handler:
- vault: `execute_stake`, `execute_withdraw_rewards`, `execute_withdraw_treasury_rewards`, `execute_withdraw_syne_staking_rewards`, `execute_distribute_user_rewards`, `execute_unstake`, `execute_distribute_rewards`;
- converter: `execute_convert_token` (its messages are `ConvertMsgs`; with
  `HarvestOnConvert` it is the bWYND converter, which withdraws the upstream
  reward before minting it), `execute_withdraw_rewards_conv`;
- token: `execute_transfer`, `execute_send`, `execute_mint`;
- environment: `LoopSendConvert`, `UpStake`, `UpRestake`.

Each handler keeps the code's branches. The shared deferral branch is
`Defer`, which fails with `InvalidAction` when the slot is taken. Every
`ensure_eq!`, `?` and `unwrap` that can fail becomes a `Revert` disjunct.

Entry messages (`EntryMsgs`):
- users convert LOOP, stake bLOOP, unstake, claim, trigger
  `DistributeRewards{address}` and call the converter's `WithdrawRewards{}`;
- users and the converter call the two fee withdrawals, with and without an
  amount. The converter's admin reaches the vault as the converter through
  `ExecuteCosmosMsgs`.

### Farming actions

Every farming user action is a chain inside one transaction. The entry
handler stores `USER_ACTION` and calls the farm's `DistributeByLimit` with a
reply. `handle_distribute_by_limit_reply` dispatches to `handle_stake`,
`handle_claim` or `handle_unstake_and_claim`. Each of these stores the farm's
pending reward in `CURRENT_*_INFO` and calls the farm with a reply. The reply
(`handle_stake_reply`, `handle_claim_reward_reply`,
`handle_unstake_and_claim_reply`) does the reward bookkeeping. A reply is a
`ReplyN` message queued after the call it answers.

`Next` has five disjuncts:
- `Submit(m)` of an entry message: LP `Send{Stake}`, `UnstakeAndClaim` (amount 0, 1 or 2), `ClaimReward`, `DistributeByLimit`, and the treasury's `WithdrawTreasuryReward`;
- `Step`, the next message;
- `Accrue`, farm reward between transactions;
- `execute_update_treasury_fee`;
- `execute_add_stakeable_tokens` (a one-element list is `AddStakeableToken`).

Unstake pulls all of `TOTAL_STAKED` out of the farm (`UpUnstakeAndClaim`),
and its reply transfers `amount` LP and the net reward to the user and
restakes the rest. `query_user_reward_in_pool` is the operator
`QueryUserReward`.

### Gauge actions

Each handler is one action, and a call that errors or panics is a step that
only records the failure in `lastTx`. The actions are:
- `member_changed` (the hook, run as part of the staking contract's stake
  change) and `member_changed_unauthorized`;
- `place_votes`, which closes the previous epoch first when the WYND gauge
  has moved past `next_epoch`;
- `execute`, `add_option`, `remove_option`, `stop_gauge` and `update_gauge`;
- the environment: `Tick` and `WyndExecute`.

`update_tallies` is a fold of `TallyStep` over the `(option, old, new)`
triples, then an update of `TOTAL_CAST`. `selected_set` sorts the index,
filters it, takes `max_options_selected` entries and caps them.

### Proposal actions

The handlers are `execute_propose`, `execute_vote`, `execute_execute` and
`execute_reject` (both through `Finish`; when the LOOP round has passed,
the code advances the version and resets a local copy of the proposal it
never saves, so `Finish` changes only the version and the ballots),
`execute_add_options`,
`execute_remove_options`, `execute_close` and `execute_update_config`. The
environment actions are:
- `Tick`;
- `LoopAdvance`: the LOOP proposal's next round;
- `PowerChange`: a veSYNE stake change.

A vote is a fold of `VoteStep` over the list. That models the ballot loop:
`position().unwrap()`, `remove_vote` on an existing ballot, the
`checked_sub` of `total_power`, the new ballot, then `add_vote`. Each
`unwrap` and Uint128 underflow is a failure. `allow_revoting` is always
false, so the model keeps only the re-vote branch the code runs.
The dao's voting-power query is `GetVotingPower`, and the list check of
`validate_options_custom` is `ValidateOptionsCustom`; the gauge has its own
`GetVotingPower` over the staking contract's reported power.
`get_execution_message` is `ExecMsg`, with its two panics in `ExecMsgOk`:
- a division by a zero `total_power`;
- `pop().unwrap()` on too few choices.

## 3. Runs

| Run | cfg | Bounds | Checks | Result |
|---|---|---|---|---|
| core | `MCBloopSystem.cfg` | 2 users, 2 LOOP each, amounts {1,2}, one income of 5, treasury fee 0.2, `PowerScale` 10, admin sets addresses but not fees | TypeOK, Solvency, SlotFreeAtRest, Backing, NoDilution, LedgerSpec | pass, 358,527 distinct states |
| fees | `MCBloopFees.cfg` | 1 user, 1 LOOP, amount {1}, one income of 10, fee inputs {0.1}; bWYND converter (`HarvestOnConvert`) over a non-harvesting upstream (`StakeHarvests = FALSE`) | Solvency, Backing | pass, 117,218 distinct states |
| treasury_violation | `MCTreasuryViolation.cfg` | core bounds | QueuedTreasuryWithdrawCompletes | violated |
| farm_core | `MCFarmSystem.cfg` | 2 users, 2 LP each, amounts {1,2}, one farm reward of 3, fee 1/5, owner may change it to 2/5, `WeightScale` 10; no symmetry | TypeOK, RewardSolvency, StakeConservation, OthersKeepTheirReward, ClaimPaysQueriedReward, FarmLedgerSpec | pass, 593,472 distinct states |
| farm_claim_owed_violation | `MCFarmClaimOwed.cfg` | farm_core bounds | ClaimSucceedsWhenOwed | violated |
| farm_treasury_violation | `MCFarmTreasury.cfg` | farm_core bounds | TreasuryFeesWithdrawable | violated |
| gauge_tally | `MCGaugeSystem.cfg` | 2 voters, powers 0..2, options {1,2,3} (two attached), 6 vote lists, clock frozen, 2 refused `UpdateGauge` records, owner and a stranger as callers | TypeOK, TallyMatchesVotes, IndexMatchesTally, TotalCastIsSum | pass, 112,228 distinct states |
| gauge_epochs | `MCGaugeEpochs.cfg` | 2 voters at power 2, 2 options, 2 vote lists, epoch 3, pending size 1, clock to 5, one recorded epoch, one accepted `UpdateGauge` | ExecuteForwardsTop | pass, 463,374 distinct states |
| gauge_duplicate_option_violation | `MCGaugeDuplicate.cfg` | gauge_tally bounds plus a list naming option 1 twice | TallyMatchesVotes | violated |
| gauge_hook_violation | `MCGaugeHook.cfg` | gauge_tally bounds | StakeChangeSucceeds | violated |
| proposal_core | `MCProposalSystem.cfg` | admin and one holder, powers {1,2}, one proposal over pools {1,2} (pool 3 not in the LOOP proposal), 4 vote lists, 2 successful votes, one stake change, one limit change, clock to 4, one later LOOP round, at most 3 versions | TypeOK, ChoicesWithinTotal, ChoiceBackedByBallots | pass, 989,367 distinct states |
| proposal_execute_violation | `MCProposalExecute.cfg` | proposal_core bounds | ExecuteForwardsFullVote | violated |

**Properties.**
- `Solvency`. Between transactions, the vault's bLOOP covers all stakes, both
  fee balances and every staker's owed reward. It catches truncation errors
  and snapshot mistakes across deferred calls.
- `SlotFreeAtRest`. The slot is never left occupied after a transaction. This
  answers spec §9's worry about a stuck slot: it cannot happen, because a
  failed harvest reverts the slot too.
- `NoDilution` (action property). No committed step changes the total stake
  while upstream income is unharvested.
- `Backing`. All bLOOP is backed by LOOP staked upstream. The core run
  checks it for the bLOOP converter over a harvesting upstream, the fees run
  for the bWYND converter over one that does not harvest.
- `LedgerSpec` (refinement). `BloopSystem` implements `StakeLedger` under
  the mapping `Viewed`: at rest the abstract state is the vault's
  `STAKE`/`TOTAL_STAKED` and the token balances; while a transaction runs it
  is the same read from `snap`, the state the transaction started from. So a
  committed transaction, with all its messages, deferrals and callbacks, is
  one abstract step, and a reverted one is a stutter. The property says each
  committed transaction is one staker's convert, stake, unstake (of at most
  their stake) or claim, and that no other staker's bLOOP or stake moves:
  a parked action applied for the wrong user, or twice, would break it.

Farming properties:
- `RewardSolvency`. Between transactions, the reward tokens the contract
  holds plus the snapshot it has credited but not collected cover the
  treasury balance and every staker's reward. The snapshot never exceeds
  what the farm still owes.
- `StakeConservation`. `TOTAL_STAKED` is the sum of the user stakes and
  equals the farm's LP and FLP position, with no LP left in the contract.
- `OthersKeepTheirReward`. A committed transaction never lowers the reward
  of anyone but its sender.
- `ClaimPaysQueriedReward`. A committed claim pays exactly what
  `query_user_reward_in_pool` showed just before.
- `FarmLedgerSpec` (refinement). `FarmSystem` implements `StakeLedger`
  under `ViewedLed`/`ViewedLp`, the same snapshot mapping as `LedgerSpec`
  (`pre` while a transaction runs). Each committed farming transaction is
  one user's stake, unstake of at most their stake, or claim, and moves no
  other user's stake or LP. The three-message reply chain and the unstake
  that pulls all of `TOTAL_STAKED` out of the farm and restakes the rest
  must add up to that.
- `TreasuryFeesWithdrawable` (violation run). A committed withdrawal by the
  treasury address of an amount it has accrued succeeds.

Gauge properties:
- `TallyMatchesVotes`. `TALLY` of every option that was never removed equals
  the points the stored votes give it, at the powers they store.
- `IndexMatchesTally`. `OPTION_BY_POINTS` holds exactly one key per option,
  with its current points.
- `TotalCastIsSum`. `TOTAL_CAST` is the sum of `TALLY`.
- `ExecuteForwardsTop` (action property). Every successful `Execute` forwards
  a set ranked by the tally it read: distinct live options, in non-increasing
  points, at most `max_options_selected`, none left out with more points
  than one taken.

Proposal properties:
- `ChoicesWithinTotal`. The choices together never hold more than
  `total_power`, across votes, re-votes, option removal and new versions.
  A vote adds the whole power to the total but only the percentage shares to
  the choices, and a re-vote takes the old ballots off both.
- `ChoiceBackedByBallots`. Every choice's power of a proposal in its
  current LOOP round is covered by the current version's ballots for its
  pool. A proposal whose round has passed is left out: there an Execute or
  Reject advances the version but never saves the reset proposal, so its
  stale tallies sit over empty ballots until the vote that reopens it
  resets them.
- `ExecuteForwardsFullVote` (action property, violation run). An `Execute`
  of a closed proposal by a holder with power goes through and forwards a
  vote of exactly 100%. `Finish` records a panic (`Panicked`) where
  `calculate_vote_result` divides by zero or `pop().unwrap()` runs dry.

**Bounds.**
- Income 5 over stakes of 1-3 with `PowerScale` 10 gives truncated increments,
  e.g. 4/3 becomes 1.3.
- Two users are enough for one staker's action to meet another's parked one.
- The fees run needs an income of 10 so that a 0.1 fee cuts a non-zero amount.

- For farming, a reward of 3 over stakes of 1 to 4 gives truncated weights,
  and a fee of 1/5 gives non-zero fees from a reward of 3. Two users let one
  user's stake land between another's reward and claim.
- The gauge runs are split because the owner's actions and the clock
  multiply the state space.
  - The tally run freezes the clock (`MaxTime` 0), so it explores every mix
    of votes, hooks and option changes.
  - The epoch run fixes the powers, so it explores the epoch clock: votes
    inside and outside the pending window, Execute, and the WYND gauge
    moving on.
  - Weights of 1/2 on powers of 1 and 2 give rounded points.
- The proposal run needs powers 1 and 2 for three things:
  - a 50/50 vote of power 1 gives ballots that round to 0;
  - shares of 33% and 66% need the one-percent top-up `get_execution_message`
    adds;
  - the admin's lock (limit 1, then 2) meets a power that may fall.

  Two votes are enough for a re-vote, and for a vote on a choice removed and
  added back. `MaxVotes` bounds the votes because a re-vote of less than 100%
  raises `total_power` without limit. One later LOOP round exercises
  `update_props` from a vote, and the unsaved upgrade of execute and
  reject. `MaxVersions` (3) bounds `PROPOSAL_VERSION`, because every
  Execute or Reject after the round has passed advances it again.

Symmetry over `Users` is sound, because every entry message ranges over all
users alike. It is used only for invariant and action-property runs.

**Fairness.** The bLOOP runs assume none. A transaction can never get stuck
half-way: that would be a deadlock, and deadlock is checked. `Submit` and
`Accrue` are disabled while `msgs` is non-empty, so the only way on is the
next handler.

The farming run assumes none either, for the same reason: its reply chains
are fixed and finite, and the runtime bounds every transaction by gas, so
a liveness property that transactions end would hold by the model's shape.

The gauge and proposal runs assume no fairness. Each of their steps is one
complete transaction, either a user's call or the environment, and nothing
in the code obliges anyone to make a call.

**Mutants.** Each property of a passing run is broken by a plausible bug in
the mapped code:
- `add_stake` without moving the snapshot breaks Solvency;
- a callback that keeps the slot breaks SlotFreeAtRest;
- a stake that ignores pending income breaks NoDilution;
- a withdrawal without Restake breaks Backing;
- an unstake that does not check `amount <= stake` breaks LedgerSpec;
- a bWYND convert that mints without withdrawing first breaks Backing in
  the fees run;
- a treasury fee check without the `amount <= pending` bound breaks TypeOK;
- a syne fee not deducted from the net breaks Solvency in the fees run;
- farming: a fee computed as `user - total` breaks TypeOK;
- keeping `PENDING_REWARDS` after the farm paid it breaks RewardSolvency;
- not saving `TOTAL_STAKED` breaks StakeConservation;
- a weight overwritten instead of increased breaks OthersKeepTheirReward;
- reading the pending reward after the farm's `ClaimReward` breaks
  ClaimPaysQueriedReward;
- an unstake reply that does not check the user's stake breaks
  FarmLedgerSpec;
- gauge: a tally step without the underflow check breaks TypeOK;
- a tally step that does not take the old points off breaks
  TallyMatchesVotes;
- one that keeps the old index key breaks IndexMatchesTally;
- `remove_tally` leaving `TOTAL_CAST` breaks TotalCastIsSum;
- an ascending index order breaks ExecuteForwardsTop;
- proposal: a `Close` whose subtraction is unchecked breaks TypeOK;
- a ballot step that adds the whole power to the choice breaks
  ChoicesWithinTotal;
- an `update_props` that keeps the choices' power breaks
  ChoiceBackedByBallots.

## 4. Findings

1. **Farming treasury fees can never be withdrawn**
   (`loopswap_farming/src/contract.rs:475`).
   `execute_withdraw_treasury_reward` requires `amount > balance` and then
   unwraps `balance - amount`, so every call reverts and the fees stay in the
   contract (run farm_treasury_violation: stake, reward accrues, claim
   books the fee, the treasury's withdrawal of it reverts).
2. **Queued fee withdrawals always revert**
   (`bloop-vault/src/contract.rs:500, 514`). The callback passes its own
   `info` to `update_treasury_amounts` and `update_syne_staking_amounts`. That
   `info.sender` is the bLOOP token, and those functions require the
   converter. So a fee withdrawal made while income is pending reverts, and
   the success branch of the dispatch is dead code (run treasury_violation).
   The immediate path needs `sender == treasury_withdrawer` and
   `sender == converter` at once, so only the converter's admin, through
   `ExecuteCosmosMsgs`, can withdraw.

3. **Claims revert after any stake** (`contract.rs:1662`). A stake stores the
   farm's pending reward as `PENDING_REWARDS`. The claim reply requires the
   current pending reward to be strictly greater. Until new farm reward
   arrives, every claim reverts, though the query reports a positive reward
   (run farm_claim_owed_violation: u1 stakes, reward 3 arrives, u2 stakes,
   u1's claim reverts).
4. **A vote list naming an option twice corrupts the tally**
   (`synergistic_wynd_gauge/src/contract.rs:540`). `place_votes` builds its
   diff in a HashMap, which keeps the last entry. The stored vote keeps both
   entries, and `member_changed` later moves `TALLY` by both weights
   (run gauge_duplicate_option_violation).
5. **A removed option blocks stake changes** (`state.rs:375`). `remove_option`
   drops the tally but not the votes naming the option. When such a voter's
   power falls, `update_tallies` computes `0 + new - old` in u128 and panics.
   That fails the hook and with it the staking transaction (run
   gauge_hook_violation).
6. **Execute forwards an empty vote**
   (`syneswap_loop_multiple_choice_proposal/src/proposal.rs:285`).
   `final_votes` is filled only when the shares add up to less than 100. When
   they add up to exactly 100, the proposal becomes Executed and the LOOP
   staker receives a Vote with no entries. One voter with 100% on one pool is
   enough.
7. **Execute of an unvoted proposal panics** (`proposal.rs:309`).
   `calculate_vote_result` tests `total_power == 0`, but its branch
   `Uint128::zero();` is a statement, not a return. `multiply_ratio(100, 0)`
   then panics, so Execute of a closed proposal nobody voted on always
   reverts. This is TLC's shortest trace for the run
   proposal_execute_violation (propose, let the vote close, execute), which
   also covers findings 6 and the `pop` panic below.

Observations TLC reached that no run keeps (each needs a run of its own):
- **A full unstake always reverts** (`loopswap_farming/src/contract.rs:1459`).
  The unstake reply requires `user_staked > amount`, strictly, so at least
  one LP unit stays locked per staker.
- **Convert mints un-harvested income**
  (`bloop-converter-and-staker/src/contract.rs:292`). `execute_convert_token`
  mints the pending upstream reward and sends it to the vault without
  restaking or withdrawing it. If the upstream `Stake{}` does not harvest,
  the next `WithdrawRewards{}` mints the same income again. That depends on
  the LOOP staking contract, outside the repository, so `StakeHarvests` is a
  constant. The fees run sets it FALSE with the bWYND converter, which
  withdraws first; its mutant, a convert that mints without withdrawing,
  breaks Backing.
- **The proposal query disagrees with Execute.** `query_proposal` shows an
  upgradable proposal with the LOOP round's status, while Vote and Execute
  check the stored one: a closed proposal can show as open.
- **The vault refuses a claim of zero** (`bloop-vault/src/contract.rs:296`),
  where spec §4.5 says a claim of zero still succeeds.
- **A removed gauge option comes back.** A re-vote that names it re-creates
  its tally entry, with the voter's points only.
- **Execute can repeat inside the pending window** (`contract.rs:669`). The
  gauge's `next_epoch` becomes the WYND gauge's, which has not moved yet.
- **A cap of 0 blocks the epoch** (`contract.rs:656`). When
  `max_available_percentage` caps every selected option to 0,
  `Decimal::from_ratio` divides by zero.
- **Execute panics when shares round away** (`proposal.rs:290`). A holder of
  power 1 voting 50/50 leaves both choices at 0 and `total_power` at 1.
  `get_execution_message` then pops 100 times from two entries and panics.
  Execute fails until the LOOP round moves on. `ExecuteForwardsFullVote`
  covers it; TLC's shortest trace is finding 7.
- **Income sent by any holder** (`bloop-vault/src/contract.rs:187`).
  `Receive{DistributeRewards}` accepts bLOOP from anyone. Modelling such
  senders multiplies the core state space about twentyfold, past the run
  budget, so no run explores it.
- **A proposal can be closed twice** (`contract.rs:789`). `Close` does not
  check the status, so a second close takes the limit off the admin's lock
  again. With another proposal open, that unlocks its tokens. Otherwise it
  underflows. `Close` also subtracts the current limit, not the one locked.
- **Close is refused once the hold time has passed** (`contract.rs:782`),
  the reverse of its error text.
- **Anyone can add or remove a proposal's options.** A removed and re-added
  choice keeps its old ballots, so its voters' re-votes panic in
  `remove_vote`.

## 5. Not modelled, and the plan

Not modelled, and why:
- **Admin `Mint` on the converter.** It mints unbacked bLOOP by design.
- **`UpdateAdmin`, Vote, gauge setters.** They do not touch balances or the
  ledger.
- **`min_bond`.** It is stored and never read.
- **Vesting, delegation and marketing of cw20-vesting.** `Delegate` is
  documented to allow delegating vested and unvested tokens alike, which
  would let the staking contract's undelegate free locked tokens; but
  `deduct_coins` and the vesting types are not in the repository, so the
  lock cannot be translated.
- **Overflow at 2^128.** Out of reach with small amounts.
- **Farming `UpdateConfig` and `UpdateTreasuryAddr`.** Owner-only address
  setters with no other effect.
- **Several pools or distribution tokens.** The model has one of each. The
  code keeps the pools' state apart, but `USER_ACTION` and `CURRENT_*_INFO`
  are shared, and they are overwritten inside each transaction before use.
- **Farming's other queries** and its commented-out auto-compounding code.
- **A treasury fee above `fee_multiplier`.** `FeeFails` models the u64
  underflow with and without overflow checks, but no run sets such a fee
  yet.
- **A LOOP farm whose `Stake` pays pending reward.** The farm is not in
  the repository and the model's farm does not pay on `Stake`. If it did,
  the snapshot `handle_stake` stores would exceed what the farm owes, and
  `RewardSolvency`'s snapshot clause would fail.
- **A missed or mis-reported staking hook.** `member_changed` trusts
  `diff.old`; the model's staking contract reports every change exactly.
- **Gauge: `CreateGauge` of further gauges.** Each gauge's state is
  separate.
- **Gauge: `UpdateGauge`'s epoch sizes.** They are stored for display.
- **Gauge: the reset/expiry code.** `reset` is `None` for every gauge.
- **Gauge: the queries.**
- **Gauge: the WYND staker's side of the forwarded vote.** It is outside
  the repository.
- **Proposal: titles, descriptions, `amount` and addresses.**
- **Proposal: `PROPOSAL_HISTORY` and `PROPOSAL_EXECUTIONS`.** They are
  written and read only by queries.
- **Proposal: the size limit.**
- **Proposal: `POOL_AMOUNTS`.** It is never read.
- **Proposal: several LOOP proposals.**
- **Proposal: the queries.**
- **bwynd-vault.** Its `contract.rs` is not in the repository; the bLOOP
  vault stands in for it in the fees run.
- **bWYND converter's setters, `Vote`, `Mint` and replies.** Only Convert
  (through `HarvestOnConvert`) and `WithdrawRewards` move balances.
- **cw20-vesting's vesting arithmetic.** `deduct_coins` and the vesting
  types live in the crate's `state.rs`, which is not in the repository.

- **Further violation runs.** The observations above (query/execute,
  repeated gauge Execute, the zero claim, closing twice) each need a run of
  their own; the project keeps at most twelve runs and they are spent on the
  questions above.

Planned next, in order:
1. The spec's "no over-payment" property, with history variables for income
   credited and rewards paid.
2. Holder-sent income in a run of its own, with one staker, in place of a
   violation run.
3. Per-proposal lock amounts, so that closing twice and a limit change
   between propose and close are caught by an invariant.
