--------------------------- MODULE ProposalSystem ---------------------------
(***************************************************************************)
(* The syneswap_loop_multiple_choice_proposal contract: the admin opens a  *)
(* proposal that mirrors one proposal of the LOOP gauge, locking          *)
(* proposal_creation_token_limit of its veSYNE power; veSYNE holders put  *)
(* percentage votes on its pools; once the voting window minus the        *)
(* pending period has passed any holder executes (the result is forwarded *)
(* to the LOOP staker as a percentage vote) or rejects it; when the LOOP  *)
(* proposal has moved to a later round, the next vote, execute or reject  *)
(* starts a new version of the proposal with fresh tallies and ballots.   *)
(*                                                                         *)
(* Every handler is one transaction: an error or a panic reverts it, which *)
(* is a step that only records the failed call in lastTx.  The veSYNE     *)
(* staking contract, the LOOP gauge and the clock are the environment.    *)
(***************************************************************************)
EXTENDS Integers, Sequences, FiniteSets, SequencesExt

CONSTANTS
    Holders,        \* addresses the veSYNE dao reports power for
    Admin,          \* config.admin, the only proposer
    None,           \* an absent map entry
    Pools,          \* pool names
    LoopPools,      \* pools of the LOOP gauge proposal's options
    LoopClosed,     \* whether the LOOP gauge proposal has status Closed
    LoopPeriod,     \* the LOOP gauge proposal's voting_period
    LoopFirstExp,   \* its expiration when the first proposal is made
    MinVoting,      \* config.min_voting_period
    MaxVoting,      \* config.max_voting_period
    InitConfig,     \* [limit, hold, minPending] given to instantiate
    ConfigUpdates,  \* [limit, hold, minPending] UpdateConfig is called with
    Powers,         \* voting powers the dao can report
    ProposeInputs,  \* [pending, options: Seq(Pools)] Propose is called with
    VoteLists,      \* vote lists: sequences of <<pool, percentage>>
    OptionLists,    \* option lists of Add/RemoveMultipleChoiceOptions
    MaxProposals,   \* bound on PROPOSAL_COUNT
    MaxTime,        \* bound on the block clock
    MaxRounds,      \* bound on the LOOP gauge's later rounds
    MaxStakes,      \* bound on the holders' stake changes
    MaxVotes,       \* bound on the successful votes
    MaxVersions     \* bound on PROPOSAL_VERSION of a proposal

ASSUME /\ Admin \in Holders /\ LoopPools \subseteq Pools
       /\ LoopClosed \in BOOLEAN /\ MaxProposals \in Nat \ {0}

Ids == 1..MaxProposals

VARIABLES
    props,     \* PROPOSALS: id -> None or the stored proposal
    count,     \* PROPOSAL_COUNT
    version,   \* PROPOSAL_VERSION: id -> version (0 before the first)
    ballots,   \* BALLOTS of each proposal's current version: (holder, pool)
    locked,    \* PROPOSERS_INFO[admin]: the admin's locked power
    config,    \* CONFIG: proposal_creation_token_limit, token_hold_duration,
               \* min_pending_period
    vp,        \* the power the veSYNE dao reports for each holder
    loop,      \* the LOOP gauge proposal: voting_start_time, expiration
    now,       \* env.block.time
    lastTx,    \* the last call if it succeeded, and the vote it forwarded
    stakes,    \* the number of stake changes so far
    nvotes     \* the number of successful votes so far

vars == <<props, count, version, ballots, locked, config, vp, loop, now,
          lastTx, stakes, nvotes>>

NoBallots == [h \in Holders |-> [o \in Pools |-> None]]

(* A call that returns Ok records its name and any vote it forwarded; an  *)
(* error or panic reverts the transaction and only marks the failure.     *)
Done(op, sent) == lastTx' = [op |-> op, ok |-> TRUE, sent |-> sent]
Failed == /\ lastTx' = [op |-> "none", ok |-> FALSE, sent |-> None]
          /\ UNCHANGED <<props, count, version, ballots, locked, config,
                         vp, loop, now, stakes, nvotes>>
(* A panic (an unwrap on None) after every check of `op` passed: reverted *)
(* like an error, but recorded with the operation.                        *)
Panicked(op) == /\ lastTx' = [op |-> op, ok |-> FALSE, sent |-> None]
                /\ UNCHANGED <<props, count, version, ballots, locked, config,
                               vp, loop, now, stakes, nvotes>>

Pct(n, k) == (n * k) \div 100          \* Uint128::multiply_ratio(k, 100)
PctSum(l) == FoldLeft(LAMBDA a, e : a + e[2], 0, l)
PowerSum(ch) == FoldLeft(LAMBDA a, c : a + c.power, 0, ch)
PoolsOf(ch) == {ch[i].pool : i \in DOMAIN ch}

-----------------------------------------------------------------------------
(* proposal.rs: status, versions and the execution message                 *)

(* current_status / current_status_custom: an Open proposal counts as      *)
(* VotingClosed once expired, or, with the pending period, that much       *)
(* earlier (is_expired_custom: now + pending >= expiration).               *)
CurrentStatus(pr) ==
    IF pr.status = "Open" /\ now >= pr.exp THEN "VotingClosed" ELSE pr.status
IsExpiredCustom(pr) == now + pr.pending >= pr.exp
CurrentStatusCustom(pr) ==
    IF pr.status = "Open" /\ IsExpiredCustom(pr)
    THEN "VotingClosed" ELSE pr.status

(* advance_proposal_version: a new version, whose BALLOTS keys              *)
(* "id.version" start empty.                                               *)
AdvanceVersion(p) == [version EXCEPT ![p] = @ + 1]

(* update_props: record the TimeOut history entry and reopen the proposal *)
(* for the LOOP gauge's new round with every tally at zero.  Mutant: the  *)
(* choices keep their power.                                               *)
UpdateProps_keepchoices(pr) ==
    [pr EXCEPT !.status = "Open", !.start = loop.start, !.exp = loop.exp,
               !.total = 0]
UpdateProps(pr) ==
    [pr EXCEPT !.status = "Open", !.start = loop.start, !.exp = loop.exp,
               !.total = 0,
               !.choices = [i \in DOMAIN @ |-> [@[i] EXCEPT !.power = 0]]]

(* calculate_vote_result: each choice's share of total_power in whole     *)
(* percent; multiply_ratio panics when total_power is zero.                *)
Shares(pr) == [i \in DOMAIN pr.choices |->
                  (pr.choices[i].power * 100) \div pr.total]

(* get_execution_message: when the shares add up to less than 100, sort   *)
(* them from big to small (a stable sort), pop 100 - sum entries off the  *)
(* end, each with one percent more, and append the rest; pop().unwrap()   *)
(* panics when there are fewer entries than that.  When they add up to    *)
(* 100 the forwarded vote is final_votes, still empty.                     *)
ShareSum(s) == FoldLeft(LAMBDA a, x : a + x, 0, s)
ExecMsgOk(pr) ==
    /\ pr.total > 0
    /\ 100 - ShareSum(Shares(pr)) <= Len(pr.choices)
ExecMsg(pr) ==
    LET s == Shares(pr)
        tp == ShareSum(s)
        order == SetToSortSeq(DOMAIN s, LAMBDA i, j :
                     s[i] > s[j] \/ (s[i] = s[j] /\ i < j))
        k == 100 - tp
        popped == [n \in 1..k |-> order[Len(order) + 1 - n]]
        rest == SubSeq(order, 1, Len(order) - k)
    IN IF tp >= 100 THEN <<>>
       ELSE [n \in 1..k |-> <<pr.choices[popped[n]].pool, s[popped[n]] + 1>>]
            \o [n \in 1..Len(rest) |-> <<pr.choices[rest[n]].pool, s[rest[n]]>>]

-----------------------------------------------------------------------------
(* contract.rs: the handlers                                               *)

(* get_voting_power: the sum, over the dao's duration values, of the      *)
(* sender's BalanceByDuration (a failing query counts 0); vp[h] is that   *)
(* sum.  The POOL_AMOUNTS it writes are never read.                       *)
GetVotingPower(h) == vp[h]

(* validate_options_custom: no more vote entries than the proposal has    *)
(* choices.                                                                *)
ValidateOptionsCustom(l, pr) == Len(l) <= Len(pr.choices)

(* execute_propose, behind the dispatcher's admin check.  The new         *)
(* proposal copies the LOOP proposal's expiration and start time; its     *)
(* options must be pools of the LOOP proposal (repeats are not refused).  *)
(* vote_power - locked_amount is a Uint128 subtraction that panics when   *)
(* the power has fallen below the locked amount.                           *)
(* verifying_voting_period: min_pending_period <= pending <= the LOOP      *)
(* proposal's voting_period, all in seconds.                               *)
VerifyingVotingPeriod(pending) ==
    config.minPending <= pending /\ pending <= LoopPeriod

execute_propose(s, in) ==
    LET power == GetVotingPower(s)  id == count + 1  IN
    /\ count < MaxProposals
    /\ IF /\ s = Admin
          /\ power > 0
          /\ ~LoopClosed
          /\ VerifyingVotingPeriod(in.pending)
          /\ locked <= power /\ power - locked >= config.limit
          /\ \A i \in DOMAIN in.options : in.options[i] \in LoopPools
       THEN /\ locked' = locked + config.limit
            /\ count' = id
            /\ version' = AdvanceVersion(id)
            /\ props' = [props EXCEPT ![id] =
                  [status |-> "Open", exp |-> loop.exp, start |-> loop.start,
                   pending |-> in.pending, total |-> 0,
                   choices |-> [i \in DOMAIN in.options |->
                                   [pool |-> in.options[i], power |-> 0]]]]
            /\ Done("propose", None)
            /\ UNCHANGED <<ballots, config, vp, loop, now, stakes, nvotes>>
       ELSE Failed

(* One entry of the ballot loop of execute_vote: find the first choice   *)
(* for the pool (unwrap panics when there is none), take an existing     *)
(* ballot's power off the choice and off total_power (both panic on       *)
(* underflow), store the new ballot power * pct / 100 and add that to the *)
(* choice.  allow_revoting is always false, so the re-vote branch is the  *)
(* one at lines 689-701.  Mutant: the choice gets the whole power.        *)
VoteStep_full(power, r, e) ==
    LET i == SelectInSeq(r.ch, LAMBDA c : c.pool = e[1])
        b == IF r.bal[e[1]] = None THEN 0 ELSE r.bal[e[1]]
    IN IF ~r.ok \/ i = 0 \/ r.ch[i].power < b \/ r.total < b
       THEN [r EXCEPT !.ok = FALSE]
       ELSE [r EXCEPT !.ch[i].power = @ - b + power,
                      !.total = @ - b, !.bal[e[1]] = Pct(power, e[2])]
VoteStep(power, r, e) ==
    LET i == SelectInSeq(r.ch, LAMBDA c : c.pool = e[1])
        b == IF r.bal[e[1]] = None THEN 0 ELSE r.bal[e[1]]
    IN IF ~r.ok \/ i = 0 \/ r.ch[i].power < b \/ r.total < b
       THEN [r EXCEPT !.ok = FALSE]
       ELSE [r EXCEPT !.ch[i].power = @ - b + Pct(power, e[2]),
                      !.total = @ - b, !.bal[e[1]] = Pct(power, e[2])]

(* A proposal whose LOOP proposal has moved to a later round, found in a *)
(* finished state: advance_proposal_version and update_props.             *)
Upgradable(pr) == loop.exp > pr.exp

(* execute_vote.  A finished or voting-closed proposal is reopened first  *)
(* when the LOOP round has moved on; total_power then grows by the whole  *)
(* voting power, whatever percentages the list gives; update_status runs  *)
(* with the plain expiry.                                                  *)
execute_vote(u, p, l) ==
    LET pr == props[p]
        st == CurrentStatusCustom(pr)
        up == st \in {"Executed", "Rejected", "VotingClosed"}
        pr1 == IF up THEN UpdateProps(pr) ELSE pr
        bal0 == IF up THEN NoBallots ELSE ballots[p]
        r == FoldLeft(LAMBDA acc, e : VoteStep(GetVotingPower(u), acc, e),
                      [ch |-> pr1.choices, total |-> pr1.total,
                       bal |-> bal0[u], ok |-> TRUE], l)
        pr2 == [pr1 EXCEPT !.choices = r.ch, !.total = r.total + GetVotingPower(u)]
    IN /\ nvotes < MaxVotes
       /\ pr # None /\ up => version[p] < MaxVersions
       /\ IF /\ pr # None
             /\ ValidateOptionsCustom(l, pr)
             /\ GetVotingPower(u) > 0
             /\ st # "Closed"
             /\ up => Upgradable(pr)
             /\ PctSum(l) <= 100
             /\ r.ok
          THEN /\ props' = [props EXCEPT ![p] =
                               [pr2 EXCEPT !.status = CurrentStatus(pr2)]]
               /\ ballots' = [ballots EXCEPT ![p] = [bal0 EXCEPT ![u] = r.bal]]
               /\ version' = IF up THEN AdvanceVersion(p) ELSE version
               /\ nvotes' = nvotes + 1
               /\ Done("vote", None)
               /\ UNCHANGED <<count, locked, config, vp, loop, now, stakes>>
          ELSE Failed

(* execute_execute and execute_reject: any holder with power, once the    *)
(* proposal's custom status is VotingClosed.  When the LOOP round has     *)
(* moved on they advance the version and run update_props on a local copy *)
(* that is never saved: the stored proposal keeps its expiry, tallies and *)
(* status, and only the new version's BALLOTS (empty) change.  Otherwise  *)
(* Execute builds the execution message and sets Executed, Reject sets    *)
(* Rejected, and the proposal is saved.                                    *)
Finish(op, u, p, status) ==
    LET pr == props[p] IN
    /\ pr # None /\ Upgradable(pr) => version[p] < MaxVersions
    /\ IF /\ pr # None
          /\ GetVotingPower(u) > 0
          /\ CurrentStatusCustom(pr) = "VotingClosed"
       THEN IF ~Upgradable(pr) /\ op = "execute" /\ ~ExecMsgOk(pr)
            THEN Panicked(op)
            ELSE /\ IF Upgradable(pr)
                    THEN /\ version' = AdvanceVersion(p)
                         /\ ballots' = [ballots EXCEPT ![p] = NoBallots]
                         /\ Done(op, None)
                         /\ UNCHANGED props
                    ELSE /\ props' = [props EXCEPT ![p].status = status]
                         /\ Done(op, IF op = "execute" THEN ExecMsg(pr) ELSE None)
                         /\ UNCHANGED <<version, ballots>>
                 /\ UNCHANGED <<count, locked, config, vp, loop, now, stakes,
                                nvotes>>
       ELSE Failed
execute_execute(u, p) == Finish("execute", u, p, "Executed")
execute_reject(u, p) == Finish("reject", u, p, "Rejected")

(* execute_add_multiple_choice_options: no sender check; every option     *)
(* must be a LOOP pool not yet among the choices; they are appended with  *)
(* zero power.                                                             *)
execute_add_options(p, opts) ==
    LET pr == props[p] IN
    IF /\ pr # None
       /\ \A i \in DOMAIN opts : opts[i] \in LoopPools
                                /\ opts[i] \notin PoolsOf(pr.choices)
    THEN /\ props' = [props EXCEPT ![p].choices = @ \o
               [i \in DOMAIN opts |-> [pool |-> opts[i], power |-> 0]]]
         /\ Done("add_options", None)
         /\ UNCHANGED <<count, version, ballots, locked, config, vp, loop, now,
                        stakes, nvotes>>
    ELSE Failed

(* execute_remove_multiple_choice_options: no sender check; the choices   *)
(* for the listed pools are dropped, with their power, and the ballots    *)
(* and total_power are left as they are.                                   *)
execute_remove_options(p, opts) ==
    IF props[p] # None
    THEN /\ props' = [props EXCEPT ![p].choices =
               SelectSeq(@, LAMBDA c : c.pool \notin ToSet(opts))]
         /\ Done("remove_options", None)
         /\ UNCHANGED <<count, version, ballots, locked, config, vp, loop, now,
                        stakes, nvotes>>
    ELSE Failed

(* execute_close: the proposer only, and only while voting_start_time +   *)
(* token_hold_duration >= now; the current limit is taken off the locked  *)
(* amount (a Uint128 subtraction that panics on underflow) and the        *)
(* proposal becomes Closed whatever its status was.  Mutant: the          *)
(* subtraction is not checked.                                             *)
execute_close_unchecked(s, p) ==
    LET pr == props[p] IN
    IF pr # None /\ s = Admin /\ pr.start + config.hold >= now
    THEN /\ locked' = locked - config.limit
         /\ props' = [props EXCEPT ![p].status = "Closed"]
         /\ Done("close", None)
         /\ UNCHANGED <<count, version, ballots, config, vp, loop, now, stakes,
                        nvotes>>
    ELSE Failed
execute_close(s, p) ==
    LET pr == props[p] IN
    IF /\ pr # None /\ s = Admin
       /\ pr.start + config.hold >= now
       /\ locked >= config.limit
    THEN /\ locked' = locked - config.limit
         /\ props' = [props EXCEPT ![p].status = "Closed"]
         /\ Done("close", None)
         /\ UNCHANGED <<count, version, ballots, config, vp, loop, now, stakes,
                        nvotes>>
    ELSE Failed

(* validate_voting_period: min <= max and pending <= max.                 *)
ValidateVotingPeriod(min, pending, max) == min <= max /\ pending <= max

(* execute_update_config: admin only; the periods are validated again.    *)
execute_update_config(s, c) ==
    IF s = Admin /\ ValidateVotingPeriod(MinVoting, c.minPending, MaxVoting)
    THEN /\ config' = c
         /\ Done("update_config", None)
         /\ UNCHANGED <<props, count, version, ballots, locked, vp, loop, now,
                        stakes, nvotes>>
    ELSE Failed

-----------------------------------------------------------------------------
(* The environment                                                         *)

Tick == /\ now < MaxTime
        /\ now' = now + 1
        /\ UNCHANGED <<props, count, version, ballots, locked, config, vp,
                       loop, lastTx, stakes, nvotes>>

(* The LOOP gauge opens its proposal's next round once it has expired.    *)
LoopAdvance == /\ loop.rounds < MaxRounds /\ now >= loop.exp
               /\ loop' = [start |-> now, exp |-> now + LoopPeriod,
                           rounds |-> loop.rounds + 1]
               /\ UNCHANGED <<props, count, version, ballots, locked, config,
                              vp, now, lastTx, stakes, nvotes>>

(* A holder stakes or unstakes veSYNE.                                     *)
PowerChange(u, n) == /\ stakes < MaxStakes /\ vp[u] # n
                     /\ vp' = [vp EXCEPT ![u] = n] /\ stakes' = stakes + 1
                     /\ UNCHANGED <<props, count, version, ballots, locked,
                                    config, loop, now, lastTx, nvotes>>

Init ==
    /\ props = [p \in Ids |-> None]
    /\ count = 0
    /\ version = [p \in Ids |-> 0]
    /\ ballots = [p \in Ids |-> NoBallots]
    /\ locked = 0
    /\ config = InitConfig
    /\ vp \in [Holders -> Powers]
    /\ loop = [start |-> 0, exp |-> LoopFirstExp, rounds |-> 0]
    /\ now = 0
    /\ lastTx = [op |-> "instantiate", ok |-> TRUE, sent |-> None]
    /\ stakes = 0
    /\ nvotes = 0

Next ==
    \/ \E s \in Holders, in \in ProposeInputs : execute_propose(s, in)
    \/ \E u \in Holders, p \in Ids, l \in VoteLists : execute_vote(u, p, l)
    \/ \E u \in Holders, p \in Ids : execute_execute(u, p)
    \/ \E u \in Holders, p \in Ids : execute_reject(u, p)
    \/ \E p \in Ids, o \in OptionLists : execute_add_options(p, o)
    \/ \E p \in Ids, o \in OptionLists : execute_remove_options(p, o)
    \/ \E s \in Holders, p \in Ids : execute_close(s, p)
    \/ \E s \in Holders, c \in ConfigUpdates : execute_update_config(s, c)
    \/ Tick
    \/ LoopAdvance
    \/ \E u \in Holders, n \in Powers : PowerChange(u, n)

Spec == Init /\ [][Next]_vars

-----------------------------------------------------------------------------
(* Properties                                                              *)

Statuses == {"Open", "VotingClosed", "Executed", "Rejected", "Closed"}
BallotPower(p, h, o) == IF ballots[p][h][o] = None THEN 0 ELSE ballots[p][h][o]

TypeOK ==
    /\ count \in 0..MaxProposals /\ locked \in Nat
    /\ version \in [Ids -> Nat] /\ vp \in [Holders -> Powers]
    /\ \A p \in Ids, h \in Holders, o \in Pools :
          ballots[p][h][o] \in Nat \cup {None}
    /\ \A p \in Ids : props[p] = None \/
          /\ props[p].status \in Statuses /\ props[p].total \in Nat
          /\ \A i \in DOMAIN props[p].choices :
                props[p].choices[i].pool \in Pools
                /\ props[p].choices[i].power \in Nat

(* execute_vote adds a voter's whole power to total_power but only the    *)
(* percentage shares to the choices, and a re-vote takes the old ballots  *)
(* off both: through votes, re-votes, option removal and new rounds the   *)
(* choices together never hold more than total_power, which               *)
(* calculate_vote_result divides by.                                      *)
ChoicesWithinTotal ==
    \A p \in Ids : props[p] # None =>
        PowerSum(props[p].choices) <= props[p].total

(* Every unit of power on a choice of a proposal in its current LOOP       *)
(* round is backed by the ballots of the current version for its pool:    *)
(* re-votes move the two together, a vote that starts a new round         *)
(* (update_props) clears both, and a removed and re-added choice starts   *)
(* again from zero.  A proposal whose round has passed is excluded: an    *)
(* Execute or Reject there advances the version without saving the        *)
(* reset proposal, and its stale tallies are only read again by the vote  *)
(* that reopens it, which resets them.                                     *)
ChoiceBackedByBallots ==
    \A p \in Ids : props[p] # None /\ ~Upgradable(props[p]) =>
        \A i \in DOMAIN props[p].choices :
            props[p].choices[i].power <=
                MapThenSumSet(LAMBDA h :
                    BallotPower(p, h, props[p].choices[i].pool), Holders)

(* An Execute of a proposal whose voting closed, by a holder with power,  *)
(* goes through (get_execution_message does not panic popping more        *)
(* entries than the vote has), and when it ends a round rather than       *)
(* reopening the proposal, the vote it forwards to the LOOP staker gives  *)
(* out exactly 100 percent among the proposal's pools.                    *)
ExecuteForwardsFullVote ==
    [][lastTx'.op = "execute"
         => /\ lastTx'.ok
            /\ lastTx'.sent # None => PctSum(lastTx'.sent) = 100]_vars

====
