---------------------------- MODULE GaugeSystem ----------------------------
(***************************************************************************)
(* The synergistic_wynd_gauge contract (src/contracts/synergistic_wynd_   *)
(* gauge) for one gauge: voters place weighted votes on options, the      *)
(* voting-power contract reports stake changes through MemberChangedHook, *)
(* the owner adds, removes and tunes, and Execute forwards the selected   *)
(* set to the WYND staker once per WYND gauge epoch.                      *)
(*                                                                         *)
(* Each handler runs to completion inside one transaction; an error or a   *)
(* panic reverts it, which is modelled as a step that only records the     *)
(* failed call in lastTx.  Time is an integer clock; the WYND gauge is the *)
(* environment that moves its own next_epoch forward.                      *)
(***************************************************************************)
EXTENDS Integers, Sequences, FiniteSets, SequencesExt

CONSTANTS
    Voters,        \* addresses with stake in the voting-power contract
    Owner,         \* config.owner
    VotingPowers,  \* config.voting_powers, the only caller of the hook
    Callers,       \* senders of the owner's messages: Owner and others
    None,          \* Option::None / an absent map entry
    Options,       \* option names, ordered like their strings (naturals)
    InitOptions,   \* options the adapter lists when the gauge is attached
    Powers,        \* voting powers the staking contract can report
    WDen,          \* vote weights are Decimals k / WDen
    PDen,          \* gauge percentages are Decimals k / PDen
    Ballots,       \* vote lists PlaceVotes is called with: <<option, k>>
    GaugeUpdates,  \* argument records UpdateGauge is called with
    Epoch,         \* the WYND gauge's epoch length
    PendingSize,   \* gauge.epoch_pending_size
    FirstEpoch,    \* WYND gauge next_epoch when the gauge is attached
    MaxTime,       \* bound on the block clock
    MaxEpochs      \* bound on LAST_EPOCH

ASSUME /\ InitOptions \subseteq Options /\ Options \subseteq Nat
       /\ WDen \in Nat \ {0} /\ PDen \in Nat \ {0}
       /\ FirstEpoch >= PendingSize

VARIABLES
    tally,      \* TALLY: option -> points, None when the key is absent
    totalCast,  \* TOTAL_CAST
    byPoints,   \* OPTION_BY_POINTS: the set of <<points, option>> keys
    votes,      \* VOTES: voter -> None or [power, votes: Seq(<<option,k>>)]
    vp,         \* voting power the staking contract currently reports
    gauge,      \* GAUGES[0]: is_stopped, next_epoch, selection parameters
    wne,        \* the WYND gauge's next_epoch
    now,        \* env.block.time
    history,    \* VOTE_HISTORY in LAST_EPOCH order: [ne, set, executed]
    lastTx,     \* the last call and whether it succeeded
    removed     \* options RemoveOption has taken out (history only)

vars == <<tally, totalCast, byPoints, votes, vp, gauge, wne, now, history,
          lastTx, removed>>
Exists(o) == tally[o] # None

(* Uint128 * Decimal(k / den), rounded down *)
MulDec(n, k, den) == (n * k) \div den

Done(op)   == lastTx' = [op |-> op, ok |-> TRUE]
Failed(op) == /\ lastTx' = [op |-> op, ok |-> FALSE]
              /\ UNCHANGED <<tally, totalCast, byPoints, votes, vp, gauge,
                             wne, now, history, removed>>

-----------------------------------------------------------------------------
(* state.rs: the tally and its sorted index                                *)

(* update_tallies: apply (option, old, new) triples in order, then move    *)
(* TOTAL_CAST by sum(new) - sum(old).  ok is FALSE when a u128 subtraction *)
(* underflows, which panics and reverts the call.                          *)
(* Mutants of TallyStep: no underflow check, the old points not taken     *)
(* off, the old index key left behind.                                     *)
TallyStep_unchecked(st, u) ==
    LET o == u[1]  oldCount == st.tally[o]
        count == (IF oldCount = None THEN 0 ELSE oldCount) + u[3] - u[2]
    IN [st EXCEPT !.tally[o] = count,
                  !.idx = (@ \ {<<oldCount, o>>}) \cup {<<count, o>>},
                  !.old = @ + u[2], !.new = @ + u[3]]
TallyStep_noold(st, u) ==
    LET o == u[1]  oldCount == st.tally[o]
        count == (IF oldCount = None THEN 0 ELSE oldCount) + u[3]
    IN [st EXCEPT !.tally[o] = count,
                  !.idx = (@ \ {<<oldCount, o>>}) \cup {<<count, o>>},
                  !.old = @ + u[2], !.new = @ + u[3]]
TallyStep_keepkey(st, u) ==
    LET o == u[1]  oldCount == st.tally[o]
        count == (IF oldCount = None THEN 0 ELSE oldCount) + u[3] - u[2]
    IN [st EXCEPT !.tally[o] = count,
                  !.idx = @ \cup {<<count, o>>},
                  !.ok = @ /\ count >= 0,
                  !.old = @ + u[2], !.new = @ + u[3]]

TallyStep(st, u) ==
    LET o == u[1]  oldCount == st.tally[o]
        count == (IF oldCount = None THEN 0 ELSE oldCount) + u[3] - u[2]
    IN [st EXCEPT !.tally[o] = count,
                  !.idx = (@ \ {<<oldCount, o>>}) \cup {<<count, o>>},
                  !.ok = @ /\ count >= 0,
                  !.old = @ + u[2], !.new = @ + u[3]]

update_tallies(st, updates) ==
    LET r == FoldLeft(TallyStep, [st EXCEPT !.old = 0, !.new = 0], updates)
    IN [r EXCEPT !.total = r.total + r.new - r.old,
                 !.ok = @ /\ r.total + r.new >= r.old]

TallyState == [tally |-> tally, idx |-> byPoints, total |-> totalCast,
               ok |-> TRUE, old |-> 0, new |-> 0]

Commit(st) == /\ st.ok
              /\ tally' = st.tally /\ byPoints' = st.idx /\ totalCast' = st.total

(* Mutant: TOTAL_CAST left as it was. *)
remove_tally_keeptotal(o) ==
    /\ tally' = [tally EXCEPT ![o] = None]
    /\ totalCast' = totalCast
    /\ byPoints' = byPoints \ {<<tally[o], o>>}

(* remove_tally *)
remove_tally(o) ==
    /\ tally' = [tally EXCEPT ![o] = None]
    /\ totalCast' = totalCast - tally[o]
    /\ byPoints' = byPoints \ {<<tally[o], o>>}

-----------------------------------------------------------------------------
(* query::selected_set: OPTION_BY_POINTS walked in descending key order,   *)
(* filtered by min_percent_selected (or points # 0), capped at             *)
(* max_available_percentage of TOTAL_CAST, the first max_options_selected. *)
(* Mutant: the index walked in ascending order. *)
KeyAbove_ascending(a, b) == a[1] < b[1] \/ (a[1] = b[1] /\ a[2] < b[2])
KeyAbove(a, b) == a[1] > b[1] \/ (a[1] = b[1] /\ a[2] > b[2])

Kept(k) == IF gauge.minPct = None THEN k[1] # 0
           ELSE k[1] * PDen >= gauge.minPct * totalCast

Capped(k) == IF gauge.maxAvail # None /\ k[1] * PDen > gauge.maxAvail * totalCast
             THEN <<k[2], MulDec(totalCast, gauge.maxAvail, PDen)>>
             ELSE <<k[2], k[1]>>

selected_set ==
    IF totalCast = 0 THEN <<>>
    ELSE LET s == SelectSeq(SetToSortSeq(byPoints, KeyAbove), Kept)
         IN [i \in 1..IF Len(s) < gauge.maxOpt THEN Len(s) ELSE gauge.maxOpt
                 |-> Capped(s[i])]

(* Decimal::from_ratio(power, sum) panics when the selected powers sum to  *)
(* zero while the set is not empty.                                        *)
RatiosPanic(set) == set # <<>> /\ \A i \in DOMAIN set : set[i][2] = 0

(* Gauge::is_pending *)
is_pending == \/ now > gauge.ne - PendingSize /\ now <= gauge.ne
              \/ now > gauge.ne /\ now > wne

(* update_epoch: record the epoch, LAST_EPOCH + 1, next_epoch := WYND's *)
update_epoch(set, executed) ==
    /\ Len(history) < MaxEpochs
    /\ history' = Append(history, [ne |-> gauge.ne, set |-> set, executed |-> executed])

-----------------------------------------------------------------------------
(* Handlers                                                                *)

(* The points a list of votes gives option o at power p: the entry a       *)
(* HashMap built from the list keeps, i.e. the last one naming o.          *)
LastPoints(list, o, p) ==
    LET i == SelectLastInSeq(list, LAMBDA e : e[1] = o)
    IN IF i = 0 THEN 0 ELSE MulDec(p, list[i][2], WDen)

Named(list) == {list[i][1] : i \in DOMAIN list}

WeightSum(list) == FoldLeft(LAMBDA acc, e : acc + e[2], 0, list)

(* member_changed: the voting-power contract reports one voter's power     *)
(* going from vp[u] to p; each entry of the voter's vote moves the tally  *)
(* from old * weight to new * weight and the vote keeps power p.  The     *)
(* hook runs inside the staking transaction, so when it fails the stake   *)
(* change fails with it.  Votes never expire: reset is None for every     *)
(* attached gauge and migrate does not set it.                             *)
member_changed(u, p) ==
    LET v  == votes[u]
        st == IF v = None THEN TallyState
              ELSE update_tallies(TallyState,
                     [i \in DOMAIN v.votes |->
                        <<v.votes[i][1], MulDec(vp[u], v.votes[i][2], WDen),
                          MulDec(p, v.votes[i][2], WDen)>>])
    IN /\ p # vp[u]
       /\ IF st.ok
          THEN /\ Commit(st)
               /\ vp' = [vp EXCEPT ![u] = p]
               /\ votes' = IF v = None THEN votes ELSE [votes EXCEPT ![u].power = p]
               /\ Done("stake_change")
               /\ UNCHANGED <<gauge, wne, now, history, removed>>
          ELSE Failed("stake_change")

(* MemberChangedHook from anyone but config.voting_powers *)
member_changed_unauthorized == Failed("member_changed")

(* get_voting_power: the sum, over the dao's duration values, of the      *)
(* voter's BalanceByDuration (a failing query counts 0); vp[u] is that    *)
(* sum.                                                                    *)
GetVotingPower(u) == vp[u]

(* place_votes: first checks in code order, then the (old, new) diff per   *)
(* option, the existence check for options not voted before, the tally    *)
(* update, and the stored vote.  Entering a new epoch (past next_epoch,   *)
(* before WYND's) records the epoch as not executed first; a later error  *)
(* reverts that too.                                                       *)
place_votes(u, b) ==
    LET newEpoch == now > gauge.ne /\ now < wne
        set      == selected_set
        prev     == votes[u]
        prevList == IF prev = None THEN <<>> ELSE prev.votes
        prevPow  == IF prev = None THEN 0 ELSE prev.power
        power    == GetVotingPower(u)
        diff     == SetToSeq(Named(prevList) \cup Named(b))
        updates  == [i \in DOMAIN diff |->
                       <<diff[i], LastPoints(prevList, diff[i], prevPow),
                                  LastPoints(b, diff[i], power)>>]
        st       == update_tallies(TallyState, updates)
        unknown  == \E i \in DOMAIN updates : updates[i][2] = 0 /\ ~Exists(updates[i][1])
    IN /\ newEpoch => Len(history) < MaxEpochs
       /\ IF \/ is_pending
             \/ newEpoch /\ RatiosPanic(set)
             \/ WeightSum(b) > WDen
             \/ power = 0
             \/ prev = None /\ b = <<>>
             \/ unknown
             \/ ~st.ok
          THEN Failed("place_votes")
          ELSE /\ Commit(st)
               /\ votes' = [votes EXCEPT ![u] = IF b = <<>> THEN None
                                                ELSE [power |-> power, votes |-> b]]
               /\ IF newEpoch
                  THEN /\ update_epoch(set, FALSE)
                       /\ gauge' = [gauge EXCEPT !.ne = wne]
                  ELSE UNCHANGED <<history, gauge>>
               /\ Done("place_votes")
               /\ UNCHANGED <<vp, wne, now, removed>>

(* execute: anyone may call it while the gauge is pending; it stores the   *)
(* selected set as last_executed_set, sends it to the WYND staker as      *)
(* PlaceVotes (outside the model) and records the epoch as executed.      *)
execute ==
    LET set == selected_set
    IN /\ Len(history) < MaxEpochs
       /\ IF gauge.stopped \/ ~is_pending \/ RatiosPanic(set)
          THEN Failed("execute")
          ELSE /\ gauge' = [gauge EXCEPT !.lastSet = set, !.ne = wne]
               /\ update_epoch(set, TRUE)
               /\ Done("execute")
               /\ UNCHANGED <<tally, totalCast, byPoints, votes, vp, wne, now, removed>>

(* add_option through ExecuteMsg::AddOption: called with check_option =    *)
(* false, so neither the adapter nor the sender's power is consulted.      *)
add_option(o) ==
    IF Exists(o) THEN Failed("add_option")
    ELSE /\ Commit(update_tallies(TallyState, <<<<o, 0, 0>>>>))
         /\ Done("add_option")
         /\ UNCHANGED <<votes, vp, gauge, wne, now, history, removed>>

remove_option(s, o) ==
    IF ~Exists(o) \/ s # Owner THEN Failed("remove_option")
    ELSE /\ remove_tally(o)
         /\ removed' = removed \cup {o}
         /\ Done("remove_option")
         /\ UNCHANGED <<votes, vp, gauge, wne, now, history>>

stop_gauge(s) ==
    IF s # Owner THEN Failed("stop_gauge")
    ELSE /\ gauge' = [gauge EXCEPT !.stopped = TRUE]
         /\ Done("stop_gauge")
         /\ UNCHANGED <<tally, totalCast, byPoints, votes, vp, wne, now, history, removed>>

(* update_gauge: a percentage of 0 clears it, one of 1 or more is refused, *)
(* max_options_selected must be positive; None leaves a field alone.       *)
PctOk(x) == x = None \/ x < PDen
Pct(x, cur) == IF x = None THEN cur ELSE IF x = 0 THEN None ELSE x

update_gauge(s, a) ==
    IF s # Owner \/ ~PctOk(a.minPct) \/ a.maxOpt = 0 \/ ~PctOk(a.maxAvail)
    THEN Failed("update_gauge")
    ELSE /\ gauge' = [gauge EXCEPT
                        !.minPct = Pct(a.minPct, @),
                        !.maxOpt = IF a.maxOpt = None THEN @ ELSE a.maxOpt,
                        !.maxAvail = Pct(a.maxAvail, @)]
         /\ Done("update_gauge")
         /\ UNCHANGED <<tally, totalCast, byPoints, votes, vp, wne, now, history, removed>>

-----------------------------------------------------------------------------
(* Environment: the clock and the WYND gauge's own Execute, which moves    *)
(* its next_epoch one epoch past the time it runs.                         *)
Tick == /\ now < MaxTime
        /\ now' = now + 1
        /\ UNCHANGED <<tally, totalCast, byPoints, votes, vp, gauge, wne, history, lastTx, removed>>

WyndExecute == /\ now >= wne
               /\ wne' = now + Epoch
               /\ UNCHANGED <<tally, totalCast, byPoints, votes, vp, gauge, now, history, lastTx, removed>>

-----------------------------------------------------------------------------
(* instantiate + attach_gauge: the adapter's options with 0 points, the    *)
(* WYND gauge's selection parameters and next_epoch, LAST_EPOCH 0.         *)
Init ==
    /\ tally = [o \in Options |-> IF o \in InitOptions THEN 0 ELSE None]
    /\ totalCast = 0
    /\ byPoints = {<<0, o>> : o \in InitOptions}
    /\ votes = [u \in Voters |-> None]
    /\ vp \in [Voters -> Powers]
    /\ gauge = [stopped |-> FALSE, ne |-> FirstEpoch, minPct |-> None,
                maxOpt |-> Cardinality(Options), maxAvail |-> None, lastSet |-> None]
    /\ wne = FirstEpoch
    /\ now = 0
    /\ history = <<>>
    /\ lastTx = [op |-> "instantiate", ok |-> TRUE]
    /\ removed = {}

Next ==
    \/ \E u \in Voters, p \in Powers : member_changed(u, p)
    \/ member_changed_unauthorized
    \/ \E u \in Voters, b \in Ballots : place_votes(u, b)
    \/ execute
    \/ \E o \in Options : add_option(o)
    \/ \E s \in Callers, o \in Options : remove_option(s, o)
    \/ \E s \in Callers : stop_gauge(s)
    \/ \E s \in Callers, a \in GaugeUpdates : update_gauge(s, a)
    \/ Tick
    \/ WyndExecute

Spec == Init /\ [][Next]_vars

-----------------------------------------------------------------------------
(* Properties                                                              *)

Vote == Options \X (1..WDen)
Key  == (Nat \cup {None}) \X Options

TypeOK ==
    /\ tally \in [Options -> Nat \cup {None}]
    /\ totalCast \in Nat
    /\ byPoints \subseteq Key
    /\ votes \in [Voters -> {None} \cup [power : Powers, votes : Seq(Vote)]]
    /\ vp \in [Voters -> Powers]
    /\ gauge.stopped \in BOOLEAN /\ gauge.ne \in Nat
    /\ removed \subseteq Options
    /\ Len(history) <= MaxEpochs

(* The points a stored vote gives option o: every entry naming o counts,   *)
(* the way member_changed walks the entries.                               *)
Contribution(u, o) ==
    IF votes[u] = None THEN 0
    ELSE FoldLeft(LAMBDA acc, e : acc + IF e[1] = o THEN MulDec(votes[u].power, e[2], WDen)
                                        ELSE 0,
                  0, votes[u].votes)

Live == {o \in Options : Exists(o)}

(* TALLY of every option the owner never removed equals the points the     *)
(* stored votes give it at the powers they store: place_votes' diff and    *)
(* member_changed's updates keep the tally in step with VOTES.             *)
TallyMatchesVotes ==
    \A o \in Live \ removed :
        tally[o] = MapThenSumSet(LAMBDA u : Contribution(u, o), Voters)

(* OPTION_BY_POINTS holds exactly one key per option in TALLY, carrying    *)
(* its current points: update_tallies and remove_tally drop the stale key, *)
(* so selected_set never sees an option twice or at old points.           *)
IndexMatchesTally ==
    byPoints = {<<tally[o], o>> : o \in Live}

(* TOTAL_CAST is the sum of TALLY over the options present, so the         *)
(* min/max percentages of selected_set are taken of the right total.      *)
TotalCastIsSum ==
    totalCast = MapThenSumSet(LAMBDA o : tally[o], Live)

(* The staking contract's stake changes never fail in the gauge's hook.    *)
StakeChangeSucceeds ==
    lastTx.op = "stake_change" => lastTx.ok

(* A set Execute forwards is ranked by TALLY: distinct options present in  *)
(* TALLY, in non-increasing points, none with 0 points unless a minimum    *)
(* percentage admits it, at most max_options_selected of them, and no      *)
(* option left out has more points than one taken.                         *)
Ranked(set) ==
    LET opts == {set[i][1] : i \in DOMAIN set}
    IN /\ Cardinality(opts) = Len(set) /\ Len(set) <= gauge.maxOpt
       /\ opts \subseteq Live
       /\ \A i, j \in DOMAIN set : i < j => tally[set[i][1]] >= tally[set[j][1]]
       /\ gauge.minPct = None => \A o \in opts : tally[o] > 0
       /\ \A o \in Live \ opts, i \in DOMAIN set :
              Len(set) = gauge.maxOpt => tally[o] <= tally[set[i][1]]

(* Every successful Execute forwards a set ranked by the tally it read.     *)
ExecuteForwardsTop ==
    [][lastTx'.op = "execute" /\ lastTx'.ok => Ranked(gauge'.lastSet)]_vars

====
