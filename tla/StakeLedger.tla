---------------------------- MODULE StakeLedger ----------------------------
(***************************************************************************)
(* What a staking contract promises its stakers, seen from their side and *)
(* with every operation one atomic step (spec.md 4.2, 4.5, 5, 7 for the   *)
(* bLOOP vault; loopswap_farming makes the same promise for LP tokens):   *)
(*   stake[u], staked   the stake ledger and its total                    *)
(*   wallet[u]          u's balance of the staked token                   *)
(*   lp[u]              u's balance of the token converted into it        *)
(*                      (LOOP for bLOOP; none for the farm)               *)
(* Each operation touches one staker only. A settlement may pay that      *)
(* staker some reward, of an amount this level leaves open; nothing else  *)
(* moves a staker's tokens. Deferrals, reply chains, upstream income and  *)
(* fee balances are invisible here: a transaction that fails or only      *)
(* moves income is a stuttering step.                                     *)
(***************************************************************************)
EXTENDS Integers, Functions

CONSTANTS
    Users,     \* stakers
    Amounts,   \* amounts a staker converts, stakes or unstakes
    LoopInit,  \* each staker's initial LOOP balance
    WalletInit \* each staker's initial balance of the staked token

VARIABLES stake, staked, wallet, lp

avars == <<stake, staked, wallet, lp>>

(* Only u's entries change; u's bLOOP ends at least at `least`. *)
Settle(u, least) ==
    /\ wallet' \in [Users -> Nat]
    /\ wallet'[u] >= least
    /\ \A o \in Users \ {u} : wallet'[o] = wallet[o]

(* Convert: a LOOP become a bLOOP, and u is settled. *)
Convert(u, a) ==
    /\ 0 < a /\ a <= lp[u]
    /\ lp' = [lp EXCEPT ![u] = @ - a]
    /\ Settle(u, wallet[u] + a)
    /\ UNCHANGED <<stake, staked>>

(* Stake: a bLOOP leave the wallet for the ledger, u is settled. *)
Bond(u, a) ==
    /\ 0 < a /\ a <= wallet[u]
    /\ stake' = [stake EXCEPT ![u] = @ + a]
    /\ staked' = staked + a
    /\ Settle(u, wallet[u] - a)
    /\ UNCHANGED lp

(* Unstake: 0 < a <= stake[u]; the a bLOOP come back with u's reward. *)
Unbond(u, a) ==
    /\ 0 < a /\ a <= stake[u]
    /\ stake' = [stake EXCEPT ![u] = @ - a]
    /\ staked' = staked - a
    /\ Settle(u, wallet[u] + a)
    /\ UNCHANGED lp

(* ClaimReward: settle only. *)
Claim(u) ==
    /\ Settle(u, wallet[u])
    /\ UNCHANGED <<stake, staked, lp>>

Init ==
    /\ stake = [u \in Users |-> 0]
    /\ staked = 0
    /\ wallet = [u \in Users |-> WalletInit]
    /\ lp = [u \in Users |-> LoopInit]

Next ==
    \E u \in Users :
        \/ Claim(u)
        \/ \E a \in Amounts : Convert(u, a) \/ Bond(u, a) \/ Unbond(u, a)

Spec == Init /\ [][Next]_avars

=============================================================================
