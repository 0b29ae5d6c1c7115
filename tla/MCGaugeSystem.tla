--------------------------- MODULE MCGaugeSystem ---------------------------
(* Small instances of GaugeSystem for TLC. *)
EXTENDS GaugeSystem, TLC

CONSTANT Stranger   \* an address that is neither the owner nor a voter

MCCallers == {Owner, Stranger}
MCOwnerOnly == {Owner}

(* Weights are halves, percentages are halves. *)
MCWDen == 2
MCPDen == 2
MCOptions == {1, 2, 3}
MCInitOptions == {1, 2}
MCPowers == {0, 1, 2}

(* A full vote, a split vote, a vote for an option added later, an empty   *)
(* list (remove my vote) and a list whose weights sum above one.           *)
MCBallots == { <<>>, << <<1, 2>> >>, << <<2, 2>> >>, << <<1, 1>>, <<2, 1>> >>,
               << <<3, 1>> >>, << <<1, 2>>, <<2, 1>> >> }

(* The same, plus a list naming one option twice. *)
MCBallotsDup == MCBallots \cup { << <<1, 1>>, <<1, 1>> >> }

(* One option selected, at least half of the votes, at most half counted. *)
MCGaugeUpdateOne == { [minPct |-> 1, maxOpt |-> 1, maxAvail |-> 1] }

(* Argument records UpdateGauge refuses: a percentage of one, no options. *)
MCGaugeUpdatesBad ==
    { [minPct |-> 2, maxOpt |-> None, maxAvail |-> None],
      [minPct |-> None, maxOpt |-> 0, maxAvail |-> 0] }

MCEpoch == 3
MCPendingSize == 1
MCFirstEpoch == 2
(* Two WYND epochs fit in the clock: the pending window (1,2], WYND's      *)
(* Execute at 2 or later, and the next window three seconds on.            *)
MCMaxTime == 5
MCMaxEpochs == 1

(* The tally runs freeze the clock before the pending window: no epoch     *)
(* closes, so only the refused parameter updates are tried.                *)
MCNoTime == 0
MCNoEpochs == 0

(* The epoch runs: fixed powers and two lists, so that tallies both tie    *)
(* and differ when Execute reads them.                                     *)
MCPowersFixed == {2}
MCBallotsEpoch == { << <<1, 2>> >>, << <<1, 1>>, <<2, 1>> >> }

MCSymmetry == Permutations(Voters)
====
