-------------------------- MODULE MCProposalSystem --------------------------
(* Instances of ProposalSystem for TLC: the admin and one other holder,    *)
(* two LOOP pools and one pool the LOOP proposal does not have, powers     *)
(* 0..2 so that percentage shares round, one LOOP round after the first.   *)
EXTENDS ProposalSystem

CONSTANT V1

MCHolders == {Admin, V1}
MCPools == {1, 2, 3}
MCLoopPools == {1, 2}
MCInitConfig == [limit |-> 1, hold |-> 2, minPending |-> 1]
MCConfigUpdates == {[limit |-> 2, hold |-> 2, minPending |-> 1]}
MCPowers == {1, 2}
MCProposeInputs == {[pending |-> 1, options |-> <<1, 2>>]}
MCVoteLists == {<<<<1, 100>>>>, <<<<2, 100>>>>, <<<<1, 50>>, <<2, 50>>>>,
                <<<<3, 100>>>>}
MCOptionLists == {<<2>>, <<3>>}
====
