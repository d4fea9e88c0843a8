------------------------------ MODULE MCStaking ------------------------------
(***************************************************************************)
(* Instances of Staking for TLC.                                            *)
(***************************************************************************)
EXTENDS Staking

CONSTANTS alice, bob, staking

\* Alice holds everything at first.
MCInitialBalances == [a \in Accounts |-> IF a = alice THEN Supply ELSE 0]
=============================================================================
