------------------------------- MODULE MCFunding -------------------------------
(***************************************************************************)
(* Instances of DonationMiner and of Microcredit for TLC.  All the first      *)
(* knows of the second are virtual donations: a behaviour runs one of them    *)
(* and leaves the other where it starts.                                      *)
(***************************************************************************)
EXTENDS DonationMiner, Microcredit, TLC

CONSTANTS ana, ben

VARIABLE program

fundingVars == <<program, vars, microcreditVars>>

MCSettings ==
  [rewardPeriodSize |-> 2, decayNumerator |-> 1, decayDenominator |-> 2, claimDelay |-> 0,
   againstPeriods |-> 1, stakingDonationRatio |-> 0, communityDonationRatio |-> 2]

MCSettingChanges ==
  {<<"rewardPeriodSize", 1>>, <<"claimDelay", 1>>, <<"againstPeriods", 2>>, <<"stakingDonationRatio", 2>>}

Symmetry == Permutations({ana, ben})

MCInit == Init /\ MicrocreditInit /\ program \in {"donation miner", "microcredit"}

MCNext ==
  /\ program' = program
  /\ \/ program = "donation miner" /\ Next /\ UNCHANGED microcreditVars
     \/ program = "microcredit" /\ MicrocreditNext /\ UNCHANGED vars

MCSpec == MCInit /\ [][MCNext]_fundingVars
=============================================================================
