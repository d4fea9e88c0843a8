-------------------------- MODULE MCCommunityAdmin --------------------------
(***************************************************************************)
(* Instances of CommunityAdmin for TLC: one community, and in other         *)
(* behaviours a family of two.  The amount of a claim is 1 or 2, the gifts  *)
(* and tranches are of the same size.  Its owner is the council, and it     *)
(* names the ambassadors' communities: these two contracts do not depend    *)
(* on its state, and TLC checks them each by itself in the same run.        *)
(***************************************************************************)
EXTENDS CommunityAdmin, Ambassadors, Council, TLC

CONSTANTS
  alice, bob, manager, here, there, usd, eur, nobody,
  Programs   \* which of the contracts the run is about

Rule(original, max, step, base, increment) ==
  [originalClaimAmount |-> original, maxTotalClaim |-> max, decreaseStep |-> step,
   baseInterval |-> base, incrementInterval |-> increment]

\* A limit of 3 less 1 for each beneficiary, and the double of it.
TwoRules == {Rule(1, 3, 1, 2, 1), Rule(2, 6, 2, 2, 1)}
\* One claim each, at once.
Once == {Rule(1, 1, 0, 1, 0)}

SmallTranche == {[min |-> 1, max |-> 1]}

\* Tranches of all the treasury has, or of half of it and only from 1 on.  With
\* the ratio 2, claims may fall to half the original amount.
Setting(ratio, percentage, minimum) ==
  [minClaimAmountRatio |-> ratio, treasurySafetyPercentage |-> percentage, treasuryMinBalance |-> minimum]
Generous == Setting(1, 100, 0)
Careful == Setting(2, 50, 1)
GenerousOnly == {Generous}

NoFunds == [t \in Tokens |-> 0]
OneFund == [t \in Tokens |-> 1]

\* A family: a community that starts without funds is migrated or split, its people
\* join, move and are copied, and the treasury has income to pay tranches.
Family == INSTANCE CommunityAdmin WITH
  DefaultAmount <- 0, ManagerGift <- 0, RulesChoices <- Once, NewTokens <- {}, Donations <- {},
  InitialTreasury <- NoFunds, MaxTreasury <- 1, IncomeBlocks <- {1},
  InitialSettings <- Generous, SettingsChoices <- {}, MaxBlock <- 2

VARIABLE program   \* which of the four a behaviour is about

MCInit ==
  /\ program \in Programs
  /\ IF program = "family" THEN Family!Init ELSE Init
  /\ AmbassadorsInit /\ CouncilInit

MCNext ==
  /\ UNCHANGED program
  /\ \/ program = "community" /\ Next /\ UNCHANGED <<ambassadorsVars, councilVars>>
     \/ program = "family" /\ Family!Next /\ UNCHANGED <<ambassadorsVars, councilVars>>
     \/ program = "ambassadors" /\ AmbassadorsNext /\ UNCHANGED <<vars, councilVars>>
     \/ program = "council" /\ CouncilNext /\ UNCHANGED <<vars, ambassadorsVars>>

MCSpec == MCInit /\ [][MCNext]_<<vars, ambassadorsVars, councilVars, program>>

\* Bounds of the instances: managers stay, and communities are open and start with cUSD.
\* Only a step that removes a manager or locks a community leads out of it.
Managed == \A c \in Deployed : communities[c].managers = Managers
Open == \A c \in Deployed : ~communities[c].locked
WithCUSD == \A c \in Deployed : communities[c].tokenUpdates = <<>> => communities[c].token = CUSD

\* The family has one token, and stops at the removal of one of its communities.
FewRemovals ==
  /\ Open /\ \A t \in Tokens \ {CUSD} : treasury[t] = 0
  /\ \A c \in Deployed : status[c] # "Removed"

\* One community alone: in the last block it may be locked, or the council may have changed
\* the settings.
LateChanges ==
  /\ Deployed \subseteq NewCommunities
  /\ \/ Open /\ settings = InitialSettings
     \/ block = MaxBlock /\ (Open \/ settings = InitialSettings)

AloneOrFamily == Managed /\ WithCUSD /\ IF program = "family" THEN FewRemovals ELSE LateChanges

Symmetric == Permutations(People)
=============================================================================
