----------------------------- MODULE DonationMiner -----------------------------
(***************************************************************************)
(* DonationMiner (contracts/donationMiner/DonationMinerImplementation.sol):   *)
(* every reward period gives its reward to those who donated in it or in the   *)
(* periods before it, as far back as againstPeriods says, and to those who     *)
(* have PACT staked.  A period without any is added to the next one.           *)
(*                                                                           *)
(* A call that finds the last period over begins the ones that are missing,    *)
(* with the settings of that moment.  Nobody need call for many periods.       *)
(***************************************************************************)
EXTENDS Integers, Sequences, FiniteSets, Functions

CONSTANTS
  Donors,
  StartingBlock,       \* the first block of the first period
  FirstReward,         \* the reward of a block of the first period
  InitialSettings,     \* the settings the contract begins with
  SettingChanges,      \* bound of the model: what the owner may set
  InitialBalance,      \* PACT of the contract
  DonationAmounts,     \* bound of the model: converted amounts of donations
  StakeAmounts,        \* bound of the model: what donors' stakes are changed to
  MaxCalls,            \* bound of the model: calls that change something
  MaxBlock             \* bound of the model: the last block

SettingNames == {"rewardPeriodSize", "decayNumerator", "decayDenominator", "claimDelay",
                 "againstPeriods", "stakingDonationRatio", "communityDonationRatio"}
Positive == {"rewardPeriodSize", "decayDenominator"}

ASSUME DonationMinerAssumption ==
  /\ IsFiniteSet(Donors)
  /\ StartingBlock \in Nat \ {0} /\ FirstReward \in Nat \ {0} /\ InitialBalance \in Nat
  /\ InitialSettings \in [SettingNames -> Nat]
  /\ SettingChanges \subseteq SettingNames \X Nat
  /\ \A s \in Positive : InitialSettings[s] > 0 /\ <<s, 0>> \notin SettingChanges
  /\ DonationAmounts \subseteq Nat /\ StakeAmounts \subseteq Nat
  /\ MaxCalls \in Nat /\ MaxBlock \in Nat

VARIABLES
  settings,
  rewardPeriods,  \* from 0, of which there is only what a claim may write, to rewardPeriodCount
  donors,         \* of every donor, the periods of the donations and lastClaimPeriod
  stakes,         \* Staking's stake of everybody
  balance,        \* PACT of the contract
  block,
  stakedAt,       \* history: the stakes at the end of each period, so far
  received,       \* history: what everybody was given
  forgone,        \* history: what everybody was not given for lack of PACT
  calls           \* how many calls there have been

minerVars == <<settings, rewardPeriods, donors, stakes, balance, block>>
vars == <<minerVars, stakedAt, received, forgone, calls>>

Nothing == [d \in Donors |-> 0]
NoPeriod ==
  [rewardPerBlock |-> 0, rewardAmount |-> 0, startBlock |-> 0, endBlock |-> 0, donationsAmount |-> 0,
   donorAmounts |-> Nothing, againstPeriods |-> 0, stakesAmount |-> 0, stakingDonationRatio |-> 0,
   hasSetStakeAmount |-> {}, donorStakeAmounts |-> Nothing]

CountOf(periods) == Cardinality(DOMAIN periods) - 1
rewardPeriodCount == CountOf(rewardPeriods)
Started == block >= rewardPeriods[1].startBlock

TypeOK ==
  /\ settings \in [SettingNames -> Nat]
  /\ DOMAIN rewardPeriods = 0..rewardPeriodCount
  /\ \A p \in 1..rewardPeriodCount : rewardPeriods[p].endBlock >= rewardPeriods[p].startBlock
  /\ \A d \in Donors : donors[d].lastClaimPeriod \in 0..rewardPeriodCount
  /\ stakes \in [Donors -> Nat] /\ received \in [Donors -> Nat] /\ forgone \in [Donors -> Nat]
  /\ balance \in Nat /\ block \in 0..MaxBlock

\* initialize, initFirstPeriod: the first period has neither againstPeriods nor a ratio.
Init ==
  /\ settings = InitialSettings
  /\ rewardPeriods = [p \in 0..1 |-> IF p = 0 THEN NoPeriod ELSE
       [NoPeriod EXCEPT !.rewardPerBlock = FirstReward,
                        !.rewardAmount = FirstReward * InitialSettings.rewardPeriodSize,
                        !.startBlock = StartingBlock,
                        !.endBlock = StartingBlock + InitialSettings.rewardPeriodSize - 1]]
  /\ donors = [d \in Donors |-> [rewardPeriods |-> << >>, lastClaimPeriod |-> 0]]
  /\ stakes = Nothing
  /\ balance = InitialBalance
  /\ block = 0
  /\ stakedAt = [p \in 0..1 |-> Nothing]
  /\ received = Nothing /\ forgone = Nothing
  /\ calls = 0

(***************************************************************************)
(* The periods.                                                             *)
(***************************************************************************)
HasDonationOrStake(periods, first, last) ==
  \E p \in first..last : periods[p].donationsAmount + periods[p].stakesAmount > 0

NextPeriod(periods) ==
  LET last == periods[CountOf(periods)]
      size == settings.rewardPeriodSize
      rewardPerBlock == (last.rewardPerBlock * settings.decayNumerator) \div settings.decayDenominator
      first == IF CountOf(periods) > last.againstPeriods THEN CountOf(periods) - last.againstPeriods ELSE 1
      carried == IF HasDonationOrStake(periods, first, CountOf(periods)) THEN 0 ELSE last.rewardAmount
  IN [NoPeriod EXCEPT !.againstPeriods = settings.againstPeriods,
                      !.startBlock = last.endBlock + 1,
                      !.endBlock = last.endBlock + size,
                      !.rewardPerBlock = rewardPerBlock,
                      !.stakesAmount = last.stakesAmount,
                      !.stakingDonationRatio = settings.stakingDonationRatio,
                      !.rewardAmount = size * rewardPerBlock + carried]

\* initializeRewardPeriods: as many periods as it takes to reach the current block.
Initialized ==
  LET size == settings.rewardPeriodSize
      missing == IF rewardPeriods[rewardPeriodCount].endBlock >= block THEN 0
                 ELSE (block - rewardPeriods[rewardPeriodCount].endBlock + size - 1) \div size
      grown[n \in 0..missing] ==
        IF n = 0 THEN rewardPeriods
        ELSE LET before == grown[n - 1]
             IN [p \in 0..(CountOf(before) + 1) |->
                   IF p \in DOMAIN before THEN before[p] ELSE NextPeriod(before)]
  IN grown[missing]

\* The stakes stay as they are in the periods that begin.
StakedUntil(periods) ==
  [p \in DOMAIN periods |-> IF p \in DOMAIN stakedAt THEN stakedAt[p] ELSE stakedAt[rewardPeriodCount]]

(***************************************************************************)
(* Rewards.                                                                 *)
(***************************************************************************)
\* Sums over the periods of an interval, for everybody.
DonorIntervalAmounts(periods, d, first, last) ==
  SumFunctionOnSet([p \in DOMAIN periods |-> periods[p].donorAmounts[d]], first..last)
IntervalAmounts(periods, first, last) ==
  SumFunctionOnSet([p \in DOMAIN periods |-> periods[p].donationsAmount], first..last)
RatioOf(period) == IF period.stakingDonationRatio > 0 THEN period.stakingDonationRatio ELSE 1

\* What follows it in the code, for donors of version 2, changes nothing for those of this
\* one: lastClaim is no longer set, and the reward periods of a donor begin at index 1.
FirstUnclaimed(d) == donors[d].lastClaimPeriod + 1

\* Mutant: what has left the window is kept in the sums.
SumsKeepingExpired(periods, d, sums, i) ==
  LET now == periods[i]
  IN IF now.againstPeriods = 0 THEN [donor |-> now.donorAmounts[d], total |-> now.donationsAmount]
     ELSE IF periods[IF i = FirstUnclaimed(d) THEN 0 ELSE i - 1].againstPeriods = now.againstPeriods
     THEN [donor |-> sums.donor + now.donorAmounts[d], total |-> sums.total + now.donationsAmount]
     ELSE [donor |-> DonorIntervalAmounts(periods, d, IF i > now.againstPeriods THEN i - now.againstPeriods ELSE 0, i),
           total |-> IntervalAmounts(periods, IF i > now.againstPeriods THEN i - now.againstPeriods ELSE 0, i)]

\* The donations that count in period i, the donor's and everybody's: from those that
\* counted in the period before where againstPeriods is the same, else summed anew.
Sums(periods, d, sums, i) ==
  LET now == periods[i]
      before == periods[IF i = FirstUnclaimed(d) THEN 0 ELSE i - 1]
      first == IF i > now.againstPeriods THEN i - now.againstPeriods ELSE 0
      expired == IF i > now.againstPeriods + 1 THEN periods[i - 1 - now.againstPeriods] ELSE NoPeriod
  IN IF now.againstPeriods = 0 THEN [donor |-> now.donorAmounts[d], total |-> now.donationsAmount]
     ELSE IF before.againstPeriods = now.againstPeriods
     THEN [donor |-> sums.donor - expired.donorAmounts[d] + now.donorAmounts[d],
           total |-> sums.total - expired.donationsAmount + now.donationsAmount]
     ELSE [donor |-> DonorIntervalAmounts(periods, d, first, i), total |-> IntervalAmounts(periods, first, i)]

\* _calculateRewardByPeriodNumber over periods that have begun: the reward of the
\* periods since the last claim, and the stake at the end of the last one.
CalculateReward(periods, d, lastPeriod) ==
  LET first == FirstUnclaimed(d)
      upTo[i \in (first - 1)..lastPeriod] ==
        IF i = first - 1
        THEN [sums |-> [donor |-> 0, total |-> 0], claim |-> 0, stake |-> periods[first - 1].donorStakeAmounts[d]]
        ELSE LET before == upTo[i - 1]
                 now == periods[i]
                 sums == Sums(periods, d, before.sums, i)
                 stake == IF d \in now.hasSetStakeAmount THEN now.donorStakeAmounts[d] ELSE before.stake
                 share == IF sums.donor + stake = 0 THEN 0
                          ELSE (now.rewardAmount * (sums.donor * RatioOf(now) + stake))
                                 \div (sums.total * RatioOf(now) + now.stakesAmount)
             IN [sums |-> sums, claim |-> before.claim + share, stake |-> stake]
  IN IF donors[d].lastClaimPeriod = 0 /\ donors[d].rewardPeriods = << >> THEN [claim |-> 0, stake |-> 0]
     ELSE IF lastPeriod < first THEN [claim |-> 0, stake |-> periods[first - 1].donorStakeAmounts[d]]
     ELSE [claim |-> upTo[lastPeriod].claim, stake |-> upTo[lastPeriod].stake]

Later(d, lastPeriod) ==
  IF donors[d].lastClaimPeriod < lastPeriod THEN lastPeriod ELSE donors[d].lastClaimPeriod

\* The periods after a claim, with the donor's stake where the next claim looks for it.
Claimed(periods, d, lastPeriod, stake) == [periods EXCEPT ![lastPeriod].donorStakeAmounts[d] = stake]

\* The periods and the donors after setStakingAmounts.
Staked(periods, d, amount, total) ==
  LET count == CountOf(periods)
  IN [periods EXCEPT ![count].hasSetStakeAmount = @ \cup {d}, ![count].donorStakeAmounts[d] = amount,
                     ![count].stakesAmount = total]
ClaimsFrom(donor, count) ==
  IF donor.lastClaimPeriod = 0 /\ donor.rewardPeriods = << >> THEN [donor EXCEPT !.lastClaimPeriod = count - 1]
  ELSE donor

(***************************************************************************)
(* Donations.                                                               *)
(***************************************************************************)

\* _addDonation, whoever pays and whatever the token.
AddDonation(d, amount) ==
  LET periods == Initialized
      count == CountOf(periods)
  IN /\ rewardPeriods' = [periods EXCEPT ![count].donationsAmount = @ + amount,
                                       ![count].donorAmounts[d] = @ + amount]
     /\ donors' = [donors EXCEPT ![d].rewardPeriods =
          IF @ # << >> /\ @[Len(@)] = count THEN @ ELSE Append(@, count)]
     /\ stakedAt' = StakedUntil(periods)
     /\ UNCHANGED <<settings, stakes, balance, block, received, forgone>>

\* donate, donateFrom
Donate(d, amount) == Started /\ AddDonation(d, amount)

\* donateVirtual, by the airdrop or the microcredit, perhaps before the first period.
DonateVirtual(d, amount) == AddDonation(d, amount)

DonateToCommunity(d, amount) ==
  /\ Started /\ settings.communityDonationRatio > 0
  /\ AddDonation(d, amount \div settings.communityDonationRatio)

(***************************************************************************)
(* Stakes.                                                                  *)
(***************************************************************************)

\* Staking has changed a stake: setStakingAmounts.
ChangeStake(d, amount) ==
  LET periods == Initialized
      count == CountOf(periods)
      changed == [stakes EXCEPT ![d] = amount]
  IN /\ Started /\ amount # stakes[d]
     /\ stakes' = changed
     /\ rewardPeriods' = Staked(periods, d, amount, SumFunction(changed))
     /\ donors' = [donors EXCEPT ![d] = ClaimsFrom(@, count)]
     /\ stakedAt' = [StakedUntil(periods) EXCEPT ![count] = changed]
     /\ UNCHANGED <<settings, balance, block, received, forgone>>

(***************************************************************************)
(* Claims.                                                                  *)
(***************************************************************************)
Less(a, b) == IF a < b THEN a ELSE b

\* What is computed is given as far as the PACT of the contract goes; the rest is lost.
Give(d, computed) ==
  /\ received' = [received EXCEPT ![d] = @ + Less(computed, balance)]
  /\ forgone' = [forgone EXCEPT ![d] = @ + computed - Less(computed, balance)]
  /\ balance' = balance - Less(computed, balance)

PayOut(d, periods, lastPeriod) ==
  LET reward == CalculateReward(periods, d, lastPeriod)
  IN /\ Give(d, reward.claim)
     /\ rewardPeriods' = Claimed(periods, d, lastPeriod, reward.stake)
     /\ donors' = [donors EXCEPT ![d].lastClaimPeriod = Later(d, lastPeriod)]
     /\ stakedAt' = StakedUntil(periods)
     /\ UNCHANGED <<settings, stakes, block>>

LastClaimable(periods) ==
  IF CountOf(periods) > settings.claimDelay + 1 THEN CountOf(periods) - 1 - settings.claimDelay ELSE 0

ClaimRewards(d) == Started /\ PayOut(d, Initialized, LastClaimable(Initialized))

ClaimRewardsPartial(d, lastPeriod) ==
  /\ Started /\ lastPeriod \in 0..LastClaimable(Initialized)
  /\ PayOut(d, Initialized, lastPeriod)

\* Staking takes the reward and reports the new stake; it refuses a stake of nothing.
\* The delay does not hold here.
StakeOut(d, periods, lastPeriod) ==
  LET reward == CalculateReward(periods, d, lastPeriod)
      count == CountOf(periods)
      changed == [stakes EXCEPT ![d] = @ + Less(reward.claim, balance)]
  IN /\ Less(reward.claim, balance) > 0
     /\ Give(d, reward.claim)
     /\ stakes' = changed
     /\ rewardPeriods' = Staked(Claimed(periods, d, lastPeriod, reward.stake), d, changed[d], SumFunction(changed))
     /\ donors' = [donors EXCEPT ![d].lastClaimPeriod = Later(d, lastPeriod)]
     /\ stakedAt' = [StakedUntil(periods) EXCEPT ![count] = changed]
     /\ UNCHANGED <<settings, block>>

StakeRewards(d) == Started /\ StakeOut(d, Initialized, CountOf(Initialized) - 1)

StakeRewardsPartial(d, lastPeriod) ==
  /\ Started /\ lastPeriod \in 0..(CountOf(Initialized) - 1)
  /\ StakeOut(d, Initialized, lastPeriod)

(***************************************************************************)
(* The owner and the chain.                                                 *)
(***************************************************************************)

\* The periods that are over get the settings they had.
InitializingSettings == SettingNames \ {"claimDelay", "communityDonationRatio"}

UpdateSetting(name, value) ==
  LET periods == IF name \in InitializingSettings THEN Initialized ELSE rewardPeriods
  IN /\ settings[name] # value
     /\ settings' = [settings EXCEPT ![name] = value]
     /\ rewardPeriods' = periods
     /\ stakedAt' = StakedUntil(periods)
     /\ UNCHANGED <<donors, stakes, balance, block, received, forgone>>

TransferOut(amount) ==
  /\ amount \in 1..balance
  /\ balance' = balance - amount
  /\ UNCHANGED <<settings, rewardPeriods, donors, stakes, block, stakedAt, received, forgone>>

MineBlock ==
  /\ block < MaxBlock
  /\ block' = block + 1
  /\ UNCHANGED <<settings, rewardPeriods, donors, stakes, balance, stakedAt, received, forgone, calls>>

Call ==
  \/ \E d \in Donors, n \in DonationAmounts : Donate(d, n) \/ DonateVirtual(d, n) \/ DonateToCommunity(d, n)
  \/ \E d \in Donors, n \in StakeAmounts : ChangeStake(d, n)
  \/ \E d \in Donors : ClaimRewards(d) \/ StakeRewards(d)
  \/ \E d \in Donors, p \in DOMAIN rewardPeriods : ClaimRewardsPartial(d, p) \/ StakeRewardsPartial(d, p)
  \/ \E change \in SettingChanges : UpdateSetting(change[1], change[2])
  \/ TransferOut(balance)

Next ==
  \/ calls < MaxCalls /\ calls' = calls + 1 /\ Call
  \/ MineBlock

Spec == Init /\ [][Next]_vars

(***************************************************************************)
(* Properties.                                                              *)
(***************************************************************************)

\* The share of a period that is over, straight from the donations and stakes.
WindowOf(p) == (IF p > rewardPeriods[p].againstPeriods THEN p - rewardPeriods[p].againstPeriods ELSE 1)..p
PartOf(p, d) ==
  RatioOf(rewardPeriods[p]) * SumFunctionOnSet([q \in WindowOf(p) |-> rewardPeriods[q].donorAmounts[d]], WindowOf(p))
    + stakedAt[p][d]
PartOfAll(p) == SumFunction([d \in Donors |-> PartOf(p, d)])
ShareOf(p, d) == IF PartOf(p, d) = 0 THEN 0 ELSE (rewardPeriods[p].rewardAmount * PartOf(p, d)) \div PartOfAll(p)

GivenTo(d) == received[d] + forgone[d]
SharesOf(d) == SumFunction([p \in 1..donors[d].lastClaimPeriod |-> ShareOf(p, d)])

\* However many claims it took, of whatever kind, over periods that were begun long
\* after they ended and settings that changed between them, everybody has been given
\* exactly the shares of the periods up to the last one claimed, each once; whoever
\* changed a stake in the first period, not more than that.  And nobody is given a share
\* of a reward that was carried over: all claims together stay within the rewards of the
\* blocks of the periods that are over.
SharesGivenOnce ==
  /\ \A d \in Donors :
       /\ GivenTo(d) <= SharesOf(d)
       /\ d \notin rewardPeriods[1].hasSetStakeAmount => GivenTo(d) = SharesOf(d)
  /\ SumFunction(received) + SumFunction(forgone)
       <= SumFunction([p \in 1..(rewardPeriodCount - 1) |->
            rewardPeriods[p].rewardPerBlock * (rewardPeriods[p].endBlock - rewardPeriods[p].startBlock + 1)])

\* A comment of setStakingAmounts: the periods before the current one are skipped for
\* a user who has not made any donation or staking.
SkippedByNewcomersOnly ==
  [][\A d \in Donors :
       stakes' # stakes /\ received' = received /\ donors'[d].lastClaimPeriod # donors[d].lastClaimPeriod =>
         /\ donors[d].rewardPeriods = << >>
         /\ \A p \in DOMAIN rewardPeriods : d \notin rewardPeriods[p].hasSetStakeAmount]_vars
=============================================================================
