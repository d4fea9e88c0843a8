---------------------------- MODULE CommunityAdmin ----------------------------
(***************************************************************************)
(* community/CommunityAdminImplementation.sol with its communities and the  *)
(* treasury's balances: communities are added, migrated, split and removed, *)
(* and each of them adds beneficiaries, pays claims and asks the treasury   *)
(* for funds.                                                               *)
(*                                                                          *)
(* A call with a list is the single calls in a row, in one block; a call    *)
(* with a manager's signature is the manager's call.  Every community has   *)
(* the present version of the contract.  The Ambassadors contract is        *)
(* external: which ambassador may lock a community is not modelled.         *)
(***************************************************************************)
EXTENDS Community

CONSTANTS
  Communities,       \* addresses at which communities may be deployed
  NewCommunities,    \* bound of the model: those that do not come from another community
  Managers,          \* whoever is manager of a new community
  Tokens,            \* the tokens that the treasury accepts
  CUSD,              \* the token in which the first manager gets a gift
  ManagerGift,       \* the DEFAULT_AMOUNT of CommunityAdmin
  InitialTreasury,   \* bound of the model: the treasury's balances at first
  InitialSettings,   \* minClaimAmountRatio, treasurySafetyPercentage, treasuryMinBalance
  SettingsChoices,   \* bound of the model: what the council sets them to
  RulesChoices,      \* bound of the model: parameters of beneficiaries
  TrancheChoices,    \* bound of the model: tranches
  MaxBeneficiariesChoices,
  NewTokens,         \* bound of the model: tokens that communities change to
  SwapRates,         \* what the exchange gives for a token
  Donations,         \* bound of the model: amounts given to communities and taken from them
  MaxBalance,        \* bound of the model: donations fill no community further than this
  MaxTreasury,       \* bound of the model: income fills the treasury no further than this
  IncomeBlocks,      \* bound of the model: when there are donations and income
  MaxBlock           \* bound of the model: the last block

Settings == [minClaimAmountRatio : Nat, treasurySafetyPercentage : 0..100, treasuryMinBalance : Nat]
Rules == [originalClaimAmount : Nat, maxTotalClaim : Nat, decreaseStep : Nat,
          baseInterval : Nat, incrementInterval : Nat]

ASSUME CommunityAdminAssumption ==
  /\ NoCommunity \notin Communities /\ NewCommunities \subseteq Communities
  /\ CUSD \in Tokens /\ NewTokens \subseteq Tokens
  /\ InitialTreasury \in [Tokens -> Nat] /\ ManagerGift \in Nat
  /\ InitialSettings \in Settings /\ SettingsChoices \subseteq Settings
  /\ RulesChoices \subseteq Rules
  /\ TrancheChoices \subseteq [min : Nat, max : Nat] /\ MaxBeneficiariesChoices \subseteq Nat
  /\ Donations \subseteq Nat /\ SwapRates \subseteq Nat
  /\ MaxBalance \in Nat /\ MaxTreasury \in Nat /\ MaxBlock \in Nat \ {0}

VARIABLES
  communities,  \* the community deployed at each address, or Undeployed
  status,       \* CommunityAdmin.communities
  treasury,     \* the treasury's balance of each token
  settings,     \* the rules of the treasury
  block,        \* block.number
  paid,         \* history: what the person behind an address has received
  mixed         \* history: communities whose amounts may differ from those paid (see Comparable)

vars == <<communities, status, treasury, settings, block, paid, mixed>>

Undeployed == [deployed |-> FALSE]
Deployed == {c \in Communities : status[c] # "NONE"}
Ratio == settings.minClaimAmountRatio

Beneficiary == [state : BeneficiaryStates, claims : Nat, claimedAmount : Nat, lastClaim : 0..MaxBlock]
CommunityType ==
  [ beneficiaries : [People -> Beneficiary], validBeneficiaryCount : Nat, maxBeneficiaries : Nat,
    rules : Rules,
    maxTotalClaim : Nat, claimAmount : Nat, tranches : [min : Nat, max : Nat],
    lastFundRequest : 0..MaxBlock, token : Tokens,
    tokenUpdates : Seq([ratio : Nat, startBlock : 0..MaxBlock]), balance : Nat,
    locked : BOOLEAN, managers : SUBSET Managers,
    previousCommunity : Communities \cup {NoCommunity},
    copyOf : Communities \cup {NoCommunity}, copies : SUBSET Communities ]

TypeOK ==
  /\ status \in [Communities -> {"NONE", "Valid", "Removed", "Migrated"}]
  /\ \A c \in Communities :
       IF status[c] = "NONE" THEN communities[c] = Undeployed ELSE communities[c] \in CommunityType
  /\ treasury \in [Tokens -> Nat]
  /\ settings \in Settings
  /\ block \in 1..MaxBlock
  /\ paid \in [Communities -> [People -> [claims : Nat, last : 0..MaxBlock, amount : Nat]]]
  /\ mixed \subseteq Communities

NothingPaid == [claims |-> 0, last |-> 0, amount |-> 0]

Init ==
  /\ communities = [c \in Communities |-> Undeployed]
  /\ status = [c \in Communities |-> "NONE"]
  /\ treasury = InitialTreasury
  /\ settings = InitialSettings
  /\ block = 1
  /\ paid = [c \in Communities |-> [p \in People |-> NothingPaid]]
  /\ mixed = {}

-----------------------------------------------------------------------------
(* Communities come and go. *)

\* The first tranche is paid if the treasury has it.
AddCommunity(c, token, rules, tranches, maxBeneficiaries) ==
  LET q == Initialize(token, Managers, rules, tranches, maxBeneficiaries, NoCommunity)
      first == IF treasury[token] >= tranches.min THEN tranches.min ELSE 0
      left == [treasury EXCEPT ![token] = @ - first]
      gift == IF left[CUSD] >= ManagerGift THEN ManagerGift ELSE 0
  IN /\ status[c] = "NONE" /\ Managers # {}
     /\ CanInitialize(rules, tranches)
     /\ communities' = [communities EXCEPT ![c] = [q EXCEPT !.balance = first]]
     /\ status' = [status EXCEPT ![c] = "Valid"]
     /\ treasury' = [left EXCEPT ![CUSD] = @ - gift]
     /\ UNCHANGED <<settings, block, paid, mixed>>

\* What a new community takes over from another one.
Inherit(q, previous) ==
  Initialize(q.token, Managers, [q.rules EXCEPT !.maxTotalClaim = InitialMaxTotalClaim(q)],
             q.tranches, q.maxBeneficiaries, previous)

\* The new community gets the balance.  It starts with the tokens in use, but
\* without the updates that led there.
MigrateCommunity(old, new) ==
  LET q == communities[old]
  IN /\ old \in Deployed /\ status[old] # "Migrated" /\ status[new] = "NONE"
     /\ CanInitialize(Inherit(q, old).rules, q.tranches)
     /\ communities' = [communities EXCEPT
          ![old] = UpdateClaimAmount([q EXCEPT !.balance = 0], Ratio),
          ![new] = [Inherit(q, old) EXCEPT !.balance = q.balance]]
     /\ status' = [status EXCEPT ![old] = "Migrated", ![new] = "Valid"]
     /\ UNCHANGED <<treasury, settings, block, paid, mixed>>

\* The copy gets the token updates and no funds.
SplitCommunity(old, new) ==
  LET q == communities[old]
  IN /\ status[old] = "Valid" /\ status[new] = "NONE"
     /\ CanInitialize(Inherit(q, NoCommunity).rules, q.tranches)
     /\ communities' = [communities EXCEPT
          ![old] = [q EXCEPT !.copies = @ \cup {new}],
          ![new] = [Inherit(q, NoCommunity) EXCEPT
                      !.copyOf = old, !.tokenUpdates = q.tokenUpdates]]
     /\ status' = [status EXCEPT ![new] = "Valid"]
     /\ UNCHANGED <<treasury, settings, block, paid, mixed>>

\* Its funds go back to the treasury.
RemoveCommunity(c) ==
  LET q == communities[c]
  IN /\ status[c] = "Valid"
     /\ communities' = [communities EXCEPT ![c] = UpdateClaimAmount([q EXCEPT !.balance = 0], Ratio)]
     /\ status' = [status EXCEPT ![c] = "Removed"]
     /\ treasury' = [treasury EXCEPT ![q.token] = @ + q.balance]
     /\ UNCHANGED <<settings, block, paid, mixed>>

-----------------------------------------------------------------------------
(* Parameters, set by the owner or the council, and by ambassadors. *)

\* One community changes, and nothing else.
Becomes(c, q) ==
  /\ communities' = [communities EXCEPT ![c] = q]
  /\ UNCHANGED <<status, treasury, settings, block, paid, mixed>>

SetBeneficiaryParams(c, rules, maxBeneficiaries) ==
  /\ c \in Deployed
  /\ CanUpdateBeneficiaryParams(communities[c], rules)
  /\ Becomes(c, [UpdateBeneficiaryParams(communities[c], rules, Ratio)
                   EXCEPT !.maxBeneficiaries = maxBeneficiaries])

SetCommunityParams(c, tranches) ==
  /\ c \in Deployed
  /\ tranches.min <= tranches.max
  /\ Becomes(c, [communities[c] EXCEPT !.tranches = tranches])

UpdateMaxBeneficiaries(c, maxBeneficiaries) ==
  /\ c \in Deployed
  /\ Becomes(c, [communities[c] EXCEPT !.maxBeneficiaries = maxBeneficiaries])

\* An address whose lastClaim is this block has claimed something already.
ClaimedNow(c) ==
  \E p \in People : LET r == communities[c].beneficiaries[p] IN r.lastClaim = block /\ r.claimedAmount > 0

UpdateCommunityToken(c, token, rules, rate) ==
  LET q == communities[c]
      convert(r) == [r EXCEPT !.amount = (@ * ConversionRatio(q, rules)) \div Unit]
  IN /\ c \in Deployed
     /\ CanUpdateToken(q, token, rules)
     /\ communities' = [communities EXCEPT
          ![c] = UpdateToken(q, token, rules, q.balance * rate, Ratio, block)]
     /\ paid' = [paid EXCEPT ![c] = [p \in People |-> convert(@[p])]]
     /\ mixed' = IF ClaimedNow(c) THEN mixed \cup {c} ELSE mixed
     /\ UNCHANGED <<status, treasury, settings, block>>

\* updateMinClaimAmountRatio, updateTreasurySafetyPercentage, updateTreasuryMinBalance
UpdateSettings(new) ==
  /\ new.minClaimAmountRatio = settings.minClaimAmountRatio \/ new.minClaimAmountRatio >= RatioPrecision
  /\ new.treasurySafetyPercentage = settings.treasurySafetyPercentage \/ new.treasurySafetyPercentage \in 1..100
  /\ settings' = new
  /\ UNCHANGED <<communities, status, treasury, block, paid, mixed>>

SetLocked(c, locked) ==
  /\ c \in Deployed
  /\ Becomes(c, [communities[c] EXCEPT !.locked = locked])

AddManager(c, m) ==
  /\ c \in Deployed
  /\ Becomes(c, [communities[c] EXCEPT !.managers = @ \cup {m}])

\* Removed by an ambassador, or renounced.
RemoveManager(c, m) ==
  /\ c \in Deployed /\ m \in communities[c].managers
  /\ Becomes(c, [communities[c] EXCEPT !.managers = @ \ {m}])

-----------------------------------------------------------------------------
(* Funds. *)

AtMost(limit, amount) == IF amount > limit THEN limit ELSE amount

\* calculateCommunityTrancheAmount
TrancheAmount(c) ==
  LET q == communities[c]
      wealth == treasury[q.token]
      tranche == AtMost(q.tranches.max, q.validBeneficiaryCount * q.rules.originalClaimAmount)
  IN IF \/ q.balance >= q.tranches.min
        \/ block <= q.lastFundRequest + q.rules.baseInterval
        \/ wealth < settings.treasuryMinBalance
        \/ IsSelfFunding(q)
        \/ tranche <= q.balance
     THEN 0
     ELSE AtMost((wealth * settings.treasurySafetyPercentage) \div 100, tranche - q.balance)

\* _requestFunds, with fundCommunity and transferToCommunity of the admin: the
\* community afterwards.  The admin serves valid communities only.
CanRequestFunds(c) == IsSelfFunding(communities[c]) \/ status[c] = "Valid"
Funded(c) ==
  LET amount == TrancheAmount(c)
      q == [communities[c] EXCEPT !.balance = @ + amount, !.lastFundRequest = block]
  IN IF amount = 0 THEN communities[c]
     ELSE UpdateClaimAmount(q, Ratio)
PayTranche(c) == treasury' = [treasury EXCEPT ![communities[c].token] = @ - TrancheAmount(c)]

ActiveManagers(c) == IF c \in Deployed THEN communities[c].managers ELSE {}

RequestFunds(c) ==
  /\ ActiveManagers(c) # {}
  /\ ~communities[c].locked
  /\ CanRequestFunds(c)
  /\ communities' = [communities EXCEPT ![c] = Funded(c)]
  /\ PayTranche(c)
  /\ UNCHANGED <<status, settings, block, paid, mixed>>

Donate(c, amount) ==
  /\ c \in Deployed /\ block \in IncomeBlocks /\ communities[c].balance + amount <= MaxBalance
  /\ Becomes(c, UpdateClaimAmount([communities[c] EXCEPT !.balance = @ + amount], Ratio))

\* The owner takes tokens out of a community.
TransferFromCommunity(c, amount) ==
  /\ c \in Deployed /\ amount <= communities[c].balance
  /\ Becomes(c, UpdateClaimAmount([communities[c] EXCEPT !.balance = @ - amount], Ratio))

\* Donations to the treasury, and what it earns.
TreasuryIncome(token) ==
  /\ treasury[token] < MaxTreasury /\ block \in IncomeBlocks
  /\ treasury' = [treasury EXCEPT ![token] = @ + 1]
  /\ UNCHANGED <<communities, status, settings, block, paid, mixed>>

-----------------------------------------------------------------------------
(* Beneficiaries. *)

Person(c, p) == communities[c].beneficiaries[p]

\* A new beneficiary gets a gift, from the community if it can, else from the
\* treasury.  A copy takes only people its original does not know.
AddBeneficiary(c, p) ==
  LET q == communities[c]
      added == Add(q, p, block)
      poor == q.balance < DefaultAmount
  IN /\ ActiveManagers(c) # {}
     /\ ~q.locked
     /\ CanAdd(q, p)
     /\ q.copyOf # NoCommunity => Person(q.copyOf, p).state = "NONE"
     /\ IF poor
        THEN /\ status[c] = "Valid" /\ treasury[q.token] >= DefaultAmount
             /\ treasury' = [treasury EXCEPT ![q.token] = @ - DefaultAmount]
             /\ communities' = [communities EXCEPT ![c] = added]
        ELSE /\ communities' = [communities EXCEPT ![c] = [added EXCEPT !.balance = @ - DefaultAmount]]
             /\ UNCHANGED treasury
     /\ UNCHANGED <<status, settings, block, paid, mixed>>

LockBeneficiary(c, p) ==
  /\ ActiveManagers(c) # {}
  /\ ~communities[c].locked
  /\ CanLock(communities[c], p)
  /\ Becomes(c, ChangeState(communities[c], p, "Locked"))

UnlockBeneficiary(c, p) ==
  /\ ActiveManagers(c) # {}
  /\ ~communities[c].locked
  /\ CanUnlock(communities[c], p)
  /\ Becomes(c, ChangeState(communities[c], p, "Valid"))

\* Also in a locked community.
RemoveBeneficiary(c, p) ==
  /\ ActiveManagers(c) # {}
  /\ CanRemove(communities[c], p)
  /\ Becomes(c, ChangeState(communities[c], p, "Removed"))

\* What community c tells others about p: beneficiaries()
Told(c, p) == [Person(c, p) EXCEPT !.claimedAmount = ClaimedAmount(communities[c], p, block)]

\* The receipts of one address become those of another, in the histories.
Remember(c, p, receipts) == paid' = [paid EXCEPT ![c][p] = receipts]

\* The amounts c keeps are those of the histories: unless it updated its token in the
\* block of somebody's lastClaim, whose claim is then never converted; or is a copy of a
\* community with updates, which converts amounts once more; or has updated
\* its token twice, for the latest update converts first, and the amounts are rounded
\* on the way; or has such people from elsewhere.
Comparable(c) ==
  /\ c \notin mixed
  /\ Len(communities[c].tokenUpdates) <= IF communities[c].copyOf = NoCommunity THEN 2 ELSE 0

MixedFrom(c, other) ==
  mixed' = IF Comparable(other) /\ communities[c].tokenUpdates = <<>> THEN mixed ELSE mixed \cup {c}

\* Anybody brings a person over from the previous community.
JoinFromMigrated(c, p) ==
  LET q == communities[c]
      old == Told(q.previousCommunity, p)
  IN /\ c \in Deployed /\ q.previousCommunity # NoCommunity
     /\ Person(c, p).state = "NONE"
     /\ CanChangeState(q, p, old.state)
     /\ communities' = [communities EXCEPT ![c] = Adopt(q, p, old)]
     /\ Remember(c, p, paid[q.previousCommunity][p])
     /\ MixedFrom(c, q.previousCommunity)
     /\ UNCHANGED <<status, treasury, settings, block>>

\* The original takes orders from its copies only.
CanCopy(c) ==
  LET q == communities[c]
      original == communities[q.copyOf]
  IN /\ ActiveManagers(c) # {} /\ q.copyOf # NoCommunity
     /\ ~q.locked /\ ~original.locked /\ c \in original.copies

\* A manager of a copy takes a person over; the original marks them as copied.
CopyBeneficiary(c, p) ==
  LET q == communities[c]
      original == communities[q.copyOf]
      old == Told(q.copyOf, p)
  IN /\ CanCopy(c)
     /\ Person(c, p).state = "NONE"
     /\ old.state # "Copied"
     /\ CanChangeState(q, p, old.state)
     /\ communities' = [communities EXCEPT
          ![c] = Adopt(q, p, old), ![q.copyOf] = ChangeState(original, p, "Copied")]
     /\ Remember(c, p, paid[q.copyOf][p])
     /\ MixedFrom(c, q.copyOf)
     /\ UNCHANGED <<status, treasury, settings, block>>

Latest(a, b) == IF a > b THEN a ELSE b
MoveAddress(c, old, new) ==
  LET a == paid[c][old]
      b == paid[c][new]
  IN /\ CanChangeAddress(communities[c], old, new)
     /\ communities' = [communities EXCEPT ![c] = ChangeAddress(communities[c], old, new)]
     /\ Remember(c, new, [claims |-> a.claims + b.claims, last |-> Latest(a.last, b.last),
                          amount |-> a.amount + b.amount])
     /\ UNCHANGED <<status, treasury, settings, block, mixed>>

\* A manager may join two beneficiaries; a beneficiary may only take a new address.
ChangeAddressByManager(c, old, new) == ActiveManagers(c) # {} /\ MoveAddress(c, old, new)
ChangeOwnAddress(c, old, new) ==
  /\ c \in Deployed /\ Person(c, new).state = "NONE"
  /\ MoveAddress(c, old, new)

\* A claim asks for funds first.
ClaimBenefit(c, p) ==
  LET q == Funded(c)
      pay == ToClaim(q, p, block)
  IN /\ c \in Deployed
     /\ CanRequestFunds(c)
     /\ CanClaim(q, p, block)
     /\ communities' = [communities EXCEPT ![c] = Claim(q, p, block)]
     /\ PayTranche(c)
     /\ Remember(c, p, [claims |-> paid[c][p].claims + 1, last |-> block,
                        amount |-> paid[c][p].amount + pay])
     /\ UNCHANGED <<status, settings, block, mixed>>

NextBlock ==
  /\ block < MaxBlock
  /\ block' = block + 1
  /\ UNCHANGED <<communities, status, treasury, settings, paid, mixed>>

-----------------------------------------------------------------------------

CommunityCalls(c) ==
  \/ RequestFunds(c) \/ RemoveCommunity(c)
  \/ \E locked \in BOOLEAN : SetLocked(c, locked)
  \/ \E m \in Managers : AddManager(c, m) \/ RemoveManager(c, m)
  \/ \E amount \in Donations : Donate(c, amount) \/ TransferFromCommunity(c, amount)
  \/ \E tranches \in TrancheChoices : SetCommunityParams(c, tranches)
  \/ \E maxBeneficiaries \in MaxBeneficiariesChoices : UpdateMaxBeneficiaries(c, maxBeneficiaries)
  \/ \E rules \in RulesChoices :
       \/ \E maxBeneficiaries \in MaxBeneficiariesChoices : SetBeneficiaryParams(c, rules, maxBeneficiaries)
       \/ \E token \in NewTokens, rate \in SwapRates : UpdateCommunityToken(c, token, rules, rate)

BeneficiaryCalls(c, p) ==
  \/ AddBeneficiary(c, p) \/ LockBeneficiary(c, p) \/ UnlockBeneficiary(c, p) \/ RemoveBeneficiary(c, p)
  \/ JoinFromMigrated(c, p) \/ CopyBeneficiary(c, p) \/ ClaimBenefit(c, p)
  \/ \E new \in People : ChangeAddressByManager(c, p, new) \/ ChangeOwnAddress(c, p, new)

AdminCalls ==
  \/ \E c \in NewCommunities, token \in Tokens, rules \in RulesChoices, tranches \in TrancheChoices,
        maxBeneficiaries \in MaxBeneficiariesChoices : AddCommunity(c, token, rules, tranches, maxBeneficiaries)
  \/ \E old, new \in Communities : MigrateCommunity(old, new) \/ SplitCommunity(old, new)
  \/ \E new \in SettingsChoices : UpdateSettings(new)
  \/ \E token \in Tokens : TreasuryIncome(token)

Next ==
  \/ \E c \in Communities : CommunityCalls(c)
  \/ \E c \in Communities, p \in People : BeneficiaryCalls(c, p)
  \/ AdminCalls
  \/ NextBlock

Spec == Init /\ [][Next]_vars

-----------------------------------------------------------------------------
(* What the communities guarantee. *)

\* The counter of valid beneficiaries, which nine calls maintain, counts them,
\* and the limit is what the owner set less a step for each: whatever the order
\* in which people are added, locked, removed, moved, joined and copied, and the
\* parameters changed.
LimitsMatchStates ==
  \A c \in Deployed :
    LET q == communities[c]
    IN /\ q.validBeneficiaryCount = Cardinality({p \in People : q.beneficiaries[p].state = "Valid"})
       /\ LimitFollowsCount(q)

\* A community never has a limit below one claim, nor a claim above the
\* original amount, so that every beneficiary it adds can claim at least once.
ClaimAffordable == \A c \in Deployed : ClaimWithinLimit(communities[c])

\* Whoever claims has not received anything, under any of the addresses that
\* were joined into this one, here or in the community it came from, for as
\* long as all these claims together require, and gets at most the original
\* amount.
ClaimsInTime(c, p) ==
  LET q == communities[c]
      before == paid[c][p]
  IN /\ before.claims > 0 =>
          block >= before.last + q.rules.baseInterval + (before.claims - 1) * q.rules.incrementInterval
     /\ paid'[c][p].amount - before.amount <= q.rules.originalClaimAmount

\* Nor does a claim exceed the limit together with what these addresses received,
\* in the tokens of then, where the amounts can be compared.
ClaimsWithinLimit(c, p) == Comparable(c) => paid'[c][p].amount <= communities[c].maxTotalClaim

\* No claim is too early or too much, however tokens, parameters, addresses and
\* communities change.
NobodyClaimsEarlyOrTooMuch ==
  [][\A c \in Communities, p \in People :
       (paid'[c][p] # paid[c][p] /\ ClaimBenefit(c, p)) =>
         ClaimsInTime(c, p) /\ ClaimsWithinLimit(c, p)]_vars

\* Whoever was removed, moved to another address or copied never becomes a
\* beneficiary of this community again, by whatever sequence of calls.
NeverReadmitted ==
  [][\A c \in Deployed, p \in People :
       communities[c].beneficiaries[p].state \in {"Removed", "AddressChanged", "Copied"} =>
         communities'[c].beneficiaries[p].state \in {"Removed", "AddressChanged", "Copied"}]_vars
=============================================================================
