------------------------------ MODULE Community ------------------------------
(***************************************************************************)
(* The calls of community/CommunityImplementation.sol as operators on the   *)
(* record q of one community: when a call goes through (Can...) and the     *)
(* record it leaves.  CommunityAdmin holds the records and turns the calls  *)
(* into actions.                                                            *)
(*                                                                          *)
(* q.rules holds the parameters as they were last set.  Its maxTotalClaim   *)
(* is a history of what the limit was set to: the contract keeps only the   *)
(* running q.maxTotalClaim, which falls with every valid beneficiary.       *)
(*                                                                          *)
(* Left out: what only views read (the claimedAmounts per token, the list   *)
(* of beneficiaries, the totals treasuryFunds and privateFunds), and the     *)
(* balances of other tokens than q.token.                                   *)
(***************************************************************************)
EXTENDS Integers, Sequences, FiniteSets

CONSTANTS
  People,              \* addresses that may be beneficiaries
  Unit,                \* the precision of token ratios (1e18)
  RatioPrecision,      \* MIN_CLAIM_AMOUNT_RATIO_PRECISION
  DefaultAmount,       \* DEFAULT_AMOUNT, a gift to every new beneficiary
  MaxTokenListLength,  \* MAX_TOKEN_LIST_LENGTH
  NoCommunity          \* the address 0

ASSUME CommunityAssumption ==
  /\ IsFiniteSet(People)
  /\ Unit \in Nat \ {0} /\ RatioPrecision \in Nat \ {0}
  /\ DefaultAmount \in Nat /\ MaxTokenListLength \in Nat

-----------------------------------------------------------------------------
(* Parameters, and the record of a new community. *)

BeneficiaryStates == {"NONE", "Valid", "Locked", "Removed", "AddressChanged", "Copied"}
NewBeneficiary == [state |-> "NONE", claims |-> 0, claimedAmount |-> 0, lastClaim |-> 0]

CanInitialize(rules, tranches) ==
  /\ rules.baseInterval > rules.incrementInterval
  /\ rules.maxTotalClaim >= rules.originalClaimAmount
  /\ tranches.min <= tranches.max

Initialize(token, managers, rules, tranches, maxBeneficiaries, previous) ==
  [ beneficiaries |-> [p \in People |-> NewBeneficiary],
    validBeneficiaryCount |-> 0, maxBeneficiaries |-> maxBeneficiaries,
    rules |-> rules, maxTotalClaim |-> rules.maxTotalClaim,
    claimAmount |-> rules.originalClaimAmount,
    tranches |-> tranches, lastFundRequest |-> 0,
    token |-> token, tokenUpdates |-> <<>>, balance |-> 0,
    locked |-> FALSE, managers |-> managers,
    previousCommunity |-> previous, copyOf |-> NoCommunity, copies |-> {} ]

IsSelfFunding(q) == q.tranches.max = 0

InitialMaxTotalClaim(q) == q.maxTotalClaim + q.validBeneficiaryCount * q.rules.decreaseStep

\* The amount of one claim follows what the community has for each valid
\* beneficiary, between a minimum and the original amount.
UpdateClaimAmount(q, ratio) ==
  LET original == q.rules.originalClaimAmount
      minimum == (original * RatioPrecision) \div ratio
      share == q.balance \div q.validBeneficiaryCount
  IN [q EXCEPT !.claimAmount =
        IF q.validBeneficiaryCount = 0 \/ IsSelfFunding(q) \/ ratio <= RatioPrecision THEN original
        ELSE IF share < minimum THEN minimum
        ELSE IF share <= original THEN share
        ELSE original]

CanUpdateBeneficiaryParams(q, rules) ==
  /\ rules.baseInterval > rules.incrementInterval
  /\ rules.maxTotalClaim >= rules.originalClaimAmount + q.validBeneficiaryCount * rules.decreaseStep

\* Mutant: the amount of a claim stays what it was.
UpdateParamsKeepsClaimAmount(q, rules, ratio) ==
  [q EXCEPT !.rules = rules,
            !.maxTotalClaim = rules.maxTotalClaim - q.validBeneficiaryCount * rules.decreaseStep]

UpdateBeneficiaryParams(q, rules, ratio) ==
  UpdateClaimAmount(
    [q EXCEPT !.rules = rules,
              !.maxTotalClaim = rules.maxTotalClaim - q.validBeneficiaryCount * rules.decreaseStep],
    ratio)

\* An initial entry for the token in use so far comes before the first update.
ConversionRatio(q, rules) == (Unit * rules.maxTotalClaim) \div InitialMaxTotalClaim(q)
WithTokenUpdate(q, rules, block) ==
  (IF q.tokenUpdates = <<>> THEN <<[ratio |-> Unit, startBlock |-> 0]>> ELSE q.tokenUpdates)
    \o <<[ratio |-> ConversionRatio(q, rules), startBlock |-> block]>>

CanUpdateToken(q, token, rules) ==
  /\ Len(q.tokenUpdates) < MaxTokenListLength
  /\ token # q.token
  /\ InitialMaxTotalClaim(q) > 0
  /\ CanUpdateBeneficiaryParams(q, rules)

\* The whole balance is swapped; the exchange decides what comes out of it.
UpdateToken(q, token, rules, swapped, ratio, block) ==
  UpdateBeneficiaryParams(
    [q EXCEPT !.token = token, !.balance = swapped, !.tokenUpdates = WithTokenUpdate(q, rules, block)],
    rules, ratio)

-----------------------------------------------------------------------------
(* The states of beneficiaries. *)

CanChangeState(q, person, state) ==
  (state = "Valid" /\ q.beneficiaries[person].state # "Valid") =>
    /\ q.maxTotalClaim - q.rules.decreaseStep >= q.rules.originalClaimAmount
    /\ q.maxBeneficiaries = 0 \/ q.validBeneficiaryCount < q.maxBeneficiaries

\* Mutant: who leaves gives nothing back to the limit.
ChangeStateKeepsLimit(q, person, state) ==
  LET old == q.beneficiaries[person].state
      more == IF old = state THEN 0 ELSE IF state = "Valid" THEN 1 ELSE IF old = "Valid" THEN -1 ELSE 0
  IN [q EXCEPT !.beneficiaries[person].state = state,
               !.validBeneficiaryCount = @ + more,
               !.maxTotalClaim = IF more = 1 THEN @ - q.rules.decreaseStep ELSE @]

ChangeState(q, person, state) ==
  LET old == q.beneficiaries[person].state
      more == IF old = state THEN 0 ELSE IF state = "Valid" THEN 1 ELSE IF old = "Valid" THEN -1 ELSE 0
  IN [q EXCEPT !.beneficiaries[person].state = state,
               !.validBeneficiaryCount = @ + more,
               !.maxTotalClaim = @ - more * q.rules.decreaseStep]

CanAdd(q, person) == q.beneficiaries[person].state = "NONE" /\ CanChangeState(q, person, "Valid")
Add(q, person, block) == [ChangeState(q, person, "Valid") EXCEPT !.beneficiaries[person].lastClaim = block]
CanLock(q, person) == q.beneficiaries[person].state = "Valid"
CanUnlock(q, person) == q.beneficiaries[person].state = "Locked" /\ CanChangeState(q, person, "Valid")
CanRemove(q, person) == q.beneficiaries[person].state \in {"Valid", "Locked"}

\* A person's claimed amount in the token of the block upTo: every update of
\* the token after the last claim converts it, the latest update first.
ClaimedAmount(q, person, upTo) ==
  LET r == q.beneficiaries[person]
      n == Len(q.tokenUpdates)
      Converts(u) == r.lastClaim < u.startBlock /\ u.startBlock <= upTo
      from[i \in 1..(n + 1)] ==
        IF i = n + 1 THEN r.claimedAmount
        ELSE IF Converts(q.tokenUpdates[i]) THEN (from[i + 1] * q.tokenUpdates[i].ratio) \div Unit
        ELSE from[i + 1]
  IN from[1]

\* Mutant: the claims are forgotten.
AdoptAfresh(q, person, told) ==
  [ChangeState(q, person, told.state) EXCEPT !.beneficiaries[person] = [NewBeneficiary EXCEPT !.state = told.state]]

\* Adopt what another community tells of the person.
Adopt(q, person, told) ==
  [ChangeState(q, person, told.state) EXCEPT !.beneficiaries[person] = told]

CanChangeAddress(q, old, new) ==
  LET state(p) == q.beneficiaries[p].state
  IN /\ old # new
     /\ state(old) \notin {"NONE", "AddressChanged"}
     /\ state(new) # "AddressChanged"
     /\ state(new) = "NONE" => CanChangeState(q, new, state(old))

\* Mutants: the last claim of the new address counts, even if the other's is
\* later; the new address takes the state of the old one, whatever its own; it
\* keeps its own claims only.
ChangeAddressKeepsLastClaim(q, old, new) ==
  LET q1 == IF q.beneficiaries[new].state = "NONE"
            THEN ChangeState(q, new, q.beneficiaries[old].state) ELSE q
      q2 == ChangeState(q1, old, "AddressChanged")
      o == q2.beneficiaries[old]
      n == q2.beneficiaries[new]
  IN [q2 EXCEPT !.beneficiaries[new] =
        [n EXCEPT !.claims = @ + o.claims, !.claimedAmount = @ + o.claimedAmount]]
ChangeAddressTakesState(q, old, new) ==
  LET q1 == ChangeState(ChangeState(q, new, q.beneficiaries[old].state), old, "AddressChanged")
      o == q1.beneficiaries[old]
  IN [q1 EXCEPT !.beneficiaries[new] =
        [@ EXCEPT !.claims = @ + o.claims, !.claimedAmount = @ + o.claimedAmount, !.lastClaim = o.lastClaim]]

ChangeAddressKeepsClaims(q, old, new) ==
  LET q1 == IF q.beneficiaries[new].state = "NONE"
            THEN ChangeState(q, new, q.beneficiaries[old].state) ELSE q
  IN ChangeState(q1, old, "AddressChanged")

\* The new address takes the state of the old one, unless it has one, and the
\* claims of both, aligned to the later of their last claims.
ChangeAddress(q, old, new) ==
  LET q1 == IF q.beneficiaries[new].state = "NONE"
            THEN ChangeState(q, new, q.beneficiaries[old].state) ELSE q
      q2 == ChangeState(q1, old, "AddressChanged")
      o == q2.beneficiaries[old]
      n == q2.beneficiaries[new]
      last == IF n.lastClaim > o.lastClaim THEN n.lastClaim ELSE o.lastClaim
  IN [q2 EXCEPT !.beneficiaries[new] =
        [state |-> n.state, claims |-> n.claims + o.claims,
         claimedAmount |-> ClaimedAmount(q2, old, last) + ClaimedAmount(q2, new, last),
         lastClaim |-> last]]

-----------------------------------------------------------------------------
(* Claims. *)

LastInterval(q, person) ==
  LET claims == q.beneficiaries[person].claims
  IN IF claims = 0 THEN 0 ELSE q.rules.baseInterval + (claims - 1) * q.rules.incrementInterval

ClaimCooldown(q, person) == q.beneficiaries[person].lastClaim + LastInterval(q, person)

\* What a claim pays: the claim amount, or what is left of the maximum.
ToClaim(q, person, block) ==
  LET amount == IF q.claimAmount > 0 THEN q.claimAmount ELSE q.rules.originalClaimAmount
      left == q.maxTotalClaim - ClaimedAmount(q, person, block)
  IN IF amount <= left THEN amount ELSE left

\* Mutant: the transfer may overdraw.
CanClaimUnfunded(q, person, block) ==
  /\ ~q.locked
  /\ q.beneficiaries[person].state = "Valid"
  /\ ClaimCooldown(q, person) <= block
  /\ ClaimedAmount(q, person, block) < q.maxTotalClaim

CanClaim(q, person, block) ==
  /\ ~q.locked
  /\ q.beneficiaries[person].state = "Valid"
  /\ ClaimCooldown(q, person) <= block
  /\ ClaimedAmount(q, person, block) < q.maxTotalClaim
  /\ ToClaim(q, person, block) <= q.balance

Claim(q, person, block) ==
  LET pay == ToClaim(q, person, block)
      r == q.beneficiaries[person]
  IN [q EXCEPT !.balance = @ - pay,
               !.beneficiaries[person] =
                 [r EXCEPT !.claims = @ + 1, !.lastClaim = block,
                           !.claimedAmount = ClaimedAmount(q, person, block) + pay]]

-----------------------------------------------------------------------------
(* The limits of one community. *)

\* How many beneficiaries are valid, and what each of them takes off the limit.
LimitFollowsCount(q) ==
  q.maxTotalClaim = q.rules.maxTotalClaim - q.validBeneficiaryCount * q.rules.decreaseStep

\* One claim is never more than the original amount, and the limit is never
\* less than one original claim.
ClaimWithinLimit(q) ==
  /\ q.claimAmount <= q.rules.originalClaimAmount
  /\ q.rules.originalClaimAmount <= q.maxTotalClaim
=============================================================================
