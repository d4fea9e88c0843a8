------------------------- MODULE CommunityAdminProofs -------------------------
(***************************************************************************)
(* Theorems about CommunityAdmin for every set of people, communities,      *)
(* tokens and parameters.  Three inductive invariants, each on top of the   *)
(* one before: IInv, the books of the communities; TypeOK; and HInv, by     *)
(* which every community keeps count of what its people received.           *)
(*                                                                           *)
(* And about the two contracts around it, Council and Ambassadors: the      *)
(* council decides by quorum, for any number of members, proposals and      *)
(* blocks, and the tables of entities and ambassadors agree, for any        *)
(* accounts, communities and numbers of both.                               *)
(***************************************************************************)
EXTENDS CommunityAdmin, Council, Ambassadors, SumTheorems, TLAPS

(***************************************************************************)
(* What each call of a community preserves, whoever makes it and whenever:  *)
(* the books of its record, and who has left it.                            *)
(***************************************************************************)

Params == [originalClaimAmount : Nat, maxTotalClaim : Nat, decreaseStep : Nat,
           baseInterval : Nat, incrementInterval : Nat]

\* The fields that a record of a community and of a beneficiary has.
Shaped(q) ==
  /\ DOMAIN q = {"beneficiaries", "validBeneficiaryCount", "maxBeneficiaries", "rules", "maxTotalClaim",
                 "claimAmount", "tranches", "lastFundRequest", "token", "tokenUpdates", "balance", "locked",
                 "managers", "previousCommunity", "copyOf", "copies"}
  /\ DOMAIN q.beneficiaries = People
  /\ \A p \in People : DOMAIN q.beneficiaries[p] = {"state", "claims", "claimedAmount", "lastClaim"}

Valid(q) == {p \in People : q.beneficiaries[p].state = "Valid"}
Gone(q, p) == q.beneficiaries[p].state \in {"Removed", "AddressChanged", "Copied"}

\* The books of a community, but for the amount of a claim; and with it.
Limited(q) ==
  /\ Shaped(q)
  /\ q.rules \in Params
  /\ q.validBeneficiaryCount = Cardinality(Valid(q))
  /\ LimitFollowsCount(q)
  /\ q.rules.originalClaimAmount <= q.maxTotalClaim
Sound(q) == Limited(q) /\ q.claimAmount <= q.rules.originalClaimAmount

SameOrigin(q, r) == r.copyOf = q.copyOf /\ r.previousCommunity = q.previousCommunity

\* r may come after q.
Follows(q, r) == Sound(r) /\ SameOrigin(q, r) /\ \A p \in People : Gone(q, p) => Gone(r, p)

-----------------------------------------------------------------------------

LEMMA CountIsNatural ==
  ASSUME NEW q, Limited(q)
  PROVE  /\ q.validBeneficiaryCount \in Nat /\ q.maxTotalClaim \in Nat
         /\ InitialMaxTotalClaim(q) = q.rules.maxTotalClaim
<1>1. IsFiniteSet(Valid(q))
  BY CommunityAssumption, FS_Subset DEF Valid
<1>2. q.validBeneficiaryCount \in Nat
  BY <1>1, FS_CardinalityType DEF Limited
<1>3. q.validBeneficiaryCount * q.rules.decreaseStep \in Nat
  BY <1>2 DEF Limited, Params
<1> QED BY <1>2, <1>3 DEF Limited, LimitFollowsCount, Params, InitialMaxTotalClaim

\* A change of what the books do not speak of.
LEMMA SameBooks ==
  ASSUME NEW q, Sound(q), NEW r, Shaped(r), SameOrigin(q, r),
         r.rules = q.rules, r.validBeneficiaryCount = q.validBeneficiaryCount,
         r.maxTotalClaim = q.maxTotalClaim, r.claimAmount = q.claimAmount,
         \A p \in People : r.beneficiaries[p].state = q.beneficiaries[p].state
  PROVE  Follows(q, r)
<1>1. Valid(r) = Valid(q)
  BY DEF Valid
<1> QED BY <1>1 DEF Follows, Sound, Limited, LimitFollowsCount, Gone

LEMMA BalanceFollows ==
  ASSUME NEW q, Sound(q), NEW balance
  PROVE  Follows(q, [q EXCEPT !.balance = balance])
BY SameBooks DEF Sound, Limited, Shaped, SameOrigin

\* Neither have the other parameters.
LEMMA OtherFieldsFollow ==
  ASSUME NEW q, Sound(q), NEW v
  PROVE  /\ Follows(q, [q EXCEPT !.maxBeneficiaries = v]) /\ Follows(q, [q EXCEPT !.tranches = v])
         /\ Follows(q, [q EXCEPT !.locked = v]) /\ Follows(q, [q EXCEPT !.managers = v])
         /\ Follows(q, [q EXCEPT !.lastFundRequest = v])
<1>1. Follows(q, [q EXCEPT !.maxBeneficiaries = v])
  BY SameBooks DEF Sound, Limited, Shaped, SameOrigin
<1>2. Follows(q, [q EXCEPT !.tranches = v])
  BY SameBooks DEF Sound, Limited, Shaped, SameOrigin
<1>3. Follows(q, [q EXCEPT !.locked = v])
  BY SameBooks DEF Sound, Limited, Shaped, SameOrigin
<1>4. Follows(q, [q EXCEPT !.managers = v])
  BY SameBooks DEF Sound, Limited, Shaped, SameOrigin
<1>5. Follows(q, [q EXCEPT !.lastFundRequest = v])
  BY SameBooks DEF Sound, Limited, Shaped, SameOrigin
<1> QED BY <1>1, <1>2, <1>3, <1>4, <1>5

LEMMA FollowsIsTransitive ==
  ASSUME NEW q, NEW r, NEW s, Follows(q, r), Follows(r, s)
  PROVE  Follows(q, s)
BY DEF Follows, SameOrigin

\* Whatever the balance, the new amount of a claim is at most the original one.
LEMMA UpdateClaimAmountSound ==
  ASSUME NEW q, Limited(q), NEW ratio \in Nat
  PROVE  /\ Sound(UpdateClaimAmount(q, ratio)) /\ SameOrigin(q, UpdateClaimAmount(q, ratio))
         /\ UpdateClaimAmount(q, ratio).beneficiaries = q.beneficiaries
<1> DEFINE original == q.rules.originalClaimAmount
           minimum == (original * RatioPrecision) \div ratio
           share == q.balance \div q.validBeneficiaryCount
           amount == IF q.validBeneficiaryCount = 0 \/ IsSelfFunding(q) \/ ratio <= RatioPrecision THEN original
                     ELSE IF share < minimum THEN minimum
                     ELSE IF share <= original THEN share
                     ELSE original
           r == [q EXCEPT !.claimAmount = amount]
<1>1. original \in Nat /\ original <= original
  BY DEF Limited, Params
<1>2. ratio > RatioPrecision => minimum <= original
  BY <1>1, CommunityAssumption
<1>3. CASE q.validBeneficiaryCount = 0 \/ IsSelfFunding(q) \/ ratio <= RatioPrecision
  BY <1>1, <1>3 DEF UpdateClaimAmount, Sound, Limited, Shaped, LimitFollowsCount, Valid, SameOrigin
<1>4. CASE ~(q.validBeneficiaryCount = 0 \/ IsSelfFunding(q) \/ ratio <= RatioPrecision)
  <2>1. ratio > RatioPrecision
    BY <1>4, CommunityAssumption
  <2>2. amount <= original
    BY <1>1, <1>2, <1>4, <2>1
  <2>3. r = UpdateClaimAmount(q, ratio)
    BY DEF UpdateClaimAmount
  <2> HIDE DEF amount
  <2>4. /\ r.claimAmount = amount /\ r.rules = q.rules /\ r.beneficiaries = q.beneficiaries
        /\ r.maxTotalClaim = q.maxTotalClaim /\ r.validBeneficiaryCount = q.validBeneficiaryCount
        /\ r.copyOf = q.copyOf /\ r.previousCommunity = q.previousCommunity /\ DOMAIN r = DOMAIN q
    BY DEF Limited, Shaped
  <2> HIDE DEF r
  <2> QED BY <2>2, <2>3, <2>4 DEF Sound, Limited, Shaped, LimitFollowsCount, Valid, SameOrigin
<1> QED BY <1>3, <1>4

LEMMA UpdateClaimAmountFollows ==
  ASSUME NEW q, NEW r, Follows(q, r), NEW ratio \in Nat
  PROVE  Follows(q, UpdateClaimAmount(r, ratio))
BY UpdateClaimAmountSound DEF Follows, Sound, SameOrigin, Gone

-----------------------------------------------------------------------------
(* Parameters. *)

LEMMA InitializeSound ==
  ASSUME NEW token, NEW managers, NEW rules \in Params, NEW tranches, NEW maxBeneficiaries, NEW previous,
         CanInitialize(rules, tranches)
  PROVE  LET r == Initialize(token, managers, rules, tranches, maxBeneficiaries, previous)
         IN Sound(r) /\ r.copyOf = NoCommunity /\ r.previousCommunity = previous
<1> DEFINE r == Initialize(token, managers, rules, tranches, maxBeneficiaries, previous)
<1>1. Shaped(r)
  BY DEF Initialize, NewBeneficiary, Shaped
<1>2. Valid(r) = {}
  BY DEF Initialize, NewBeneficiary, Valid
<1>3. Cardinality(Valid(r)) = 0
  BY <1>2, FS_EmptySet
<1> QED BY <1>1, <1>3 DEF Initialize, Sound, Limited, LimitFollowsCount, CanInitialize, Params

LEMMA UpdateBeneficiaryParamsFollows ==
  ASSUME NEW q, Sound(q), NEW rules \in Params, NEW ratio \in Nat, CanUpdateBeneficiaryParams(q, rules)
  PROVE  Follows(q, UpdateBeneficiaryParams(q, rules, ratio))
<1> DEFINE limit == rules.maxTotalClaim - q.validBeneficiaryCount * rules.decreaseStep
           r == [q EXCEPT !.rules = rules, !.maxTotalClaim = limit]
<1>1. q.validBeneficiaryCount \in Nat
  BY CountIsNatural DEF Sound
<1>2. q.validBeneficiaryCount * rules.decreaseStep \in Nat
  BY <1>1 DEF Params
<1>3. rules.originalClaimAmount <= limit
  BY <1>2 DEF CanUpdateBeneficiaryParams, Params
<1>4. /\ r.rules = rules /\ r.maxTotalClaim = limit /\ r.beneficiaries = q.beneficiaries
      /\ r.validBeneficiaryCount = q.validBeneficiaryCount /\ SameOrigin(q, r) /\ DOMAIN r = DOMAIN q
  BY DEF Sound, Limited, Shaped, SameOrigin
<1>5. UpdateBeneficiaryParams(q, rules, ratio) = UpdateClaimAmount(r, ratio)
  BY DEF UpdateBeneficiaryParams
<1> HIDE DEF r
<1>6. Limited(r)
  BY <1>3, <1>4 DEF Sound, Limited, Shaped, LimitFollowsCount, Valid
<1> QED BY <1>4, <1>5, <1>6, UpdateClaimAmountSound DEF Follows, SameOrigin, Gone

LEMMA UpdateTokenFollows ==
  ASSUME NEW q, Sound(q), NEW token, NEW rules \in Params, NEW swapped, NEW ratio \in Nat, NEW when,
         CanUpdateToken(q, token, rules)
  PROVE  Follows(q, UpdateToken(q, token, rules, swapped, ratio, when))
<1> DEFINE r == [q EXCEPT !.token = token, !.balance = swapped, !.tokenUpdates = WithTokenUpdate(q, rules, when)]
<1>1. /\ Shaped(r) /\ SameOrigin(q, r) /\ r.rules = q.rules /\ r.beneficiaries = q.beneficiaries
      /\ r.validBeneficiaryCount = q.validBeneficiaryCount
      /\ r.maxTotalClaim = q.maxTotalClaim /\ r.claimAmount = q.claimAmount
  BY DEF Sound, Limited, Shaped, SameOrigin
<1>2. UpdateToken(q, token, rules, swapped, ratio, when) = UpdateBeneficiaryParams(r, rules, ratio)
  BY DEF UpdateToken
<1> HIDE DEF r
<1>3. Follows(q, r)
  BY <1>1, SameBooks
<1>4. CanUpdateBeneficiaryParams(r, rules)
  BY <1>1 DEF CanUpdateToken, CanUpdateBeneficiaryParams
<1>5. Follows(r, UpdateBeneficiaryParams(r, rules, ratio))
  BY <1>3, <1>4, UpdateBeneficiaryParamsFollows DEF Follows
<1> QED BY <1>2, <1>3, <1>5 DEF Follows, SameOrigin

-----------------------------------------------------------------------------
(* The states of beneficiaries. *)

\* Counting: one person more, one less, or the same.
LEMMA ValidAfterChange ==
  ASSUME NEW q, Limited(q), NEW r, NEW person \in People, NEW state,
         r.beneficiaries[person].state = state,
         \A p \in People \ {person} : r.beneficiaries[p].state = q.beneficiaries[p].state
  PROVE  LET old == q.beneficiaries[person].state
             more == IF old = state THEN 0 ELSE IF state = "Valid" THEN 1 ELSE IF old = "Valid" THEN -1 ELSE 0
         IN Cardinality(Valid(r)) = q.validBeneficiaryCount + more
<1> DEFINE old == q.beneficiaries[person].state
<1>1. IsFiniteSet(Valid(q)) /\ q.validBeneficiaryCount = Cardinality(Valid(q)) /\ Cardinality(Valid(q)) \in Nat
  BY CommunityAssumption, FS_Subset, FS_CardinalityType DEF Valid, Limited
<1>2. CASE old = state \/ (old # "Valid" /\ state # "Valid")
  <2>1. Valid(r) = Valid(q)
    BY <1>2 DEF Valid
  <2> QED BY <1>1, <1>2, <2>1
<1>3. CASE old # "Valid" /\ state = "Valid"
  <2>1. Valid(r) = Valid(q) \cup {person} /\ person \notin Valid(q)
    BY <1>3 DEF Valid
  <2>2. Cardinality(Valid(r)) = Cardinality(Valid(q)) + 1
    BY <1>1, <2>1, FS_AddElement
  <2> QED BY <1>1, <1>3, <2>2
<1>4. CASE old = "Valid" /\ state # "Valid"
  <2>1. Valid(r) = Valid(q) \ {person} /\ person \in Valid(q)
    BY <1>4 DEF Valid
  <2>2. Cardinality(Valid(r)) = Cardinality(Valid(q)) - 1
    BY <1>1, <2>1, FS_RemoveElement
  <2> QED BY <1>1, <1>4, <2>2
<1> QED BY <1>2, <1>3, <1>4

LEMMA ChangeStateSound ==
  ASSUME NEW q, Sound(q), NEW person \in People, NEW state, CanChangeState(q, person, state)
  PROVE  LET r == ChangeState(q, person, state)
         IN /\ Sound(r) /\ SameOrigin(q, r)
            /\ r.beneficiaries[person].state = state
            /\ \A p \in People \ {person} : r.beneficiaries[p] = q.beneficiaries[p]
<1> DEFINE old == q.beneficiaries[person].state
           step == q.rules.decreaseStep
           more == IF old = state THEN 0 ELSE IF state = "Valid" THEN 1 ELSE IF old = "Valid" THEN -1 ELSE 0
           r == ChangeState(q, person, state)
<1>1. more \in {-1, 0, 1} /\ (more = 1 => state = "Valid" /\ old # "Valid")
  OBVIOUS
<1>2. Cardinality(Valid(q)) = q.validBeneficiaryCount /\ q.validBeneficiaryCount \in Nat
      /\ step \in Nat /\ q.rules.originalClaimAmount \in Nat /\ q.rules.maxTotalClaim \in Nat
      /\ q.maxTotalClaim \in Nat
  BY CountIsNatural DEF Sound, Limited, Params
<1>3. /\ Shaped(r) /\ SameOrigin(q, r)
      /\ r.rules = q.rules /\ r.claimAmount = q.claimAmount
      /\ r.validBeneficiaryCount = q.validBeneficiaryCount + more
      /\ r.maxTotalClaim = q.maxTotalClaim - more * step
      /\ r.beneficiaries[person].state = state
      /\ \A p \in People \ {person} : r.beneficiaries[p] = q.beneficiaries[p]
  BY DEF ChangeState, Sound, Limited, Shaped, SameOrigin
<1> HIDE DEF r
<1>4. Cardinality(Valid(r)) = q.validBeneficiaryCount + more
  BY <1>3, ValidAfterChange DEF Sound
<1> HIDE DEF more
<1>5. q.rules.originalClaimAmount <= q.maxTotalClaim - more * step
  <2>1. CASE more = 1
    BY <1>1, <1>2, <2>1 DEF CanChangeState
  <2>2. CASE more # 1
    BY <1>1, <1>2, <2>2 DEF Sound, Limited
  <2> QED BY <2>1, <2>2
<1>6. q.maxTotalClaim - more * step = q.rules.maxTotalClaim - (q.validBeneficiaryCount + more) * step
  BY <1>1, <1>2 DEF Sound, Limited, LimitFollowsCount
<1>7. Sound(r)
  BY <1>3, <1>4, <1>5, <1>6 DEF Sound, Limited, LimitFollowsCount
<1> QED BY <1>3, <1>7 DEF r

LEMMA ChangeStateFollows ==
  ASSUME NEW q, Sound(q), NEW person \in People, NEW state, CanChangeState(q, person, state),
         Gone(q, person) => state \in {"Removed", "AddressChanged", "Copied"}
  PROVE  Follows(q, ChangeState(q, person, state))
BY ChangeStateSound DEF Follows, Gone

\* An entry for one person is replaced by another one of the same state.
LEMMA EntryFollows ==
  ASSUME NEW q, Sound(q), NEW person \in People, NEW entry,
         DOMAIN entry = {"state", "claims", "claimedAmount", "lastClaim"},
         entry.state = q.beneficiaries[person].state
  PROVE  Follows(q, [q EXCEPT !.beneficiaries[person] = entry])
<1> DEFINE r == [q EXCEPT !.beneficiaries[person] = entry]
<1>1. /\ Shaped(r) /\ SameOrigin(q, r) /\ r.rules = q.rules
      /\ r.validBeneficiaryCount = q.validBeneficiaryCount
      /\ r.maxTotalClaim = q.maxTotalClaim /\ r.claimAmount = q.claimAmount
      /\ \A p \in People : r.beneficiaries[p].state = q.beneficiaries[p].state
  BY DEF Sound, Limited, Shaped, SameOrigin
<1> HIDE DEF r
<1> QED BY <1>1, SameBooks DEF r

LEMMA AddFollows ==
  ASSUME NEW q, Sound(q), NEW person \in People, NEW when, CanAdd(q, person)
  PROVE  Follows(q, Add(q, person, when))
<1> DEFINE r == ChangeState(q, person, "Valid")
<1>1. Follows(q, r)
  BY ChangeStateFollows DEF CanAdd, Gone
<1> HIDE DEF r
<1>2. /\ Shaped([r EXCEPT !.beneficiaries[person].lastClaim = when])
      /\ SameOrigin(r, [r EXCEPT !.beneficiaries[person].lastClaim = when])
      /\ \A p \in People : [r EXCEPT !.beneficiaries[person].lastClaim = when].beneficiaries[p].state
                             = r.beneficiaries[p].state
  BY <1>1 DEF Follows, Sound, Limited, Shaped, SameOrigin
<1>3. /\ [r EXCEPT !.beneficiaries[person].lastClaim = when].rules = r.rules
      /\ [r EXCEPT !.beneficiaries[person].lastClaim = when].validBeneficiaryCount = r.validBeneficiaryCount
      /\ [r EXCEPT !.beneficiaries[person].lastClaim = when].maxTotalClaim = r.maxTotalClaim
      /\ [r EXCEPT !.beneficiaries[person].lastClaim = when].claimAmount = r.claimAmount
  BY <1>1 DEF Follows, Sound, Limited, Shaped
<1>4. Follows(r, [r EXCEPT !.beneficiaries[person].lastClaim = when])
  BY <1>1, <1>2, <1>3, SameBooks DEF Follows
<1> QED BY <1>1, <1>4 DEF Add, Follows, SameOrigin, r

\* Only somebody unknown is adopted.
LEMMA AdoptFollows ==
  ASSUME NEW q, Sound(q), NEW person \in People, NEW told,
         DOMAIN told = {"state", "claims", "claimedAmount", "lastClaim"},
         q.beneficiaries[person].state = "NONE", CanChangeState(q, person, told.state)
  PROVE  Follows(q, Adopt(q, person, told))
<1> DEFINE r == ChangeState(q, person, told.state)
<1>1. Follows(q, r) /\ r.beneficiaries[person].state = told.state
  BY ChangeStateFollows, ChangeStateSound DEF Gone
<1>2. Adopt(q, person, told) = [r EXCEPT !.beneficiaries[person] = told]
  BY DEF Adopt
<1> HIDE DEF r
<1>3. Follows(r, [r EXCEPT !.beneficiaries[person] = told])
  BY <1>1, EntryFollows DEF Follows
<1> QED BY <1>1, <1>2, <1>3 DEF Follows, SameOrigin

\* The old address is gone for good; the new one keeps its state or takes that
\* of the old one, if it has none.
LEMMA ChangeAddressFollows ==
  ASSUME NEW q, Sound(q), NEW old \in People, NEW new \in People, CanChangeAddress(q, old, new)
  PROVE  Follows(q, ChangeAddress(q, old, new))
<1> DEFINE q1 == IF q.beneficiaries[new].state = "NONE"
                 THEN ChangeState(q, new, q.beneficiaries[old].state) ELSE q
           q2 == ChangeState(q1, old, "AddressChanged")
           o == q2.beneficiaries[old]
           n == q2.beneficiaries[new]
           last == IF n.lastClaim > o.lastClaim THEN n.lastClaim ELSE o.lastClaim
           entry == [state |-> n.state, claims |-> n.claims + o.claims,
                     claimedAmount |-> ClaimedAmount(q2, old, last) + ClaimedAmount(q2, new, last),
                     lastClaim |-> last]
<1>1. Follows(q, q1)
  <2>1. CASE q.beneficiaries[new].state = "NONE"
    BY <2>1, ChangeStateFollows DEF CanChangeAddress, Gone
  <2>2. CASE q.beneficiaries[new].state # "NONE"
    BY <2>2 DEF Follows, SameOrigin
  <2> QED BY <2>1, <2>2
<1> HIDE DEF q1
<1>2. Follows(q1, q2)
  <2>1. CanChangeState(q1, old, "AddressChanged")
    BY DEF CanChangeState
  <2> QED BY <1>1, <2>1, ChangeStateFollows DEF Follows
<1> HIDE DEF q2
<1>3. entry.state = n.state /\ DOMAIN entry = {"state", "claims", "claimedAmount", "lastClaim"}
  OBVIOUS
<1> HIDE DEF entry
<1>4. Follows(q2, [q2 EXCEPT !.beneficiaries[new] = entry])
  BY <1>2, <1>3, EntryFollows DEF Follows
<1>5. ChangeAddress(q, old, new) = [q2 EXCEPT !.beneficiaries[new] = entry]
  BY DEF ChangeAddress, q1, q2, entry
<1> QED BY <1>1, <1>2, <1>4, <1>5 DEF Follows, SameOrigin

LEMMA ClaimFollows ==
  ASSUME NEW q, Sound(q), NEW person \in People, NEW when
  PROVE  Follows(q, Claim(q, person, when))
<1> DEFINE pay == ToClaim(q, person, when)
           claimed == ClaimedAmount(q, person, when) + pay
           r == Claim(q, person, when)
<1> HIDE DEF pay, claimed
<1>1. r = [q EXCEPT !.balance = @ - pay,
             !.beneficiaries[person] = [q.beneficiaries[person] EXCEPT
               !.claims = @ + 1, !.lastClaim = when, !.claimedAmount = claimed]]
  BY DEF Claim, pay, claimed
<1> HIDE DEF r
<1>2. /\ Shaped(r) /\ SameOrigin(q, r) /\ r.rules = q.rules
      /\ r.validBeneficiaryCount = q.validBeneficiaryCount
      /\ r.maxTotalClaim = q.maxTotalClaim /\ r.claimAmount = q.claimAmount
      /\ \A p \in People : r.beneficiaries[p].state = q.beneficiaries[p].state
  BY <1>1 DEF Sound, Limited, Shaped, SameOrigin
<1>3. Follows(q, r)
  BY <1>2, SameBooks
<1> QED BY <1>3 DEF r

(***************************************************************************)
(* All the communities of CommunityAdmin.                                   *)
(***************************************************************************)

\* The books of every community are sound, and where a community says it comes
\* from there is a community.
Origins == Deployed \cup {NoCommunity}
IInv ==
  /\ status \in [Communities -> {"NONE", "Valid", "Removed", "Migrated"}]
  /\ DOMAIN communities = Communities
  /\ settings \in Settings
  /\ \A c \in Deployed :
       /\ Sound(communities[c])
       /\ communities[c].copyOf \in Origins /\ communities[c].previousCommunity \in Origins

NobodyReturns == \A c \in Deployed, p \in People : Gone(communities[c], p) => Gone(communities'[c], p)

\* What every step does.
Good == IInv' /\ NobodyReturns

-----------------------------------------------------------------------------
(* Steps of one community, or of two. *)

LEMMA OneFollows ==
  ASSUME IInv, NEW c \in Deployed, NEW r, Follows(communities[c], r),
         communities' = [communities EXCEPT ![c] = r], status' = status, settings' = settings
  PROVE  Good
<1>1. c \in Communities /\ Deployed' = Deployed /\ Origins' = Origins
  BY DEF Deployed, Origins
<1>2. communities'[c] = r /\ \A d \in Deployed \ {c} : communities'[d] = communities[d]
  BY <1>1 DEF IInv, Deployed
<1>3. IInv'
  BY <1>1, <1>2 DEF IInv, Follows, SameOrigin
<1>4. NobodyReturns
  BY <1>1, <1>2 DEF NobodyReturns, Follows
<1> QED BY <1>3, <1>4 DEF Good

LEMMA TwoFollow ==
  ASSUME IInv, NEW c \in Deployed, NEW r, Follows(communities[c], r),
         NEW d \in Deployed, NEW s, Follows(communities[d], s),
         communities' = [communities EXCEPT ![c] = r, ![d] = s], status' = status, settings' = settings
  PROVE  Good
<1>1. c \in Communities /\ d \in Communities /\ Deployed' = Deployed /\ Origins' = Origins
  BY DEF Deployed, Origins
<1>2. /\ communities'[d] = s /\ (c # d => communities'[c] = r)
      /\ \A e \in Deployed \ {c, d} : communities'[e] = communities[e]
  BY <1>1 DEF IInv, Deployed
<1>3. ASSUME NEW e \in Deployed
      PROVE  /\ Sound(communities'[e])
             /\ communities'[e].copyOf \in Origins /\ communities'[e].previousCommunity \in Origins
  <2>1. CASE e = d
    BY <1>2, <2>1 DEF IInv, Follows, SameOrigin
  <2>2. CASE e = c /\ c # d
    BY <1>2, <2>2 DEF IInv, Follows, SameOrigin
  <2>3. CASE e \notin {c, d}
    BY <1>2, <2>3 DEF IInv
  <2> QED BY <2>1, <2>2, <2>3
<1>4. IInv'
  BY <1>1, <1>3 DEF IInv
<1>5. NobodyReturns
  BY <1>1, <1>2 DEF NobodyReturns, Follows
<1> QED BY <1>4, <1>5 DEF Good

\* A community r is deployed at new, and the one at old may change.
LEMMA NewFollows ==
  ASSUME IInv, NEW old \in Deployed, NEW q, Follows(communities[old], q),
         NEW new \in Communities, status[new] = "NONE", NEW r, Sound(r),
         r.copyOf \in Origins, r.previousCommunity \in Origins,
         communities' = [communities EXCEPT ![old] = q, ![new] = r],
         NEW s \in {"Valid", "Migrated"},
         status' = [status EXCEPT ![old] = s, ![new] = "Valid"] \/ status' = [status EXCEPT ![new] = "Valid"],
         settings' = settings
  PROVE  Good
<1>1. old \in Communities /\ old # new /\ new \notin Deployed
  BY DEF Deployed
<1>2. Deployed' = Deployed \cup {new}
  BY <1>1 DEF Deployed, IInv
<1>3. /\ communities'[old] = q /\ communities'[new] = r
      /\ \A e \in Deployed \ {old} : communities'[e] = communities[e]
  BY <1>1 DEF IInv, Deployed
<1>4. Origins' = Origins \cup {new}
  BY <1>2 DEF Origins
<1>5. status' \in [Communities -> {"NONE", "Valid", "Removed", "Migrated"}] /\ DOMAIN communities' = Communities
  BY DEF IInv
<1>6. ASSUME NEW e \in Deployed'
      PROVE  /\ Sound(communities'[e])
             /\ communities'[e].copyOf \in Origins' /\ communities'[e].previousCommunity \in Origins'
  <2>1. CASE e = new
    BY <1>3, <1>4, <2>1
  <2>2. CASE e = old
    <3>1. communities'[e] = q /\ Sound(q) /\ q.copyOf = communities[old].copyOf
          /\ q.previousCommunity = communities[old].previousCommunity
      BY <1>3, <2>2 DEF Follows, SameOrigin
    <3> QED BY <1>4, <3>1 DEF IInv
  <2>3. CASE e \in Deployed \ {old}
    <3>1. communities'[e] = communities[e]
      BY <1>3, <2>3
    <3>2. /\ Sound(communities[e])
          /\ communities[e].copyOf \in Origins /\ communities[e].previousCommunity \in Origins
      BY <2>3 DEF IInv
    <3> QED BY <1>4, <3>1, <3>2
  <2>4. e = new \/ e = old \/ e \in Deployed \ {old}
    BY <1>2
  <2> QED BY <2>1, <2>2, <2>3, <2>4
<1>7. IInv'
  BY <1>5, <1>6 DEF IInv
<1>8. NobodyReturns
  BY <1>3 DEF NobodyReturns, Follows
<1> QED BY <1>7, <1>8 DEF Good

LEMMA DeployedSound ==
  ASSUME IInv, NEW c \in Deployed
  PROVE  Sound(communities[c]) /\ Shaped(communities[c]) /\ Ratio \in Nat
BY DEF IInv, Sound, Limited, Ratio, Settings

LEMMA BecomesGood ==
  ASSUME IInv, NEW c \in Deployed, NEW r, Follows(communities[c], r), Becomes(c, r)
  PROVE  Good
BY OneFollows DEF Becomes

-----------------------------------------------------------------------------
(* Communities come and go. *)

LEMMA InitSound == Init => IInv
<1> SUFFICES ASSUME Init PROVE IInv
  OBVIOUS
<1>1. Deployed = {}
  BY DEF Init, Deployed
<1> QED BY <1>1, CommunityAdminAssumption DEF Init, IInv

LEMMA AddCommunityGood ==
  ASSUME IInv, NEW c \in Communities, NEW token, NEW rules \in RulesChoices, NEW tranches, NEW maxBeneficiaries,
         AddCommunity(c, token, rules, tranches, maxBeneficiaries)
  PROVE  Good
<1> DEFINE q == Initialize(token, Managers, rules, tranches, maxBeneficiaries, NoCommunity)
           first == IF treasury[token] >= tranches.min THEN tranches.min ELSE 0
           r == [q EXCEPT !.balance = first]
<1>1. Sound(q) /\ q.copyOf = NoCommunity /\ q.previousCommunity = NoCommunity
  BY CommunityAdminAssumption, InitializeSound DEF AddCommunity, Params, Rules
<1>2. communities' = [communities EXCEPT ![c] = r] /\ status' = [status EXCEPT ![c] = "Valid"]
      /\ settings' = settings /\ status[c] = "NONE"
  BY DEF AddCommunity
<1> HIDE DEF q, first
<1>3. Sound(r) /\ r.copyOf = NoCommunity /\ r.previousCommunity = NoCommunity
  BY <1>1, BalanceFollows DEF Follows, SameOrigin
<1> HIDE DEF r
<1>4. c \notin Deployed /\ Deployed' = Deployed \cup {c}
  BY <1>2 DEF Deployed, IInv
<1>5. communities'[c] = r /\ \A e \in Deployed : communities'[e] = communities[e]
  BY <1>2, <1>4 DEF IInv, Deployed
<1>6. Origins' = Origins \cup {c}
  BY <1>4 DEF Origins
<1>7. IInv'
  <2>1. status' \in [Communities -> {"NONE", "Valid", "Removed", "Migrated"}] /\ DOMAIN communities' = Communities
    BY <1>2 DEF IInv
  <2>2. \A e \in Deployed' :
          /\ Sound(communities'[e])
          /\ communities'[e].copyOf \in Origins' /\ communities'[e].previousCommunity \in Origins'
    BY <1>3, <1>4, <1>5, <1>6 DEF IInv, Origins
  <2> QED BY <1>2, <2>1, <2>2 DEF IInv
<1>8. NobodyReturns
  BY <1>5 DEF NobodyReturns
<1> QED BY <1>7, <1>8 DEF Good

LEMMA InheritSound ==
  ASSUME NEW q, Sound(q), NEW previous, CanInitialize(Inherit(q, previous).rules, q.tranches)
  PROVE  /\ Sound(Inherit(q, previous)) /\ Inherit(q, previous).copyOf = NoCommunity
         /\ Inherit(q, previous).previousCommunity = previous
<1> DEFINE rules == [q.rules EXCEPT !.maxTotalClaim = InitialMaxTotalClaim(q)]
<1>1. rules \in Params
  BY CountIsNatural DEF Sound, Limited, Params
<1>2. Inherit(q, previous) = Initialize(q.token, Managers, rules, q.tranches, q.maxBeneficiaries, previous)
  BY DEF Inherit
<1> HIDE DEF rules
<1>3. Inherit(q, previous).rules = rules
  BY <1>2 DEF Initialize
<1> QED BY <1>1, <1>2, <1>3, InitializeSound

LEMMA MigrateCommunityGood ==
  ASSUME IInv, NEW old \in Communities, NEW new \in Communities, MigrateCommunity(old, new)
  PROVE  Good
<1> DEFINE q == communities[old]
           left == UpdateClaimAmount([q EXCEPT !.balance = 0], Ratio)
           heir == Inherit(q, old)
<1>1. old \in Deployed /\ Sound(q) /\ Ratio \in Nat
  BY DeployedSound DEF MigrateCommunity
<1>2. Follows(q, left)
  BY <1>1, BalanceFollows, UpdateClaimAmountFollows
<1>3. Sound(heir) /\ heir.copyOf = NoCommunity /\ heir.previousCommunity = old
  BY <1>1, InheritSound DEF MigrateCommunity
<1>4. communities' = [communities EXCEPT ![old] = left, ![new] = [heir EXCEPT !.balance = q.balance]]
      /\ status' = [status EXCEPT ![old] = "Migrated", ![new] = "Valid"] /\ settings' = settings
      /\ status[new] = "NONE"
  BY DEF MigrateCommunity
<1> HIDE DEF left, heir
<1>5. Follows(heir, [heir EXCEPT !.balance = q.balance])
  BY <1>3, BalanceFollows
<1> QED BY <1>1, <1>2, <1>3, <1>4, <1>5, NewFollows DEF Follows, SameOrigin, Origins

LEMMA SplitCommunityGood ==
  ASSUME IInv, NEW old \in Communities, NEW new \in Communities, SplitCommunity(old, new)
  PROVE  Good
<1> DEFINE q == communities[old]
           parent == [q EXCEPT !.copies = @ \cup {new}]
           heir == Inherit(q, NoCommunity)
           copy == [heir EXCEPT !.copyOf = old, !.tokenUpdates = q.tokenUpdates]
<1>1. old \in Deployed
  BY DEF SplitCommunity, Deployed
<1>2. Sound(q)
  BY <1>1, DeployedSound
<1>3. Sound(heir) /\ heir.previousCommunity = NoCommunity
  BY <1>2, InheritSound DEF SplitCommunity
<1>4. communities' = [communities EXCEPT ![old] = parent, ![new] = copy]
      /\ status' = [status EXCEPT ![new] = "Valid"] /\ settings' = settings /\ status[new] = "NONE"
  BY DEF SplitCommunity
<1> HIDE DEF heir
<1>5. Follows(q, parent)
  <2>1. /\ Shaped(parent) /\ SameOrigin(q, parent) /\ parent.rules = q.rules
        /\ parent.validBeneficiaryCount = q.validBeneficiaryCount
        /\ parent.maxTotalClaim = q.maxTotalClaim /\ parent.claimAmount = q.claimAmount
        /\ parent.beneficiaries = q.beneficiaries
    BY <1>2 DEF Sound, Limited, Shaped, SameOrigin
  <2> HIDE DEF parent
  <2> QED BY <1>2, <2>1, SameBooks
<1>6. /\ Shaped(copy) /\ copy.copyOf = old /\ copy.previousCommunity = NoCommunity
      /\ copy.rules = heir.rules /\ copy.validBeneficiaryCount = heir.validBeneficiaryCount
      /\ copy.maxTotalClaim = heir.maxTotalClaim /\ copy.claimAmount = heir.claimAmount
      /\ copy.beneficiaries = heir.beneficiaries
  BY <1>3 DEF Sound, Limited, Shaped
<1> HIDE DEF copy, parent
<1>7. Sound(copy)
  BY <1>3, <1>6 DEF Sound, Limited, LimitFollowsCount, Valid
<1> QED BY <1>1, <1>4, <1>5, <1>6, <1>7, NewFollows DEF Origins

LEMMA RemoveCommunityGood ==
  ASSUME IInv, NEW c \in Communities, RemoveCommunity(c)
  PROVE  Good
<1> DEFINE q == communities[c]
           r == UpdateClaimAmount([q EXCEPT !.balance = 0], Ratio)
<1>1. c \in Deployed
  BY DEF RemoveCommunity, Deployed
<1>2. Follows(q, r)
  BY <1>1, DeployedSound, BalanceFollows, UpdateClaimAmountFollows
<1>3. communities' = [communities EXCEPT ![c] = r] /\ status' = [status EXCEPT ![c] = "Removed"]
      /\ settings' = settings
  BY DEF RemoveCommunity
<1> HIDE DEF r
<1>4. Deployed' = Deployed /\ Origins' = Origins
  BY <1>1, <1>3 DEF Deployed, IInv, Origins
<1>5. communities'[c] = r /\ \A d \in Deployed \ {c} : communities'[d] = communities[d]
  BY <1>1, <1>3 DEF IInv, Deployed
<1>6. IInv'
  <2>1. status' \in [Communities -> {"NONE", "Valid", "Removed", "Migrated"}] /\ DOMAIN communities' = Communities
    BY <1>3 DEF IInv
  <2>2. \A e \in Deployed' :
          /\ Sound(communities'[e])
          /\ communities'[e].copyOf \in Origins' /\ communities'[e].previousCommunity \in Origins'
    BY <1>2, <1>4, <1>5 DEF IInv, Follows, SameOrigin
  <2> QED BY <1>3, <2>1, <2>2 DEF IInv
<1>7. NobodyReturns
  BY <1>2, <1>5 DEF NobodyReturns, Follows
<1> QED BY <1>6, <1>7 DEF Good

-----------------------------------------------------------------------------
(* Parameters. *)

LEMMA SetBeneficiaryParamsGood ==
  ASSUME IInv, NEW c \in Communities, NEW rules \in RulesChoices, NEW maxBeneficiaries,
         SetBeneficiaryParams(c, rules, maxBeneficiaries)
  PROVE  Good
<1> DEFINE r == UpdateBeneficiaryParams(communities[c], rules, Ratio)
<1>1. c \in Deployed /\ Becomes(c, [r EXCEPT !.maxBeneficiaries = maxBeneficiaries])
  BY DEF SetBeneficiaryParams
<1>2. Follows(communities[c], r)
  BY <1>1, DeployedSound, CommunityAdminAssumption, UpdateBeneficiaryParamsFollows
     DEF SetBeneficiaryParams, Params, Rules
<1> HIDE DEF r
<1>3. Follows(communities[c], [r EXCEPT !.maxBeneficiaries = maxBeneficiaries])
  BY <1>2, OtherFieldsFollow, FollowsIsTransitive DEF Follows
<1> QED BY <1>1, <1>3, BecomesGood

LEMMA OtherParamsGood ==
  ASSUME IInv, NEW c \in Communities, NEW x,
         SetCommunityParams(c, x) \/ UpdateMaxBeneficiaries(c, x) \/ SetLocked(c, x)
           \/ AddManager(c, x) \/ RemoveManager(c, x)
  PROVE  Good
<1>1. c \in Deployed
  BY DEF SetCommunityParams, UpdateMaxBeneficiaries, SetLocked, AddManager, RemoveManager
<1>2. Sound(communities[c])
  BY <1>1, DeployedSound
<1>3. CASE SetCommunityParams(c, x)
  BY <1>1, <1>2, <1>3, OtherFieldsFollow, BecomesGood DEF SetCommunityParams
<1>4. CASE UpdateMaxBeneficiaries(c, x)
  BY <1>1, <1>2, <1>4, OtherFieldsFollow, BecomesGood DEF UpdateMaxBeneficiaries
<1>5. CASE SetLocked(c, x)
  BY <1>1, <1>2, <1>5, OtherFieldsFollow, BecomesGood DEF SetLocked
<1>6. CASE AddManager(c, x)
  BY <1>1, <1>2, <1>6, OtherFieldsFollow, BecomesGood DEF AddManager
<1>7. CASE RemoveManager(c, x)
  BY <1>1, <1>2, <1>7, OtherFieldsFollow, BecomesGood DEF RemoveManager
<1> QED BY <1>3, <1>4, <1>5, <1>6, <1>7

LEMMA UpdateCommunityTokenGood ==
  ASSUME IInv, NEW c \in Communities, NEW token, NEW rules \in RulesChoices, NEW rate,
         UpdateCommunityToken(c, token, rules, rate)
  PROVE  Good
<1> DEFINE r == UpdateToken(communities[c], token, rules, communities[c].balance * rate, Ratio, block)
<1>1. /\ c \in Deployed /\ communities' = [communities EXCEPT ![c] = r]
      /\ status' = status /\ settings' = settings
  BY DEF UpdateCommunityToken
<1>2. Follows(communities[c], r)
  BY <1>1, DeployedSound, CommunityAdminAssumption, UpdateTokenFollows
     DEF UpdateCommunityToken, Params, Rules
<1> QED BY <1>1, <1>2, OneFollows

LEMMA SameCommunitiesGood ==
  ASSUME IInv, communities' = communities, status' = status, settings' \in Settings
  PROVE  Good
<1>1. Deployed' = Deployed /\ Origins' = Origins
  BY DEF Deployed, Origins
<1> QED BY <1>1 DEF Good, IInv, NobodyReturns

-----------------------------------------------------------------------------
(* Funds. *)

LEMMA FundedFollows ==
  ASSUME IInv, NEW c \in Deployed
  PROVE  Follows(communities[c], Funded(c))
<1> DEFINE q == communities[c]
           richer == [q EXCEPT !.balance = @ + TrancheAmount(c)]
           r == [richer EXCEPT !.lastFundRequest = block]
<1>1. Sound(q) /\ Ratio \in Nat
  BY DeployedSound
<1>2. Follows(q, q)
  BY <1>1 DEF Follows, SameOrigin
<1>3. Follows(q, richer)
  BY <1>1, BalanceFollows
<1> HIDE DEF richer
<1>4. Follows(q, r)
  BY <1>3, OtherFieldsFollow, FollowsIsTransitive DEF Follows
<1>5. Funded(c) = IF TrancheAmount(c) = 0 THEN q ELSE UpdateClaimAmount(r, Ratio)
  BY DEF Funded, richer
<1> HIDE DEF q, r
<1> QED BY <1>1, <1>2, <1>4, <1>5, UpdateClaimAmountFollows DEF q

LEMMA RequestFundsGood ==
  ASSUME IInv, NEW c \in Communities, RequestFunds(c)
  PROVE  Good
BY FundedFollows, OneFollows DEF RequestFunds, ActiveManagers

LEMMA BalanceGood ==
  ASSUME IInv, NEW c \in Communities, NEW amount, Donate(c, amount) \/ TransferFromCommunity(c, amount)
  PROVE  Good
<1>1. c \in Deployed
  BY DEF Donate, TransferFromCommunity
<1>2. Sound(communities[c]) /\ Ratio \in Nat
  BY <1>1, DeployedSound
<1>3. CASE Donate(c, amount)
  <2>1. Becomes(c, UpdateClaimAmount([communities[c] EXCEPT !.balance = @ + amount], Ratio))
    BY <1>3 DEF Donate
  <2>2. Follows(communities[c], [communities[c] EXCEPT !.balance = @ + amount])
    BY <1>2, BalanceFollows
  <2> QED BY <1>1, <1>2, <2>1, <2>2, UpdateClaimAmountFollows, BecomesGood
<1>4. CASE TransferFromCommunity(c, amount)
  <2>1. Becomes(c, UpdateClaimAmount([communities[c] EXCEPT !.balance = @ - amount], Ratio))
    BY <1>4 DEF TransferFromCommunity
  <2>2. Follows(communities[c], [communities[c] EXCEPT !.balance = @ - amount])
    BY <1>2, BalanceFollows
  <2> QED BY <1>1, <1>2, <2>1, <2>2, UpdateClaimAmountFollows, BecomesGood
<1> QED BY <1>3, <1>4

-----------------------------------------------------------------------------
(* Beneficiaries. *)

LEMMA AddBeneficiaryGood ==
  ASSUME IInv, NEW c \in Communities, NEW p \in People, AddBeneficiary(c, p)
  PROVE  Good
<1> DEFINE added == Add(communities[c], p, block)
<1>1. /\ c \in Deployed /\ status' = status /\ settings' = settings
      /\ \/ communities' = [communities EXCEPT ![c] = added]
         \/ communities' = [communities EXCEPT ![c] = [added EXCEPT !.balance = @ - DefaultAmount]]
  BY DEF AddBeneficiary, ActiveManagers
<1>2. Follows(communities[c], added)
  BY <1>1, DeployedSound, AddFollows DEF AddBeneficiary
<1> HIDE DEF added
<1>3. Follows(communities[c], [added EXCEPT !.balance = @ - DefaultAmount])
  BY <1>2, BalanceFollows, FollowsIsTransitive DEF Follows
<1> QED BY <1>1, <1>2, <1>3, OneFollows

LEMMA ChangeStateGood ==
  ASSUME IInv, NEW c \in Communities, NEW p \in People,
         LockBeneficiary(c, p) \/ UnlockBeneficiary(c, p) \/ RemoveBeneficiary(c, p)
  PROVE  Good
<1>1. c \in Deployed
  BY DEF LockBeneficiary, UnlockBeneficiary, RemoveBeneficiary, ActiveManagers
<1>2. Sound(communities[c])
  BY <1>1, DeployedSound
<1>3. CASE LockBeneficiary(c, p)
  BY <1>1, <1>2, <1>3, ChangeStateFollows, BecomesGood DEF LockBeneficiary, CanLock, CanChangeState, Gone
<1>4. CASE UnlockBeneficiary(c, p)
  BY <1>1, <1>2, <1>4, ChangeStateFollows, BecomesGood DEF UnlockBeneficiary, CanUnlock, Gone
<1>5. CASE RemoveBeneficiary(c, p)
  BY <1>1, <1>2, <1>5, ChangeStateFollows, BecomesGood DEF RemoveBeneficiary, CanRemove, CanChangeState, Gone
<1> QED BY <1>3, <1>4, <1>5

LEMMA ToldShaped ==
  ASSUME IInv, NEW c \in Deployed, NEW p \in People
  PROVE  DOMAIN Told(c, p) = {"state", "claims", "claimedAmount", "lastClaim"}
BY DeployedSound DEF Told, Person, Shaped

LEMMA JoinFromMigratedGood ==
  ASSUME IInv, NEW c \in Communities, NEW p \in People, JoinFromMigrated(c, p)
  PROVE  Good
<1> DEFINE q == communities[c]
           old == Told(q.previousCommunity, p)
<1>1. /\ c \in Deployed /\ q.previousCommunity # NoCommunity
      /\ q.beneficiaries[p].state = "NONE" /\ CanChangeState(q, p, old.state)
      /\ communities' = [communities EXCEPT ![c] = Adopt(q, p, old)]
      /\ status' = status /\ settings' = settings
  BY DEF JoinFromMigrated, Person
<1>2. q.previousCommunity \in Deployed
  BY <1>1 DEF IInv, Origins
<1>3. DOMAIN old = {"state", "claims", "claimedAmount", "lastClaim"}
  BY <1>2, ToldShaped
<1>4. Sound(q)
  BY <1>1, DeployedSound
<1> HIDE DEF old
<1>5. Follows(q, Adopt(q, p, old))
  BY <1>1, <1>3, <1>4, AdoptFollows
<1> QED BY <1>1, <1>5, OneFollows

LEMMA CopyBeneficiaryGood ==
  ASSUME IInv, NEW c \in Communities, NEW p \in People, CopyBeneficiary(c, p)
  PROVE  Good
<1> DEFINE q == communities[c]
           original == communities[q.copyOf]
           old == Told(q.copyOf, p)
           copied == ChangeState(original, p, "Copied")
<1>1. /\ c \in Deployed /\ q.copyOf # NoCommunity
      /\ q.beneficiaries[p].state = "NONE" /\ CanChangeState(q, p, old.state)
      /\ communities' = [communities EXCEPT ![c] = Adopt(q, p, old), ![q.copyOf] = copied]
      /\ status' = status /\ settings' = settings
  BY DEF CopyBeneficiary, CanCopy, ActiveManagers, Person
<1>2. q.copyOf \in Deployed
  BY <1>1 DEF IInv, Origins
<1>3. DOMAIN old = {"state", "claims", "claimedAmount", "lastClaim"}
  BY <1>2, ToldShaped
<1>4. Sound(q) /\ Sound(original)
  BY <1>1, <1>2, DeployedSound
<1> HIDE DEF old
<1>5. Follows(q, Adopt(q, p, old))
  BY <1>1, <1>3, <1>4, AdoptFollows
<1>6. Follows(original, copied)
  BY <1>4, ChangeStateFollows DEF CanChangeState
<1> HIDE DEF copied
<1> QED BY <1>1, <1>2, <1>5, <1>6, TwoFollow

LEMMA MoveAddressGood ==
  ASSUME IInv, NEW c \in Communities, NEW old \in People, NEW new \in People,
         ChangeAddressByManager(c, old, new) \/ ChangeOwnAddress(c, old, new)
  PROVE  Good
<1>1. c \in Deployed /\ MoveAddress(c, old, new)
  BY DEF ChangeAddressByManager, ChangeOwnAddress, ActiveManagers
<1>2. Follows(communities[c], ChangeAddress(communities[c], old, new))
  BY <1>1, DeployedSound, ChangeAddressFollows DEF MoveAddress
<1> QED BY <1>1, <1>2, OneFollows DEF MoveAddress

LEMMA ClaimBenefitGood ==
  ASSUME IInv, NEW c \in Communities, NEW p \in People, ClaimBenefit(c, p)
  PROVE  Good
<1>1. /\ c \in Deployed /\ communities' = [communities EXCEPT ![c] = Claim(Funded(c), p, block)]
      /\ status' = status /\ settings' = settings
  BY DEF ClaimBenefit
<1>2. Follows(communities[c], Funded(c))
  BY <1>1, FundedFollows
<1>3. Follows(communities[c], Claim(Funded(c), p, block))
  BY <1>2, ClaimFollows, FollowsIsTransitive DEF Follows
<1> QED BY <1>1, <1>3, OneFollows

-----------------------------------------------------------------------------
(* All steps, and the theorems. *)

LEMMA StepGood == IInv /\ [Next]_vars => Good
<1> SUFFICES ASSUME IInv, [Next]_vars PROVE Good
  OBVIOUS
<1>1. ASSUME NEW c \in Communities, CommunityCalls(c) PROVE Good
  <2>1. CASE RequestFunds(c) \/ RemoveCommunity(c)
    BY <2>1, RequestFundsGood, RemoveCommunityGood
  <2>2. CASE \E locked \in BOOLEAN : SetLocked(c, locked)
    BY <2>2, OtherParamsGood
  <2>3. CASE \E m \in Managers : AddManager(c, m) \/ RemoveManager(c, m)
    BY <2>3, OtherParamsGood
  <2>4. CASE \E amount \in Donations : Donate(c, amount) \/ TransferFromCommunity(c, amount)
    BY <2>4, BalanceGood
  <2>5. CASE \E tranches \in TrancheChoices : SetCommunityParams(c, tranches)
    BY <2>5, OtherParamsGood
  <2>6. CASE \E maxBeneficiaries \in MaxBeneficiariesChoices : UpdateMaxBeneficiaries(c, maxBeneficiaries)
    BY <2>6, OtherParamsGood
  <2>7. CASE \E rules \in RulesChoices, maxBeneficiaries \in MaxBeneficiariesChoices :
               SetBeneficiaryParams(c, rules, maxBeneficiaries)
    BY <2>7, SetBeneficiaryParamsGood
  <2>8. CASE \E rules \in RulesChoices, token \in NewTokens, rate \in SwapRates :
               UpdateCommunityToken(c, token, rules, rate)
    BY <2>8, UpdateCommunityTokenGood
  <2> QED BY <1>1, <2>1, <2>2, <2>3, <2>4, <2>5, <2>6, <2>7, <2>8 DEF CommunityCalls
<1>2. ASSUME NEW c \in Communities, NEW p \in People, BeneficiaryCalls(c, p) PROVE Good
  <2>1. CASE AddBeneficiary(c, p) \/ LockBeneficiary(c, p) \/ UnlockBeneficiary(c, p) \/ RemoveBeneficiary(c, p)
    BY <2>1, AddBeneficiaryGood, ChangeStateGood
  <2>2. CASE JoinFromMigrated(c, p) \/ CopyBeneficiary(c, p) \/ ClaimBenefit(c, p)
    BY <2>2, JoinFromMigratedGood, CopyBeneficiaryGood, ClaimBenefitGood
  <2>3. CASE \E new \in People : ChangeAddressByManager(c, p, new) \/ ChangeOwnAddress(c, p, new)
    BY <2>3, MoveAddressGood
  <2> QED BY <1>2, <2>1, <2>2, <2>3 DEF BeneficiaryCalls
<1>3. CASE AdminCalls
  <2>1. ASSUME NEW c \in NewCommunities, NEW token \in Tokens, NEW rules \in RulesChoices,
               NEW tranches \in TrancheChoices, NEW maxBeneficiaries \in MaxBeneficiariesChoices,
               AddCommunity(c, token, rules, tranches, maxBeneficiaries)
        PROVE  Good
    BY <2>1, CommunityAdminAssumption, AddCommunityGood
  <2>2. ASSUME NEW old \in Communities, NEW new \in Communities,
               MigrateCommunity(old, new) \/ SplitCommunity(old, new)
        PROVE  Good
    BY <2>2, MigrateCommunityGood, SplitCommunityGood
  <2>3. ASSUME NEW new \in SettingsChoices, UpdateSettings(new) PROVE Good
    BY <2>3, CommunityAdminAssumption, SameCommunitiesGood DEF UpdateSettings
  <2>4. ASSUME NEW token \in Tokens, TreasuryIncome(token) PROVE Good
    BY <2>4, SameCommunitiesGood DEF TreasuryIncome, IInv
  <2> QED BY <1>3, <2>1, <2>2, <2>3, <2>4 DEF AdminCalls
<1>4. CASE NextBlock \/ UNCHANGED vars
  BY <1>4, SameCommunitiesGood DEF NextBlock, vars, IInv
<1> QED BY <1>1, <1>2, <1>3, <1>4 DEF Next

LEMMA AlwaysSound == Spec => []IInv
<1>1. IInv /\ [Next]_vars => IInv'
  BY StepGood DEF Good
<1> QED BY <1>1, InitSound, PTL DEF Spec

\* Nobody claims more than the original amount at once, and the limit leaves
\* everybody at least one claim (calculation of claimAmount and of
\* maxTotalClaim in CommunityImplementation).
THEOREM CommunityClaimsAffordable == Spec => []ClaimAffordable
<1>1. IInv => ClaimAffordable
  BY DEF IInv, ClaimAffordable, Sound, Limited, ClaimWithinLimit
<1> QED BY <1>1, AlwaysSound, PTL

\* The counter of valid beneficiaries counts them, and the limit follows it
\* (_changeBeneficiaryState and the setters of parameters).
THEOREM CommunityLimitsMatch == Spec => []LimitsMatchStates
<1>1. IInv => LimitsMatchStates
  BY DEF IInv, LimitsMatchStates, Sound, Limited, Valid
<1> QED BY <1>1, AlwaysSound, PTL

\* Whoever was removed, has moved to another address or was copied does not
\* come back (every caller of _changeBeneficiaryState).
THEOREM CommunityNeverReadmits == Spec => NeverReadmitted
<1> DEFINE Stays == \A c \in Deployed, p \in People :
             communities[c].beneficiaries[p].state \in {"Removed", "AddressChanged", "Copied"} =>
               communities'[c].beneficiaries[p].state \in {"Removed", "AddressChanged", "Copied"}
<1>1. IInv /\ [Next]_vars => Stays
  BY StepGood DEF Good, NobodyReturns, Gone
<1> HIDE DEF Stays
<1>2. Spec => [][Stays]_vars
  BY <1>1, AlwaysSound, PTL DEF Spec
<1> QED BY <1>2 DEF NeverReadmitted, Stays

-----------------------------------------------------------------------------
(***************************************************************************)
(* Claimed amounts: the recursive function of ClaimedAmount exists, which   *)
(* is shown by induction over the updates, and it is known for communities  *)
(* with at most one update.                                                 *)
(***************************************************************************)

\* The amounts from which a claimed amount is converted, from the k-th update on.
AreAmounts(from, q, person, upTo, k) ==
  LET r == q.beneficiaries[person]
      n == Len(q.tokenUpdates)
      Converts(u) == r.lastClaim < u.startBlock /\ u.startBlock <= upTo
  IN from = [i \in k..(n + 1) |->
       IF i = n + 1 THEN r.claimedAmount
       ELSE IF Converts(q.tokenUpdates[i]) THEN (from[i + 1] * q.tokenUpdates[i].ratio) \div Unit
       ELSE from[i + 1]]

\* One update: what it makes of an amount x.
Through(q, person, upTo, i, x) ==
  IF q.beneficiaries[person].lastClaim < q.tokenUpdates[i].startBlock /\ q.tokenUpdates[i].startBlock <= upTo
  THEN (x * q.tokenUpdates[i].ratio) \div Unit
  ELSE x

LEMMA AmountsAre ==
  ASSUME NEW from, NEW q, NEW person, NEW upTo, NEW k
  PROVE  AreAmounts(from, q, person, upTo, k) <=>
           from = [i \in k..(Len(q.tokenUpdates) + 1) |->
             IF i = Len(q.tokenUpdates) + 1 THEN q.beneficiaries[person].claimedAmount
             ELSE Through(q, person, upTo, i, from[i + 1])]
BY DEF AreAmounts, Through

LEMMA AmountsExist ==
  ASSUME NEW q, NEW person, NEW upTo, Len(q.tokenUpdates) \in Nat
  PROVE  \E from : AreAmounts(from, q, person, upTo, 1)
<1> DEFINE n == Len(q.tokenUpdates)
           x == q.beneficiaries[person].claimedAmount
<1>1. n \in Nat
  OBVIOUS
<1>2. \A from, k : AreAmounts(from, q, person, upTo, k) <=>
        from = [i \in k..(n + 1) |-> IF i = n + 1 THEN x ELSE Through(q, person, upTo, i, from[i + 1])]
  BY AmountsAre
<1> HIDE DEF n, x
<1> DEFINE P == {m \in Nat : m <= n => \E from : AreAmounts(from, q, person, upTo, n + 1 - m)}
<1>3. 0 \in P
  <2> DEFINE from == [i \in (n + 1 - 0)..(n + 1) |-> x]
  <2>1. from = [i \in (n + 1 - 0)..(n + 1) |-> IF i = n + 1 THEN x ELSE Through(q, person, upTo, i, from[i + 1])]
    OBVIOUS
  <2> HIDE DEF from
  <2>2. AreAmounts(from, q, person, upTo, n + 1 - 0)
    BY <2>1, <1>2
  <2> QED BY <2>2
<1>4. ASSUME NEW m \in Nat, m \in P PROVE m + 1 \in P
  <2>0. SUFFICES ASSUME m + 1 <= n PROVE \E from : AreAmounts(from, q, person, upTo, n + 1 - (m + 1))
    OBVIOUS
  <2> DEFINE k == n + 1 - m
  <2>1. PICK f : AreAmounts(f, q, person, upTo, k)
    BY <1>1, <1>4, <2>0
  <2>2. f = [i \in k..(n + 1) |-> IF i = n + 1 THEN x ELSE Through(q, person, upTo, i, f[i + 1])]
    BY <2>1, <1>2
  <2>3. k \in Nat /\ k - 1 = n + 1 - (m + 1) /\ k - 1 \in Nat /\ k <= n + 1
    BY <1>1, <2>0
  <2> HIDE DEF k
  <2> DEFINE g == [i \in (k - 1)..(n + 1) |-> IF i = k - 1 THEN Through(q, person, upTo, i, f[i + 1]) ELSE f[i]]
             h == [i \in (k - 1)..(n + 1) |-> IF i = n + 1 THEN x ELSE Through(q, person, upTo, i, g[i + 1])]
  <2>4. \A i \in k..(n + 1) : f[i] = IF i = n + 1 THEN x ELSE Through(q, person, upTo, i, f[i + 1])
    BY <2>2
  <2>5. ASSUME NEW i \in (k - 1)..(n + 1) PROVE g[i] = h[i]
    <3>1. CASE i = k - 1
      <4>1. i # n + 1 /\ i + 1 \in (k - 1)..(n + 1) /\ i + 1 # k - 1
        BY <1>1, <2>3, <3>1
      <4>2. g[i + 1] = f[i + 1]
        BY <4>1
      <4>3. g[i] = Through(q, person, upTo, i, f[i + 1])
        BY <3>1
      <4>4. h[i] = Through(q, person, upTo, i, g[i + 1])
        BY <4>1
      <4> HIDE DEF g, h
      <4> QED BY <4>2, <4>3, <4>4
    <3>2. CASE i = n + 1
      <4>1. i # k - 1 /\ i \in k..(n + 1)
        BY <2>3, <3>2
      <4>2. g[i] = f[i] /\ h[i] = x
        BY <3>2, <4>1
      <4> HIDE DEF g, h
      <4> QED BY <2>4, <3>2, <4>1, <4>2
    <3>3. CASE i # k - 1 /\ i # n + 1
      <4>1. i \in k..(n + 1) /\ i + 1 \in (k - 1)..(n + 1) /\ i + 1 # k - 1
        BY <1>1, <2>3, <3>3
      <4>2. g[i] = f[i] /\ g[i + 1] = f[i + 1]
        BY <3>3, <4>1
      <4>3. h[i] = Through(q, person, upTo, i, g[i + 1])
        BY <3>3
      <4> HIDE DEF g, h
      <4> QED BY <2>4, <3>3, <4>1, <4>2, <4>3
    <3> QED BY <3>1, <3>2, <3>3
  <2>6. DOMAIN g = (k - 1)..(n + 1) /\ g = [i \in (k - 1)..(n + 1) |-> g[i]]
        /\ h = [i \in (k - 1)..(n + 1) |-> h[i]]
    OBVIOUS
  <2>7. g = h
    <3> HIDE DEF g, h
    <3> QED BY <2>5, <2>6
  <2>8. g = [i \in (k - 1)..(n + 1) |-> IF i = n + 1 THEN x ELSE Through(q, person, upTo, i, g[i + 1])]
    BY <2>7
  <2> HIDE DEF g, h
  <2>9. AreAmounts(g, q, person, upTo, k - 1)
    BY <2>8, <1>2
  <2> QED BY <2>3, <2>9
<1> HIDE DEF P
<1>5. Nat \subseteq P
  BY <1>3, <1>4, NaturalInduction
<1>6. n \in P /\ n + 1 - n = 1
  BY <1>1, <1>5
<1> QED BY <1>6 DEF P

\* What ClaimedAmount computes, update by update.
LEMMA ClaimedAmountIs ==
  ASSUME NEW q, NEW person, NEW upTo, Len(q.tokenUpdates) \in Nat
  PROVE  \E from :
           /\ ClaimedAmount(q, person, upTo) = from[1]
           /\ from[Len(q.tokenUpdates) + 1] = q.beneficiaries[person].claimedAmount
           /\ \A i \in 1..Len(q.tokenUpdates) : from[i] = Through(q, person, upTo, i, from[i + 1])
<1> DEFINE from == CHOOSE f : AreAmounts(f, q, person, upTo, 1)
<1>1. AreAmounts(from, q, person, upTo, 1)
  BY AmountsExist
<1>2. ClaimedAmount(q, person, upTo) = from[1]
  BY DEF ClaimedAmount, AreAmounts
<1> HIDE DEF from
<1>3. from = [i \in 1..(Len(q.tokenUpdates) + 1) |->
             IF i = Len(q.tokenUpdates) + 1 THEN q.beneficiaries[person].claimedAmount
             ELSE Through(q, person, upTo, i, from[i + 1])]
  BY <1>1, AmountsAre
<1>4. from[Len(q.tokenUpdates) + 1] = q.beneficiaries[person].claimedAmount
  BY <1>3
<1>5. \A i \in 1..Len(q.tokenUpdates) : from[i] = Through(q, person, upTo, i, from[i + 1])
  BY <1>3
<1> QED BY <1>2, <1>4, <1>5

Update == [ratio : Nat, startBlock : 0..MaxBlock]

LEMMA ConversionNat ==
  ASSUME NEW x \in Nat, NEW ratio \in Nat
  PROVE  (x * ratio) \div Unit \in Nat
<1>1. PICK y \in Nat : y = x * ratio
  OBVIOUS
<1> QED BY <1>1, CommunityAssumption

LEMMA ThroughNat ==
  ASSUME NEW q, q.tokenUpdates \in Seq(Update), NEW person, NEW upTo,
         NEW i \in 1..Len(q.tokenUpdates), NEW x \in Nat
  PROVE  Through(q, person, upTo, i, x) \in Nat
<1>1. q.tokenUpdates[i] \in Update
  OBVIOUS
<1>2. q.tokenUpdates[i].ratio \in Nat
  BY <1>1 DEF Update
<1> QED BY <1>2, ConversionNat DEF Through

LEMMA ClaimedAmountNat ==
  ASSUME NEW q, q.tokenUpdates \in Seq(Update), NEW person, NEW upTo,
         q.beneficiaries[person].claimedAmount \in Nat
  PROVE  ClaimedAmount(q, person, upTo) \in Nat
<1> DEFINE n == Len(q.tokenUpdates)
<1>1. n \in Nat
  OBVIOUS
<1>2. PICK from : /\ ClaimedAmount(q, person, upTo) = from[1]
                  /\ from[n + 1] = q.beneficiaries[person].claimedAmount
                  /\ \A i \in 1..n : from[i] = Through(q, person, upTo, i, from[i + 1])
  BY <1>1, ClaimedAmountIs
<1>3. \A i \in 1..n, x \in Nat : Through(q, person, upTo, i, x) \in Nat
  BY ThroughNat
<1> HIDE DEF n
<1> DEFINE P == {m \in Nat : m <= n => from[n + 1 - m] \in Nat}
<1>4. 0 \in P
  BY <1>1, <1>2
<1>5. ASSUME NEW m \in Nat, m \in P PROVE m + 1 \in P
  <2>0. SUFFICES ASSUME m + 1 <= n PROVE from[n + 1 - (m + 1)] \in Nat
    OBVIOUS
  <2>1. from[n + 1 - m] \in Nat
    BY <1>1, <1>5, <2>0
  <2>2. n - m \in 1..n /\ n + 1 - (m + 1) = n - m /\ n - m + 1 = n + 1 - m
    BY <1>1, <2>0
  <2>3. from[n - m] = Through(q, person, upTo, n - m, from[n - m + 1])
    BY <1>2, <2>2
  <2> QED BY <1>3, <2>1, <2>2, <2>3
<1> HIDE DEF P
<1>6. n \in P
  BY <1>1, <1>4, <1>5, NaturalInduction
<1> QED BY <1>1, <1>2, <1>6 DEF P

\* Without updates there is nothing to convert; with one, which follows the entry of block
\* 0, it converts what was claimed before it.
LEMMA ClaimedAmountWithoutUpdates ==
  ASSUME NEW q, q.tokenUpdates = <<>>, NEW person, NEW upTo
  PROVE  ClaimedAmount(q, person, upTo) = q.beneficiaries[person].claimedAmount
<1>1. Len(q.tokenUpdates) = 0
  OBVIOUS
<1> QED BY <1>1, ClaimedAmountIs

LEMMA ClaimedAmountAfterUpdate ==
  ASSUME NEW q, Len(q.tokenUpdates) = 2, q.tokenUpdates[1].startBlock = 0, NEW person, NEW upTo,
         q.beneficiaries[person].lastClaim \in Nat
  PROVE  ClaimedAmount(q, person, upTo) = Through(q, person, upTo, 2, q.beneficiaries[person].claimedAmount)
<1>1. Len(q.tokenUpdates) \in Nat
  OBVIOUS
<1>2. PICK from : /\ ClaimedAmount(q, person, upTo) = from[1]
                  /\ from[Len(q.tokenUpdates) + 1] = q.beneficiaries[person].claimedAmount
                  /\ \A i \in 1..Len(q.tokenUpdates) : from[i] = Through(q, person, upTo, i, from[i + 1])
  BY ONLY <1>1, ClaimedAmountIs
<1>3. 2 + 1 = 3 /\ 1 + 1 = 2 /\ 1 \in 1..2 /\ 2 \in 1..2
  OBVIOUS
<1>4.             /\ ClaimedAmount(q, person, upTo) = from[1]
                  /\ from[3] = q.beneficiaries[person].claimedAmount
                  /\ from[1] = Through(q, person, upTo, 1, from[2])
                  /\ from[2] = Through(q, person, upTo, 2, from[3])
  BY <1>2, <1>3
<1>5. from[1] = from[2]
  BY <1>4 DEF Through
<1> QED BY <1>4, <1>5

(***************************************************************************)
(* Types: what each call leaves of a community is a community.              *)
(***************************************************************************)

LEMMA CommunityFields ==
  ASSUME NEW q \in CommunityType
  PROVE  /\ q.beneficiaries \in [People -> Beneficiary] /\ q.validBeneficiaryCount \in Nat
         /\ q.rules \in Rules /\ q.maxTotalClaim \in Nat /\ q.claimAmount \in Nat
         /\ q.tranches \in [min : Nat, max : Nat] /\ q.maxBeneficiaries \in Nat
         /\ q.token \in Tokens /\ q.tokenUpdates \in Seq(Update) /\ q.balance \in Nat
         /\ q.lastFundRequest \in 0..MaxBlock /\ q.managers \in SUBSET Managers /\ q.copies \in SUBSET Communities
         /\ q.copyOf \in Communities \cup {NoCommunity} /\ q.previousCommunity \in Communities \cup {NoCommunity}
BY DEF CommunityType, Update

\* One field changes, to a value of its type.
LEMMA FieldTyped ==
  ASSUME NEW q \in CommunityType
  PROVE  /\ \A v \in Nat : [q EXCEPT !.balance = v] \in CommunityType
         /\ \A v \in Nat : [q EXCEPT !.claimAmount = v] \in CommunityType
         /\ \A v \in Nat : [q EXCEPT !.maxBeneficiaries = v] \in CommunityType
         /\ \A v \in [min : Nat, max : Nat] : [q EXCEPT !.tranches = v] \in CommunityType
         /\ \A v \in BOOLEAN : [q EXCEPT !.locked = v] \in CommunityType
         /\ \A v \in SUBSET Managers : [q EXCEPT !.managers = v] \in CommunityType
         /\ \A v \in SUBSET Communities : [q EXCEPT !.copies = v] \in CommunityType
         /\ \A v \in [People -> Beneficiary] : [q EXCEPT !.beneficiaries = v] \in CommunityType
<1>1. ASSUME NEW v \in Nat PROVE [q EXCEPT !.balance = v] \in CommunityType
  BY DEF CommunityType
<1>2. ASSUME NEW v \in Nat PROVE [q EXCEPT !.claimAmount = v] \in CommunityType
  BY DEF CommunityType
<1>3. ASSUME NEW v \in Nat PROVE [q EXCEPT !.maxBeneficiaries = v] \in CommunityType
  BY DEF CommunityType
<1>4. ASSUME NEW v \in [min : Nat, max : Nat] PROVE [q EXCEPT !.tranches = v] \in CommunityType
  BY DEF CommunityType
<1>5. ASSUME NEW v \in BOOLEAN PROVE [q EXCEPT !.locked = v] \in CommunityType
  BY DEF CommunityType
<1>6. ASSUME NEW v \in SUBSET Managers PROVE [q EXCEPT !.managers = v] \in CommunityType
  BY DEF CommunityType
<1>7. ASSUME NEW v \in SUBSET Communities PROVE [q EXCEPT !.copies = v] \in CommunityType
  BY DEF CommunityType
<1>8. ASSUME NEW v \in [People -> Beneficiary] PROVE [q EXCEPT !.beneficiaries = v] \in CommunityType
  BY DEF CommunityType
<1> QED BY <1>1, <1>2, <1>3, <1>4, <1>5, <1>6, <1>7, <1>8

LEMMA BooksTyped ==
  ASSUME NEW q \in CommunityType, NEW people \in [People -> Beneficiary], NEW count \in Nat, NEW limit \in Nat
  PROVE  [q EXCEPT !.beneficiaries = people, !.validBeneficiaryCount = count, !.maxTotalClaim = limit]
           \in CommunityType
BY DEF CommunityType

LEMMA UpdateClaimAmountTyped ==
  ASSUME NEW q \in CommunityType, NEW ratio \in Nat
  PROVE  UpdateClaimAmount(q, ratio) \in CommunityType
<1> DEFINE original == q.rules.originalClaimAmount
           minimum == (original * RatioPrecision) \div ratio
           share == q.balance \div q.validBeneficiaryCount
           amount == IF q.validBeneficiaryCount = 0 \/ IsSelfFunding(q) \/ ratio <= RatioPrecision THEN original
                     ELSE IF share < minimum THEN minimum
                     ELSE IF share <= original THEN share
                     ELSE original
<1>1. original \in Nat /\ q.validBeneficiaryCount \in Nat /\ q.balance \in Nat
  BY CommunityFields DEF Rules
<1>2. PICK x \in Nat : x = original * RatioPrecision
  BY <1>1, CommunityAssumption
<1>3. ratio > RatioPrecision => minimum \in Nat
  BY <1>2, CommunityAssumption
<1>4. q.validBeneficiaryCount # 0 => share \in Nat
  BY <1>1
<1>5. amount \in Nat
  BY <1>1, <1>3, <1>4, CommunityAssumption
<1>6. UpdateClaimAmount(q, ratio) = [q EXCEPT !.claimAmount = amount]
  BY DEF UpdateClaimAmount
<1> HIDE DEF amount
<1> QED BY <1>5, <1>6, FieldTyped

LEMMA InitializeTyped ==
  ASSUME NEW token \in Tokens, NEW managers \in SUBSET Managers, NEW rules \in Rules,
         NEW tranches \in [min : Nat, max : Nat], NEW maxBeneficiaries \in Nat,
         NEW previous \in Communities \cup {NoCommunity}
  PROVE  Initialize(token, managers, rules, tranches, maxBeneficiaries, previous) \in CommunityType
<1>1. NewBeneficiary \in Beneficiary
  BY CommunityAdminAssumption DEF NewBeneficiary, Beneficiary, BeneficiaryStates
<1>2. [p \in People |-> NewBeneficiary] \in [People -> Beneficiary]
  BY <1>1
<1>3. rules.maxTotalClaim \in Nat /\ rules.originalClaimAmount \in Nat /\ 0 \in 0..MaxBlock
      /\ <<>> \in Seq([ratio : Nat, startBlock : 0..MaxBlock])
  BY CommunityAdminAssumption DEF Rules
<1> HIDE DEF NewBeneficiary
<1> QED BY <1>2, <1>3 DEF Initialize, CommunityType

LEMMA UpdateBeneficiaryParamsTyped ==
  ASSUME NEW q \in CommunityType, Sound(q), NEW rules \in Rules, NEW ratio \in Nat,
         CanUpdateBeneficiaryParams(q, rules)
  PROVE  UpdateBeneficiaryParams(q, rules, ratio) \in CommunityType
<1> DEFINE limit == rules.maxTotalClaim - q.validBeneficiaryCount * rules.decreaseStep
           r == [q EXCEPT !.rules = rules, !.maxTotalClaim = limit]
<1>1. q.validBeneficiaryCount \in Nat /\ rules.decreaseStep \in Nat /\ rules.maxTotalClaim \in Nat
      /\ rules.originalClaimAmount \in Nat
  BY CommunityFields DEF Rules
<1>2. PICK x \in Nat : x = q.validBeneficiaryCount * rules.decreaseStep
  BY <1>1
<1>3. limit \in Nat
  BY <1>1, <1>2 DEF CanUpdateBeneficiaryParams
<1> HIDE DEF limit
<1>4. r \in CommunityType
  BY <1>3 DEF CommunityType
<1>5. UpdateBeneficiaryParams(q, rules, ratio) = UpdateClaimAmount(r, ratio)
  BY DEF UpdateBeneficiaryParams, limit
<1> HIDE DEF r
<1> QED BY <1>4, <1>5, UpdateClaimAmountTyped

LEMMA ConversionRatioNat ==
  ASSUME NEW q \in CommunityType, Sound(q), NEW rules \in Rules, InitialMaxTotalClaim(q) > 0
  PROVE  ConversionRatio(q, rules) \in Nat
<1>1. rules.maxTotalClaim \in Nat /\ InitialMaxTotalClaim(q) \in Nat
  BY CountIsNatural DEF Sound, Limited, Params, Rules
<1>2. PICK x \in Nat : x = Unit * rules.maxTotalClaim
  BY <1>1, CommunityAssumption
<1>3. PICK y \in Nat : y = InitialMaxTotalClaim(q)
  BY <1>1
<1>4. x \div y \in Nat
  BY <1>3
<1> QED BY <1>2, <1>3, <1>4 DEF ConversionRatio

\* The new token, before the new parameters.
Exchanged(q, token, rules, swapped, when) ==
  [q EXCEPT !.token = token, !.balance = swapped, !.tokenUpdates = WithTokenUpdate(q, rules, when)]

LEMMA TokenChanged ==
  ASSUME NEW q \in CommunityType, Sound(q), NEW token \in Tokens, NEW rules \in Rules, NEW swapped \in Nat,
         NEW ratio \in Nat, NEW when \in 0..MaxBlock, CanUpdateToken(q, token, rules)
  PROVE  LET r == Exchanged(q, token, rules, swapped, when)
         IN /\ r \in CommunityType /\ Sound(r) /\ CanUpdateBeneficiaryParams(r, rules)
            /\ UpdateToken(q, token, rules, swapped, ratio, when) = UpdateBeneficiaryParams(r, rules, ratio)
<1> DEFINE updates == WithTokenUpdate(q, rules, when)
           r == [q EXCEPT !.token = token, !.balance = swapped, !.tokenUpdates = updates]
<1>1. ConversionRatio(q, rules) \in Nat
  BY ConversionRatioNat DEF CanUpdateToken
<1>2. <<[ratio |-> ConversionRatio(q, rules), startBlock |-> when]>> \in Seq(Update)
  BY <1>1 DEF Update
<1>3. [ratio |-> Unit, startBlock |-> 0] \in Update /\ q.tokenUpdates \in Seq(Update)
  <2>1. Unit \in Nat /\ 0 \in 0..MaxBlock
    BY CommunityAssumption, CommunityAdminAssumption
  <2> QED BY <2>1, CommunityFields DEF Update
<1>4. updates \in Seq(Update)
  BY <1>2, <1>3 DEF WithTokenUpdate
<1> HIDE DEF updates
<1>5. r \in CommunityType
  BY <1>4 DEF CommunityType, Update
<1>6. /\ Sound(r) /\ r.rules = q.rules /\ r.validBeneficiaryCount = q.validBeneficiaryCount
  BY DEF Sound, Limited, Shaped, LimitFollowsCount, Valid
<1>7. UpdateToken(q, token, rules, swapped, ratio, when) = UpdateBeneficiaryParams(r, rules, ratio)
  BY DEF UpdateToken, updates
<1> HIDE DEF r
<1>8. CanUpdateBeneficiaryParams(r, rules)
  BY <1>6 DEF CanUpdateToken, CanUpdateBeneficiaryParams
<1> QED BY <1>5, <1>6, <1>7, <1>8 DEF r, updates, Exchanged

LEMMA UpdateTokenTyped ==
  ASSUME NEW q \in CommunityType, Sound(q), NEW token \in Tokens, NEW rules \in Rules, NEW swapped \in Nat,
         NEW ratio \in Nat, NEW when \in 0..MaxBlock, CanUpdateToken(q, token, rules)
  PROVE  UpdateToken(q, token, rules, swapped, ratio, when) \in CommunityType
BY TokenChanged, UpdateBeneficiaryParamsTyped

LEMMA EntryTyped ==
  ASSUME NEW q \in CommunityType, NEW person \in People, NEW entry \in Beneficiary
  PROVE  [q EXCEPT !.beneficiaries[person] = entry] \in CommunityType
<1> DEFINE people == [q.beneficiaries EXCEPT ![person] = entry]
<1>1. people \in [People -> Beneficiary]
  BY CommunityFields
<1>2. [q EXCEPT !.beneficiaries[person] = entry] = [q EXCEPT !.beneficiaries = people]
  BY DEF CommunityType
<1> HIDE DEF people
<1> QED BY <1>1, <1>2, FieldTyped

LEMMA ChangeStateTyped ==
  ASSUME NEW q \in CommunityType, Sound(q), NEW person \in People, NEW state \in BeneficiaryStates,
         CanChangeState(q, person, state)
  PROVE  ChangeState(q, person, state) \in CommunityType
<1> DEFINE r == ChangeState(q, person, state)
           people == [q.beneficiaries EXCEPT ![person] = [@ EXCEPT !.state = state]]
<1>1. r.validBeneficiaryCount \in Nat /\ r.maxTotalClaim \in Nat
  BY ChangeStateSound, CountIsNatural DEF Sound
<1>2. q.beneficiaries[person] \in Beneficiary
  BY CommunityFields
<1>3. [q.beneficiaries[person] EXCEPT !.state = state] \in Beneficiary
  BY <1>2 DEF Beneficiary
<1>4. people \in [People -> Beneficiary]
  BY <1>3, CommunityFields
<1>5. PICK count, limit : r = [q EXCEPT !.beneficiaries[person].state = state,
                                 !.validBeneficiaryCount = count, !.maxTotalClaim = limit]
  BY DEF ChangeState
<1>6. r = [q EXCEPT !.beneficiaries = people, !.validBeneficiaryCount = count, !.maxTotalClaim = limit]
  BY <1>5
<1>7. r.validBeneficiaryCount = count /\ r.maxTotalClaim = limit
  BY <1>5 DEF CommunityType
<1> HIDE DEF r, people
<1>8. r \in CommunityType
  BY <1>1, <1>4, <1>6, <1>7, BooksTyped
<1> QED BY <1>8 DEF r

LEMMA AddTyped ==
  ASSUME NEW q \in CommunityType, Sound(q), NEW person \in People, NEW when \in 0..MaxBlock, CanAdd(q, person)
  PROVE  Add(q, person, when) \in CommunityType
<1> DEFINE r == ChangeState(q, person, "Valid")
<1>1. r \in CommunityType
  BY ChangeStateTyped DEF CanAdd, BeneficiaryStates
<1>2. Add(q, person, when) = [r EXCEPT !.beneficiaries[person].lastClaim = when]
  BY DEF Add
<1> HIDE DEF r
<1>3. r.beneficiaries[person] \in Beneficiary
  BY <1>1, CommunityFields
<1>4. [r.beneficiaries[person] EXCEPT !.lastClaim = when] \in Beneficiary
  BY <1>3 DEF Beneficiary
<1>5. PICK entry : entry = [r.beneficiaries[person] EXCEPT !.lastClaim = when]
  OBVIOUS
<1>6. Add(q, person, when) = [r EXCEPT !.beneficiaries[person] = entry]
  BY <1>2, <1>5
<1> QED BY <1>1, <1>4, <1>5, <1>6, EntryTyped

LEMMA AdoptTyped ==
  ASSUME NEW q \in CommunityType, Sound(q), NEW person \in People, NEW told \in Beneficiary,
         CanChangeState(q, person, told.state)
  PROVE  Adopt(q, person, told) \in CommunityType
<1>1. told.state \in BeneficiaryStates
  BY DEF Beneficiary
<1> QED BY <1>1, ChangeStateTyped, EntryTyped DEF Adopt

LEMMA AmountNat ==
  ASSUME NEW q \in CommunityType, NEW person \in People, NEW upTo
  PROVE  ClaimedAmount(q, person, upTo) \in Nat
<1>1. q.tokenUpdates \in Seq(Update) /\ q.beneficiaries[person] \in Beneficiary
  BY CommunityFields
<1>2. q.beneficiaries[person].claimedAmount \in Nat
  BY <1>1 DEF Beneficiary
<1> QED BY <1>1, <1>2, ClaimedAmountNat

LEMMA ChangeAddressTyped ==
  ASSUME NEW q \in CommunityType, Sound(q), NEW old \in People, NEW new \in People,
         CanChangeAddress(q, old, new)
  PROVE  ChangeAddress(q, old, new) \in CommunityType
<1> DEFINE q1 == IF q.beneficiaries[new].state = "NONE"
                 THEN ChangeState(q, new, q.beneficiaries[old].state) ELSE q
           q2 == ChangeState(q1, old, "AddressChanged")
           o == q2.beneficiaries[old]
           n == q2.beneficiaries[new]
           last == IF n.lastClaim > o.lastClaim THEN n.lastClaim ELSE o.lastClaim
           entry == [state |-> n.state, claims |-> n.claims + o.claims,
                     claimedAmount |-> ClaimedAmount(q2, old, last) + ClaimedAmount(q2, new, last),
                     lastClaim |-> last]
<1>1. q1 \in CommunityType /\ Sound(q1)
  <2>1. q.beneficiaries[old].state \in BeneficiaryStates
    BY CommunityFields DEF Beneficiary
  <2>2. q.beneficiaries[new].state = "NONE" => CanChangeState(q, new, q.beneficiaries[old].state)
    BY DEF CanChangeAddress
  <2> QED BY <2>1, <2>2, ChangeStateTyped, ChangeStateSound
<1> HIDE DEF q1
<1>2. q2 \in CommunityType
  BY <1>1, ChangeStateTyped DEF CanChangeState, BeneficiaryStates
<1> HIDE DEF q2
<1>3. o \in Beneficiary /\ n \in Beneficiary
  BY <1>2, CommunityFields
<1>4. ClaimedAmount(q2, old, last) \in Nat /\ ClaimedAmount(q2, new, last) \in Nat
  BY <1>2, AmountNat
<1>5. entry \in Beneficiary
  <2>1. PICK x \in Nat, y \in Nat : x = ClaimedAmount(q2, old, last) /\ y = ClaimedAmount(q2, new, last)
    BY <1>4
  <2> QED BY <1>3, <2>1 DEF Beneficiary
<1>6. ChangeAddress(q, old, new) = [q2 EXCEPT !.beneficiaries[new] = entry]
  BY DEF ChangeAddress, q1, q2
<1> HIDE DEF entry
<1> QED BY <1>2, <1>5, <1>6, EntryTyped

\* A claim pays what the community has, and something.
LEMMA PayInBalance ==
  ASSUME NEW q \in CommunityType, NEW person \in People, NEW when, CanClaim(q, person, when)
  PROVE  /\ ToClaim(q, person, when) \in Nat /\ ToClaim(q, person, when) <= q.balance
         /\ ClaimedAmount(q, person, when) + ToClaim(q, person, when) <= q.maxTotalClaim
<1>1. PICK x \in Nat : x = ClaimedAmount(q, person, when)
  BY AmountNat
<1>2. q.claimAmount \in Nat /\ q.rules.originalClaimAmount \in Nat /\ q.maxTotalClaim \in Nat
  BY CommunityFields DEF Rules
<1> QED BY <1>1, <1>2 DEF CanClaim, ToClaim

LEMMA ClaimTyped ==
  ASSUME NEW q \in CommunityType, NEW person \in People, NEW when \in 0..MaxBlock, CanClaim(q, person, when)
  PROVE  Claim(q, person, when) \in CommunityType
<1> DEFINE pay == ToClaim(q, person, when)
           claimed == ClaimedAmount(q, person, when) + pay
           entry == [q.beneficiaries[person] EXCEPT !.claims = @ + 1, !.lastClaim = when, !.claimedAmount = claimed]
<1>1. pay \in Nat /\ pay <= q.balance /\ claimed \in Nat
  BY PayInBalance, AmountNat
<1> HIDE DEF pay, claimed
<1>2. q.balance - pay \in Nat
  BY <1>1, CommunityFields
<1>3. q.beneficiaries[person] \in Beneficiary
  BY CommunityFields
<1>4. entry \in Beneficiary
  <2>1. PICK b \in Beneficiary : b = q.beneficiaries[person]
    BY <1>3
  <2>2. b.claims + 1 \in Nat
    BY DEF Beneficiary
  <2>3. [b EXCEPT !.claims = b.claims + 1, !.lastClaim = when, !.claimedAmount = claimed] \in Beneficiary
    BY <1>1, <2>2 DEF Beneficiary
  <2> QED BY <2>1, <2>3
<1>5. Claim(q, person, when) = [q EXCEPT !.balance = @ - pay, !.beneficiaries[person] = entry]
  BY DEF Claim, pay, claimed
<1>6. PICK v, people : v = q.balance - pay /\ people = [q.beneficiaries EXCEPT ![person] = entry]
  OBVIOUS
<1>7. Claim(q, person, when) = [q EXCEPT !.balance = v, !.beneficiaries = people]
  BY <1>5, <1>6
<1> HIDE DEF entry
<1>8. people \in [People -> Beneficiary] /\ v \in Nat
  BY <1>2, <1>4, <1>6, CommunityFields
<1> QED BY <1>7, <1>8 DEF CommunityType

Receipts == [claims : Nat, last : 0..MaxBlock, amount : Nat]

\* All but the communities.
OthersTyped ==
  /\ treasury \in [Tokens -> Nat] /\ settings \in Settings /\ block \in 1..MaxBlock
  /\ paid \in [Communities -> [People -> Receipts]] /\ mixed \subseteq Communities

LEMMA Typed == TypeOK <=>
  /\ status \in [Communities -> {"NONE", "Valid", "Removed", "Migrated"}]
  /\ \A c \in Communities :
       IF status[c] = "NONE" THEN communities[c] = Undeployed ELSE communities[c] \in CommunityType
  /\ OthersTyped
BY DEF TypeOK, OthersTyped, Receipts

LEMMA DeployedTyped ==
  ASSUME TypeOK, IInv, NEW c \in Deployed
  PROVE  /\ communities[c] \in CommunityType /\ Sound(communities[c]) /\ Shaped(communities[c])
         /\ c \in Communities /\ Ratio \in Nat
BY DeployedSound DEF TypeOK, Deployed

LEMMA OneTyped ==
  ASSUME TypeOK, IInv, NEW c \in Deployed, NEW r \in CommunityType,
         communities' = [communities EXCEPT ![c] = r], status' = status, OthersTyped'
  PROVE  TypeOK'
<1>1. c \in Communities /\ status[c] # "NONE"
  BY DEF Deployed
<1>2. \A d \in Communities : communities'[d] = IF d = c THEN r ELSE communities[d]
  BY DEF IInv
<1>3. \A d \in Communities :
        IF status'[d] = "NONE" THEN communities'[d] = Undeployed ELSE communities'[d] \in CommunityType
  BY <1>1, <1>2, Typed
<1>4. status' \in [Communities -> {"NONE", "Valid", "Removed", "Migrated"}]
  BY Typed
<1> QED BY <1>3, <1>4 DEF TypeOK, OthersTyped, Receipts

LEMMA BecomesTyped ==
  ASSUME TypeOK, IInv, NEW c \in Deployed, NEW r \in CommunityType, Becomes(c, r)
  PROVE  TypeOK'
<1>1. OthersTyped'
  BY Typed DEF Becomes, OthersTyped
<1> QED BY <1>1, OneTyped DEF Becomes

LEMMA InitTyped == Init => TypeOK
<1> SUFFICES ASSUME Init PROVE TypeOK
  OBVIOUS
<1>1. NothingPaid \in Receipts /\ 1 \in 1..MaxBlock
  BY CommunityAdminAssumption DEF NothingPaid, Receipts
<1>2. OthersTyped
  BY <1>1, CommunityAdminAssumption DEF Init, OthersTyped
<1> QED BY <1>2, Typed DEF Init

-----------------------------------------------------------------------------
(* Communities come and go. *)

LEMMA AddCommunityTyped ==
  ASSUME TypeOK, IInv, NEW c \in Communities, NEW token \in Tokens, NEW rules \in RulesChoices,
         NEW tranches \in TrancheChoices, NEW maxBeneficiaries \in MaxBeneficiariesChoices,
         AddCommunity(c, token, rules, tranches, maxBeneficiaries)
  PROVE  TypeOK'
<1> DEFINE q == Initialize(token, Managers, rules, tranches, maxBeneficiaries, NoCommunity)
           first == IF treasury[token] >= tranches.min THEN tranches.min ELSE 0
           left == [treasury EXCEPT ![token] = @ - first]
           gift == IF left[CUSD] >= ManagerGift THEN ManagerGift ELSE 0
           r == [q EXCEPT !.balance = first]
<1>1. OthersTyped /\ rules \in Rules /\ tranches \in [min : Nat, max : Nat] /\ maxBeneficiaries \in Nat
      /\ CUSD \in Tokens /\ ManagerGift \in Nat
  BY Typed, CommunityAdminAssumption
<1>2. q \in CommunityType
  BY <1>1, InitializeTyped
<1>3. treasury[token] \in Nat /\ tranches.min \in Nat /\ treasury \in [Tokens -> Nat]
  BY <1>1 DEF OthersTyped
<1>4. first \in Nat /\ treasury[token] - first \in Nat
  BY <1>3
<1>5. /\ communities' = [communities EXCEPT ![c] = r] /\ status' = [status EXCEPT ![c] = "Valid"]
      /\ treasury' = [left EXCEPT ![CUSD] = @ - gift] /\ UNCHANGED <<settings, block, paid, mixed>>
  BY DEF AddCommunity
<1> HIDE DEF q, first
<1>6. left \in [Tokens -> Nat]
  BY <1>3, <1>4
<1> HIDE DEF left
<1>7. left[CUSD] \in Nat /\ left[CUSD] - gift \in Nat
  BY <1>1, <1>6
<1> HIDE DEF gift
<1>8. treasury' \in [Tokens -> Nat]
  BY <1>5, <1>6, <1>7
<1>9. OthersTyped'
  BY <1>1, <1>5, <1>8 DEF OthersTyped
<1>10. r \in CommunityType
  BY <1>2, <1>4, FieldTyped
<1> HIDE DEF r
<1>11. \A d \in Communities : communities'[d] = IF d = c THEN r ELSE communities[d]
  BY <1>5 DEF IInv
<1>12. status' \in [Communities -> {"NONE", "Valid", "Removed", "Migrated"}]
       /\ \A d \in Communities : status'[d] = IF d = c THEN "Valid" ELSE status[d]
  BY <1>5 DEF IInv
<1>13. \A d \in Communities :
         IF status'[d] = "NONE" THEN communities'[d] = Undeployed ELSE communities'[d] \in CommunityType
  BY <1>10, <1>11, <1>12, Typed
<1> QED BY <1>9, <1>12, <1>13 DEF TypeOK, OthersTyped, Receipts

\* A community r is deployed at new, and the one at old becomes q.
LEMMA NewTyped ==
  ASSUME TypeOK, IInv, NEW old \in Deployed, NEW q \in CommunityType,
         NEW new \in Communities, status[new] = "NONE", NEW r \in CommunityType,
         communities' = [communities EXCEPT ![old] = q, ![new] = r],
         NEW s \in {"Valid", "Migrated"},
         status' = [status EXCEPT ![old] = s, ![new] = "Valid"] \/ status' = [status EXCEPT ![new] = "Valid"],
         UNCHANGED <<treasury, settings, block, paid, mixed>>
  PROVE  TypeOK'
<1>1. old \in Communities /\ old # new /\ status[old] # "NONE"
  BY DEF Deployed
<1>2. \A d \in Communities : communities'[d] = IF d = new THEN r ELSE IF d = old THEN q ELSE communities[d]
  BY <1>1 DEF IInv
<1>3. status' \in [Communities -> {"NONE", "Valid", "Removed", "Migrated"}]
       /\ \A d \in Communities : d \notin {old, new} => status'[d] = status[d]
       /\ status'[new] = "Valid" /\ status'[old] # "NONE"
  BY <1>1 DEF IInv
<1>4. ASSUME NEW d \in Communities
      PROVE  IF status'[d] = "NONE" THEN communities'[d] = Undeployed ELSE communities'[d] \in CommunityType
  <2>1. CASE d = new
    BY <1>2, <1>3, <2>1
  <2>2. CASE d = old
    BY <1>1, <1>2, <1>3, <2>2
  <2>3. CASE d \notin {old, new}
    BY <1>2, <1>3, <2>3, Typed
  <2> QED BY <2>1, <2>2, <2>3
<1>5. OthersTyped'
  BY Typed DEF OthersTyped
<1> QED BY <1>3, <1>4, <1>5 DEF TypeOK, OthersTyped, Receipts

LEMMA InheritTyped ==
  ASSUME NEW q \in CommunityType, Sound(q), NEW previous \in Communities \cup {NoCommunity}
  PROVE  Inherit(q, previous) \in CommunityType
<1> DEFINE rules == [q.rules EXCEPT !.maxTotalClaim = InitialMaxTotalClaim(q)]
<1>1. InitialMaxTotalClaim(q) \in Nat
  BY CountIsNatural DEF Sound, Limited, Params
<1>2. q.rules \in Rules
  BY CommunityFields
<1>3. rules \in Rules
  BY <1>1, <1>2 DEF Rules
<1>4. Inherit(q, previous) = Initialize(q.token, Managers, rules, q.tranches, q.maxBeneficiaries, previous)
  BY DEF Inherit
<1> HIDE DEF rules
<1> QED BY <1>3, <1>4, CommunityFields, InitializeTyped

LEMMA MigrateCommunityTyped ==
  ASSUME TypeOK, IInv, NEW old \in Communities, NEW new \in Communities, MigrateCommunity(old, new)
  PROVE  TypeOK'
<1> DEFINE q == communities[old]
           left == UpdateClaimAmount([q EXCEPT !.balance = 0], Ratio)
           heir == Inherit(q, old)
<1>1. old \in Deployed
  BY DEF MigrateCommunity
<1>2. q \in CommunityType /\ Sound(q) /\ Ratio \in Nat
  BY <1>1, DeployedTyped
<1>3. left \in CommunityType
  BY <1>2, FieldTyped, UpdateClaimAmountTyped
<1>4. heir \in CommunityType
  BY <1>2, InheritTyped
<1>5. /\ communities' = [communities EXCEPT ![old] = left, ![new] = [heir EXCEPT !.balance = q.balance]]
      /\ status' = [status EXCEPT ![old] = "Migrated", ![new] = "Valid"] /\ status[new] = "NONE"
      /\ UNCHANGED <<treasury, settings, block, paid, mixed>>
  BY DEF MigrateCommunity
<1> HIDE DEF left, heir
<1>6. [heir EXCEPT !.balance = q.balance] \in CommunityType
  BY <1>2, <1>4, CommunityFields, FieldTyped
<1> HIDE DEF q
<1> QED BY <1>1, <1>3, <1>5, <1>6, NewTyped

LEMMA SplitCommunityTyped ==
  ASSUME TypeOK, IInv, NEW old \in Communities, NEW new \in Communities, SplitCommunity(old, new)
  PROVE  TypeOK'
<1> DEFINE q == communities[old]
           parent == [q EXCEPT !.copies = @ \cup {new}]
           heir == Inherit(q, NoCommunity)
           copy == [heir EXCEPT !.copyOf = old, !.tokenUpdates = q.tokenUpdates]
<1>1. old \in Deployed
  BY DEF SplitCommunity, Deployed
<1>2. q \in CommunityType /\ Sound(q)
  BY <1>1, DeployedTyped
<1>3. parent \in CommunityType
  BY <1>2, CommunityFields, FieldTyped
<1>4. heir \in CommunityType
  BY <1>2, InheritTyped
<1>5. /\ communities' = [communities EXCEPT ![old] = parent, ![new] = copy]
      /\ status' = [status EXCEPT ![new] = "Valid"] /\ status[new] = "NONE"
      /\ UNCHANGED <<treasury, settings, block, paid, mixed>>
  BY DEF SplitCommunity
<1> HIDE DEF heir, parent
<1>6. copy \in CommunityType
  <2>1. q.tokenUpdates \in Seq(Update)
    BY <1>2, CommunityFields
  <2> HIDE DEF q
  <2> QED BY <1>4, <2>1 DEF CommunityType, Update
<1> HIDE DEF copy
<1> QED BY <1>1, <1>3, <1>5, <1>6, NewTyped

LEMMA RemoveCommunityTyped ==
  ASSUME TypeOK, IInv, NEW c \in Communities, RemoveCommunity(c)
  PROVE  TypeOK'
<1> DEFINE q == communities[c]
           r == UpdateClaimAmount([q EXCEPT !.balance = 0], Ratio)
<1>1. c \in Deployed
  BY DEF RemoveCommunity, Deployed
<1>2. q \in CommunityType /\ Ratio \in Nat
  BY <1>1, DeployedTyped
<1>3. r \in CommunityType
  BY <1>2, FieldTyped, UpdateClaimAmountTyped
<1>4. communities' = [communities EXCEPT ![c] = r] /\ status' = [status EXCEPT ![c] = "Removed"]
      /\ treasury' = [treasury EXCEPT ![q.token] = @ + q.balance] /\ UNCHANGED <<settings, block, paid, mixed>>
  BY DEF RemoveCommunity
<1> HIDE DEF r
<1>5. q.token \in Tokens /\ q.balance \in Nat
  BY <1>2, CommunityFields
<1>6. OthersTyped'
  BY <1>4, <1>5, Typed DEF OthersTyped
<1>7. \A d \in Communities : communities'[d] = IF d = c THEN r ELSE communities[d]
  BY <1>4 DEF IInv
<1>8. status' \in [Communities -> {"NONE", "Valid", "Removed", "Migrated"}]
       /\ \A d \in Communities : status'[d] = IF d = c THEN "Removed" ELSE status[d]
  BY <1>4 DEF IInv
<1>9. \A d \in Communities :
        IF status'[d] = "NONE" THEN communities'[d] = Undeployed ELSE communities'[d] \in CommunityType
  BY <1>3, <1>7, <1>8, Typed
<1> QED BY <1>6, <1>8, <1>9 DEF TypeOK, OthersTyped, Receipts

-----------------------------------------------------------------------------
(* Parameters and funds. *)

LEMMA SetBeneficiaryParamsTyped ==
  ASSUME TypeOK, IInv, NEW c \in Communities, NEW rules \in RulesChoices,
         NEW maxBeneficiaries \in MaxBeneficiariesChoices, SetBeneficiaryParams(c, rules, maxBeneficiaries)
  PROVE  TypeOK'
<1> DEFINE r == UpdateBeneficiaryParams(communities[c], rules, Ratio)
<1>1. /\ c \in Deployed /\ CanUpdateBeneficiaryParams(communities[c], rules)
      /\ Becomes(c, [r EXCEPT !.maxBeneficiaries = maxBeneficiaries])
  BY DEF SetBeneficiaryParams
<1>2. rules \in Rules /\ maxBeneficiaries \in Nat
  BY CommunityAdminAssumption
<1>3. r \in CommunityType
  BY <1>1, <1>2, DeployedTyped, UpdateBeneficiaryParamsTyped
<1> HIDE DEF r
<1>4. [r EXCEPT !.maxBeneficiaries = maxBeneficiaries] \in CommunityType
  BY <1>2, <1>3, FieldTyped
<1> QED BY <1>1, <1>4, BecomesTyped

LEMMA OtherParamsTyped ==
  ASSUME TypeOK, IInv, NEW c \in Communities
  PROVE  /\ \A x \in TrancheChoices : SetCommunityParams(c, x) => TypeOK'
         /\ \A x \in MaxBeneficiariesChoices : UpdateMaxBeneficiaries(c, x) => TypeOK'
         /\ \A x \in BOOLEAN : SetLocked(c, x) => TypeOK'
         /\ \A x \in Managers : AddManager(c, x) \/ RemoveManager(c, x) => TypeOK'
<1>1. ASSUME NEW x \in TrancheChoices, SetCommunityParams(c, x) PROVE TypeOK'
  <2>1. x \in [min : Nat, max : Nat] /\ c \in Deployed /\ Becomes(c, [communities[c] EXCEPT !.tranches = x])
    BY <1>1, CommunityAdminAssumption DEF SetCommunityParams
  <2> QED BY <2>1, DeployedTyped, FieldTyped, BecomesTyped
<1>2. ASSUME NEW x \in MaxBeneficiariesChoices, UpdateMaxBeneficiaries(c, x) PROVE TypeOK'
  <2>1. x \in Nat /\ c \in Deployed /\ Becomes(c, [communities[c] EXCEPT !.maxBeneficiaries = x])
    BY <1>2, CommunityAdminAssumption DEF UpdateMaxBeneficiaries
  <2> QED BY <2>1, DeployedTyped, FieldTyped, BecomesTyped
<1>3. ASSUME NEW x \in BOOLEAN, SetLocked(c, x) PROVE TypeOK'
  BY <1>3, DeployedTyped, FieldTyped, BecomesTyped DEF SetLocked
<1>4. ASSUME NEW x \in Managers, AddManager(c, x) PROVE TypeOK'
  <2>1. c \in Deployed /\ Becomes(c, [communities[c] EXCEPT !.managers = @ \cup {x}])
    BY <1>4 DEF AddManager
  <2>2. communities[c].managers \cup {x} \in SUBSET Managers
    BY <2>1, DeployedTyped, CommunityFields
  <2> QED BY <2>1, <2>2, DeployedTyped, FieldTyped, BecomesTyped
<1>5. ASSUME NEW x \in Managers, RemoveManager(c, x) PROVE TypeOK'
  <2>1. c \in Deployed /\ Becomes(c, [communities[c] EXCEPT !.managers = @ \ {x}])
    BY <1>5 DEF RemoveManager
  <2>2. communities[c].managers \ {x} \in SUBSET Managers
    BY <2>1, DeployedTyped, CommunityFields
  <2> QED BY <2>1, <2>2, DeployedTyped, FieldTyped, BecomesTyped
<1> QED BY <1>1, <1>2, <1>3, <1>4, <1>5

LEMMA UpdateCommunityTokenTyped ==
  ASSUME TypeOK, IInv, NEW c \in Communities, NEW token \in NewTokens, NEW rules \in RulesChoices,
         NEW rate \in SwapRates, UpdateCommunityToken(c, token, rules, rate)
  PROVE  TypeOK'
<1> DEFINE q == communities[c]
           ratio == ConversionRatio(q, rules)
           convert(r) == [r EXCEPT !.amount = (@ * ratio) \div Unit]
           new == UpdateToken(q, token, rules, q.balance * rate, Ratio, block)
<1>1. /\ c \in Deployed /\ CanUpdateToken(q, token, rules) /\ communities' = [communities EXCEPT ![c] = new]
      /\ paid' = [paid EXCEPT ![c] = [p \in People |-> convert(@[p])]]
      /\ mixed' \subseteq mixed \cup {c} /\ UNCHANGED <<status, treasury, settings, block>>
  BY DEF UpdateCommunityToken
<1>2. q \in CommunityType /\ Sound(q) /\ c \in Communities /\ Ratio \in Nat
  BY <1>1, DeployedTyped
<1>3. rules \in Rules /\ token \in Tokens /\ rate \in Nat /\ block \in 0..MaxBlock
  BY CommunityAdminAssumption, Typed DEF OthersTyped
<1>4. q.balance * rate \in Nat
  BY <1>2, <1>3, CommunityFields
<1>5. new \in CommunityType
  BY <1>1, <1>2, <1>3, <1>4, UpdateTokenTyped
<1>6. ratio \in Nat
  BY <1>1, <1>2, <1>3, ConversionRatioNat DEF CanUpdateToken
<1> HIDE DEF new, ratio, q
<1>7. ASSUME NEW p \in People PROVE convert(paid[c][p]) \in Receipts
  <2>1. PICK r \in Receipts : r = paid[c][p]
    BY <1>2, Typed DEF OthersTyped
  <2>2. r.amount \in Nat
    BY DEF Receipts
  <2>3. (r.amount * ratio) \div Unit \in Nat
    BY <1>6, <2>2, ConversionNat
  <2>4. [r EXCEPT !.amount = (r.amount * ratio) \div Unit] \in Receipts
    BY <2>3 DEF Receipts
  <2> QED BY <2>1, <2>4
<1>8. [p \in People |-> convert(paid[c][p])] \in [People -> Receipts]
  BY <1>7
<1>9. paid' \in [Communities -> [People -> Receipts]]
  BY <1>1, <1>2, <1>8, Typed DEF OthersTyped
<1>10. OthersTyped'
  BY <1>1, <1>2, <1>9, Typed DEF OthersTyped
<1> QED BY <1>1, <1>5, <1>10, OneTyped

LEMMA SameCommunitiesTyped ==
  ASSUME TypeOK, communities' = communities, status' = status, OthersTyped'
  PROVE  TypeOK'
BY Typed DEF TypeOK, OthersTyped, Receipts

\* A tranche is at most what the treasury has.
LEMMA TrancheNat ==
  ASSUME TypeOK, IInv, NEW c \in Deployed
  PROVE  TrancheAmount(c) \in Nat /\ TrancheAmount(c) <= treasury[communities[c].token]
<1>1. communities[c] \in CommunityType /\ OthersTyped
  BY DeployedTyped, Typed
<1>2. PICK q \in CommunityType : q = communities[c]
  BY <1>1
<1>3. PICK wealth \in Nat : wealth = treasury[q.token]
  BY <1>1, <1>2, CommunityFields DEF OthersTyped
<1>4. PICK percent \in 0..100 : percent = settings.treasurySafetyPercentage
  BY <1>1 DEF OthersTyped, Settings
<1>5. (wealth * percent) \div 100 \in Nat /\ (wealth * percent) \div 100 <= wealth
  <2>1. PICK x \in Nat : x = wealth * percent
    OBVIOUS
  <2>2. x <= wealth * 100
    BY <2>1
  <2> QED BY <2>1, <2>2
<1>6. PICK part \in Nat : part = (wealth * percent) \div 100 /\ part <= wealth
  BY <1>5
<1>7. q.balance \in Nat /\ q.tranches.max \in Nat /\ q.validBeneficiaryCount \in Nat
      /\ q.rules.originalClaimAmount \in Nat
  BY CommunityFields DEF Rules
<1>8. q.validBeneficiaryCount * q.rules.originalClaimAmount \in Nat
  BY <1>7
<1>9. PICK tranche \in Nat : tranche = AtMost(q.tranches.max, q.validBeneficiaryCount * q.rules.originalClaimAmount)
  BY <1>7, <1>8 DEF AtMost
<1>10. TrancheAmount(c) = 0 \/ (tranche > q.balance /\ TrancheAmount(c) = AtMost(part, tranche - q.balance))
  <2> DEFINE most == AtMost(q.tranches.max, q.validBeneficiaryCount * q.rules.originalClaimAmount)
             safe == (wealth * percent) \div 100
  <2>1. TrancheAmount(c) = 0 \/ (~(most <= q.balance) /\ TrancheAmount(c) = AtMost(safe, most - q.balance))
    BY ONLY <1>2, <1>3, <1>4, Zenon DEF TrancheAmount
  <2>2. safe = part /\ most = tranche
    BY <1>6, <1>9
  <2> HIDE DEF safe, most
  <2> QED BY <1>7, <2>1, <2>2
<1> QED BY <1>2, <1>3, <1>6, <1>7, <1>10 DEF AtMost

LEMMA FundedTyped ==
  ASSUME TypeOK, IInv, NEW c \in Deployed
  PROVE  Funded(c) \in CommunityType
<1>1. communities[c] \in CommunityType /\ Ratio \in Nat /\ block \in 0..MaxBlock
  BY DeployedTyped, Typed DEF OthersTyped
<1>2. PICK q \in CommunityType : q = communities[c]
  BY <1>1
<1>3. PICK amount \in Nat : amount = TrancheAmount(c)
  BY TrancheNat
<1>4. q.balance + amount \in Nat
  BY CommunityFields
<1>5. PICK balance \in Nat : balance = q.balance + amount
  BY <1>4
<1>6. [q EXCEPT !.balance = balance, !.lastFundRequest = block] \in CommunityType
  BY <1>1 DEF CommunityType
<1>7. UpdateClaimAmount([q EXCEPT !.balance = balance, !.lastFundRequest = block], Ratio) \in CommunityType
  BY <1>1, <1>6, UpdateClaimAmountTyped
<1> QED BY <1>1, <1>2, <1>3, <1>5, <1>7 DEF Funded

LEMMA TranchePaid ==
  ASSUME TypeOK, IInv, NEW c \in Deployed, PayTranche(c)
  PROVE  treasury' \in [Tokens -> Nat]
<1>1. communities[c].token \in Tokens /\ treasury \in [Tokens -> Nat]
  BY DeployedTyped, CommunityFields, Typed DEF OthersTyped
<1>2. treasury[communities[c].token] - TrancheAmount(c) \in Nat
  BY <1>1, TrancheNat
<1> QED BY <1>1, <1>2 DEF PayTranche

LEMMA RequestFundsTyped ==
  ASSUME TypeOK, IInv, NEW c \in Communities, RequestFunds(c)
  PROVE  TypeOK'
<1>1. c \in Deployed /\ communities' = [communities EXCEPT ![c] = Funded(c)] /\ PayTranche(c)
      /\ UNCHANGED <<status, settings, block, paid, mixed>>
  BY DEF RequestFunds, ActiveManagers
<1>2. OthersTyped'
  BY <1>1, TranchePaid, Typed DEF OthersTyped
<1> QED BY <1>1, <1>2, FundedTyped, OneTyped

LEMMA BalanceTyped ==
  ASSUME TypeOK, IInv, NEW c \in Communities, NEW amount \in Donations,
         Donate(c, amount) \/ TransferFromCommunity(c, amount)
  PROVE  TypeOK'
<1>1. c \in Deployed
  BY DEF Donate, TransferFromCommunity
<1>2. communities[c] \in CommunityType /\ Ratio \in Nat /\ amount \in Nat
  BY <1>1, DeployedTyped, CommunityAdminAssumption
<1>3. PICK q \in CommunityType : q = communities[c]
  BY <1>2
<1>4. q.balance \in Nat
  BY CommunityFields
<1>5. PICK v \in Nat : Becomes(c, UpdateClaimAmount([q EXCEPT !.balance = v], Ratio))
  <2>1. CASE Donate(c, amount)
    <3>1. q.balance + amount \in Nat
      BY <1>2, <1>4
    <3>2. Becomes(c, UpdateClaimAmount([q EXCEPT !.balance = q.balance + amount], Ratio))
      BY <1>3, <2>1 DEF Donate
    <3> QED BY <3>1, <3>2
  <2>2. CASE TransferFromCommunity(c, amount)
    <3>1. q.balance - amount \in Nat
      BY <1>2, <1>3, <1>4, <2>2 DEF TransferFromCommunity
    <3>2. Becomes(c, UpdateClaimAmount([q EXCEPT !.balance = q.balance - amount], Ratio))
      BY <1>3, <2>2 DEF TransferFromCommunity
    <3> QED BY <3>1, <3>2
  <2> QED BY <2>1, <2>2
<1>6. UpdateClaimAmount([q EXCEPT !.balance = v], Ratio) \in CommunityType
  BY <1>2, FieldTyped, UpdateClaimAmountTyped
<1> QED BY <1>1, <1>5, <1>6, BecomesTyped

-----------------------------------------------------------------------------
(* Beneficiaries. *)

LEMMA AddBeneficiaryTyped ==
  ASSUME TypeOK, IInv, NEW c \in Communities, NEW p \in People, AddBeneficiary(c, p)
  PROVE  TypeOK'
<1> DEFINE q == communities[c]
           added == Add(q, p, block)
<1>1. c \in Deployed /\ CanAdd(q, p) /\ UNCHANGED <<status, settings, block, paid, mixed>>
  BY DEF AddBeneficiary, ActiveManagers
<1>2. q \in CommunityType /\ Sound(q) /\ block \in 0..MaxBlock /\ OthersTyped /\ DefaultAmount \in Nat
  BY <1>1, DeployedTyped, Typed, CommunityAssumption DEF OthersTyped
<1>3. added \in CommunityType /\ added.balance = q.balance
  <2>1. added \in CommunityType
    BY <1>1, <1>2, AddTyped
  <2>2. added.balance = q.balance
    BY <1>2 DEF Add, ChangeState, CommunityType
  <2> QED BY <2>1, <2>2
<1>4. q.balance \in Nat /\ q.token \in Tokens
  BY <1>2, CommunityFields
<1>5. CASE q.balance < DefaultAmount
  <2>1. /\ treasury[q.token] >= DefaultAmount
        /\ treasury' = [treasury EXCEPT ![q.token] = @ - DefaultAmount]
        /\ communities' = [communities EXCEPT ![c] = added]
    BY <1>5 DEF AddBeneficiary
  <2>2. treasury[q.token] - DefaultAmount \in Nat
    BY <1>2, <1>4, <2>1 DEF OthersTyped
  <2> HIDE DEF added, q
  <2>3. OthersTyped'
    BY <1>1, <1>2, <1>4, <2>1, <2>2 DEF OthersTyped
  <2> QED BY <1>1, <1>3, <2>1, <2>3, OneTyped
<1>6. CASE ~(q.balance < DefaultAmount)
  <2>1. /\ communities' = [communities EXCEPT ![c] = [added EXCEPT !.balance = @ - DefaultAmount]]
        /\ treasury' = treasury
    BY <1>6 DEF AddBeneficiary
  <2>2. q.balance - DefaultAmount \in Nat
    BY <1>2, <1>4, <1>6
  <2> HIDE DEF added, q
  <2>3. [added EXCEPT !.balance = added.balance - DefaultAmount] \in CommunityType
    BY <1>3, <2>2, FieldTyped
  <2>4. OthersTyped'
    BY <1>1, <1>2, <2>1 DEF OthersTyped
  <2> QED BY <1>1, <2>1, <2>3, <2>4, OneTyped
<1> QED BY <1>5, <1>6

LEMMA ChangeStateCallsTyped ==
  ASSUME TypeOK, IInv, NEW c \in Communities, NEW p \in People,
         LockBeneficiary(c, p) \/ UnlockBeneficiary(c, p) \/ RemoveBeneficiary(c, p)
  PROVE  TypeOK'
<1>1. PICK state \in {"Valid", "Locked", "Removed"} :
        /\ c \in Deployed /\ Becomes(c, ChangeState(communities[c], p, state))
        /\ CanChangeState(communities[c], p, state)
  BY DEF LockBeneficiary, UnlockBeneficiary, RemoveBeneficiary, ActiveManagers, CanLock, CanUnlock, CanRemove,
         CanChangeState
<1>2. state \in BeneficiaryStates
  BY DEF BeneficiaryStates
<1>3. ChangeState(communities[c], p, state) \in CommunityType
  BY <1>1, <1>2, DeployedTyped, ChangeStateTyped
<1> QED BY <1>1, <1>3, BecomesTyped

LEMMA ToldTyped ==
  ASSUME TypeOK, IInv, NEW c \in Deployed, NEW p \in People
  PROVE  Told(c, p) \in Beneficiary
<1>1. communities[c] \in CommunityType
  BY DeployedTyped
<1>2. PICK r \in Beneficiary : r = communities[c].beneficiaries[p]
  BY <1>1, CommunityFields
<1>3. PICK amount \in Nat : amount = ClaimedAmount(communities[c], p, block)
  BY <1>1, AmountNat
<1>4. [r EXCEPT !.claimedAmount = amount] \in Beneficiary
  BY DEF Beneficiary
<1> QED BY <1>2, <1>3, <1>4 DEF Told, Person

LEMMA RememberTyped ==
  ASSUME TypeOK, NEW c \in Communities, NEW p \in People, NEW receipts \in Receipts, Remember(c, p, receipts)
  PROVE  paid' \in [Communities -> [People -> Receipts]]
BY Typed DEF OthersTyped, Remember

LEMMA JoinFromMigratedTyped ==
  ASSUME TypeOK, IInv, NEW c \in Communities, NEW p \in People, JoinFromMigrated(c, p)
  PROVE  TypeOK'
<1> DEFINE q == communities[c]
           old == Told(q.previousCommunity, p)
<1>1. /\ c \in Deployed /\ q.previousCommunity # NoCommunity
      /\ CanChangeState(q, p, old.state)
      /\ communities' = [communities EXCEPT ![c] = Adopt(q, p, old)]
      /\ Remember(c, p, paid[q.previousCommunity][p]) /\ mixed' \subseteq mixed \cup {c}
      /\ UNCHANGED <<status, treasury, settings, block>>
  BY DEF JoinFromMigrated, MixedFrom
<1>2. q.previousCommunity \in Deployed /\ q \in CommunityType /\ Sound(q)
  BY <1>1, DeployedTyped DEF IInv, Origins
<1>3. old \in Beneficiary
  BY <1>2, ToldTyped
<1>4. paid[q.previousCommunity][p] \in Receipts
  BY <1>2, Typed DEF OthersTyped, Deployed
<1>5. Adopt(q, p, old) \in CommunityType
  BY <1>1, <1>2, <1>3, AdoptTyped
<1> HIDE DEF q, old
<1>6. OthersTyped'
  BY <1>1, <1>4, RememberTyped, Typed DEF OthersTyped
<1> QED BY <1>1, <1>5, <1>6, OneTyped

LEMMA CopyBeneficiaryTyped ==
  ASSUME TypeOK, IInv, NEW c \in Communities, NEW p \in People, CopyBeneficiary(c, p)
  PROVE  TypeOK'
<1> DEFINE q == communities[c]
           original == communities[q.copyOf]
           old == Told(q.copyOf, p)
           copied == ChangeState(original, p, "Copied")
           adopted == Adopt(q, p, old)
<1>1. /\ c \in Deployed /\ q.copyOf # NoCommunity
      /\ CanChangeState(q, p, old.state)
      /\ communities' = [communities EXCEPT ![c] = adopted, ![q.copyOf] = copied]
      /\ Remember(c, p, paid[q.copyOf][p]) /\ mixed' \subseteq mixed \cup {c}
      /\ UNCHANGED <<status, treasury, settings, block>>
  BY DEF CopyBeneficiary, MixedFrom, CanCopy, ActiveManagers
<1>2. q.copyOf \in Deployed /\ q \in CommunityType /\ Sound(q)
  BY <1>1, DeployedTyped DEF IInv, Origins
<1>3. original \in CommunityType /\ Sound(original)
  BY <1>2, DeployedTyped
<1>4. old \in Beneficiary
  BY <1>2, ToldTyped
<1>5. paid[q.copyOf][p] \in Receipts
  BY <1>2, Typed DEF OthersTyped, Deployed
<1>6. adopted \in CommunityType
  BY <1>1, <1>2, <1>4, AdoptTyped
<1>7. copied \in CommunityType
  BY <1>3, ChangeStateTyped DEF CanChangeState, BeneficiaryStates
<1>8. OthersTyped'
  BY <1>1, <1>5, RememberTyped, Typed DEF OthersTyped
<1> HIDE DEF adopted, copied, old
<1>9. \A d \in Communities :
        communities'[d] = IF d = q.copyOf THEN copied ELSE IF d = c THEN adopted ELSE communities[d]
  BY <1>1, <1>2 DEF IInv, Deployed
<1>10. \A d \in Communities :
         IF status'[d] = "NONE" THEN communities'[d] = Undeployed ELSE communities'[d] \in CommunityType
  <2> SUFFICES ASSUME NEW d \in Communities
               PROVE  IF status'[d] = "NONE" THEN communities'[d] = Undeployed ELSE communities'[d] \in CommunityType
    OBVIOUS
  <2>1. status'[d] = status[d]
    BY <1>1
  <2>2. CASE d = q.copyOf
    BY <1>2, <1>7, <1>9, <2>1, <2>2 DEF Deployed
  <2>3. CASE d # q.copyOf /\ d = c
    BY <1>1, <1>6, <1>9, <2>1, <2>3 DEF Deployed
  <2>4. CASE d # q.copyOf /\ d # c
    <3>1. communities'[d] = communities[d]
      BY <1>9, <2>4
    <3>2. IF status[d] = "NONE" THEN communities[d] = Undeployed ELSE communities[d] \in CommunityType
      BY Typed
    <3> QED BY <2>1, <3>1, <3>2
  <2> QED BY <2>2, <2>3, <2>4
<1>11. status' \in [Communities -> {"NONE", "Valid", "Removed", "Migrated"}]
  BY <1>1, Typed
<1> QED BY <1>8, <1>10, <1>11 DEF TypeOK, OthersTyped, Receipts

LEMMA MoveAddressTyped ==
  ASSUME TypeOK, IInv, NEW c \in Communities, NEW old \in People, NEW new \in People,
         ChangeAddressByManager(c, old, new) \/ ChangeOwnAddress(c, old, new)
  PROVE  TypeOK'
<1> DEFINE receipts == [claims |-> paid[c][old].claims + paid[c][new].claims,
                        last |-> Latest(paid[c][old].last, paid[c][new].last),
                        amount |-> paid[c][old].amount + paid[c][new].amount]
<1>1. /\ c \in Deployed /\ CanChangeAddress(communities[c], old, new)
      /\ communities' = [communities EXCEPT ![c] = ChangeAddress(communities[c], old, new)]
      /\ Remember(c, new, receipts) /\ UNCHANGED <<status, treasury, settings, block, mixed>>
  BY DEF ChangeAddressByManager, ChangeOwnAddress, ActiveManagers, MoveAddress
<1>2. ChangeAddress(communities[c], old, new) \in CommunityType
  BY <1>1, DeployedTyped, ChangeAddressTyped
<1>3. PICK a \in Receipts, b \in Receipts : a = paid[c][old] /\ b = paid[c][new]
  BY Typed DEF OthersTyped
<1>4. receipts \in Receipts
  BY <1>3 DEF Receipts, Latest
<1> HIDE DEF receipts
<1>5. OthersTyped'
  BY <1>1, <1>4, RememberTyped, Typed DEF OthersTyped
<1> QED BY <1>1, <1>2, <1>5, OneTyped

LEMMA ClaimBenefitTyped ==
  ASSUME TypeOK, IInv, NEW c \in Communities, NEW p \in People, ClaimBenefit(c, p)
  PROVE  TypeOK'
<1> DEFINE q == Funded(c)
           pay == ToClaim(q, p, block)
           receipts == [claims |-> paid[c][p].claims + 1, last |-> block, amount |-> paid[c][p].amount + pay]
<1>1. /\ c \in Deployed /\ CanClaim(q, p, block) /\ communities' = [communities EXCEPT ![c] = Claim(q, p, block)]
      /\ PayTranche(c) /\ Remember(c, p, receipts) /\ UNCHANGED <<status, settings, block, mixed>>
  BY DEF ClaimBenefit
<1>2. q \in CommunityType /\ OthersTyped /\ block \in 0..MaxBlock
  BY <1>1, FundedTyped, Typed DEF OthersTyped
<1> HIDE DEF q
<1>3. Claim(q, p, block) \in CommunityType /\ pay \in Nat
  BY <1>1, <1>2, ClaimTyped, PayInBalance
<1> HIDE DEF pay
<1>4. PICK a \in Receipts : a = paid[c][p]
  BY <1>2 DEF OthersTyped
<1>5. receipts \in Receipts
  BY <1>2, <1>3, <1>4 DEF Receipts
<1> HIDE DEF receipts
<1>6. OthersTyped'
  BY <1>1, <1>2, <1>5, RememberTyped, TranchePaid DEF OthersTyped
<1> QED BY <1>1, <1>3, <1>6, OneTyped

LEMMA StepTyped == TypeOK /\ IInv /\ [Next]_vars => TypeOK'
<1> SUFFICES ASSUME TypeOK, IInv, [Next]_vars PROVE TypeOK'
  OBVIOUS
<1>1. ASSUME NEW c \in Communities, CommunityCalls(c) PROVE TypeOK'
  <2>1. CASE RequestFunds(c) \/ RemoveCommunity(c)
    BY <2>1, RequestFundsTyped, RemoveCommunityTyped
  <2>2. CASE \E locked \in BOOLEAN : SetLocked(c, locked)
    BY <2>2, OtherParamsTyped
  <2>3. CASE \E m \in Managers : AddManager(c, m) \/ RemoveManager(c, m)
    BY <2>3, OtherParamsTyped
  <2>4. CASE \E amount \in Donations : Donate(c, amount) \/ TransferFromCommunity(c, amount)
    BY <2>4, BalanceTyped
  <2>5. CASE \E tranches \in TrancheChoices : SetCommunityParams(c, tranches)
    BY <2>5, OtherParamsTyped
  <2>6. CASE \E maxBeneficiaries \in MaxBeneficiariesChoices : UpdateMaxBeneficiaries(c, maxBeneficiaries)
    BY <2>6, OtherParamsTyped
  <2>7. CASE \E rules \in RulesChoices, maxBeneficiaries \in MaxBeneficiariesChoices :
               SetBeneficiaryParams(c, rules, maxBeneficiaries)
    BY <2>7, SetBeneficiaryParamsTyped
  <2>8. CASE \E rules \in RulesChoices, token \in NewTokens, rate \in SwapRates :
               UpdateCommunityToken(c, token, rules, rate)
    BY <2>8, UpdateCommunityTokenTyped
  <2> QED BY <1>1, <2>1, <2>2, <2>3, <2>4, <2>5, <2>6, <2>7, <2>8 DEF CommunityCalls
<1>2. ASSUME NEW c \in Communities, NEW p \in People, BeneficiaryCalls(c, p) PROVE TypeOK'
  <2>1. CASE AddBeneficiary(c, p) \/ LockBeneficiary(c, p) \/ UnlockBeneficiary(c, p) \/ RemoveBeneficiary(c, p)
    BY <2>1, AddBeneficiaryTyped, ChangeStateCallsTyped
  <2>2. CASE JoinFromMigrated(c, p) \/ CopyBeneficiary(c, p) \/ ClaimBenefit(c, p)
    BY <2>2, JoinFromMigratedTyped, CopyBeneficiaryTyped, ClaimBenefitTyped
  <2>3. CASE \E new \in People : ChangeAddressByManager(c, p, new) \/ ChangeOwnAddress(c, p, new)
    BY <2>3, MoveAddressTyped
  <2> QED BY <1>2, <2>1, <2>2, <2>3 DEF BeneficiaryCalls
<1>3. CASE AdminCalls
  <2>1. ASSUME NEW c \in NewCommunities, NEW token \in Tokens, NEW rules \in RulesChoices,
               NEW tranches \in TrancheChoices, NEW maxBeneficiaries \in MaxBeneficiariesChoices,
               AddCommunity(c, token, rules, tranches, maxBeneficiaries)
        PROVE  TypeOK'
    BY <2>1, CommunityAdminAssumption, AddCommunityTyped
  <2>2. ASSUME NEW old \in Communities, NEW new \in Communities,
               MigrateCommunity(old, new) \/ SplitCommunity(old, new)
        PROVE  TypeOK'
    BY <2>2, MigrateCommunityTyped, SplitCommunityTyped
  <2>3. ASSUME NEW new \in SettingsChoices, UpdateSettings(new) PROVE TypeOK'
    BY <2>3, CommunityAdminAssumption, SameCommunitiesTyped, Typed DEF UpdateSettings, OthersTyped
  <2>4. ASSUME NEW token \in Tokens, TreasuryIncome(token) PROVE TypeOK'
    BY <2>4, SameCommunitiesTyped, Typed DEF TreasuryIncome, OthersTyped
  <2> QED BY <1>3, <2>1, <2>2, <2>3, <2>4 DEF AdminCalls
<1>4. CASE NextBlock \/ UNCHANGED vars
  BY <1>4, SameCommunitiesTyped, Typed, CommunityAdminAssumption DEF NextBlock, vars, OthersTyped
<1> QED BY <1>1, <1>2, <1>3, <1>4 DEF Next

\* The balances of communities and of the treasury are never overdrawn, dates
\* and counters stay what they are (the storage of Community and CommunityAdmin).
THEOREM CommunityTyped == Spec => []TypeOK
BY InitTyped, AlwaysSound, StepTyped, PTL DEF Spec

(***************************************************************************)
(* Claims: what a community knows of its people's claims agrees with what   *)
(* they have received.                                                      *)
(***************************************************************************)

-----------------------------------------------------------------------------
(* What is rounded off by a conversion. *)

LEMMA FloorAbove ==
  ASSUME NEW k \in Nat, NEW z \in Nat, k * Unit <= z
  PROVE  k <= z \div Unit
<1>1. Unit \in Nat /\ Unit > 0
  BY CommunityAssumption
<1>2. PICK d \in Nat : d = z \div Unit
  BY <1>1
<1>3. z < d * Unit + Unit
  BY <1>1, <1>2
<1>4. SUFFICES ASSUME k >= d + 1 PROVE FALSE
  BY <1>2
<1>5. PICK e \in Nat : k = d + 1 + e
  BY <1>4
<1>6. k * Unit = d * Unit + Unit + e * Unit /\ e * Unit \in Nat /\ d * Unit \in Nat
  BY <1>1, <1>5
<1>7. PICK a \in Nat, b \in Nat : a = d * Unit /\ b = e * Unit
  BY <1>6
<1> QED BY <1>1, <1>3, <1>6, <1>7

LEMMA FloorBelow ==
  ASSUME NEW z \in Nat
  PROVE  z \div Unit \in Nat /\ (z \div Unit) * Unit <= z
BY CommunityAssumption

LEMMA FloorGrows ==
  ASSUME NEW x \in Nat, NEW y \in Nat, x <= y, NEW ratio \in Nat
  PROVE  (x * ratio) \div Unit <= (y * ratio) \div Unit
<1>1. PICK e \in Nat : y = x + e
  <2>1. y - x \in Nat /\ y = x + (y - x)
    OBVIOUS
  <2> QED BY <2>1
<1>2. PICK a \in Nat, b \in Nat : a = x * ratio /\ b = e * ratio
  OBVIOUS
<1>3. y * ratio = a + b
  BY <1>1, <1>2
<1>4. (a \div Unit) \in Nat /\ (a \div Unit) * Unit <= a + b
  <2>1. PICK c \in Nat : c = a \div Unit /\ c * Unit <= a
    BY FloorBelow
  <2>2. c * Unit \in Nat
    BY CommunityAssumption
  <2>3. PICK f \in Nat : f = c * Unit
    BY <2>2
  <2>4. f <= a + b
    BY <2>1, <2>3
  <2> QED BY <2>1, <2>3, <2>4
<1>5. a \div Unit <= (a + b) \div Unit
  BY <1>4, FloorAbove
<1> QED BY <1>2, <1>3, <1>5

\* Two amounts converted apart are worth no more than converted together.
LEMMA FloorsAdd ==
  ASSUME NEW x \in Nat, NEW y \in Nat, NEW ratio \in Nat
  PROVE  (x * ratio) \div Unit + (y * ratio) \div Unit <= ((x + y) * ratio) \div Unit
<1>1. PICK a \in Nat, b \in Nat : a = x * ratio /\ b = y * ratio
  OBVIOUS
<1>2. (x + y) * ratio = a + b
  BY <1>1
<1>3. PICK i \in Nat, j \in Nat : i = a \div Unit /\ j = b \div Unit /\ i * Unit <= a /\ j * Unit <= b
  BY FloorBelow
<1>4. PICK u \in Nat : u = Unit
  BY CommunityAssumption
<1>5. (i + j) * u = i * u + j * u /\ i * u \in Nat /\ j * u \in Nat
  OBVIOUS
<1>6. (i + j) * Unit <= a + b
  BY <1>3, <1>4, <1>5
<1>7. i + j <= (a + b) \div Unit
  BY <1>6, FloorAbove
<1> QED BY <1>1, <1>2, <1>3, <1>7

-----------------------------------------------------------------------------
(* One community q, the receipts of its people and the block. *)

\* The first entry is of block 0, another follows it, and none is in the future.
KnownUpdates(q, b) ==
  \/ q.tokenUpdates = <<>>
  \/ /\ Len(q.tokenUpdates) >= 2 /\ q.tokenUpdates[1].startBlock = 0
     /\ \A i \in 1..Len(q.tokenUpdates) : q.tokenUpdates[i].startBlock <= b

\* An amount x of block last in the token of block upTo, after at most one update.
Converted(updates, x, last, upTo) ==
  IF updates # <<>> /\ last < updates[2].startBlock /\ updates[2].startBlock <= upTo
  THEN (x * updates[2].ratio) \div Unit
  ELSE x

\* Claims are counted, and the last of them is not before the last receipt.
Recorded(q, receipts, b) ==
  /\ KnownUpdates(q, b)
  /\ \A p \in People :
       LET r == q.beneficiaries[p]
       IN receipts[p].claims = r.claims /\ receipts[p].last <= r.lastClaim /\ r.lastClaim <= b

\* What is claimed, in the token of now, covers what was received.
Counted(q, receipts, b) ==
  \A p \in People :
    LET r == q.beneficiaries[p]
    IN /\ receipts[p].amount <= Converted(q.tokenUpdates, r.claimedAmount, r.lastClaim, b)
       /\ r.state = "NONE" => r.claimedAmount = 0

\* At most one update, and none in a copy: then Comparable depends on mixed only.
Plain(q) == Len(q.tokenUpdates) <= IF q.copyOf = NoCommunity THEN 2 ELSE 0
Agrees(q, receipts, b, c, apart) == Recorded(q, receipts, b) /\ (c \notin apart /\ Plain(q) => Counted(q, receipts, b))

LEMMA ConvertedIs ==
  ASSUME NEW q \in CommunityType, NEW b, KnownUpdates(q, b), Plain(q), NEW p \in People, NEW upTo
  PROVE  LET r == q.beneficiaries[p]
         IN ClaimedAmount(q, p, upTo) = Converted(q.tokenUpdates, r.claimedAmount, r.lastClaim, upTo)
<1>1. q.tokenUpdates \in Seq(Update) /\ q.beneficiaries[p] \in Beneficiary
  BY CommunityFields
<1>2. q.beneficiaries[p].lastClaim \in Nat
  BY <1>1, CommunityAdminAssumption DEF Beneficiary
<1>3. CASE q.tokenUpdates = <<>>
  BY <1>3, ClaimedAmountWithoutUpdates DEF Converted
<1>4. CASE q.tokenUpdates # <<>>
  <2>1. Len(q.tokenUpdates) = 2 /\ q.tokenUpdates[1].startBlock = 0
    <3>1. Len(q.tokenUpdates) \in Nat /\ Len(q.tokenUpdates) >= 2 /\ q.tokenUpdates[1].startBlock = 0
      BY <1>1, <1>4 DEF KnownUpdates
    <3>2. Len(q.tokenUpdates) <= 2
      BY <3>1 DEF Plain
    <3>3. ASSUME NEW n \in Nat, n >= 2, n <= 2 PROVE n = 2
      BY <3>3
    <3> QED BY ONLY <3>1, <3>2, <3>3
  <2>2. ClaimedAmount(q, p, upTo) = Through(q, p, upTo, 2, q.beneficiaries[p].claimedAmount)
    BY <1>2, <2>1, ClaimedAmountAfterUpdate
  <2> QED BY <1>4, <2>2 DEF Converted, Through
<1> QED BY <1>3, <1>4

\* Nothing stays nothing, whatever the ratio.
LEMMA NothingConverted ==
  ASSUME NEW updates \in Seq(Update), updates = <<>> \/ Len(updates) >= 2, NEW last, NEW upTo
  PROVE  Converted(updates, 0, last, upTo) = 0
<1>1. updates # <<>> => updates[2] \in Update
  OBVIOUS
<1>2. \A ratio \in Nat : (0 * ratio) \div Unit = 0
  BY CommunityAssumption
<1> QED BY <1>1, <1>2 DEF Converted, Update

LEMMA ConvertedNat ==
  ASSUME NEW updates \in Seq(Update), updates = <<>> \/ Len(updates) >= 2,
         NEW x \in Nat, NEW last, NEW upTo
  PROVE  Converted(updates, x, last, upTo) \in Nat
<1>1. updates # <<>> => updates[2] \in Update
  OBVIOUS
<1>2. updates # <<>> => updates[2].ratio \in Nat
  BY <1>1 DEF Update
<1> QED BY <1>2, ConversionNat DEF Converted

\* Calls that leave all claims as they are.
SameClaims(q, r) ==
  /\ r.tokenUpdates = q.tokenUpdates /\ r.copyOf = q.copyOf
  /\ \A p \in People :
       /\ r.beneficiaries[p].claims = q.beneficiaries[p].claims
       /\ r.beneficiaries[p].claimedAmount = q.beneficiaries[p].claimedAmount
       /\ r.beneficiaries[p].lastClaim = q.beneficiaries[p].lastClaim
       /\ r.beneficiaries[p].state = "NONE" => q.beneficiaries[p].state = "NONE"

LEMMA SameClaimsTransitive ==
  ASSUME NEW q, NEW r, NEW s, SameClaims(q, r), SameClaims(r, s)
  PROVE  SameClaims(q, s)
BY DEF SameClaims

LEMMA SameClaimsAgree ==
  ASSUME NEW q, NEW r, SameClaims(q, r), NEW receipts, NEW b, NEW c, NEW apart, Agrees(q, receipts, b, c, apart)
  PROVE  Agrees(r, receipts, b, c, apart)
<1>1. Recorded(r, receipts, b)
  BY DEF SameClaims, Agrees, Recorded, KnownUpdates
<1>2. Plain(r) => Plain(q)
  BY DEF SameClaims, Plain
<1>3. Counted(q, receipts, b) => Counted(r, receipts, b)
  BY DEF SameClaims, Counted
<1> QED BY <1>1, <1>2, <1>3 DEF Agrees

LEMMA FieldSameClaims ==
  ASSUME NEW q \in CommunityType
  PROVE  /\ \A v : SameClaims(q, [q EXCEPT !.balance = v])
         /\ \A v : SameClaims(q, [q EXCEPT !.maxBeneficiaries = v])
         /\ \A v : SameClaims(q, [q EXCEPT !.tranches = v])
         /\ \A v : SameClaims(q, [q EXCEPT !.locked = v])
         /\ \A v : SameClaims(q, [q EXCEPT !.managers = v])
         /\ \A v : SameClaims(q, [q EXCEPT !.copies = v])
         /\ \A v : SameClaims(q, [q EXCEPT !.claimAmount = v])
         /\ \A v : SameClaims(q, [q EXCEPT !.lastFundRequest = v])
         /\ \A v, w : SameClaims(q, [q EXCEPT !.rules = v, !.maxTotalClaim = w])
BY DEF CommunityType, SameClaims

LEMMA UpdateClaimAmountSameClaims ==
  ASSUME NEW q \in CommunityType, NEW ratio
  PROVE  SameClaims(q, UpdateClaimAmount(q, ratio))
<1>1. PICK amount : UpdateClaimAmount(q, ratio) = [q EXCEPT !.claimAmount = amount]
  BY DEF UpdateClaimAmount
<1> QED BY <1>1, FieldSameClaims

LEMMA UpdateBeneficiaryParamsSameClaims ==
  ASSUME NEW q \in CommunityType, Sound(q), NEW rules \in Rules, NEW ratio \in Nat,
         CanUpdateBeneficiaryParams(q, rules)
  PROVE  SameClaims(q, UpdateBeneficiaryParams(q, rules, ratio))
<1>1. PICK limit, amount :
        UpdateBeneficiaryParams(q, rules, ratio) =
          [[q EXCEPT !.rules = rules, !.maxTotalClaim = limit] EXCEPT !.claimAmount = amount]
  BY DEF UpdateBeneficiaryParams, UpdateClaimAmount
<1> QED BY <1>1 DEF CommunityType, SameClaims

LEMMA ChangeStateSameClaims ==
  ASSUME NEW q \in CommunityType, NEW person \in People, NEW state,
         state = "NONE" => q.beneficiaries[person].state = "NONE"
  PROVE  SameClaims(q, ChangeState(q, person, state))
<1>1. q.beneficiaries \in [People -> Beneficiary]
  BY CommunityFields
<1>2. PICK count, limit : ChangeState(q, person, state) =
        [q EXCEPT !.beneficiaries[person].state = state,
                  !.validBeneficiaryCount = count, !.maxTotalClaim = limit]
  BY DEF ChangeState
<1>3. PICK people : people = [q.beneficiaries EXCEPT ![person] = [@ EXCEPT !.state = state]]
  OBVIOUS
<1>4. ChangeState(q, person, state) = [q EXCEPT !.beneficiaries = people,
                  !.validBeneficiaryCount = count, !.maxTotalClaim = limit]
  BY <1>2, <1>3
<1>5. \A p \in People : /\ people[p].claims = q.beneficiaries[p].claims
                        /\ people[p].claimedAmount = q.beneficiaries[p].claimedAmount
                        /\ people[p].lastClaim = q.beneficiaries[p].lastClaim
                        /\ people[p].state = "NONE" => q.beneficiaries[p].state = "NONE"
  BY <1>1, <1>3 DEF Beneficiary
<1> QED BY <1>4, <1>5 DEF SameClaims, CommunityType

-----------------------------------------------------------------------------
(* What the calls of a community do to the claims. *)

LEMMA StartBlock ==
  ASSUME NEW updates \in Seq(Update), NEW i \in 1..Len(updates)
  PROVE  updates[i].startBlock \in Int
<1>1. updates[i] \in Update
  OBVIOUS
<1>2. \A x \in 0..MaxBlock : x \in Int
  BY CommunityAdminAssumption
<1> QED BY <1>1, <1>2 DEF Update

\* Time passes.
LEMMA LaterAgrees ==
  ASSUME NEW q, NEW receipts, NEW b \in Nat, NEW c, NEW apart, Agrees(q, receipts, b, c, apart), q \in CommunityType
  PROVE  Agrees(q, receipts, b + 1, c, apart)
<1>1. q.tokenUpdates \in Seq(Update) /\ q.beneficiaries \in [People -> Beneficiary]
  BY CommunityFields
<1>2. KnownUpdates(q, b) /\ KnownUpdates(q, b + 1)
  <2>1. KnownUpdates(q, b)
    BY DEF Agrees, Recorded
  <2>2. ASSUME NEW i \in 1..Len(q.tokenUpdates), q.tokenUpdates[i].startBlock <= b
        PROVE  q.tokenUpdates[i].startBlock <= b + 1
    BY <1>1, <2>2, StartBlock
  <2> QED BY <2>1, <2>2 DEF KnownUpdates
<1>3. Recorded(q, receipts, b + 1)
  BY <1>1, <1>2 DEF Agrees, Recorded, Beneficiary
<1>4. ASSUME NEW x, NEW last
      PROVE  Converted(q.tokenUpdates, x, last, b + 1) = Converted(q.tokenUpdates, x, last, b)
  <2>1. CASE q.tokenUpdates = <<>>
    BY <2>1 DEF Converted
  <2>2. CASE q.tokenUpdates # <<>>
    <3>1. 2 \in 1..Len(q.tokenUpdates) /\ q.tokenUpdates[2].startBlock <= b
      BY <1>1, <1>2, <2>2 DEF KnownUpdates
    <3>2. PICK s \in Int : s = q.tokenUpdates[2].startBlock
      BY <1>1, <3>1, StartBlock
    <3>3. s <= b /\ s <= b + 1
      BY <3>1, <3>2
    <3> QED BY <3>2, <3>3 DEF Converted
  <2> QED BY <2>1, <2>2
<1>5. Counted(q, receipts, b) => Counted(q, receipts, b + 1)
  BY <1>4 DEF Counted
<1> QED BY <1>3, <1>5 DEF Agrees

\* What an entry of a person tells fits the receipts.
EntryFits(q, b, c, apart, entry, receipt) ==
  /\ receipt.claims = entry.claims /\ receipt.last <= entry.lastClaim /\ entry.lastClaim <= b
  /\ c \notin apart /\ Plain(q) =>
       /\ receipt.amount <= Converted(q.tokenUpdates, entry.claimedAmount, entry.lastClaim, b)
       /\ entry.state = "NONE" => entry.claimedAmount = 0

LEMMA EntryAgrees ==
  ASSUME NEW q \in CommunityType, NEW receipts \in [People -> Receipts], NEW b, NEW c, NEW apart,
         Agrees(q, receipts, b, c, apart), NEW apart2, apart \subseteq apart2,
         NEW person \in People, NEW entry \in Beneficiary, NEW receipt \in Receipts,
         EntryFits(q, b, c, apart2, entry, receipt)
  PROVE  Agrees([q EXCEPT !.beneficiaries[person] = entry], [receipts EXCEPT ![person] = receipt], b, c, apart2)
<1> DEFINE r == [q EXCEPT !.beneficiaries[person] = entry]
           received == [receipts EXCEPT ![person] = receipt]
<1>1. /\ r.tokenUpdates = q.tokenUpdates /\ r.copyOf = q.copyOf
      /\ r.beneficiaries = [q.beneficiaries EXCEPT ![person] = entry]
  BY DEF CommunityType
<1>2. \A p \in People : /\ r.beneficiaries[p] = IF p = person THEN entry ELSE q.beneficiaries[p]
                        /\ received[p] = IF p = person THEN receipt ELSE receipts[p]
  BY <1>1, CommunityFields
<1> HIDE DEF r, received
<1>3. Recorded(r, received, b)
  BY <1>1, <1>2 DEF Agrees, Recorded, KnownUpdates, EntryFits
<1>4. Plain(r) => Plain(q)
  BY <1>1 DEF Plain
<1>5. ASSUME c \notin apart2, Plain(r) PROVE Counted(r, received, b)
  <2>1. Counted(q, receipts, b) /\ Plain(q)
    BY <1>4, <1>5 DEF Agrees
  <2> QED BY <1>1, <1>2, <1>4, <1>5, <2>1 DEF Counted, EntryFits
<1> QED BY <1>3, <1>5 DEF Agrees, r, received

LEMMA OneReceipt ==
  ASSUME NEW receipts \in [People -> Receipts], NEW p \in People
  PROVE  [receipts EXCEPT ![p] = receipts[p]] = receipts /\ receipts[p] \in Receipts
OBVIOUS

\* Who is added has not claimed: the date of the last claim may move.
LEMMA AddAgrees ==
  ASSUME NEW q \in CommunityType, Sound(q), NEW person \in People, NEW b \in 0..MaxBlock, CanAdd(q, person),
         NEW receipts \in [People -> Receipts], NEW c, NEW apart, Agrees(q, receipts, b, c, apart)
  PROVE  Agrees(Add(q, person, b), receipts, b, c, apart)
<1> DEFINE r == ChangeState(q, person, "Valid")
           entry == [r.beneficiaries[person] EXCEPT !.lastClaim = b]
<1>1. r \in CommunityType /\ SameClaims(q, r)
  BY ChangeStateTyped, ChangeStateSameClaims DEF CanAdd, BeneficiaryStates
<1>2. Agrees(r, receipts, b, c, apart)
  BY <1>1, SameClaimsAgree
<1>3. r.beneficiaries[person].state = "Valid" /\ q.beneficiaries[person].state = "NONE"
  BY ChangeStateSound DEF CanAdd
<1>4. Add(q, person, b) = [r EXCEPT !.beneficiaries[person].lastClaim = b]
  BY DEF Add
<1> HIDE DEF r
<1>5. PICK old \in Beneficiary : old = r.beneficiaries[person]
  BY <1>1, CommunityFields
<1>6. /\ entry \in Beneficiary /\ entry.claims = old.claims /\ entry.claimedAmount = old.claimedAmount
      /\ entry.lastClaim = b /\ entry.state = "Valid"
  BY <1>3, <1>5 DEF Beneficiary
<1>7. Add(q, person, b) = [r EXCEPT !.beneficiaries[person] = entry]
  BY <1>4
<1> HIDE DEF entry
<1>8. receipts[person] \in Receipts /\ receipts[person].claims = old.claims /\ receipts[person].last <= b
  <2>1. receipts[person] \in Receipts /\ receipts[person].claims = old.claims
        /\ receipts[person].last <= old.lastClaim /\ old.lastClaim <= b
    BY <1>2, <1>5 DEF Agrees, Recorded
  <2>2. receipts[person].last \in Int /\ old.lastClaim \in Int
    BY <2>1 DEF Receipts, Beneficiary
  <2> QED BY <2>1, <2>2
<1>9. ASSUME c \notin apart, Plain(r)
      PROVE  receipts[person].amount <= Converted(r.tokenUpdates, entry.claimedAmount, entry.lastClaim, b)
  <2>1. old.claimedAmount = 0 /\ Plain(q)
    BY <1>1, <1>3, <1>5, <1>9 DEF Agrees, Counted, SameClaims, Plain
  <2>2. receipts[person].amount <= Converted(r.tokenUpdates, 0, old.lastClaim, b)
    BY <1>2, <1>5, <1>9, <2>1 DEF Agrees, Counted
  <2>3. \A last : Converted(r.tokenUpdates, 0, last, b) = 0
    <3>1. r.tokenUpdates \in Seq(Update) /\ (r.tokenUpdates = <<>> \/ Len(r.tokenUpdates) >= 2)
      BY <1>1, <1>2, CommunityFields DEF Agrees, Recorded, KnownUpdates
    <3> QED BY <3>1, NothingConverted
  <2> QED BY <1>6, <2>1, <2>2, <2>3
<1>10. Agrees([r EXCEPT !.beneficiaries[person] = entry], [receipts EXCEPT ![person] = receipts[person]], b, c, apart)
  <2>1. EntryFits(r, b, c, apart, entry, receipts[person])
    BY <1>6, <1>8, <1>9 DEF EntryFits
  <2> QED BY ONLY receipts \in [People -> Receipts], person \in People, <1>1, <1>2, <1>6, <1>8, <2>1, EntryAgrees
<1> QED BY <1>7, <1>10, OneReceipt

LEMMA ClaimAgrees ==
  ASSUME NEW q \in CommunityType, NEW person \in People, NEW b \in 0..MaxBlock, CanClaim(q, person, b),
         NEW receipts \in [People -> Receipts], NEW c, NEW apart, Agrees(q, receipts, b, c, apart)
  PROVE  LET receipt == [claims |-> receipts[person].claims + 1, last |-> b,
                         amount |-> receipts[person].amount + ToClaim(q, person, b)]
         IN Agrees(Claim(q, person, b), [receipts EXCEPT ![person] = receipt], b, c, apart)
<1> DEFINE pay == ToClaim(q, person, b)
           claimed == ClaimedAmount(q, person, b) + pay
           receipt == [claims |-> receipts[person].claims + 1, last |-> b, amount |-> receipts[person].amount + pay]
           r == [q EXCEPT !.balance = q.balance - pay]
           entry == [q.beneficiaries[person] EXCEPT !.claims = @ + 1, !.lastClaim = b, !.claimedAmount = claimed]
<1>1. pay \in Nat /\ claimed \in Nat /\ ClaimedAmount(q, person, b) \in Nat /\ q.balance - pay \in Nat
  BY PayInBalance, AmountNat, CommunityFields
<1>2. Claim(q, person, b) = [q EXCEPT !.balance = @ - pay, !.beneficiaries[person] = entry]
  BY DEF Claim
<1>3. q.beneficiaries[person].state = "Valid"
  BY DEF CanClaim
<1>4. claimed = ClaimedAmount(q, person, b) + pay
  OBVIOUS
<1> HIDE DEF pay, claimed
<1>5. Claim(q, person, b) = [r EXCEPT !.beneficiaries[person] = entry]
  <2>1. PICK people : people = [q.beneficiaries EXCEPT ![person] = entry]
    OBVIOUS
  <2>2. Claim(q, person, b) = [q EXCEPT !.balance = q.balance - pay, !.beneficiaries = people]
    BY <1>2, <2>1
  <2>3. [r EXCEPT !.beneficiaries[person] = entry] = [r EXCEPT !.beneficiaries = people]
    BY <2>1 DEF CommunityType
  <2> HIDE DEF entry
  <2>4. [q EXCEPT !.balance = q.balance - pay, !.beneficiaries = people] = [r EXCEPT !.beneficiaries = people]
    OBVIOUS
  <2> QED BY <2>2, <2>3, <2>4
<1>6. r \in CommunityType /\ SameClaims(q, r)
  BY <1>1, FieldTyped, FieldSameClaims
<1> HIDE DEF r
<1>7. Agrees(r, receipts, b, c, apart)
  BY <1>6, SameClaimsAgree
<1>8. PICK old \in Beneficiary, a \in Receipts : old = q.beneficiaries[person] /\ a = receipts[person]
  BY CommunityFields
<1>9. old.claims + 1 \in Nat
  BY DEF Beneficiary
<1>10. /\ entry \in Beneficiary /\ entry.claims = old.claims + 1 /\ entry.claimedAmount = claimed
       /\ entry.lastClaim = b /\ entry.state = "Valid"
  BY <1>1, <1>3, <1>8, <1>9 DEF Beneficiary
<1> HIDE DEF entry
<1>11. /\ receipt \in Receipts /\ receipt.claims = a.claims + 1 /\ receipt.last = b /\ receipt.amount = a.amount + pay
  BY <1>1, <1>8 DEF Receipts
<1> HIDE DEF receipt
<1>12. a.claims = old.claims
  BY <1>8 DEF Agrees, Recorded
<1>13. ASSUME c \notin apart, Plain(r)
       PROVE  receipt.amount <= Converted(r.tokenUpdates, entry.claimedAmount, entry.lastClaim, b)
  <2>1. Plain(q) /\ KnownUpdates(q, b) /\ Counted(q, receipts, b)
    BY <1>6, <1>13 DEF SameClaims, Plain, Agrees, Recorded
  <2>2. a.amount <= ClaimedAmount(q, person, b)
    BY <1>8, <2>1, ConvertedIs DEF Counted
  <2>3. a.amount + pay <= claimed
    BY <1>1, <1>4, <2>2 DEF Receipts
  <2>4. Converted(r.tokenUpdates, claimed, b, b) = claimed
    <3>1. r.tokenUpdates \in Seq(Update) /\ (r.tokenUpdates = <<>> \/ Len(r.tokenUpdates) >= 2)
      BY <1>6, <1>7, CommunityFields DEF Agrees, Recorded, KnownUpdates
    <3>2. r.tokenUpdates # <<>> => 2 \in 1..Len(r.tokenUpdates)
      BY <3>1
    <3>3. r.tokenUpdates # <<>> => r.tokenUpdates[2].startBlock \in Int
      BY <3>1, <3>2, StartBlock
    <3> QED BY <3>3 DEF Converted
  <2> QED BY <1>10, <1>11, <2>3, <2>4
<1>14. Agrees([r EXCEPT !.beneficiaries[person] = entry], [receipts EXCEPT ![person] = receipt], b, c, apart)
  <2>1. EntryFits(r, b, c, apart, entry, receipt)
    BY <1>10, <1>11, <1>12, <1>13 DEF EntryFits
  <2> QED BY ONLY receipts \in [People -> Receipts], person \in People, <1>6, <1>7, <1>10, <1>11, <2>1, EntryAgrees
<1> QED BY <1>5, <1>14 DEF receipt, pay

-----------------------------------------------------------------------------
(* Two addresses become one. *)

\* What was claimed of two entries, told at the later of their last claims, is worth no
\* less after it.
LEMMA SumConverted ==
  ASSUME NEW updates \in Seq(Update), updates = <<>> \/ Len(updates) >= 2,
         NEW b \in Int, \A i \in 1..Len(updates) : updates[i].startBlock <= b,
         NEW x \in Nat, NEW y \in Nat, NEW u \in Int, NEW v \in Int, NEW last \in Int,
         u <= last, v <= last, last <= b
  PROVE  Converted(updates, x, u, b) + Converted(updates, y, v, b)
           <= Converted(updates, Converted(updates, x, u, last) + Converted(updates, y, v, last), last, b)
<1>1. CASE updates = <<>>
  BY <1>1 DEF Converted
<1>2. CASE updates # <<>>
  <2>1. 2 \in 1..Len(updates) /\ updates[2] \in Update
    BY <1>2
  <2>2. PICK s \in Int : s = updates[2].startBlock /\ s <= b
    BY <2>1, StartBlock
  <2>3. PICK ratio \in Nat : ratio = updates[2].ratio
    BY <2>1 DEF Update
  <2>4. \A z, w, upTo : /\ w < s /\ s <= upTo => Converted(updates, z, w, upTo) = (z * ratio) \div Unit
                        /\ ~(w < s /\ s <= upTo) => Converted(updates, z, w, upTo) = z
    BY <1>2, <2>2, <2>3 DEF Converted
  <2>5. PICK i \in Nat, j \in Nat, k \in Nat :
          i = (x * ratio) \div Unit /\ j = (y * ratio) \div Unit /\ k = ((x + y) * ratio) \div Unit /\ i + j <= k
    <3>1. (x * ratio) \div Unit \in Nat /\ (y * ratio) \div Unit \in Nat /\ ((x + y) * ratio) \div Unit \in Nat
      <4>1. x + y \in Nat
        OBVIOUS
      <4> QED BY <4>1, ConversionNat
    <3> QED BY <3>1, FloorsAdd
  <2>6. CASE last < s
    <3>1. /\ Converted(updates, x, u, last) = x /\ Converted(updates, y, v, last) = y
          /\ Converted(updates, x, u, b) = i /\ Converted(updates, y, v, b) = j
          /\ Converted(updates, x + y, last, b) = k
      <4>1. u < s /\ v < s /\ ~(s <= last) /\ s <= b
        BY <2>2, <2>6
      <4>2. Converted(updates, x, u, last) = x /\ Converted(updates, y, v, last) = y
        BY ONLY <2>4, <4>1
      <4>3. Converted(updates, x, u, b) = i /\ Converted(updates, y, v, b) = j
        BY ONLY <2>4, <2>5, <4>1
      <4>4. Converted(updates, x + y, last, b) = k
        BY ONLY <2>4, <2>5, <2>6, <4>1
      <4> QED BY <4>2, <4>3, <4>4
    <3> QED BY <2>5, <3>1
  <2>7. CASE ~(last < s)
    <3>1. s <= last
      BY <2>2, <2>7
    <3>2. Converted(updates, x, u, last) = Converted(updates, x, u, b)
          /\ Converted(updates, y, v, last) = Converted(updates, y, v, b)
      BY <2>2, <2>4, <3>1
    <3>3. \A z : Converted(updates, z, last, b) = z
      BY <2>4, <2>7
    <3>4. Converted(updates, x, u, b) \in Nat /\ Converted(updates, y, v, b) \in Nat
      BY ConvertedNat
    <3> QED BY <3>2, <3>3, <3>4
  <2> QED BY <2>6, <2>7
<1> QED BY <1>1, <1>2

LEMMA ChangeAddressAgrees ==
  ASSUME NEW q \in CommunityType, Sound(q), NEW old \in People, NEW new \in People, NEW b \in 0..MaxBlock,
         CanChangeAddress(q, old, new),
         NEW receipts \in [People -> Receipts], NEW c, NEW apart, Agrees(q, receipts, b, c, apart)
  PROVE  LET f == receipts[old]
             g == receipts[new]
             receipt == [claims |-> f.claims + g.claims, last |-> Latest(f.last, g.last),
                         amount |-> f.amount + g.amount]
         IN Agrees(ChangeAddress(q, old, new), [receipts EXCEPT ![new] = receipt], b, c, apart)
<1> DEFINE q1 == IF q.beneficiaries[new].state = "NONE"
                 THEN ChangeState(q, new, q.beneficiaries[old].state) ELSE q
           q2 == ChangeState(q1, old, "AddressChanged")
           last == IF q2.beneficiaries[new].lastClaim > q2.beneficiaries[old].lastClaim
                   THEN q2.beneficiaries[new].lastClaim ELSE q2.beneficiaries[old].lastClaim
           entry == [state |-> q2.beneficiaries[new].state,
                     claims |-> q2.beneficiaries[new].claims + q2.beneficiaries[old].claims,
                     claimedAmount |-> ClaimedAmount(q2, old, last) + ClaimedAmount(q2, new, last),
                     lastClaim |-> last]
           receipt == [claims |-> receipts[old].claims + receipts[new].claims,
                       last |-> Latest(receipts[old].last, receipts[new].last),
                       amount |-> receipts[old].amount + receipts[new].amount]
<1>1. /\ q.beneficiaries[old].state \in BeneficiaryStates /\ q.beneficiaries[old].state # "NONE" /\ old # new
      /\ q.beneficiaries[new].state = "NONE" => CanChangeState(q, new, q.beneficiaries[old].state)
  BY CommunityFields DEF CanChangeAddress, Beneficiary
<1>2. q1 \in CommunityType /\ Sound(q1) /\ SameClaims(q, q1) /\ q1.beneficiaries[new].state # "NONE"
  <2>1. CASE q.beneficiaries[new].state = "NONE"
    BY <1>1, <2>1, ChangeStateTyped, ChangeStateSound, ChangeStateSameClaims
  <2>2. CASE q.beneficiaries[new].state # "NONE"
    BY <2>2 DEF SameClaims
  <2> QED BY <2>1, <2>2
<1> HIDE DEF q1
<1>3. /\ q2 \in CommunityType /\ SameClaims(q1, q2)
      /\ q2.beneficiaries[new].state # "NONE"
  <2>1. CanChangeState(q1, old, "AddressChanged") /\ "AddressChanged" \in BeneficiaryStates
    BY DEF CanChangeState, BeneficiaryStates
  <2>2. q2.beneficiaries[new] = q1.beneficiaries[new]
    BY <1>1, <1>2, <2>1, ChangeStateSound
  <2> QED BY <1>2, <2>1, <2>2, ChangeStateTyped, ChangeStateSameClaims
<1>4. ChangeAddress(q, old, new) = [q2 EXCEPT !.beneficiaries[new] = entry]
  BY DEF ChangeAddress, q1
<1> HIDE DEF q2
<1>5. Agrees(q2, receipts, b, c, apart)
  BY <1>2, <1>3, SameClaimsAgree
<1>6. PICK o \in Beneficiary, n \in Beneficiary, f \in Receipts, g \in Receipts :
        /\ o = q2.beneficiaries[old] /\ n = q2.beneficiaries[new]
        /\ f = receipts[old] /\ g = receipts[new]
  BY <1>3, CommunityFields
<1>7. PICK x \in Nat, y \in Nat : x = ClaimedAmount(q2, old, last) /\ y = ClaimedAmount(q2, new, last)
  BY <1>3, AmountNat
<1>8. /\ o.claims \in Nat /\ n.claims \in Nat /\ o.lastClaim \in 0..MaxBlock /\ n.lastClaim \in 0..MaxBlock
      /\ o.claimedAmount \in Nat /\ n.claimedAmount \in Nat /\ n.state \in BeneficiaryStates
      /\ f.claims \in Nat /\ g.claims \in Nat /\ f.last \in 0..MaxBlock /\ g.last \in 0..MaxBlock
      /\ f.amount \in Nat /\ g.amount \in Nat
  BY DEF Beneficiary, Receipts
<1>9. PICK l \in 0..MaxBlock : l = last /\ o.lastClaim <= l /\ n.lastClaim <= l /\ (l = o.lastClaim \/ l = n.lastClaim)
  BY <1>6, <1>8
<1> HIDE DEF last
<1>10. /\ entry \in Beneficiary /\ entry.claims = n.claims + o.claims /\ entry.claimedAmount = x + y
       /\ entry.lastClaim = l /\ entry.state # "NONE"
  BY <1>3, <1>6, <1>7, <1>8, <1>9 DEF Beneficiary
<1> HIDE DEF entry
<1>11. Latest(f.last, g.last) \in 0..MaxBlock /\ (Latest(f.last, g.last) = f.last \/ Latest(f.last, g.last) = g.last)
  BY <1>8 DEF Latest
<1>12. /\ receipt \in Receipts /\ receipt.claims = f.claims + g.claims
       /\ receipt.last = Latest(f.last, g.last) /\ receipt.amount = f.amount + g.amount
  BY <1>6, <1>8, <1>11 DEF Receipts
<1> HIDE DEF receipt
<1>13. /\ KnownUpdates(q2, b)
       /\ f.claims = o.claims /\ f.last <= o.lastClaim /\ o.lastClaim <= b
       /\ g.claims = n.claims /\ g.last <= n.lastClaim /\ n.lastClaim <= b
  BY <1>5, <1>6 DEF Agrees, Recorded
<1>14. receipt.claims = entry.claims /\ receipt.last <= entry.lastClaim /\ entry.lastClaim <= b
  BY <1>8, <1>9, <1>10, <1>11, <1>12, <1>13
<1>15. ASSUME c \notin apart, Plain(q2)
       PROVE  receipt.amount <= Converted(q2.tokenUpdates, entry.claimedAmount, entry.lastClaim, b)
  <2>1. x = Converted(q2.tokenUpdates, o.claimedAmount, o.lastClaim, l)
        /\ y = Converted(q2.tokenUpdates, n.claimedAmount, n.lastClaim, l)
    BY <1>3, <1>6, <1>7, <1>9, <1>13, <1>15, ConvertedIs
  <2>2. f.amount <= Converted(q2.tokenUpdates, o.claimedAmount, o.lastClaim, b)
        /\ g.amount <= Converted(q2.tokenUpdates, n.claimedAmount, n.lastClaim, b)
    BY <1>5, <1>6, <1>15 DEF Agrees, Counted
  <2>3. /\ q2.tokenUpdates \in Seq(Update) /\ (q2.tokenUpdates = <<>> \/ Len(q2.tokenUpdates) >= 2)
        /\ \A i \in 1..Len(q2.tokenUpdates) : q2.tokenUpdates[i].startBlock <= b
    BY <1>3, <1>13, CommunityFields DEF KnownUpdates
  <2>4. l <= b /\ b \in Int /\ l \in Int /\ o.lastClaim \in Int /\ n.lastClaim \in Int
    BY <1>8, <1>9, <1>13
  <2>5. Converted(q2.tokenUpdates, o.claimedAmount, o.lastClaim, b)
          + Converted(q2.tokenUpdates, n.claimedAmount, n.lastClaim, b)
          <= Converted(q2.tokenUpdates, x + y, l, b)
    BY <1>8, <1>9, <2>1, <2>3, <2>4, SumConverted
  <2>6. PICK i \in Nat, j \in Nat, k \in Nat :
          /\ i = Converted(q2.tokenUpdates, o.claimedAmount, o.lastClaim, b)
          /\ j = Converted(q2.tokenUpdates, n.claimedAmount, n.lastClaim, b)
          /\ k = Converted(q2.tokenUpdates, x + y, l, b)
    <3>1. x + y \in Nat
      OBVIOUS
    <3> QED BY <1>8, <2>3, <3>1, ConvertedNat
  <2>7. f.amount + g.amount <= k
    BY <1>8, <2>2, <2>5, <2>6
  <2> QED BY <1>10, <1>12, <2>6, <2>7
<1>16. EntryFits(q2, b, c, apart, entry, receipt)
  BY <1>10, <1>14, <1>15 DEF EntryFits
<1>17. Agrees([q2 EXCEPT !.beneficiaries[new] = entry], [receipts EXCEPT ![new] = receipt], b, c, apart)
  BY ONLY receipts \in [People -> Receipts], new \in People, <1>3, <1>5, <1>10, <1>12, <1>16, EntryAgrees
<1> QED BY <1>4, <1>17 DEF receipt

-----------------------------------------------------------------------------
(* Communities and people arrive, and tokens change. *)

\* A new community: nobody has claimed.
LEMMA NewAgrees ==
  ASSUME NEW q \in CommunityType, q.beneficiaries = [p \in People |-> NewBeneficiary],
         NEW b \in 0..MaxBlock, KnownUpdates(q, b), NEW c, NEW apart
  PROVE  Agrees(q, [p \in People |-> NothingPaid], b, c, apart)
<1>1. \A p \in People : /\ q.beneficiaries[p].claims = 0 /\ q.beneficiaries[p].claimedAmount = 0
                        /\ q.beneficiaries[p].lastClaim = 0
  BY DEF NewBeneficiary
<1>2. PICK row : row = [p \in People |-> NothingPaid]
  OBVIOUS
<1>3. \A p \in People : row[p].claims = 0 /\ row[p].amount = 0 /\ row[p].last = 0
  BY <1>2 DEF NothingPaid
<1>4. 0 <= 0 /\ 0 <= b
  BY CommunityAdminAssumption
<1>5. Recorded(q, row, b)
  BY <1>1, <1>3, <1>4 DEF Recorded
<1>6. q.tokenUpdates \in Seq(Update) /\ (q.tokenUpdates = <<>> \/ Len(q.tokenUpdates) >= 2)
  BY CommunityFields DEF KnownUpdates
<1>7. Counted(q, row, b)
  BY <1>1, <1>3, <1>4, <1>6, NothingConverted DEF Counted
<1> QED BY <1>2, <1>5, <1>7 DEF Agrees

\* A person comes from a community s, whose books may be compared if those of q may.
LEMMA AdoptAgrees ==
  ASSUME NEW q \in CommunityType, Sound(q), NEW s \in CommunityType, NEW p \in People, NEW b \in 0..MaxBlock,
         NEW told \in Beneficiary, told = [s.beneficiaries[p] EXCEPT !.claimedAmount = ClaimedAmount(s, p, b)],
         CanChangeState(q, p, told.state), q.beneficiaries[p].state = "NONE",
         NEW receipts \in [People -> Receipts], NEW others \in [People -> Receipts],
         NEW c, NEW d, NEW apart, Agrees(q, receipts, b, c, apart), Agrees(s, others, b, d, apart),
         NEW apart2, apart \subseteq apart2,
         c \notin apart2 => d \notin apart /\ Plain(s) /\ q.tokenUpdates = <<>>
  PROVE  Agrees(Adopt(q, p, told), [receipts EXCEPT ![p] = others[p]], b, c, apart2)
<1> DEFINE r == ChangeState(q, p, told.state)
<1>1. told.state \in BeneficiaryStates
  BY DEF Beneficiary
<1>2. r \in CommunityType /\ SameClaims(q, r)
  BY <1>1, ChangeStateTyped, ChangeStateSameClaims
<1>3. Agrees(r, receipts, b, c, apart)
  BY <1>2, SameClaimsAgree
<1>4. Adopt(q, p, told) = [r EXCEPT !.beneficiaries[p] = told]
  BY DEF Adopt
<1> HIDE DEF r
<1>5. PICK old \in Beneficiary, receipt \in Receipts : old = s.beneficiaries[p] /\ receipt = others[p]
  BY CommunityFields
<1>6. PICK x \in Nat : x = ClaimedAmount(s, p, b)
  BY AmountNat
<1>7. told = [old EXCEPT !.claimedAmount = x]
  BY <1>5, <1>6
<1>8. told.claims = old.claims /\ told.lastClaim = old.lastClaim /\ told.state = old.state /\ told.claimedAmount = x
  BY ONLY <1>7, old \in Beneficiary DEF Beneficiary
<1>9. receipt.claims = told.claims /\ receipt.last <= told.lastClaim /\ told.lastClaim <= b
  BY <1>5, <1>8 DEF Agrees, Recorded
<1>10. ASSUME c \notin apart2
       PROVE  /\ receipt.amount <= Converted(r.tokenUpdates, told.claimedAmount, told.lastClaim, b)
              /\ told.state = "NONE" => told.claimedAmount = 0
  <2>1. r.tokenUpdates = <<>> /\ Plain(s) /\ Counted(s, others, b) /\ KnownUpdates(s, b)
    BY <1>2, <1>10 DEF SameClaims, Agrees, Recorded
  <2>2. x = Converted(s.tokenUpdates, old.claimedAmount, old.lastClaim, b)
    BY <1>5, <1>6, <2>1, ConvertedIs
  <2>3. receipt.amount <= x /\ (old.state = "NONE" => old.claimedAmount = 0)
    BY <1>5, <2>1, <2>2 DEF Counted
  <2>4. old.state = "NONE" => x = 0
    <3>1. s.tokenUpdates \in Seq(Update) /\ (s.tokenUpdates = <<>> \/ Len(s.tokenUpdates) >= 2)
      BY <2>1, CommunityFields DEF KnownUpdates
    <3> QED BY <2>2, <2>3, <3>1, NothingConverted
  <2>5. Converted(r.tokenUpdates, told.claimedAmount, told.lastClaim, b) = x
    BY <1>8, <2>1 DEF Converted
  <2> QED BY <1>8, <2>3, <2>4, <2>5
<1>11. EntryFits(r, b, c, apart2, told, receipt)
  BY <1>9, <1>10 DEF EntryFits
<1>12. Agrees([r EXCEPT !.beneficiaries[p] = told], [receipts EXCEPT ![p] = receipt], b, c, apart2)
  BY ONLY receipts \in [People -> Receipts], told \in Beneficiary, p \in People, apart \subseteq apart2,
     <1>2, <1>3, <1>5, <1>11, EntryAgrees
<1> QED BY <1>4, <1>5, <1>12

\* The receipts are converted with the token.
LEMMA UpdateTokenAgrees ==
  ASSUME NEW q \in CommunityType, Sound(q), NEW token \in Tokens, NEW rules \in Rules, NEW swapped \in Nat,
         NEW ratio \in Nat, NEW b \in 0..MaxBlock, CanUpdateToken(q, token, rules),
         NEW receipts \in [People -> Receipts], NEW row,
         \A p \in People : /\ row[p].claims = receipts[p].claims /\ row[p].last = receipts[p].last
                           /\ row[p].amount = (receipts[p].amount * ConversionRatio(q, rules)) \div Unit,
         NEW c, NEW apart, Agrees(q, receipts, b, c, apart), NEW apart2, apart \subseteq apart2,
         c \notin apart2 =>
           \A p \in People : q.beneficiaries[p].lastClaim = b => ~(q.beneficiaries[p].claimedAmount > 0)
  PROVE  Agrees(UpdateToken(q, token, rules, swapped, ratio, b), row, b, c, apart2)
<1> DEFINE updates == WithTokenUpdate(q, rules, b)
           r == Exchanged(q, token, rules, swapped, b)
           new == UpdateToken(q, token, rules, swapped, ratio, b)
<1>1. r \in CommunityType /\ SameClaims(r, new)
  BY TokenChanged, UpdateBeneficiaryParamsSameClaims
<1>2. r.tokenUpdates = updates /\ r.beneficiaries = q.beneficiaries /\ r.copyOf = q.copyOf
  BY DEF CommunityType, Exchanged
<1>3. KnownUpdates(q, b) /\ q.tokenUpdates \in Seq(Update) /\ b \in Int /\ 0 <= b /\ b <= b
  BY CommunityFields, CommunityAdminAssumption DEF Agrees, Recorded
<1>4. PICK factor \in Nat : factor = ConversionRatio(q, rules)
  BY ConversionRatioNat DEF CanUpdateToken
<1> HIDE DEF r, new, updates
<1>5. PICK first, more : /\ first = [ratio |-> Unit, startBlock |-> 0]
                         /\ more = [ratio |-> factor, startBlock |-> b]
  OBVIOUS
<1>6. first.startBlock = 0 /\ more.startBlock = b /\ more.ratio = factor
  BY <1>5
<1>7. CASE q.tokenUpdates = <<>>
  <2>1. updates = <<first>> \o <<more>>
    BY <1>4, <1>5, <1>7 DEF updates, WithTokenUpdate
  <2>2. Len(updates) = 2 /\ updates[1].startBlock = 0 /\ updates[2].startBlock = b /\ updates[2].ratio = factor
    BY <1>6, <2>1
  <2>3. KnownUpdates(r, b)
    <3>1. \A i \in 1..2 : i = 1 \/ i = 2
      OBVIOUS
    <3> QED BY <1>2, <1>3, <2>2, <3>1 DEF KnownUpdates
  <2>4. Recorded(r, row, b)
    BY <1>2, <2>3 DEF Agrees, Recorded
  <2>5. ASSUME c \notin apart2, Plain(r) PROVE Counted(r, row, b)
    <3>1. c \notin apart /\ Plain(q)
      <4>1. q.copyOf = NoCommunity
        BY <1>2, <2>2, <2>5 DEF Plain
      <4>2. Len(q.tokenUpdates) = 0
        BY <1>7
      <4> QED BY <2>5, <4>1, <4>2 DEF Plain
    <3>2. ASSUME NEW p \in People
          PROVE  /\ row[p].amount <= Converted(updates, q.beneficiaries[p].claimedAmount, q.beneficiaries[p].lastClaim, b)
                 /\ q.beneficiaries[p].state = "NONE" => q.beneficiaries[p].claimedAmount = 0
      <4>1. PICK e \in Beneficiary, a \in Receipts : e = q.beneficiaries[p] /\ a = receipts[p]
        BY CommunityFields
      <4>2. /\ a.amount <= e.claimedAmount /\ (e.state = "NONE" => e.claimedAmount = 0) /\ e.lastClaim <= b
        BY <1>7, <3>1, <4>1 DEF Agrees, Recorded, Counted, Converted
      <4>3. PICK x \in Nat, y \in Nat, last \in Int : x = a.amount /\ y = e.claimedAmount /\ last = e.lastClaim
        BY CommunityAdminAssumption DEF Beneficiary, Receipts
      <4>4. row[p].amount = (x * factor) \div Unit
        BY <1>4, <4>1, <4>3
      <4>5. PICK i \in Nat, j \in Nat : i = (x * factor) \div Unit /\ j = (y * factor) \div Unit /\ i <= j
        BY <4>2, <4>3, ConversionNat, FloorGrows
      <4>6. CASE last < b
        <5>1. Converted(updates, y, last, b) = j
          BY <1>3, <2>1, <2>2, <4>5, <4>6 DEF Converted
        <5> QED BY <4>1, <4>2, <4>3, <4>4, <4>5, <5>1
      <4>7. CASE ~(last < b)
        <5>1. Converted(updates, y, last, b) = y
          BY <2>2, <4>7 DEF Converted
        <5>2. last = b
          BY <1>3, <4>2, <4>3, <4>7
        <5>3. y = 0
          <6>1. ~(q.beneficiaries[p].claimedAmount > 0)
            BY <2>5, <4>1, <4>3, <5>2
          <6> QED BY <4>1, <4>3, <6>1
        <5>4. x = 0
          BY <4>2, <4>3, <5>3
        <5>5. \A z \in Nat : (0 * z) \div Unit = 0
          BY CommunityAssumption
        <5>6. i = 0
          BY <4>5, <5>4, <5>5
        <5> QED BY <4>1, <4>2, <4>3, <4>4, <4>5, <5>1, <5>3, <5>6
      <4> QED BY <4>6, <4>7
    <3> QED BY <1>2, <3>2 DEF Counted
  <2>6. Agrees(r, row, b, c, apart2)
    BY <2>4, <2>5 DEF Agrees
  <2> QED BY <1>1, <2>6, SameClaimsAgree DEF new
<1>8. CASE q.tokenUpdates # <<>>
  <2>1. updates = q.tokenUpdates \o <<more>>
    BY <1>4, <1>5, <1>8 DEF updates, WithTokenUpdate
  <2>2. PICK n \in Nat : n = Len(q.tokenUpdates) /\ n >= 2
    BY <1>3, <1>8 DEF KnownUpdates
  <2>3. Len(updates) = n + 1 /\ updates[n + 1] = more /\ \A i \in 1..n : updates[i] = q.tokenUpdates[i]
    BY <1>3, <2>1, <2>2
  <2>4. KnownUpdates(r, b)
    <3>1. q.tokenUpdates[1].startBlock = 0 /\ \A i \in 1..n : q.tokenUpdates[i].startBlock <= b
      BY <1>3, <1>8, <2>2 DEF KnownUpdates
    <3>2. 1 \in 1..n /\ \A i \in 1..(n + 1) : i \in 1..n \/ i = n + 1
      BY <2>2
    <3> QED BY <1>2, <1>3, <1>6, <2>2, <2>3, <3>1, <3>2 DEF KnownUpdates
  <2>5. Recorded(r, row, b)
    BY <1>2, <2>4 DEF Agrees, Recorded
  <2>6. ~Plain(r)
    BY <1>2, <2>2, <2>3 DEF Plain
  <2>7. Agrees(r, row, b, c, apart2)
    BY <2>5, <2>6 DEF Agrees
  <2> QED BY <1>1, <2>7, SameClaimsAgree DEF new
<1> QED BY <1>7, <1>8

-----------------------------------------------------------------------------
(* All communities. *)

\* The history agrees with what the communities keep, and it is empty where there is none.
NobodyPaid == [p \in People |-> NothingPaid]
HInv ==
  /\ \A c \in Deployed : Agrees(communities[c], paid[c], block, c, mixed)
  /\ \A c \in Communities \ Deployed : paid[c] = NobodyPaid

LEMMA StateTyped ==
  ASSUME TypeOK
  PROVE  /\ paid \in [Communities -> [People -> Receipts]] /\ block \in 0..MaxBlock
         /\ mixed \subseteq Communities /\ settings \in Settings /\ Ratio \in Nat
<1>1. OthersTyped
  BY Typed
<1>2. 1..MaxBlock \subseteq 0..MaxBlock
  BY CommunityAdminAssumption
<1> QED BY <1>1, <1>2 DEF OthersTyped, Ratio, Settings

LEMMA InitAgrees == Init => HInv
<1> SUFFICES ASSUME Init PROVE HInv
  OBVIOUS
<1>1. Deployed = {}
  BY DEF Init, Deployed
<1> QED BY <1>1 DEF Init, HInv, NobodyPaid

-----------------------------------------------------------------------------
(* Steps of one community, or of a new one. *)

LEMMA OneAgrees ==
  ASSUME TypeOK, IInv, HInv, NEW c \in Deployed, NEW r, NEW row,
         communities' = [communities EXCEPT ![c] = r], paid' = [paid EXCEPT ![c] = row],
         Deployed' = Deployed, block' = block, mixed \subseteq mixed', mixed' \subseteq mixed \cup {c},
         Agrees(r, row, block, c, mixed')
  PROVE  HInv'
<1>1. c \in Communities
  BY DEF Deployed
<1>2. \A d \in Communities : /\ communities'[d] = IF d = c THEN r ELSE communities[d]
                             /\ paid'[d] = IF d = c THEN row ELSE paid[d]
  BY <1>1, StateTyped DEF IInv
<1>3. ASSUME NEW d \in Deployed PROVE Agrees(communities'[d], paid'[d], block, d, mixed')
  <2>1. CASE d = c
    BY <1>1, <1>2, <2>1
  <2>2. CASE d # c
    <3>1. d \in Communities /\ Agrees(communities[d], paid[d], block, d, mixed)
      BY DEF HInv, Deployed
    <3>2. d \in mixed' <=> d \in mixed
      BY <2>2
    <3>3. communities'[d] = communities[d] /\ paid'[d] = paid[d]
      BY <1>2, <2>2, <3>1
    <3> QED BY <3>1, <3>2, <3>3 DEF Agrees
  <2> QED BY <2>1, <2>2
<1>4. ASSUME NEW d \in Communities \ Deployed PROVE paid'[d] = NobodyPaid
  BY <1>2 DEF HInv
<1> QED BY <1>3, <1>4 DEF HInv

\* No claims change anywhere.
LEMMA SameClaimsEverywhere ==
  ASSUME HInv, Deployed' = Deployed, UNCHANGED <<paid, block, mixed>>,
         \A c \in Deployed : SameClaims(communities[c], communities'[c])
  PROVE  HInv'
<1>1. ASSUME NEW c \in Deployed PROVE Agrees(communities'[c], paid[c], block, c, mixed)
  BY SameClaimsAgree DEF HInv
<1> QED BY <1>1 DEF HInv

LEMMA OneSameClaims ==
  ASSUME IInv, HInv, NEW c \in Deployed, NEW r, SameClaims(communities[c], r),
         communities' = [communities EXCEPT ![c] = r], Deployed' = Deployed, UNCHANGED <<paid, block, mixed>>
  PROVE  HInv'
<1>1. ASSUME NEW d \in Deployed PROVE SameClaims(communities[d], communities'[d])
  <2>1. communities'[d] = IF d = c THEN r ELSE communities[d]
    BY DEF IInv, Deployed
  <2>2. SameClaims(communities[d], communities[d])
    BY DEF SameClaims
  <2> QED BY <2>1, <2>2
<1> QED BY <1>1, SameClaimsEverywhere

LEMMA BecomesAgrees ==
  ASSUME IInv, HInv, NEW c \in Deployed, NEW r, SameClaims(communities[c], r), Becomes(c, r)
  PROVE  HInv'
<1>1. Deployed' = Deployed
  BY DEF Becomes, Deployed
<1> QED BY <1>1, OneSameClaims DEF Becomes

\* Claims stay as they are where somebody is, and there is a new community.
LEMMA NewCommunityAgrees ==
  ASSUME TypeOK, HInv, NEW new \in Communities \ Deployed, Deployed' = Deployed \cup {new},
         UNCHANGED <<paid, block, mixed>>,
         communities'[new] \in CommunityType,
         communities'[new].beneficiaries = [p \in People |-> NewBeneficiary],
         KnownUpdates(communities'[new], block),
         \A c \in Deployed : SameClaims(communities[c], communities'[c])
  PROVE  HInv'
<1>1. ASSUME NEW c \in Deployed PROVE Agrees(communities'[c], paid[c], block, c, mixed)
  BY SameClaimsAgree DEF HInv
<1>2. paid[new] = NobodyPaid
  BY DEF HInv
<1>3. Agrees(communities'[new], NobodyPaid, block, new, mixed)
  BY NewAgrees, StateTyped DEF NobodyPaid
<1>4. ASSUME NEW c \in Deployed' PROVE Agrees(communities'[c], paid'[c], block', c, mixed')
  <2>1. CASE c \in Deployed
    BY <1>1, <2>1
  <2>2. CASE c = new
    BY <1>2, <1>3, <2>2
  <2> QED BY <2>1, <2>2
<1>5. NobodyPaid' = NobodyPaid
  BY DEF NobodyPaid
<1>6. \A c \in Communities \ Deployed' : paid'[c] = NobodyPaid
  BY DEF HInv
<1> QED BY <1>4, <1>5, <1>6 DEF HInv

LEMMA BalanceSameClaims ==
  ASSUME NEW q \in CommunityType, NEW v \in Nat, NEW ratio
  PROVE  SameClaims(q, UpdateClaimAmount([q EXCEPT !.balance = v], ratio))
<1>1. PICK r : r = [q EXCEPT !.balance = v] /\ r \in CommunityType /\ SameClaims(q, r)
  BY FieldTyped, FieldSameClaims
<1>2. SameClaims(r, UpdateClaimAmount(r, ratio))
  BY <1>1, UpdateClaimAmountSameClaims
<1> QED BY <1>1, <1>2, SameClaimsTransitive

-----------------------------------------------------------------------------
(* Communities come and go. *)

LEMMA AddCommunityAgrees ==
  ASSUME TypeOK, IInv, HInv, NEW c \in Communities, NEW token \in Tokens, NEW rules \in RulesChoices,
         NEW tranches \in TrancheChoices, NEW maxBeneficiaries \in MaxBeneficiariesChoices,
         AddCommunity(c, token, rules, tranches, maxBeneficiaries)
  PROVE  HInv'
<1> DEFINE q == Initialize(token, Managers, rules, tranches, maxBeneficiaries, NoCommunity)
           first == IF treasury[token] >= tranches.min THEN tranches.min ELSE 0
<1>1. /\ communities' = [communities EXCEPT ![c] = [q EXCEPT !.balance = first]]
      /\ status' = [status EXCEPT ![c] = "Valid"] /\ status[c] = "NONE"
      /\ UNCHANGED <<settings, block, paid, mixed>>
  BY DEF AddCommunity
<1>2. TypeOK'
  BY AddCommunityTyped
<1>3. q.beneficiaries = [p \in People |-> NewBeneficiary] /\ q.tokenUpdates = <<>>
      /\ [q EXCEPT !.balance = first].beneficiaries = q.beneficiaries
      /\ [q EXCEPT !.balance = first].tokenUpdates = q.tokenUpdates
  BY DEF Initialize
<1> HIDE DEF q, first
<1>4. c \notin Deployed /\ Deployed' = Deployed \cup {c}
  BY <1>1 DEF Deployed, IInv
<1>5. communities'[c] = [q EXCEPT !.balance = first] /\ \A d \in Deployed : communities'[d] = communities[d]
  BY <1>1, <1>4 DEF IInv, Deployed
<1>6. communities'[c] \in CommunityType
  BY <1>1, <1>2, <1>4 DEF TypeOK, Deployed
<1>7. \A d \in Deployed : SameClaims(communities[d], communities'[d])
  BY <1>5 DEF SameClaims
<1>8. KnownUpdates(communities'[c], block)
  BY <1>3, <1>5 DEF KnownUpdates
<1>9. communities'[c].beneficiaries = [p \in People |-> NewBeneficiary]
  BY <1>3, <1>5
<1> QED BY <1>1, <1>4, <1>6, <1>7, <1>8, <1>9, NewCommunityAgrees

LEMMA MigrateCommunityAgrees ==
  ASSUME TypeOK, IInv, HInv, NEW old \in Communities, NEW new \in Communities, MigrateCommunity(old, new)
  PROVE  HInv'
<1> DEFINE q == communities[old]
           left == UpdateClaimAmount([q EXCEPT !.balance = 0], Ratio)
           heir == Inherit(q, old)
           r == [heir EXCEPT !.balance = q.balance]
<1>1. /\ communities' = [communities EXCEPT ![old] = left, ![new] = r]
      /\ status' = [status EXCEPT ![old] = "Migrated", ![new] = "Valid"] /\ status[new] = "NONE"
      /\ old \in Deployed /\ UNCHANGED <<treasury, settings, block, paid, mixed>>
  BY DEF MigrateCommunity
<1>2. TypeOK'
  BY MigrateCommunityTyped
<1>3. r.beneficiaries = [p \in People |-> NewBeneficiary] /\ r.tokenUpdates = <<>>
  BY DEF Inherit, Initialize
<1>4. SameClaims(q, left)
  <2>1. q \in CommunityType
    BY <1>1, DeployedTyped
  <2> QED BY <2>1, BalanceSameClaims
<1> HIDE DEF r, left
<1>5. new \notin Deployed /\ Deployed' = Deployed \cup {new} /\ old # new
  BY <1>1 DEF Deployed, IInv
<1>6. communities'[new] = r /\ communities'[old] = left
      /\ \A d \in Deployed \ {old} : communities'[d] = communities[d]
  BY <1>1, <1>5 DEF IInv, Deployed
<1>7. communities'[new] \in CommunityType
  BY <1>2, <1>5 DEF TypeOK, Deployed
<1>8. ASSUME NEW d \in Deployed PROVE SameClaims(communities[d], communities'[d])
  <2>1. CASE d = old
    BY <1>4, <1>6, <2>1
  <2>2. CASE d # old
    BY <1>6, <2>2 DEF SameClaims
  <2> QED BY <2>1, <2>2
<1>9. KnownUpdates(communities'[new], block)
  BY <1>3, <1>6 DEF KnownUpdates
<1>10. communities'[new].beneficiaries = [p \in People |-> NewBeneficiary]
  BY <1>3, <1>6
<1> QED BY <1>1, <1>5, <1>7, <1>8, <1>9, <1>10, NewCommunityAgrees

LEMMA SplitCommunityAgrees ==
  ASSUME TypeOK, IInv, HInv, NEW old \in Communities, NEW new \in Communities, SplitCommunity(old, new)
  PROVE  HInv'
<1> DEFINE q == communities[old]
           parent == [q EXCEPT !.copies = @ \cup {new}]
           heir == Inherit(q, NoCommunity)
           r == [heir EXCEPT !.copyOf = old, !.tokenUpdates = q.tokenUpdates]
<1>1. /\ communities' = [communities EXCEPT ![old] = parent, ![new] = r]
      /\ status' = [status EXCEPT ![new] = "Valid"] /\ status[new] = "NONE"
      /\ old \in Deployed /\ UNCHANGED <<treasury, settings, block, paid, mixed>>
  BY DEF SplitCommunity, Deployed
<1>2. TypeOK'
  BY SplitCommunityTyped
<1>3. r.beneficiaries = [p \in People |-> NewBeneficiary] /\ r.tokenUpdates = q.tokenUpdates
  BY DEF Inherit, Initialize
<1>4. SameClaims(q, parent)
  <2>1. q \in CommunityType
    BY <1>1, DeployedTyped
  <2> QED BY <2>1, FieldSameClaims
<1> HIDE DEF r, parent
<1>5. new \notin Deployed /\ Deployed' = Deployed \cup {new} /\ old # new
  BY <1>1 DEF Deployed, IInv
<1>6. communities'[new] = r /\ communities'[old] = parent
      /\ \A d \in Deployed \ {old} : communities'[d] = communities[d]
  BY <1>1, <1>5 DEF IInv, Deployed
<1>7. communities'[new] \in CommunityType
  BY <1>2, <1>5 DEF TypeOK, Deployed
<1>8. ASSUME NEW d \in Deployed PROVE SameClaims(communities[d], communities'[d])
  <2>1. CASE d = old
    BY <1>4, <1>6, <2>1
  <2>2. CASE d # old
    BY <1>6, <2>2 DEF SameClaims
  <2> QED BY <2>1, <2>2
<1>9. KnownUpdates(communities'[new], block)
  <2>1. KnownUpdates(q, block)
    BY <1>1 DEF HInv, Agrees, Recorded
  <2> QED BY <1>3, <1>6, <2>1 DEF KnownUpdates
<1>10. communities'[new].beneficiaries = [p \in People |-> NewBeneficiary]
  BY <1>3, <1>6
<1> QED BY <1>1, <1>5, <1>7, <1>8, <1>9, <1>10, NewCommunityAgrees

LEMMA RemoveCommunityAgrees ==
  ASSUME TypeOK, IInv, HInv, NEW c \in Communities, RemoveCommunity(c)
  PROVE  HInv'
<1> DEFINE q == communities[c]
           r == UpdateClaimAmount([q EXCEPT !.balance = 0], Ratio)
<1>1. /\ communities' = [communities EXCEPT ![c] = r] /\ status' = [status EXCEPT ![c] = "Removed"]
      /\ c \in Deployed /\ UNCHANGED <<settings, block, paid, mixed>>
  BY DEF RemoveCommunity, Deployed
<1>2. SameClaims(q, r)
  <2>1. q \in CommunityType
    BY <1>1, DeployedTyped
  <2> QED BY <2>1, BalanceSameClaims
<1> HIDE DEF r
<1>3. Deployed' = Deployed
  BY <1>1 DEF Deployed, IInv
<1> QED BY <1>1, <1>2, <1>3, OneSameClaims

-----------------------------------------------------------------------------
(* Parameters. *)

LEMMA SetBeneficiaryParamsAgrees ==
  ASSUME TypeOK, IInv, HInv, NEW c \in Communities, NEW rules \in RulesChoices,
         NEW maxBeneficiaries \in MaxBeneficiariesChoices, SetBeneficiaryParams(c, rules, maxBeneficiaries)
  PROVE  HInv'
<1> DEFINE q == communities[c]
           r == UpdateBeneficiaryParams(q, rules, Ratio)
<1>1. /\ c \in Deployed /\ CanUpdateBeneficiaryParams(q, rules)
      /\ Becomes(c, [r EXCEPT !.maxBeneficiaries = maxBeneficiaries])
  BY DEF SetBeneficiaryParams
<1>2. rules \in Rules /\ q \in CommunityType /\ Sound(q) /\ Ratio \in Nat
  BY <1>1, DeployedTyped, CommunityAdminAssumption
<1>3. r \in CommunityType /\ SameClaims(q, r)
  BY <1>1, <1>2, UpdateBeneficiaryParamsTyped, UpdateBeneficiaryParamsSameClaims
<1> HIDE DEF r
<1>4. SameClaims(q, [r EXCEPT !.maxBeneficiaries = maxBeneficiaries])
  BY <1>3, FieldSameClaims, SameClaimsTransitive
<1> QED BY <1>1, <1>4, BecomesAgrees

LEMMA OtherParamsAgree ==
  ASSUME TypeOK, IInv, HInv, NEW c \in Communities, NEW x,
         SetCommunityParams(c, x) \/ UpdateMaxBeneficiaries(c, x) \/ SetLocked(c, x)
         \/ AddManager(c, x) \/ RemoveManager(c, x)
  PROVE  HInv'
<1>1. PICK r : Becomes(c, r) /\ c \in Deployed /\ SameClaims(communities[c], r)
  <2>1. c \in Deployed
    BY DEF SetCommunityParams, UpdateMaxBeneficiaries, SetLocked, AddManager, RemoveManager
  <2>2. communities[c] \in CommunityType
    BY <2>1, DeployedTyped
  <2>3. CASE SetCommunityParams(c, x)
    BY <2>1, <2>2, <2>3, FieldSameClaims DEF SetCommunityParams
  <2>4. CASE UpdateMaxBeneficiaries(c, x)
    BY <2>1, <2>2, <2>4, FieldSameClaims DEF UpdateMaxBeneficiaries
  <2>5. CASE SetLocked(c, x)
    BY <2>1, <2>2, <2>5, FieldSameClaims DEF SetLocked
  <2>6. CASE AddManager(c, x)
    <3>1. Becomes(c, [communities[c] EXCEPT !.managers = communities[c].managers \cup {x}])
      BY <2>6 DEF AddManager
    <3> QED BY <2>1, <2>2, <3>1, FieldSameClaims
  <2>7. CASE RemoveManager(c, x)
    <3>1. Becomes(c, [communities[c] EXCEPT !.managers = communities[c].managers \ {x}])
      BY <2>7 DEF RemoveManager
    <3> QED BY <2>1, <2>2, <3>1, FieldSameClaims
  <2> QED BY <2>3, <2>4, <2>5, <2>6, <2>7
<1> QED BY <1>1, BecomesAgrees

LEMMA UpdateCommunityTokenAgrees ==
  ASSUME TypeOK, IInv, HInv, NEW c \in Communities, NEW token \in NewTokens, NEW rules \in RulesChoices,
         NEW rate \in SwapRates, UpdateCommunityToken(c, token, rules, rate)
  PROVE  HInv'
<1> DEFINE q == communities[c]
           ratio == ConversionRatio(q, rules)
           convert(r) == [r EXCEPT !.amount = (@ * ratio) \div Unit]
           row == [p \in People |-> convert(paid[c][p])]
           new == UpdateToken(q, token, rules, q.balance * rate, Ratio, block)
<1>1. /\ c \in Deployed /\ CanUpdateToken(q, token, rules) /\ communities' = [communities EXCEPT ![c] = new]
      /\ paid' = [paid EXCEPT ![c] = row]
      /\ mixed' = (IF ClaimedNow(c) THEN mixed \cup {c} ELSE mixed) /\ UNCHANGED <<status, block>>
  BY DEF UpdateCommunityToken
<1>2. q \in CommunityType /\ Sound(q) /\ Ratio \in Nat /\ block \in 0..MaxBlock /\ paid[c] \in [People -> Receipts]
  BY <1>1, DeployedTyped, StateTyped
<1>3. rules \in Rules /\ token \in Tokens /\ rate \in Nat /\ q.balance * rate \in Nat
  BY <1>2, CommunityAdminAssumption, CommunityFields
<1>4. Agrees(q, paid[c], block, c, mixed)
  BY <1>1 DEF HInv
<1>5. ASSUME NEW p \in People
      PROVE  /\ row[p].claims = paid[c][p].claims /\ row[p].last = paid[c][p].last
             /\ row[p].amount = (paid[c][p].amount * ratio) \div Unit
  <2>1. PICK a \in Receipts : a = paid[c][p]
    BY <1>2
  <2>2. row[p] = [a EXCEPT !.amount = (a.amount * ratio) \div Unit]
    BY <2>1
  <2> HIDE DEF ratio, row
  <2> QED BY <2>1, <2>2 DEF Receipts
<1>6. c \notin mixed' => \A p \in People : q.beneficiaries[p].lastClaim = block => ~(q.beneficiaries[p].claimedAmount > 0)
  BY <1>1 DEF ClaimedNow
<1>7. mixed \subseteq mixed' /\ mixed' \subseteq mixed \cup {c} /\ Deployed' = Deployed
  BY <1>1 DEF Deployed
<1> HIDE DEF row, q
<1>8. Agrees(new, row, block, c, mixed')
  BY <1>1, <1>2, <1>3, <1>4, <1>5, <1>6, <1>7, UpdateTokenAgrees
<1> HIDE DEF new
<1> QED BY <1>1, <1>7, <1>8, OneAgrees

-----------------------------------------------------------------------------
(* Funds. *)

LEMMA FundedSameClaims ==
  ASSUME TypeOK, IInv, NEW c \in Deployed
  PROVE  /\ SameClaims(communities[c], Funded(c)) /\ Sound(Funded(c))
         /\ Funded(c).rules = communities[c].rules /\ Funded(c).maxTotalClaim = communities[c].maxTotalClaim
<1>1. communities[c] \in CommunityType /\ Sound(Funded(c))
  BY DeployedTyped, FundedFollows DEF Follows
<1>2. PICK q \in CommunityType : q = communities[c]
  BY <1>1
<1>3. CASE TrancheAmount(c) = 0
  BY <1>1, <1>3 DEF Funded, SameClaims
<1>4. CASE TrancheAmount(c) # 0
  <2>1. PICK balance, amount : Funded(c) =
          [[q EXCEPT !.balance = balance, !.lastFundRequest = block] EXCEPT !.claimAmount = amount]
    BY <1>2, <1>4 DEF Funded, UpdateClaimAmount
  <2>2. SameClaims(q, Funded(c)) /\ Funded(c).rules = q.rules /\ Funded(c).maxTotalClaim = q.maxTotalClaim
    BY <2>1 DEF CommunityType, SameClaims
  <2> QED BY <1>1, <1>2, <2>2
<1> QED BY <1>3, <1>4

LEMMA RequestFundsAgrees ==
  ASSUME TypeOK, IInv, HInv, NEW c \in Communities, RequestFunds(c)
  PROVE  HInv'
<1>1. c \in Deployed /\ communities' = [communities EXCEPT ![c] = Funded(c)]
      /\ UNCHANGED <<status, settings, block, paid, mixed>>
  BY DEF RequestFunds, ActiveManagers
<1>2. Deployed' = Deployed
  BY <1>1 DEF Deployed
<1> QED BY <1>1, <1>2, FundedSameClaims, OneSameClaims

LEMMA BalanceAgrees ==
  ASSUME TypeOK, IInv, HInv, NEW c \in Communities, NEW amount \in Donations,
         Donate(c, amount) \/ TransferFromCommunity(c, amount)
  PROVE  HInv'
<1>1. c \in Deployed
  BY DEF Donate, TransferFromCommunity
<1>2. communities[c] \in CommunityType /\ amount \in Nat
  BY <1>1, DeployedTyped, CommunityAdminAssumption
<1>3. PICK q \in CommunityType : q = communities[c]
  BY <1>2
<1>4. q.balance \in Nat
  BY CommunityFields
<1>5. PICK v \in Nat : Becomes(c, UpdateClaimAmount([q EXCEPT !.balance = v], Ratio))
  <2>1. CASE Donate(c, amount)
    <3>1. q.balance + amount \in Nat
      BY <1>2, <1>4
    <3>2. Becomes(c, UpdateClaimAmount([q EXCEPT !.balance = q.balance + amount], Ratio))
      BY <1>3, <2>1 DEF Donate
    <3> QED BY <3>1, <3>2
  <2>2. CASE TransferFromCommunity(c, amount)
    <3>1. q.balance - amount \in Nat
      BY <1>2, <1>3, <1>4, <2>2 DEF TransferFromCommunity
    <3>2. Becomes(c, UpdateClaimAmount([q EXCEPT !.balance = q.balance - amount], Ratio))
      BY <1>3, <2>2 DEF TransferFromCommunity
    <3> QED BY <3>1, <3>2
  <2> QED BY <2>1, <2>2
<1>6. SameClaims(q, UpdateClaimAmount([q EXCEPT !.balance = v], Ratio))
  BY BalanceSameClaims
<1> QED BY <1>1, <1>3, <1>5, <1>6, BecomesAgrees

-----------------------------------------------------------------------------
(* Beneficiaries. *)

LEMMA SameRow ==
  ASSUME TypeOK, NEW c \in Communities
  PROVE  paid = [paid EXCEPT ![c] = paid[c]] /\ paid[c] \in [People -> Receipts]
BY StateTyped

LEMMA AddBeneficiaryAgrees ==
  ASSUME TypeOK, IInv, HInv, NEW c \in Communities, NEW p \in People, AddBeneficiary(c, p)
  PROVE  HInv'
<1> DEFINE q == communities[c]
           added == Add(q, p, block)
<1>1. c \in Deployed /\ CanAdd(q, p) /\ UNCHANGED <<status, settings, block, paid, mixed>>
  BY DEF AddBeneficiary, ActiveManagers
<1>2. q \in CommunityType /\ Sound(q) /\ block \in 0..MaxBlock /\ paid[c] \in [People -> Receipts]
  BY <1>1, DeployedTyped, StateTyped
<1>3. added \in CommunityType
  BY <1>1, <1>2, AddTyped
<1>4. Agrees(q, paid[c], block, c, mixed)
  BY <1>1 DEF HInv
<1>5. Agrees(added, paid[c], block, c, mixed)
  BY <1>1, <1>2, <1>4, AddAgrees
<1>6. PICK r : communities' = [communities EXCEPT ![c] = r] /\ SameClaims(added, r)
  <2>1. CASE q.balance < DefaultAmount
    <3>1. communities' = [communities EXCEPT ![c] = added]
      BY <2>1 DEF AddBeneficiary
    <3> QED BY <3>1 DEF SameClaims
  <2>2. CASE ~(q.balance < DefaultAmount)
    <3>1. communities' = [communities EXCEPT ![c] = [added EXCEPT !.balance = @ - DefaultAmount]]
      BY <2>2 DEF AddBeneficiary
    <3> HIDE DEF added
    <3>2. communities' = [communities EXCEPT ![c] = [added EXCEPT !.balance = added.balance - DefaultAmount]]
      BY <3>1
    <3> QED BY <1>3, <3>2, FieldSameClaims
  <2> QED BY <2>1, <2>2
<1> HIDE DEF added
<1>7. Agrees(r, paid[c], block, c, mixed)
  BY <1>5, <1>6, SameClaimsAgree
<1>8. Deployed' = Deployed
  BY <1>1 DEF Deployed
<1>9. paid' = [paid EXCEPT ![c] = paid[c]]
  BY <1>1, SameRow
<1> QED BY <1>1, <1>6, <1>7, <1>8, <1>9, OneAgrees

LEMMA ChangeStateCallsAgree ==
  ASSUME TypeOK, IInv, HInv, NEW c \in Communities, NEW p \in People,
         LockBeneficiary(c, p) \/ UnlockBeneficiary(c, p) \/ RemoveBeneficiary(c, p)
  PROVE  HInv'
<1>1. PICK state \in {"Valid", "Locked", "Removed"} :
        c \in Deployed /\ Becomes(c, ChangeState(communities[c], p, state))
  BY DEF LockBeneficiary, UnlockBeneficiary, RemoveBeneficiary, ActiveManagers
<1>2. SameClaims(communities[c], ChangeState(communities[c], p, state))
  BY <1>1, DeployedTyped, ChangeStateSameClaims
<1> QED BY <1>1, <1>2, BecomesAgrees

\* What a call remembers of one person.
LEMMA Remembered ==
  ASSUME TypeOK, NEW c \in Communities, NEW p \in People, NEW receipts, Remember(c, p, receipts)
  PROVE  paid' = [paid EXCEPT ![c] = [paid[c] EXCEPT ![p] = receipts]]
BY StateTyped DEF Remember

\* A person is brought to c from other.
LEMMA AdoptedAgrees ==
  ASSUME TypeOK, IInv, HInv, NEW c \in Deployed, NEW other \in Deployed, NEW p \in People,
         Person(c, p).state = "NONE", CanChangeState(communities[c], p, Told(other, p).state),
         MixedFrom(c, other)
  PROVE  Agrees(Adopt(communities[c], p, Told(other, p)), [paid[c] EXCEPT ![p] = paid[other][p]], block, c, mixed')
<1> DEFINE q == communities[c]
           s == communities[other]
           told == Told(other, p)
<1>1. q \in CommunityType /\ Sound(q) /\ s \in CommunityType /\ block \in 0..MaxBlock
      /\ paid[c] \in [People -> Receipts] /\ paid[other] \in [People -> Receipts]
  BY DeployedTyped, StateTyped
<1>2. told \in Beneficiary
  BY ToldTyped
<1>3. told = [s.beneficiaries[p] EXCEPT !.claimedAmount = ClaimedAmount(s, p, block)]
      /\ q.beneficiaries[p].state = "NONE" /\ CanChangeState(q, p, told.state)
  BY DEF Told, Person
<1>4. Agrees(q, paid[c], block, c, mixed) /\ Agrees(s, paid[other], block, other, mixed)
  BY DEF HInv
<1>5. mixed \subseteq mixed'
  BY DEF MixedFrom
<1>6. c \notin mixed' => other \notin mixed /\ Plain(s) /\ q.tokenUpdates = <<>>
  BY DEF MixedFrom, Comparable, Plain
<1> HIDE DEF q, s, told
<1>7. Agrees(Adopt(q, p, told), [paid[c] EXCEPT ![p] = paid[other][p]], block, c, mixed')
  BY <1>1, <1>2, <1>3, <1>4, <1>5, <1>6, AdoptAgrees
<1> QED BY <1>7 DEF q, told

LEMMA JoinFromMigratedAgrees ==
  ASSUME TypeOK, IInv, HInv, NEW c \in Communities, NEW p \in People, JoinFromMigrated(c, p)
  PROVE  HInv'
<1> DEFINE other == communities[c].previousCommunity
           r == Adopt(communities[c], p, Told(other, p))
<1>1. /\ c \in Deployed /\ other # NoCommunity /\ Person(c, p).state = "NONE"
      /\ CanChangeState(communities[c], p, Told(other, p).state)
      /\ communities' = [communities EXCEPT ![c] = r]
      /\ Remember(c, p, paid[other][p]) /\ MixedFrom(c, other)
      /\ UNCHANGED <<status, treasury, settings, block>>
  BY DEF JoinFromMigrated
<1>2. other \in Deployed
  BY <1>1 DEF IInv, Origins
<1> HIDE DEF other
<1>3. Agrees(r, [paid[c] EXCEPT ![p] = paid[other][p]], block, c, mixed')
  BY <1>1, <1>2, AdoptedAgrees
<1> HIDE DEF r
<1>4. paid' = [paid EXCEPT ![c] = [paid[c] EXCEPT ![p] = paid[other][p]]]
  BY <1>1, Remembered
<1>5. mixed \subseteq mixed' /\ mixed' \subseteq mixed \cup {c} /\ Deployed' = Deployed
  BY <1>1 DEF MixedFrom, Deployed
<1> QED BY <1>1, <1>3, <1>4, <1>5, OneAgrees

\* The original keeps the claims; if it were its own copy, its entry would only be marked.
LEMMA CopyBeneficiaryAgrees ==
  ASSUME TypeOK, IInv, HInv, NEW c \in Communities, NEW p \in People, CopyBeneficiary(c, p)
  PROVE  HInv'
<1> DEFINE other == communities[c].copyOf
           adopted == Adopt(communities[c], p, Told(other, p))
           copied == ChangeState(communities[other], p, "Copied")
           row == [paid[c] EXCEPT ![p] = paid[other][p]]
<1>1. /\ c \in Deployed /\ other # NoCommunity /\ Person(c, p).state = "NONE"
      /\ CanChangeState(communities[c], p, Told(other, p).state)
      /\ communities' = [communities EXCEPT ![c] = adopted, ![other] = copied]
      /\ Remember(c, p, paid[other][p]) /\ MixedFrom(c, other)
      /\ UNCHANGED <<status, treasury, settings, block>>
  BY DEF CopyBeneficiary, CanCopy, ActiveManagers
<1>2. other \in Deployed
  BY <1>1 DEF IInv, Origins
<1> HIDE DEF other
<1>3. Agrees(adopted, row, block, c, mixed')
  BY <1>1, <1>2, AdoptedAgrees
<1>4. SameClaims(communities[other], copied)
  BY <1>2, DeployedTyped, ChangeStateSameClaims
<1> HIDE DEF adopted, copied
<1>5. paid' = [paid EXCEPT ![c] = row]
  BY <1>1, Remembered
<1>6. mixed \subseteq mixed' /\ mixed' \subseteq mixed \cup {c} /\ Deployed' = Deployed
  BY <1>1 DEF MixedFrom, Deployed
<1>7. CASE c = other
  <2>1. communities' = [communities EXCEPT ![c] = copied]
    BY <1>1, <1>7
  <2>2. row = paid[c]
    BY <1>7, SameRow
  <2>3. Agrees(copied, paid[c], block, c, mixed)
    BY <1>2, <1>4, <1>7, SameClaimsAgree DEF HInv
  <2>4. Agrees(copied, row, block, c, mixed')
    BY <1>6, <2>2, <2>3 DEF Agrees
  <2> QED BY <1>1, <1>5, <1>6, <2>1, <2>4, OneAgrees
<1>8. CASE c # other
  <2>1. \A d \in Communities : /\ communities'[d] = IF d = other THEN copied ELSE IF d = c THEN adopted ELSE communities[d]
                               /\ paid'[d] = IF d = c THEN row ELSE paid[d]
    BY <1>1, <1>2, <1>5, StateTyped DEF IInv, Deployed
  <2> HIDE DEF row
  <2>2. ASSUME NEW d \in Deployed PROVE Agrees(communities'[d], paid'[d], block, d, mixed')
    <3>0. d \in Communities /\ Agrees(communities[d], paid[d], block, d, mixed)
      BY DEF HInv, Deployed
    <3>1. CASE d = c
      BY <1>3, <1>8, <2>1, <3>0, <3>1
    <3>2. CASE d = other
      <4>1. Agrees(copied, paid[d], block, d, mixed)
        BY <1>4, <3>0, <3>2, SameClaimsAgree
      <4>2. communities'[d] = copied /\ paid'[d] = paid[d] /\ (d \in mixed <=> d \in mixed')
        BY <1>6, <1>8, <2>1, <3>0, <3>2
      <4> QED BY <4>1, <4>2 DEF Agrees
    <3>3. CASE d # c /\ d # other
      <4>1. communities'[d] = communities[d] /\ paid'[d] = paid[d] /\ (d \in mixed <=> d \in mixed')
        BY <1>6, <2>1, <3>0, <3>3
      <4> QED BY <3>0, <4>1 DEF Agrees
    <3> QED BY <3>1, <3>2, <3>3
  <2>3. \A d \in Communities \ Deployed : paid'[d] = NobodyPaid
    BY <1>1, <2>1 DEF HInv
  <2> QED BY <1>1, <1>6, <2>2, <2>3 DEF HInv
<1> QED BY <1>7, <1>8

LEMMA MoveAddressAgrees ==
  ASSUME TypeOK, IInv, HInv, NEW c \in Communities, NEW old \in People, NEW new \in People,
         ChangeAddressByManager(c, old, new) \/ ChangeOwnAddress(c, old, new)
  PROVE  HInv'
<1> DEFINE f == paid[c][old]
           g == paid[c][new]
           receipts == [claims |-> f.claims + g.claims, last |-> Latest(f.last, g.last), amount |-> f.amount + g.amount]
           r == ChangeAddress(communities[c], old, new)
<1>1. /\ c \in Deployed /\ CanChangeAddress(communities[c], old, new)
      /\ communities' = [communities EXCEPT ![c] = r]
      /\ Remember(c, new, receipts) /\ UNCHANGED <<status, treasury, settings, block, mixed>>
  BY DEF ChangeAddressByManager, ChangeOwnAddress, ActiveManagers, MoveAddress
<1>2. communities[c] \in CommunityType /\ Sound(communities[c]) /\ block \in 0..MaxBlock
      /\ paid[c] \in [People -> Receipts] /\ Agrees(communities[c], paid[c], block, c, mixed)
  BY <1>1, DeployedTyped, StateTyped DEF HInv
<1>3. Agrees(r, [paid[c] EXCEPT ![new] = receipts], block, c, mixed)
  BY <1>1, <1>2, ChangeAddressAgrees
<1> HIDE DEF receipts, r
<1>4. paid' = [paid EXCEPT ![c] = [paid[c] EXCEPT ![new] = receipts]]
  BY <1>1, Remembered
<1>5. Deployed' = Deployed /\ mixed' = mixed
  BY <1>1 DEF Deployed
<1> QED BY <1>1, <1>3, <1>4, <1>5, OneAgrees

LEMMA ClaimBenefitAgrees ==
  ASSUME TypeOK, IInv, HInv, NEW c \in Communities, NEW p \in People, ClaimBenefit(c, p)
  PROVE  HInv'
<1> DEFINE q == Funded(c)
           receipts == [claims |-> paid[c][p].claims + 1, last |-> block,
                        amount |-> paid[c][p].amount + ToClaim(q, p, block)]
           r == Claim(q, p, block)
<1>1. /\ c \in Deployed /\ CanClaim(q, p, block) /\ communities' = [communities EXCEPT ![c] = r]
      /\ Remember(c, p, receipts) /\ UNCHANGED <<status, settings, block, mixed>>
  BY DEF ClaimBenefit
<1>2. q \in CommunityType /\ block \in 0..MaxBlock /\ paid[c] \in [People -> Receipts]
  BY <1>1, FundedTyped, StateTyped
<1>3. Agrees(q, paid[c], block, c, mixed)
  BY <1>1, FundedSameClaims, SameClaimsAgree DEF HInv
<1> HIDE DEF q
<1>4. Agrees(r, [paid[c] EXCEPT ![p] = receipts], block, c, mixed)
  BY <1>1, <1>2, <1>3, ClaimAgrees
<1> HIDE DEF receipts, r
<1>5. paid' = [paid EXCEPT ![c] = [paid[c] EXCEPT ![p] = receipts]]
  BY <1>1, Remembered
<1>6. Deployed' = Deployed /\ mixed' = mixed
  BY <1>1 DEF Deployed
<1> QED BY <1>1, <1>4, <1>5, <1>6, OneAgrees

-----------------------------------------------------------------------------
(* All steps. *)

LEMMA NextBlockAgrees ==
  ASSUME TypeOK, HInv, NextBlock
  PROVE  HInv'
<1>1. block' = block + 1 /\ UNCHANGED <<communities, status, treasury, settings, paid, mixed>> /\ Deployed' = Deployed
  BY DEF NextBlock, Deployed
<1>2. block \in Nat
  BY StateTyped, CommunityAdminAssumption
<1>3. ASSUME NEW c \in Deployed PROVE Agrees(communities[c], paid[c], block + 1, c, mixed)
  <2>1. communities[c] \in CommunityType /\ Agrees(communities[c], paid[c], block, c, mixed)
    BY DEF HInv, TypeOK, Deployed
  <2> QED BY <1>2, <2>1, LaterAgrees
<1> QED BY <1>1, <1>3 DEF HInv, NobodyPaid

LEMMA NoClaimsAgree ==
  ASSUME HInv, UNCHANGED <<communities, status, block, paid, mixed>>
  PROVE  HInv'
<1>1. Deployed' = Deployed
  BY DEF Deployed
<1>2. \A c \in Deployed : SameClaims(communities[c], communities'[c])
  BY DEF SameClaims
<1> QED BY <1>1, <1>2, SameClaimsEverywhere

LEMMA StepAgrees == TypeOK /\ IInv /\ HInv /\ [Next]_vars => HInv'
<1> SUFFICES ASSUME TypeOK, IInv, HInv, [Next]_vars PROVE HInv'
  OBVIOUS
<1>1. ASSUME NEW c \in Communities, CommunityCalls(c) PROVE HInv'
  <2>1. CASE RequestFunds(c) \/ RemoveCommunity(c)
    BY <2>1, RequestFundsAgrees, RemoveCommunityAgrees
  <2>2. CASE \E locked \in BOOLEAN : SetLocked(c, locked)
    BY <2>2, OtherParamsAgree
  <2>3. CASE \E m \in Managers : AddManager(c, m) \/ RemoveManager(c, m)
    BY <2>3, OtherParamsAgree
  <2>4. CASE \E amount \in Donations : Donate(c, amount) \/ TransferFromCommunity(c, amount)
    BY <2>4, BalanceAgrees
  <2>5. CASE \E tranches \in TrancheChoices : SetCommunityParams(c, tranches)
    BY <2>5, OtherParamsAgree
  <2>6. CASE \E maxBeneficiaries \in MaxBeneficiariesChoices : UpdateMaxBeneficiaries(c, maxBeneficiaries)
    BY <2>6, OtherParamsAgree
  <2>7. CASE \E rules \in RulesChoices, maxBeneficiaries \in MaxBeneficiariesChoices :
               SetBeneficiaryParams(c, rules, maxBeneficiaries)
    BY <2>7, SetBeneficiaryParamsAgrees
  <2>8. CASE \E rules \in RulesChoices, token \in NewTokens, rate \in SwapRates :
               UpdateCommunityToken(c, token, rules, rate)
    BY <2>8, UpdateCommunityTokenAgrees
  <2> QED BY <1>1, <2>1, <2>2, <2>3, <2>4, <2>5, <2>6, <2>7, <2>8 DEF CommunityCalls
<1>2. ASSUME NEW c \in Communities, NEW p \in People, BeneficiaryCalls(c, p) PROVE HInv'
  <2>1. CASE AddBeneficiary(c, p) \/ LockBeneficiary(c, p) \/ UnlockBeneficiary(c, p) \/ RemoveBeneficiary(c, p)
    BY <2>1, AddBeneficiaryAgrees, ChangeStateCallsAgree
  <2>2. CASE JoinFromMigrated(c, p) \/ CopyBeneficiary(c, p) \/ ClaimBenefit(c, p)
    BY <2>2, JoinFromMigratedAgrees, CopyBeneficiaryAgrees, ClaimBenefitAgrees
  <2>3. CASE \E new \in People : ChangeAddressByManager(c, p, new) \/ ChangeOwnAddress(c, p, new)
    BY <2>3, MoveAddressAgrees
  <2> QED BY <1>2, <2>1, <2>2, <2>3 DEF BeneficiaryCalls
<1>3. CASE AdminCalls
  <2>1. ASSUME NEW c \in NewCommunities, NEW token \in Tokens, NEW rules \in RulesChoices,
               NEW tranches \in TrancheChoices, NEW maxBeneficiaries \in MaxBeneficiariesChoices,
               AddCommunity(c, token, rules, tranches, maxBeneficiaries)
        PROVE  HInv'
    BY <2>1, CommunityAdminAssumption, AddCommunityAgrees
  <2>2. ASSUME NEW old \in Communities, NEW new \in Communities,
               MigrateCommunity(old, new) \/ SplitCommunity(old, new)
        PROVE  HInv'
    BY <2>2, MigrateCommunityAgrees, SplitCommunityAgrees
  <2>3. ASSUME NEW new \in SettingsChoices, UpdateSettings(new) PROVE HInv'
    BY <2>3, NoClaimsAgree DEF UpdateSettings
  <2>4. ASSUME NEW token \in Tokens, TreasuryIncome(token) PROVE HInv'
    BY <2>4, NoClaimsAgree DEF TreasuryIncome
  <2> QED BY <1>3, <2>1, <2>2, <2>3, <2>4 DEF AdminCalls
<1>4. CASE NextBlock \/ UNCHANGED vars
  BY <1>4, NextBlockAgrees, NoClaimsAgree DEF vars
<1> QED BY <1>1, <1>2, <1>3, <1>4 DEF Next

LEMMA AlwaysAgrees == Spec => []HInv
BY InitAgrees, AlwaysSound, CommunityTyped, StepAgrees, PTL DEF Spec

-----------------------------------------------------------------------------
(* Claims. *)

\* What a claim finds, once the community has asked for funds.
LEMMA ClaimFinds ==
  ASSUME TypeOK, IInv, HInv, NEW c \in Communities, NEW p \in People, ClaimBenefit(c, p)
  PROVE  \E q \in CommunityType :
           /\ q = Funded(c) /\ Sound(q) /\ q.rules = communities[c].rules
           /\ q.maxTotalClaim = communities[c].maxTotalClaim /\ CanClaim(q, p, block)
           /\ Comparable(c) <=> c \notin mixed /\ Plain(q)
           /\ Agrees(q, paid[c], block, c, mixed)
           /\ paid[c][p] \in Receipts /\ paid'[c][p].amount = paid[c][p].amount + ToClaim(q, p, block)
<1>1. /\ c \in Deployed /\ CanClaim(Funded(c), p, block)
      /\ Remember(c, p, [claims |-> paid[c][p].claims + 1, last |-> block,
                         amount |-> paid[c][p].amount + ToClaim(Funded(c), p, block)])
  BY DEF ClaimBenefit
<1>2. PICK q \in CommunityType : q = Funded(c)
  BY <1>1, FundedTyped
<1>3. /\ SameClaims(communities[c], q) /\ Sound(q)
      /\ q.rules = communities[c].rules /\ q.maxTotalClaim = communities[c].maxTotalClaim
  BY <1>1, <1>2, FundedSameClaims
<1>4. Agrees(q, paid[c], block, c, mixed)
  BY <1>1, <1>3, SameClaimsAgree DEF HInv
<1>5. Comparable(c) <=> c \notin mixed /\ Plain(q)
  BY <1>3 DEF Comparable, Plain, SameClaims
<1>6. paid[c] \in [People -> Receipts] /\ paid \in [Communities -> [People -> Receipts]]
  BY StateTyped
<1>7. paid'[c][p].amount = paid[c][p].amount + ToClaim(q, p, block)
  <2>1. PICK receipts : /\ receipts = [claims |-> paid[c][p].claims + 1, last |-> block,
                                       amount |-> paid[c][p].amount + ToClaim(q, p, block)]
                        /\ paid' = [paid EXCEPT ![c][p] = receipts]
    BY <1>1, <1>2 DEF Remember
  <2>2. receipts.amount = paid[c][p].amount + ToClaim(q, p, block)
    BY <2>1
  <2>3. paid'[c][p] = receipts
    BY <1>6, <2>1
  <2> QED BY <2>2, <2>3
<1> QED BY <1>1, <1>2, <1>3, <1>4, <1>5, <1>6, <1>7

\* A claim pays at most the original amount.
LEMMA ClaimPays ==
  ASSUME NEW q \in CommunityType, Sound(q), NEW person \in People, NEW when, CanClaim(q, person, when)
  PROVE  ToClaim(q, person, when) \in Nat /\ ToClaim(q, person, when) <= q.rules.originalClaimAmount
<1>1. PICK x \in Nat : x = ClaimedAmount(q, person, when)
  BY AmountNat
<1>2. q.claimAmount \in Nat /\ q.rules.originalClaimAmount \in Nat /\ q.maxTotalClaim \in Nat
      /\ q.claimAmount <= q.rules.originalClaimAmount
  BY CommunityFields DEF Rules, Sound
<1>3. ToClaim(q, person, when) \in Nat
  BY PayInBalance
<1> QED BY <1>1, <1>2, <1>3 DEF ToClaim

LEMMA ClaimInTime ==
  ASSUME TypeOK, IInv, HInv, NEW c \in Communities, NEW p \in People, ClaimBenefit(c, p)
  PROVE  ClaimsInTime(c, p)
<1>1. PICK q \in CommunityType :
           /\ q = Funded(c) /\ Sound(q) /\ q.rules = communities[c].rules
           /\ q.maxTotalClaim = communities[c].maxTotalClaim /\ CanClaim(q, p, block)
           /\ Comparable(c) <=> c \notin mixed /\ Plain(q)
           /\ Agrees(q, paid[c], block, c, mixed)
           /\ paid[c][p] \in Receipts /\ paid'[c][p].amount = paid[c][p].amount + ToClaim(q, p, block)
  BY ClaimFinds
<1>2. PICK before \in Receipts : before = paid[c][p]
  BY <1>1
<1>3. PICK pay \in Nat : pay = ToClaim(q, p, block) /\ pay <= q.rules.originalClaimAmount
  BY <1>1, ClaimPays
<1>4. q.rules.originalClaimAmount \in Nat /\ before.amount \in Nat
  BY CommunityFields DEF Rules, Receipts
<1>5. paid'[c][p].amount - before.amount = pay
  BY <1>1, <1>2, <1>3, <1>4
<1>6. PICK r \in Beneficiary : r = q.beneficiaries[p]
  BY CommunityFields
<1>7. before.claims = r.claims /\ before.last <= r.lastClaim /\ ClaimCooldown(q, p) <= block
  BY <1>1, <1>2, <1>6 DEF Agrees, Recorded, CanClaim
<1>8. ASSUME before.claims > 0
      PROVE  block >= before.last + q.rules.baseInterval + (before.claims - 1) * q.rules.incrementInterval
  <2>1. ClaimCooldown(q, p) = r.lastClaim + (q.rules.baseInterval + (r.claims - 1) * q.rules.incrementInterval)
    BY <1>6, <1>7, <1>8 DEF ClaimCooldown, LastInterval, Beneficiary
  <2>2. /\ before.last \in Int /\ r.lastClaim \in Int /\ block \in Int
        /\ q.rules.baseInterval \in Int /\ q.rules.incrementInterval \in Int /\ before.claims - 1 \in Int
    <3>1. \A x \in 0..MaxBlock : x \in Int
      BY CommunityAdminAssumption
    <3>2. q.rules.baseInterval \in Int /\ q.rules.incrementInterval \in Int
      BY CommunityFields DEF Rules
    <3>3. block \in Int
      BY <3>1, StateTyped
    <3> QED BY <3>1, <3>2, <3>3 DEF Beneficiary, Receipts
  <2>3. PICK x \in Int : x = (before.claims - 1) * q.rules.incrementInterval
    BY <2>2
  <2>4. r.lastClaim + (q.rules.baseInterval + x) <= block
    BY <1>7, <2>1, <2>3
  <2> QED BY <1>7, <2>2, <2>3, <2>4
<1> QED BY <1>1, <1>2, <1>3, <1>5, <1>8 DEF ClaimsInTime

LEMMA ClaimWithinReceipts ==
  ASSUME TypeOK, IInv, HInv, NEW c \in Communities, NEW p \in People, ClaimBenefit(c, p)
  PROVE  ClaimsWithinLimit(c, p)
<1> SUFFICES ASSUME Comparable(c)
             PROVE  paid'[c][p].amount <= communities[c].maxTotalClaim
  BY DEF ClaimsWithinLimit
<1>1. PICK q \in CommunityType :
           /\ q = Funded(c) /\ Sound(q) /\ q.rules = communities[c].rules
           /\ q.maxTotalClaim = communities[c].maxTotalClaim /\ CanClaim(q, p, block)
           /\ Comparable(c) <=> c \notin mixed /\ Plain(q)
           /\ Agrees(q, paid[c], block, c, mixed)
           /\ paid[c][p] \in Receipts /\ paid'[c][p].amount = paid[c][p].amount + ToClaim(q, p, block)
  BY ClaimFinds
<1>2. Plain(q) /\ Counted(q, paid[c], block) /\ KnownUpdates(q, block)
  BY <1>1 DEF Agrees, Recorded
<1>3. paid[c][p].amount <= ClaimedAmount(q, p, block)
  BY <1>2, ConvertedIs DEF Counted
<1>4. PICK x \in Nat, y \in Nat, pay \in Nat :
        /\ x = paid[c][p].amount /\ y = ClaimedAmount(q, p, block) /\ pay = ToClaim(q, p, block)
        /\ y + pay <= q.maxTotalClaim
  BY <1>1, AmountNat, PayInBalance DEF Receipts
<1>5. q.maxTotalClaim \in Nat
  BY CommunityFields
<1> QED BY <1>1, <1>3, <1>4, <1>5

\* Whoever claims has waited since all that was received under the addresses joined into
\* this one, as long as all these claims require, and gets at most the original amount;
\* and all that was received, in the token of now, stays within the limit, where the
\* community keeps count of it (claim, _getClaimedAmount, with changeBeneficiaryAddress,
\* beneficiaryJoinFromMigrated, copyBeneficiaries and updateToken).
THEOREM CommunityClaimsRight == Spec => NobodyClaimsEarlyOrTooMuch
<1> DEFINE Right == \A c \in Communities, p \in People :
       (paid'[c][p] # paid[c][p] /\ ClaimBenefit(c, p)) =>
         ClaimsInTime(c, p) /\ ClaimsWithinLimit(c, p)
<1>1. TypeOK /\ IInv /\ HInv => Right
  BY ClaimInTime, ClaimWithinReceipts
<1> HIDE DEF Right
<1>2. Spec => [][Right]_vars
  BY <1>1, AlwaysSound, CommunityTyped, AlwaysAgrees, PTL
<1> QED BY <1>2 DEF NobodyClaimsEarlyOrTooMuch, Right

(***************************************************************************)
(* The council.                                                             *)
(***************************************************************************)

Motion == [proposer : Candidates, endBlock : Nat, forVotes : Nat, againstVotes : Nat,
           abstainVotes : Nat, canceled : BOOLEAN, executed : BOOLEAN]
Receipt == [voter : Candidates, id : Nat, support : Supports]

CouncilTypeOK ==
  /\ members \subseteq Candidates
  /\ proposals \in Seq(Motion)
  /\ proposalReceipts \subseteq Receipt /\ IsFiniteSet(proposalReceipts)
  /\ quorumVotes \in quorums /\ quorums \subseteq Nat
  /\ councilBlock \in Nat

\* Only what was proposed has been voted on, so that a new proposal has no votes.
VotesOnProposals == \A r \in proposalReceipts : r.id \in DOMAIN proposals

CouncilIInv == CouncilTypeOK /\ VotesOnProposals /\ CouncilDecidesByQuorum

\* What is said of one proposal.
Tallied(id, p) == \A s \in Supports : p[s] = Cardinality(Votes(id, s))
Bounded(p) == p.forVotes <= p.againstVotes + 1 \/ \E q \in quorums : p.forVotes <= q
Decided(p) == p.executed => p.forVotes > p.againstVotes /\ \E q \in quorums : p.forVotes >= q

LEMMA CouncilInitial == CouncilInit => CouncilIInv
<1> SUFFICES ASSUME CouncilInit PROVE CouncilIInv
  OBVIOUS
<1>1. proposals \in Seq(Motion) /\ DOMAIN proposals = {}
  BY DEF CouncilInit
<1>2. IsFiniteSet(proposalReceipts) /\ proposalReceipts = {}
  BY FS_EmptySet DEF CouncilInit
<1> QED
  BY <1>1, <1>2, CouncilAssumption
     DEF CouncilInit, CouncilIInv, CouncilTypeOK, VotesOnProposals, CouncilDecidesByQuorum

\* A call that changes members, the quorum or the block, and no proposal.
LEMMA OwnerOrClockKeeps ==
  ASSUME CouncilIInv, proposals' = proposals, proposalReceipts' = proposalReceipts,
         members' \subseteq Candidates, quorumVotes' \in quorums', quorums' \subseteq Nat,
         quorums \subseteq quorums', councilBlock' \in Nat
  PROVE  CouncilIInv'
<1>1. CouncilTypeOK' /\ VotesOnProposals'
  BY DEF CouncilIInv, CouncilTypeOK, VotesOnProposals
<1>2. \A id \in DOMAIN proposals, s \in Supports : Votes(id, s)' = Votes(id, s)
  BY DEF Votes
<1>3. CouncilDecidesByQuorum'
  <2>1. \A r1, r2 \in proposalReceipts : r1.voter = r2.voter /\ r1.id = r2.id => r1 = r2
    BY DEF CouncilIInv, CouncilDecidesByQuorum
  <2>2. ASSUME NEW id \in DOMAIN proposals
        PROVE  Tallied(id, proposals[id])' /\ Bounded(proposals[id])' /\ Decided(proposals[id])'
    <3>1. Tallied(id, proposals[id]) /\ Bounded(proposals[id]) /\ Decided(proposals[id])
      BY DEF CouncilIInv, CouncilDecidesByQuorum, Tallied, Bounded, Decided
    <3>2. Tallied(id, proposals[id])'
      BY <1>2, <3>1 DEF Tallied
    <3>3. Bounded(proposals[id])' /\ Decided(proposals[id])'
      BY <3>1 DEF Bounded, Decided
    <3> QED BY <3>2, <3>3
  <2> QED BY <2>1, <2>2 DEF CouncilDecidesByQuorum, Tallied, Bounded, Decided
<1> QED BY <1>1, <1>3 DEF CouncilIInv

\* A new proposal begins with no votes, as nobody can have voted on it.
LEMMA ProposeKeeps ==
  ASSUME CouncilIInv, NEW m \in Candidates, Propose(m)
  PROVE  CouncilIInv'
<1> DEFINE p == [proposer |-> m, endBlock |-> councilBlock + MaxVotingPeriod, forVotes |-> 0,
                 againstVotes |-> 0, abstainVotes |-> 0, canceled |-> FALSE, executed |-> FALSE]
           new == Len(proposals) + 1
<1>1. p \in Motion
  BY CouncilAssumption DEF CouncilIInv, CouncilTypeOK, Motion
<1>2. proposals' = Append(proposals, p) /\ proposals \in Seq(Motion)
  BY DEF Propose, CouncilIInv, CouncilTypeOK
<1>3. UNCHANGED <<members, quorumVotes, proposalReceipts, councilBlock, quorums>>
  BY DEF Propose
<1> HIDE DEF p
<1>4. /\ proposals' \in Seq(Motion) /\ DOMAIN proposals' = DOMAIN proposals \cup {new}
      /\ new \notin DOMAIN proposals /\ proposals'[new] = p
      /\ \A id \in DOMAIN proposals : proposals'[id] = proposals[id]
  BY <1>1, <1>2
<1>5. CouncilTypeOK' /\ VotesOnProposals'
  BY <1>3, <1>4 DEF CouncilIInv, CouncilTypeOK, VotesOnProposals
<1>6. \A id, s : Votes(id, s)' = Votes(id, s)
  BY <1>3 DEF Votes
<1>7. \A s \in Supports : Votes(new, s) = {} /\ Cardinality(Votes(new, s)) = 0
  <2>1. \A s \in Supports : Votes(new, s) = {}
    BY <1>4 DEF Votes, CouncilIInv, VotesOnProposals
  <2> QED BY <2>1, FS_EmptySet
<1>8. /\ \A s \in Supports : p[s] = 0
      /\ p.forVotes = 0 /\ p.againstVotes = 0 /\ ~p.executed
  BY DEF p, Supports
<1>9. CouncilDecidesByQuorum'
  BY <1>3, <1>4, <1>6, <1>7, <1>8 DEF CouncilIInv, CouncilDecidesByQuorum
<1> QED BY <1>5, <1>9 DEF CouncilIInv

\* A vote on an active proposal counts once, and an active proposal has room for it.
LEMMA VoteKeeps ==
  ASSUME CouncilIInv, NEW m \in Candidates, NEW id \in DOMAIN proposals, NEW support \in Supports,
         CastVote(m, id, support)
  PROVE  CouncilIInv'
<1> DEFINE p == proposals[id]
           r == [voter |-> m, id |-> id, support |-> support]
<1>1. /\ proposals' = [proposals EXCEPT ![id][support] = @ + 1]
      /\ proposalReceipts' = proposalReceipts \cup {r}
      /\ UNCHANGED <<members, quorumVotes, councilBlock, quorums>>
  BY DEF CastVote, Count
<1>2. /\ \A x \in proposalReceipts : ~(x.voter = m /\ x.id = id)
      /\ ~p.executed /\ (p.forVotes <= p.againstVotes \/ p.forVotes < quorumVotes)
  <2>1. p \in Motion /\ quorumVotes \in Nat
    BY DEF CouncilIInv, CouncilTypeOK
  <2>2. ProposalState(id) = "Active" /\ ~HasVoted(m, id)
    BY DEF CastVote
  <2>3. ~p.executed /\ ~(p.forVotes > p.againstVotes /\ p.forVotes >= quorumVotes)
    BY <2>1, <2>2 DEF ProposalState, Motion
  <2> QED BY <2>1, <2>2, <2>3 DEF HasVoted, Motion
<1>3. /\ p \in Motion /\ p[support] \in Nat /\ proposals \in Seq(Motion)
      /\ id \in Nat /\ r \in Receipt /\ r \notin proposalReceipts
  <2>1. p \in Motion /\ proposals \in Seq(Motion) /\ id \in Nat
    BY DEF CouncilIInv, CouncilTypeOK
  <2> QED BY <2>1, <1>2 DEF Supports, Motion, Receipt
<1>4. DEFINE q == [p EXCEPT ![support] = @ + 1]
<1>5. /\ q \in Motion /\ q.executed = p.executed
      /\ q[support] = p[support] + 1
      /\ \A s \in Supports \ {support} : q[s] = p[s]
      /\ q.forVotes <= p.forVotes + 1 /\ q.againstVotes >= p.againstVotes
      /\ q.forVotes > p.forVotes => q.againstVotes = p.againstVotes
  <2>1. /\ p \in Motion /\ p.forVotes \in Nat /\ p.againstVotes \in Nat /\ p.abstainVotes \in Nat
        /\ p.forVotes = p["forVotes"] /\ p.againstVotes = p["againstVotes"]
        /\ p.abstainVotes = p["abstainVotes"]
    BY <1>3 DEF Motion
  <2>2. CASE support = "forVotes"
    <3>1. q = [p EXCEPT !.forVotes = p.forVotes + 1]
      BY <2>1, <2>2
    <3> QED BY <2>1, <2>2, <3>1 DEF Supports, Motion
  <2>3. CASE support = "againstVotes"
    <3>1. q = [p EXCEPT !.againstVotes = p.againstVotes + 1]
      BY <2>1, <2>3
    <3> QED BY <2>1, <2>3, <3>1 DEF Supports, Motion
  <2>4. CASE support = "abstainVotes"
    <3>1. q = [p EXCEPT !.abstainVotes = p.abstainVotes + 1]
      BY <2>1, <2>4
    <3> QED BY <2>1, <2>4, <3>1 DEF Supports, Motion
  <2> QED BY <2>2, <2>3, <2>4 DEF Supports
<1>6. /\ proposals' \in Seq(Motion) /\ DOMAIN proposals' = DOMAIN proposals /\ proposals'[id] = q
      /\ \A other \in DOMAIN proposals \ {id} : proposals'[other] = proposals[other]
  BY <1>1, <1>3, <1>5
<1> HIDE DEF p, q
<1>7. CouncilTypeOK' /\ VotesOnProposals'
  <2>1. IsFiniteSet(proposalReceipts')
    BY <1>1, FS_AddElement DEF CouncilIInv, CouncilTypeOK
  <2>2. VotesOnProposals'
    BY <1>1, <1>6 DEF CouncilIInv, VotesOnProposals
  <2> QED BY <2>1, <2>2, <1>1, <1>3, <1>6 DEF CouncilIInv, CouncilTypeOK
<1>8. \A r1, r2 \in proposalReceipts' : r1.voter = r2.voter /\ r1.id = r2.id => r1 = r2
  BY <1>1, <1>2 DEF CouncilIInv, CouncilDecidesByQuorum
<1>9. ASSUME NEW other \in DOMAIN proposals, NEW s \in Supports, other # id \/ s # support
      PROVE  Votes(other, s)' = Votes(other, s)
  BY <1>1, <1>9 DEF Votes
<1>10. Cardinality(Votes(id, support)') = Cardinality(Votes(id, support)) + 1
  <2>1. Votes(id, support)' = Votes(id, support) \cup {r} /\ r \notin Votes(id, support)
    BY <1>1, <1>3 DEF Votes
  <2>2. IsFiniteSet(Votes(id, support))
    BY FS_Subset DEF Votes, CouncilIInv, CouncilTypeOK
  <2> QED BY <2>1, <2>2, FS_AddElement
<1>11. ASSUME NEW other \in DOMAIN proposals, other # id
       PROVE  Tallied(other, proposals[other])' /\ Bounded(proposals[other])' /\ Decided(proposals[other])'
  BY <1>1, <1>6, <1>9, <1>11 DEF CouncilIInv, CouncilDecidesByQuorum, Tallied, Bounded, Decided
<1>12. \A s \in Supports : q[s] = Cardinality(Votes(id, s)')
  BY <1>5, <1>9, <1>10 DEF CouncilIInv, CouncilDecidesByQuorum, p
<1>13. q.forVotes <= q.againstVotes + 1 \/ \E v \in quorums : q.forVotes <= v
  <2>1. /\ p.forVotes \in Nat /\ p.againstVotes \in Nat /\ q.forVotes \in Nat /\ q.againstVotes \in Nat
        /\ quorumVotes \in quorums /\ quorums \subseteq Nat
    BY <1>3, <1>5 DEF Motion, CouncilIInv, CouncilTypeOK
  <2>2. CASE q.forVotes > p.forVotes
    BY <2>1, <2>2, <1>2, <1>5
  <2>4. p.forVotes <= p.againstVotes + 1 \/ \E v \in quorums : p.forVotes <= v
    BY DEF CouncilIInv, CouncilDecidesByQuorum, Bounded, p
  <2>5. p.againstVotes <= q.againstVotes
    BY <2>1, <1>5
  <2>3. CASE q.forVotes <= p.forVotes
    <3>1. CASE p.forVotes <= p.againstVotes + 1
      BY <3>1, <2>1, <2>3, <2>5
    <3>2. CASE \E v \in quorums : p.forVotes <= v
      BY <3>2, <2>1, <2>3
    <3> QED BY <2>4, <3>1, <3>2
  <2> QED BY <2>1, <2>2, <2>3
<1>14. Tallied(id, proposals[id])' /\ Bounded(proposals[id])' /\ Decided(proposals[id])'
  BY <1>1, <1>2, <1>5, <1>6, <1>12, <1>13 DEF Tallied, Bounded, Decided
<1> QED
  BY <1>6, <1>7, <1>8, <1>11, <1>14 DEF CouncilIInv, CouncilDecidesByQuorum, Tallied, Bounded, Decided

\* Execution needs the majority and the quorum of the moment; a cancellation changes no votes.
LEMMA SettleKeeps ==
  ASSUME CouncilIInv, NEW m \in Candidates, NEW id \in DOMAIN proposals,
         ExecuteProposal(m, id) \/ CancelProposal(m, id)
  PROVE  CouncilIInv'
<1>1. PICK how \in {"executed", "canceled"} :
        /\ Settle(id, how)
        /\ how = "executed" => ProposalState(id) = "Succeeded"
  BY DEF ExecuteProposal, CancelProposal
<1> DEFINE p == proposals[id]
           q == [p EXCEPT ![how] = TRUE]
<1>2. p \in Motion /\ proposals \in Seq(Motion)
  BY DEF CouncilIInv, CouncilTypeOK
<1>3. /\ q \in Motion /\ \A s \in Supports : q[s] = p[s]
      /\ q.forVotes = p.forVotes /\ q.againstVotes = p.againstVotes
      /\ q.executed => p.executed \/ how = "executed"
  BY <1>2 DEF Motion, Supports
<1>4. /\ proposals' \in Seq(Motion) /\ DOMAIN proposals' = DOMAIN proposals /\ proposals'[id] = q
      /\ \A other \in DOMAIN proposals \ {id} : proposals'[other] = proposals[other]
      /\ UNCHANGED <<members, quorumVotes, proposalReceipts, councilBlock, quorums>>
  BY <1>1, <1>2, <1>3 DEF Settle
<1>5. how = "executed" => p.forVotes > p.againstVotes /\ p.forVotes >= quorumVotes
  BY <1>1, <1>2 DEF ProposalState, Motion
<1> HIDE DEF p, q
<1>6. CouncilTypeOK' /\ VotesOnProposals'
  BY <1>4 DEF CouncilIInv, CouncilTypeOK, VotesOnProposals
<1>7. \A other, s : Votes(other, s)' = Votes(other, s)
  BY <1>4 DEF Votes
<1>8. ASSUME NEW other \in DOMAIN proposals
      PROVE  Tallied(other, proposals[other])' /\ Bounded(proposals[other])'
  BY <1>3, <1>4, <1>7 DEF CouncilIInv, CouncilDecidesByQuorum, Tallied, Bounded, p
<1>9. ASSUME NEW other \in DOMAIN proposals
      PROVE  Decided(proposals[other])'
  BY <1>3, <1>4, <1>5 DEF CouncilIInv, CouncilTypeOK, CouncilDecidesByQuorum, Decided, p
<1> QED
  BY <1>4, <1>6, <1>8, <1>9 DEF CouncilIInv, CouncilDecidesByQuorum, Tallied, Bounded, Decided

LEMMA CouncilInductive == CouncilIInv /\ [CouncilNext]_councilVars => CouncilIInv'
<1> SUFFICES ASSUME CouncilIInv, [CouncilNext]_councilVars PROVE CouncilIInv'
  OBVIOUS
<1>1. ASSUME NEW m \in Candidates, AddMember(m) \/ RemoveMember(m) PROVE CouncilIInv'
  BY <1>1, OwnerOrClockKeeps DEF AddMember, RemoveMember, SetMembers, CouncilIInv, CouncilTypeOK
<1>2. ASSUME NEW m \in Candidates, Propose(m) PROVE CouncilIInv'
  BY <1>2, ProposeKeeps
<1>3. ASSUME NEW new \in Quorums, SetQuorumVotes(new) PROVE CouncilIInv'
  BY <1>3, OwnerOrClockKeeps, CouncilAssumption DEF SetQuorumVotes, CouncilIInv, CouncilTypeOK
<1>4. ASSUME NEW m \in Candidates, NEW id \in DOMAIN proposals,
             ExecuteProposal(m, id) \/ CancelProposal(m, id)
      PROVE  CouncilIInv'
  BY <1>4, SettleKeeps
<1>5. ASSUME NEW m \in Candidates, NEW id \in DOMAIN proposals, NEW support \in Supports,
             CastVote(m, id, support)
      PROVE  CouncilIInv'
  BY <1>5, VoteKeeps
<1>6. CASE NextCouncilBlock
  BY <1>6, OwnerOrClockKeeps DEF NextCouncilBlock, CouncilIInv, CouncilTypeOK
<1>7. CASE UNCHANGED councilVars
  BY <1>7, OwnerOrClockKeeps DEF councilVars, CouncilIInv, CouncilTypeOK
<1> QED BY <1>1, <1>2, <1>3, <1>4, <1>5, <1>6, <1>7 DEF CouncilNext

\* Whatever the members, the quorums and the voting period are, and however many proposals
\* there are: votes count once, voting ends with the vote that decides, and what was
\* executed had the majority and a quorum (castVoteInternal, state, execute).
THEOREM CouncilDecides == CouncilSpec => []CouncilDecidesByQuorum
<1>1. CouncilIInv => CouncilDecidesByQuorum
  BY DEF CouncilIInv
<1> QED BY CouncilInitial, CouncilInductive, <1>1, PTL DEF CouncilSpec

(***************************************************************************)
(* The ambassadors.                                                         *)
(***************************************************************************)

TablesTyped ==
  /\ entityIndex \in 1..(MaxEntities + 1) /\ ambassadorIndex \in 1..(MaxAmbassadors + 1)
  /\ entityByAddress \in [Everyone -> EntityIndices]
  /\ entityByIndex \in [EntityIndices -> Everyone]
  /\ ambassadorByAddress \in [Everyone -> AmbassadorIndices]
  /\ ambassadorByIndex \in [AmbassadorIndices -> Everyone]
  /\ ambassadorToEntity \in [AmbassadorIndices -> EntityIndices]
  /\ entityAmbassadors \in [EntityIndices -> Nat]
  /\ communityToAmbassador \in [Assigned -> AmbassadorIndices]
  /\ ambassadorCommunities \in [AmbassadorIndices -> SUBSET Assigned]

\* From an account to an index and back: no two accounts share an index, and the next
\* index is free.
EntitiesKnown ==
  \A a \in Everyone : IsEntity(a) =>
    entityByAddress[a] < entityIndex /\ entityByIndex[entityByAddress[a]] = a
AmbassadorsKnown ==
  \A a \in Everyone : IsAmbassador(a) =>
    ambassadorByAddress[a] < ambassadorIndex /\ ambassadorByIndex[ambassadorByAddress[a]] = a

AmbassadorsIInv == TablesTyped /\ EntitiesKnown /\ AmbassadorsKnown /\ TablesAgree

LEMMA AmbassadorsFinite == \A e : IsFiniteSet(AmbassadorsAt(e))
<1>1. IsFiniteSet(AmbassadorIndices)
  <2>1. 0 \in Int /\ MaxAmbassadors \in Int
    BY AmbassadorsAssumption
  <2> QED BY <2>1, FS_Interval DEF AmbassadorIndices
<1>2. \A e : AmbassadorsAt(e) \subseteq AmbassadorIndices
  BY DEF AmbassadorsAt
<1> QED BY <1>1, <1>2, FS_Subset

LEMMA AmbassadorsInitial == AmbassadorsInit => AmbassadorsIInv
<1> SUFFICES ASSUME AmbassadorsInit PROVE AmbassadorsIInv
  OBVIOUS
<1>1. TablesTyped
  BY AmbassadorsAssumption DEF AmbassadorsInit, TablesTyped, Everyone, EntityIndices, AmbassadorIndices
<1>2. EntitiesKnown /\ AmbassadorsKnown
  BY DEF AmbassadorsInit, EntitiesKnown, AmbassadorsKnown, IsEntity, IsAmbassador
<1>3. \A i \in AmbassadorIndices : ~Appointed(i)
  BY DEF AmbassadorsInit, Appointed, Everyone
<1>4. CommunitiesAppointed /\ CommunitiesListed /\ EntitiesExist
  BY <1>3 DEF AmbassadorsInit, CommunitiesAppointed, CommunitiesListed, EntitiesExist
<1>5. ASSUME NEW e \in EntityIndices \ {0}
      PROVE  AmbassadorsAt(e) = {} /\ entityAmbassadors[e] = Cardinality({})
  BY FS_EmptySet DEF AmbassadorsInit, AmbassadorsAt
<1> QED BY <1>1, <1>2, <1>4, <1>5 DEF AmbassadorsIInv, TablesAgree, AmbassadorsCounted

(***************************************************************************)
(* Entities.                                                                *)
(***************************************************************************)

\* What the tables say of ambassadors and communities.
SameAmbassadors == UNCHANGED <<ambassadorVars, memberVars, communityVars>>

\* Calls about entities disturb the entities alone.
LEMMA EntitiesApart ==
  ASSUME AmbassadorsIInv, SameAmbassadors, mishaps \subseteq mishaps',
         entityIndex' \in 1..(MaxEntities + 1),
         entityByAddress' \in [Everyone -> EntityIndices],
         entityByIndex' \in [EntityIndices -> Everyone],
         EntitiesKnown', EntitiesExist'
  PROVE  AmbassadorsIInv'
<1>1. TablesTyped' /\ AmbassadorsKnown'
  BY DEF AmbassadorsIInv, SameAmbassadors, ambassadorVars, memberVars, communityVars, TablesTyped,
         AmbassadorsKnown, IsAmbassador
<1>2. \A i \in AmbassadorIndices : Appointed(i)' <=> Appointed(i)
  BY DEF Appointed, SameAmbassadors, ambassadorVars
<1>3. CommunitiesAppointed' /\ CommunitiesListed'
  BY <1>2 DEF AmbassadorsIInv, TablesTyped, TablesAgree, CommunitiesAppointed, CommunitiesListed, SameAmbassadors, communityVars
<1>4. AmbassadorsCounted'
  <2>1. \A e : AmbassadorsAt(e)' = AmbassadorsAt(e)
    BY <1>2 DEF AmbassadorsAt, SameAmbassadors, memberVars
  <2> QED BY <2>1 DEF AmbassadorsIInv, TablesAgree, AmbassadorsCounted, SameAmbassadors, memberVars, Nobody
<1> QED BY <1>1, <1>3, <1>4 DEF AmbassadorsIInv, TablesAgree

LEMMA AddEntityKeeps ==
  ASSUME AmbassadorsIInv, NEW e \in Accounts, AddEntity(e)
  PROVE  AmbassadorsIInv'
<1>1. SameAmbassadors /\ mishaps' = mishaps
  BY DEF AddEntity, SameAmbassadors
<1>2. /\ entityIndex' \in 1..(MaxEntities + 1)
      /\ entityByAddress' \in [Everyone -> EntityIndices]
      /\ entityByIndex' \in [EntityIndices -> Everyone]
  <2>1. /\ entityIndex \in 1..(MaxEntities + 1)
        /\ entityByAddress \in [Everyone -> EntityIndices]
        /\ entityByIndex \in [EntityIndices -> Everyone]
    BY DEF AmbassadorsIInv, TablesTyped
  <2>2. MaxEntities \in Nat
    BY AmbassadorsAssumption
  <2>3. entityIndex \in EntityIndices /\ e \in Everyone
    BY <2>1, <2>2 DEF AddEntity, Everyone, EntityIndices
  <2>4. entityIndex' \in 1..(MaxEntities + 1)
    BY <2>1, <2>2, <2>3 DEF AddEntity, EntityIndices
  <2> QED BY <2>1, <2>3, <2>4 DEF AddEntity
<1>3. EntitiesKnown'
  <2>1. \A a \in Everyone : entityByAddress[a] # 0 =>
          entityByAddress[a] \in EntityIndices /\ entityByAddress[a] < entityIndex
          /\ entityByIndex[entityByAddress[a]] = a
    BY DEF AmbassadorsIInv, TablesTyped, EntitiesKnown, IsEntity
  <2>2. EntityIndices \subseteq Nat /\ entityIndex \in EntityIndices /\ e \in Everyone
    BY AmbassadorsAssumption DEF AddEntity, AmbassadorsIInv, TablesTyped, Everyone, EntityIndices
  <2>3. /\ entityByAddress' = [entityByAddress EXCEPT ![e] = entityIndex]
        /\ entityByIndex' = [entityByIndex EXCEPT ![entityIndex] = e]
        /\ entityIndex' = entityIndex + 1
    BY DEF AddEntity
  <2>4. ASSUME NEW a \in Everyone, entityByAddress'[a] # 0
        PROVE  entityByAddress'[a] < entityIndex' /\ entityByIndex'[entityByAddress'[a]] = a
    <3>1. CASE a = e
      BY <2>2, <2>3, <3>1 DEF AmbassadorsIInv, TablesTyped
    <3>2. CASE a # e
      <4>1. entityByAddress'[a] = entityByAddress[a]
        BY <2>3, <3>2 DEF AmbassadorsIInv, TablesTyped
      <4>2. /\ entityByAddress[a] \in EntityIndices /\ entityByAddress[a] < entityIndex
            /\ entityByIndex[entityByAddress[a]] = a
        BY <2>1, <2>4, <4>1
      <4>3. entityByIndex'[entityByAddress[a]] = a
        BY <2>2, <2>3, <4>2 DEF AmbassadorsIInv, TablesTyped
      <4>4. entityByAddress[a] \in Nat /\ entityIndex \in Nat
        BY <2>2, <4>2
      <4>5. entityByAddress[a] < entityIndex'
        BY <2>3, <4>2, <4>4
      <4> QED BY <4>1, <4>3, <4>5
    <3> QED BY <3>1, <3>2
  <2> QED BY <2>4 DEF EntitiesKnown, IsEntity
<1>4. ASSUME NEW k \in EntityIndices \ {0}, entityByAddress[entityByIndex[k]] = k
      PROVE  entityByAddress'[entityByIndex'[k]] = k
  BY <1>4, AmbassadorsAssumption
     DEF AddEntity, AmbassadorsIInv, TablesTyped, EntitiesKnown, IsEntity, Everyone, EntityIndices
<1>5. EntitiesExist'
  BY <1>1, <1>4 DEF AmbassadorsIInv, TablesTyped, TablesAgree, EntitiesExist, Appointed, Nobody, SameAmbassadors, ambassadorVars, memberVars
<1> QED BY <1>1, <1>2, <1>3, <1>5, EntitiesApart

\* Nobody is left behind: the entity's number of ambassadors is 0, and it counts them.
LEMMA RemoveEntityKeeps ==
  ASSUME AmbassadorsIInv, NEW e \in Accounts, RemoveEntity(e)
  PROVE  AmbassadorsIInv'
<1> DEFINE k == entityByAddress[e]
<1>1. /\ SameAmbassadors /\ mishaps' = mishaps /\ entityIndex' = entityIndex
      /\ entityByIndex' = [entityByIndex EXCEPT ![k] = NoAccount]
      /\ entityByAddress' = [entityByAddress EXCEPT ![e] = 0]
      /\ k # 0 /\ entityAmbassadors[k] = 0
  BY DEF RemoveEntity, Dismiss, IsEntity, SameAmbassadors
<1>2. k \in EntityIndices /\ e \in Everyone
  BY DEF AmbassadorsIInv, TablesTyped, Everyone
<1>3. /\ entityIndex' \in 1..(MaxEntities + 1)
      /\ entityByAddress' \in [Everyone -> EntityIndices]
      /\ entityByIndex' \in [EntityIndices -> Everyone]
  BY <1>1, <1>2, AmbassadorsAssumption DEF AmbassadorsIInv, TablesTyped, Everyone, EntityIndices
<1>4. EntitiesKnown'
  BY <1>1, <1>2 DEF AmbassadorsIInv, TablesTyped, EntitiesKnown, IsEntity
<1>5. ASSUME NEW i \in AmbassadorIndices, Appointed(i), ambassadorToEntity[i] = k
      PROVE  Nobody
  <2>1. IsFiniteSet(AmbassadorsAt(k))
    BY AmbassadorsFinite
  <2>2. i \in AmbassadorsAt(k)
    BY <1>5 DEF AmbassadorsAt
  <2>3. Cardinality(AmbassadorsAt(k)) # 0
    BY <2>1, <2>2, FS_EmptySet
  <2> QED BY <1>1, <1>2, <2>3 DEF AmbassadorsIInv, TablesAgree, AmbassadorsCounted
<1>6. ASSUME NEW j \in EntityIndices \ {0, k}, entityByAddress[entityByIndex[j]] = j
      PROVE  entityByAddress'[entityByIndex'[j]] = j
  BY <1>1, <1>2, <1>6 DEF AmbassadorsIInv, TablesTyped
<1>7. EntitiesExist'
  BY <1>1, <1>5, <1>6 DEF AmbassadorsIInv, TablesTyped, TablesAgree, EntitiesExist, Appointed, Nobody, SameAmbassadors, ambassadorVars, memberVars
<1> QED BY <1>1, <1>3, <1>4, <1>7, EntitiesApart

LEMMA ReplaceEntityKeeps ==
  ASSUME AmbassadorsIInv, NEW e \in Accounts, NEW new \in Accounts, ReplaceEntityAccount(e, new)
  PROVE  AmbassadorsIInv'
<1> DEFINE k == entityByAddress[e]
           lost == IF new = e THEN k ELSE entityByAddress[new]
<1>1. /\ SameAmbassadors /\ entityIndex' = entityIndex /\ k # 0
      /\ entityByIndex' = [entityByIndex EXCEPT ![k] = new]
      /\ entityByAddress' = [entityByAddress EXCEPT ![new] = k, ![e] = 0]
      /\ mishaps \subseteq mishaps' /\ (lost = 0 \/ <<"entity", lost>> \in mishaps')
  BY DEF ReplaceEntityAccount, IsEntity, SameAmbassadors
<1>2. k \in EntityIndices /\ e \in Everyone /\ new \in Everyone
  BY DEF AmbassadorsIInv, TablesTyped, Everyone
<1>3. /\ entityIndex' \in 1..(MaxEntities + 1)
      /\ entityByAddress' \in [Everyone -> EntityIndices]
      /\ entityByIndex' \in [EntityIndices -> Everyone]
  <2>1. 0 \in EntityIndices
    BY AmbassadorsAssumption DEF EntityIndices
  <2> QED BY <1>1, <1>2, <2>1 DEF AmbassadorsIInv, TablesTyped
<1>4. EntitiesKnown'
  BY <1>1, <1>2 DEF AmbassadorsIInv, TablesTyped, EntitiesKnown, IsEntity
<1>5. ASSUME NEW j \in EntityIndices \ {0}, entityByAddress[entityByIndex[j]] = j, j # lost
      PROVE  entityByAddress'[entityByIndex'[j]] = j
  BY <1>1, <1>2, <1>5 DEF AmbassadorsIInv, TablesTyped
<1>6. Nobody => Nobody'
  BY <1>1 DEF Nobody
<1>7. EntitiesExist'
  BY <1>1, <1>5, <1>6 DEF AmbassadorsIInv, TablesTyped, TablesAgree, EntitiesExist, Appointed, SameAmbassadors, ambassadorVars, memberVars
<1> QED BY <1>1, <1>3, <1>4, <1>7, EntitiesApart

(***************************************************************************)
(* Ambassadors.                                                             *)
(***************************************************************************)
SameEntities == UNCHANGED entityVars
SameCommunities == UNCHANGED communityVars

LEMMA AddAmbassadorKeeps ==
  ASSUME AmbassadorsIInv, NEW sender \in Accounts, NEW a \in Accounts, AddAmbassador(sender, a)
  PROVE  AmbassadorsIInv'
<1>0. PICK i, e : i = ambassadorIndex /\ e = entityByAddress[sender]
  OBVIOUS
<1>1. /\ SameEntities /\ SameCommunities /\ mishaps' = mishaps
      /\ ambassadorByAddress' = [ambassadorByAddress EXCEPT ![a] = i]
      /\ ambassadorByIndex' = [ambassadorByIndex EXCEPT ![i] = a]
      /\ ambassadorToEntity' = [ambassadorToEntity EXCEPT ![i] = e]
      /\ entityAmbassadors' = [entityAmbassadors EXCEPT ![e] = @ + 1]
      /\ ambassadorIndex' = i + 1
      /\ e # 0 /\ ambassadorByAddress[a] = 0
  BY <1>0 DEF AddAmbassador, IsEntity, IsAmbassador, SameEntities, SameCommunities
<1>2. /\ i \in AmbassadorIndices \ {0} /\ i + 1 \in 1..(MaxAmbassadors + 1) /\ i \in Nat
      /\ e \in EntityIndices /\ a \in Everyone /\ sender \in Everyone
  BY <1>0, AmbassadorsAssumption DEF AddAmbassador, AmbassadorsIInv, TablesTyped, Everyone, AmbassadorIndices
<1>3. TablesTyped'
  BY <1>0, <1>1, <1>2 DEF AmbassadorsIInv, TablesTyped, SameEntities, SameCommunities, entityVars, communityVars
<1>4. EntitiesKnown'
  BY <1>0, <1>1 DEF AmbassadorsIInv, EntitiesKnown, IsEntity, SameEntities, entityVars
<1>5. /\ ambassadorByAddress'[a] = i
      /\ \A b \in Everyone \ {a} : ambassadorByAddress'[b] = ambassadorByAddress[b]
      /\ ambassadorByIndex'[i] = a
      /\ \A j \in AmbassadorIndices \ {i} : ambassadorByIndex'[j] = ambassadorByIndex[j]
  BY <1>0, <1>1, <1>2 DEF AmbassadorsIInv, TablesTyped
<1>6. /\ ambassadorToEntity'[i] = e
      /\ \A j \in AmbassadorIndices \ {i} : ambassadorToEntity'[j] = ambassadorToEntity[j]
      /\ entityAmbassadors'[e] = entityAmbassadors[e] + 1
      /\ \A f \in EntityIndices \ {e} : entityAmbassadors'[f] = entityAmbassadors[f]
  BY <1>0, <1>1, <1>2 DEF AmbassadorsIInv, TablesTyped
<1>7. \A b \in Everyone : ambassadorByAddress[b] \in Nat /\ ambassadorByAddress[b] # i
  <2>1. ASSUME NEW b \in Everyone PROVE ambassadorByAddress[b] \in Nat
    BY AmbassadorsAssumption DEF AmbassadorsIInv, TablesTyped, AmbassadorIndices
  <2>2. ASSUME NEW b \in Everyone, ambassadorByAddress[b] # 0 PROVE ambassadorByAddress[b] < i
    BY <1>0, <2>2 DEF AmbassadorsIInv, AmbassadorsKnown, IsAmbassador
  <2> QED BY <1>0, <1>2, <2>1, <2>2
<1>8. e # 0 /\ entityByAddress[entityByIndex[e]] = e
  BY <1>0, <1>1, <1>2 DEF AmbassadorsIInv, EntitiesKnown, IsEntity
<1>9. SameEntities /\ SameCommunities /\ mishaps' = mishaps /\ (Nobody' <=> Nobody)
  BY <1>0, <1>1 DEF Nobody
<1>10. ambassadorIndex' = i + 1 /\ ambassadorByAddress[a] = 0
  BY <1>1
<1>11. AmbassadorsKnown'
  <2>1. ASSUME NEW b \in Everyone \ {a}, ambassadorByAddress[b] # 0
        PROVE  ambassadorByAddress[b] < i /\ ambassadorByIndex[ambassadorByAddress[b]] = b
    BY <1>0, <2>1 DEF AmbassadorsIInv, AmbassadorsKnown, IsAmbassador
  <2>2. ASSUME NEW b \in Everyone \ {a}, ambassadorByAddress'[b] # 0
        PROVE  ambassadorByAddress'[b] < i + 1 /\ ambassadorByIndex'[ambassadorByAddress'[b]] = b
    <3>1. ambassadorByAddress[b] \in AmbassadorIndices
      BY DEF AmbassadorsIInv, TablesTyped
    <3> QED BY <1>0, <1>2, <1>5, <1>7, <2>1, <2>2, <3>1
  <2> QED BY <1>0, <1>2, <1>5, <1>10, <2>2 DEF AmbassadorsKnown, IsAmbassador
<1>12. /\ ~Appointed(i) /\ Appointed(i)'
       /\ \A j \in AmbassadorIndices \ {i} : Appointed(j)' <=> Appointed(j)
  <2>1. \A j \in AmbassadorIndices : ambassadorByIndex[j] \in Everyone
    BY DEF AmbassadorsIInv, TablesTyped
  <2> QED BY <1>0, <1>2, <1>5, <1>7, <1>10, <2>1 DEF Appointed
<1>13. CommunitiesAppointed' /\ CommunitiesListed'
  BY <1>9, <1>12
     DEF AmbassadorsIInv, TablesTyped, TablesAgree, CommunitiesAppointed, CommunitiesListed, SameCommunities, communityVars
<1>14. AmbassadorsCounted'
  <2>1. AmbassadorsAt(e)' = AmbassadorsAt(e) \cup {i} /\ i \notin AmbassadorsAt(e)
    BY <1>0, <1>2, <1>6, <1>12 DEF AmbassadorsAt
  <2>2. Cardinality(AmbassadorsAt(e)') = Cardinality(AmbassadorsAt(e)) + 1
    BY <2>1, AmbassadorsFinite, FS_AddElement
  <2>3. ASSUME NEW f \in EntityIndices \ {e} PROVE AmbassadorsAt(f)' = AmbassadorsAt(f)
    <3>1. i \notin AmbassadorsAt(f) /\ i \notin AmbassadorsAt(f)'
      BY <1>2, <1>6, <1>12 DEF AmbassadorsAt
    <3>2. \A j \in AmbassadorIndices \ {i} : j \in AmbassadorsAt(f)' <=> j \in AmbassadorsAt(f)
      BY <1>6, <1>12 DEF AmbassadorsAt
    <3>3. AmbassadorsAt(f)' \subseteq AmbassadorIndices /\ AmbassadorsAt(f) \subseteq AmbassadorIndices
      BY DEF AmbassadorsAt
    <3> QED BY <3>1, <3>2, <3>3
  <2> QED
    BY <1>0, <1>2, <1>6, <1>9, <2>2, <2>3 DEF AmbassadorsIInv, TablesAgree, AmbassadorsCounted
<1>15. EntitiesExist'
  BY <1>6, <1>8, <1>9, <1>12 DEF AmbassadorsIInv, TablesAgree, EntitiesExist, SameEntities, entityVars
<1> QED BY <1>3, <1>4, <1>11, <1>13, <1>14, <1>15 DEF AmbassadorsIInv, TablesAgree

\* Only an ambassador without communities goes, so that no community's ambassador does.
LEMMA RemoveAmbassadorKeeps ==
  ASSUME AmbassadorsIInv, NEW sender \in Accounts, NEW a \in Accounts, RemoveAmbassador(sender, a)
  PROVE  AmbassadorsIInv'
<1>0. PICK i, e : i = ambassadorByAddress[a] /\ e = entityByAddress[sender]
  OBVIOUS
<1>1. /\ SameEntities /\ SameCommunities /\ UNCHANGED <<ambassadorIndex, ambassadorByIndex, ambassadorToEntity>>
      /\ ambassadorByAddress' = [ambassadorByAddress EXCEPT ![a] = 0]
      /\ entityAmbassadors' = [entityAmbassadors EXCEPT ![e] = @ - 1]
      /\ mishaps \subseteq mishaps' /\ (Nobody => Nobody') /\ (i = 0 => Nobody')
      /\ ambassadorToEntity[i] = e /\ ambassadorCommunities[i] = {} /\ entityAmbassadors[e] > 0
      /\ e # 0
  BY <1>0 DEF RemoveAmbassador, IsEntity, IsAmbassador, IsAmbassadorAt, SameEntities, SameCommunities, Nobody
<1>2. /\ i \in AmbassadorIndices /\ e \in EntityIndices /\ a \in Everyone
      /\ 0 \in AmbassadorIndices
  BY <1>0, AmbassadorsAssumption DEF AmbassadorsIInv, TablesTyped, Everyone, AmbassadorIndices
<1>3. TablesTyped'
  <2>1. entityAmbassadors' \in [EntityIndices -> Nat]
    BY <1>0, <1>1, <1>2 DEF AmbassadorsIInv, TablesTyped
  <2> QED BY <1>0, <1>1, <1>2, <2>1 DEF AmbassadorsIInv, TablesTyped, SameEntities, SameCommunities, entityVars, communityVars
<1>4. EntitiesKnown'
  BY <1>0, <1>1 DEF AmbassadorsIInv, EntitiesKnown, IsEntity, SameEntities, entityVars
<1>5. AmbassadorsKnown'
  BY <1>0, <1>1, <1>2 DEF AmbassadorsIInv, TablesTyped, AmbassadorsKnown, IsAmbassador
<1>6. \A j \in AmbassadorIndices : Appointed(j)' <=> (Appointed(j) /\ j # i)
  BY <1>0, <1>1, <1>2 DEF AmbassadorsIInv, TablesTyped, AmbassadorsKnown, IsAmbassador, Appointed
<1>7. i # 0 => Appointed(i)
  BY <1>0, <1>2 DEF AmbassadorsIInv, AmbassadorsKnown, IsAmbassador, Appointed
<1>8. CommunitiesAppointed' /\ CommunitiesListed'
  BY <1>0, <1>1, <1>6
     DEF AmbassadorsIInv, TablesTyped, TablesAgree, CommunitiesAppointed, CommunitiesListed, SameCommunities, communityVars
<1>9. AmbassadorsCounted'
  <2>1. CASE i = 0
    BY <1>0, <1>1, <2>1 DEF AmbassadorsCounted
  <2>2. CASE i # 0
    <3>0. /\ ambassadorToEntity' = ambassadorToEntity /\ ambassadorToEntity[i] = e /\ (Nobody => Nobody')
          /\ entityAmbassadors[e] \in Nat /\ entityAmbassadors'[e] = entityAmbassadors[e] - 1
          /\ \A f \in EntityIndices \ {e} : entityAmbassadors'[f] = entityAmbassadors[f]
      BY <1>0, <1>1, <1>2 DEF AmbassadorsIInv, TablesTyped
    <3>1. AmbassadorsAt(e)' = AmbassadorsAt(e) \ {i} /\ i \in AmbassadorsAt(e)
      BY <3>0, <1>2, <1>6, <1>7, <2>2 DEF AmbassadorsAt
    <3>2. Cardinality(AmbassadorsAt(e)') = Cardinality(AmbassadorsAt(e)) - 1
      BY <3>1, AmbassadorsFinite, FS_RemoveElement
    <3>3. \A f \in EntityIndices \ {e} : AmbassadorsAt(f)' = AmbassadorsAt(f)
      BY <3>0, <1>2, <1>6, <2>2 DEF AmbassadorsAt
    <3> QED
      BY <3>0, <1>2, <3>2, <3>3 DEF AmbassadorsIInv, TablesAgree, AmbassadorsCounted
  <2> QED BY <2>1, <2>2
<1>10. EntitiesExist'
  BY <1>0, <1>1, <1>6 DEF AmbassadorsIInv, TablesAgree, EntitiesExist, SameEntities, entityVars
<1> QED BY <1>3, <1>4, <1>5, <1>8, <1>9, <1>10 DEF AmbassadorsIInv, TablesAgree

\* An index goes from one account to another: who is appointed stays the same.
LEMMA ReplaceAmbassadorKeeps ==
  ASSUME AmbassadorsIInv, NEW sender, NEW old \in Accounts, NEW new \in Accounts,
         ReplaceAmbassador(sender, old, new)
  PROVE  AmbassadorsIInv'
<1> DEFINE i == ambassadorByAddress[old]
<1>1. /\ SameEntities /\ SameCommunities /\ UNCHANGED <<ambassadorIndex, memberVars, mishaps>>
      /\ ambassadorByIndex' = [ambassadorByIndex EXCEPT ![i] = new]
      /\ ambassadorByAddress' = [ambassadorByAddress EXCEPT ![new] = i, ![old] = 0]
      /\ ambassadorByAddress[new] = 0
  BY DEF ReplaceAmbassador, ReplacedAmbassador, IsAmbassador, SameEntities, SameCommunities
<1>2. i \in AmbassadorIndices /\ old \in Everyone /\ new \in Everyone /\ 0 \in AmbassadorIndices
  BY AmbassadorsAssumption DEF AmbassadorsIInv, TablesTyped, Everyone, AmbassadorIndices
<1>3. TablesTyped'
  BY <1>1, <1>2 DEF AmbassadorsIInv, TablesTyped, SameEntities, SameCommunities, entityVars, communityVars, memberVars
<1>4. EntitiesKnown'
  BY <1>1 DEF AmbassadorsIInv, EntitiesKnown, IsEntity, SameEntities, entityVars
<1>5. AmbassadorsKnown'
  BY <1>1, <1>2 DEF AmbassadorsIInv, TablesTyped, AmbassadorsKnown, IsAmbassador
<1>6. \A j \in AmbassadorIndices : Appointed(j)' <=> Appointed(j)
  BY <1>1, <1>2 DEF AmbassadorsIInv, TablesTyped, AmbassadorsKnown, IsAmbassador, Appointed
<1>7. CommunitiesAppointed' /\ CommunitiesListed'
  BY <1>1, <1>6
     DEF AmbassadorsIInv, TablesTyped, TablesAgree, CommunitiesAppointed, CommunitiesListed, SameCommunities, communityVars
<1>8. AmbassadorsCounted'
  <2>1. \A e : AmbassadorsAt(e)' = AmbassadorsAt(e)
    BY <1>1, <1>6 DEF AmbassadorsAt, memberVars
  <2> QED BY <1>1, <2>1 DEF AmbassadorsIInv, TablesAgree, AmbassadorsCounted, Nobody, memberVars
<1>9. EntitiesExist'
  BY <1>1, <1>6 DEF AmbassadorsIInv, TablesAgree, EntitiesExist, Nobody, SameEntities, entityVars, memberVars
<1> QED BY <1>3, <1>4, <1>5, <1>7, <1>8, <1>9 DEF AmbassadorsIInv, TablesAgree

\* An ambassador, or nobody, moves from one entity's count to another's, or to none's.
LEMMA TransferAmbassadorKeeps ==
  ASSUME AmbassadorsIInv, NEW sender, NEW a \in Accounts, NEW to \in Accounts,
         TransferAmbassador(sender, a, to)
  PROVE  AmbassadorsIInv'
<1>0. PICK i, from, e : i = ambassadorByAddress[a] /\ from = ambassadorToEntity[i] /\ e = entityByAddress[to]
  OBVIOUS
<1>1. /\ SameEntities /\ SameCommunities /\ UNCHANGED <<ambassadorVars, mishaps>>
      /\ ambassadorToEntity' = [ambassadorToEntity EXCEPT ![i] = e]
      /\ entityAmbassadors' = [[entityAmbassadors EXCEPT ![from] = @ - 1] EXCEPT ![e] = @ + 1]
      /\ entityAmbassadors[from] > 0
  BY <1>0 DEF TransferAmbassador, SameEntities, SameCommunities
<1>2. i \in AmbassadorIndices /\ from \in EntityIndices /\ e \in EntityIndices /\ a \in Everyone /\ to \in Everyone
  BY <1>0 DEF AmbassadorsIInv, TablesTyped, Everyone
<1>3. TablesTyped'
  <2>1. entityAmbassadors' \in [EntityIndices -> Nat]
    <3> DEFINE less == [entityAmbassadors EXCEPT ![from] = @ - 1]
    <3>1. less \in [EntityIndices -> Nat]
      BY <1>1, <1>2 DEF AmbassadorsIInv, TablesTyped
    <3>2. entityAmbassadors' = [less EXCEPT ![e] = @ + 1]
      BY <1>1
    <3> QED BY <1>2, <3>1, <3>2
  <2> QED
    BY <1>0, <1>1, <1>2, <2>1 DEF AmbassadorsIInv, TablesTyped, SameEntities, SameCommunities, entityVars, communityVars, ambassadorVars
<1>4. EntitiesKnown' /\ AmbassadorsKnown'
  BY <1>0, <1>1 DEF AmbassadorsIInv, EntitiesKnown, AmbassadorsKnown, IsEntity, IsAmbassador, SameEntities, entityVars, ambassadorVars
<1>5. \A j : Appointed(j)' <=> Appointed(j)
  BY <1>0, <1>1 DEF Appointed, ambassadorVars
<1>6. i = 0 \/ Appointed(i)
  BY <1>0, <1>2 DEF AmbassadorsIInv, AmbassadorsKnown, IsAmbassador, Appointed
<1>7. CommunitiesAppointed' /\ CommunitiesListed'
  BY <1>0, <1>1, <1>5
     DEF AmbassadorsIInv, TablesTyped, TablesAgree, CommunitiesAppointed, CommunitiesListed, SameCommunities, communityVars
<1>8. /\ ambassadorToEntity'[i] = e /\ ambassadorToEntity[i] = from
      /\ \A j \in AmbassadorIndices \ {i} : ambassadorToEntity'[j] = ambassadorToEntity[j]
  BY <1>0, <1>1, <1>2 DEF AmbassadorsIInv, TablesTyped
<1>9. /\ from = e => entityAmbassadors' = entityAmbassadors
      /\ from # e => /\ entityAmbassadors'[from] = entityAmbassadors[from] - 1
                     /\ entityAmbassadors'[e] = entityAmbassadors[e] + 1
      /\ \A f \in EntityIndices \ {from, e} : entityAmbassadors'[f] = entityAmbassadors[f]
  BY <1>0, <1>1, <1>2 DEF AmbassadorsIInv, TablesTyped
<1>10. SameEntities /\ (Nobody' <=> Nobody) /\ mishaps' = mishaps
  BY <1>0, <1>1 DEF Nobody
<1>11. e # 0 => entityByAddress[entityByIndex[e]] = e
  BY <1>0, <1>2 DEF AmbassadorsIInv, EntitiesKnown, IsEntity
<1>12. AmbassadorsCounted'
  <2>1. CASE from = e
    <3>1. \A f : AmbassadorsAt(f)' = AmbassadorsAt(f)
      BY <1>5, <1>8, <2>1 DEF AmbassadorsAt
    <3> QED BY <1>9, <1>10, <2>1, <3>1 DEF AmbassadorsIInv, TablesAgree, AmbassadorsCounted
  <2>2. CASE from # e
    <3>1. AmbassadorsAt(from)' = AmbassadorsAt(from) \ {i} /\ i \in AmbassadorsAt(from)
      BY <1>0, <1>2, <1>5, <1>6, <1>8, <2>2 DEF AmbassadorsAt
    <3>2. AmbassadorsAt(e)' = AmbassadorsAt(e) \cup {i} /\ i \notin AmbassadorsAt(e)
      BY <1>0, <1>2, <1>5, <1>6, <1>8, <2>2 DEF AmbassadorsAt
    <3>3. \A f \in EntityIndices \ {from, e} : AmbassadorsAt(f)' = AmbassadorsAt(f)
      BY <1>0, <1>2, <1>5, <1>8 DEF AmbassadorsAt
    <3>4. Cardinality(AmbassadorsAt(from)') = Cardinality(AmbassadorsAt(from)) - 1
      BY <3>1, AmbassadorsFinite, FS_RemoveElement
    <3>5. Cardinality(AmbassadorsAt(e)') = Cardinality(AmbassadorsAt(e)) + 1
      BY <3>2, AmbassadorsFinite, FS_AddElement
    <3> QED BY <1>0, <1>2, <1>9, <1>10, <2>2, <3>3, <3>4, <3>5 DEF AmbassadorsIInv, TablesAgree, AmbassadorsCounted
  <2> QED BY <2>1, <2>2
<1>13. EntitiesExist'
  BY <1>5, <1>8, <1>10, <1>11 DEF AmbassadorsIInv, TablesAgree, EntitiesExist, SameEntities, entityVars
<1> QED BY <1>3, <1>4, <1>7, <1>12, <1>13 DEF AmbassadorsIInv, TablesAgree

(***************************************************************************)
(* Communities.                                                             *)
(***************************************************************************)
LEMMA CommunitiesApart ==
  ASSUME AmbassadorsIInv, UNCHANGED <<entityVars, ambassadorVars, memberVars>>, Nobody' <=> Nobody,
         \A e : <<"entity", e>> \in mishaps => <<"entity", e>> \in mishaps',
         communityToAmbassador' \in [Assigned -> AmbassadorIndices],
         ambassadorCommunities' \in [AmbassadorIndices -> SUBSET Assigned],
         CommunitiesAppointed', CommunitiesListed'
  PROVE  AmbassadorsIInv'
<1>1. TablesTyped' /\ EntitiesKnown' /\ AmbassadorsKnown'
  BY DEF AmbassadorsIInv, TablesTyped, EntitiesKnown, AmbassadorsKnown, IsEntity, IsAmbassador,
         entityVars, ambassadorVars, memberVars
<1>2. \A i : Appointed(i)' <=> Appointed(i)
  BY DEF Appointed, ambassadorVars
<1>3. \A e : AmbassadorsAt(e)' = AmbassadorsAt(e)
  BY <1>2 DEF AmbassadorsAt, memberVars
<1>4. AmbassadorsCounted'
  BY <1>3 DEF AmbassadorsIInv, TablesAgree, AmbassadorsCounted, memberVars
<1>5. EntitiesExist'
  BY <1>2 DEF AmbassadorsIInv, TablesAgree, EntitiesExist, entityVars, memberVars
<1> QED BY <1>1, <1>4, <1>5 DEF AmbassadorsIInv, TablesAgree

LEMMA TransferCommunityKeeps ==
  ASSUME AmbassadorsIInv, NEW sender, NEW to \in Accounts, NEW c \in Assigned,
         TransferCommunityToAmbassador(sender, to, c)
  PROVE  AmbassadorsIInv'
<1> DEFINE i == communityToAmbassador[c]
           j == ambassadorByAddress[to]
<1>1. /\ UNCHANGED <<entityVars, ambassadorVars, memberVars, mishaps>>
      /\ communityToAmbassador' = [communityToAmbassador EXCEPT ![c] = j]
      /\ ambassadorCommunities' =
           [[ambassadorCommunities EXCEPT ![i] = @ \ {c}] EXCEPT ![j] = @ \cup {c}]
      /\ i # j
  BY DEF TransferCommunityToAmbassador, IsAmbassadorOf
<1>2. i \in AmbassadorIndices /\ j \in AmbassadorIndices /\ to \in Everyone
  BY DEF AmbassadorsIInv, TablesTyped, Everyone
<1>3. /\ communityToAmbassador' \in [Assigned -> AmbassadorIndices]
      /\ ambassadorCommunities' \in [AmbassadorIndices -> SUBSET Assigned]
  BY <1>1, <1>2 DEF AmbassadorsIInv, TablesTyped
<1>4. /\ ambassadorCommunities'[i] = ambassadorCommunities[i] \ {c}
      /\ ambassadorCommunities'[j] = ambassadorCommunities[j] \cup {c}
      /\ \A k \in AmbassadorIndices \ {i, j} : ambassadorCommunities'[k] = ambassadorCommunities[k]
      /\ communityToAmbassador'[c] = j
      /\ \A d \in Assigned \ {c} : communityToAmbassador'[d] = communityToAmbassador[d]
  BY <1>1, <1>2 DEF AmbassadorsIInv, TablesTyped
<1>5. (j # 0 => Appointed(j)) /\ \A k : Appointed(k)' <=> Appointed(k)
  BY <1>1, <1>2 DEF AmbassadorsIInv, AmbassadorsKnown, IsAmbassador, Appointed, ambassadorVars
<1>6. CommunitiesAppointed'
  <2>1. ASSUME NEW d \in Assigned, communityToAmbassador'[d] # 0
        PROVE  Appointed(communityToAmbassador'[d])
               /\ d \in ambassadorCommunities'[communityToAmbassador'[d]]
    <3>1. CASE d = c
      BY <1>2, <1>4, <1>5, <2>1, <3>1
    <3>2. CASE d # c
      <4>1. communityToAmbassador'[d] = communityToAmbassador[d] /\ communityToAmbassador[d] \in AmbassadorIndices
        BY <1>4, <3>2 DEF AmbassadorsIInv, TablesTyped
      <4>2. Appointed(communityToAmbassador[d]) /\ d \in ambassadorCommunities[communityToAmbassador[d]]
        BY <2>1, <4>1 DEF AmbassadorsIInv, TablesAgree, CommunitiesAppointed
      <4> QED BY <1>4, <3>2, <4>1, <4>2
    <3> QED BY <3>1, <3>2
  <2> QED BY <1>5, <2>1 DEF CommunitiesAppointed, Appointed
<1>7. CommunitiesListed'
  <2>1. mishaps' = mishaps /\ i = communityToAmbassador[c] /\ i # j
    BY <1>1
  <2>2. \A k \in AmbassadorIndices \ {0} : \A d \in ambassadorCommunities[k] :
          d \in Assigned /\ (communityToAmbassador[d] = k \/ <<"community", d>> \in mishaps)
    BY DEF AmbassadorsIInv, TablesTyped, TablesAgree, CommunitiesListed
  <2> HIDE DEF i, j
  <2>3. ASSUME NEW k \in AmbassadorIndices \ {0}, NEW d \in ambassadorCommunities'[k]
        PROVE  communityToAmbassador'[d] = k \/ <<"community", d>> \in mishaps
    <3>1. CASE k = i
      BY <1>4, <2>1, <2>2, <3>1
    <3>2. CASE k = j
      BY <1>4, <2>1, <2>2, <3>2
    <3>3. CASE k \notin {i, j}
      BY <1>4, <2>1, <2>2, <3>3
    <3> QED BY <3>1, <3>2, <3>3
  <2> QED BY <2>1, <2>3 DEF CommunitiesListed
<1> QED BY <1>1, <1>3, <1>6, <1>7, CommunitiesApart DEF Nobody

LEMMA SetCommunityKeeps ==
  ASSUME AmbassadorsIInv, NEW a \in Accounts, NEW c \in Assigned, SetCommunityToAmbassador(a, c)
  PROVE  AmbassadorsIInv'
<1> DEFINE j == ambassadorByAddress[a]
<1>1. /\ UNCHANGED <<entityVars, ambassadorVars, memberVars>>
      /\ communityToAmbassador' = [communityToAmbassador EXCEPT ![c] = j]
      /\ ambassadorCommunities' = [ambassadorCommunities EXCEPT ![j] = @ \cup {c}]
      /\ j # 0
      /\ mishaps \subseteq mishaps' /\ (Nobody' <=> Nobody)
      /\ communityToAmbassador[c] = 0 \/ <<"community", c>> \in mishaps'
  <2>1. <<"nobody removed">> # <<"community", c>>
    OBVIOUS
  <2> QED BY <2>1 DEF SetCommunityToAmbassador, IsAmbassador, Nobody
<1>2. j \in AmbassadorIndices /\ a \in Everyone
  BY DEF AmbassadorsIInv, TablesTyped, Everyone
<1>3. /\ communityToAmbassador' \in [Assigned -> AmbassadorIndices]
      /\ ambassadorCommunities' \in [AmbassadorIndices -> SUBSET Assigned]
  BY <1>1, <1>2 DEF AmbassadorsIInv, TablesTyped
<1>4. /\ ambassadorCommunities'[j] = ambassadorCommunities[j] \cup {c}
      /\ \A k \in AmbassadorIndices \ {j} : ambassadorCommunities'[k] = ambassadorCommunities[k]
      /\ communityToAmbassador'[c] = j
      /\ \A d \in Assigned \ {c} : communityToAmbassador'[d] = communityToAmbassador[d]
  BY <1>1, <1>2 DEF AmbassadorsIInv, TablesTyped
<1>5. Appointed(j) /\ \A k : Appointed(k)' <=> Appointed(k)
  BY <1>1, <1>2 DEF AmbassadorsIInv, AmbassadorsKnown, IsAmbassador, Appointed, ambassadorVars
<1>6. CommunitiesAppointed'
  BY <1>2, <1>4, <1>5 DEF AmbassadorsIInv, TablesTyped, TablesAgree, CommunitiesAppointed
<1>7. CommunitiesListed'
  <2>1. \A k \in AmbassadorIndices \ {0} : \A d \in ambassadorCommunities[k] :
          d \in Assigned /\ (communityToAmbassador[d] = k \/ <<"community", d>> \in mishaps)
    BY DEF AmbassadorsIInv, TablesTyped, TablesAgree, CommunitiesListed
  <2>2. ASSUME NEW k \in AmbassadorIndices \ {0}, NEW d \in ambassadorCommunities'[k]
        PROVE  communityToAmbassador'[d] = k \/ <<"community", d>> \in mishaps'
    <3>1. CASE d = c
      BY <1>1, <1>4, <2>1, <2>2, <3>1
    <3>2. CASE d # c
      BY <1>1, <1>4, <2>1, <2>2, <3>2
    <3> QED BY <3>1, <3>2
  <2> QED BY <2>2 DEF CommunitiesListed
<1> QED BY <1>1, <1>3, <1>6, <1>7, CommunitiesApart

LEMMA RemoveCommunityKeeps ==
  ASSUME AmbassadorsIInv, NEW c \in Assigned, RemoveCommunityOfAmbassador(c)
  PROVE  AmbassadorsIInv'
<1> DEFINE i == communityToAmbassador[c]
<1>1. /\ UNCHANGED <<entityVars, ambassadorVars, memberVars, mishaps>>
      /\ communityToAmbassador' = [communityToAmbassador EXCEPT ![c] = 0]
      /\ ambassadorCommunities' = [ambassadorCommunities EXCEPT ![i] = @ \ {c}]
  BY DEF RemoveCommunityOfAmbassador, IsAmbassadorOf
<1>2. i \in AmbassadorIndices /\ 0 \in AmbassadorIndices
  BY AmbassadorsAssumption DEF AmbassadorsIInv, TablesTyped, AmbassadorIndices
<1>3. /\ communityToAmbassador' \in [Assigned -> AmbassadorIndices]
      /\ ambassadorCommunities' \in [AmbassadorIndices -> SUBSET Assigned]
  BY <1>1, <1>2 DEF AmbassadorsIInv, TablesTyped
<1>4. \A k : Appointed(k)' <=> Appointed(k)
  BY <1>1 DEF Appointed, ambassadorVars
<1>5. CommunitiesAppointed' /\ CommunitiesListed'
  BY <1>1, <1>2, <1>4 DEF AmbassadorsIInv, TablesTyped, TablesAgree, CommunitiesAppointed, CommunitiesListed
<1> QED BY <1>1, <1>3, <1>5, CommunitiesApart DEF Nobody

(***************************************************************************)
(* The specification.                                                       *)
(***************************************************************************)
LEMMA AmbassadorsInductive == AmbassadorsIInv /\ [AmbassadorsNext]_ambassadorsVars => AmbassadorsIInv'
<1> SUFFICES ASSUME AmbassadorsIInv, [AmbassadorsNext]_ambassadorsVars PROVE AmbassadorsIInv'
  OBVIOUS
<1>1. CASE UNCHANGED ambassadorsVars
  <2>1. SameAmbassadors /\ mishaps' = mishaps /\ UNCHANGED entityVars
    BY <1>1 DEF ambassadorsVars, SameAmbassadors
  <2>2. EntitiesKnown' /\ EntitiesExist'
    BY <2>1 DEF AmbassadorsIInv, TablesAgree, EntitiesKnown, EntitiesExist, IsEntity, Appointed, Nobody,
                SameAmbassadors, ambassadorVars, memberVars, entityVars
  <2> QED BY <2>1, <2>2, EntitiesApart DEF entityVars, AmbassadorsIInv, TablesTyped
<1>2. ASSUME NEW e \in Accounts, AddEntity(e) \/ RemoveEntity(e) PROVE AmbassadorsIInv'
  BY <1>2, AddEntityKeeps, RemoveEntityKeeps
<1>3. ASSUME NEW e \in Accounts, NEW new \in Accounts, ReplaceEntityAccount(e, new) PROVE AmbassadorsIInv'
  BY <1>3, ReplaceEntityKeeps
<1>4. ASSUME NEW sender \in Accounts, NEW a \in Accounts, AddAmbassador(sender, a) \/ RemoveAmbassador(sender, a)
      PROVE  AmbassadorsIInv'
  BY <1>4, AddAmbassadorKeeps, RemoveAmbassadorKeeps
<1>5. ASSUME NEW sender \in Accounts \cup {Owner}, NEW old \in Accounts, NEW new \in Accounts,
             ReplaceAmbassador(sender, old, new)
      PROVE  AmbassadorsIInv'
  BY <1>5, ReplaceAmbassadorKeeps
<1>6. ASSUME NEW sender \in Accounts \cup {Owner}, NEW a \in Accounts, NEW to \in Accounts,
             TransferAmbassador(sender, a, to)
      PROVE  AmbassadorsIInv'
  BY <1>6, TransferAmbassadorKeeps
<1>7. ASSUME NEW sender \in Accounts \cup {Owner}, NEW to \in Accounts, NEW c \in Assigned,
             TransferCommunityToAmbassador(sender, to, c)
      PROVE  AmbassadorsIInv'
  BY <1>7, TransferCommunityKeeps
<1>8. ASSUME NEW a \in Accounts, NEW c \in Assigned, SetCommunityToAmbassador(a, c) PROVE AmbassadorsIInv'
  BY <1>8, SetCommunityKeeps
<1>9. ASSUME NEW c \in Assigned, RemoveCommunityOfAmbassador(c) PROVE AmbassadorsIInv'
  BY <1>9, RemoveCommunityKeeps
<1> QED BY <1>1, <1>2, <1>3, <1>4, <1>5, <1>6, <1>7, <1>8, <1>9 DEF AmbassadorsNext

\* For any accounts and communities, and any order of calls: communities, ambassadors and
\* entities are tied in both directions, but for what `mishaps` names (every call of
\* AmbassadorsImplementation.sol).
THEOREM AmbassadorTablesAgree == AmbassadorsSpec => []TablesAgree
<1>1. AmbassadorsIInv => TablesAgree
  BY DEF AmbassadorsIInv
<1> QED BY AmbassadorsInitial, AmbassadorsInductive, <1>1, PTL DEF AmbassadorsSpec
==============================================================================
