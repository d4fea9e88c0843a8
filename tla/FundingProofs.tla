----------------------------- MODULE FundingProofs -----------------------------
(***************************************************************************)
(* Theorems about DonationMiner for every set of donors, every settings,    *)
(* amounts, blocks and number of calls: everybody is given each share once, *)
(* and all together no more than the blocks of the periods that are over    *)
(* have brought.                                                            *)
(*                                                                           *)
(* The inductive invariant is Books, a predicate of the periods, the stakes *)
(* at their ends, the donors and what each was given.  Each kind of call is *)
(* a lemma about such books (a period begins, a donation, a change of a     *)
(* stake, a claim), whatever periods they are: a call first begins the      *)
(* periods that are missing, and then changes the last one, or one that is  *)
(* over.  The steps of the specification put those lemmas together.         *)
(*                                                                           *)
(* And about Microcredit: every user is at one wallet and has one loan at a *)
(* time, whatever managers, borrowers and the owner do, unless a loan of    *)
(* that user was brought back after it had been canceled or its debt was    *)
(* set by hand.  The books of managers, contract and revenue address follow *)
(* the loans.                                                               *)
(***************************************************************************)
EXTENDS DonationMiner, Microcredit, SumTheorems, TLAPS

(***************************************************************************)
(* Periods and stakes, whatever they are.                                    *)
(***************************************************************************)
PeriodType ==
  [rewardPerBlock : Nat, rewardAmount : Nat, startBlock : Nat, endBlock : Nat, donationsAmount : Nat,
   donorAmounts : [Donors -> Nat], againstPeriods : Nat, stakesAmount : Nat, stakingDonationRatio : Nat,
   hasSetStakeAmount : SUBSET Donors, donorStakeAmounts : [Donors -> Nat]]
DonorType == [rewardPeriods : Seq(Nat), lastClaimPeriod : Nat]

Window(P, p) == (IF p > P[p].againstPeriods THEN p - P[p].againstPeriods ELSE 1)..p
Base(P, p) == P[p].rewardPerBlock * (P[p].endBlock - P[p].startBlock + 1)
Donated(P, p, d) == SumFunctionOnSet([q \in Window(P, p) |-> P[q].donorAmounts[d]], Window(P, p))
Part(P, St, p, d) == RatioOf(P[p]) * Donated(P, p, d) + St[p][d]
PartOfEach(P, St, p) == [d \in Donors |-> Part(P, St, p, d)]
Share(P, St, p, d) ==
  IF Part(P, St, p, d) = 0 THEN 0
  ELSE (P[p].rewardAmount * Part(P, St, p, d)) \div SumFunction(PartOfEach(P, St, p))
Shares(P, St, d, n) == SumFunction([p \in 1..n |-> Share(P, St, p, d)])

\* Somebody donated or had PACT staked in the window of the period.
Shared(P, p) == \E q \in Window(P, p) : P[q].donationsAmount + P[q].stakesAmount > 0

\* Amounts are those of the donors added up, and a reward that nobody has a part in
\* goes on to the next period.
AddsUp(P, St, n) ==
  /\ \A p \in 0..n : P[p].donationsAmount = SumFunction(P[p].donorAmounts)
  /\ \A p \in 1..n : P[p].stakesAmount = SumFunction(St[p])
  /\ \A d \in Donors : P[0].donorAmounts[d] = 0 /\ St[0][d] = 0
  /\ P[0].againstPeriods = 0
Carries(P, n) ==
  /\ \A p \in 1..n : P[p].endBlock >= P[p].startBlock
  /\ P[1].rewardAmount = Base(P, 1)
  /\ \A p \in 1..(n - 1) :
       P[p + 1].rewardAmount = Base(P, p + 1) + (IF Shared(P, p) THEN 0 ELSE P[p].rewardAmount)

\* What the contract knows of a donor's stakes, from the last claim on: of each period
\* the stake, or that it did not change.  For whoever changed a stake in the first period
\* it may know less than there was.
Tracked(P, St, n, d, last) ==
  /\ \A p \in last..n : P[p].donorStakeAmounts[d] <= St[p][d]
  /\ d \notin P[1].hasSetStakeAmount => P[last].donorStakeAmounts[d] = St[last][d]
  /\ \A p \in (last + 1)..n :
       /\ d \in P[p].hasSetStakeAmount => P[p].donorStakeAmounts[d] = St[p][d]
       /\ d \notin P[p].hasSetStakeAmount => St[p][d] = St[p - 1][d]

Known(donor) == donor.lastClaimPeriod # 0 \/ donor.rewardPeriods # << >>
NothingYet(P, St, n, d) ==
  /\ \A p \in 0..n : P[p].donorAmounts[d] = 0
  /\ d \notin P[1].hasSetStakeAmount => \A p \in 0..n : St[p][d] = 0

Given(P, St, d, last, given) ==
  /\ given <= Shares(P, St, d, last)
  /\ d \notin P[1].hasSetStakeAmount => given = Shares(P, St, d, last)

Settled(P, St, n, d, donor, given) ==
  /\ donor.lastClaimPeriod < n
  /\ Tracked(P, St, n, d, donor.lastClaimPeriod)
  /\ ~Known(donor) => NothingYet(P, St, n, d)
  /\ Given(P, St, d, donor.lastClaimPeriod, given)

BooksTyped(P, St, n) ==
  /\ n \in Nat \ {0}
  /\ P \in [0..n -> PeriodType]
  /\ St \in [0..n -> [Donors -> Nat]]

Books(P, St, n, S, D, G) ==
  /\ BooksTyped(P, St, n)
  /\ D \in [Donors -> DonorType] /\ G \in [Donors -> Nat]
  /\ St[n] = S
  /\ AddsUp(P, St, n)
  /\ Carries(P, n)
  /\ \A d \in Donors : Settled(P, St, n, d, D[d], G[d])

(***************************************************************************)
(* Shares.                                                                  *)
(***************************************************************************)
LEMMA WindowIs ==
  ASSUME NEW n \in Nat, NEW P \in [0..n -> PeriodType], NEW p \in 1..n
  PROVE  /\ Window(P, p) \subseteq 1..p /\ Window(P, p) \subseteq 1..n /\ Window(P, p) \subseteq 0..n
         /\ p \in Window(P, p) /\ IsFiniteSet(Window(P, p))
<1>1. PICK a \in Nat : a = P[p].againstPeriods
  <2>1. P[p] \in PeriodType
    OBVIOUS
  <2> QED BY <2>1 DEF PeriodType
<1>2. PICK first \in 1..p : Window(P, p) = first..p
  <2>1. CASE p > a
    BY <1>1, <2>1 DEF Window
  <2>2. CASE ~(p > a)
    BY <1>1, <2>2 DEF Window
  <2> QED BY <2>1, <2>2
<1>3. IsFiniteSet(first..p)
  BY FS_Interval
<1> QED BY <1>2, <1>3

LEMMA RatioPositive == ASSUME NEW r \in PeriodType PROVE RatioOf(r) \in Nat \ {0}
BY DEF RatioOf, PeriodType

LEMMA PeriodIs ==
  ASSUME NEW n \in Nat, NEW P \in [0..n -> PeriodType], NEW p \in 0..n
  PROVE  /\ P[p] \in PeriodType
         /\ P[p].rewardPerBlock \in Nat /\ P[p].rewardAmount \in Nat
         /\ P[p].startBlock \in Nat /\ P[p].endBlock \in Nat
         /\ P[p].donationsAmount \in Nat /\ P[p].stakesAmount \in Nat
         /\ P[p].againstPeriods \in Nat /\ P[p].stakingDonationRatio \in Nat
         /\ P[p].donorAmounts \in [Donors -> Nat] /\ P[p].donorStakeAmounts \in [Donors -> Nat]
         /\ P[p].hasSetStakeAmount \subseteq Donors
<1>1. P[p] \in PeriodType
  OBVIOUS
<1> QED BY <1>1 DEF PeriodType

LEMMA DonatedNat ==
  ASSUME NEW n \in Nat, NEW P \in [0..n -> PeriodType], NEW p \in 1..n, NEW d \in Donors
  PROVE  Donated(P, p, d) \in Nat
<1> DEFINE f == [q \in Window(P, p) |-> P[q].donorAmounts[d]]
<1>1. ASSUME NEW q \in Window(P, p) PROVE f[q] \in Nat
  <2>1. q \in 0..n
    BY WindowIs
  <2>2. P[q].donorAmounts \in [Donors -> Nat]
    BY <2>1, PeriodIs
  <2> QED BY <2>2
<1> HIDE DEF f
<1>2. SumFunctionOnSet(f, Window(P, p)) \in Nat
  BY <1>1, WindowIs, SumNat
<1> QED BY <1>2 DEF Donated, f

LEMMA PartNat ==
  ASSUME NEW n \in Nat, NEW P \in [0..n -> PeriodType], NEW St \in [0..n -> [Donors -> Nat]],
         NEW p \in 1..n, NEW d \in Donors
  PROVE  Part(P, St, p, d) \in Nat /\ PartOfEach(P, St, p)[d] = Part(P, St, p, d)
<1>1. PICK r \in Nat, x \in Nat, s \in Nat : r = RatioOf(P[p]) /\ x = Donated(P, p, d) /\ s = St[p][d]
  <2>1. P[p] \in PeriodType /\ St[p] \in [Donors -> Nat]
    OBVIOUS
  <2>2. RatioOf(P[p]) \in Nat
    BY <2>1, RatioPositive
  <2> QED BY <2>1, <2>2, DonatedNat
<1>2. r * x + s \in Nat
  <2>1. PICK y \in Nat : y = r * x
    BY Products
  <2>2. y + s \in Nat
    OBVIOUS
  <2> QED BY <2>1, <2>2, Zenon
<1> QED BY <1>1, <1>2 DEF Part, PartOfEach

LEMMA FiniteDonors == IsFiniteSet(Donors)
BY DonationMinerAssumption

LEMMA PartsNat ==
  ASSUME NEW n \in Nat, NEW P \in [0..n -> PeriodType], NEW St \in [0..n -> [Donors -> Nat]], NEW p \in 1..n
  PROVE  /\ SumFunction(PartOfEach(P, St, p)) = SumFunctionOnSet(PartOfEach(P, St, p), Donors)
         /\ SumFunction(PartOfEach(P, St, p)) \in Nat
         /\ \A d \in Donors : Part(P, St, p, d) <= SumFunction(PartOfEach(P, St, p))
<1> DEFINE f == PartOfEach(P, St, p)
<1>1. ASSUME NEW d \in Donors PROVE f[d] \in Nat /\ f[d] = Part(P, St, p, d)
  <2>1. Part(P, St, p, d) \in Nat /\ PartOfEach(P, St, p)[d] = Part(P, St, p, d)
    BY PartNat
  <2> QED BY <2>1
<1>2. SumFunction(f) = SumFunctionOnSet(f, Donors)
  BY DEF PartOfEach, SumFunction
<1> HIDE DEF f
<1>3. SumFunctionOnSet(f, Donors) \in Nat /\ \A d \in Donors : f[d] <= SumFunctionOnSet(f, Donors)
  BY <1>1, FiniteDonors, SumNat, SumBoundsElement
<1> QED BY <1>1, <1>2, <1>3 DEF f

LEMMA ShareNat ==
  ASSUME NEW n \in Nat, NEW P \in [0..n -> PeriodType], NEW St \in [0..n -> [Donors -> Nat]],
         NEW p \in 1..n, NEW d \in Donors
  PROVE  Share(P, St, p, d) \in Nat
<1>1. PICK a \in Nat, r \in Nat, m \in Nat :
        /\ a = Part(P, St, p, d) /\ r = P[p].rewardAmount /\ m = SumFunction(PartOfEach(P, St, p)) /\ a <= m
  <2>1. Part(P, St, p, d) \in Nat
    BY PartNat
  <2>2. SumFunction(PartOfEach(P, St, p)) \in Nat /\ Part(P, St, p, d) <= SumFunction(PartOfEach(P, St, p))
    BY PartsNat
  <2>3. P[p].rewardAmount \in Nat
    <3>1. p \in 0..n
      OBVIOUS
    <3> QED BY <3>1, PeriodIs
  <2> QED BY <2>1, <2>2, <2>3
<1>2. CASE a = 0
  BY <1>1, <1>2 DEF Share
<1>3. CASE a # 0
  <2>1. m \in Nat \ {0} /\ r * a \in Nat
    BY <1>1, <1>3
  <2>2. (r * a) \div m \in Nat
    BY <2>1, QuotientIs
  <2> QED BY <1>1, <1>3, <2>2 DEF Share
<1> QED BY <1>2, <1>3

\* One period more.
LEMMA SharesGrow ==
  ASSUME NEW n \in Nat, NEW P \in [0..n -> PeriodType], NEW St \in [0..n -> [Donors -> Nat]], NEW d \in Donors
  PROVE  /\ Shares(P, St, d, 0) = 0
         /\ \A k \in 0..n : Shares(P, St, d, k) \in Nat
         /\ \A k \in 0..(n - 1) : Shares(P, St, d, k + 1) = Shares(P, St, d, k) + Share(P, St, k + 1, d)
<1> DEFINE f(k) == [p \in 1..k |-> Share(P, St, p, d)]
<1>1. \A k \in 0..n : Shares(P, St, d, k) = SumFunctionOnSet(f(k), 1..k)
  BY DEF Shares, SumFunction
<1>2. ASSUME NEW k \in 0..n, NEW p \in 1..k PROVE f(k)[p] = Share(P, St, p, d) /\ f(k)[p] \in Nat
  <2>1. p \in 1..n
    OBVIOUS
  <2>2. Share(P, St, p, d) \in Nat
    BY <2>1, ShareNat
  <2> QED BY <2>2
<1>3. \A k \in 0..n : IsFiniteSet(1..k)
  BY FS_Interval
<1>4. Shares(P, St, d, 0) = 0
  <2>1. 1..0 = {} /\ 0 \in 0..n
    OBVIOUS
  <2> HIDE DEF f
  <2> QED BY <1>1, <2>1, SumEmpty
<1> HIDE DEF f
<1>5. ASSUME NEW k \in 0..n PROVE Shares(P, St, d, k) \in Nat
  BY <1>1, <1>2, <1>3, SumNat
<1>6. ASSUME NEW k \in 0..(n - 1)
      PROVE  Shares(P, St, d, k + 1) = Shares(P, St, d, k) + Share(P, St, k + 1, d)
  <2>1. k \in 0..n /\ k + 1 \in 0..n /\ 1..(k + 1) = (1..k) \cup {k + 1} /\ k + 1 \notin 1..k
    OBVIOUS
  <2>2. SumFunctionOnSet(f(k + 1), (1..k) \cup {k + 1}) = f(k + 1)[k + 1] + SumFunctionOnSet(f(k + 1), 1..k)
    <3>1. \A p \in (1..k) \cup {k + 1} : f(k + 1)[p] \in Int
      BY <1>2, <2>1
    <3> QED BY <3>1, <1>3, <2>1, SumAdd
  <2>3. SumFunctionOnSet(f(k + 1), 1..k) = SumFunctionOnSet(f(k), 1..k)
    <3>1. \A p \in 1..k : f(k)[p] \in Int /\ f(k + 1)[p] = f(k)[p]
      BY <1>2, <2>1
    <3> QED BY <3>1, <1>3, <2>1, SumSame
  <2>4. k + 1 \in 1..(k + 1)
    OBVIOUS
  <2>5. f(k + 1)[k + 1] = Share(P, St, k + 1, d)
    BY <1>2, <2>1, <2>4
  <2>6. Shares(P, St, d, k) \in Nat /\ Share(P, St, k + 1, d) \in Nat
    <3>1. k + 1 \in 1..n
      OBVIOUS
    <3>2. Share(P, St, k + 1, d) \in Nat
      BY <3>1, ShareNat
    <3> QED BY <1>5, <2>1, <3>2
  <2>7. Shares(P, St, d, k + 1) = Share(P, St, k + 1, d) + Shares(P, St, d, k)
    BY <1>1, <2>1, <2>2, <2>3, <2>5
  <2> QED BY <2>6, <2>7
<1> QED BY <1>4, <1>5, <1>6

\* Shares of a period are what they were if nothing they rest on has changed.
SameRewards(P, Q, k) ==
  \A p \in 1..k : /\ Q[p].rewardAmount = P[p].rewardAmount
                  /\ Q[p].againstPeriods = P[p].againstPeriods
                  /\ Q[p].stakingDonationRatio = P[p].stakingDonationRatio
                  /\ Q[p].donorAmounts = P[p].donorAmounts

SameStakes(St, Tt, k) == \A p \in 1..k : Tt[p] = St[p]

LEMMA SharesStay ==
  ASSUME NEW n, NEW P, NEW St, BooksTyped(P, St, n), NEW k \in 0..n,
         NEW Q, NEW Tt, SameRewards(P, Q, k), SameStakes(St, Tt, k), NEW d \in Donors
  PROVE  Shares(Q, Tt, d, k) = Shares(P, St, d, k)
<1>0. n \in Nat /\ P \in [0..n -> PeriodType]
  BY DEF BooksTyped
<1>1. ASSUME NEW p \in 1..k
      PROVE  \A e \in Donors : Part(Q, Tt, p, e) = Part(P, St, p, e)
  <2>1. Window(Q, p) = Window(P, p)
    BY <1>1 DEF SameRewards, Window
  <2>2. RatioOf(Q[p]) = RatioOf(P[p])
    BY <1>1 DEF SameRewards, RatioOf
  <2>3. Window(P, p) \subseteq 1..k
    <3>1. p \in 1..n
      BY <1>0, <1>1
    <3>2. Window(P, p) \subseteq 1..p
      BY <1>0, <3>1, WindowIs
    <3> QED BY <3>2, <1>1
  <2>4. ASSUME NEW e \in Donors PROVE Donated(Q, p, e) = Donated(P, p, e)
    <3>1. [q \in Window(P, p) |-> Q[q].donorAmounts[e]] = [q \in Window(P, p) |-> P[q].donorAmounts[e]]
      BY <2>3 DEF SameRewards
    <3> QED BY <2>1, <3>1 DEF Donated
  <2> QED BY <1>1, <2>2, <2>4 DEF Part, SameStakes
<1>2. ASSUME NEW p \in 1..k PROVE Share(Q, Tt, p, d) = Share(P, St, p, d)
  <2>1. PartOfEach(Q, Tt, p) = PartOfEach(P, St, p)
    BY <1>1, <1>2 DEF PartOfEach
  <2> QED BY <1>1, <1>2, <2>1 DEF Share, SameRewards
<1>3. [p \in 1..k |-> Share(Q, Tt, p, d)] = [p \in 1..k |-> Share(P, St, p, d)]
  BY <1>2
<1> QED BY <1>3 DEF Shares

DonatedInAll(P, p) == SumFunctionOnSet([q \in Window(P, p) |-> P[q].donationsAmount], Window(P, p))

\* All the parts of a period, from what the contract adds up.
LEMMA TotalIs ==
  ASSUME NEW n \in Nat, NEW P \in [0..n -> PeriodType], NEW St \in [0..n -> [Donors -> Nat]],
         AddsUp(P, St, n), NEW p \in 1..n
  PROVE  /\ DonatedInAll(P, p) \in Nat
         /\ SumFunction(PartOfEach(P, St, p)) = RatioOf(P[p]) * DonatedInAll(P, p) + P[p].stakesAmount
<1> DEFINE W == Window(P, p)
           a == [q \in W |-> P[q].donorAmounts]
           g == [q \in W |-> P[q].donationsAmount]
           b == [d \in Donors |-> [q \in W |-> a[q][d]]]
           s == St[p]
           e == PartOfEach(P, St, p)
<1>1. W \subseteq 0..n /\ IsFiniteSet(W) /\ IsFiniteSet(Donors)
  BY WindowIs, FiniteDonors
<1>2. ASSUME NEW q \in W
      PROVE  /\ a[q] \in [Donors -> Nat] /\ a[q] = P[q].donorAmounts
             /\ g[q] = SumFunctionOnSet(a[q], Donors)
  <2>1. q \in 0..n
    BY <1>1
  <2>2. P[q].donorAmounts \in [Donors -> Nat]
    BY <2>1, PeriodIs
  <2>3. P[q].donationsAmount = SumFunctionOnSet(P[q].donorAmounts, Donors)
    BY <2>1, <2>2 DEF AddsUp, SumFunction
  <2> QED BY <2>2, <2>3
<1>3. SumFunctionOnSet(g, W) = DonatedInAll(P, p)
  BY DEF DonatedInAll
<1>4. SumFunctionOnSet(s, Donors) = P[p].stakesAmount /\ \A d \in Donors : s[d] \in Nat
  <2>1. s \in [Donors -> Nat]
    OBVIOUS
  <2>2. SumFunction(s) = P[p].stakesAmount
    BY DEF AddsUp
  <2>3. DOMAIN s = Donors
    BY <2>1
  <2> HIDE DEF s
  <2> QED BY <2>1, <2>2, <2>3 DEF SumFunction
<1>5. SumFunctionOnSet(e, Donors) = SumFunction(PartOfEach(P, St, p))
  BY PartsNat
<1>6. PICK r \in Nat : r = RatioOf(P[p])
  <2>1. P[p] \in PeriodType
    OBVIOUS
  <2> QED BY <2>1, RatioPositive
<1>7. AreWeighted(e, b, s, r, W, Donors)
  <2> SUFFICES ASSUME NEW d \in Donors PROVE e[d] = r * SumFunctionOnSet(b[d], W) + s[d]
    BY DEF AreWeighted
  <2>1. b[d] = [q \in W |-> P[q].donorAmounts[d]]
    OBVIOUS
  <2> QED BY <2>1, <1>6 DEF PartOfEach, Part, Donated
<1>8. IsTable(a, W, Donors) /\ Transposed(b, a, W, Donors) /\ AreRowSums(g, a, W, Donors)
  BY <1>2 DEF IsTable, Transposed, AreRowSums
<1> HIDE DEF W, a, g, s, e, b
<1>9. /\ SumFunctionOnSet(g, W) \in Nat
      /\ IsWeighted(SumFunctionOnSet(e, Donors), r, SumFunctionOnSet(g, W), SumFunctionOnSet(s, Donors))
  <2>1. IsFiniteSet(W) /\ IsFiniteSet(Donors) /\ \A d \in Donors : s[d] \in Nat
    BY <1>1, <1>4
  <2>2. AreWeightedTotals(e, g, s, r, W, Donors)
    BY <1>7, <1>8 DEF AreWeightedTotals
  <2> QED BY <2>1, <2>2, SumWeighted
<1> QED BY <1>3, <1>4, <1>5, <1>6, <1>9 DEF IsWeighted

\* A part in a reward that was carried over there is none.
LEMMA NothingShared ==
  ASSUME NEW n \in Nat, NEW P \in [0..n -> PeriodType], NEW St \in [0..n -> [Donors -> Nat]],
         AddsUp(P, St, n), NEW p \in 1..n, ~Shared(P, p), NEW d \in Donors
  PROVE  Share(P, St, p, d) = 0
<1> DEFINE W == Window(P, p)
           g == [q \in W |-> P[q].donationsAmount]
<1>1. W \subseteq 0..n /\ IsFiniteSet(W) /\ p \in W
  BY WindowIs
<1>2. ASSUME NEW q \in W PROVE P[q].donationsAmount = 0 /\ P[q].stakesAmount = 0
  <2>1. q \in 0..n
    BY <1>1
  <2>2. P[q].donationsAmount \in Nat /\ P[q].stakesAmount \in Nat
    BY <2>1, PeriodIs
  <2>3. ~(P[q].donationsAmount + P[q].stakesAmount > 0)
    BY DEF Shared
  <2> QED BY <2>2, <2>3
<1>3. P[p].stakesAmount = 0
  BY <1>1, <1>2
<1>4. DonatedInAll(P, p) = 0
  <2>1. \A q \in W : g[q] = 0
    BY <1>2
  <2>2. SumFunctionOnSet(g, W) = DonatedInAll(P, p)
    BY DEF DonatedInAll
  <2> HIDE DEF g, W
  <2> QED BY <1>1, <2>1, <2>2, SumZero
<1>5. RatioOf(P[p]) \in Nat
  <2>1. P[p] \in PeriodType
    OBVIOUS
  <2> QED BY <2>1, RatioPositive
<1>6. SumFunction(PartOfEach(P, St, p)) = 0
  <2>1. SumFunction(PartOfEach(P, St, p)) = RatioOf(P[p]) * DonatedInAll(P, p) + P[p].stakesAmount
    BY TotalIs
  <2>2. PICK r \in Nat : r = RatioOf(P[p])
    BY <1>5
  <2>3. r * 0 + 0 = 0
    OBVIOUS
  <2> QED BY <2>1, <2>2, <2>3, <1>3, <1>4
<1>7. Part(P, St, p, d) \in Nat /\ Part(P, St, p, d) <= 0
  <2>1. Part(P, St, p, d) <= SumFunction(PartOfEach(P, St, p))
    BY PartsNat
  <2> QED BY <1>6, <2>1, PartNat
<1>8. Part(P, St, p, d) = 0
  BY <1>7
<1> QED BY <1>8 DEF Share

SharesIn(P, St, p) == [d \in Donors |-> Share(P, St, p, d)]

\* What is shared of a period is at most its reward, and nothing of a reward carried over.
LEMMA PeriodShares ==
  ASSUME NEW n \in Nat, NEW P \in [0..n -> PeriodType], NEW St \in [0..n -> [Donors -> Nat]],
         AddsUp(P, St, n), NEW p \in 1..n
  PROVE  /\ SumFunctionOnSet(SharesIn(P, St, p), Donors) \in Nat
         /\ SumFunctionOnSet(SharesIn(P, St, p), Donors) <= P[p].rewardAmount
         /\ ~Shared(P, p) => SumFunctionOnSet(SharesIn(P, St, p), Donors) = 0
<1> DEFINE h == SharesIn(P, St, p)
           e == PartOfEach(P, St, p)
           m == SumFunction(e)
<1>1. ASSUME NEW d \in Donors
      PROVE  /\ h[d] = Share(P, St, p, d)
             /\ e[d] = Part(P, St, p, d) /\ e[d] \in Nat
  <2>1. Part(P, St, p, d) \in Nat /\ e[d] = Part(P, St, p, d)
    BY PartNat
  <2> QED BY <2>1 DEF SharesIn
<1>2. PICK R \in Nat : R = P[p].rewardAmount
  <2>1. p \in 0..n
    OBVIOUS
  <2> QED BY <2>1, PeriodIs
<1>3. m = SumFunctionOnSet(e, Donors)
  BY PartsNat
<1>4. AreShares(h, R, e, m, Donors)
  <2> SUFFICES ASSUME NEW d \in Donors PROVE h[d] = IF e[d] = 0 THEN 0 ELSE (R * e[d]) \div m
    BY DEF AreShares
  <2> QED BY <1>1, <1>2 DEF Share
<1> HIDE DEF h, e, m
<1>5. SumFunctionOnSet(h, Donors) \in Nat /\ SumFunctionOnSet(h, Donors) <= R
  <2>1. \A d \in Donors : e[d] \in Nat
    BY <1>1
  <2> QED BY <2>1, <1>3, <1>4, FiniteDonors, SumOfShares
<1>6. ASSUME ~Shared(P, p) PROVE SumFunctionOnSet(h, Donors) = 0
  <2>1. \A d \in Donors : h[d] = 0
    BY <1>1, <1>6, NothingShared
  <2> QED BY <2>1, FiniteDonors, SumZero
<1> QED BY <1>2, <1>5, <1>6 DEF h

SharesToAll(P, St, k) == SumFunctionOnSet([d \in Donors |-> Shares(P, St, d, k)], Donors)
Bases(P, k) == SumFunctionOnSet([p \in 1..k |-> Base(P, p)], 1..k)

LEMMA SharesToAllGrow ==
  ASSUME NEW n \in Nat, NEW P \in [0..n -> PeriodType], NEW St \in [0..n -> [Donors -> Nat]],
         AddsUp(P, St, n)
  PROVE  /\ SharesToAll(P, St, 0) = 0
         /\ \A k \in 0..n : SharesToAll(P, St, k) \in Nat
         /\ \A k \in 0..(n - 1) :
              SharesToAll(P, St, k + 1)
                = SharesToAll(P, St, k) + SumFunctionOnSet(SharesIn(P, St, k + 1), Donors)
<1> DEFINE f(k) == [d \in Donors |-> Shares(P, St, d, k)]
<1>1. ASSUME NEW k \in 0..n, NEW d \in Donors PROVE f(k)[d] \in Nat /\ f(k)[d] = Shares(P, St, d, k)
  BY SharesGrow
<1>2. \A k \in 0..n : SharesToAll(P, St, k) = SumFunctionOnSet(f(k), Donors)
  BY DEF SharesToAll
<1> HIDE DEF f
<1>3. ASSUME NEW k \in 0..n PROVE SharesToAll(P, St, k) \in Nat
  BY <1>1, <1>2, FiniteDonors, SumNat
<1>4. SharesToAll(P, St, 0) = 0
  <2>1. 0 \in 0..n
    OBVIOUS
  <2>2. ASSUME NEW d \in Donors PROVE f(0)[d] = 0
    BY <1>1, <2>1, SharesGrow
  <2> QED BY <1>2, <2>1, <2>2, FiniteDonors, SumZero
<1>5. ASSUME NEW k \in 0..(n - 1)
      PROVE  SharesToAll(P, St, k + 1)
               = SharesToAll(P, St, k) + SumFunctionOnSet(SharesIn(P, St, k + 1), Donors)
  <2>1. k \in 0..n /\ k + 1 \in 0..n /\ k + 1 \in 1..n
    OBVIOUS
  <2>2. ASSUME NEW d \in Donors
        PROVE  /\ f(k)[d] \in Int /\ SharesIn(P, St, k + 1)[d] \in Int
               /\ f(k + 1)[d] = f(k)[d] + SharesIn(P, St, k + 1)[d]
    <3>1. SharesIn(P, St, k + 1)[d] = Share(P, St, k + 1, d) /\ Share(P, St, k + 1, d) \in Nat
      BY <2>1, ShareNat DEF SharesIn
    <3>2. Shares(P, St, d, k + 1) = Shares(P, St, d, k) + Share(P, St, k + 1, d)
      BY SharesGrow
    <3>3. f(k)[d] = Shares(P, St, d, k) /\ f(k)[d] \in Nat /\ f(k + 1)[d] = Shares(P, St, d, k + 1)
      BY <1>1, <2>1
    <3> QED BY <3>1, <3>2, <3>3
  <2>3. SumFunctionOnSet(f(k + 1), Donors)
          = SumFunctionOnSet(f(k), Donors) + SumFunctionOnSet(SharesIn(P, St, k + 1), Donors)
    BY <2>2, FiniteDonors, SumPlus
  <2> QED BY <1>2, <2>1, <2>3
<1> QED BY <1>3, <1>4, <1>5

LEMMA BasesGrow ==
  ASSUME NEW n \in Nat, NEW P \in [0..n -> PeriodType], Carries(P, n)
  PROVE  /\ \A p \in 1..n : Base(P, p) \in Nat
         /\ Bases(P, 0) = 0
         /\ \A k \in 0..n : Bases(P, k) \in Nat
         /\ \A k \in 0..(n - 1) : Bases(P, k + 1) = Bases(P, k) + Base(P, k + 1)
<1> DEFINE f(k) == [p \in 1..k |-> Base(P, p)]
<1>1. ASSUME NEW p \in 1..n PROVE Base(P, p) \in Nat
  <2>1. p \in 0..n
    OBVIOUS
  <2>2. P[p].rewardPerBlock \in Nat /\ P[p].endBlock \in Nat /\ P[p].startBlock \in Nat
    BY <2>1, PeriodIs
  <2>3. P[p].endBlock >= P[p].startBlock
    BY DEF Carries
  <2>4. PICK x \in Nat : x = P[p].endBlock - P[p].startBlock + 1
    BY <2>2, <2>3
  <2>5. P[p].rewardPerBlock * x \in Nat
    BY <2>2, Products
  <2> QED BY <2>4, <2>5 DEF Base
<1>2. \A k \in 0..n : Bases(P, k) = SumFunctionOnSet(f(k), 1..k)
  BY DEF Bases
<1>3. ASSUME NEW k \in 0..n, NEW p \in 1..k PROVE f(k)[p] = Base(P, p) /\ f(k)[p] \in Nat
  <2>1. p \in 1..n
    OBVIOUS
  <2> QED BY <2>1, <1>1
<1>4. \A k \in 0..n : IsFiniteSet(1..k)
  BY FS_Interval
<1> HIDE DEF f
<1>5. Bases(P, 0) = 0
  <2>1. 1..0 = {} /\ 0 \in 0..n
    OBVIOUS
  <2> QED BY <1>2, <2>1, SumEmpty
<1>6. ASSUME NEW k \in 0..n PROVE Bases(P, k) \in Nat
  BY <1>2, <1>3, <1>4, SumNat
<1>7. ASSUME NEW k \in 0..(n - 1) PROVE Bases(P, k + 1) = Bases(P, k) + Base(P, k + 1)
  <2>1. k \in 0..n /\ k + 1 \in 0..n /\ 1..(k + 1) = (1..k) \cup {k + 1} /\ k + 1 \notin 1..k
    OBVIOUS
  <2>2. SumFunctionOnSet(f(k + 1), (1..k) \cup {k + 1}) = f(k + 1)[k + 1] + SumFunctionOnSet(f(k + 1), 1..k)
    <3>1. \A p \in (1..k) \cup {k + 1} : f(k + 1)[p] \in Int
      BY <1>3, <2>1
    <3> QED BY <3>1, <1>4, <2>1, SumAdd
  <2>3. SumFunctionOnSet(f(k + 1), 1..k) = SumFunctionOnSet(f(k), 1..k)
    <3>1. \A p \in 1..k : f(k)[p] \in Int /\ f(k + 1)[p] = f(k)[p]
      BY <1>3, <2>1
    <3> QED BY <3>1, <1>4, <2>1, SumSame
  <2>4. k + 1 \in 1..(k + 1) /\ k + 1 \in 1..n
    OBVIOUS
  <2>5. f(k + 1)[k + 1] = Base(P, k + 1) /\ Base(P, k + 1) \in Nat /\ Bases(P, k) \in Nat
    BY <1>1, <1>3, <1>6, <2>1, <2>4
  <2>6. Bases(P, k + 1) = Base(P, k + 1) + Bases(P, k)
    BY <1>2, <2>1, <2>2, <2>3, <2>5
  <2> QED BY <2>5, <2>6
<1> QED BY <1>1, <1>5, <1>6, <1>7

\* All the shares of the first periods are within the rewards of their blocks.
LEMMA SharesWithinBases ==
  ASSUME NEW n \in Nat, NEW P \in [0..n -> PeriodType], NEW St \in [0..n -> [Donors -> Nat]],
         AddsUp(P, St, n), Carries(P, n)
  PROVE  \A k \in 0..n : SharesToAll(P, St, k) <= Bases(P, k)
<1> DEFINE A(k) == SharesToAll(P, St, k)
           B(k) == Bases(P, k)
           Of(p) == SumFunctionOnSet(SharesIn(P, St, p), Donors)
           Good == {k \in Nat : k + 1 <= n => A(k) + P[k + 1].rewardAmount <= B(k + 1)}
<1>0. /\ \A k \in 0..n : A(k) \in Nat /\ B(k) \in Nat
      /\ A(0) = 0 /\ B(0) = 0
      /\ \A k \in 0..(n - 1) : A(k + 1) = A(k) + Of(k + 1) /\ B(k + 1) = B(k) + Base(P, k + 1)
  BY SharesToAllGrow, BasesGrow
<1>1. \A p \in 1..n : /\ Of(p) \in Nat /\ Of(p) <= P[p].rewardAmount
                      /\ ~Shared(P, p) => Of(p) = 0
  BY PeriodShares
<1>2. \A p \in 1..n : P[p].rewardAmount \in Nat
  <2> SUFFICES ASSUME NEW p \in 1..n PROVE P[p].rewardAmount \in Nat
    OBVIOUS
  <2>1. p \in 0..n
    OBVIOUS
  <2> QED BY <2>1, PeriodIs
<1>3. \A p \in 1..n : Base(P, p) \in Nat
  BY BasesGrow
<1> HIDE DEF A, B, Of
<1>4. 0 \in Good
  <2> SUFFICES ASSUME 1 <= n PROVE A(0) + P[1].rewardAmount <= B(1)
    OBVIOUS
  <2>1. 0 \in 0..(n - 1) /\ 1 \in 1..n /\ 1 \in 0..n
    OBVIOUS
  <2>2. B(0 + 1) = B(0) + Base(P, 0 + 1)
    BY <2>1, <1>0
  <2>3. P[1].rewardAmount = Base(P, 1)
    BY DEF Carries
  <2>4. B(1) = Base(P, 1)
    BY <2>2, <2>1, <1>0, <1>3
  <2> QED BY <2>1, <2>3, <2>4, <1>0, <1>3
<1>5. ASSUME NEW k \in Nat, k \in Good PROVE k + 1 \in Good
  <2> SUFFICES ASSUME (k + 1) + 1 <= n PROVE A(k + 1) + P[(k + 1) + 1].rewardAmount <= B((k + 1) + 1)
    OBVIOUS
  <2>1. k \in 0..n /\ k + 1 \in 0..n /\ k \in 0..(n - 1) /\ k + 1 \in 0..(n - 1) /\ k + 1 \in 1..n
        /\ k + 1 \in 1..(n - 1) /\ (k + 1) + 1 \in 1..n /\ (k + 1) + 1 \in 0..n /\ k + 1 <= n
    OBVIOUS
  <2>2. A(k) + P[k + 1].rewardAmount <= B(k + 1)
    BY <1>5, <2>1
  <2>3. A(k + 1) = A(k) + Of(k + 1) /\ B((k + 1) + 1) = B(k + 1) + Base(P, (k + 1) + 1)
    BY <1>0, <2>1
  <2>4. P[(k + 1) + 1].rewardAmount
          = Base(P, (k + 1) + 1) + (IF Shared(P, k + 1) THEN 0 ELSE P[k + 1].rewardAmount)
    BY <2>1 DEF Carries
  <2>5. PICK a \in Nat, b \in Nat, o \in Nat, r \in Nat, t \in Nat :
          a = A(k) /\ b = B(k + 1) /\ o = Of(k + 1) /\ r = P[k + 1].rewardAmount /\ t = Base(P, (k + 1) + 1)
    BY <1>0, <1>1, <1>2, <1>3, <2>1
  <2>6. o <= r /\ (~Shared(P, k + 1) => o = 0)
    BY <1>1, <2>1, <2>5
  <2>7. a + r <= b /\ A(k + 1) = a + o /\ B((k + 1) + 1) = b + t
    BY <2>2, <2>3, <2>5
  <2>8. CASE Shared(P, k + 1)
    <3>1. P[(k + 1) + 1].rewardAmount = t
      BY <2>4, <2>5, <2>8
    <3>2. (a + o) + t <= b + t
      BY <2>6, <2>7
    <3> QED BY <2>7, <3>1, <3>2
  <2>9. CASE ~Shared(P, k + 1)
    <3>1. P[(k + 1) + 1].rewardAmount = t + r
      BY <2>4, <2>5, <2>9
    <3>2. (a + o) + (t + r) <= b + t
      BY <2>6, <2>7, <2>9
    <3> QED BY <2>7, <3>1, <3>2
  <2> QED BY <2>8, <2>9
<1> HIDE DEF Good
<1>6. Nat \subseteq Good
  BY <1>4, <1>5, NaturalInduction
<1>7. ASSUME NEW k \in 0..n PROVE A(k) <= B(k)
  <2>1. CASE k = 0
    BY <2>1, <1>0
  <2>2. CASE k # 0
    <3>1. PICK j \in Nat : k = j + 1
      <4>1. k - 1 \in Nat /\ k = (k - 1) + 1
        BY <2>2
      <4> QED BY <4>1
    <3>2. j \in 0..(n - 1) /\ j + 1 \in 1..n /\ j \in 0..n /\ j + 1 <= n /\ j \in Good
      BY <3>1, <1>6
    <3>3. A(j) + P[j + 1].rewardAmount <= B(j + 1)
      BY <3>2 DEF Good
    <3>4. A(j + 1) = A(j) + Of(j + 1) /\ Of(j + 1) <= P[j + 1].rewardAmount /\ Of(j + 1) \in Nat
      BY <1>0, <1>1, <3>2
    <3>5. P[j + 1].rewardAmount \in Nat /\ A(j) \in Nat /\ B(j + 1) \in Nat
      BY <1>0, <1>2, <3>1, <3>2
    <3> QED BY <3>1, <3>3, <3>4, <3>5
  <2> QED BY <2>1, <2>2
<1> QED BY <1>7 DEF A, B

\* Later there is not less.
LEMMA SharesMonotone ==
  ASSUME NEW n \in Nat, NEW P \in [0..n -> PeriodType], NEW St \in [0..n -> [Donors -> Nat]],
         NEW d \in Donors, NEW j \in 0..n, NEW k \in 0..n, j <= k
  PROVE  Shares(P, St, d, j) <= Shares(P, St, d, k)
<1> DEFINE A(i) == Shares(P, St, d, i)
           Good == {i \in Nat : j + i <= n => A(j) <= A(j + i)}
<1>0. /\ \A i \in 0..n : A(i) \in Nat
      /\ \A i \in 0..(n - 1) : A(i + 1) = A(i) + Share(P, St, i + 1, d)
  BY SharesGrow
<1>1. \A i \in 1..n : Share(P, St, i, d) \in Nat
  BY ShareNat
<1> HIDE DEF A
<1>2. 0 \in Good
  <2>1. j + 0 = j
    OBVIOUS
  <2> QED BY <2>1, <1>0
<1>3. ASSUME NEW i \in Nat, i \in Good PROVE i + 1 \in Good
  <2> SUFFICES ASSUME j + (i + 1) <= n PROVE A(j) <= A(j + (i + 1))
    OBVIOUS
  <2>1. PICK m \in Nat : m = j + i
    OBVIOUS
  <2>2. j + (i + 1) = m + 1 /\ m \in 0..(n - 1) /\ m \in 0..n /\ m + 1 \in 1..n /\ m + 1 \in 0..n /\ j + i <= n
    BY <2>1
  <2>3. A(j) <= A(m)
    BY <1>3, <2>1, <2>2
  <2>4. A(m + 1) = A(m) + Share(P, St, m + 1, d) /\ Share(P, St, m + 1, d) \in Nat /\ A(m) \in Nat /\ A(j) \in Nat
    BY <1>0, <1>1, <2>2
  <2>5. A(j) <= A(m + 1)
    BY <2>3, <2>4
  <2> QED BY <2>2, <2>5
<1> HIDE DEF Good
<1>4. Nat \subseteq Good
  BY <1>2, <1>3, NaturalInduction
<1>5. k - j \in Nat /\ j + (k - j) = k /\ k - j \in Good
  BY <1>4
<1>6. A(j) <= A(j + (k - j))
  BY <1>5 DEF Good
<1> QED BY <1>5, <1>6 DEF A

\* What everybody was given, together, is within the rewards of the blocks of the
\* periods that are over.
LEMMA GivenWithinBases ==
  ASSUME NEW n, NEW P, NEW St, NEW S, NEW D, NEW G, Books(P, St, n, S, D, G)
  PROVE  SumFunctionOnSet(G, Donors) <= Bases(P, n - 1)
<1> DEFINE A == [d \in Donors |-> Shares(P, St, d, n - 1)]
<1>0. /\ n \in Nat \ {0} /\ n \in Nat /\ n - 1 \in 0..n
      /\ P \in [0..n -> PeriodType] /\ St \in [0..n -> [Donors -> Nat]]
      /\ D \in [Donors -> DonorType] /\ G \in [Donors -> Nat]
      /\ AddsUp(P, St, n) /\ Carries(P, n)
  BY DEF Books, BooksTyped
<1>1. ASSUME NEW d \in Donors PROVE G[d] \in Nat /\ A[d] \in Nat /\ G[d] <= A[d]
  <2>1. Settled(P, St, n, d, D[d], G[d])
    BY DEF Books, BooksTyped
  <2>2. PICK k \in Nat : k = D[d].lastClaimPeriod
    BY <1>0 DEF DonorType
  <2>3. k < n /\ G[d] <= Shares(P, St, d, k)
    BY <2>1, <2>2 DEF Settled, Given
  <2>4. k \in 0..n /\ k <= n - 1
    BY <2>3, <1>0
  <2>5. Shares(P, St, d, k) <= Shares(P, St, d, n - 1)
    BY <2>4, <1>0, SharesMonotone
  <2>6. Shares(P, St, d, k) \in Nat /\ Shares(P, St, d, n - 1) \in Nat
    BY <2>4, <1>0, SharesGrow
  <2>7. G[d] \in Nat /\ A[d] = Shares(P, St, d, n - 1)
    BY <1>0
  <2> QED BY <2>3, <2>5, <2>6, <2>7
<1>2. SumFunctionOnSet(A, Donors) = SharesToAll(P, St, n - 1)
  BY DEF SharesToAll
<1> HIDE DEF A
<1>3. SumFunctionOnSet(G, Donors) <= SumFunctionOnSet(A, Donors)
  BY <1>1, FiniteDonors, SumLarger
<1>4. SumFunctionOnSet(G, Donors) \in Nat /\ SumFunctionOnSet(A, Donors) \in Nat
  BY <1>1, FiniteDonors, SumNat
<1>5. SharesToAll(P, St, n - 1) <= Bases(P, n - 1) /\ Bases(P, n - 1) \in Nat
  BY <1>0, SharesWithinBases, BasesGrow
<1> QED BY <1>2, <1>3, <1>4, <1>5

(***************************************************************************)
(* What a step leaves as it is.                                             *)
(***************************************************************************)
SameTerms(P, Q, k) ==
  \A p \in 0..k : /\ Q[p].rewardAmount = P[p].rewardAmount
                  /\ Q[p].rewardPerBlock = P[p].rewardPerBlock
                  /\ Q[p].startBlock = P[p].startBlock /\ Q[p].endBlock = P[p].endBlock
                  /\ Q[p].againstPeriods = P[p].againstPeriods
                  /\ Q[p].stakingDonationRatio = P[p].stakingDonationRatio

SameAmounts(P, Q, k) ==
  \A p \in 0..k : /\ Q[p].donorAmounts = P[p].donorAmounts
                  /\ Q[p].donationsAmount = P[p].donationsAmount
                  /\ Q[p].stakesAmount = P[p].stakesAmount

LEMMA SharedStays ==
  ASSUME NEW n \in Nat, NEW P \in [0..n -> PeriodType], NEW k \in Nat, k <= n, NEW Q,
         SameTerms(P, Q, k), SameAmounts(P, Q, k), NEW p \in 1..k
  PROVE  /\ Shared(Q, p) <=> Shared(P, p)
         /\ Base(Q, p) = Base(P, p)
<1>1. p \in 1..n /\ p \in 0..k
  OBVIOUS
<1>2. Window(P, p) \subseteq 0..k
  <2>1. Window(P, p) \subseteq 1..p
    BY <1>1, WindowIs
  <2> QED BY <2>1
<1>3. Window(Q, p) = Window(P, p)
  BY <1>1 DEF SameTerms, Window
<1>4. \A q \in Window(P, p) : Q[q].donationsAmount = P[q].donationsAmount /\ Q[q].stakesAmount = P[q].stakesAmount
  BY <1>2 DEF SameAmounts
<1>5. Shared(Q, p) <=> Shared(P, p)
  BY <1>3, <1>4, Zenon DEF Shared
<1> QED BY <1>1, <1>5 DEF Base, SameTerms

\* The amounts of the last period say nothing about what is carried so far.
LEMMA CarriesStays ==
  ASSUME NEW n \in Nat \ {0}, NEW P \in [0..n -> PeriodType], Carries(P, n), NEW Q,
         SameTerms(P, Q, n), SameAmounts(P, Q, n - 1)
  PROVE  Carries(Q, n)
<1>0. n \in Nat /\ n - 1 \in Nat /\ n - 1 <= n /\ SameTerms(P, Q, n - 1)
  BY DEF SameTerms
<1>1. \A p \in 1..n : Q[p].endBlock >= Q[p].startBlock
  BY DEF SameTerms, Carries
<1>2. ASSUME NEW p \in 1..n
      PROVE  Base(Q, p) = Base(P, p) /\ Q[p].rewardAmount = P[p].rewardAmount
  <2>1. p \in 0..n
    OBVIOUS
  <2> QED BY <2>1 DEF SameTerms, Base
<1>3. Q[1].rewardAmount = Base(Q, 1)
  <2>1. 1 \in 1..n
    OBVIOUS
  <2> QED BY <1>2, <2>1 DEF Carries
<1>4. ASSUME NEW p \in 1..(n - 1)
      PROVE  Q[p + 1].rewardAmount = Base(Q, p + 1) + (IF Shared(Q, p) THEN 0 ELSE Q[p].rewardAmount)
  <2>1. p \in 1..n /\ p + 1 \in 1..n
    OBVIOUS
  <2>2. Shared(Q, p) <=> Shared(P, p)
    BY <1>0, SharedStays
  <2>3. P[p + 1].rewardAmount = Base(P, p + 1) + (IF Shared(P, p) THEN 0 ELSE P[p].rewardAmount)
    BY DEF Carries
  <2>4. Base(Q, p + 1) = Base(P, p + 1) /\ Q[p + 1].rewardAmount = P[p + 1].rewardAmount
    BY <1>2, <2>1
  <2>5. Q[p].rewardAmount = P[p].rewardAmount
    BY <1>2, <2>1
  <2> QED BY <2>2, <2>3, <2>4, <2>5
<1> QED BY <1>1, <1>3, <1>4 DEF Carries

\* A donor whose own amounts stay.
SameOf(P, Q, St, Tt, n, e) ==
  \A p \in 0..n : /\ Q[p].donorAmounts[e] = P[p].donorAmounts[e]
                  /\ Q[p].donorStakeAmounts[e] = P[p].donorStakeAmounts[e]
                  /\ e \in Q[p].hasSetStakeAmount <=> e \in P[p].hasSetStakeAmount
                  /\ Tt[p][e] = St[p][e]

LEMMA SettledStays ==
  ASSUME NEW n \in Nat \ {0}, NEW P, NEW Q, NEW St, NEW Tt, NEW e, NEW donor \in DonorType, NEW g,
         Settled(P, St, n, e, donor, g), SameOf(P, Q, St, Tt, n, e),
         \A k \in 0..(n - 1) : Shares(Q, Tt, e, k) = Shares(P, St, e, k)
  PROVE  Settled(Q, Tt, n, e, donor, g)
<1>1. PICK last \in Nat : last = donor.lastClaimPeriod
  BY DEF DonorType
<1>2. /\ last < n /\ Tracked(P, St, n, e, last) /\ Given(P, St, e, last, g)
      /\ ~Known(donor) => NothingYet(P, St, n, e)
  BY <1>1 DEF Settled
<1>3. 1 \in 0..n /\ last \in 0..n /\ last \in 0..(n - 1)
  BY <1>2
<1>4. e \in Q[1].hasSetStakeAmount <=> e \in P[1].hasSetStakeAmount
  BY <1>3 DEF SameOf
<1>5. Given(Q, Tt, e, last, g)
  BY <1>2, <1>3, <1>4 DEF Given
<1>6. ~Known(donor) => NothingYet(Q, Tt, n, e)
  BY <1>2, <1>4 DEF NothingYet, SameOf
<1>7. Tracked(Q, Tt, n, e, last)
  <2>1. ASSUME NEW p \in last..n PROVE Q[p].donorStakeAmounts[e] <= Tt[p][e]
    <3>1. p \in 0..n
      BY <1>3
    <3> QED BY <3>1, <1>2 DEF Tracked, SameOf
  <2>2. e \notin Q[1].hasSetStakeAmount => Q[last].donorStakeAmounts[e] = Tt[last][e]
    BY <1>2, <1>3, <1>4 DEF Tracked, SameOf
  <2>3. ASSUME NEW p \in (last + 1)..n
        PROVE  /\ e \in Q[p].hasSetStakeAmount => Q[p].donorStakeAmounts[e] = Tt[p][e]
               /\ e \notin Q[p].hasSetStakeAmount => Tt[p][e] = Tt[p - 1][e]
    <3>1. p \in 0..n /\ p - 1 \in 0..n
      BY <1>3
    <3>2. /\ e \in P[p].hasSetStakeAmount => P[p].donorStakeAmounts[e] = St[p][e]
          /\ e \notin P[p].hasSetStakeAmount => St[p][e] = St[p - 1][e]
      BY <1>2 DEF Tracked
    <3> QED BY <3>1, <3>2 DEF SameOf
  <2> QED BY <2>1, <2>2, <2>3 DEF Tracked
<1> QED BY <1>1, <1>2, <1>5, <1>6, <1>7 DEF Settled

LEMMA RewardsStay ==
  ASSUME NEW n \in Nat, NEW P, NEW Q, NEW k \in 0..n, SameTerms(P, Q, n), SameAmounts(P, Q, k)
  PROVE  SameRewards(P, Q, k)
<1> SUFFICES ASSUME NEW p \in 1..k
             PROVE  /\ Q[p].rewardAmount = P[p].rewardAmount
                    /\ Q[p].againstPeriods = P[p].againstPeriods
                    /\ Q[p].stakingDonationRatio = P[p].stakingDonationRatio
                    /\ Q[p].donorAmounts = P[p].donorAmounts
  BY DEF SameRewards
<1>1. p \in 0..n /\ p \in 0..k
  OBVIOUS
<1> QED BY <1>1 DEF SameTerms, SameAmounts

(***************************************************************************)
(* The periods that begin.                                                  *)
(***************************************************************************)
IsNext(P, n, R) ==
  /\ R \in PeriodType
  /\ R.donationsAmount = 0 /\ R.donorAmounts = Nothing
  /\ R.hasSetStakeAmount = {} /\ R.donorStakeAmounts = Nothing
  /\ R.stakesAmount = P[n].stakesAmount
  /\ R.endBlock >= R.startBlock
  /\ R.rewardAmount = R.rewardPerBlock * (R.endBlock - R.startBlock + 1)
                        + (IF Shared(P, n) THEN 0 ELSE P[n].rewardAmount)

Longer(P, n, R) == [p \in 0..(n + 1) |-> IF p \in 0..n THEN P[p] ELSE R]

LEMMA BooksGrow ==
  ASSUME NEW n, NEW P, NEW St, NEW S, NEW D, NEW G, Books(P, St, n, S, D, G),
         NEW R, IsNext(P, n, R)
  PROVE  Books(Longer(P, n, R), Longer(St, n, S), n + 1, S, D, G)
<1> DEFINE Q == Longer(P, n, R)
           Tt == Longer(St, n, S)
<1>0. /\ n \in Nat \ {0} /\ n \in Nat
      /\ P \in [0..n -> PeriodType] /\ St \in [0..n -> [Donors -> Nat]]
      /\ D \in [Donors -> DonorType] /\ G \in [Donors -> Nat]
      /\ AddsUp(P, St, n) /\ Carries(P, n) /\ St[n] = S
      /\ R \in PeriodType
  BY DEF Books, BooksTyped, IsNext
<1>1. /\ n + 1 \in Nat \ {0} /\ n + 1 \in Nat
      /\ 0..n \subseteq 0..(n + 1) /\ n \in 0..n /\ 0 \in 0..n /\ 1 \in 0..n
      /\ n + 1 \in 0..(n + 1) /\ n + 1 \notin 0..n
      /\ \A p \in 0..(n + 1) : p \in 0..n \/ p = n + 1
  BY <1>0
<1>2. /\ Q \in [0..(n + 1) -> PeriodType] /\ Tt \in [0..(n + 1) -> [Donors -> Nat]]
      /\ \A p \in 0..n : Q[p] = P[p] /\ Tt[p] = St[p]
      /\ Q[n + 1] = R /\ Tt[n + 1] = S
  <2>1. S \in [Donors -> Nat]
    BY <1>0, <1>1
  <2> QED BY <2>1, <1>0, <1>1 DEF Longer
<1> HIDE DEF Q, Tt
<1>3. SameTerms(P, Q, n) /\ SameAmounts(P, Q, n)
  BY <1>2 DEF SameTerms, SameAmounts
<1>4. AddsUp(Q, Tt, n + 1)
  <2>1. SumFunction(Nothing) = 0
    <3>1. SumFunction(Nothing) = SumFunctionOnSet(Nothing, Donors) /\ \A d \in Donors : Nothing[d] = 0
      BY DEF Nothing, SumFunction
    <3> QED BY <3>1, FiniteDonors, SumZero
  <2>2. ASSUME NEW p \in 0..(n + 1) PROVE Q[p].donationsAmount = SumFunction(Q[p].donorAmounts)
    <3>1. CASE p = n + 1
      BY <3>1, <2>1, <1>2 DEF IsNext
    <3>2. CASE p \in 0..n
      BY <3>2, <1>0, <1>2 DEF AddsUp
    <3> QED BY <3>1, <3>2, <1>1
  <2>3. ASSUME NEW p \in 1..(n + 1) PROVE Q[p].stakesAmount = SumFunction(Tt[p])
    <3>1. CASE p = n + 1
      <4>1. P[n].stakesAmount = SumFunction(S)
        <5>1. n \in 1..n
          BY <1>0
        <5> QED BY <5>1, <1>0 DEF AddsUp
      <4> QED BY <3>1, <4>1, <1>2 DEF IsNext
    <3>2. CASE p \in 1..n
      <4>1. p \in 0..n
        BY <3>2
      <4> QED BY <3>2, <4>1, <1>0, <1>2 DEF AddsUp
    <3> QED BY <3>1, <3>2, <1>0
  <2>4. /\ \A d \in Donors : Q[0].donorAmounts[d] = 0 /\ Tt[0][d] = 0
        /\ Q[0].againstPeriods = 0
    BY <1>0, <1>1, <1>2 DEF AddsUp
  <2> QED BY <2>2, <2>3, <2>4 DEF AddsUp
<1>5. ASSUME NEW p \in 1..n PROVE (Shared(Q, p) <=> Shared(P, p)) /\ Base(Q, p) = Base(P, p)
  <2>1. n <= n
    BY <1>0
  <2> QED BY <2>1, <1>0, <1>3, SharedStays
<1>6. Carries(Q, n + 1)
  <2>1. ASSUME NEW p \in 1..(n + 1) PROVE Q[p].endBlock >= Q[p].startBlock
    <3>1. CASE p = n + 1
      BY <3>1, <1>2 DEF IsNext
    <3>2. CASE p \in 1..n
      <4>1. p \in 0..n
        BY <3>2
      <4> QED BY <3>2, <4>1, <1>0, <1>2 DEF Carries
    <3> QED BY <3>1, <3>2, <1>0
  <2>2. Q[1].rewardAmount = Base(Q, 1)
    <3>1. 1 \in 1..n
      BY <1>0
    <3> QED BY <3>1, <1>0, <1>1, <1>2, <1>5 DEF Carries
  <2>3. ASSUME NEW p \in 1..((n + 1) - 1)
        PROVE  Q[p + 1].rewardAmount = Base(Q, p + 1) + (IF Shared(Q, p) THEN 0 ELSE Q[p].rewardAmount)
    <3>0. p \in 1..n /\ p \in 0..n
      BY <1>0
    <3>1. Q[p] = P[p] /\ (Shared(Q, p) <=> Shared(P, p))
      BY <3>0, <1>2, <1>5
    <3>2. CASE p = n
      <4>1. R.rewardAmount = Base(Q, n + 1) + (IF Shared(P, n) THEN 0 ELSE P[n].rewardAmount)
        BY <1>2 DEF IsNext, Base
      <4> QED BY <4>1, <3>1, <3>2, <1>2
    <3>3. CASE p # n
      <4>1. p \in 1..(n - 1) /\ p + 1 \in 1..n /\ p + 1 \in 0..n
        BY <3>0, <3>3, <1>0
      <4>2. P[p + 1].rewardAmount = Base(P, p + 1) + (IF Shared(P, p) THEN 0 ELSE P[p].rewardAmount)
        BY <4>1, <1>0 DEF Carries
      <4>3. Q[p + 1] = P[p + 1] /\ Base(Q, p + 1) = Base(P, p + 1)
        BY <4>1, <1>2, <1>5
      <4> QED BY <4>2, <4>3, <3>1
    <3> QED BY <3>2, <3>3
  <2> QED BY <2>1, <2>2, <2>3 DEF Carries
<1>7. ASSUME NEW d \in Donors PROVE Settled(Q, Tt, n + 1, d, D[d], G[d])
  <2>1. PICK last \in Nat : last = D[d].lastClaimPeriod
    BY <1>0 DEF DonorType
  <2>2. /\ last < n /\ Tracked(P, St, n, d, last) /\ Given(P, St, d, last, G[d])
        /\ ~Known(D[d]) => NothingYet(P, St, n, d)
    BY <2>1 DEF Books, Settled
  <2>3. last \in 0..n /\ last < n + 1
    BY <2>2, <1>0
  <2>4. Given(Q, Tt, d, last, G[d])
    <3>1. SameRewards(P, Q, last)
      <4>1. SameAmounts(P, Q, last)
        <5>1. \A p \in 0..last : p \in 0..n
          BY <2>3, <1>0
        <5> QED BY <5>1, <1>3 DEF SameAmounts
      <4> QED BY <4>1, <2>3, <1>0, <1>3, RewardsStay
    <3>2. SameStakes(St, Tt, last)
      <4>1. \A p \in 1..last : p \in 0..n
        BY <2>3, <1>0
      <4> QED BY <4>1, <1>2 DEF SameStakes
    <3>3. Shares(Q, Tt, d, last) = Shares(P, St, d, last)
      <4>1. BooksTyped(P, St, n)
        BY DEF Books
      <4> QED BY <2>3, <3>1, <3>2, <4>1, SharesStay
    <3> QED BY <3>3, <2>2, <1>1, <1>2 DEF Given
  <2>5. ~Known(D[d]) => NothingYet(Q, Tt, n + 1, d)
    <3> SUFFICES ASSUME NothingYet(P, St, n, d) PROVE NothingYet(Q, Tt, n + 1, d)
      BY <2>2
    <3>1. \A p \in 0..(n + 1) : Q[p].donorAmounts[d] = 0
      <4>1. R.donorAmounts[d] = 0
        BY DEF IsNext, Nothing
      <4>2. ASSUME NEW p \in 0..(n + 1) PROVE Q[p].donorAmounts[d] = 0
        <5>1. CASE p \in 0..n
          BY <5>1, <1>2 DEF NothingYet
        <5>2. CASE p \notin 0..n
          <6>1. p = n + 1
            BY <5>2, <1>1
          <6> QED BY <6>1, <4>1, <1>2
        <5> QED BY <5>1, <5>2
      <4> QED BY <4>2
    <3>2. ASSUME d \notin Q[1].hasSetStakeAmount, NEW p \in 0..(n + 1) PROVE Tt[p][d] = 0
      <4>1. d \notin P[1].hasSetStakeAmount
        BY <3>2, <1>1, <1>2
      <4>2. \A q \in 0..n : St[q][d] = 0
        BY <4>1 DEF NothingYet
      <4> QED BY <4>2, <1>0, <1>1, <1>2
    <3> QED BY <3>1, <3>2 DEF NothingYet
  <2>6. Tracked(Q, Tt, n + 1, d, last)
    <3>1. ASSUME NEW p \in last..(n + 1) PROVE Q[p].donorStakeAmounts[d] <= Tt[p][d]
      <4>1. CASE p = n + 1
        <5>1. R.donorStakeAmounts[d] = 0 /\ S[d] \in Nat
          BY <1>0, <1>1 DEF IsNext, Nothing
        <5> QED BY <4>1, <5>1, <1>2
      <4>2. CASE p \in last..n
        <5>1. p \in 0..n
          BY <4>2, <2>3
        <5> QED BY <4>2, <5>1, <2>2, <1>2 DEF Tracked
      <4> QED BY <4>1, <4>2, <1>0
    <3>2. d \notin Q[1].hasSetStakeAmount => Q[last].donorStakeAmounts[d] = Tt[last][d]
      BY <2>2, <2>3, <1>1, <1>2 DEF Tracked
    <3>3. ASSUME NEW p \in (last + 1)..(n + 1)
          PROVE  /\ d \in Q[p].hasSetStakeAmount => Q[p].donorStakeAmounts[d] = Tt[p][d]
                 /\ d \notin Q[p].hasSetStakeAmount => Tt[p][d] = Tt[p - 1][d]
      <4>1. CASE p = n + 1
        <5>1. p - 1 = n /\ d \notin Q[p].hasSetStakeAmount
          BY <4>1, <1>0, <1>2 DEF IsNext
        <5> QED BY <4>1, <5>1, <1>0, <1>1, <1>2
      <4>2. CASE p \in (last + 1)..n
        <5>1. p \in 0..n /\ p - 1 \in 0..n
          BY <4>2, <2>3, <1>0
        <5>2. /\ d \in P[p].hasSetStakeAmount => P[p].donorStakeAmounts[d] = St[p][d]
              /\ d \notin P[p].hasSetStakeAmount => St[p][d] = St[p - 1][d]
          BY <4>2, <2>2 DEF Tracked
        <5> QED BY <5>1, <5>2, <1>2
      <4> QED BY <4>1, <4>2, <1>0
    <3> QED BY <3>1, <3>2, <3>3 DEF Tracked
  <2> QED BY <2>1, <2>3, <2>4, <2>5, <2>6 DEF Settled
<1>8. BooksTyped(Q, Tt, n + 1)
  BY <1>1, <1>2 DEF BooksTyped
<1> QED BY <1>0, <1>1, <1>2, <1>4, <1>6, <1>7, <1>8 DEF Books, Q, Tt

\* Steps change amounts of the last period, and what is noted of a donor's stake.
SameBefore(P, Q, St, Tt, n) ==
  SameTerms(P, Q, n) /\ SameAmounts(P, Q, n - 1) /\ \A p \in 0..(n - 1) : Tt[p] = St[p]

LEMMA SharesBefore ==
  ASSUME NEW n, NEW P, NEW St, BooksTyped(P, St, n), NEW Q, NEW Tt, SameBefore(P, Q, St, Tt, n),
         NEW e \in Donors
  PROVE  \A k \in 0..(n - 1) : Shares(Q, Tt, e, k) = Shares(P, St, e, k)
<1> SUFFICES ASSUME NEW k \in 0..(n - 1) PROVE Shares(Q, Tt, e, k) = Shares(P, St, e, k)
  OBVIOUS
<1>0. n \in Nat \ {0} /\ n \in Nat /\ k \in 0..n
  BY DEF BooksTyped
<1>1. SameAmounts(P, Q, k)
  <2>1. \A p \in 0..k : p \in 0..(n - 1)
    BY <1>0
  <2> QED BY <2>1 DEF SameBefore, SameAmounts
<1>2. SameStakes(St, Tt, k)
  <2>1. \A p \in 1..k : p \in 0..(n - 1)
    BY <1>0
  <2> QED BY <2>1 DEF SameBefore, SameStakes
<1>3. SameRewards(P, Q, k)
  BY <1>0, <1>1, RewardsStay DEF SameBefore
<1> QED BY <1>0, <1>2, <1>3, SharesStay

\* The books after a step of donor d.
LEMMA BooksAfter ==
  ASSUME NEW n, NEW P, NEW St, NEW S, NEW D, NEW G, Books(P, St, n, S, D, G),
         NEW Q, NEW Tt, BooksTyped(Q, Tt, n), SameBefore(P, Q, St, Tt, n), AddsUp(Q, Tt, n),
         NEW d \in Donors, NEW E, NEW H, E \in [Donors -> DonorType], H \in [Donors -> Nat],
         Settled(Q, Tt, n, d, E[d], H[d]),
         \A e \in Donors : e # d => E[e] = D[e] /\ H[e] = G[e] /\ SameOf(P, Q, St, Tt, n, e)
  PROVE  Books(Q, Tt, n, Tt[n], E, H)
<1>0. /\ BooksTyped(P, St, n) /\ n \in Nat \ {0} /\ P \in [0..n -> PeriodType]
      /\ Carries(P, n) /\ D \in [Donors -> DonorType]
      /\ SameTerms(P, Q, n) /\ SameAmounts(P, Q, n - 1)
  BY DEF Books, BooksTyped, SameBefore
<1>1. Carries(Q, n)
  BY <1>0, CarriesStays
<1>2. ASSUME NEW e \in Donors, e # d PROVE Settled(Q, Tt, n, e, E[e], H[e])
  <2>1. Settled(P, St, n, e, D[e], G[e]) /\ D[e] \in DonorType
    BY <1>0 DEF Books
  <2>2. SameOf(P, Q, St, Tt, n, e) /\ E[e] = D[e] /\ H[e] = G[e]
    BY <1>2
  <2>3. \A k \in 0..(n - 1) : Shares(Q, Tt, e, k) = Shares(P, St, e, k)
    BY <1>0, SharesBefore
  <2>4. Settled(Q, Tt, n, e, D[e], G[e])
    BY <1>0, <2>1, <2>2, <2>3, SettledStays
  <2> QED BY <2>2, <2>4
<1>3. ASSUME NEW e \in Donors PROVE Settled(Q, Tt, n, e, E[e], H[e])
  BY <1>2
<1> QED BY <1>1, <1>3 DEF Books

(***************************************************************************)
(* A donation.                                                              *)
(***************************************************************************)
DonatedTo(P, n, d, amount) ==
  [P EXCEPT ![n].donationsAmount = @ + amount, ![n].donorAmounts[d] = @ + amount]
Donating(D, d, n) ==
  [D EXCEPT ![d].rewardPeriods = IF @ # << >> /\ @[Len(@)] = n THEN @ ELSE Append(@, n)]

LEMMA BooksDonate ==
  ASSUME NEW n, NEW P, NEW St, NEW S, NEW D, NEW G, Books(P, St, n, S, D, G),
         NEW d \in Donors, NEW amount \in Nat
  PROVE  Books(DonatedTo(P, n, d, amount), St, n, S, Donating(D, d, n), G)
<1> DEFINE Q == DonatedTo(P, n, d, amount)
           E == Donating(D, d, n)
<1>r. PICK R : R = P[n]
  OBVIOUS
<1> DEFINE x == P[n].donationsAmount + amount
           y == [P[n].donorAmounts EXCEPT ![d] = @ + amount]
           now == [P[n] EXCEPT !.donationsAmount = x, !.donorAmounts = y]
<1>0. /\ n \in Nat \ {0} /\ n \in Nat /\ n \in 0..n /\ 0 # n
      /\ P \in [0..n -> PeriodType] /\ St \in [0..n -> [Donors -> Nat]]
      /\ D \in [Donors -> DonorType] /\ G \in [Donors -> Nat]
      /\ AddsUp(P, St, n) /\ Carries(P, n) /\ St[n] = S
  BY DEF Books, BooksTyped
<1>1. /\ R \in PeriodType /\ R.donorAmounts \in [Donors -> Nat] /\ R.donationsAmount \in Nat
      /\ R.donorAmounts[d] \in Nat
  <2>1. R \in PeriodType
    BY <1>0, <1>r
  <2> QED BY <2>1 DEF PeriodType
<1>2. /\ now \in PeriodType
      /\ now.donationsAmount = R.donationsAmount + amount
      /\ now.donorAmounts = [R.donorAmounts EXCEPT ![d] = @ + amount]
      /\ now.rewardAmount = R.rewardAmount /\ now.rewardPerBlock = R.rewardPerBlock
      /\ now.startBlock = R.startBlock /\ now.endBlock = R.endBlock
      /\ now.againstPeriods = R.againstPeriods /\ now.stakingDonationRatio = R.stakingDonationRatio
      /\ now.stakesAmount = R.stakesAmount /\ now.hasSetStakeAmount = R.hasSetStakeAmount
      /\ now.donorStakeAmounts = R.donorStakeAmounts
  <2>1. x \in Nat /\ x = R.donationsAmount + amount
    BY <1>1, <1>r
  <2>2. y \in [Donors -> Nat] /\ y = [R.donorAmounts EXCEPT ![d] = @ + amount]
    BY <1>1, <1>r
  <2> HIDE DEF x, y
  <2>3. now = [R EXCEPT !.donationsAmount = x, !.donorAmounts = y]
    BY <1>r
  <2> HIDE DEF now
  <2>4. /\ now \in PeriodType /\ now.donationsAmount = x /\ now.donorAmounts = y
        /\ now.rewardAmount = R.rewardAmount /\ now.rewardPerBlock = R.rewardPerBlock
        /\ now.startBlock = R.startBlock /\ now.endBlock = R.endBlock
        /\ now.againstPeriods = R.againstPeriods /\ now.stakingDonationRatio = R.stakingDonationRatio
        /\ now.stakesAmount = R.stakesAmount /\ now.hasSetStakeAmount = R.hasSetStakeAmount
        /\ now.donorStakeAmounts = R.donorStakeAmounts
    BY <2>1, <2>2, <2>3, <1>1 DEF PeriodType
  <2> QED BY <2>1, <2>2, <2>4
<1>3. /\ Q \in [0..n -> PeriodType] /\ Q[n] = now
      /\ \A p \in 0..n : p # n => Q[p] = P[p]
  <2>1. Q = [P EXCEPT ![n] = now]
    BY <1>0 DEF DonatedTo
  <2> HIDE DEF Q, now, x, y
  <2> QED BY <2>1, <1>0, <1>2
<1> HIDE DEF Q, now, x, y
<1>4. BooksTyped(Q, St, n)
  BY <1>0, <1>3 DEF BooksTyped
<1>5. SameBefore(P, Q, St, St, n)
  <2>1. SameTerms(P, Q, n)
    BY <1>2, <1>3, <1>r DEF SameTerms
  <2>2. \A p \in 0..(n - 1) : p \in 0..n /\ p # n
    BY <1>0
  <2>3. SameAmounts(P, Q, n - 1)
    BY <1>3, <2>2 DEF SameAmounts
  <2> QED BY <2>1, <2>3 DEF SameBefore
<1>6. AddsUp(Q, St, n)
  <2>1. ASSUME NEW p \in 0..n PROVE Q[p].donationsAmount = SumFunction(Q[p].donorAmounts)
    <3>1. CASE p = n
      <4>1. now.donorAmounts \in [Donors -> Nat] /\ now.donorAmounts[d] = R.donorAmounts[d] + amount
            /\ \A e \in Donors : e # d => now.donorAmounts[e] = R.donorAmounts[e]
        BY <1>1, <1>2
      <4>2. \A e \in Donors : R.donorAmounts[e] \in Int /\ now.donorAmounts[e] \in Int
        BY <1>1, <4>1
      <4>3. SumFunctionOnSet(now.donorAmounts, Donors)
              = SumFunctionOnSet(R.donorAmounts, Donors) - R.donorAmounts[d] + now.donorAmounts[d]
        <5>1. PICK f, g : f = R.donorAmounts /\ g = now.donorAmounts
          OBVIOUS
        <5>2. /\ \A e \in Donors : f[e] \in Int /\ g[e] \in Int
              /\ \A e \in Donors : e # d => g[e] = f[e]
          BY <4>1, <4>2, <5>1
        <5>3. SumFunctionOnSet(g, Donors) = SumFunctionOnSet(f, Donors) - f[d] + g[d]
          BY <5>2, FiniteDonors, SumChange
        <5> QED BY <5>1, <5>3
      <4>4. R.donationsAmount = SumFunctionOnSet(R.donorAmounts, Donors)
        BY <1>0, <1>1, <1>r DEF AddsUp, SumFunction
      <4>5. SumFunction(now.donorAmounts) = SumFunctionOnSet(now.donorAmounts, Donors)
        BY <4>1 DEF SumFunction
      <4> QED BY <3>1, <4>1, <4>3, <4>4, <4>5, <1>1, <1>2, <1>3
    <3>2. CASE p # n
      BY <3>2, <1>0, <1>3 DEF AddsUp
    <3> QED BY <3>1, <3>2
  <2>2. ASSUME NEW p \in 1..n PROVE Q[p].stakesAmount = SumFunction(St[p])
    <3>1. p \in 0..n
      OBVIOUS
    <3>2. Q[p].stakesAmount = P[p].stakesAmount
      BY <3>1, <1>2, <1>3, <1>r
    <3> QED BY <3>2, <1>0 DEF AddsUp
  <2>3. \A e \in Donors : Q[0].donorAmounts[e] = 0 /\ St[0][e] = 0
    BY <1>0, <1>3 DEF AddsUp
  <2>4. Q[0].againstPeriods = 0
    BY <1>0, <1>3 DEF AddsUp
  <2> QED BY <2>1, <2>2, <2>3, <2>4 DEF AddsUp
<1>7. ASSUME NEW e \in Donors, e # d PROVE E[e] = D[e] /\ SameOf(P, Q, St, St, n, e)
  <2>1. E[e] = D[e]
    BY <1>0, <1>7 DEF Donating
  <2>2. now.donorAmounts[e] = R.donorAmounts[e]
    BY <1>1, <1>2, <1>7
  <2> QED BY <2>1, <2>2, <1>2, <1>3, <1>r DEF SameOf
<1>8. /\ E \in [Donors -> DonorType] /\ E[d].lastClaimPeriod = D[d].lastClaimPeriod
      /\ E[d].rewardPeriods # << >>
  <2>1. D[d] \in DonorType /\ D[d].rewardPeriods \in Seq(Nat)
    BY <1>0 DEF DonorType
  <2>2. PICK s : s = IF D[d].rewardPeriods # << >> /\ D[d].rewardPeriods[Len(D[d].rewardPeriods)] = n
                     THEN D[d].rewardPeriods ELSE Append(D[d].rewardPeriods, n)
    OBVIOUS
  <2>3. s \in Seq(Nat) /\ s # << >>
    <3>1. PICK q \in Seq(Nat) : q = D[d].rewardPeriods
      BY <2>1
    <3>2. Append(q, n) \in Seq(Nat) /\ Append(q, n) # << >>
      <4>1. Append(q, n) \in Seq(Nat) /\ Len(Append(q, n)) = Len(q) + 1 /\ Len(q) \in Nat
        BY <1>0
      <4>2. Len(<< >>) = 0
        OBVIOUS
      <4> QED BY <4>1, <4>2
    <3>3. s = Append(q, n) \/ (s = q /\ q # << >>)
      BY <2>2, <3>1
    <3> QED BY <3>2, <3>3
  <2>4. E = [D EXCEPT ![d].rewardPeriods = s]
    BY <2>2, <1>0 DEF Donating
  <2>5. [D[d] EXCEPT !.rewardPeriods = s] \in DonorType
    BY <2>1, <2>3 DEF DonorType
  <2>6. E[d] = [D[d] EXCEPT !.rewardPeriods = s]
    BY <2>4, <1>0
  <2>7. E \in [Donors -> DonorType]
    BY <2>4, <2>5, <1>0
  <2>8. E[d].lastClaimPeriod = D[d].lastClaimPeriod /\ E[d].rewardPeriods = s
    BY <2>1, <2>6 DEF DonorType
  <2> QED BY <2>3, <2>7, <2>8
<1> HIDE DEF E
<1>9. Settled(Q, St, n, d, E[d], G[d])
  <2>1. PICK last \in Nat : last = D[d].lastClaimPeriod
    BY <1>0 DEF DonorType
  <2>2. last < n /\ Tracked(P, St, n, d, last) /\ Given(P, St, d, last, G[d])
    BY <2>1 DEF Books, Settled
  <2>3. Known(E[d])
    BY <1>8 DEF Known
  <2>4. \A p \in 0..n : /\ Q[p].donorStakeAmounts = P[p].donorStakeAmounts
                        /\ Q[p].hasSetStakeAmount = P[p].hasSetStakeAmount
    BY <1>2, <1>3, <1>r
  <2>5. 1 \in 0..n /\ last \in 0..n /\ last \in 0..(n - 1)
    BY <2>2, <1>0
  <2>6. Tracked(Q, St, n, d, last)
    <3>1. \A p \in last..n : p \in 0..n
      BY <1>0, <2>5
    <3>2. \A p \in (last + 1)..n : p \in 0..n
      BY <1>0, <2>5
    <3> QED BY <2>2, <2>4, <2>5, <3>1, <3>2 DEF Tracked
  <2>7. Given(Q, St, d, last, G[d])
    <3>1. BooksTyped(P, St, n)
      BY DEF Books
    <3>2. Shares(Q, St, d, last) = Shares(P, St, d, last)
      BY <3>1, <1>5, <2>5, SharesBefore
    <3> QED BY <2>2, <2>4, <2>5, <3>2 DEF Given
  <2> QED BY <2>1, <2>2, <2>3, <2>6, <2>7, <1>8 DEF Settled
<1>10. Books(Q, St, n, St[n], E, G)
  <2>1. /\ E \in [Donors -> DonorType] /\ G \in [Donors -> Nat]
        /\ \A e \in Donors : e # d => E[e] = D[e] /\ G[e] = G[e] /\ SameOf(P, Q, St, St, n, e)
    BY <1>0, <1>7, <1>8
  <2> QED BY <2>1, <1>4, <1>5, <1>6, <1>9, BooksAfter
<1> QED BY <1>0, <1>10 DEF Q, E

LEMMA CountIs == ASSUME NEW n \in Nat, NEW P, DOMAIN P = 0..n PROVE CountOf(P) = n
<1>1. Cardinality(0..n) = n + 1
  <2>1. 0 \in Int /\ n \in Int /\ ~(0 > n)
    OBVIOUS
  <2>2. Cardinality(0..n) = n - 0 + 1
    BY <2>1, FS_Interval
  <2> QED BY <2>2
<1> QED BY <1>1 DEF CountOf

\* Whoever has neither donated nor staked has no share.
LEMMA NoShares ==
  ASSUME NEW n, NEW P, NEW St, BooksTyped(P, St, n), NEW d \in Donors,
         NothingYet(P, St, n, d), d \notin P[1].hasSetStakeAmount
  PROVE  \A k \in 0..n : Shares(P, St, d, k) = 0
<1>0. n \in Nat /\ P \in [0..n -> PeriodType] /\ St \in [0..n -> [Donors -> Nat]]
  BY DEF BooksTyped
<1>1. ASSUME NEW p \in 1..n PROVE Share(P, St, p, d) = 0
  <2>1. Window(P, p) \subseteq 0..n /\ IsFiniteSet(Window(P, p))
    BY <1>0, WindowIs
  <2> DEFINE h == [q \in Window(P, p) |-> P[q].donorAmounts[d]]
  <2>2. \A q \in Window(P, p) : h[q] = 0
    BY <2>1 DEF NothingYet
  <2>3. Donated(P, p, d) = SumFunctionOnSet(h, Window(P, p))
    BY DEF Donated
  <2> HIDE DEF h
  <2>4. Donated(P, p, d) = 0
    BY <2>1, <2>2, <2>3, SumZero
  <2>5. St[p][d] = 0
    <3>1. p \in 0..n
      BY <1>0
    <3> QED BY <3>1 DEF NothingYet
  <2>6. PICK r \in Nat : r = RatioOf(P[p])
    <3>1. P[p] \in PeriodType
      BY <1>0
    <3> QED BY <3>1, RatioPositive
  <2>7. r * 0 + 0 = 0
    OBVIOUS
  <2>8. Part(P, St, p, d) = 0
    BY <2>4, <2>5, <2>6, <2>7 DEF Part
  <2> QED BY <2>8 DEF Share
<1> DEFINE Good == {k \in Nat : k <= n => Shares(P, St, d, k) = 0}
<1>2. 0 \in Good
  BY <1>0, SharesGrow
<1>3. ASSUME NEW k \in Nat, k \in Good PROVE k + 1 \in Good
  <2> SUFFICES ASSUME k + 1 <= n PROVE Shares(P, St, d, k + 1) = 0
    OBVIOUS
  <2>1. k \in 0..(n - 1) /\ k + 1 \in 1..n /\ k <= n
    BY <1>0
  <2>2. Shares(P, St, d, k) = 0
    BY <1>3, <2>1
  <2>3. Shares(P, St, d, k + 1) = Shares(P, St, d, k) + Share(P, St, k + 1, d)
    <3>1. \A i \in 0..(n - 1) : Shares(P, St, d, i + 1) = Shares(P, St, d, i) + Share(P, St, i + 1, d)
      BY <1>0, SharesGrow
    <3> QED BY <2>1, <3>1
  <2>4. Share(P, St, k + 1, d) = 0
    BY <1>1, <2>1
  <2> QED BY <2>2, <2>3, <2>4
<1> HIDE DEF Good
<1>4. Nat \subseteq Good
  BY <1>2, <1>3, NaturalInduction
<1> QED BY <1>0, <1>4 DEF Good

(***************************************************************************)
(* A change of a stake.                                                     *)
(***************************************************************************)
LEMMA BooksStake ==
  ASSUME NEW n, NEW P, NEW St, NEW S, NEW D, NEW G, Books(P, St, n, S, D, G),
         NEW d \in Donors, NEW amount \in Nat, NEW U, U = [S EXCEPT ![d] = amount]
  PROVE  Books(Staked(P, d, amount, SumFunction(U)), [St EXCEPT ![n] = U], n, U,
               [D EXCEPT ![d] = ClaimsFrom(@, n)], G)
<1> DEFINE Q == Staked(P, d, amount, SumFunction(U))
           Tt == [St EXCEPT ![n] = U]
           E == [D EXCEPT ![d] = ClaimsFrom(@, n)]
<1>r. PICK R : R = P[n]
  OBVIOUS
<1> DEFINE x == P[n].hasSetStakeAmount \cup {d}
           y == [P[n].donorStakeAmounts EXCEPT ![d] = amount]
           z == SumFunction(U)
           now == [P[n] EXCEPT !.hasSetStakeAmount = x, !.donorStakeAmounts = y, !.stakesAmount = z]
<1>0. /\ n \in Nat \ {0} /\ n \in Nat /\ n \in 0..n /\ 0 # n
      /\ P \in [0..n -> PeriodType] /\ St \in [0..n -> [Donors -> Nat]]
      /\ D \in [Donors -> DonorType] /\ G \in [Donors -> Nat]
      /\ AddsUp(P, St, n) /\ Carries(P, n) /\ St[n] = S /\ S \in [Donors -> Nat]
  BY DEF Books, BooksTyped
<1>u. U \in [Donors -> Nat] /\ SumFunction(U) \in Nat /\ U[d] = amount /\ \A e \in Donors : e # d => U[e] = S[e]
  <2>1. U \in [Donors -> Nat] /\ U[d] = amount /\ \A e \in Donors : e # d => U[e] = S[e]
    BY <1>0
  <2>2. SumFunction(U) = SumFunctionOnSet(U, Donors)
    BY <2>1 DEF SumFunction
  <2>3. SumFunctionOnSet(U, Donors) \in Nat
    BY <2>1, FiniteDonors, SumNat
  <2> QED BY <2>1, <2>2, <2>3
<1>1. /\ R \in PeriodType /\ R.donorStakeAmounts \in [Donors -> Nat]
      /\ R.hasSetStakeAmount \subseteq Donors
  <2>1. R \in PeriodType
    BY <1>0, <1>r
  <2> QED BY <2>1 DEF PeriodType
<1>2. /\ now \in PeriodType
      /\ now.hasSetStakeAmount = R.hasSetStakeAmount \cup {d}
      /\ now.donorStakeAmounts = [R.donorStakeAmounts EXCEPT ![d] = amount]
      /\ now.stakesAmount = SumFunction(U)
      /\ now.rewardAmount = R.rewardAmount /\ now.rewardPerBlock = R.rewardPerBlock
      /\ now.startBlock = R.startBlock /\ now.endBlock = R.endBlock
      /\ now.againstPeriods = R.againstPeriods /\ now.stakingDonationRatio = R.stakingDonationRatio
      /\ now.donationsAmount = R.donationsAmount /\ now.donorAmounts = R.donorAmounts
  <2>1. x \in SUBSET Donors /\ x = R.hasSetStakeAmount \cup {d}
    BY <1>1, <1>r
  <2>2. y \in [Donors -> Nat] /\ y = [R.donorStakeAmounts EXCEPT ![d] = amount]
    BY <1>1, <1>r
  <2>3. z \in Nat /\ z = SumFunction(U)
    BY <1>u
  <2> HIDE DEF x, y, z
  <2>4. now = [R EXCEPT !.hasSetStakeAmount = x, !.donorStakeAmounts = y, !.stakesAmount = z]
    BY <1>r
  <2> HIDE DEF now
  <2>5. /\ now \in PeriodType /\ now.hasSetStakeAmount = x /\ now.donorStakeAmounts = y /\ now.stakesAmount = z
        /\ now.rewardAmount = R.rewardAmount /\ now.rewardPerBlock = R.rewardPerBlock
        /\ now.startBlock = R.startBlock /\ now.endBlock = R.endBlock
        /\ now.againstPeriods = R.againstPeriods /\ now.stakingDonationRatio = R.stakingDonationRatio
        /\ now.donationsAmount = R.donationsAmount /\ now.donorAmounts = R.donorAmounts
    BY <2>1, <2>2, <2>3, <2>4, <1>1 DEF PeriodType
  <2> QED BY <2>1, <2>2, <2>3, <2>5
<1>3. /\ Q \in [0..n -> PeriodType] /\ Q[n] = now
      /\ \A p \in 0..n : p # n => Q[p] = P[p]
      /\ Tt \in [0..n -> [Donors -> Nat]] /\ Tt[n] = U
      /\ \A p \in 0..n : p # n => Tt[p] = St[p]
  <2>1. CountOf(P) = n
    BY <1>0, CountIs
  <2>2. Q = [P EXCEPT ![n] = now]
    <3>1. Q = [P EXCEPT ![n].hasSetStakeAmount = @ \cup {d}, ![n].donorStakeAmounts[d] = amount,
                        ![n].stakesAmount = z]
      BY <2>1, Zenon DEF Staked
    <3>2. P[n] \in PeriodType
      BY <1>0
    <3> HIDE DEF Q
    <3> QED BY <3>1, <3>2, <1>0 DEF PeriodType
  <2> HIDE DEF Q, now, x, y, z
  <2> QED BY <2>2, <1>0, <1>2, <1>u
<1> HIDE DEF Q, now, x, y, z, Tt
<1>4. BooksTyped(Q, Tt, n)
  BY <1>0, <1>3 DEF BooksTyped
<1>b. \A p \in 0..(n - 1) : p \in 0..n /\ p # n
  BY <1>0
<1>5. SameBefore(P, Q, St, Tt, n)
  <2>1. SameTerms(P, Q, n)
    BY <1>2, <1>3, <1>r DEF SameTerms
  <2>2. SameAmounts(P, Q, n - 1)
    BY <1>3, <1>b DEF SameAmounts
  <2>3. \A p \in 0..(n - 1) : Tt[p] = St[p]
    BY <1>3, <1>b
  <2> QED BY <2>1, <2>2, <2>3 DEF SameBefore
<1>6. AddsUp(Q, Tt, n)
  <2>1. ASSUME NEW p \in 0..n PROVE Q[p].donationsAmount = SumFunction(Q[p].donorAmounts)
    <3>1. Q[p].donationsAmount = P[p].donationsAmount /\ Q[p].donorAmounts = P[p].donorAmounts
      BY <1>2, <1>3, <1>r
    <3> QED BY <3>1, <1>0 DEF AddsUp
  <2>2. ASSUME NEW p \in 1..n PROVE Q[p].stakesAmount = SumFunction(Tt[p])
    <3>1. CASE p = n
      BY <3>1, <1>2, <1>3
    <3>2. CASE p # n
      <4>1. p \in 0..n
        OBVIOUS
      <4> QED BY <3>2, <4>1, <1>0, <1>3 DEF AddsUp
    <3> QED BY <3>1, <3>2
  <2>3. 0 \in 0..n
    BY <1>0
  <2>4. \A e \in Donors : Q[0].donorAmounts[e] = 0 /\ Tt[0][e] = 0
    BY <1>0, <1>3, <2>3 DEF AddsUp
  <2>5. Q[0].againstPeriods = 0
    BY <1>0, <1>3, <2>3 DEF AddsUp
  <2> QED BY <2>1, <2>2, <2>4, <2>5 DEF AddsUp
<1>7. ASSUME NEW e \in Donors, e # d PROVE E[e] = D[e] /\ SameOf(P, Q, St, Tt, n, e)
  <2>1. E[e] = D[e]
    BY <1>0, <1>7
  <2>2. now.donorStakeAmounts[e] = R.donorStakeAmounts[e] /\ U[e] = S[e]
        /\ (e \in now.hasSetStakeAmount <=> e \in R.hasSetStakeAmount)
    BY <1>1, <1>2, <1>7, <1>u
  <2> QED BY <2>1, <2>2, <1>0, <1>2, <1>3, <1>r DEF SameOf
<1>d. /\ now.donorStakeAmounts[d] = amount /\ d \in now.hasSetStakeAmount
  BY <1>1, <1>2
<1>8. /\ E \in [Donors -> DonorType] /\ E[d] = ClaimsFrom(D[d], n)
      /\ E[d].lastClaimPeriod = IF Known(D[d]) THEN D[d].lastClaimPeriod ELSE n - 1
      /\ E[d].rewardPeriods = D[d].rewardPeriods
  <2>1. D[d] \in DonorType /\ n - 1 \in Nat
    BY <1>0
  <2>2. ClaimsFrom(D[d], n) \in DonorType
    BY <2>1 DEF ClaimsFrom, DonorType
  <2>3. E[d] = ClaimsFrom(D[d], n) /\ E \in [Donors -> DonorType]
    BY <2>2, <1>0
  <2>4. /\ ClaimsFrom(D[d], n).lastClaimPeriod = IF Known(D[d]) THEN D[d].lastClaimPeriod ELSE n - 1
        /\ ClaimsFrom(D[d], n).rewardPeriods = D[d].rewardPeriods
    BY <2>1 DEF ClaimsFrom, Known, DonorType
  <2> QED BY <2>3, <2>4
<1> HIDE DEF E
<1>9. Settled(Q, Tt, n, d, E[d], G[d])
  <2>1. PICK last \in Nat : last = D[d].lastClaimPeriod
    BY <1>0 DEF DonorType
  <2>2. /\ last < n /\ Tracked(P, St, n, d, last) /\ Given(P, St, d, last, G[d])
        /\ ~Known(D[d]) => NothingYet(P, St, n, d)
    BY <2>1 DEF Books, Settled
  <2>3. 1 \in 0..n /\ last \in 0..n /\ last \in 0..(n - 1) /\ n - 1 \in 0..(n - 1) /\ n - 1 \in 0..n
    BY <2>2, <1>0
  <2>4. d \notin Q[1].hasSetStakeAmount => d \notin P[1].hasSetStakeAmount /\ n # 1
    BY <2>3, <1>2, <1>3, <1>r
  <2>5. BooksTyped(P, St, n)
    BY DEF Books
  <2>6. \A k \in 0..(n - 1) : Shares(Q, Tt, d, k) = Shares(P, St, d, k)
    BY <2>5, <1>5, SharesBefore
  <2>7. CASE Known(D[d])
    <3>1. E[d].lastClaimPeriod = last
      BY <2>1, <2>7, <1>8
    <3>2. Known(E[d])
      BY <2>1, <2>7, <3>1, <1>8 DEF Known
    <3>3. Given(Q, Tt, d, last, G[d])
      BY <2>2, <2>3, <2>4, <2>6 DEF Given
    <3>4. Tracked(Q, Tt, n, d, last)
      <4>1. ASSUME NEW p \in last..n PROVE Q[p].donorStakeAmounts[d] <= Tt[p][d]
        <5>1. CASE p = n
          BY <5>1, <1>3, <1>d, <1>u
        <5>2. CASE p # n
          <6>1. p \in 0..n
            BY <1>0
          <6> QED BY <5>2, <6>1, <2>2, <1>3 DEF Tracked
        <5> QED BY <5>1, <5>2
      <4>2. d \notin Q[1].hasSetStakeAmount => Q[last].donorStakeAmounts[d] = Tt[last][d]
        <5>1. last # n
          BY <2>2
        <5> QED BY <5>1, <2>2, <2>3, <2>4, <1>3 DEF Tracked
      <4>3. ASSUME NEW p \in (last + 1)..n
            PROVE  /\ d \in Q[p].hasSetStakeAmount => Q[p].donorStakeAmounts[d] = Tt[p][d]
                   /\ d \notin Q[p].hasSetStakeAmount => Tt[p][d] = Tt[p - 1][d]
        <5>1. CASE p = n
          BY <5>1, <1>3, <1>d, <1>u
        <5>2. CASE p # n
          <6>1. p \in 0..n /\ p - 1 \in 0..n /\ p - 1 # n
            BY <1>0
          <6>2. Q[p] = P[p] /\ Tt[p] = St[p] /\ Tt[p - 1] = St[p - 1]
            BY <5>2, <6>1, <1>3
          <6> QED BY <6>2, <2>2 DEF Tracked
        <5> QED BY <5>1, <5>2
      <4> QED BY <4>1, <4>2, <4>3 DEF Tracked
    <3> QED BY <3>1, <3>2, <3>3, <3>4, <2>2 DEF Settled
  <2>8. CASE ~Known(D[d])
    <3>0. NothingYet(P, St, n, d) /\ last = 0
      BY <2>1, <2>2, <2>8 DEF Known
    <3>1. E[d].lastClaimPeriod = n - 1 /\ n - 1 < n
      BY <2>8, <1>0, <1>8
    <3>2. Given(Q, Tt, d, n - 1, G[d])
      <4>1. Shares(P, St, d, 0) = 0
        BY <1>0, SharesGrow
      <4>2. G[d] \in Nat /\ G[d] <= 0
        BY <2>2, <3>0, <4>1, <1>0 DEF Given
      <4>3. G[d] = 0
        BY <4>2
      <4>4. Shares(P, St, d, n - 1) \in Nat
        BY <2>3, <1>0, SharesGrow
      <4>5. d \notin P[1].hasSetStakeAmount => Shares(P, St, d, n - 1) = 0
        BY <2>3, <2>5, <3>0, NoShares
      <4>6. Shares(Q, Tt, d, n - 1) = Shares(P, St, d, n - 1)
        BY <2>3, <2>6
      <4> QED BY <2>4, <4>3, <4>4, <4>5, <4>6 DEF Given
    <3>3. ~Known(E[d]) => NothingYet(Q, Tt, n, d)
      <4> SUFFICES ASSUME ~Known(E[d]) PROVE NothingYet(Q, Tt, n, d)
        OBVIOUS
      <4>1. n = 1
        BY <3>1, <1>0 DEF Known
      <4>2. \A p \in 0..n : Q[p].donorAmounts = P[p].donorAmounts
        BY <1>2, <1>3, <1>r
      <4> QED BY <2>4, <3>0, <4>1, <4>2 DEF NothingYet
    <3>4. Tracked(Q, Tt, n, d, n - 1)
      <4>1. ASSUME NEW p \in (n - 1)..n PROVE Q[p].donorStakeAmounts[d] <= Tt[p][d]
        <5>1. CASE p = n
          BY <5>1, <1>3, <1>d, <1>u
        <5>2. CASE p # n
          <6>1. p \in 0..n /\ p \in last..n
            BY <3>0, <1>0
          <6> QED BY <5>2, <6>1, <2>2, <1>3 DEF Tracked
        <5> QED BY <5>1, <5>2
      <4>2. d \notin Q[1].hasSetStakeAmount => Q[n - 1].donorStakeAmounts[d] = Tt[n - 1][d]
        <5> SUFFICES ASSUME d \notin Q[1].hasSetStakeAmount PROVE Q[n - 1].donorStakeAmounts[d] = Tt[n - 1][d]
          OBVIOUS
        <5>1. n - 1 # n /\ n - 1 \in last..n
          BY <3>0, <1>0
        <5>2. St[n - 1][d] = 0
          BY <2>3, <2>4, <3>0 DEF NothingYet
        <5>3. P[n - 1].donorStakeAmounts[d] <= St[n - 1][d]
          BY <5>1, <2>2 DEF Tracked
        <5>4. P[n - 1].donorStakeAmounts[d] \in Nat
          <6>1. P[n - 1].donorStakeAmounts \in [Donors -> Nat]
            BY <2>3, <1>0, PeriodIs
          <6> QED BY <6>1
        <5>5. P[n - 1].donorStakeAmounts[d] = 0
          BY <5>2, <5>3, <5>4
        <5> QED BY <5>1, <5>2, <5>5, <2>3, <1>3
      <4>3. ASSUME NEW p \in ((n - 1) + 1)..n
            PROVE  /\ d \in Q[p].hasSetStakeAmount => Q[p].donorStakeAmounts[d] = Tt[p][d]
                   /\ d \notin Q[p].hasSetStakeAmount => Tt[p][d] = Tt[p - 1][d]
        <5>1. p = n
          BY <1>0
        <5> QED BY <5>1, <1>3, <1>d, <1>u
      <4> QED BY <4>1, <4>2, <4>3 DEF Tracked
    <3> QED BY <3>1, <3>2, <3>3, <3>4 DEF Settled
  <2> QED BY <2>7, <2>8
<1>10. Books(Q, Tt, n, Tt[n], E, G)
  <2>1. /\ E \in [Donors -> DonorType] /\ G \in [Donors -> Nat]
        /\ \A e \in Donors : e # d => E[e] = D[e] /\ G[e] = G[e] /\ SameOf(P, Q, St, Tt, n, e)
    BY <1>0, <1>7, <1>8
  <2> QED BY <2>1, <1>4, <1>5, <1>6, <1>9, BooksAfter
<1> QED BY <1>3, <1>10 DEF Q, E, Tt

LEMMA TimesMonotone == ASSUME NEW r \in Nat, NEW x \in Nat, NEW y \in Nat, x <= y PROVE r * x <= r * y
<1>1. PICK k \in Nat : y = x + k
  <2>1. y - x \in Nat /\ y = x + (y - x)
    OBVIOUS
  <2> QED BY <2>1
<1>2. r * y = r * x + r * k
  BY <1>1
<1>3. r * k \in Nat /\ r * x \in Nat
  BY Products
<1> QED BY <1>2, <1>3

LEMMA QuotientMonotone ==
  ASSUME NEW x \in Nat, NEW y \in Nat, x <= y, NEW m \in Nat \ {0}
  PROVE  x \div m <= y \div m
OBVIOUS

\* A share, computed from a stake that may be less than there was.
IsShare(c, R, s, r, k, m) == c = IF s + k = 0 THEN 0 ELSE (R * (s * r + k)) \div m
IsPart(x, r, s, K) == x = r * s + K
IsFull(C, R, x, m) == C = IF x = 0 THEN 0 ELSE (R * x) \div m

Compared(c, C, R, s, r, k, K, x, m) ==
  /\ R \in Nat /\ s \in Nat /\ r \in Nat \ {0} /\ k \in Nat /\ K \in Nat /\ k <= K
  /\ x \in Nat /\ m \in Nat /\ x <= m
  /\ IsPart(x, r, s, K) /\ IsShare(c, R, s, r, k, m) /\ IsFull(C, R, x, m)

LEMMA ShareSmaller ==
  ASSUME NEW R, NEW s, NEW r, NEW k, NEW K, NEW x, NEW m, NEW c, NEW C,
         Compared(c, C, R, s, r, k, K, x, m)
  PROVE  c \in Nat /\ c <= C /\ (k = K => c = C)
<1>a. /\ R \in Nat /\ s \in Nat /\ r \in Nat \ {0} /\ k \in Nat /\ K \in Nat /\ k <= K
      /\ x \in Nat /\ m \in Nat /\ x <= m
      /\ IsPart(x, r, s, K) /\ IsShare(c, R, s, r, k, m) /\ IsFull(C, R, x, m)
  BY DEF Compared
<1>0. /\ x = r * s + K
      /\ C = IF x = 0 THEN 0 ELSE (R * x) \div m
  BY <1>a DEF IsPart, IsFull
<1>1. PICK p \in Nat : p = r * s /\ p = s * r /\ (s # 0 => p # 0)
  <2>1. r * s \in Nat /\ r * s = s * r
    BY <1>a, Products
  <2>2. ASSUME s # 0 PROVE r * s # 0
    <3>1. PICK a \in Nat, b \in Nat : r = a + 1 /\ s = b + 1
      <4>1. r - 1 \in Nat /\ s - 1 \in Nat /\ r = (r - 1) + 1 /\ s = (s - 1) + 1
        BY <1>a, <2>2
      <4> QED BY <1>a, <4>1
    <3>2. r * s = a * b + a + b + 1
      BY <1>a, <3>1
    <3>3. a * b \in Nat
      BY <1>a, Products
    <3> QED BY <1>a, <3>2, <3>3
  <2> QED BY <1>a, <2>1, <2>2
<1>2. PICK y \in Nat : y = p + k /\ y <= x /\ (k = K => y = x)
  BY <1>a, <1>0, <1>1
<1>3. CASE s + k = 0
  <2>1. c = 0 /\ s = 0 /\ k = 0
    BY <1>a, <1>3 DEF IsShare
  <2>2. r * 0 = 0
    BY <1>a
  <2>3. C \in Nat
    <3>1. CASE x = 0
      BY <1>a, <1>0, <3>1
    <3>2. CASE x # 0
      <4>1. m \in Nat \ {0} /\ R * x \in Nat
        BY <1>a, <3>2, Products
      <4>2. (R * x) \div m \in Nat
        BY <1>a, <4>1, QuotientIs
      <4> QED BY <1>a, <1>0, <3>2, <4>2
    <3> QED BY <1>a, <3>1, <3>2
  <2>4. k = K => x = 0
    BY <1>a, <1>0, <2>1, <2>2
  <2> QED BY <1>a, <2>1, <2>3, <2>4, <1>0
<1>4. CASE s + k # 0
  <2>1. y # 0
    BY <1>a, <1>1, <1>2, <1>4
  <2>2. x # 0 /\ m \in Nat \ {0}
    BY <1>a, <1>2, <2>1
  <2>3. c = (R * y) \div m
    BY <1>a, <1>1, <1>2, <1>4 DEF IsShare
  <2>4. C = (R * x) \div m
    BY <1>a, <1>0, <2>2
  <2>5. R * y \in Nat /\ R * x \in Nat /\ R * y <= R * x
    BY <1>a, <1>2, Products, TimesMonotone
  <2>6. c \in Nat /\ c <= C
    BY <1>a, <2>2, <2>3, <2>4, <2>5, QuotientIs, QuotientMonotone
  <2> QED BY <1>a, <1>2, <2>3, <2>4, <2>6
<1> QED BY <1>a, <1>3, <1>4

(***************************************************************************)
(* The sums over a window, as the walk over the periods has them.           *)
(***************************************************************************)
InWindow(P, h, p) == SumFunctionOnSet(h, Window(P, p))

LEMMA WindowMoves ==
  ASSUME NEW n, NEW P, NEW St, BooksTyped(P, St, n),
         NEW h, \A q \in 0..n : h[q] \in Nat, h[0] = 0,
         NEW i \in 1..n, NEW a, a = P[i].againstPeriods
  PROVE  /\ a = 0 => InWindow(P, h, i) = h[i]
         /\ i > 1 /\ P[i - 1].againstPeriods = a =>
              InWindow(P, h, i) = InWindow(P, h, i - 1) - (IF i > a + 1 THEN h[i - 1 - a] ELSE 0) + h[i]
         /\ InWindow(P, h, i) = SumFunctionOnSet(h, (IF i > a THEN i - a ELSE 0)..i)
<1>0. n \in Nat /\ P \in [0..n -> PeriodType] /\ i \in 0..n /\ a \in Nat
  <2>1. n \in Nat /\ P \in [0..n -> PeriodType]
    BY DEF BooksTyped
  <2>2. i \in 0..n
    BY <2>1
  <2> QED BY <2>1, <2>2, PeriodIs
<1>1. \A lo \in 0..n, hi \in 0..n :
        /\ IsFiniteSet(lo..hi)
        /\ \A q \in lo..hi : q \in 0..n /\ h[q] \in Int /\ h[q] \in Nat
  <2>1. \A lo \in 0..n, hi \in 0..n : IsFiniteSet(lo..hi)
    BY <1>0, FS_Interval
  <2>2. \A lo \in 0..n, hi \in 0..n : \A q \in lo..hi : q \in 0..n
    BY <1>0
  <2> QED BY <2>1, <2>2
<1>2. Window(P, i) = (IF i > a THEN i - a ELSE 1)..i
  BY DEF Window
<1>3. ASSUME a = 0 PROVE InWindow(P, h, i) = h[i]
  <2>1. Window(P, i) = {i}
    BY <1>0, <1>2, <1>3
  <2>2. h[i] \in Int /\ h[i] \in Nat
    BY <1>0
  <2>3. SumFunctionOnSet(h, {i}) = h[i]
    BY <2>2, SumOne
  <2> QED BY <2>1, <2>3 DEF InWindow
<1>4. InWindow(P, h, i) = SumFunctionOnSet(h, (IF i > a THEN i - a ELSE 0)..i)
  <2>1. CASE i > a
    BY <1>2, <2>1 DEF InWindow
  <2>2. CASE ~(i > a)
    <3>1. Window(P, i) = 1..i /\ 0..i = (1..i) \cup {0} /\ 0 \notin 1..i
      BY <1>0, <1>2, <2>2
    <3>2. IsFiniteSet(1..i) /\ \A q \in (1..i) \cup {0} : h[q] \in Int
      <4>1. 0 \in 0..n /\ 1 \in 0..n
        BY <1>0
      <4>2. IsFiniteSet(1..i) /\ \A q \in 0..i : h[q] \in Int
        BY <1>0, <1>1, <4>1
      <4> QED BY <3>1, <4>2
    <3>3. SumFunctionOnSet(h, (1..i) \cup {0}) = h[0] + SumFunctionOnSet(h, 1..i)
      BY <3>1, <3>2, SumAdd
    <3>4. SumFunctionOnSet(h, 1..i) \in Nat
      <4>1. \A q \in 1..i : h[q] \in Nat
        BY <1>0, <1>1
      <4> QED BY <3>2, <4>1, SumNat
    <3>5. SumFunctionOnSet(h, 0..i) = SumFunctionOnSet(h, 1..i)
      <4>1. SumFunctionOnSet(h, 0..i) = h[0] + SumFunctionOnSet(h, 1..i)
        BY <3>1, <3>3
      <4> QED BY <4>1, <3>4
    <3> QED BY <2>2, <3>1, <3>5 DEF InWindow
  <2> QED BY <2>1, <2>2
<1>5. ASSUME i > 1, P[i - 1].againstPeriods = a
      PROVE  InWindow(P, h, i) = InWindow(P, h, i - 1) - (IF i > a + 1 THEN h[i - 1 - a] ELSE 0) + h[i]
  <2>1. Window(P, i - 1) = (IF i - 1 > a THEN (i - 1) - a ELSE 1)..(i - 1)
    BY <1>5 DEF Window
  <2>2. PICK V : V = (IF i > a THEN i - a ELSE 1)..(i - 1)
    OBVIOUS
  <2>3. Window(P, i) = V \cup {i} /\ i \notin V
    BY <1>0, <1>2, <2>2
  <2>4. IsFiniteSet(V) /\ \A q \in V : h[q] \in Nat
    <3>1. (IF i > a THEN i - a ELSE 1) \in 0..n /\ i - 1 \in 0..n
      BY <1>0, <1>5
    <3> QED BY <1>1, <2>2, <3>1
  <2>5. SumFunctionOnSet(h, V) \in Nat
    BY <2>4, SumNat
  <2>6. InWindow(P, h, i) = h[i] + SumFunctionOnSet(h, V)
    <3>1. \A q \in V \cup {i} : h[q] \in Int
      BY <1>0, <2>4
    <3> QED BY <2>3, <2>4, <3>1, SumAdd DEF InWindow
  <2>7. CASE i > a + 1
    <3>0. V = (i - a)..(i - 1) /\ Window(P, i - 1) = ((i - 1) - a)..(i - 1)
      <4>1. i > a /\ i - 1 > a
        BY <1>0, <2>7
      <4> QED BY <4>1, <2>1, <2>2
    <3>1. Window(P, i - 1) = V \cup {i - 1 - a} /\ i - 1 - a \notin V /\ i - 1 - a \in 0..n
      <4>1. /\ ((i - 1) - a)..(i - 1) = ((i - a)..(i - 1)) \cup {i - 1 - a}
            /\ i - 1 - a \notin (i - a)..(i - 1)
        BY <1>0, <2>7
      <4>2. i - 1 - a \in 0..n
        BY <1>0, <2>7
      <4> QED BY <3>0, <4>1, <4>2
    <3>2. \A q \in V \cup {i - 1 - a} : h[q] \in Int
      BY <2>4, <3>1
    <3>3. InWindow(P, h, i - 1) = h[i - 1 - a] + SumFunctionOnSet(h, V)
      BY <2>4, <3>1, <3>2, SumAdd DEF InWindow
    <3>4. h[i - 1 - a] \in Nat /\ h[i] \in Nat
      BY <1>0, <3>1
    <3> QED BY <2>5, <2>6, <2>7, <3>3, <3>4
  <2>8. CASE ~(i > a + 1)
    <3>1. Window(P, i - 1) = V
      BY <1>0, <1>5, <2>1, <2>2, <2>8
    <3>2. h[i] \in Nat
      BY <1>0
    <3> QED BY <2>5, <2>6, <2>8, <3>1, <3>2 DEF InWindow
  <2> QED BY <2>7, <2>8
<1> QED BY <1>3, <1>4, <1>5

LEMMA SumsAre ==
  ASSUME NEW n, NEW P, NEW St, BooksTyped(P, St, n), AddsUp(P, St, n),
         NEW d \in Donors, NEW i \in 1..n, NEW sums,
         i # FirstUnclaimed(d) =>
           i > 1 /\ sums.donor = Donated(P, i - 1, d) /\ sums.total = DonatedInAll(P, i - 1)
  PROVE  Sums(P, d, sums, i) = [donor |-> Donated(P, i, d), total |-> DonatedInAll(P, i)]
<1> DEFINE h == [p \in DOMAIN P |-> P[p].donorAmounts[d]]
           g == [p \in DOMAIN P |-> P[p].donationsAmount]
<1>0. n \in Nat /\ P \in [0..n -> PeriodType] /\ DOMAIN P = 0..n /\ i \in 0..n /\ 0 \in 0..n
  BY DEF BooksTyped
<1>1. ASSUME NEW q \in 0..n
      PROVE  /\ h[q] = P[q].donorAmounts[d] /\ h[q] \in Nat
             /\ g[q] = P[q].donationsAmount /\ g[q] \in Nat
  <2>1. P[q].donorAmounts \in [Donors -> Nat] /\ P[q].donationsAmount \in Nat
    BY <1>0, PeriodIs
  <2> QED BY <2>1, <1>0
<1>2. h[0] = 0 /\ g[0] = 0
  <2>1. h[0] = 0
    BY <1>0, <1>1 DEF AddsUp
  <2>2. P[0].donorAmounts \in [Donors -> Nat] /\ \A e \in Donors : P[0].donorAmounts[e] = 0
    BY <1>0, PeriodIs DEF AddsUp
  <2>3. SumFunctionOnSet(P[0].donorAmounts, Donors) = 0
    BY <2>2, FiniteDonors, SumZero
  <2>4. P[0].donationsAmount = 0
    BY <2>2, <2>3, <1>0 DEF AddsUp, SumFunction
  <2> QED BY <2>1, <2>4, <1>1, <1>0
<1>3. ASSUME NEW p \in 1..n
      PROVE  Donated(P, p, d) = InWindow(P, h, p) /\ DonatedInAll(P, p) = InWindow(P, g, p)
  <2>1. Window(P, p) \subseteq 0..n /\ IsFiniteSet(Window(P, p))
    BY <1>0, WindowIs
  <2> DEFINE k == [q \in Window(P, p) |-> P[q].donorAmounts[d]]
             l == [q \in Window(P, p) |-> P[q].donationsAmount]
  <2>2. ASSUME NEW q \in Window(P, p) PROVE h[q] \in Int /\ k[q] = h[q]
    <3>1. q \in 0..n
      BY <2>1
    <3>2. h[q] = P[q].donorAmounts[d] /\ h[q] \in Nat
      BY <3>1, <1>1
    <3>3. k[q] = P[q].donorAmounts[d]
      OBVIOUS
    <3> HIDE DEF h, g, k, l
    <3> QED BY <3>2, <3>3
  <2>3. ASSUME NEW q \in Window(P, p) PROVE g[q] \in Int /\ l[q] = g[q]
    <3>1. q \in 0..n
      BY <2>1
    <3>2. g[q] = P[q].donationsAmount /\ g[q] \in Nat
      BY <3>1, <1>1
    <3>3. l[q] = P[q].donationsAmount
      OBVIOUS
    <3> HIDE DEF h, g, k, l
    <3> QED BY <3>2, <3>3
  <2>4. Donated(P, p, d) = SumFunctionOnSet(k, Window(P, p))
    BY DEF Donated
  <2>5. DonatedInAll(P, p) = SumFunctionOnSet(l, Window(P, p))
    BY DEF DonatedInAll
  <2> HIDE DEF k, l, h, g
  <2> QED BY <2>1, <2>2, <2>3, <2>4, <2>5, SumSame DEF InWindow
<1>4. \A lo, hi : /\ DonorIntervalAmounts(P, d, lo, hi) = SumFunctionOnSet(h, lo..hi)
                  /\ IntervalAmounts(P, lo, hi) = SumFunctionOnSet(g, lo..hi)
  BY DEF DonorIntervalAmounts, IntervalAmounts
<1> HIDE DEF h, g
<1>5. PICK a : a = P[i].againstPeriods
  OBVIOUS
<1>6. a \in Nat
  BY <1>0, <1>5, PeriodIs
<1>7. /\ a = 0 => InWindow(P, h, i) = h[i]
      /\ i > 1 /\ P[i - 1].againstPeriods = a =>
           InWindow(P, h, i) = InWindow(P, h, i - 1) - (IF i > a + 1 THEN h[i - 1 - a] ELSE 0) + h[i]
      /\ InWindow(P, h, i) = SumFunctionOnSet(h, (IF i > a THEN i - a ELSE 0)..i)
  BY <1>1, <1>2, <1>5, WindowMoves
<1>8. /\ a = 0 => InWindow(P, g, i) = g[i]
      /\ i > 1 /\ P[i - 1].againstPeriods = a =>
           InWindow(P, g, i) = InWindow(P, g, i - 1) - (IF i > a + 1 THEN g[i - 1 - a] ELSE 0) + g[i]
      /\ InWindow(P, g, i) = SumFunctionOnSet(g, (IF i > a THEN i - a ELSE 0)..i)
  BY <1>1, <1>2, <1>5, WindowMoves
<1>9. Donated(P, i, d) = InWindow(P, h, i) /\ DonatedInAll(P, i) = InWindow(P, g, i)
  BY <1>3
<1>10. CASE a = 0
  BY <1>0, <1>1, <1>5, <1>7, <1>8, <1>9, <1>10 DEF Sums
<1>11. CASE a # 0 /\ i # FirstUnclaimed(d) /\ P[i - 1].againstPeriods = a
  <2>1. i - 1 \in 1..n /\ i > 1
    BY <1>0, <1>11
  <2>2. sums.donor = InWindow(P, h, i - 1) /\ sums.total = InWindow(P, g, i - 1)
    BY <1>3, <1>11, <2>1
  <2> DEFINE expired == IF i > a + 1 THEN P[i - 1 - a] ELSE NoPeriod
  <2>3. /\ expired.donorAmounts[d] = (IF i > a + 1 THEN h[i - 1 - a] ELSE 0)
        /\ expired.donationsAmount = (IF i > a + 1 THEN g[i - 1 - a] ELSE 0)
    <3>1. CASE i > a + 1
      <4>1. i - 1 - a \in 0..n
        BY <1>0, <1>6, <3>1
      <4> QED BY <3>1, <4>1, <1>1
    <3>2. CASE ~(i > a + 1)
      BY <3>2 DEF NoPeriod, Nothing
    <3> QED BY <3>1, <3>2
  <2>4. Sums(P, d, sums, i)
          = [donor |-> sums.donor - expired.donorAmounts[d] + P[i].donorAmounts[d],
             total |-> sums.total - expired.donationsAmount + P[i].donationsAmount]
    BY <1>5, <1>11 DEF Sums
  <2> HIDE DEF expired
  <2> QED BY <1>0, <1>1, <1>7, <1>8, <1>9, <1>11, <2>1, <2>2, <2>3, <2>4
<1>12. CASE a # 0 /\ ~(i # FirstUnclaimed(d) /\ P[i - 1].againstPeriods = a)
  <2>1. P[IF i = FirstUnclaimed(d) THEN 0 ELSE i - 1].againstPeriods # a
    BY <1>12 DEF AddsUp
  <2>2. Sums(P, d, sums, i)
          = [donor |-> DonorIntervalAmounts(P, d, IF i > a THEN i - a ELSE 0, i),
             total |-> IntervalAmounts(P, IF i > a THEN i - a ELSE 0, i)]
    BY <1>5, <1>12, <2>1 DEF Sums
  <2> QED BY <1>4, <1>7, <1>8, <1>9, <2>2
<1> QED BY <1>10, <1>11, <1>12

(***************************************************************************)
(* The walk over the periods of a claim.                                    *)
(***************************************************************************)
WalkFrom(P, d, L) ==
  [sums |-> [donor |-> 0, total |-> 0], claim |-> 0, stake |-> P[L].donorStakeAmounts[d]]

WalkStep(P, d, before, i) ==
  LET now == P[i]
      sums == Sums(P, d, before.sums, i)
      stake == IF d \in now.hasSetStakeAmount THEN now.donorStakeAmounts[d] ELSE before.stake
      share == IF sums.donor + stake = 0 THEN 0
               ELSE (now.rewardAmount * (sums.donor * RatioOf(now) + stake))
                      \div (sums.total * RatioOf(now) + now.stakesAmount)
  IN [sums |-> sums, claim |-> before.claim + share, stake |-> stake]

IsWalk(f, P, d, L, m) ==
  f = [i \in L..m |-> IF i = L THEN WalkFrom(P, d, L) ELSE WalkStep(P, d, f[i - 1], i)]

IsTotal(P, St, p) ==
  SumFunction(PartOfEach(P, St, p)) = RatioOf(P[p]) * DonatedInAll(P, p) + P[p].stakesAmount

LEMMA TotalIsThat ==
  ASSUME NEW n \in Nat, NEW P \in [0..n -> PeriodType], NEW St \in [0..n -> [Donors -> Nat]],
         AddsUp(P, St, n), NEW p \in 1..n
  PROVE  IsTotal(P, St, p)
BY TotalIs DEF IsTotal

LEMMA WalkExists ==
  ASSUME NEW P, NEW d, NEW L \in Nat
  PROVE  \A k \in Nat : \E f : IsWalk(f, P, d, L, L + k)
<1> DEFINE W == {k \in Nat : \E f : IsWalk(f, P, d, L, L + k)}
           V(f, i) == IF i = L THEN WalkFrom(P, d, L) ELSE WalkStep(P, d, f[i - 1], i)
<1>1. 0 \in W
  <2> DEFINE f == [i \in L..(L + 0) |-> WalkFrom(P, d, L)]
  <2>1. f = [i \in L..(L + 0) |-> V(f, i)]
    <3>1. \A i \in L..(L + 0) : i = L
      OBVIOUS
    <3> QED BY <3>1
  <2>2. IsWalk(f, P, d, L, L + 0)
    BY <2>1 DEF IsWalk
  <2> QED BY <2>2
<1>2. ASSUME NEW k \in Nat, k \in W PROVE k + 1 \in W
  <2>1. PICK f : IsWalk(f, P, d, L, L + k)
    BY <1>2
  <2>2. \A i \in L..(L + k) : f[i] = V(f, i)
    BY <2>1 DEF IsWalk
  <2> DEFINE m == L + (k + 1)
             g == [i \in L..m |-> IF i = m THEN WalkStep(P, d, f[m - 1], m) ELSE f[i]]
  <2>3. ASSUME NEW i \in L..m PROVE g[i] = V(g, i)
    <3>1. CASE i = m
      <4>1. m - 1 \in L..m /\ m - 1 # m /\ m # L
        OBVIOUS
      <4>2. g[m - 1] = f[m - 1] /\ g[m] = WalkStep(P, d, f[m - 1], m)
        BY <3>1, <4>1
      <4> HIDE DEF g, m
      <4> QED BY <3>1, <4>1, <4>2
    <3>2. CASE i # m
      <4>1. i \in L..(L + k) /\ (i # L => i - 1 \in L..m /\ i - 1 # m)
        BY <3>2
      <4>2. g[i] = f[i] /\ (i # L => g[i - 1] = f[i - 1])
        BY <3>2, <4>1
      <4> HIDE DEF g, m
      <4> QED BY <2>2, <4>1, <4>2
    <3> QED BY <3>1, <3>2
  <2>4. IsWalk(g, P, d, L, m)
    <3> DEFINE h == [i \in L..m |-> V(g, i)]
    <3>1. g = [i \in L..m |-> g[i]]
      OBVIOUS
    <3>2. \A i \in L..m : g[i] = h[i]
      BY <2>3
    <3> HIDE DEF g
    <3>3. g = h
      BY <3>1, <3>2
    <3> QED BY <3>3 DEF IsWalk
  <2> QED BY <2>4
<1> HIDE DEF W
<1>3. Nat \subseteq W
  BY <1>1, <1>2, NaturalInduction
<1> QED BY <1>3 DEF W

\* What the walk has when it has done period i: the sums of the period's window, the
\* stake of its end, and the shares so far.
WalkedTo(P, St, d, L, given, i, at) ==
  /\ at.claim \in Nat /\ at.stake \in Nat
  /\ i > L => at.sums.donor = Donated(P, i, d) /\ at.sums.total = DonatedInAll(P, i)
  /\ at.stake <= St[i][d]
  /\ d \notin P[1].hasSetStakeAmount => at.stake = St[i][d]
  /\ Given(P, St, d, i, given + at.claim)

LEMMA WalkKeeps ==
  ASSUME NEW n, NEW P, NEW St, BooksTyped(P, St, n), AddsUp(P, St, n), NEW d \in Donors,
         NEW L \in Nat, L = donors[d].lastClaimPeriod, Tracked(P, St, n, d, L),
         NEW i \in Nat, L < i, i <= n, NEW given \in Nat,
         NEW before, WalkedTo(P, St, d, L, given, i - 1, before)
  PROVE  WalkedTo(P, St, d, L, given, i, WalkStep(P, d, before, i))
<1> DEFINE sums == Sums(P, d, before.sums, i)
           stake == IF d \in P[i].hasSetStakeAmount THEN P[i].donorStakeAmounts[d] ELSE before.stake
           share == IF sums.donor + stake = 0 THEN 0
                    ELSE (P[i].rewardAmount * (sums.donor * RatioOf(P[i]) + stake))
                           \div (sums.total * RatioOf(P[i]) + P[i].stakesAmount)
           at == WalkStep(P, d, before, i)
<1>0. /\ n \in Nat /\ P \in [0..n -> PeriodType] /\ St \in [0..n -> [Donors -> Nat]]
      /\ i \in 1..n /\ i \in 0..n /\ i - 1 \in 0..n /\ i - 1 \in 0..(n - 1) /\ i \in (L + 1)..n /\ i \in L..n
  <2>1. n \in Nat /\ P \in [0..n -> PeriodType] /\ St \in [0..n -> [Donors -> Nat]]
    BY DEF BooksTyped
  <2>2. /\ i \in 1..n /\ i \in 0..n /\ i - 1 \in 0..n /\ i - 1 \in 0..(n - 1)
        /\ i \in (L + 1)..n /\ i \in L..n
    BY <2>1
  <2> QED BY <2>1, <2>2
<1>1. at = [sums |-> sums, claim |-> before.claim + share, stake |-> stake]
  BY DEF WalkStep
<1>2. sums = [donor |-> Donated(P, i, d), total |-> DonatedInAll(P, i)]
  <2>1. i # FirstUnclaimed(d) =>
          i > 1 /\ before.sums.donor = Donated(P, i - 1, d) /\ before.sums.total = DonatedInAll(P, i - 1)
    <3> SUFFICES ASSUME i # L + 1
                 PROVE  i > 1 /\ before.sums.donor = Donated(P, i - 1, d) /\ before.sums.total = DonatedInAll(P, i - 1)
      BY DEF FirstUnclaimed
    <3>1. i - 1 > L /\ i > 1
      OBVIOUS
    <3> QED BY <3>1 DEF WalkedTo
  <2> QED BY <2>1, <1>0, SumsAre
<1> HIDE DEF sums
<1>3. /\ stake \in Nat /\ stake <= St[i][d]
      /\ d \notin P[1].hasSetStakeAmount => stake = St[i][d]
  <2>1. P[i].donorStakeAmounts \in [Donors -> Nat] /\ St[i][d] \in Nat
    <3>1. P[i].donorStakeAmounts \in [Donors -> Nat]
      BY <1>0, PeriodIs
    <3>2. St[i] \in [Donors -> Nat]
      BY <1>0
    <3> QED BY <3>1, <3>2
  <2>2. /\ d \in P[i].hasSetStakeAmount => P[i].donorStakeAmounts[d] = St[i][d]
        /\ d \notin P[i].hasSetStakeAmount => St[i][d] = St[i - 1][d]
    BY <1>0 DEF Tracked
  <2>3. /\ before.stake \in Nat /\ before.stake <= St[i - 1][d]
        /\ d \notin P[1].hasSetStakeAmount => before.stake = St[i - 1][d]
    BY DEF WalkedTo
  <2> QED BY <2>1, <2>2, <2>3
<1> HIDE DEF stake
<1>4. share \in Nat /\ share <= Share(P, St, i, d) /\ (stake = St[i][d] => share = Share(P, St, i, d))
  <2>1. PICK R \in Nat, r \in Nat \ {0}, s \in Nat, t \in Nat, u \in Nat, K \in Nat, k \in Nat :
          /\ R = P[i].rewardAmount /\ r = RatioOf(P[i]) /\ s = Donated(P, i, d) /\ t = DonatedInAll(P, i)
          /\ u = P[i].stakesAmount /\ K = St[i][d] /\ k = stake /\ k <= K
    <3>1. P[i] \in PeriodType /\ St[i][d] \in Nat
      BY <1>0
    <3>2. RatioOf(P[i]) \in Nat \ {0}
      BY <3>1, RatioPositive
    <3>3. P[i].rewardAmount \in Nat /\ P[i].stakesAmount \in Nat
      BY <1>0, PeriodIs
    <3>4. Donated(P, i, d) \in Nat /\ DonatedInAll(P, i) \in Nat
      BY <1>0, DonatedNat, TotalIs
    <3> QED BY <1>3, <3>1, <3>2, <3>3, <3>4
  <2>2. PICK m \in Nat : m = SumFunction(PartOfEach(P, St, i))
    BY <1>0, PartsNat
  <2>3. m = t * r + u
    <3>1. m = r * t + u
      <4>1. SumFunction(PartOfEach(P, St, i)) = RatioOf(P[i]) * DonatedInAll(P, i) + P[i].stakesAmount
        <5>1. IsTotal(P, St, i)
          BY <1>0, TotalIsThat
        <5> QED BY <5>1 DEF IsTotal
      <4> HIDE DEF share
      <4> QED BY <2>1, <2>2, <4>1, Zenon
    <3>2. r * t = t * r
      OBVIOUS
    <3> QED BY <3>1, <3>2
  <2>4. PICK x \in Nat : x = Part(P, St, i, d)
    BY <1>0, PartNat
  <2>5. x = r * s + K
    BY <2>1, <2>4 DEF Part
  <2>6. x <= m
    BY <1>0, <2>2, <2>4, PartsNat
  <2>7. Share(P, St, i, d) = IF x = 0 THEN 0 ELSE (R * x) \div m
    BY <2>1, <2>2, <2>4 DEF Share
  <2>8. IsShare(share, R, s, r, k, m)
    BY <1>2, <2>1, <2>3 DEF IsShare
  <2> HIDE DEF share
  <2>9. IsPart(x, r, s, K)
    BY <2>5 DEF IsPart
  <2>10. IsFull(Share(P, St, i, d), R, x, m)
    BY <2>7 DEF IsFull
  <2>11. K \in Nat /\ k \in Nat /\ k <= K
    BY <2>1
  <2>12. PICK C : C = Share(P, St, i, d) /\ IsFull(C, R, x, m)
    BY <2>10
  <2>13. share \in Nat /\ share <= C /\ (k = K => share = C)
    <3>1. /\ R \in Nat /\ s \in Nat /\ r \in Nat \ {0} /\ k \in Nat /\ K \in Nat /\ k <= K
          /\ x \in Nat /\ m \in Nat /\ x <= m
      BY <2>6, <2>11
    <3>2. IsPart(x, r, s, K) /\ IsShare(share, R, s, r, k, m) /\ IsFull(C, R, x, m)
      BY <2>8, <2>9, <2>12
    <3>3. Compared(share, C, R, s, r, k, K, x, m)
      BY <3>1, <3>2 DEF Compared
    <3> QED BY <3>3, ShareSmaller
  <2> QED BY <2>1, <2>12, <2>13
<1>5. Share(P, St, i, d) \in Nat
  BY <1>0, ShareNat
<1> HIDE DEF share
<1>6. PICK c \in Nat : c = before.claim
  BY DEF WalkedTo
<1>7. Given(P, St, d, i, given + (c + share))
  <2>1. \A j \in 0..(n - 1) : Shares(P, St, d, j + 1) = Shares(P, St, d, j) + Share(P, St, j + 1, d)
    BY <1>0, SharesGrow
  <2>2. (i - 1) + 1 = i
    OBVIOUS
  <2>3. Shares(P, St, d, i) = Shares(P, St, d, i - 1) + Share(P, St, i, d)
    BY <1>0, <2>1, <2>2
  <2>4. PICK A \in Nat : A = Shares(P, St, d, i - 1)
    BY <1>0, SharesGrow
  <2>5. /\ given + c <= A
        /\ d \notin P[1].hasSetStakeAmount => given + c = A
    BY <1>6, <2>4 DEF WalkedTo, Given
  <2>6. Shares(P, St, d, i) = A + Share(P, St, i, d)
    BY <2>3, <2>4
  <2>7. given + (c + share) <= A + Share(P, St, i, d)
    BY <1>4, <1>5, <2>5
  <2>8. d \notin P[1].hasSetStakeAmount => given + (c + share) = A + Share(P, St, i, d)
    BY <1>3, <1>4, <1>5, <2>5
  <2> QED BY <2>6, <2>7, <2>8 DEF Given
<1>8. at.claim = c + share /\ at.claim \in Nat /\ at.stake = stake /\ at.sums = sums
  BY <1>1, <1>4, <1>6
<1> HIDE DEF at
<1>9. at.sums.donor = Donated(P, i, d) /\ at.sums.total = DonatedInAll(P, i)
  BY <1>2, <1>8
<1>10. WalkedTo(P, St, d, L, given, i, at)
  BY <1>3, <1>7, <1>8, <1>9 DEF WalkedTo
<1> QED BY <1>10 DEF at

\* What a claim computes.
LEMMA RewardIs ==
  ASSUME NEW n, NEW P, NEW St, NEW S, NEW G, Books(P, St, n, S, donors, G),
         NEW d \in Donors, Known(donors[d]), NEW m \in Nat, donors[d].lastClaimPeriod < m, m <= n
  PROVE  /\ CalculateReward(P, d, m).claim \in Nat
         /\ CalculateReward(P, d, m).stake \in Nat
         /\ CalculateReward(P, d, m).stake <= St[m][d]
         /\ d \notin P[1].hasSetStakeAmount => CalculateReward(P, d, m).stake = St[m][d]
         /\ Given(P, St, d, m, G[d] + CalculateReward(P, d, m).claim)
<1>0. /\ BooksTyped(P, St, n) /\ AddsUp(P, St, n) /\ donors \in [Donors -> DonorType] /\ G \in [Donors -> Nat]
      /\ n \in Nat /\ P \in [0..n -> PeriodType] /\ St \in [0..n -> [Donors -> Nat]]
  BY DEF Books, BooksTyped
<1>1. PICK L \in Nat : L = donors[d].lastClaimPeriod
  BY <1>0 DEF DonorType
<1>2. L < n /\ Tracked(P, St, n, d, L) /\ Given(P, St, d, L, G[d])
  BY <1>1 DEF Books, Settled
<1>3. PICK given \in Nat : given = G[d]
  BY <1>0
<1> DEFINE f == CHOOSE g : IsWalk(g, P, d, L, m)
<1>4. IsWalk(f, P, d, L, m)
  <2>1. m - L \in Nat /\ m = L + (m - L)
    BY <1>1
  <2>2. \E g : IsWalk(g, P, d, L, m)
    BY <2>1, WalkExists
  <2> QED BY <2>2
<1>5. CalculateReward(P, d, m) = [claim |-> f[m].claim, stake |-> f[m].stake]
  <2>1. ~(donors[d].lastClaimPeriod = 0 /\ donors[d].rewardPeriods = << >>) /\ ~(m < FirstUnclaimed(d))
    BY <1>1 DEF Known, FirstUnclaimed
  <2>2. FirstUnclaimed(d) - 1 = L
    BY <1>1 DEF FirstUnclaimed
  <2> DEFINE F == FirstUnclaimed(d)
             u == CHOOSE g : g = [i \in (F - 1)..m |-> IF i = F - 1 THEN WalkFrom(P, d, F - 1) ELSE WalkStep(P, d, g[i - 1], i)]
  <2>3. CalculateReward(P, d, m) = [claim |-> u[m].claim, stake |-> u[m].stake]
    BY <2>1 DEF CalculateReward, WalkStep, WalkFrom
  <2>4. u = CHOOSE g : IsWalk(g, P, d, F - 1, m)
    BY DEF IsWalk
  <2> HIDE DEF u
  <2>5. u = f
    BY <2>2, <2>4
  <2> QED BY <2>3, <2>5
<1> HIDE DEF f
<1>6. /\ f[L] = WalkFrom(P, d, L)
      /\ \A i \in (L + 1)..m : f[i] = WalkStep(P, d, f[i - 1], i)
  <2>1. L \in L..m /\ \A i \in (L + 1)..m : i \in L..m /\ i # L
    BY <1>1
  <2> QED BY <1>4, <2>1 DEF IsWalk
<1> DEFINE W == {k \in Nat : L + k <= m => WalkedTo(P, St, d, L, given, L + k, f[L + k])}
<1>7. 0 \in W
  <2>1. L + 0 = L /\ L \in 0..n /\ L \in L..n
    BY <1>0, <1>2
  <2>2. P[L].donorStakeAmounts \in [Donors -> Nat]
    BY <1>0, <2>1, PeriodIs
  <2>3. /\ P[L].donorStakeAmounts[d] <= St[L][d]
        /\ d \notin P[1].hasSetStakeAmount => P[L].donorStakeAmounts[d] = St[L][d]
    BY <1>2, <2>1 DEF Tracked
  <2>4. /\ f[L].claim = 0 /\ f[L].stake = P[L].donorStakeAmounts[d] /\ f[L].stake \in Nat
        /\ given + f[L].claim = given /\ ~(L > L)
    BY <1>6, <2>2 DEF WalkFrom
  <2>5. WalkedTo(P, St, d, L, given, L, f[L])
    BY <1>2, <1>3, <2>3, <2>4 DEF WalkedTo
  <2> QED BY <2>1, <2>5
<1>8. ASSUME NEW k \in Nat, k \in W PROVE k + 1 \in W
  <2> SUFFICES ASSUME L + (k + 1) <= m PROVE WalkedTo(P, St, d, L, given, L + (k + 1), f[L + (k + 1)])
    OBVIOUS
  <2>1. PICK i \in Nat : i = L + (k + 1)
    OBVIOUS
  <2>2. i - 1 = L + k /\ L + k <= m /\ L < i /\ i <= n /\ i \in (L + 1)..m
    BY <1>0, <2>1
  <2>3. WalkedTo(P, St, d, L, given, i - 1, f[i - 1])
    BY <1>8, <2>2
  <2>4. f[i] = WalkStep(P, d, f[i - 1], i)
    BY <1>6, <2>2
  <2> HIDE DEF W
  <2>5. WalkedTo(P, St, d, L, given, i, WalkStep(P, d, f[i - 1], i))
    BY <1>0, <1>1, <1>2, <2>2, <2>3, WalkKeeps
  <2> QED BY <2>1, <2>4, <2>5
<1> HIDE DEF W
<1>9. Nat \subseteq W
  BY <1>7, <1>8, NaturalInduction
<1>10. WalkedTo(P, St, d, L, given, m, f[m])
  <2>1. m - L \in Nat /\ L + (m - L) = m /\ L + (m - L) <= m
    BY <1>1
  <2>2. m - L \in W
    BY <1>9, <2>1
  <2>3. WalkedTo(P, St, d, L, given, L + (m - L), f[L + (m - L)])
    BY <2>1, <2>2 DEF W
  <2> QED BY <2>1, <2>3
<1> QED BY <1>3, <1>5, <1>10 DEF WalkedTo

(***************************************************************************)
(* A claim.                                                                 *)
(***************************************************************************)

\* What a claim of periods up to m computes, and the books may be settled with.
IsReward(P, St, d, m, given, c, k) ==
  /\ c \in Nat /\ k \in Nat
  /\ c > 0 => Known(donors[d])
  /\ ~Known(donors[d]) => c = 0 /\ k = 0
  /\ Known(donors[d]) /\ m <= donors[d].lastClaimPeriod =>
       c = 0 /\ k = P[donors[d].lastClaimPeriod].donorStakeAmounts[d]
  /\ Known(donors[d]) /\ donors[d].lastClaimPeriod < m =>
       /\ k <= St[m][d]
       /\ d \notin P[1].hasSetStakeAmount => k = St[m][d]
       /\ Given(P, St, d, m, given + c)

LEMMA RewardIsThat ==
  ASSUME NEW n, NEW P, NEW St, NEW S, NEW G, Books(P, St, n, S, donors, G),
         NEW d \in Donors, NEW m \in 0..(n - 1)
  PROVE  IsReward(P, St, d, m, G[d], CalculateReward(P, d, m).claim, CalculateReward(P, d, m).stake)
<1> DEFINE reward == CalculateReward(P, d, m)
<1>0. /\ n \in Nat \ {0} /\ n \in Nat /\ P \in [0..n -> PeriodType] /\ m \in Nat /\ m <= n
      /\ donors \in [Donors -> DonorType]
  BY DEF Books, BooksTyped
<1>1. PICK last \in Nat : last = donors[d].lastClaimPeriod
  BY <1>0 DEF DonorType
<1>2. last < n /\ last \in 0..n
  BY <1>0, <1>1 DEF Books, Settled
<1>3. CASE ~Known(donors[d])
  <2>1. reward = [claim |-> 0, stake |-> 0]
    BY <1>3 DEF CalculateReward, Known
  <2> HIDE DEF reward
  <2> QED BY <1>3, <2>1 DEF IsReward, reward
<1>4. CASE Known(donors[d]) /\ m <= last
  <2>0. FirstUnclaimed(d) - 1 = last /\ m < FirstUnclaimed(d)
    BY <1>0, <1>1, <1>4 DEF FirstUnclaimed
  <2>1. reward = [claim |-> 0, stake |-> P[last].donorStakeAmounts[d]]
    BY <1>4, <2>0 DEF CalculateReward, Known
  <2>2. P[last].donorStakeAmounts \in [Donors -> Nat]
    BY <1>0, <1>2, PeriodIs
  <2>3. reward.claim = 0 /\ reward.stake = P[last].donorStakeAmounts[d] /\ reward.stake \in Nat
    BY <2>1, <2>2
  <2>4. ~(last < m)
    BY <1>0, <1>4
  <2> HIDE DEF reward
  <2> QED BY <1>1, <1>4, <2>3, <2>4 DEF IsReward, reward
<1>5. CASE Known(donors[d]) /\ last < m
  <2>1. /\ reward.claim \in Nat /\ reward.stake \in Nat /\ reward.stake <= St[m][d]
        /\ d \notin P[1].hasSetStakeAmount => reward.stake = St[m][d]
        /\ Given(P, St, d, m, G[d] + reward.claim)
    BY <1>0, <1>1, <1>5, RewardIs
  <2>2. ~(m <= last)
    BY <1>0, <1>5
  <2> HIDE DEF reward
  <2> QED BY <1>1, <1>5, <2>1, <2>2 DEF IsReward, reward
<1> QED BY <1>0, <1>1, <1>3, <1>4, <1>5

ClaimedUpTo(d, m) == [donors EXCEPT ![d].lastClaimPeriod = Later(d, m)]

LEMMA BooksClaim ==
  ASSUME NEW n, NEW P, NEW St, NEW S, NEW G, Books(P, St, n, S, donors, G),
         NEW d \in Donors, NEW m \in 0..(n - 1), NEW c, NEW k, IsReward(P, St, d, m, G[d], c, k)
  PROVE  Books(Claimed(P, d, m, k), St, n, S, ClaimedUpTo(d, m), [G EXCEPT ![d] = @ + c])
<1> DEFINE Q == Claimed(P, d, m, k)
           E == ClaimedUpTo(d, m)
           H == [G EXCEPT ![d] = @ + c]
<1>r. PICK R : R = P[m]
  OBVIOUS
<1> DEFINE y == [P[m].donorStakeAmounts EXCEPT ![d] = k]
           now == [P[m] EXCEPT !.donorStakeAmounts = y]
<1>0. /\ n \in Nat \ {0} /\ n \in Nat /\ n \in 0..n /\ m \in 0..n /\ m \in Nat /\ m < n
      /\ P \in [0..n -> PeriodType] /\ St \in [0..n -> [Donors -> Nat]]
      /\ donors \in [Donors -> DonorType] /\ G \in [Donors -> Nat]
      /\ AddsUp(P, St, n) /\ Carries(P, n) /\ St[n] = S
      /\ BooksTyped(P, St, n)
  BY DEF Books, BooksTyped
<1>c. c \in Nat /\ k \in Nat
  BY DEF IsReward
<1>1. R \in PeriodType /\ R.donorStakeAmounts \in [Donors -> Nat]
  <2>1. R \in PeriodType
    BY <1>0, <1>r
  <2> QED BY <2>1 DEF PeriodType
<1>2. /\ now \in PeriodType
      /\ now.donorStakeAmounts = [R.donorStakeAmounts EXCEPT ![d] = k]
      /\ now.rewardAmount = R.rewardAmount /\ now.rewardPerBlock = R.rewardPerBlock
      /\ now.startBlock = R.startBlock /\ now.endBlock = R.endBlock
      /\ now.againstPeriods = R.againstPeriods /\ now.stakingDonationRatio = R.stakingDonationRatio
      /\ now.donationsAmount = R.donationsAmount /\ now.donorAmounts = R.donorAmounts
      /\ now.stakesAmount = R.stakesAmount /\ now.hasSetStakeAmount = R.hasSetStakeAmount
  <2>1. y \in [Donors -> Nat] /\ y = [R.donorStakeAmounts EXCEPT ![d] = k]
    BY <1>1, <1>r, <1>c
  <2> HIDE DEF y
  <2>2. now = [R EXCEPT !.donorStakeAmounts = y]
    BY <1>r
  <2> HIDE DEF now
  <2>3. /\ now \in PeriodType /\ now.donorStakeAmounts = y
        /\ now.rewardAmount = R.rewardAmount /\ now.rewardPerBlock = R.rewardPerBlock
        /\ now.startBlock = R.startBlock /\ now.endBlock = R.endBlock
        /\ now.againstPeriods = R.againstPeriods /\ now.stakingDonationRatio = R.stakingDonationRatio
        /\ now.donationsAmount = R.donationsAmount /\ now.donorAmounts = R.donorAmounts
        /\ now.stakesAmount = R.stakesAmount /\ now.hasSetStakeAmount = R.hasSetStakeAmount
    BY <2>1, <2>2, <1>1 DEF PeriodType
  <2> QED BY <2>1, <2>3
<1>3. /\ Q \in [0..n -> PeriodType] /\ Q[m] = now
      /\ \A p \in 0..n : p # m => Q[p] = P[p]
  <2>1. Q = [P EXCEPT ![m] = now]
    BY <1>0 DEF Claimed
  <2> HIDE DEF Q, now, y
  <2> QED BY <2>1, <1>0, <1>2
<1> HIDE DEF Q, now, y
<1>4. BooksTyped(Q, St, n)
  BY <1>0, <1>3 DEF BooksTyped
<1>5. ASSUME NEW p \in 0..n
      PROVE  /\ Q[p].rewardAmount = P[p].rewardAmount /\ Q[p].rewardPerBlock = P[p].rewardPerBlock
             /\ Q[p].startBlock = P[p].startBlock /\ Q[p].endBlock = P[p].endBlock
             /\ Q[p].againstPeriods = P[p].againstPeriods
             /\ Q[p].stakingDonationRatio = P[p].stakingDonationRatio
             /\ Q[p].donationsAmount = P[p].donationsAmount /\ Q[p].donorAmounts = P[p].donorAmounts
             /\ Q[p].stakesAmount = P[p].stakesAmount /\ Q[p].hasSetStakeAmount = P[p].hasSetStakeAmount
  <2>1. CASE p = m
    BY <2>1, <1>2, <1>3, <1>r
  <2>2. CASE p # m
    BY <2>2, <1>3
  <2> QED BY <2>1, <2>2
<1>i. 0 \in 0..n /\ 1 \in 0..n /\ \A p \in 0..(n - 1) : p \in 0..n
  BY <1>0
<1>6. SameBefore(P, Q, St, St, n)
  <2>1. SameTerms(P, Q, n)
    BY <1>5 DEF SameTerms
  <2>2. SameAmounts(P, Q, n - 1)
    BY <1>5, <1>i DEF SameAmounts
  <2> QED BY <2>1, <2>2 DEF SameBefore
<1>7. AddsUp(Q, St, n)
  <2>1. \A p \in 1..n : p \in 0..n
    BY <1>0
  <2>2. \A p \in 0..n : Q[p].donationsAmount = SumFunction(Q[p].donorAmounts)
    BY <1>0, <1>5 DEF AddsUp
  <2>3. \A p \in 1..n : Q[p].stakesAmount = SumFunction(St[p])
    BY <2>1, <1>0, <1>5 DEF AddsUp
  <2>4. /\ \A e \in Donors : Q[0].donorAmounts[e] = 0 /\ St[0][e] = 0
        /\ Q[0].againstPeriods = 0
    BY <1>0, <1>5, <1>i DEF AddsUp
  <2> QED BY <2>2, <2>3, <2>4 DEF AddsUp
<1>8. ASSUME NEW e \in Donors, e # d PROVE E[e] = donors[e] /\ H[e] = G[e] /\ SameOf(P, Q, St, St, n, e)
  <2>1. E[e] = donors[e] /\ H[e] = G[e]
    BY <1>0, <1>8 DEF ClaimedUpTo
  <2>2. now.donorStakeAmounts[e] = R.donorStakeAmounts[e]
    BY <1>1, <1>2, <1>8
  <2>3. \A p \in 0..n : Q[p].donorStakeAmounts[e] = P[p].donorStakeAmounts[e]
    BY <2>2, <1>3, <1>r
  <2> QED BY <2>1, <2>3, <1>5 DEF SameOf
<1>d. Q[m].donorStakeAmounts[d] = k
  BY <1>1, <1>2, <1>3
<1>9. PICK last \in Nat : last = donors[d].lastClaimPeriod
  BY <1>0 DEF DonorType
<1>10. /\ E \in [Donors -> DonorType] /\ H \in [Donors -> Nat] /\ H[d] = G[d] + c /\ G[d] \in Nat
       /\ E[d].lastClaimPeriod = (IF last < m THEN m ELSE last)
       /\ E[d].rewardPeriods = donors[d].rewardPeriods
  <2>1. Later(d, m) = (IF last < m THEN m ELSE last) /\ Later(d, m) \in Nat
    BY <1>0, <1>9 DEF Later
  <2>2. donors[d] \in DonorType
    BY <1>0
  <2>3. E \in [Donors -> DonorType] /\ E[d] = [donors[d] EXCEPT !.lastClaimPeriod = Later(d, m)]
    BY <1>0, <2>1, <2>2 DEF ClaimedUpTo, DonorType
  <2>4. E[d].lastClaimPeriod = Later(d, m) /\ E[d].rewardPeriods = donors[d].rewardPeriods
    BY <2>2, <2>3 DEF DonorType
  <2>5. H \in [Donors -> Nat] /\ H[d] = G[d] + c /\ G[d] \in Nat
    BY <1>0, <1>c
  <2> QED BY <2>1, <2>3, <2>4, <2>5
<1> HIDE DEF E, H
<1>11. Settled(Q, St, n, d, E[d], H[d])
  <2>2. /\ last < n /\ Tracked(P, St, n, d, last) /\ Given(P, St, d, last, G[d])
        /\ ~Known(donors[d]) => NothingYet(P, St, n, d)
    BY <1>9 DEF Books, Settled
  <2>3. last \in 0..n /\ last \in 0..(n - 1)
    BY <2>2, <1>0
  <2>4. d \in Q[1].hasSetStakeAmount <=> d \in P[1].hasSetStakeAmount
    BY <1>5, <1>i
  <2>5. \A q \in 0..(n - 1) : Shares(Q, St, d, q) = Shares(P, St, d, q)
    BY <1>0, <1>6, SharesBefore
  <2>6. \A p \in 0..n : p # m => Q[p].donorStakeAmounts = P[p].donorStakeAmounts
    BY <1>3
  <2>t. ASSUME NEW to \in Nat, last <= to, m <= to, to < n,
               Q[to].donorStakeAmounts[d] <= St[to][d],
               d \notin P[1].hasSetStakeAmount => Q[to].donorStakeAmounts[d] = St[to][d]
        PROVE  Tracked(Q, St, n, d, to)
    <3>1. ASSUME NEW p \in to..n PROVE Q[p].donorStakeAmounts[d] <= St[p][d]
      <4>1. CASE p = to
        BY <4>1, <2>t
      <4>2. CASE p # to
        <5>1. p \in last..n /\ p \in 0..n /\ p # m
          BY <2>t, <4>2, <1>0
        <5> QED BY <5>1, <2>2, <2>6 DEF Tracked
      <4> QED BY <4>1, <4>2
    <3>2. ASSUME NEW p \in (to + 1)..n
          PROVE  /\ d \in Q[p].hasSetStakeAmount => Q[p].donorStakeAmounts[d] = St[p][d]
                 /\ d \notin Q[p].hasSetStakeAmount => St[p][d] = St[p - 1][d]
      <4>1. p \in (last + 1)..n /\ p \in 0..n /\ p # m
        BY <2>t, <1>0
      <4> QED BY <4>1, <1>5, <2>2, <2>6 DEF Tracked
    <3> QED BY <3>1, <3>2, <2>4, <2>t DEF Tracked
  <2>7. CASE ~Known(donors[d])
    <3>1. NothingYet(P, St, n, d) /\ last = 0 /\ c = 0 /\ k = 0
      BY <1>9, <2>2, <2>7 DEF Known, IsReward
    <3>2. E[d].lastClaimPeriod = m
      BY <3>1, <1>0, <1>10
    <3>3. Given(Q, St, d, m, H[d])
      <4>1. Shares(P, St, d, 0) = 0
        BY <1>0, SharesGrow
      <4>2. G[d] \in Nat /\ G[d] <= 0
        BY <2>2, <3>1, <4>1, <1>10 DEF Given
      <4>3. H[d] = 0
        BY <3>1, <4>2, <1>10
      <4>4. Shares(P, St, d, m) \in Nat
        BY <1>0, SharesGrow
      <4>5. d \notin P[1].hasSetStakeAmount => Shares(P, St, d, m) = 0
        BY <1>0, <3>1, NoShares
      <4>6. Shares(Q, St, d, m) = Shares(P, St, d, m)
        BY <2>5
      <4> QED BY <2>4, <4>3, <4>4, <4>5, <4>6 DEF Given
    <3>4. NothingYet(Q, St, n, d)
      BY <1>5, <1>i, <3>1, <2>4 DEF NothingYet
    <3>5. Tracked(Q, St, n, d, m)
      <4>1. St[m][d] \in Nat
        <5>1. St[m] \in [Donors -> Nat]
          BY <1>0
        <5> QED BY <5>1
      <4>2. Q[m].donorStakeAmounts[d] <= St[m][d]
        BY <1>d, <3>1, <4>1
      <4>3. d \notin P[1].hasSetStakeAmount => Q[m].donorStakeAmounts[d] = St[m][d]
        BY <1>0, <1>d, <3>1 DEF NothingYet
      <4>4. last <= m
        BY <1>0, <3>1
      <4> QED BY <1>0, <2>t, <4>2, <4>3, <4>4
    <3> QED BY <1>0, <3>2, <3>3, <3>4, <3>5 DEF Settled
  <2>8. CASE Known(donors[d]) /\ m <= last
    <3>1. c = 0 /\ k = P[last].donorStakeAmounts[d]
      BY <1>9, <2>8 DEF IsReward
    <3>2. E[d].lastClaimPeriod = last /\ H[d] = G[d]
      BY <1>0, <1>10, <2>8, <3>1
    <3>3. Known(E[d])
      BY <1>9, <1>10, <2>8, <3>2 DEF Known
    <3>4. Given(Q, St, d, last, H[d])
      BY <2>2, <2>3, <2>4, <2>5, <3>2 DEF Given
    <3>5. Tracked(Q, St, n, d, last)
      <4>1. Q[last].donorStakeAmounts[d] = P[last].donorStakeAmounts[d]
        BY <1>d, <2>3, <2>6, <3>1
      <4>2. last \in last..n
        BY <2>3
      <4>3. /\ Q[last].donorStakeAmounts[d] <= St[last][d]
            /\ d \notin P[1].hasSetStakeAmount => Q[last].donorStakeAmounts[d] = St[last][d]
        BY <2>2, <4>1, <4>2 DEF Tracked
      <4>4. last <= last
        OBVIOUS
      <4> QED BY <2>2, <2>8, <2>t, <4>3, <4>4
    <3> QED BY <2>2, <3>2, <3>3, <3>4, <3>5 DEF Settled
  <2>9. CASE Known(donors[d]) /\ last < m
    <3>1. /\ k <= St[m][d]
          /\ d \notin P[1].hasSetStakeAmount => k = St[m][d]
          /\ Given(P, St, d, m, G[d] + c)
      BY <1>9, <2>9 DEF IsReward
    <3>2. E[d].lastClaimPeriod = m /\ m # 0
      BY <1>0, <1>10, <2>9
    <3>3. Known(E[d])
      BY <3>2 DEF Known
    <3>4. Given(Q, St, d, m, H[d])
      BY <2>4, <2>5, <3>1, <1>10 DEF Given
    <3>5. Tracked(Q, St, n, d, m)
      <4>1. last <= m /\ m <= m
        BY <1>0, <2>9
      <4>2. Q[m].donorStakeAmounts[d] <= St[m][d]
        BY <1>d, <3>1
      <4>3. d \notin P[1].hasSetStakeAmount => Q[m].donorStakeAmounts[d] = St[m][d]
        BY <1>d, <3>1
      <4> QED BY <1>0, <2>t, <4>1, <4>2, <4>3
    <3> QED BY <1>0, <3>2, <3>3, <3>4, <3>5 DEF Settled
  <2>10. m <= last \/ last < m
    BY <1>0
  <2> QED BY <2>7, <2>8, <2>9, <2>10
<1>12. Books(Q, St, n, St[n], E, H)
  BY <1>4, <1>6, <1>7, <1>8, <1>10, <1>11, BooksAfter
<1> QED BY <1>0, <1>12 DEF Q, E, H

(***************************************************************************)
(* The periods that are missing.                                            *)
(***************************************************************************)
SettingsTyped ==
  /\ settings \in [SettingNames -> Nat]
  /\ \A s \in Positive : settings[s] > 0

LEMMA SettingsAre ==
  ASSUME SettingsTyped
  PROVE  /\ settings.rewardPeriodSize \in Nat \ {0} /\ settings.decayNumerator \in Nat
         /\ settings.decayDenominator \in Nat \ {0} /\ settings.claimDelay \in Nat
         /\ settings.againstPeriods \in Nat /\ settings.stakingDonationRatio \in Nat
         /\ settings.communityDonationRatio \in Nat
BY DEF SettingsTyped, SettingNames, Positive

NothingTyped == Nothing \in [Donors -> Nat]

LEMMA NothingIs == NothingTyped
BY DEF NothingTyped, Nothing

LEMMA NextPeriodIs ==
  ASSUME SettingsTyped, NEW n, n \in Nat \ {0}, NEW P, P \in [0..n -> PeriodType]
  PROVE  IsNext(P, n, NextPeriod(P))
<1>1. CountOf(P) = n /\ n \in 0..n /\ n \in Nat
  <2>1. DOMAIN P = 0..n /\ n \in Nat /\ n \in 0..n
    OBVIOUS
  <2> QED BY <2>1, CountIs
<1>2. PICK size \in Nat \ {0}, u \in Nat, v \in Nat \ {0}, a \in Nat, r \in Nat :
        /\ size = settings.rewardPeriodSize /\ u = settings.decayNumerator /\ v = settings.decayDenominator
        /\ a = settings.againstPeriods /\ r = settings.stakingDonationRatio
  BY SettingsAre
<1>3. PICK b \in Nat, w \in Nat, e \in Nat, s \in Nat :
        b = P[n].rewardPerBlock /\ w = P[n].rewardAmount /\ e = P[n].endBlock /\ s = P[n].stakesAmount
  BY <1>1, PeriodIs
<1>4. PICK B \in Nat : B = (b * u) \div v
  <2>1. b * u \in Nat
    BY Products
  <2> QED BY <2>1, QuotientIs
<1>5. PICK A \in Nat : A = size * B
  BY Products
<1>6. PICK C \in Nat : C = IF Shared(P, n) THEN 0 ELSE w
  OBVIOUS
<1> DEFINE R == [NoPeriod EXCEPT !.againstPeriods = a, !.startBlock = e + 1, !.endBlock = e + size,
                                 !.rewardPerBlock = B, !.stakesAmount = s, !.stakingDonationRatio = r,
                                 !.rewardAmount = A + C]
<1>7. NextPeriod(P) = R
  <2>1. HasDonationOrStake(P, IF n > P[n].againstPeriods THEN n - P[n].againstPeriods ELSE 1, n) <=> Shared(P, n)
    BY DEF HasDonationOrStake, Shared, Window
  <2>2. C = IF HasDonationOrStake(P, IF n > P[n].againstPeriods THEN n - P[n].againstPeriods ELSE 1, n)
            THEN 0 ELSE w
    BY <1>6, <2>1
  <2>3. NextPeriod(P) =
          [NoPeriod EXCEPT !.againstPeriods = a, !.startBlock = e + 1, !.endBlock = e + size,
             !.rewardPerBlock = (b * u) \div v, !.stakesAmount = s, !.stakingDonationRatio = r,
             !.rewardAmount = size * ((b * u) \div v)
               + (IF HasDonationOrStake(P, IF n > P[n].againstPeriods THEN n - P[n].againstPeriods ELSE 1, n)
                  THEN 0 ELSE w)]
    BY <1>1, <1>2, <1>3, Zenon DEF NextPeriod
  <2> QED BY <2>2, <2>3, <1>4, <1>5, Zenon
<1>8. /\ R.rewardPerBlock = B /\ R.rewardAmount = A + C /\ R.startBlock = e + 1 /\ R.endBlock = e + size
      /\ R.donationsAmount = 0 /\ R.donorAmounts = Nothing /\ R.againstPeriods = a /\ R.stakesAmount = s
      /\ R.stakingDonationRatio = r /\ R.hasSetStakeAmount = {} /\ R.donorStakeAmounts = Nothing
      /\ R \in PeriodType
  <2>0. Nothing \in [Donors -> Nat]
    BY NothingIs DEF NothingTyped
  <2>1. PICK x \in Nat, y \in Nat, z \in Nat : x = e + 1 /\ y = e + size /\ z = A + C
    OBVIOUS
  <2>2. PICK N \in [Donors -> Nat] : N = Nothing
    BY <2>0
  <2>3. R = [rewardPerBlock |-> B, rewardAmount |-> z, startBlock |-> x, endBlock |-> y,
             donationsAmount |-> 0, donorAmounts |-> N, againstPeriods |-> a, stakesAmount |-> s,
             stakingDonationRatio |-> r, hasSetStakeAmount |-> {}, donorStakeAmounts |-> N]
    <3>1. PICK M : M = NoPeriod
      OBVIOUS
    <3>2. M = [rewardPerBlock |-> 0, rewardAmount |-> 0, startBlock |-> 0, endBlock |-> 0, donationsAmount |-> 0,
               donorAmounts |-> N, againstPeriods |-> 0, stakesAmount |-> 0, stakingDonationRatio |-> 0,
               hasSetStakeAmount |-> {}, donorStakeAmounts |-> N]
      BY <2>2, <3>1, Zenon DEF NoPeriod
    <3>3. R = [M EXCEPT !.againstPeriods = a, !.startBlock = x, !.endBlock = y, !.rewardPerBlock = B,
                        !.stakesAmount = s, !.stakingDonationRatio = r, !.rewardAmount = z]
      BY <2>1, <3>1, Zenon
    <3> HIDE DEF R
    <3> QED BY <3>2, <3>3
  <2> HIDE DEF R
  <2> QED BY <2>1, <2>2, <2>3 DEF PeriodType
<1> HIDE DEF R
<1>9. R.endBlock >= R.startBlock /\ R.endBlock - R.startBlock + 1 = size
  BY <1>8
<1>10. R.rewardPerBlock * (R.endBlock - R.startBlock + 1) = A
  <2>1. B * size = A
    BY <1>5
  <2> QED BY <1>8, <1>9, <2>1, Zenon
<1>11. R.rewardAmount = R.rewardPerBlock * (R.endBlock - R.startBlock + 1)
                          + (IF Shared(P, n) THEN 0 ELSE P[n].rewardAmount)
  BY <1>3, <1>6, <1>8, <1>10, Zenon
<1>12. IsNext(P, n, R)
  BY <1>3, <1>8, <1>9, <1>11, Zenon DEF IsNext
<1> QED BY <1>7, <1>12

(***************************************************************************)
(* As many as are missing, one after the other.                             *)
(***************************************************************************)
Grow(before) ==
  [p \in 0..(CountOf(before) + 1) |-> IF p \in DOMAIN before THEN before[p] ELSE NextPeriod(before)]

IsGrown(g, k) == g = [n \in 0..k |-> IF n = 0 THEN rewardPeriods ELSE Grow(g[n - 1])]

LEMMA GrownExists == \A k \in Nat : \E g : IsGrown(g, k)
<1> DEFINE W == {k \in Nat : \E g : IsGrown(g, k)}
           V(g, n) == IF n = 0 THEN rewardPeriods ELSE Grow(g[n - 1])
<1>1. 0 \in W
  <2> DEFINE g == [n \in 0..0 |-> rewardPeriods]
  <2>1. g = [n \in 0..0 |-> V(g, n)]
    <3>1. \A n \in 0..0 : n = 0
      OBVIOUS
    <3> QED BY <3>1
  <2>2. IsGrown(g, 0)
    BY <2>1 DEF IsGrown
  <2> QED BY <2>2
<1>2. ASSUME NEW k \in Nat, k \in W PROVE k + 1 \in W
  <2>1. PICK f : IsGrown(f, k)
    BY <1>2
  <2>2. \A n \in 0..k : f[n] = V(f, n)
    BY <2>1 DEF IsGrown
  <2> DEFINE m == k + 1
             g == [n \in 0..m |-> IF n = m THEN Grow(f[m - 1]) ELSE f[n]]
  <2>3. ASSUME NEW n \in 0..m PROVE g[n] = V(g, n)
    <3>1. CASE n = m
      <4>1. m - 1 \in 0..m /\ m - 1 # m /\ m # 0
        OBVIOUS
      <4>2. g[m - 1] = f[m - 1] /\ g[m] = Grow(f[m - 1])
        BY <3>1, <4>1
      <4> HIDE DEF g, m
      <4> QED BY <3>1, <4>1, <4>2
    <3>2. CASE n # m
      <4>1. n \in 0..k /\ (n # 0 => n - 1 \in 0..m /\ n - 1 # m)
        BY <3>2
      <4>2. g[n] = f[n] /\ (n # 0 => g[n - 1] = f[n - 1])
        BY <3>2, <4>1
      <4> HIDE DEF g, m
      <4> QED BY <2>2, <4>1, <4>2
    <3> QED BY <3>1, <3>2
  <2>4. IsGrown(g, m)
    <3> DEFINE h == [n \in 0..m |-> V(g, n)]
    <3>1. g = [n \in 0..m |-> g[n]]
      OBVIOUS
    <3>2. \A n \in 0..m : g[n] = h[n]
      BY <2>3
    <3> HIDE DEF g
    <3>3. g = h
      BY <3>1, <3>2
    <3> QED BY <3>3 DEF IsGrown
  <2> QED BY <2>4
<1> HIDE DEF W
<1>3. Nat \subseteq W
  BY <1>1, <1>2, NaturalInduction
<1> QED BY <1>3 DEF W

\* The books with the periods Q, as long as nobody has done anything in the new ones.
GivenNow == [d \in Donors |-> GivenTo(d)]
BooksWith(Q, n) ==
  /\ n \in Nat /\ rewardPeriodCount <= n
  /\ Books(Q, StakedUntil(Q), n, stakes, donors, GivenNow)

LEMMA GrowKeeps ==
  ASSUME SettingsTyped, rewardPeriodCount \in Nat, DOMAIN stakedAt = 0..rewardPeriodCount,
         stakedAt[rewardPeriodCount] = stakes, NEW n, NEW Q, BooksWith(Q, n)
  PROVE  BooksWith(Grow(Q), n + 1)
<1>0. /\ n \in Nat \ {0} /\ n \in Nat /\ Q \in [0..n -> PeriodType] /\ DOMAIN Q = 0..n
      /\ Books(Q, StakedUntil(Q), n, stakes, donors, GivenNow)
      /\ rewardPeriodCount <= n
  BY DEF BooksWith, Books, BooksTyped
<1>1. CountOf(Q) = n
  BY <1>0, CountIs
<1>2. PICK R : R = NextPeriod(Q) /\ IsNext(Q, n, R)
  BY <1>0, NextPeriodIs
<1>3. Grow(Q) = Longer(Q, n, R)
  BY <1>0, <1>1, <1>2 DEF Grow, Longer
<1>4. StakedUntil(Longer(Q, n, R)) = Longer(StakedUntil(Q), n, stakes)
  <2>1. DOMAIN Longer(Q, n, R) = 0..(n + 1)
    BY DEF Longer
  <2> DEFINE a == [p \in 0..(n + 1) |-> IF p \in DOMAIN stakedAt THEN stakedAt[p] ELSE stakedAt[rewardPeriodCount]]
             c == [p \in 0..(n + 1) |-> IF p \in 0..n THEN StakedUntil(Q)[p] ELSE stakes]
  <2>2. ASSUME NEW p \in 0..(n + 1) PROVE a[p] = c[p]
    <3>1. CASE p \in 0..n
      BY <3>1, <1>0 DEF StakedUntil
    <3>2. CASE p \notin 0..n
      <4>1. p \notin 0..rewardPeriodCount
        BY <3>2, <1>0
      <4> QED BY <3>2, <4>1
    <3> QED BY <3>1, <3>2
  <2>3. a = c
    BY <2>2
  <2> QED BY <2>1, <2>3 DEF StakedUntil, Longer
<1>5. Books(Longer(Q, n, R), Longer(StakedUntil(Q), n, stakes), n + 1, stakes, donors, GivenNow)
  BY <1>0, <1>2, BooksGrow
<1>6. n + 1 \in Nat /\ rewardPeriodCount <= n + 1
  BY <1>0
<1> QED BY <1>3, <1>4, <1>5, <1>6 DEF BooksWith

BooksNow == Books(rewardPeriods, stakedAt, rewardPeriodCount, stakes, donors, GivenNow)

LEMMA InitializedIs ==
  ASSUME SettingsTyped, block \in Nat, BooksNow
  PROVE  \E n : CountOf(Initialized) = n /\ BooksWith(Initialized, n)
<1> DEFINE N == rewardPeriodCount
<1>0. /\ N \in Nat \ {0} /\ N \in Nat /\ rewardPeriods \in [0..N -> PeriodType] /\ N \in 0..N
      /\ DOMAIN stakedAt = 0..N /\ stakedAt \in [0..N -> [Donors -> Nat]] /\ stakedAt[N] = stakes
      /\ Books(rewardPeriods, stakedAt, N, stakes, donors, GivenNow)
  BY DEF Books, BooksTyped, BooksNow
<1> HIDE DEF N
<1>1. BooksWith(rewardPeriods, N)
  <2>1. StakedUntil(rewardPeriods) = stakedAt
    BY <1>0 DEF StakedUntil
  <2>2. rewardPeriodCount <= N
    BY <1>0 DEF N
  <2> QED BY <1>0, <2>1, <2>2 DEF BooksWith
<1>2. PICK size \in Nat \ {0} : size = settings.rewardPeriodSize
  BY SettingsAre
<1>3. PICK e \in Nat : e = rewardPeriods[N].endBlock
  BY <1>0, PeriodIs
<1> DEFINE missing == IF e >= block THEN 0 ELSE (block - e + size - 1) \div size
           g == CHOOSE h : IsGrown(h, missing)
<1>4. missing \in Nat
  <2>1. CASE e >= block
    BY <2>1
  <2>2. CASE ~(e >= block)
    <3>1. block - e + size - 1 \in Nat
      BY <2>2
    <3>2. (block - e + size - 1) \div size \in Nat
      BY <3>1, QuotientIs
    <3> QED BY <2>2, <3>2
  <2> QED BY <2>1, <2>2
<1>5. Initialized = g[missing]
  BY <1>2, <1>3, Zenon DEF Initialized, IsGrown, Grow, N
<1>6. IsGrown(g, missing)
  BY <1>4, GrownExists
<1> HIDE DEF g, missing
<1>7. g[0] = rewardPeriods /\ \A n \in 1..missing : g[n] = Grow(g[n - 1])
  <2>1. 0 \in 0..missing /\ \A n \in 1..missing : n \in 0..missing /\ n # 0
    BY <1>4
  <2> QED BY <1>6, <2>1 DEF IsGrown
<1> DEFINE W == {k \in Nat : k <= missing => BooksWith(g[k], N + k)}
<1>8. 0 \in W
  <2>1. N + 0 = N
    BY <1>0
  <2> QED BY <1>1, <1>7, <2>1
<1>9. ASSUME NEW k \in Nat, k \in W PROVE k + 1 \in W
  <2> SUFFICES ASSUME k + 1 <= missing PROVE BooksWith(g[k + 1], N + (k + 1))
    OBVIOUS
  <2>1. k + 1 \in 1..missing /\ (k + 1) - 1 = k /\ k <= missing /\ N + (k + 1) = (N + k) + 1
    BY <1>0, <1>4
  <2>2. BooksWith(g[k], N + k)
    BY <1>9, <2>1
  <2>3. BooksWith(Grow(g[k]), (N + k) + 1)
    <3>1. rewardPeriodCount \in Nat /\ DOMAIN stakedAt = 0..rewardPeriodCount /\ stakedAt[rewardPeriodCount] = stakes
      BY <1>0 DEF N
    <3> QED BY <2>2, <3>1, GrowKeeps
  <2>4. g[k + 1] = Grow(g[k])
    BY <1>7, <2>1
  <2> QED BY <2>1, <2>3, <2>4
<1> HIDE DEF W
<1>10. Nat \subseteq W
  BY <1>8, <1>9, NaturalInduction
<1>11. BooksWith(Initialized, N + missing)
  <2>1. missing \in W /\ missing <= missing
    BY <1>4, <1>10
  <2> QED BY <1>5, <2>1 DEF W
<1>12. CountOf(Initialized) = N + missing
  <2>1. N + missing \in Nat /\ DOMAIN Initialized = 0..(N + missing)
    BY <1>11 DEF BooksWith, Books, BooksTyped
  <2> QED BY <2>1, CountIs
<1> QED BY <1>11, <1>12

(***************************************************************************)
(* The inductive invariant.                                                 *)
(***************************************************************************)
AccountsTyped ==
  /\ stakes \in [Donors -> Nat] /\ received \in [Donors -> Nat] /\ forgone \in [Donors -> Nat]
  /\ balance \in Nat /\ block \in 0..MaxBlock

MinerIInv == SettingsTyped /\ AccountsTyped /\ BooksNow

\* The contract begins with the books of one period in which nobody has done anything.
LEMMA MinerInit == Init => MinerIInv
<1> SUFFICES ASSUME Init PROVE MinerIInv
  OBVIOUS
<1>1. /\ StartingBlock \in Nat \ {0} /\ FirstReward \in Nat \ {0} /\ InitialBalance \in Nat /\ MaxBlock \in Nat
      /\ InitialSettings \in [SettingNames -> Nat] /\ \A s \in Positive : InitialSettings[s] > 0
  BY DonationMinerAssumption
<1>2. SettingsTyped
  BY <1>1 DEF Init, SettingsTyped
<1>3. Nothing \in [Donors -> Nat]
  BY NothingIs DEF NothingTyped
<1>4. AccountsTyped
  BY <1>1, <1>3 DEF Init, AccountsTyped
<1>5. PICK size \in Nat \ {0} : size = InitialSettings.rewardPeriodSize
  <2>1. InitialSettings = settings
    BY DEF Init
  <2> QED BY <2>1, <1>2, SettingsAre
<1>6. PICK A \in Nat : A = FirstReward * size /\ A = FirstReward * InitialSettings.rewardPeriodSize
  BY <1>1, <1>5, Products
<1>7. PICK e \in Nat : /\ e = StartingBlock + size - 1
                       /\ e = StartingBlock + InitialSettings.rewardPeriodSize - 1
  BY <1>1, <1>5
<1>8. PICK N \in [Donors -> Nat] : N = Nothing /\ \A d \in Donors : N[d] = 0
  BY <1>3 DEF Nothing
<1>9. PICK Z : /\ Z = NoPeriod
               /\ Z = [rewardPerBlock |-> 0, rewardAmount |-> 0, startBlock |-> 0, endBlock |-> 0,
                       donationsAmount |-> 0, donorAmounts |-> N, againstPeriods |-> 0, stakesAmount |-> 0,
                       stakingDonationRatio |-> 0, hasSetStakeAmount |-> {}, donorStakeAmounts |-> N]
  BY <1>8 DEF NoPeriod
<1>10. PICK R : R = [Z EXCEPT !.rewardPerBlock = FirstReward, !.rewardAmount = A,
                              !.startBlock = StartingBlock, !.endBlock = e]
  OBVIOUS
<1>11. rewardPeriods = [p \in 0..1 |-> IF p = 0 THEN Z ELSE R]
  BY <1>6, <1>7, <1>9, <1>10, Zenon DEF Init
<1>12. /\ Z \in PeriodType /\ Z.donationsAmount = 0 /\ Z.donorAmounts = N /\ Z.againstPeriods = 0
       /\ Z.donorStakeAmounts = N
  BY <1>9 DEF PeriodType
<1>13. /\ R \in PeriodType /\ R.donationsAmount = 0 /\ R.donorAmounts = N /\ R.stakesAmount = 0
       /\ R.hasSetStakeAmount = {} /\ R.donorStakeAmounts = N
       /\ R.rewardPerBlock = FirstReward /\ R.rewardAmount = A /\ R.startBlock = StartingBlock /\ R.endBlock = e
  <2>1. PICK b \in Nat, s \in Nat : b = FirstReward /\ s = StartingBlock
    BY <1>1
  <2>2. R = [rewardPerBlock |-> b, rewardAmount |-> A, startBlock |-> s, endBlock |-> e,
             donationsAmount |-> 0, donorAmounts |-> N, againstPeriods |-> 0, stakesAmount |-> 0,
             stakingDonationRatio |-> 0, hasSetStakeAmount |-> {}, donorStakeAmounts |-> N]
    <3>1. Z = [rewardPerBlock |-> 0, rewardAmount |-> 0, startBlock |-> 0, endBlock |-> 0, donationsAmount |-> 0,
               donorAmounts |-> N, againstPeriods |-> 0, stakesAmount |-> 0, stakingDonationRatio |-> 0,
               hasSetStakeAmount |-> {}, donorStakeAmounts |-> N]
      BY <1>9
    <3>2. R = [Z EXCEPT !.rewardPerBlock = b, !.rewardAmount = A, !.startBlock = s, !.endBlock = e]
      BY <1>10, <2>1, Zenon
    <3> QED BY <3>1, <3>2
  <2> QED BY <2>1, <2>2 DEF PeriodType
<1>14. /\ rewardPeriods \in [0..1 -> PeriodType] /\ rewardPeriods[0] = Z /\ rewardPeriods[1] = R
       /\ 0 \in 0..1 /\ 1 \in 0..1 /\ \A p \in 0..1 : p = 0 \/ p = 1
  BY <1>11, <1>12, <1>13
<1>15. rewardPeriodCount = 1
  <2>1. DOMAIN rewardPeriods = 0..1 /\ 1 \in Nat
    BY <1>11
  <2> QED BY <2>1, CountIs DEF rewardPeriodCount
<1>16. /\ stakedAt \in [0..1 -> [Donors -> Nat]] /\ stakedAt[0] = N /\ stakedAt[1] = N /\ stakes = N
  <2>1. stakedAt = [p \in 0..1 |-> N] /\ stakes = N
    BY <1>8 DEF Init
  <2> QED BY <2>1
<1>17. BooksTyped(rewardPeriods, stakedAt, 1)
  BY <1>14, <1>16 DEF BooksTyped
<1>18. AddsUp(rewardPeriods, stakedAt, 1)
  <2>1. SumFunction(N) = 0
    <3>1. SumFunctionOnSet(N, Donors) = 0
      BY <1>8, FiniteDonors, SumZero
    <3>2. DOMAIN N = Donors
      OBVIOUS
    <3> QED BY <3>1, <3>2 DEF SumFunction
  <2>2. \A p \in 1..1 : p = 1
    OBVIOUS
  <2> QED BY <2>1, <2>2, <1>8, <1>12, <1>13, <1>14, <1>16 DEF AddsUp
<1>19. Carries(rewardPeriods, 1)
  <2>1. e >= StartingBlock /\ e - StartingBlock + 1 = size
    BY <1>1, <1>7
  <2>2. Base(rewardPeriods, 1) = A
    BY <2>1, <1>6, <1>13, <1>14, Zenon DEF Base
  <2>3. (\A p \in 1..1 : p = 1) /\ (1..(1 - 1)) = {}
    OBVIOUS
  <2> QED BY <2>1, <2>2, <2>3, <1>13, <1>14 DEF Carries
<1>20. donors \in [Donors -> DonorType] /\ GivenNow \in [Donors -> Nat]
       /\ \A d \in Donors : donors[d].lastClaimPeriod = 0 /\ GivenNow[d] = 0
  <2>1. donors = [d \in Donors |-> [rewardPeriods |-> << >>, lastClaimPeriod |-> 0]]
    BY DEF Init
  <2>2. \A d \in Donors : GivenNow[d] = 0
    BY <1>8 DEF Init, GivenNow, GivenTo
  <2>3. << >> \in Seq(Nat)
    OBVIOUS
  <2>4. donors \in [Donors -> DonorType]
    BY <2>1, <2>3 DEF DonorType
  <2>5. GivenNow \in [Donors -> Nat]
    BY <2>2 DEF GivenNow
  <2> QED BY <2>1, <2>2, <2>4, <2>5
<1>21. ASSUME NEW d \in Donors PROVE Settled(rewardPeriods, stakedAt, 1, d, donors[d], GivenNow[d])
  <2>1. Tracked(rewardPeriods, stakedAt, 1, d, 0)
    <3>1. \A p \in 0..1 : rewardPeriods[p].donorStakeAmounts[d] = 0 /\ stakedAt[p][d] = 0
      BY <1>8, <1>12, <1>13, <1>14, <1>16
    <3>2. \A p \in (0 + 1)..1 : p \in 0..1 /\ p - 1 \in 0..1
      OBVIOUS
    <3> QED BY <3>1, <3>2, <1>14 DEF Tracked
  <2>2. NothingYet(rewardPeriods, stakedAt, 1, d)
    BY <1>8, <1>12, <1>13, <1>14, <1>16 DEF NothingYet
  <2>3. Given(rewardPeriods, stakedAt, d, 0, 0)
    <3>1. Shares(rewardPeriods, stakedAt, d, 0) = 0
      BY <1>14, <1>16, SharesGrow
    <3> QED BY <3>1 DEF Given
  <2> QED BY <2>1, <2>2, <2>3, <1>20 DEF Settled
<1>22. BooksNow
  BY <1>15, <1>16, <1>17, <1>18, <1>19, <1>20, <1>21 DEF BooksNow, Books
<1> QED BY <1>2, <1>4, <1>22 DEF MinerIInv

(***************************************************************************)
(* Steps.                                                                   *)
(***************************************************************************)
LEMMA BooksNext ==
  ASSUME NEW n, Books(rewardPeriods', stakedAt', n, stakes', donors', GivenNow')
  PROVE  BooksNow'
<1>1. n \in Nat /\ DOMAIN rewardPeriods' = 0..n
  BY DEF Books, BooksTyped
<1>2. CountOf(rewardPeriods') = n
  BY <1>1, CountIs
<1> QED BY <1>2 DEF BooksNow, rewardPeriodCount

LEMMA NowIs == ASSUME BooksNow PROVE StakedUntil(rewardPeriods) = stakedAt
<1>1. DOMAIN stakedAt = DOMAIN rewardPeriods /\ stakedAt = [p \in DOMAIN stakedAt |-> stakedAt[p]]
  BY DEF BooksNow, Books, BooksTyped
<1> QED BY <1>1 DEF StakedUntil

LEMMA SameGiven == UNCHANGED <<received, forgone>> => GivenNow' = GivenNow
BY DEF GivenNow, GivenTo

LEMMA DonationKeeps ==
  ASSUME MinerIInv, NEW d \in Donors, NEW amount \in Nat, AddDonation(d, amount)
  PROVE  MinerIInv'
<1>1. SettingsTyped' /\ AccountsTyped'
  BY DEF MinerIInv, SettingsTyped, AccountsTyped, AddDonation
<1>2. PICK n : CountOf(Initialized) = n /\ BooksWith(Initialized, n)
  <2>1. block \in Nat
    BY DonationMinerAssumption DEF MinerIInv, AccountsTyped
  <2> QED BY <2>1, InitializedIs DEF MinerIInv
<1>3. Books(Initialized, StakedUntil(Initialized), n, stakes, donors, GivenNow)
  BY <1>2 DEF BooksWith
<1>4. Books(DonatedTo(Initialized, n, d, amount), StakedUntil(Initialized), n, stakes,
            Donating(donors, d, n), GivenNow)
  BY <1>3, BooksDonate
<1>5. /\ rewardPeriods' = DonatedTo(Initialized, n, d, amount)
      /\ donors' = Donating(donors, d, n)
      /\ stakedAt' = StakedUntil(Initialized) /\ stakes' = stakes
  BY <1>2, Zenon DEF AddDonation, DonatedTo, Donating
<1>6. GivenNow' = GivenNow
  BY SameGiven DEF AddDonation
<1>7. BooksNow'
  BY <1>4, <1>5, <1>6, BooksNext
<1> QED BY <1>1, <1>7 DEF MinerIInv

LEMMA ChangeStakeKeeps ==
  ASSUME MinerIInv, NEW d \in Donors, NEW amount \in Nat, ChangeStake(d, amount)
  PROVE  MinerIInv'
<1>1. PICK U : U = [stakes EXCEPT ![d] = amount]
  OBVIOUS
<1>2. SettingsTyped' /\ AccountsTyped'
  <2>1. U \in [Donors -> Nat]
    BY <1>1 DEF MinerIInv, AccountsTyped
  <2> QED BY <1>1, <2>1 DEF MinerIInv, SettingsTyped, AccountsTyped, ChangeStake
<1>3. PICK n : CountOf(Initialized) = n /\ BooksWith(Initialized, n)
  <2>1. block \in Nat
    BY DonationMinerAssumption DEF MinerIInv, AccountsTyped
  <2> QED BY <2>1, InitializedIs DEF MinerIInv
<1>4. Books(Initialized, StakedUntil(Initialized), n, stakes, donors, GivenNow)
  BY <1>3 DEF BooksWith
<1>5. Books(Staked(Initialized, d, amount, SumFunction(U)), [StakedUntil(Initialized) EXCEPT ![n] = U], n, U,
            [donors EXCEPT ![d] = ClaimsFrom(@, n)], GivenNow)
  BY <1>1, <1>4, BooksStake
<1>6. /\ rewardPeriods' = Staked(Initialized, d, amount, SumFunction(U))
      /\ donors' = [donors EXCEPT ![d] = ClaimsFrom(@, n)]
      /\ stakedAt' = [StakedUntil(Initialized) EXCEPT ![n] = U] /\ stakes' = U
  BY <1>1, <1>3, Zenon DEF ChangeStake
<1>7. GivenNow' = GivenNow
  BY SameGiven DEF ChangeStake
<1>8. BooksNow'
  BY <1>5, <1>6, <1>7, BooksNext
<1> QED BY <1>2, <1>8 DEF MinerIInv

\* Whatever of a reward there is PACT for, all of it counts as given.
LEMMA GiveIs ==
  ASSUME AccountsTyped, NEW d \in Donors, NEW c \in Nat, Give(d, c)
  PROVE  /\ Less(c, balance) \in Nat
         /\ balance' \in Nat /\ received' \in [Donors -> Nat] /\ forgone' \in [Donors -> Nat]
         /\ GivenNow' = [GivenNow EXCEPT ![d] = @ + c]
<1>1. PICK l \in Nat : l = Less(c, balance) /\ l <= c /\ l <= balance
  BY DEF AccountsTyped, Less
<1>2. /\ received' = [received EXCEPT ![d] = @ + l]
      /\ forgone' = [forgone EXCEPT ![d] = @ + c - l]
      /\ balance' = balance - l
  BY <1>1, Zenon DEF Give
<1>3. received \in [Donors -> Nat] /\ forgone \in [Donors -> Nat] /\ balance \in Nat
  BY DEF AccountsTyped
<1>4. /\ received' \in [Donors -> Nat] /\ forgone' \in [Donors -> Nat] /\ balance' \in Nat
      /\ received'[d] = received[d] + l /\ forgone'[d] = forgone[d] + c - l
      /\ \A e \in Donors : e # d => received'[e] = received[e] /\ forgone'[e] = forgone[e]
  <2>1. received[d] + l \in Nat /\ forgone[d] + c - l \in Nat /\ balance - l \in Nat
    BY <1>1, <1>3
  <2> QED BY <2>1, <1>2, <1>3
<1>5. \A e \in Donors : GivenNow'[e] = [GivenNow EXCEPT ![d] = @ + c][e]
  <2>1. \A e \in Donors : GivenNow[e] = received[e] + forgone[e] /\ GivenNow'[e] = received'[e] + forgone'[e]
    BY DEF GivenNow, GivenTo
  <2>2. DOMAIN GivenNow = Donors
    BY DEF GivenNow
  <2>3. ASSUME NEW e \in Donors PROVE GivenNow'[e] = [GivenNow EXCEPT ![d] = @ + c][e]
    <3>1. CASE e = d
      <4>1. received[d] \in Nat /\ forgone[d] \in Nat
        BY <1>3
      <4>2. received'[d] + forgone'[d] = (received[d] + forgone[d]) + c
        BY <4>1, <1>1, <1>4
      <4> QED BY <3>1, <4>2, <2>1, <2>2
    <3>2. CASE e # d
      BY <3>2, <1>4, <2>1, <2>2
    <3> QED BY <3>1, <3>2
  <2> QED BY <2>3
<1>6. GivenNow' = [GivenNow EXCEPT ![d] = @ + c]
  <2>1. GivenNow' = [e \in Donors |-> GivenNow'[e]]
    BY DEF GivenNow
  <2>2. [GivenNow EXCEPT ![d] = @ + c] = [e \in Donors |-> [GivenNow EXCEPT ![d] = @ + c][e]]
    BY DEF GivenNow
  <2> QED BY <1>5, <2>1, <2>2
<1> QED BY <1>1, <1>4, <1>6

LEMMA PayOutKeeps ==
  ASSUME MinerIInv, NEW d \in Donors, NEW n, CountOf(Initialized) = n, NEW m \in 0..(n - 1),
         PayOut(d, Initialized, m)
  PROVE  MinerIInv'
<1>1. BooksWith(Initialized, n)
  <2>1. block \in Nat
    BY DonationMinerAssumption DEF MinerIInv, AccountsTyped
  <2> QED BY <2>1, InitializedIs DEF MinerIInv
<1>2. Books(Initialized, StakedUntil(Initialized), n, stakes, donors, GivenNow)
  BY <1>1 DEF BooksWith
<1>3. PICK c, k : /\ c = CalculateReward(Initialized, d, m).claim /\ k = CalculateReward(Initialized, d, m).stake
                  /\ IsReward(Initialized, StakedUntil(Initialized), d, m, GivenNow[d], c, k)
  BY <1>2, RewardIsThat
<1>4. Books(Claimed(Initialized, d, m, k), StakedUntil(Initialized), n, stakes, ClaimedUpTo(d, m),
            [GivenNow EXCEPT ![d] = @ + c])
  BY <1>2, <1>3, BooksClaim
<1>5. /\ Give(d, c)
      /\ rewardPeriods' = Claimed(Initialized, d, m, k)
      /\ donors' = ClaimedUpTo(d, m)
      /\ stakedAt' = StakedUntil(Initialized) /\ stakes' = stakes /\ settings' = settings /\ block' = block
  BY <1>3, Zenon DEF PayOut, ClaimedUpTo
<1>6. /\ balance' \in Nat /\ received' \in [Donors -> Nat] /\ forgone' \in [Donors -> Nat]
      /\ GivenNow' = [GivenNow EXCEPT ![d] = @ + c]
  <2>1. c \in Nat
    BY <1>3 DEF IsReward
  <2> QED BY <2>1, <1>5, GiveIs DEF MinerIInv
<1>7. SettingsTyped' /\ AccountsTyped'
  BY <1>5, <1>6 DEF MinerIInv, SettingsTyped, AccountsTyped
<1>8. BooksNow'
  BY <1>4, <1>5, <1>6, BooksNext
<1> QED BY <1>7, <1>8 DEF MinerIInv

LEMMA StakeOutKeeps ==
  ASSUME MinerIInv, NEW d \in Donors, NEW n, CountOf(Initialized) = n, NEW m \in 0..(n - 1),
         StakeOut(d, Initialized, m)
  PROVE  MinerIInv'
<1>1. BooksWith(Initialized, n)
  <2>1. block \in Nat
    BY DonationMinerAssumption DEF MinerIInv, AccountsTyped
  <2> QED BY <2>1, InitializedIs DEF MinerIInv
<1>2. Books(Initialized, StakedUntil(Initialized), n, stakes, donors, GivenNow)
  BY <1>1 DEF BooksWith
<1>3. PICK c, k : /\ c = CalculateReward(Initialized, d, m).claim /\ k = CalculateReward(Initialized, d, m).stake
                  /\ IsReward(Initialized, StakedUntil(Initialized), d, m, GivenNow[d], c, k)
  BY <1>2, RewardIsThat
<1>c. c \in Nat
  BY <1>3 DEF IsReward
<1>4. PICK Q, E, H : /\ Q = Claimed(Initialized, d, m, k) /\ E = ClaimedUpTo(d, m)
                     /\ H = [GivenNow EXCEPT ![d] = @ + c]
                     /\ Books(Q, StakedUntil(Initialized), n, stakes, E, H)
  <2>1. Books(Claimed(Initialized, d, m, k), StakedUntil(Initialized), n, stakes, ClaimedUpTo(d, m),
              [GivenNow EXCEPT ![d] = @ + c])
    BY <1>2, <1>3, BooksClaim
  <2> QED BY <2>1
<1>5. PICK U : U = [stakes EXCEPT ![d] = @ + Less(c, balance)]
  OBVIOUS
<1>6. /\ Less(c, balance) > 0 /\ Give(d, c)
      /\ stakes' = U
      /\ rewardPeriods' = Staked(Q, d, U[d], SumFunction(U))
      /\ donors' = E
      /\ stakedAt' = [StakedUntil(Initialized) EXCEPT ![n] = U] /\ settings' = settings /\ block' = block
  BY <1>3, <1>4, <1>5, Zenon DEF StakeOut, ClaimedUpTo
<1>7. /\ Less(c, balance) \in Nat
      /\ balance' \in Nat /\ received' \in [Donors -> Nat] /\ forgone' \in [Donors -> Nat]
      /\ GivenNow' = H
  BY <1>c, <1>4, <1>6, GiveIs DEF MinerIInv
<1>8. U \in [Donors -> Nat] /\ U[d] \in Nat /\ U = [stakes EXCEPT ![d] = U[d]]
  BY <1>5, <1>7 DEF MinerIInv, AccountsTyped
<1>9. Books(Staked(Q, d, U[d], SumFunction(U)), [StakedUntil(Initialized) EXCEPT ![n] = U], n, U,
            [E EXCEPT ![d] = ClaimsFrom(@, n)], H)
  <2>1. PICK a \in Nat : a = U[d]
    BY <1>8
  <2>2. U = [stakes EXCEPT ![d] = a]
    BY <2>1, <1>8
  <2>3. Books(Staked(Q, d, a, SumFunction(U)), [StakedUntil(Initialized) EXCEPT ![n] = U], n, U,
              [E EXCEPT ![d] = ClaimsFrom(@, n)], H)
    BY <2>2, <1>4, BooksStake
  <2> QED BY <2>1, <2>3
<1>10. [E EXCEPT ![d] = ClaimsFrom(@, n)] = E
  <2>1. c > 0
    BY <1>c, <1>6 DEF Less
  <2>2. Known(donors[d])
    BY <2>1, <1>3 DEF IsReward
  <2>3. donors \in [Donors -> DonorType] /\ E \in [Donors -> DonorType]
    BY <1>2, <1>4 DEF Books
  <2>4. PICK last \in Nat : last = donors[d].lastClaimPeriod
    BY <2>3 DEF DonorType
  <2>5. donors[d] \in DonorType
    BY <2>3
  <2>6. E[d].rewardPeriods = donors[d].rewardPeriods /\ E[d].lastClaimPeriod = Later(d, m)
    BY <2>3, <2>5, <1>4 DEF ClaimedUpTo, DonorType
  <2>7. last # 0 => Later(d, m) # 0
    BY <2>4 DEF Later
  <2>8. ~(E[d].lastClaimPeriod = 0 /\ E[d].rewardPeriods = << >>)
    BY <2>2, <2>4, <2>6, <2>7 DEF Known
  <2>9. ClaimsFrom(E[d], n) = E[d]
    BY <2>8 DEF ClaimsFrom
  <2> QED BY <2>3, <2>9
<1>11. SettingsTyped' /\ AccountsTyped'
  BY <1>6, <1>7, <1>8 DEF MinerIInv, SettingsTyped, AccountsTyped
<1>12. BooksNow'
  BY <1>6, <1>7, <1>9, <1>10, BooksNext
<1> QED BY <1>11, <1>12 DEF MinerIInv

LEMMA UpdateKeeps ==
  ASSUME MinerIInv, NEW change \in SettingChanges, UpdateSetting(change[1], change[2])
  PROVE  MinerIInv'
<1>1. PICK name \in SettingNames, value \in Nat :
        /\ name = change[1] /\ value = change[2] /\ (name \in Positive => value > 0)
  <2>1. /\ SettingChanges \subseteq SettingNames \X Nat
        /\ \A s \in Positive : <<s, 0>> \notin SettingChanges
    BY DonationMinerAssumption
  <2>2. change[1] \in SettingNames /\ change[2] \in Nat /\ change = <<change[1], change[2]>>
    BY <2>1
  <2>3. change[1] \in Positive => change[2] # 0
    BY <2>1, <2>2
  <2> QED BY <2>2, <2>3
<1>2. UpdateSetting(name, value)
  BY <1>1
<1>3. SettingsTyped' /\ AccountsTyped'
  <2>1. settings' = [settings EXCEPT ![name] = value] /\ settings \in [SettingNames -> Nat]
    BY <1>2 DEF UpdateSetting, MinerIInv, SettingsTyped
  <2>2. settings' \in [SettingNames -> Nat] /\ settings'[name] = value
        /\ \A s \in SettingNames : s # name => settings'[s] = settings[s]
    BY <2>1
  <2>3. Positive \subseteq SettingNames
    BY DEF Positive, SettingNames
  <2>4. SettingsTyped'
    BY <2>2, <2>3, <1>1 DEF MinerIInv, SettingsTyped
  <2>5. AccountsTyped'
    BY <1>2 DEF MinerIInv, AccountsTyped, UpdateSetting
  <2> QED BY <2>4, <2>5
<1>4. PICK n, Q : /\ Books(Q, StakedUntil(Q), n, stakes, donors, GivenNow)
                  /\ rewardPeriods' = Q /\ stakedAt' = StakedUntil(Q)
  <2>1. CASE name \in InitializingSettings
    <3>1. block \in Nat
      BY DonationMinerAssumption DEF MinerIInv, AccountsTyped
    <3>2. PICK n : BooksWith(Initialized, n)
      BY <3>1, InitializedIs DEF MinerIInv
    <3>3. rewardPeriods' = Initialized /\ stakedAt' = StakedUntil(Initialized)
      BY <2>1, <1>2 DEF UpdateSetting
    <3> QED BY <3>2, <3>3 DEF BooksWith
  <2>2. CASE name \notin InitializingSettings
    <3>1. rewardPeriods' = rewardPeriods /\ stakedAt' = StakedUntil(rewardPeriods)
      BY <2>2, <1>2 DEF UpdateSetting
    <3>2. StakedUntil(rewardPeriods) = stakedAt
      BY NowIs DEF MinerIInv
    <3> QED BY <3>1, <3>2 DEF MinerIInv, BooksNow
  <2> QED BY <2>1, <2>2
<1>5. stakes' = stakes /\ donors' = donors /\ GivenNow' = GivenNow
  BY <1>2, SameGiven DEF UpdateSetting
<1>6. BooksNow'
  BY <1>4, <1>5, BooksNext
<1> QED BY <1>3, <1>6 DEF MinerIInv

LEMMA TransfersKeep ==
  ASSUME MinerIInv,
         UNCHANGED <<settings, rewardPeriods, donors, stakes, stakedAt, received, forgone>>,
         balance' \in Nat, block' \in 0..MaxBlock
  PROVE  MinerIInv'
<1>1. SettingsTyped' /\ AccountsTyped'
  BY DEF MinerIInv, SettingsTyped, AccountsTyped
<1>2. GivenNow' = GivenNow
  BY SameGiven
<1>3. BooksNow'
  BY <1>2 DEF MinerIInv, BooksNow, rewardPeriodCount
<1> QED BY <1>1, <1>3 DEF MinerIInv

LEMMA StepKeepsMiner == MinerIInv /\ [Next]_vars => MinerIInv'
<1> SUFFICES ASSUME MinerIInv, [Next]_vars PROVE MinerIInv'
  OBVIOUS
<1>1. DonationAmounts \subseteq Nat /\ StakeAmounts \subseteq Nat /\ MaxBlock \in Nat
  BY DonationMinerAssumption
<1>2. PICK n \in Nat \ {0} : CountOf(Initialized) = n
  <2>1. block \in Nat
    BY <1>1 DEF MinerIInv, AccountsTyped
  <2>2. PICK n : CountOf(Initialized) = n /\ BooksWith(Initialized, n)
    BY <2>1, InitializedIs DEF MinerIInv
  <2>3. n \in Nat \ {0}
    BY <2>2 DEF BooksWith, Books, BooksTyped
  <2> QED BY <2>2, <2>3
<1>3. LastClaimable(Initialized) \in 0..(n - 1) /\ \A m \in 0..LastClaimable(Initialized) : m \in 0..(n - 1)
  <2>1. settings.claimDelay \in Nat
    BY SettingsAre DEF MinerIInv
  <2>2. LastClaimable(Initialized) \in 0..(n - 1)
    BY <1>2, <2>1 DEF LastClaimable
  <2> QED BY <2>2
<1>4. CASE Call
  <2>1. ASSUME NEW d \in Donors, NEW a \in DonationAmounts,
               Donate(d, a) \/ DonateVirtual(d, a) \/ DonateToCommunity(d, a)
        PROVE  MinerIInv'
    <3>1. a \in Nat
      BY <1>1
    <3>2. CASE Donate(d, a) \/ DonateVirtual(d, a)
      BY <3>1, <3>2, DonationKeeps DEF Donate, DonateVirtual
    <3>3. CASE DonateToCommunity(d, a)
      <4>1. settings.communityDonationRatio \in Nat
        BY SettingsAre DEF MinerIInv
      <4>2. settings.communityDonationRatio > 0 /\ AddDonation(d, a \div settings.communityDonationRatio)
        BY <3>3 DEF DonateToCommunity
      <4>3. a \div settings.communityDonationRatio \in Nat
        BY <3>1, <4>1, <4>2, QuotientIs
      <4> QED BY <4>2, <4>3, DonationKeeps
    <3> QED BY <2>1, <3>2, <3>3
  <2>2. ASSUME NEW d \in Donors, NEW a \in StakeAmounts, ChangeStake(d, a) PROVE MinerIInv'
    <3>1. a \in Nat
      BY <1>1
    <3> QED BY <2>2, <3>1, ChangeStakeKeeps
  <2>3. ASSUME NEW d \in Donors, ClaimRewards(d) \/ StakeRewards(d) PROVE MinerIInv'
    <3>1. CASE ClaimRewards(d)
      BY <3>1, <1>2, <1>3, PayOutKeeps DEF ClaimRewards
    <3>2. CASE StakeRewards(d)
      <4>1. n - 1 \in 0..(n - 1)
        OBVIOUS
      <4>2. StakeOut(d, Initialized, n - 1)
        BY <3>2, <1>2 DEF StakeRewards
      <4> QED BY <4>1, <4>2, <1>2, StakeOutKeeps
    <3> QED BY <2>3, <3>1, <3>2
  <2>4. ASSUME NEW d \in Donors, NEW p, ClaimRewardsPartial(d, p) \/ StakeRewardsPartial(d, p) PROVE MinerIInv'
    <3>1. CASE ClaimRewardsPartial(d, p)
      <4>1. p \in 0..(n - 1) /\ PayOut(d, Initialized, p)
        BY <3>1, <1>3 DEF ClaimRewardsPartial
      <4> QED BY <4>1, <1>2, PayOutKeeps
    <3>2. CASE StakeRewardsPartial(d, p)
      <4>1. p \in 0..(n - 1) /\ StakeOut(d, Initialized, p)
        BY <3>2, <1>2 DEF StakeRewardsPartial
      <4> QED BY <4>1, <1>2, StakeOutKeeps
    <3> QED BY <2>4, <3>1, <3>2
  <2>5. ASSUME NEW change \in SettingChanges, UpdateSetting(change[1], change[2]) PROVE MinerIInv'
    BY <2>5, UpdateKeeps
  <2>6. CASE TransferOut(balance)
    <3>1. balance \in Nat /\ block \in 0..MaxBlock
      BY DEF MinerIInv, AccountsTyped
    <3>2. balance' \in Nat /\ block' \in 0..MaxBlock
      BY <2>6, <3>1 DEF TransferOut
    <3> QED BY <2>6, <3>2, TransfersKeep DEF TransferOut
  <2> QED BY <1>4, <2>1, <2>2, <2>3, <2>4, <2>5, <2>6 DEF Call
<1>5. CASE MineBlock
  <2>1. balance \in Nat /\ block \in 0..MaxBlock
    BY DEF MinerIInv, AccountsTyped
  <2>2. balance' \in Nat /\ block' \in 0..MaxBlock
    BY <1>1, <1>5, <2>1 DEF MineBlock
  <2> QED BY <1>5, <2>2, TransfersKeep DEF MineBlock
<1>6. CASE UNCHANGED vars
  <2>1. balance \in Nat /\ block \in 0..MaxBlock
    BY DEF MinerIInv, AccountsTyped
  <2> QED BY <1>6, <2>1, TransfersKeep DEF vars, minerVars
<1> QED BY <1>4, <1>5, <1>6 DEF Next

(***************************************************************************)
(* Theorems.                                                                *)
(***************************************************************************)
LEMMA MinerIsTyped == MinerIInv => TypeOK
<1> SUFFICES ASSUME MinerIInv PROVE TypeOK
  OBVIOUS
<1>1. PICK n : /\ n = rewardPeriodCount /\ n \in Nat \ {0} /\ n \in Nat
               /\ Books(rewardPeriods, stakedAt, n, stakes, donors, GivenNow)
  BY DEF MinerIInv, BooksNow, Books, BooksTyped
<1>2. DOMAIN rewardPeriods = 0..n
  BY <1>1 DEF Books, BooksTyped
<1>3. \A p \in 1..n : rewardPeriods[p].endBlock >= rewardPeriods[p].startBlock
  BY <1>1 DEF Books, Carries
<1>4. \A d \in Donors : donors[d].lastClaimPeriod \in 0..n
  BY <1>1 DEF Books, Settled, DonorType
<1> QED BY <1>1, <1>2, <1>3, <1>4 DEF TypeOK, MinerIInv, SettingsTyped, AccountsTyped

LEMMA SharesAre ==
  /\ \A p, d : ShareOf(p, d) = Share(rewardPeriods, stakedAt, p, d)
  /\ \A d : SharesOf(d) = Shares(rewardPeriods, stakedAt, d, donors[d].lastClaimPeriod)
<1>1. \A p, d : PartOf(p, d) = Part(rewardPeriods, stakedAt, p, d)
  BY DEF PartOf, Part, Donated, Window, WindowOf
<1>2. \A p : PartOfAll(p) = SumFunction(PartOfEach(rewardPeriods, stakedAt, p))
  BY <1>1 DEF PartOfAll, PartOfEach
<1>3. \A p, d : ShareOf(p, d) = Share(rewardPeriods, stakedAt, p, d)
  BY <1>1, <1>2 DEF ShareOf, Share
<1>4. \A d : SharesOf(d) = Shares(rewardPeriods, stakedAt, d, donors[d].lastClaimPeriod)
  BY <1>3 DEF SharesOf, Shares
<1> QED BY <1>3, <1>4

LEMMA MinerGivesOnce == MinerIInv => SharesGivenOnce
<1> SUFFICES ASSUME MinerIInv PROVE SharesGivenOnce
  OBVIOUS
<1>1. PICK n : /\ n = rewardPeriodCount
               /\ Books(rewardPeriods, stakedAt, n, stakes, donors, GivenNow)
  BY DEF MinerIInv, BooksNow
<1>2. ASSUME NEW d \in Donors
      PROVE  /\ GivenTo(d) <= SharesOf(d)
             /\ d \notin rewardPeriods[1].hasSetStakeAmount => GivenTo(d) = SharesOf(d)
  <2>1. GivenNow[d] = GivenTo(d)
    BY DEF GivenNow
  <2>2. Given(rewardPeriods, stakedAt, d, donors[d].lastClaimPeriod, GivenTo(d))
    BY <1>1, <2>1 DEF Books, Settled
  <2> QED BY <2>2, SharesAre DEF Given
<1>3. SumFunction(received) + SumFunction(forgone) = SumFunctionOnSet(GivenNow, Donors)
  <2>1. /\ received \in [Donors -> Nat] /\ forgone \in [Donors -> Nat]
        /\ SumFunction(received) = SumFunctionOnSet(received, Donors)
        /\ SumFunction(forgone) = SumFunctionOnSet(forgone, Donors)
    BY DEF MinerIInv, AccountsTyped, SumFunction
  <2>2. \A d \in Donors : received[d] \in Int /\ forgone[d] \in Int /\ GivenNow[d] = received[d] + forgone[d]
    BY <2>1 DEF GivenNow, GivenTo
  <2>3. SumFunctionOnSet(GivenNow, Donors) = SumFunctionOnSet(received, Donors) + SumFunctionOnSet(forgone, Donors)
    BY <2>2, FiniteDonors, SumPlus
  <2> QED BY <2>1, <2>3
<1>4. SumFunctionOnSet(GivenNow, Donors) <= Bases(rewardPeriods, n - 1)
  BY <1>1, GivenWithinBases
<1>5. Bases(rewardPeriods, n - 1)
        = SumFunction([p \in 1..(rewardPeriodCount - 1) |->
            rewardPeriods[p].rewardPerBlock * (rewardPeriods[p].endBlock - rewardPeriods[p].startBlock + 1)])
  BY <1>1, Zenon DEF Bases, Base, SumFunction
<1> QED BY <1>2, <1>3, <1>4, <1>5 DEF SharesGivenOnce

\* Types hold, and the periods are without a gap.
THEOREM MinerTypesHold == Spec => []TypeOK
<1>1. Init => MinerIInv
  BY MinerInit
<1>2. MinerIInv /\ [Next]_vars => MinerIInv'
  BY StepKeepsMiner
<1>3. MinerIInv => TypeOK
  BY MinerIsTyped
<1> QED BY <1>1, <1>2, <1>3, PTL DEF Spec

\* Everybody is given exactly the shares of the periods up to the last one claimed, each
\* once, whatever claims, stakes, settings and blocks come between; and all claims
\* together stay within the rewards of the blocks of the periods that are over.
THEOREM SharesAreGivenOnce == Spec => []SharesGivenOnce
<1>1. Init => MinerIInv
  BY MinerInit
<1>2. MinerIInv /\ [Next]_vars => MinerIInv'
  BY StepKeepsMiner
<1>3. MinerIInv => SharesGivenOnce
  BY MinerGivesOnce
<1> QED BY <1>1, <1>2, <1>3, PTL DEF Spec

LoanFields == {"amountBorrowed", "dailyInterest", "claimDeadline", "startDate", "lastComputedDebt",
               "lastComputedDate", "amountRepayed", "managerAddress"}

\* Loans are records, of whatever values.
LoansShaped(ls) == \E Shapes : ls \in Seq(Seq(Shapes)) /\ \A loan \in Shapes : DOMAIN loan = LoanFields

WalletsTyped == walletMetadata \in [Wallets -> [userId : Nat, movedTo : Wallets \cup {None}]]

\* Wallets are of users there are; only a user moves.
WalletsKnown ==
  \A w \in Wallets : /\ UserOf(w) \in 0..Len(loans)
                     /\ UserOf(w) = 0 => walletMetadata[w].movedTo = None

Unmended(u) == \A i \in DOMAIN loans[u] : <<u, i - 1>> \notin mended
EarlierEnded(u) == \A i \in DOMAIN loans[u] : i < Len(loans[u]) => Ended(loans[u][i])

IInv ==
  /\ LoansShaped(loans) /\ WalletsTyped /\ WalletsKnown
  /\ \A u \in DOMAIN loans : AtOneWallet(u)
  /\ \A u \in DOMAIN loans : Unmended(u) => EarlierEnded(u)

-----------------------------------------------------------------------------

LEMMA WiderSequence ==
  ASSUME NEW S, NEW T, S \subseteq T, NEW s \in Seq(S)
  PROVE  s \in Seq(T)
<1>1. Len(s) \in Nat /\ s \in [1..Len(s) -> S]
  OBVIOUS
<1>2. s \in [1..Len(s) -> T]
  BY <1>1
<1> QED BY <1>1, <1>2

LEMMA OneLoanFollows == IInv => OneLoanAtATime
<1> SUFFICES ASSUME IInv, NEW u \in DOMAIN loans,
                    \A i \in DOMAIN loans[u] : <<u, i - 1>> \notin mended
             PROVE  OneLoan(u)
  BY DEF IInv, OneLoanAtATime
<1>1. PICK Shapes : loans \in Seq(Seq(Shapes))
  BY DEF IInv, LoansShaped
<1>2. loans[u] \in Seq(Shapes)
  BY <1>1
<1>3. EarlierEnded(u)
  BY DEF IInv, Unmended
<1>4. \A i \in DOMAIN loans[u] : i = Len(loans[u]) \/ Ended(loans[u][i])
  BY <1>2, <1>3 DEF EarlierEnded
<1> QED BY <1>4 DEF OneLoan

\* A change of one loan keeps all that, if an ended loan stays ended or is marked.
LEMMA OneLoanChanges ==
  ASSUME IInv, NEW u \in DOMAIN loans, NEW k \in DOMAIN loans[u], NEW loan,
         DOMAIN loan = LoanFields,
         loans' = [loans EXCEPT ![u][k] = loan],
         UNCHANGED walletMetadata, mended \subseteq mended',
         (Ended(loans[u][k]) => Ended(loan)) \/ <<u, k - 1>> \in mended'
  PROVE  IInv'
<1>1. PICK Shapes : loans \in Seq(Seq(Shapes)) /\ \A l \in Shapes : DOMAIN l = LoanFields
  BY DEF IInv, LoansShaped
<1> DEFINE Wider == Shapes \cup {loan}
<1>2. loans[u] \in Seq(Shapes) /\ k \in 1..Len(loans[u])
  BY <1>1
<1>3. Seq(Shapes) \subseteq Seq(Wider)
  BY WiderSequence
<1>4. loans \in Seq(Seq(Wider))
  BY <1>1, <1>3, WiderSequence
<1>5. [loans[u] EXCEPT ![k] = loan] \in Seq(Wider)
  BY <1>2, <1>3
<1>6. loans' = [loans EXCEPT ![u] = [loans[u] EXCEPT ![k] = loan]]
  OBVIOUS
<1>7. loans' \in Seq(Seq(Wider)) /\ Len(loans') = Len(loans) /\ DOMAIN loans' = DOMAIN loans
  BY <1>4, <1>5, <1>6
<1>8. LoansShaped(loans')
  BY <1>1, <1>7 DEF LoansShaped
<1>9. \A v \in DOMAIN loans : DOMAIN loans'[v] = DOMAIN loans[v] /\ Len(loans'[v]) = Len(loans[v])
  BY <1>1, <1>2, <1>5, <1>6
<1>10. \A v \in DOMAIN loans : \A i \in DOMAIN loans[v] :
         Ended(loans[v][i]) => Ended(loans'[v][i]) \/ <<v, i - 1>> \in mended'
  BY <1>6
<1>11. ASSUME NEW v \in DOMAIN loans, Unmended(v)' PROVE EarlierEnded(v)'
  <2>1. Unmended(v)
    BY <1>9, <1>11 DEF Unmended
  <2>2. EarlierEnded(v)
    BY <2>1 DEF IInv
  <2> QED BY <2>2, <1>9, <1>10, <1>11 DEF EarlierEnded, Unmended
<1>12. WalletsTyped' /\ WalletsKnown' /\ \A v \in DOMAIN loans' : AtOneWallet(v)'
  <2>1. WalletsTyped' /\ WalletsKnown'
    BY <1>7 DEF IInv, WalletsTyped, WalletsKnown, UserOf
  <2>2. \A v \in DOMAIN loans : AtOneWallet(v)
    BY DEF IInv
  <2>3. ASSUME NEW v \in DOMAIN loans PROVE AtOneWallet(v)'
    BY <2>2, <2>3, <1>7 DEF AtOneWallet, UserOf
  <2> QED BY <2>1, <2>3, <1>7
<1> QED BY <1>7, <1>8, <1>11, <1>12 DEF IInv

\* The loan a call speaks of.
LEMMA CalledLoan ==
  ASSUME IInv, NEW w \in Wallets, NEW l \in Nat, UserOf(w) > 0, l < Len(loans[UserOf(w)])
  PROVE  /\ UserOf(w) \in DOMAIN loans /\ l + 1 \in DOMAIN loans[UserOf(w)]
         /\ DOMAIN LoanOf(w, l) = LoanFields /\ (l + 1) - 1 = l
<1>1. PICK Shapes : loans \in Seq(Seq(Shapes)) /\ \A loan \in Shapes : DOMAIN loan = LoanFields
  BY DEF IInv, LoansShaped
<1>2. UserOf(w) \in 1..Len(loans)
  BY <1>1 DEF IInv, WalletsKnown
<1>3. loans[UserOf(w)] \in Seq(Shapes) /\ UserOf(w) \in DOMAIN loans
  BY <1>1, <1>2
<1>4. l + 1 \in 1..Len(loans[UserOf(w)])
  BY <1>3
<1>5. loans[UserOf(w)][l + 1] \in Shapes
  BY <1>3, <1>4
<1> QED BY <1>1, <1>3, <1>4, <1>5 DEF LoanOf

-----------------------------------------------------------------------------

LEMMA InitOneLoan == MicrocreditInit => IInv
<1> SUFFICES ASSUME MicrocreditInit PROVE IInv
  OBVIOUS
<1>1. loans = << >> /\ DOMAIN loans = {} /\ Len(loans) = 0
  BY DEF MicrocreditInit
<1>2. LoansShaped(loans)
  <2>1. << >> \in Seq(Seq({})) /\ \A loan \in {} : DOMAIN loan = LoanFields
    OBVIOUS
  <2> QED BY <2>1, <1>1 DEF LoansShaped
<1>3. WalletsTyped /\ WalletsKnown
  BY <1>1 DEF MicrocreditInit, WalletsTyped, WalletsKnown, UserOf
<1> QED BY <1>1, <1>2, <1>3 DEF IInv

LEMMA AddLoanKeeps ==
  ASSUME IInv, NEW m, NEW w \in Wallets, NEW amount, NEW interest, NEW deadline,
         AddLoan(m, w, amount, interest, deadline)
  PROVE  IInv'
<1> DEFINE loan == NewLoan(m, amount, interest, deadline)
<1>1. PICK Shapes : loans \in Seq(Seq(Shapes)) /\ \A l \in Shapes : DOMAIN l = LoanFields
  BY DEF IInv, LoansShaped
<1> DEFINE Wider == Shapes \cup {loan}
<1>2. \A l \in Wider : DOMAIN l = LoanFields
  BY <1>1 DEF NewLoan, LoanFields
<1>3. Seq(Shapes) \subseteq Seq(Wider) /\ loans \in Seq(Seq(Wider))
  BY <1>1, WiderSequence
<1>4. mended' = mended
  BY DEF AddLoan, history
<1>5. CASE UserOf(w) = 0
  <2>0. PICK new : new = Len(loans) + 1
    OBVIOUS
  <2>1. loans' = Append(loans, <<loan>>) /\ walletMetadata' = [walletMetadata EXCEPT ![w].userId = new]
    BY <2>0, <1>5 DEF AddLoan, usersLength
  <2>2. <<loan>> \in Seq(Wider)
    OBVIOUS
  <2>3. /\ loans' \in Seq(Seq(Wider)) /\ Len(loans') = new /\ DOMAIN loans' = DOMAIN loans \cup {new}
        /\ loans'[new] = <<loan>> /\ \A v \in DOMAIN loans : loans'[v] = loans[v]
    BY <1>3, <2>0, <2>1, <2>2
  <2>4. LoansShaped(loans')
    BY <1>2, <2>3 DEF LoansShaped
  <2>5. new \in Nat /\ new > 0
    BY <1>3, <2>0
  <2>5a. WalletsTyped'
    BY <2>1, <2>5 DEF IInv, WalletsTyped
  <2>6. /\ UserOf(w)' = new /\ \A v \in Wallets : v # w => UserOf(v)' = UserOf(v)
        /\ \A v \in Wallets : walletMetadata'[v].movedTo = walletMetadata[v].movedTo
    BY <2>1 DEF IInv, WalletsTyped, UserOf
  <2>8. walletMetadata[w].movedTo = None
    BY DEF AddLoan, MayBorrow
  <2>7. WalletsKnown'
    BY <1>3, <2>0, <2>3, <2>5, <2>6, <2>8 DEF IInv, WalletsKnown, WalletsTyped
  <2>9. \A v \in Wallets : UserOf(v) < new
    BY <1>3, <2>0 DEF IInv, WalletsKnown
  <2>10. AtOneWallet(new)'
    BY <2>5, <2>6, <2>8, <2>9 DEF AtOneWallet
  <2>11. \A u \in DOMAIN loans : u \in 1..Len(loans) /\ u # new /\ u # 0
    BY <1>3, <2>0
  <2>12. ASSUME NEW u \in DOMAIN loans PROVE AtOneWallet(u)'
    <3>1. PICK h \in Wallets : \A v \in Wallets : (UserOf(v) = u /\ walletMetadata[v].movedTo = None) <=> v = h
      BY DEF IInv, AtOneWallet
    <3>2. h # w
      BY <3>1, <1>5, <2>11
    <3>3. \A v \in Wallets : (UserOf(v)' = u /\ walletMetadata'[v].movedTo = None) <=> v = h
      BY <3>1, <3>2, <2>6, <2>11
    <3> QED BY <3>3 DEF AtOneWallet
  <2>13. EarlierEnded(new)'
    BY <2>3 DEF EarlierEnded
  <2>14. \A u \in DOMAIN loans : Unmended(u)' => EarlierEnded(u)'
    BY <2>3, <1>4 DEF IInv, Unmended, EarlierEnded
  <2> QED BY <2>3, <2>4, <2>5a, <2>7, <2>10, <2>12, <2>13, <2>14 DEF IInv
<1>6. CASE UserOf(w) # 0
  <2> DEFINE u == UserOf(w)
  <2>1. loans' = [loans EXCEPT ![u] = Append(loans[u], loan)] /\ walletMetadata' = walletMetadata
    BY <1>6 DEF AddLoan
  <2>2. u \in DOMAIN loans /\ u > 0
    BY <1>3, <1>6 DEF IInv, WalletsKnown
  <2>3. loans[u] \in Seq(Wider) /\ Append(loans[u], loan) \in Seq(Wider)
    BY <1>3, <2>2
  <2>4. loans' \in Seq(Seq(Wider)) /\ Len(loans') = Len(loans) /\ DOMAIN loans' = DOMAIN loans
    BY <1>3, <2>1, <2>2, <2>3
  <2>5. LoansShaped(loans')
    BY <1>2, <2>4 DEF LoansShaped
  <2>6. WalletsTyped' /\ WalletsKnown'
    BY <2>1, <2>4 DEF IInv, WalletsTyped, WalletsKnown, UserOf
  <2>6a. \A v \in DOMAIN loans' : AtOneWallet(v)'
    <3>1. \A v \in DOMAIN loans : AtOneWallet(v)
      BY DEF IInv
    <3>2. ASSUME NEW v \in DOMAIN loans PROVE AtOneWallet(v)'
      BY <3>1, <3>2, <2>1 DEF AtOneWallet, UserOf
    <3> QED BY <3>2, <2>4
  <2>7. loans[u] # << >> => Ended(loans[u][Len(loans[u])])
    BY <2>2 DEF AddLoan, MayBorrow
  <2>8. ASSUME NEW v \in DOMAIN loans, Unmended(v)' PROVE EarlierEnded(v)'
    <3>1. CASE v = u
      <4>1. /\ loans'[u] = Append(loans[u], loan) /\ Len(loans'[u]) = Len(loans[u]) + 1
            /\ DOMAIN loans[u] = 1..Len(loans[u]) /\ DOMAIN loans'[u] = 1..(Len(loans[u]) + 1)
            /\ \A i \in DOMAIN loans[u] : loans'[u][i] = loans[u][i]
        BY <2>1, <2>2, <2>3, <1>3
      <4>2. Unmended(u)
        BY <4>1, <3>1, <2>8, <1>4, <2>3 DEF Unmended
      <4>3. EarlierEnded(u)
        BY <4>2, <2>2 DEF IInv
      <4>4. Len(loans[u]) \in Nat
        BY <2>3
      <4>5. \A i \in DOMAIN loans[u] : Ended(loans[u][i])
        BY <4>1, <4>3, <4>4, <2>7 DEF EarlierEnded
      <4> QED BY <3>1, <4>1, <4>4, <4>5 DEF EarlierEnded
    <3>2. CASE v # u
      <4>1. loans'[v] = loans[v]
        BY <2>1, <3>2
      <4> QED BY <4>1, <2>8, <1>4 DEF IInv, Unmended, EarlierEnded
    <3> QED BY <3>1, <3>2
  <2> QED BY <2>4, <2>5, <2>6, <2>6a, <2>8 DEF IInv
<1> QED BY <1>5, <1>6

LEMMA ChangeUserAddressKeeps ==
  ASSUME IInv, NEW old \in Wallets, NEW new \in Wallets, ChangeUserAddress(old, new)
  PROVE  IInv'
<1> DEFINE user == UserOf(old)
<1>1. /\ user > 0 /\ user \in Nat /\ walletMetadata[old].movedTo = None
      /\ UserOf(new) = 0 /\ walletMetadata[new].movedTo = None /\ old # new
  BY DEF ChangeUserAddress, IInv, WalletsKnown, WalletsTyped, UserOf
<1>2. loans' = loans /\ mended' = mended
  BY DEF ChangeUserAddress, history
<1>3. walletMetadata' = [walletMetadata EXCEPT ![old].movedTo = new, ![new].userId = user]
  BY DEF ChangeUserAddress
<1>4. WalletsTyped'
  BY <1>1, <1>3 DEF IInv, WalletsTyped
<1>5. /\ UserOf(new)' = user /\ UserOf(old)' = user
      /\ walletMetadata'[old].movedTo = new /\ walletMetadata'[new].movedTo = None
      /\ \A v \in Wallets \ {old, new} : walletMetadata'[v] = walletMetadata[v]
  BY <1>1, <1>3 DEF IInv, WalletsTyped, UserOf
<1>6. new # None
  BY MicrocreditAssumption
<1>7. WalletsKnown'
  BY <1>1, <1>2, <1>5 DEF IInv, WalletsKnown, UserOf
<1>8. ASSUME NEW u \in DOMAIN loans PROVE AtOneWallet(u)'
  <2>1. PICK h \in Wallets : \A v \in Wallets : (UserOf(v) = u /\ walletMetadata[v].movedTo = None) <=> v = h
    BY DEF IInv, AtOneWallet
  <2>2. u # 0
    <3>1. PICK Shapes : loans \in Seq(Seq(Shapes))
      BY DEF IInv, LoansShaped
    <3> QED BY <3>1
  <2>3. CASE h = old
    <3>1. u = user /\ \A v \in Wallets : (UserOf(v)' = u /\ walletMetadata'[v].movedTo = None) <=> v = new
      BY <2>1, <2>3, <1>1, <1>5, <1>6 DEF UserOf
    <3> QED BY <3>1 DEF AtOneWallet
  <2>4. CASE h # old
    <3>1. u # user /\ h # new
      BY <2>1, <2>2, <2>4, <1>1
    <3>2. \A v \in Wallets : (UserOf(v)' = u /\ walletMetadata'[v].movedTo = None) <=> v = h
      BY <2>1, <2>4, <3>1, <1>1, <1>5 DEF UserOf
    <3> QED BY <3>2 DEF AtOneWallet
  <2> QED BY <2>3, <2>4
<1>9. LoansShaped(loans)' /\ \A u \in DOMAIN loans' : Unmended(u)' => EarlierEnded(u)'
  BY <1>2 DEF IInv, LoansShaped, Unmended, EarlierEnded
<1> QED BY <1>2, <1>4, <1>7, <1>8, <1>9 DEF IInv

\* Calls on one loan.
LEMMA CallOnLoan ==
  ASSUME IInv, NEW w \in Wallets, NEW l \in Nat, UserOf(w) > 0, l < Len(loans[UserOf(w)]),
         NEW loan, DOMAIN loan = LoanFields, SetLoan(w, l, loan),
         UNCHANGED walletMetadata, mended \subseteq mended',
         (Ended(LoanOf(w, l)) => Ended(loan)) \/ <<UserOf(w), l>> \in mended'
  PROVE  IInv'
<1> DEFINE u == UserOf(w)
           k == l + 1
<1>1. u \in DOMAIN loans /\ k \in DOMAIN loans[u] /\ k - 1 = l
  BY CalledLoan
<1>2. loans' = [loans EXCEPT ![u][k] = loan]
  BY DEF SetLoan
<1>3. (Ended(loans[u][k]) => Ended(loan)) \/ <<u, k - 1>> \in mended'
  BY <1>1 DEF LoanOf
<1> HIDE DEF u, k
<1> QED BY <1>1, <1>2, <1>3, OneLoanChanges

LEMMA CallsOnLoansKeep ==
  ASSUME IInv, NEW w \in Wallets, NEW l \in Nat, NEW x, NEW y, NEW z,
         \/ EditLoanClaimDeadline(w, l, x)
         \/ CancelLoan(w, l)
         \/ ClaimLoan(w, l)
         \/ RepayLoan(w, l, x)
         \/ SetManager(w, l, x)
         \/ EditLoan(w, l, x, y, z)
  PROVE  IInv'
<1> DEFINE loan == LoanOf(w, l)
<1>1. UserOf(w) > 0 /\ l < Len(loans[UserOf(w)])
  BY DEF EditLoanClaimDeadline, CancelLoan, ClaimLoan, RepayLoan, SetManager, EditLoan, LoanExists
<1>2. DOMAIN loan = LoanFields
  BY <1>1, CalledLoan
<1>3. CASE EditLoanClaimDeadline(w, l, x)
  <2> DEFINE changed == [loan EXCEPT !.claimDeadline = x]
  <2>1. SetLoan(w, l, changed) /\ DOMAIN changed = LoanFields /\ UNCHANGED walletMetadata
    BY <1>2, <1>3 DEF EditLoanClaimDeadline
  <2>2. mended \subseteq mended'
    BY <1>3 DEF EditLoanClaimDeadline
  <2>3. Ended(loan) => <<UserOf(w), l>> \in mended'
    BY <1>3 DEF EditLoanClaimDeadline, Ended
  <2> HIDE DEF changed
  <2> QED BY <1>1, <2>1, <2>2, <2>3, CallOnLoan
<1>4. CASE CancelLoan(w, l)
  <2> DEFINE changed == [loan EXCEPT !.claimDeadline = 0]
  <2>1. SetLoan(w, l, changed) /\ DOMAIN changed = LoanFields
    BY <1>2, <1>4 DEF CancelLoan
  <2>2. UNCHANGED walletMetadata /\ mended \subseteq mended'
    BY <1>4 DEF CancelLoan
  <2>3. Ended(changed)
    BY <1>2 DEF Ended, Canceled, LoanFields
  <2> HIDE DEF changed
  <2> QED BY <1>1, <2>1, <2>2, <2>3, CallOnLoan
<1>5. CASE ClaimLoan(w, l)
  <2> DEFINE changed == [loan EXCEPT !.startDate = time, !.lastComputedDate = time,
                           !.lastComputedDebt = WithInterest(loan.amountBorrowed, loan.dailyInterest)]
  <2>1. SetLoan(w, l, changed) /\ DOMAIN changed = LoanFields
    BY <1>2, <1>5 DEF ClaimLoan
  <2>2. UNCHANGED walletMetadata /\ mended \subseteq mended'
    BY <1>5 DEF ClaimLoan, history
  <2>3. ~Ended(loan)
    BY <1>5 DEF ClaimLoan, Ended
  <2> HIDE DEF changed
  <2> QED BY <1>1, <2>1, <2>2, <2>3, CallOnLoan
<1>6. CASE RepayLoan(w, l, x)
  <2> DEFINE amount == Smaller(x, CurrentDebt(loan))
             changed == [loan EXCEPT !.lastComputedDebt = CurrentDebt(loan) - amount,
                                     !.amountRepayed = @ + amount,
                                     !.lastComputedDate = @ + DaysSince(loan) * Day]
  <2>1. SetLoan(w, l, changed) /\ DOMAIN changed = LoanFields
    BY <1>2, <1>6 DEF RepayLoan
  <2>2. UNCHANGED walletMetadata /\ mended \subseteq mended'
    BY <1>6 DEF RepayLoan, history
  <2>3. loan.lastComputedDebt > 0
    BY <1>6 DEF RepayLoan
  <2>4. Ended(loan) => Canceled(loan)
    BY <2>3 DEF Ended
  <2>5. changed.claimDeadline = loan.claimDeadline
    BY <1>2 DEF LoanFields
  <2>6. Ended(loan) => Ended(changed)
    BY <2>4, <2>5 DEF Ended, Canceled
  <2> HIDE DEF changed
  <2> QED BY <1>1, <2>1, <2>2, <2>6, CallOnLoan
<1>7. CASE SetManager(w, l, x)
  <2> DEFINE changed == [loan EXCEPT !.managerAddress = x]
  <2>1. SetLoan(w, l, changed) /\ DOMAIN changed = LoanFields
    BY <1>2, <1>7 DEF SetManager
  <2>2. UNCHANGED walletMetadata /\ mended \subseteq mended'
    BY <1>7 DEF SetManager, Correction
  <2>3. Ended(loan) => Ended(changed)
    BY <1>2 DEF Ended, Canceled, LoanFields
  <2> HIDE DEF changed
  <2> QED BY <1>1, <2>1, <2>2, <2>3, CallOnLoan
<1>8. CASE EditLoan(w, l, x, y, z)
  <2> DEFINE changed == [loan EXCEPT !.dailyInterest = x, !.lastComputedDebt = y, !.lastComputedDate = z]
  <2>1. SetLoan(w, l, changed) /\ DOMAIN changed = LoanFields
    BY <1>2, <1>8 DEF EditLoan
  <2>2. UNCHANGED walletMetadata /\ mended \subseteq mended' /\ <<UserOf(w), l>> \in mended'
    BY <1>8 DEF EditLoan, Correction
  <2> HIDE DEF changed
  <2> QED BY <1>1, <2>1, <2>2, CallOnLoan
<1> QED BY <1>3, <1>4, <1>5, <1>6, <1>7, <1>8

\* Nothing else touches users or loans.
LEMMA OthersKeep ==
  ASSUME IInv, UNCHANGED <<loans, walletMetadata, mended>>
  PROVE  IInv'
BY DEF IInv, LoansShaped, WalletsTyped, WalletsKnown, AtOneWallet, Unmended, EarlierEnded, UserOf

LEMMA StepKeepsOneLoan == IInv /\ [MicrocreditNext]_microcreditVars => IInv'
<1> SUFFICES ASSUME IInv, [MicrocreditNext]_microcreditVars PROVE IInv'
  OBVIOUS
<1>1. LoanIds \subseteq Nat
  BY MicrocreditAssumption DEF LoanIds
<1>2. CASE Transaction
  <2>1. CASE \E m \in Managers, limit \in Limits : AddManager(m, limit)
    BY <2>1, OthersKeep DEF AddManager, history
  <2>2. CASE \E m \in Managers : RemoveManager(m)
    BY <2>2, OthersKeep DEF RemoveManager, history
  <2>3. CASE \E m \in Managers, w \in Wallets, a \in LoanAmounts, i \in Interests, d \in Deadlines :
               AddLoan(m, w, a, i, d)
    BY <2>3, AddLoanKeeps
  <2>4. CASE \E w \in Wallets, l \in LoanIds, d \in Deadlines : EditLoanClaimDeadline(w, l, d)
    BY <2>4, <1>1, CallsOnLoansKeep
  <2>5. CASE \E w \in Wallets, l \in LoanIds : CancelLoan(w, l) \/ ClaimLoan(w, l)
    BY <2>5, <1>1, CallsOnLoansKeep
  <2>6. CASE \E old, new \in Wallets : ChangeUserAddress(old, new)
    BY <2>6, ChangeUserAddressKeeps
  <2>7. CASE \E w \in Wallets, l \in LoanIds, a \in RepaymentAmounts : RepayLoan(w, l, a)
    BY <2>7, <1>1, CallsOnLoansKeep
  <2>8. CASE \E w \in Wallets, l \in LoanIds, m \in Managers : SetManager(w, l, m)
    BY <2>8, <1>1, CallsOnLoansKeep
  <2>9. CASE \E w \in Wallets, l \in LoanIds, i \in Interests, debt \in Corrections, date \in 1..time :
               EditLoan(w, l, i, debt, date)
    BY <2>9, <1>1, CallsOnLoansKeep
  <2>10. CASE \E miner \in {None, "accepts", "refuses"} : UpdateDonationMiner(miner)
    BY <2>10, OthersKeep DEF UpdateDonationMiner, history
  <2> QED BY <1>2, <2>1, <2>2, <2>3, <2>4, <2>5, <2>6, <2>7, <2>8, <2>9, <2>10 DEF Transaction
<1>3. CASE TimePasses
  BY <1>3, OthersKeep DEF TimePasses, history
<1>4. CASE UNCHANGED microcreditVars
  BY <1>4, OthersKeep DEF microcreditVars, history
<1> QED BY <1>2, <1>3, <1>4 DEF MicrocreditNext

\* A user is at one wallet and has one loan at a time, whatever is called, but for users
\* whose loans were brought back or edited.
THEOREM BorrowersHaveOneLoan == MicrocreditSpec => []OneLoanAtATime
<1>1. MicrocreditInit => IInv
  BY InitOneLoan
<1>2. IInv /\ [MicrocreditNext]_microcreditVars => IInv'
  BY StepKeepsOneLoan
<1>3. IInv => OneLoanAtATime
  BY OneLoanFollows
<1> QED BY <1>1, <1>2, <1>3, PTL DEF MicrocreditSpec

(***************************************************************************)
(* Debts: interest is added day by day and takes nothing away.              *)
(***************************************************************************)
\* Loans with numbers.
Loan ==
  [amountBorrowed : Nat, dailyInterest : Nat, claimDeadline : Nat, startDate : Nat,
   lastComputedDebt : Nat, lastComputedDate : Nat, amountRepayed : Nat, managerAddress : Managers]

\* Interest never lowers a debt.
LEMMA InterestGrows ==
  ASSUME NEW debt \in Nat, NEW interest \in Nat
  PROVE  WithInterest(debt, interest) \in Nat /\ WithInterest(debt, interest) >= debt
<1>1. PICK p \in Nat : p = debt * interest
  OBVIOUS
<1>2. debt * (100 + interest) = 100 * debt + p
  BY <1>1
<1>3. (100 * debt + p) \div 100 \in Nat /\ (100 * debt + p) \div 100 >= debt
  OBVIOUS
<1> QED BY <1>2, <1>3 DEF WithInterest

\* The debts of a loan, day by day.
AreDebts(f, loan, n) ==
  f = [k \in 0..n |-> IF k = 0 THEN loan.lastComputedDebt ELSE WithInterest(f[k - 1], loan.dailyInterest)]

LEMMA DebtsExist ==
  ASSUME NEW loan
  PROVE  \A n \in Nat : \E f : AreDebts(f, loan, n)
<1> DEFINE P == {n \in Nat : \E f : AreDebts(f, loan, n)}
<1>1. 0 \in P
  <2> DEFINE f == [k \in 0..0 |-> loan.lastComputedDebt]
  <2>1. AreDebts(f, loan, 0)
    BY DEF AreDebts
  <2> QED BY <2>1
<1>2. ASSUME NEW n \in Nat, n \in P PROVE n + 1 \in P
  <2>1. PICK f : AreDebts(f, loan, n)
    BY <1>2
  <2>2. /\ \A k \in 0..n : k = 0 => f[k] = loan.lastComputedDebt
        /\ \A k \in 0..n : k # 0 => f[k] = WithInterest(f[k - 1], loan.dailyInterest)
    BY <2>1 DEF AreDebts
  <2> DEFINE g == [k \in 0..(n + 1) |-> IF k = n + 1 THEN WithInterest(f[n], loan.dailyInterest) ELSE f[k]]
  <2>3. ASSUME NEW k \in 0..(n + 1)
        PROVE  g[k] = IF k = 0 THEN loan.lastComputedDebt ELSE WithInterest(g[k - 1], loan.dailyInterest)
    <3>1. CASE k = n + 1
      BY <3>1
    <3>2. CASE k = 0
      BY <2>2, <3>2
    <3>3. CASE k # 0 /\ k # n + 1
      <4>1. k \in 0..n /\ k - 1 \in 0..n /\ k - 1 # n + 1 /\ k - 1 \in 0..(n + 1)
        BY <3>3
      <4>2. g[k] = f[k] /\ g[k - 1] = f[k - 1]
        BY <3>3, <4>1
      <4> HIDE DEF g
      <4> QED BY <2>2, <3>3, <4>1, <4>2
    <3> QED BY <3>1, <3>2, <3>3
  <2>4. AreDebts(g, loan, n + 1)
    <3> DEFINE h == [k \in 0..(n + 1) |-> IF k = 0 THEN loan.lastComputedDebt ELSE WithInterest(g[k - 1], loan.dailyInterest)]
    <3>1. g \in [0..(n + 1) -> {g[k] : k \in 0..(n + 1)}] /\ DOMAIN g = 0..(n + 1)
      OBVIOUS
    <3>2. \A k \in 0..(n + 1) : g[k] = h[k]
      BY <2>3
    <3>3. g = [k \in 0..(n + 1) |-> g[k]]
      OBVIOUS
    <3> HIDE DEF g
    <3>4. g = h
      BY <3>2, <3>3
    <3> QED BY <3>4 DEF AreDebts
  <2> QED BY <2>4
<1> HIDE DEF P
<1>3. Nat \subseteq P
  BY <1>1, <1>2, NaturalInduction
<1> QED BY <1>3 DEF P

\* Time adds interest and takes nothing away.
LEMMA DebtGrows ==
  ASSUME NEW loan \in Loan, DaysSince(loan) \in Nat
  PROVE  CurrentDebt(loan) \in Nat /\ CurrentDebt(loan) >= loan.lastComputedDebt
<1> DEFINE days == DaysSince(loan)
           f == CHOOSE g : AreDebts(g, loan, days)
<1>1. AreDebts(f, loan, days)
  BY DebtsExist
<1>2. CurrentDebt(loan) = f[days]
  BY DEF CurrentDebt, AreDebts
<1> HIDE DEF f, days
<1>3. days \in Nat
  BY DEF days
<1>4. /\ \A k \in 0..days : k = 0 => f[k] = loan.lastComputedDebt
      /\ \A k \in 0..days : k # 0 => f[k] = WithInterest(f[k - 1], loan.dailyInterest)
  BY <1>1 DEF AreDebts
<1> DEFINE P == {k \in Nat : k <= days => f[k] \in Nat /\ f[k] >= loan.lastComputedDebt}
<1>5. loan.lastComputedDebt \in Nat /\ loan.dailyInterest \in Nat
  BY DEF Loan
<1>6. 0 \in P
  BY <1>3, <1>4, <1>5
<1>7. ASSUME NEW k \in Nat, k \in P PROVE k + 1 \in P
  <2>1. CASE k + 1 <= days
    <3>1. f[k] \in Nat /\ f[k] >= loan.lastComputedDebt
      BY <1>3, <1>7, <2>1
    <3>2. k + 1 \in 0..days /\ k + 1 # 0 /\ (k + 1) - 1 = k
      BY <1>3, <2>1
    <3>3. f[k + 1] = WithInterest(f[k], loan.dailyInterest)
      BY <1>4, <3>2
    <3>4. f[k + 1] \in Nat /\ f[k + 1] >= f[k]
      BY <1>5, <3>1, <3>3, InterestGrows
    <3>5. f[k + 1] >= loan.lastComputedDebt
      BY <1>5, <3>1, <3>4
    <3> QED BY <3>4, <3>5
  <2>2. CASE ~(k + 1 <= days)
    BY <2>2
  <2> QED BY <2>1, <2>2
<1> HIDE DEF P
<1>8. Nat \subseteq P
  BY <1>6, <1>7, NaturalInduction
<1> QED BY <1>2, <1>3, <1>8 DEF P

LEMMA DaysPass ==
  ASSUME NEW date \in Nat, time \in Nat, date <= time
  PROVE  /\ (time - date) \div Day \in Nat
         /\ date + ((time - date) \div Day) * Day \in Nat
         /\ date + ((time - date) \div Day) * Day <= time
<1>1. Day \in Nat /\ Day > 0
  BY MicrocreditAssumption
<1>2. PICK x \in Nat : x = time - date
  OBVIOUS
<1>3. x \div Day \in Nat /\ (x \div Day) * Day <= x
  BY <1>1
<1>4. PICK q \in Nat : q = x \div Day
  BY <1>3
<1>5. PICK r \in Nat : r = q * Day
  BY <1>1
<1>6. r <= x
  BY <1>3, <1>4, <1>5
<1> QED BY <1>2, <1>4, <1>5, <1>6

(***************************************************************************)
(* Sums over all loans.                                                     *)
(***************************************************************************)
\* Sums over all loans, of sequences of sequences of loans.
IdsOf(ls) == {id \in (1..Len(ls)) \X LoanIds : id[2] < Len(ls[id[1]])}
LoanAt(ls, id) == ls[id[1]][id[2] + 1]
UnpaidTo(loan, m) == IF loan.managerAddress = m THEN Unpaid(loan) ELSE 0

TotalUnpaid(ls, m) == SumFunctionOnSet([id \in IdsOf(ls) |-> UnpaidTo(LoanAt(ls, id), m)], IdsOf(ls))
TotalLent(ls) == SumFunctionOnSet([id \in IdsOf(ls) |-> Lent(LoanAt(ls, id))], IdsOf(ls))
TotalGained(ls) == SumFunctionOnSet([id \in IdsOf(ls) |-> Gained(LoanAt(ls, id))], IdsOf(ls))

Fits(ls) == ls \in Seq(Seq(Loan)) /\ \A u \in DOMAIN ls : Len(ls[u]) <= MaxLoans

LEMMA AmountsNat ==
  ASSUME NEW loan \in Loan, NEW m
  PROVE  Unpaid(loan) \in Nat /\ UnpaidTo(loan, m) \in Nat /\ Lent(loan) \in Nat /\ Gained(loan) \in Nat
BY DEF Loan, Unpaid, UnpaidTo, Lent, Gained, Excess

LEMMA IdsFinite ==
  ASSUME NEW ls, Fits(ls)
  PROVE  /\ IsFiniteSet(IdsOf(ls))
         /\ \A id \in IdsOf(ls) : LoanAt(ls, id) \in Loan
<1>1. Len(ls) \in Nat /\ MaxLoans - 1 \in Int
  BY MicrocreditAssumption DEF Fits
<1>2. IsFiniteSet(1..Len(ls)) /\ IsFiniteSet(LoanIds)
  BY <1>1, FS_Interval DEF LoanIds
<1>3. IsFiniteSet((1..Len(ls)) \X LoanIds)
  BY <1>2, FS_Product
<1>4. IsFiniteSet(IdsOf(ls))
  BY <1>3, FS_Subset DEF IdsOf
<1>5. ASSUME NEW id \in IdsOf(ls) PROVE LoanAt(ls, id) \in Loan
  <2>1. /\ id[1] \in 1..Len(ls) /\ id[2] \in Nat /\ id[2] < Len(ls[id[1]])
    BY MicrocreditAssumption DEF IdsOf, LoanIds
  <2>2. ls[id[1]] \in Seq(Loan)
    BY <2>1 DEF Fits
  <2>3. id[2] + 1 \in 1..Len(ls[id[1]])
    BY <2>1, <2>2
  <2> QED BY <2>2, <2>3 DEF LoanAt
<1> QED BY <1>4, <1>5

\* A call changes one loan.
Changed(ls, u, l, loan) == [ls EXCEPT ![u][l + 1] = loan]

LEMMA IdsChange ==
  ASSUME NEW ls, Fits(ls), NEW u \in DOMAIN ls, NEW l \in Nat, l < Len(ls[u]), NEW loan \in Loan,
         NEW new, new = Changed(ls, u, l, loan)
  PROVE  /\ Fits(new) /\ IdsOf(new) = IdsOf(ls) /\ <<u, l>> \in IdsOf(ls)
         /\ LoanAt(new, <<u, l>>) = loan
         /\ \A id \in IdsOf(ls) : id # <<u, l>> => LoanAt(new, id) = LoanAt(ls, id)
<1>1. ls[u] \in Seq(Loan) /\ Len(ls[u]) <= MaxLoans /\ u \in 1..Len(ls) /\ DOMAIN ls = 1..Len(ls)
  BY DEF Fits
<1>2. l + 1 \in 1..Len(ls[u])
  BY <1>1
<1> DEFINE row == [ls[u] EXCEPT ![l + 1] = loan]
<1>3. row \in Seq(Loan) /\ Len(row) = Len(ls[u]) /\ row[l + 1] = loan
  BY <1>1, <1>2
<1>3a. \A k \in Nat : k # l + 1 => row[k] = ls[u][k]
  BY <1>1, <1>2
<1>4. new = [ls EXCEPT ![u] = row]
  BY DEF Changed
<1> HIDE DEF row
<1>5. /\ new \in Seq(Seq(Loan)) /\ Len(new) = Len(ls) /\ DOMAIN new = DOMAIN ls
      /\ new[u] = row /\ \A v \in DOMAIN ls : v # u => new[v] = ls[v]
  BY <1>3, <1>4 DEF Fits
<1>6. \A v \in DOMAIN ls : Len(new[v]) = Len(ls[v])
  BY <1>3, <1>5
<1>7. Fits(new)
  BY <1>5, <1>6 DEF Fits
<1>8. IdsOf(new) = IdsOf(ls)
  BY <1>1, <1>5, <1>6 DEF IdsOf
<1>9. <<u, l>> \in IdsOf(ls)
  <2>1. Len(ls[u]) \in Nat
    BY <1>1
  <2>2. l \in LoanIds
    BY <2>1, <1>1, MicrocreditAssumption DEF LoanIds
  <2> QED BY <1>1, <2>2 DEF IdsOf
<1>10. LoanAt(new, <<u, l>>) = loan
  BY <1>3, <1>5 DEF LoanAt
<1>11. ASSUME NEW id \in IdsOf(ls), id # <<u, l>> PROVE LoanAt(new, id) = LoanAt(ls, id)
  <2>1. id[1] \in DOMAIN ls /\ id[2] \in Nat /\ id = <<id[1], id[2]>>
    BY <1>1, MicrocreditAssumption DEF IdsOf, LoanIds
  <2>2. CASE id[1] = u
    BY <1>3a, <1>5, <1>11, <2>1, <2>2 DEF LoanAt
  <2>3. CASE id[1] # u
    BY <1>5, <2>1, <2>3 DEF LoanAt
  <2> QED BY <2>2, <2>3
<1> QED BY <1>7, <1>8, <1>9, <1>10, <1>11

\* The numbers of loans are pairs of a user and a position.
LEMMA IdsMember ==
  ASSUME NEW ls, Fits(ls)
  PROVE  /\ \A u, l : <<u, l>> \in IdsOf(ls) <=> u \in 1..Len(ls) /\ l \in Nat /\ l < Len(ls[u])
         /\ \A id \in IdsOf(ls) : \E u, l : id = <<u, l>>
<1>1. ASSUME NEW u, NEW l PROVE <<u, l>> \in IdsOf(ls) <=> u \in 1..Len(ls) /\ l \in Nat /\ l < Len(ls[u])
  <2>1. CASE u \in 1..Len(ls)
    <3>1. Len(ls[u]) \in Nat /\ Len(ls[u]) <= MaxLoans
      BY <2>1 DEF Fits
    <3>2. l \in LoanIds /\ l < Len(ls[u]) <=> l \in Nat /\ l < Len(ls[u])
      BY <3>1, MicrocreditAssumption DEF LoanIds
    <3> QED BY <2>1, <3>2 DEF IdsOf
  <2>2. CASE u \notin 1..Len(ls)
    BY <2>2 DEF IdsOf
  <2> QED BY <2>1, <2>2
<1>2. \A id \in IdsOf(ls) : id = <<id[1], id[2]>>
  BY DEF IdsOf
<1> QED BY <1>1, <1>2

\* A loan joins: a user's next one, or the first one of a new user.
GrowsTo(ls, new, u, l, loan) ==
  /\ Fits(ls) /\ Fits(new) /\ u \in Nat /\ l \in Nat
  /\ u \in 1..Len(new) /\ Len(new[u]) = l + 1 /\ new[u][l + 1] = loan
  /\ \A v \in Nat : v # u => (v \in 1..Len(new) <=> v \in 1..Len(ls)) /\ (v \in 1..Len(ls) => new[v] = ls[v])
  /\ u \in 1..Len(ls) => Len(ls[u]) = l /\ \A k \in 1..l : new[u][k] = ls[u][k]
  /\ u \notin 1..Len(ls) => l = 0

\* What that means for the numbers of loans.
Grown(ls, new, id, loan) ==
  /\ id \notin IdsOf(ls) /\ IdsOf(new) = IdsOf(ls) \cup {id} /\ LoanAt(new, id) = loan
  /\ \A old \in IdsOf(ls) : LoanAt(new, old) = LoanAt(ls, old)

LEMMA IdsGrowTo ==
  ASSUME NEW ls, NEW new, NEW u, NEW l, NEW loan, GrowsTo(ls, new, u, l, loan)
  PROVE  Grown(ls, new, <<u, l>>, loan)
<1>0. /\ Fits(ls) /\ Fits(new) /\ u \in Nat /\ l \in Nat
      /\ u \in 1..Len(new) /\ Len(new[u]) = l + 1 /\ new[u][l + 1] = loan
      /\ \A v \in Nat : v # u => (v \in 1..Len(new) <=> v \in 1..Len(ls)) /\ (v \in 1..Len(ls) => new[v] = ls[v])
      /\ u \in 1..Len(ls) => Len(ls[u]) = l /\ \A k \in 1..l : new[u][k] = ls[u][k]
      /\ u \notin 1..Len(ls) => l = 0
  BY DEF GrowsTo
<1>1. <<u, l>> \notin IdsOf(ls)
  BY <1>0, IdsMember
<1>2. <<u, l>> \in IdsOf(new)
  BY <1>0, IdsMember
<1>3. ASSUME NEW v, NEW k, <<v, k>> \in IdsOf(ls)
      PROVE  <<v, k>> \in IdsOf(new) /\ LoanAt(new, <<v, k>>) = LoanAt(ls, <<v, k>>)
  <2>1. v \in 1..Len(ls) /\ k \in Nat /\ k < Len(ls[v])
    BY <1>0, <1>3, IdsMember
  <2>2. CASE v = u
    <3>1. k < l /\ k + 1 \in 1..l /\ k < Len(new[u])
      BY <1>0, <2>1, <2>2
    <3> QED BY <1>0, <2>1, <2>2, <3>1, IdsMember DEF LoanAt
  <2>3. CASE v # u
    <3>1. v \in Nat
      BY <1>0, <2>1
    <3>2. v \in 1..Len(new) /\ new[v] = ls[v]
      BY <1>0, <2>1, <2>3, <3>1
    <3> QED BY <1>0, <2>1, <3>2, IdsMember DEF LoanAt
  <2> QED BY <1>0, <2>2, <2>3
<1>4. ASSUME NEW v, NEW k, <<v, k>> \in IdsOf(new), <<v, k>> # <<u, l>> PROVE <<v, k>> \in IdsOf(ls)
  <2>1. v \in 1..Len(new) /\ k \in Nat /\ k < Len(new[v]) /\ v \in Nat
    BY <1>0, <1>4, IdsMember
  <2>2. CASE v = u
    <3>1. k < l
      BY <1>0, <1>4, <2>1, <2>2
    <3>2. u \in 1..Len(ls) /\ Len(ls[u]) = l
      BY <1>0, <2>1, <3>1
    <3>3. <<u, k>> \in IdsOf(ls)
      BY <1>0, <2>1, <3>1, <3>2, IdsMember
    <3> QED BY <1>0, <2>2, <3>3
  <2>3. CASE v # u
    <3>1. v \in 1..Len(ls) /\ new[v] = ls[v]
      BY <1>0, <2>1, <2>3
    <3> QED BY <1>0, <2>1, <3>1, IdsMember
  <2> QED BY <1>0, <2>2, <2>3
<1>5. IdsOf(new) \subseteq IdsOf(ls) \cup {<<u, l>>}
  BY <1>0, <1>4, IdsMember
<1>6. /\ IdsOf(ls) \subseteq IdsOf(new)
      /\ \A old \in IdsOf(ls) : LoanAt(new, old) = LoanAt(ls, old)
  BY <1>0, <1>3, IdsMember
<1>7. LoanAt(new, <<u, l>>) = loan
  BY <1>0 DEF LoanAt
<1> QED BY <1>1, <1>2, <1>5, <1>6, <1>7 DEF Grown

Lengthened(ls, loan, new) ==
  \/ new = Append(ls, <<loan>>)
  \/ \E u \in DOMAIN ls : Len(ls[u]) < MaxLoans /\ new = [ls EXCEPT ![u] = Append(ls[u], loan)]

LEMMA IdsGrow ==
  ASSUME NEW ls, Fits(ls), NEW loan \in Loan, NEW new, Lengthened(ls, loan, new)
  PROVE  /\ Fits(new)
         /\ \E id : Grown(ls, new, id, loan)
<1>0. Len(ls) \in Nat /\ DOMAIN ls = 1..Len(ls) /\ ls \in Seq(Seq(Loan))
  BY DEF Fits
<1>1. CASE new = Append(ls, <<loan>>)
  <2>1. <<loan>> \in Seq(Loan) /\ Len(<<loan>>) = 1 /\ <<loan>>[1] = loan
    OBVIOUS
  <2>2. PICK u \in Nat : u = Len(ls) + 1
    BY <1>0
  <2>3. PICK row : row = <<loan>>
    OBVIOUS
  <2>4. /\ new \in Seq(Seq(Loan)) /\ Len(new) = u /\ DOMAIN new = 1..u
        /\ new[u] = row /\ \A v \in 1..Len(ls) : new[v] = ls[v]
    BY <1>0, <1>1, <2>1, <2>2, <2>3
  <2>5. \A v \in 1..u : v = u \/ v \in 1..Len(ls)
    BY <1>0, <2>2
  <2>6. MaxLoans >= 1
    BY MicrocreditAssumption
  <2>7. ASSUME NEW v \in DOMAIN new PROVE Len(new[v]) <= MaxLoans
    <3>1. CASE v = u
      BY <2>1, <2>3, <2>4, <2>6, <3>1
    <3>2. CASE v \in 1..Len(ls)
      BY <1>0, <2>4, <3>2 DEF Fits
    <3> QED BY <2>4, <2>5, <3>1, <3>2
  <2>8. Fits(new)
    BY <2>4, <2>7 DEF Fits
  <2>9. u \in 1..Len(new) /\ u \notin 1..Len(ls)
    <3>1. u \in 1..u /\ u \notin 1..Len(ls)
      BY <1>0, <2>2
    <3> QED BY <3>1, <2>4
  <2>9a. Len(new[u]) = 0 + 1 /\ new[u][0 + 1] = loan
    BY <2>1, <2>3, <2>4
  <2>10. \A v \in Nat : v # u => (v \in 1..Len(new) <=> v \in 1..Len(ls)) /\ (v \in 1..Len(ls) => new[v] = ls[v])
    <3>1. \A v \in Nat : v # u => (v \in 1..u <=> v \in 1..Len(ls))
      BY <1>0, <2>2
    <3> QED BY <3>1, <2>4
  <2>11. Grown(ls, new, <<u, 0>>, loan)
    <3>1. PICK l \in Nat : l = 0
      OBVIOUS
    <3>2. u \in Nat /\ Fits(ls)
      OBVIOUS
    <3>3. Len(new[u]) = l + 1 /\ new[u][l + 1] = loan
      BY <2>9a, <3>1
    <3>4. /\ u \in 1..Len(ls) => Len(ls[u]) = l /\ \A k \in 1..l : new[u][k] = ls[u][k]
          /\ u \notin 1..Len(ls) => l = 0
      BY ONLY <3>1, <2>9
    <3>5. l \in Nat /\ u \in 1..Len(new)
      BY ONLY <3>1, <2>9
    <3>6. Grown(ls, new, <<u, l>>, loan)
      <4>1. GrowsTo(ls, new, u, l, loan)
        BY <3>2, <3>3, <3>4, <3>5, <2>8, <2>10 DEF GrowsTo
      <4> QED BY ONLY <4>1, IdsGrowTo
    <3> QED BY ONLY <3>1, <3>6
  <2> QED BY ONLY <2>8, <2>11
<1>2. CASE \E u \in DOMAIN ls : Len(ls[u]) < MaxLoans /\ new = [ls EXCEPT ![u] = Append(ls[u], loan)]
  <2>1. PICK u \in DOMAIN ls : Len(ls[u]) < MaxLoans /\ new = [ls EXCEPT ![u] = Append(ls[u], loan)]
    BY <1>2
  <2>1a. ls[u] \in Seq(Loan) /\ u \in 1..Len(ls) /\ u \in Nat
    <3>1. u \in 1..Len(ls)
      BY ONLY <1>0, u \in DOMAIN ls
    <3> QED BY ONLY <1>0, <3>1
  <2>2. PICK l \in Nat : l = Len(ls[u])
    BY <2>1a
  <2>3. PICK row : row = Append(ls[u], loan)
    OBVIOUS
  <2>4. /\ row \in Seq(Loan) /\ Len(row) = l + 1 /\ row[l + 1] = loan
        /\ \A k \in 1..l : row[k] = ls[u][k]
    BY <2>1a, <2>2, <2>3
  <2>5. /\ new \in Seq(Seq(Loan)) /\ Len(new) = Len(ls) /\ DOMAIN new = DOMAIN ls
        /\ new[u] = row /\ \A v \in DOMAIN ls : v # u => new[v] = ls[v]
    <3>1. new = [ls EXCEPT ![u] = row]
      BY <2>1, <2>3
    <3> QED BY ONLY <1>0, <2>1a, <2>4, <3>1
  <2>6. l + 1 <= MaxLoans
    BY <2>1, <2>2, MicrocreditAssumption
  <2>7. ASSUME NEW v \in DOMAIN new PROVE Len(new[v]) <= MaxLoans
    <3>1. CASE v = u
      BY <2>4, <2>5, <2>6, <3>1
    <3>2. CASE v # u
      BY <2>5, <3>2 DEF Fits
    <3> QED BY <3>1, <3>2
  <2>8. Fits(new)
    BY <2>5, <2>7 DEF Fits
  <2>9. /\ u \in 1..Len(new) /\ Len(new[u]) = l + 1 /\ new[u][l + 1] = loan /\ u \in 1..Len(ls)
        /\ Len(ls[u]) = l /\ \A k \in 1..l : new[u][k] = ls[u][k]
    BY <2>1a, <2>2, <2>4, <2>5
  <2>10. \A v \in Nat : v # u => (v \in 1..Len(new) <=> v \in 1..Len(ls)) /\ (v \in 1..Len(ls) => new[v] = ls[v])
    BY <1>0, <2>5
  <2>11. Grown(ls, new, <<u, l>>, loan)
    <3>1. l \in Nat /\ u \in Nat /\ Fits(ls)
      BY <2>1a
    <3>2. GrowsTo(ls, new, u, l, loan)
      BY <3>1, <2>8, <2>9, <2>10 DEF GrowsTo
    <3> QED BY ONLY <3>2, IdsGrowTo
  <2> QED BY ONLY <2>8, <2>11
<1> QED BY <1>1, <1>2 DEF Lengthened

\* What the loans add up to after a change of one of them, and with another one.
LEMMA TotalsChange ==
  ASSUME NEW ls, Fits(ls), NEW u \in DOMAIN ls, NEW l \in Nat, l < Len(ls[u]), NEW loan \in Loan,
         NEW new, new = Changed(ls, u, l, loan), NEW old, old = LoanAt(ls, <<u, l>>)
  PROVE  /\ \A m : TotalUnpaid(new, m) = TotalUnpaid(ls, m) - UnpaidTo(old, m) + UnpaidTo(loan, m)
         /\ TotalLent(new) = TotalLent(ls) - Lent(old) + Lent(loan)
         /\ TotalGained(new) = TotalGained(ls) - Gained(old) + Gained(loan)
<1>0. PICK id : id = <<u, l>>
  OBVIOUS
<1>1. /\ Fits(new) /\ IdsOf(new) = IdsOf(ls) /\ <<u, l>> \in IdsOf(ls)
      /\ LoanAt(new, <<u, l>>) = loan
      /\ \A i \in IdsOf(ls) : i # <<u, l>> => LoanAt(new, i) = LoanAt(ls, i)
  BY IdsChange
<1>2. /\ Fits(new) /\ IdsOf(new) = IdsOf(ls) /\ id \in IdsOf(ls) /\ LoanAt(new, id) = loan /\ LoanAt(ls, id) = old
      /\ \A i \in IdsOf(ls) : i # id => LoanAt(new, i) = LoanAt(ls, i)
  BY <1>0, <1>1
<1>3. /\ IsFiniteSet(IdsOf(ls)) /\ \A i \in IdsOf(ls) : LoanAt(ls, i) \in Loan /\ LoanAt(new, i) \in Loan
  BY <1>2, IdsFinite
<1>4. ASSUME NEW m PROVE TotalUnpaid(new, m) = TotalUnpaid(ls, m) - UnpaidTo(old, m) + UnpaidTo(loan, m)
  <2> DEFINE f == [i \in IdsOf(ls) |-> UnpaidTo(LoanAt(ls, i), m)]
             g == [i \in IdsOf(ls) |-> UnpaidTo(LoanAt(new, i), m)]
  <2>1. \A i \in IdsOf(ls) : f[i] \in Int /\ g[i] \in Int /\ (i # id => g[i] = f[i])
    <3>1. ASSUME NEW i \in IdsOf(ls) PROVE f[i] \in Int /\ g[i] \in Int
      <4>1. LoanAt(ls, i) \in Loan /\ LoanAt(new, i) \in Loan
        BY <1>3
      <4> QED BY <4>1, AmountsNat
    <3>2. \A i \in IdsOf(ls) : i # id => g[i] = f[i]
      BY <1>2
    <3> QED BY <3>1, <3>2
  <2>2. f[id] = UnpaidTo(old, m) /\ g[id] = UnpaidTo(loan, m)
    BY <1>2
  <2>3. TotalUnpaid(ls, m) = SumFunctionOnSet(f, IdsOf(ls)) /\ TotalUnpaid(new, m) = SumFunctionOnSet(g, IdsOf(ls))
    BY <1>2 DEF TotalUnpaid
  <2> HIDE DEF f, g
  <2>4. SumFunctionOnSet(g, IdsOf(ls)) = SumFunctionOnSet(f, IdsOf(ls)) - f[id] + g[id]
    <3>1. PICK S : S = IdsOf(ls)
      OBVIOUS
    <3>2. IsFiniteSet(S) /\ id \in S /\ \A i \in S : f[i] \in Int /\ g[i] \in Int /\ (i # id => g[i] = f[i])
      BY <1>2, <1>3, <2>1, <3>1
    <3>3. SumFunctionOnSet(g, S) = SumFunctionOnSet(f, S) - f[id] + g[id]
      BY ONLY <3>2, SumChange
    <3> QED BY <3>1, <3>3
  <2> QED BY <2>2, <2>3, <2>4
<1>5. TotalLent(new) = TotalLent(ls) - Lent(old) + Lent(loan)
  <2> DEFINE f == [i \in IdsOf(ls) |-> Lent(LoanAt(ls, i))]
             g == [i \in IdsOf(ls) |-> Lent(LoanAt(new, i))]
  <2>1. \A i \in IdsOf(ls) : f[i] \in Int /\ g[i] \in Int /\ (i # id => g[i] = f[i])
    <3>1. ASSUME NEW i \in IdsOf(ls) PROVE f[i] \in Int /\ g[i] \in Int
      <4>1. LoanAt(ls, i) \in Loan /\ LoanAt(new, i) \in Loan
        BY <1>3
      <4> QED BY <4>1, AmountsNat
    <3>2. \A i \in IdsOf(ls) : i # id => g[i] = f[i]
      BY <1>2
    <3> QED BY <3>1, <3>2
  <2>2. f[id] = Lent(old) /\ g[id] = Lent(loan)
    BY <1>2
  <2>3. TotalLent(ls) = SumFunctionOnSet(f, IdsOf(ls)) /\ TotalLent(new) = SumFunctionOnSet(g, IdsOf(ls))
    BY <1>2 DEF TotalLent
  <2> HIDE DEF f, g
  <2>4. SumFunctionOnSet(g, IdsOf(ls)) = SumFunctionOnSet(f, IdsOf(ls)) - f[id] + g[id]
    <3>1. PICK S : S = IdsOf(ls)
      OBVIOUS
    <3>2. IsFiniteSet(S) /\ id \in S /\ \A i \in S : f[i] \in Int /\ g[i] \in Int /\ (i # id => g[i] = f[i])
      BY <1>2, <1>3, <2>1, <3>1
    <3>3. SumFunctionOnSet(g, S) = SumFunctionOnSet(f, S) - f[id] + g[id]
      BY ONLY <3>2, SumChange
    <3> QED BY <3>1, <3>3
  <2> QED BY <2>2, <2>3, <2>4
<1>6. TotalGained(new) = TotalGained(ls) - Gained(old) + Gained(loan)
  <2> DEFINE f == [i \in IdsOf(ls) |-> Gained(LoanAt(ls, i))]
             g == [i \in IdsOf(ls) |-> Gained(LoanAt(new, i))]
  <2>1. \A i \in IdsOf(ls) : f[i] \in Int /\ g[i] \in Int /\ (i # id => g[i] = f[i])
    <3>1. ASSUME NEW i \in IdsOf(ls) PROVE f[i] \in Int /\ g[i] \in Int
      <4>1. LoanAt(ls, i) \in Loan /\ LoanAt(new, i) \in Loan
        BY <1>3
      <4> QED BY <4>1, AmountsNat
    <3>2. \A i \in IdsOf(ls) : i # id => g[i] = f[i]
      BY <1>2
    <3> QED BY <3>1, <3>2
  <2>2. f[id] = Gained(old) /\ g[id] = Gained(loan)
    BY <1>2
  <2>3. TotalGained(ls) = SumFunctionOnSet(f, IdsOf(ls)) /\ TotalGained(new) = SumFunctionOnSet(g, IdsOf(ls))
    BY <1>2 DEF TotalGained
  <2> HIDE DEF f, g
  <2>4. SumFunctionOnSet(g, IdsOf(ls)) = SumFunctionOnSet(f, IdsOf(ls)) - f[id] + g[id]
    <3>1. PICK S : S = IdsOf(ls)
      OBVIOUS
    <3>2. IsFiniteSet(S) /\ id \in S /\ \A i \in S : f[i] \in Int /\ g[i] \in Int /\ (i # id => g[i] = f[i])
      BY <1>2, <1>3, <2>1, <3>1
    <3>3. SumFunctionOnSet(g, S) = SumFunctionOnSet(f, S) - f[id] + g[id]
      BY ONLY <3>2, SumChange
    <3> QED BY <3>1, <3>3
  <2> QED BY <2>2, <2>3, <2>4
<1> QED BY <1>4, <1>5, <1>6

LEMMA TotalsGrow ==
  ASSUME NEW ls, Fits(ls), NEW new, Fits(new), NEW id, NEW loan \in Loan,
         id \notin IdsOf(ls), IdsOf(new) = IdsOf(ls) \cup {id}, LoanAt(new, id) = loan,
         \A i \in IdsOf(ls) : LoanAt(new, i) = LoanAt(ls, i)
  PROVE  /\ \A m : TotalUnpaid(new, m) = TotalUnpaid(ls, m) + UnpaidTo(loan, m)
         /\ TotalLent(new) = TotalLent(ls) + Lent(loan)
         /\ TotalGained(new) = TotalGained(ls) + Gained(loan)
<1>1. PICK S : S = IdsOf(ls)
  OBVIOUS
<1>2. /\ IsFiniteSet(S) /\ id \notin S /\ IdsOf(new) = S \cup {id}
      /\ \A i \in S : LoanAt(ls, i) \in Loan /\ LoanAt(new, i) = LoanAt(ls, i)
      /\ \A i \in S \cup {id} : LoanAt(new, i) \in Loan
  BY <1>1, IdsFinite
<1>3. ASSUME NEW m PROVE TotalUnpaid(new, m) = TotalUnpaid(ls, m) + UnpaidTo(loan, m)
  <2> DEFINE f == [i \in S |-> UnpaidTo(LoanAt(ls, i), m)]
             g == [i \in S \cup {id} |-> UnpaidTo(LoanAt(new, i), m)]
  <2>1. \A i \in S : f[i] \in Int /\ g[i] = f[i]
    <3>1. ASSUME NEW i \in S PROVE f[i] \in Int /\ g[i] = f[i]
      <4>1. LoanAt(ls, i) \in Loan /\ LoanAt(new, i) = LoanAt(ls, i)
        BY <1>2
      <4> QED BY <4>1, AmountsNat
    <3> QED BY <3>1
  <2>2. g[id] = UnpaidTo(loan, m) /\ g[id] \in Int
    BY AmountsNat
  <2>3. TotalUnpaid(ls, m) = SumFunctionOnSet(f, S) /\ TotalUnpaid(new, m) = SumFunctionOnSet(g, S \cup {id})
    BY <1>1, <1>2 DEF TotalUnpaid
  <2> HIDE DEF f, g
  <2>4. IsFiniteSet(S) /\ id \notin S /\ \A i \in S \cup {id} : g[i] \in Int
    BY <1>2, <2>1, <2>2
  <2>5. SumFunctionOnSet(g, S \cup {id}) = g[id] + SumFunctionOnSet(g, S)
    BY ONLY <2>4, SumAdd
  <2>6. SumFunctionOnSet(g, S) = SumFunctionOnSet(f, S) /\ SumFunctionOnSet(f, S) \in Int
    BY ONLY <2>1, <2>4, SumSame, SumInt
  <2> QED BY ONLY <2>2, <2>3, <2>5, <2>6
<1>4. TotalLent(new) = TotalLent(ls) + Lent(loan)
  <2> DEFINE f == [i \in S |-> Lent(LoanAt(ls, i))]
             g == [i \in S \cup {id} |-> Lent(LoanAt(new, i))]
  <2>1. \A i \in S : f[i] \in Int /\ g[i] = f[i]
    <3>1. ASSUME NEW i \in S PROVE f[i] \in Int /\ g[i] = f[i]
      <4>1. LoanAt(ls, i) \in Loan /\ LoanAt(new, i) = LoanAt(ls, i)
        BY <1>2
      <4> QED BY <4>1, AmountsNat
    <3> QED BY <3>1
  <2>2. g[id] = Lent(loan) /\ g[id] \in Int
    BY AmountsNat
  <2>3. TotalLent(ls) = SumFunctionOnSet(f, S) /\ TotalLent(new) = SumFunctionOnSet(g, S \cup {id})
    BY <1>1, <1>2 DEF TotalLent
  <2> HIDE DEF f, g
  <2>4. IsFiniteSet(S) /\ id \notin S /\ \A i \in S \cup {id} : g[i] \in Int
    BY <1>2, <2>1, <2>2
  <2>5. SumFunctionOnSet(g, S \cup {id}) = g[id] + SumFunctionOnSet(g, S)
    BY ONLY <2>4, SumAdd
  <2>6. SumFunctionOnSet(g, S) = SumFunctionOnSet(f, S) /\ SumFunctionOnSet(f, S) \in Int
    BY ONLY <2>1, <2>4, SumSame, SumInt
  <2> QED BY ONLY <2>2, <2>3, <2>5, <2>6
<1>5. TotalGained(new) = TotalGained(ls) + Gained(loan)
  <2> DEFINE f == [i \in S |-> Gained(LoanAt(ls, i))]
             g == [i \in S \cup {id} |-> Gained(LoanAt(new, i))]
  <2>1. \A i \in S : f[i] \in Int /\ g[i] = f[i]
    <3>1. ASSUME NEW i \in S PROVE f[i] \in Int /\ g[i] = f[i]
      <4>1. LoanAt(ls, i) \in Loan /\ LoanAt(new, i) = LoanAt(ls, i)
        BY <1>2
      <4> QED BY <4>1, AmountsNat
    <3> QED BY <3>1
  <2>2. g[id] = Gained(loan) /\ g[id] \in Int
    BY AmountsNat
  <2>3. TotalGained(ls) = SumFunctionOnSet(f, S) /\ TotalGained(new) = SumFunctionOnSet(g, S \cup {id})
    BY <1>1, <1>2 DEF TotalGained
  <2> HIDE DEF f, g
  <2>4. IsFiniteSet(S) /\ id \notin S /\ \A i \in S \cup {id} : g[i] \in Int
    BY <1>2, <2>1, <2>2
  <2>5. SumFunctionOnSet(g, S \cup {id}) = g[id] + SumFunctionOnSet(g, S)
    BY ONLY <2>4, SumAdd
  <2>6. SumFunctionOnSet(g, S) = SumFunctionOnSet(f, S) /\ SumFunctionOnSet(f, S) \in Int
    BY ONLY <2>1, <2>4, SumSame, SumInt
  <2> QED BY ONLY <2>2, <2>3, <2>5, <2>6
<1> QED BY <1>3, <1>4, <1>5

\* Totals are numbers, and no loan is above the total.
LEMMA TotalsNat ==
  ASSUME NEW ls, Fits(ls), NEW m
  PROVE  /\ TotalUnpaid(ls, m) \in Nat /\ TotalLent(ls) \in Nat /\ TotalGained(ls) \in Nat
         /\ \A id \in IdsOf(ls) : UnpaidTo(LoanAt(ls, id), m) <= TotalUnpaid(ls, m)
<1>1. PICK S : S = IdsOf(ls)
  OBVIOUS
<1>2. IsFiniteSet(S) /\ \A i \in S : LoanAt(ls, i) \in Loan
  BY <1>1, IdsFinite
<1> DEFINE f == [i \in S |-> UnpaidTo(LoanAt(ls, i), m)]
           g == [i \in S |-> Lent(LoanAt(ls, i))]
           h == [i \in S |-> Gained(LoanAt(ls, i))]
<1>3. \A i \in S : f[i] \in Nat /\ g[i] \in Nat /\ h[i] \in Nat
  <2>1. ASSUME NEW i \in S PROVE f[i] \in Nat /\ g[i] \in Nat /\ h[i] \in Nat
    <3>1. LoanAt(ls, i) \in Loan
      BY <1>2
    <3> QED BY <3>1, AmountsNat
  <2> QED BY <2>1
<1>4. /\ TotalUnpaid(ls, m) = SumFunctionOnSet(f, S) /\ TotalLent(ls) = SumFunctionOnSet(g, S)
      /\ TotalGained(ls) = SumFunctionOnSet(h, S)
  BY <1>1 DEF TotalUnpaid, TotalLent, TotalGained
<1>5. \A i \in S : f[i] = UnpaidTo(LoanAt(ls, i), m)
  OBVIOUS
<1> HIDE DEF f, g, h
<1>6. SumFunctionOnSet(f, S) \in Nat /\ SumFunctionOnSet(g, S) \in Nat /\ SumFunctionOnSet(h, S) \in Nat
  BY ONLY <1>2, <1>3, SumNat
<1>7. \A i \in S : f[i] <= SumFunctionOnSet(f, S)
  BY ONLY <1>2, <1>3, SumBoundsElement
<1> QED BY <1>1, <1>4, <1>5, <1>6, <1>7

\* A sum over those with a property is the sum over all in which the others count nothing.
LEMMA SumSelected ==
  ASSUME NEW S, IsFiniteSet(S), NEW T \in SUBSET S, NEW f, NEW g,
         \A x \in T : f[x] \in Int /\ g[x] = f[x], \A x \in S \ T : g[x] = 0
  PROVE  SumFunctionOnSet(f, T) = SumFunctionOnSet(g, S)
<1>1. PICK R : R = S \ T
  OBVIOUS
<1>2. IsFiniteSet(T) /\ IsFiniteSet(R) /\ T \cap R = {} /\ S = T \cup R
  BY <1>1, FS_Subset
<1>3. \A x \in T \cup R : g[x] \in Int
  BY <1>1
<1>4. SumFunctionOnSet(g, T \cup R) = SumFunctionOnSet(g, T) + SumFunctionOnSet(g, R)
  BY ONLY <1>2, <1>3, SumUnion
<1>5. SumFunctionOnSet(g, R) = 0
  BY <1>1, <1>2, SumZero
<1>6. SumFunctionOnSet(g, T) = SumFunctionOnSet(f, T) /\ SumFunctionOnSet(f, T) \in Int
  BY <1>2, SumSame, SumInt
<1> QED BY <1>2, <1>4, <1>5, <1>6

\* The totals are the sums of BooksFollowLoans.
LEMMA TotalsAreSums ==
  ASSUME Fits(loans)
  PROVE  /\ AllLoans = IdsOf(loans) /\ \A id : The(id) = LoanAt(loans, id)
         /\ \A m : SumOver({id \in AllLoans : The(id).managerAddress = m}, Unpaid) = TotalUnpaid(loans, m)
         /\ SumOver(AllLoans, Lent) = TotalLent(loans)
         /\ SumOver(AllLoans, Gained) = TotalGained(loans)
<1>1. AllLoans = IdsOf(loans) /\ \A id : The(id) = LoanAt(loans, id)
  BY DEF AllLoans, IdsOf, The, LoanAt, usersLength
<1>2. PICK S : S = IdsOf(loans)
  OBVIOUS
<1>3. IsFiniteSet(S) /\ \A i \in S : LoanAt(loans, i) \in Loan
  BY <1>2, IdsFinite
<1>4. SumOver(AllLoans, Lent) = TotalLent(loans)
  BY <1>1 DEF SumOver, TotalLent, SumFunction, FoldFunction, SumFunctionOnSet
<1>5. SumOver(AllLoans, Gained) = TotalGained(loans)
  BY <1>1 DEF SumOver, TotalGained, SumFunction, FoldFunction, SumFunctionOnSet
<1>6. ASSUME NEW m
      PROVE  SumOver({id \in AllLoans : The(id).managerAddress = m}, Unpaid) = TotalUnpaid(loans, m)
  <2> DEFINE T == {id \in S : LoanAt(loans, id).managerAddress = m}
             f == [id \in T |-> Unpaid(LoanAt(loans, id))]
             g == [id \in S |-> UnpaidTo(LoanAt(loans, id), m)]
  <2>1. T = {id \in AllLoans : The(id).managerAddress = m}
    BY <1>1, <1>2
  <2>2. SumOver(T, Unpaid) = SumFunctionOnSet(f, T)
    BY <1>1 DEF SumOver, SumFunction, FoldFunction, SumFunctionOnSet
  <2>3. TotalUnpaid(loans, m) = SumFunctionOnSet(g, S)
    BY <1>2 DEF TotalUnpaid
  <2>4. ASSUME NEW i \in T PROVE f[i] \in Int /\ g[i] = f[i]
    <3>1. LoanAt(loans, i) \in Loan /\ i \in S
      BY <1>3
    <3> QED BY <3>1, AmountsNat DEF UnpaidTo
  <2>5. \A i \in S \ T : g[i] = 0
    BY DEF UnpaidTo
  <2>6. T \in SUBSET S
    OBVIOUS
  <2> HIDE DEF T, f, g
  <2>7. SumFunctionOnSet(f, T) = SumFunctionOnSet(g, S)
    BY ONLY <1>3, <2>4, <2>5, <2>6, SumSelected
  <2> QED BY <2>1, <2>2, <2>3, <2>7
<1> QED BY <1>1, <1>4, <1>5, <1>6

(***************************************************************************)
(* The books.                                                               *)
(***************************************************************************)
\* What a loan is before it is claimed and after.
SoundLoan(loan, now) ==
  /\ loan.startDate = 0 => loan.amountRepayed = 0 /\ loan.lastComputedDebt = 0
  /\ loan.startDate > 0 => ~Canceled(loan)
  /\ loan.lastComputedDate <= now
\* The debt is not below the principal that is left.
CanBePaid(loan) == loan.lastComputedDebt > 0 => loan.amountRepayed + loan.lastComputedDebt >= loan.amountBorrowed

ManagersTyped == managers \in [Managers -> [listed : BOOLEAN, lentAmountLimit : Nat, lentAmount : Nat]]
AmountsTyped == pool \in Nat /\ revenue \in Nat /\ time \in Nat \ {0}

LentAsPromised == \A m \in Managers \ mended : managers[m].lentAmount = TotalUnpaid(loans, m)
PoolFollows == pool + TotalLent(loans) = InitialPool
RevenueFollows == revenue = TotalGained(loans)
LoansSound == \A id \in IdsOf(loans) : SoundLoan(LoanAt(loans, id), time)
DebtsSuffice == \A id \in IdsOf(loans) \ mended : CanBePaid(LoanAt(loans, id))

BooksIInv ==
  /\ IInv /\ Fits(loans) /\ ManagersTyped /\ AmountsTyped
  /\ LentAsPromised /\ PoolFollows /\ RevenueFollows
  /\ LoansSound /\ DebtsSuffice

LEMMA BooksFollow == BooksIInv => BooksFollowLoans
<1> SUFFICES ASSUME BooksIInv PROVE BooksFollowLoans
  OBVIOUS
<1>1. /\ AllLoans = IdsOf(loans) /\ \A id : The(id) = LoanAt(loans, id)
      /\ \A m : SumOver({id \in AllLoans : The(id).managerAddress = m}, Unpaid) = TotalUnpaid(loans, m)
      /\ SumOver(AllLoans, Lent) = TotalLent(loans)
      /\ SumOver(AllLoans, Gained) = TotalGained(loans)
  BY TotalsAreSums DEF BooksIInv
<1>2. \A id \in AllLoans \ mended :
        The(id).lastComputedDebt > 0 => The(id).amountRepayed + The(id).lastComputedDebt >= The(id).amountBorrowed
  BY <1>1 DEF BooksIInv, DebtsSuffice, CanBePaid
<1> QED BY <1>1, <1>2 DEF BooksFollowLoans, BooksIInv, LentAsPromised, PoolFollows, RevenueFollows

LEMMA InitBooks == MicrocreditInit => BooksIInv
<1> SUFFICES ASSUME MicrocreditInit PROVE BooksIInv
  OBVIOUS
<1>1. IInv
  BY InitOneLoan
<1>2. loans = << >>
  BY DEF MicrocreditInit
<1>3. Fits(loans) /\ IdsOf(loans) = {}
  BY <1>2 DEF Fits, IdsOf
<1>4. \A m : TotalUnpaid(loans, m) = 0
  BY <1>3, SumEmpty DEF TotalUnpaid
<1>5. TotalLent(loans) = 0 /\ TotalGained(loans) = 0
  BY <1>3, SumEmpty DEF TotalLent, TotalGained
<1>6. ManagersTyped /\ AmountsTyped
  BY MicrocreditAssumption DEF MicrocreditInit, ManagersTyped, AmountsTyped
<1>7. LentAsPromised /\ PoolFollows /\ RevenueFollows
  BY <1>4, <1>5, MicrocreditAssumption DEF MicrocreditInit, LentAsPromised, PoolFollows, RevenueFollows
<1>8. LoansSound /\ DebtsSuffice
  BY <1>3 DEF LoansSound, DebtsSuffice
<1> QED BY <1>1, <1>3, <1>6, <1>7, <1>8 DEF BooksIInv

\* What a manager has lent changes.
LEMMA ManagerChanges ==
  ASSUME ManagersTyped, NEW m \in Managers, NEW amount \in Nat,
         managers' = [managers EXCEPT ![m].lentAmount = amount]
  PROVE  /\ ManagersTyped' /\ managers'[m].lentAmount = amount
         /\ \A n \in Managers : n # m => managers'[n].lentAmount = managers[n].lentAmount
<1>1. managers[m] \in [listed : BOOLEAN, lentAmountLimit : Nat, lentAmount : Nat]
  BY DEF ManagersTyped
<1>2. PICK r : r = [managers[m] EXCEPT !.lentAmount = amount]
  OBVIOUS
<1>3. r \in [listed : BOOLEAN, lentAmountLimit : Nat, lentAmount : Nat] /\ r.lentAmount = amount
  BY <1>1, <1>2
<1>4. managers' = [managers EXCEPT ![m] = r]
  BY <1>2
<1> QED BY ONLY <1>3, <1>4, ManagersTyped, m \in Managers DEF ManagersTyped

\* A call puts a loan in the place of an old one and books what changes.
Booked(w, l, old, loan) ==
  /\ UserOf(w) > 0 /\ l < Len(loans[UserOf(w)])
  /\ old = LoanOf(w, l) /\ loan \in Loan /\ SetLoan(w, l, loan) /\ SoundLoan(loan, time)
  /\ time' = time /\ mended \subseteq mended' /\ ManagersTyped' /\ pool' \in Nat /\ revenue' \in Nat
  /\ \A m \in Managers \ mended' :
       managers[m].lentAmount = TotalUnpaid(loans, m) =>
         managers'[m].lentAmount = managers[m].lentAmount - UnpaidTo(old, m) + UnpaidTo(loan, m)
  /\ pool' + Lent(loan) = pool + Lent(old) /\ revenue' = revenue - Gained(old) + Gained(loan)
  /\ (CanBePaid(old) => CanBePaid(loan)) \/ <<UserOf(w), l>> \in mended'

LEMMA CallKeepsBooks ==
  ASSUME BooksIInv, IInv', NEW w \in Wallets, NEW l \in Nat, NEW old, NEW loan, Booked(w, l, old, loan)
  PROVE  BooksIInv'
<1>0. /\ UserOf(w) > 0 /\ l < Len(loans[UserOf(w)])
      /\ old = LoanOf(w, l) /\ loan \in Loan /\ SetLoan(w, l, loan) /\ SoundLoan(loan, time)
      /\ time' = time /\ mended \subseteq mended' /\ ManagersTyped' /\ pool' \in Nat /\ revenue' \in Nat
      /\ \A m \in Managers \ mended' :
           managers[m].lentAmount = TotalUnpaid(loans, m) =>
             managers'[m].lentAmount = managers[m].lentAmount - UnpaidTo(old, m) + UnpaidTo(loan, m)
      /\ pool' + Lent(loan) = pool + Lent(old) /\ revenue' = revenue - Gained(old) + Gained(loan)
      /\ (CanBePaid(old) => CanBePaid(loan)) \/ <<UserOf(w), l>> \in mended'
  BY DEF Booked
<1>1. PICK u : u = UserOf(w)
  OBVIOUS
<1>2. u \in DOMAIN loans /\ l < Len(loans[u])
  BY <1>0, <1>1, CalledLoan DEF BooksIInv
<1>3. loans' = Changed(loans, u, l, loan)
  BY <1>0, <1>1 DEF SetLoan, Changed
<1>4. Fits(loans) /\ old = LoanAt(loans, <<u, l>>)
  BY <1>0, <1>1 DEF BooksIInv, LoanOf, LoanAt
<1>5. /\ Fits(loans') /\ IdsOf(loans') = IdsOf(loans) /\ <<u, l>> \in IdsOf(loans)
      /\ LoanAt(loans', <<u, l>>) = loan
      /\ \A id \in IdsOf(loans) : id # <<u, l>> => LoanAt(loans', id) = LoanAt(loans, id)
  BY <1>0, <1>2, <1>3, <1>4, IdsChange
<1>6. /\ \A m : TotalUnpaid(loans', m) = TotalUnpaid(loans, m) - UnpaidTo(old, m) + UnpaidTo(loan, m)
      /\ TotalLent(loans') = TotalLent(loans) - Lent(old) + Lent(loan)
      /\ TotalGained(loans') = TotalGained(loans) - Gained(old) + Gained(loan)
  BY <1>0, <1>2, <1>3, <1>4, TotalsChange
<1>7. Fits(loans)'
  BY <1>0, <1>5 DEF Fits
<1>8. old \in Loan
  BY <1>0, <1>4, <1>5, IdsFinite
<1>9. LentAsPromised'
  <2>1. ASSUME NEW m \in Managers \ mended' PROVE managers'[m].lentAmount = TotalUnpaid(loans', m)
    <3>1. managers[m].lentAmount = TotalUnpaid(loans, m)
      BY <1>0, <2>1 DEF BooksIInv, LentAsPromised
    <3> QED BY <1>0, <1>6, <2>1, <3>1
  <2> QED BY <1>0, <2>1 DEF LentAsPromised, TotalUnpaid, IdsOf, LoanAt
<1>10. /\ TotalLent(loans) \in Nat /\ TotalGained(loans) \in Nat /\ Lent(old) \in Nat /\ Lent(loan) \in Nat
       /\ Gained(old) \in Nat /\ Gained(loan) \in Nat /\ pool \in Nat /\ revenue \in Nat
  BY <1>0, <1>4, <1>8, TotalsNat, AmountsNat DEF BooksIInv, AmountsTyped
<1>11. pool' + TotalLent(loans') = InitialPool /\ revenue' = TotalGained(loans')
  <2>1. pool + TotalLent(loans) = InitialPool /\ revenue = TotalGained(loans)
    BY <1>0 DEF BooksIInv, PoolFollows, RevenueFollows
  <2>2. pool' \in Nat /\ pool' + Lent(loan) = pool + Lent(old) /\ revenue' = revenue - Gained(old) + Gained(loan)
    BY <1>0
  <2>3. PICK a, b \in Nat : a = TotalLent(loans) /\ b = TotalGained(loans)
    BY <1>0, <1>10
  <2>4. PICK c, d, e, f \in Nat : c = Lent(old) /\ d = Lent(loan) /\ e = Gained(old) /\ f = Gained(loan)
    BY <1>0, <1>10
  <2>5. TotalLent(loans') = a - c + d /\ TotalGained(loans') = b - e + f
    BY ONLY <1>6, <2>3, <2>4
  <2>6. PICK p, q \in Nat : p = pool /\ q = pool'
    BY <1>0, <1>10, <2>2
  <2>7. p + a = InitialPool /\ q + d = p + c
    BY ONLY <2>1, <2>2, <2>3, <2>4, <2>6
  <2>8. q + (a - c + d) = InitialPool
    BY ONLY <2>7, a \in Nat, c \in Nat, d \in Nat, p \in Nat, q \in Nat
  <2>9. pool' + TotalLent(loans') = InitialPool
    BY ONLY <2>5, <2>6, <2>8
  <2>10. revenue' = b - e + f
    BY ONLY <2>1, <2>2, <2>3, <2>4
  <2> QED BY ONLY <2>5, <2>9, <2>10
<1>12. PoolFollows' /\ RevenueFollows'
  BY <1>0, <1>11 DEF PoolFollows, RevenueFollows, TotalLent, TotalGained, IdsOf, LoanAt
<1>13. ASSUME NEW id \in IdsOf(loans') PROVE SoundLoan(LoanAt(loans', id), time')
  <2>1. CASE id = <<u, l>>
    BY <1>0, <1>5, <2>1
  <2>2. CASE id # <<u, l>>
    BY <1>0, <1>5, <1>13, <2>2 DEF BooksIInv, LoansSound
  <2> QED BY <1>0, <2>1, <2>2
<1>14. LoansSound'
  BY <1>0, <1>13 DEF LoansSound, IdsOf, LoanAt, SoundLoan
<1>15. ASSUME NEW id \in IdsOf(loans'), id \notin mended' PROVE CanBePaid(LoanAt(loans', id))
  <2>1. CanBePaid(LoanAt(loans, id))
    BY <1>0, <1>5, <1>15 DEF BooksIInv, DebtsSuffice
  <2>2. CASE id = <<u, l>>
    BY <1>0, <1>1, <1>4, <1>5, <1>15, <2>1, <2>2
  <2>3. CASE id # <<u, l>>
    BY <1>0, <1>5, <1>15, <2>1, <2>3
  <2> QED BY <1>0, <2>2, <2>3
<1>16. DebtsSuffice'
  BY <1>0, <1>15 DEF DebtsSuffice, IdsOf, LoanAt, CanBePaid
<1>17. AmountsTyped'
  BY <1>0 DEF BooksIInv, AmountsTyped
<1> QED BY <1>0, <1>7, <1>9, <1>12, <1>14, <1>16, <1>17 DEF BooksIInv

\* The loan a call speaks of, with its numbers.
LEMMA CalledLoanSound ==
  ASSUME BooksIInv, NEW w \in Wallets, NEW l \in Nat, UserOf(w) > 0, l < Len(loans[UserOf(w)])
  PROVE  /\ LoanOf(w, l) \in Loan /\ SoundLoan(LoanOf(w, l), time)
         /\ \A m : UnpaidTo(LoanOf(w, l), m) <= TotalUnpaid(loans, m) /\ TotalUnpaid(loans, m) \in Nat
<1>1. PICK u : u = UserOf(w)
  OBVIOUS
<1>2. u \in DOMAIN loans /\ l < Len(loans[u])
  BY <1>1, CalledLoan DEF BooksIInv
<1>3. Fits(loans) /\ LoanOf(w, l) = LoanAt(loans, <<u, l>>)
  BY <1>1 DEF BooksIInv, LoanOf, LoanAt
<1>4. <<u, l>> \in IdsOf(loans)
  <2>1. u \in 1..Len(loans)
    BY <1>2, <1>3 DEF Fits
  <2> QED BY ONLY <1>2, <1>3, <2>1, l \in Nat, IdsMember
<1> QED BY <1>3, <1>4, IdsFinite, TotalsNat DEF BooksIInv, LoansSound

(***************************************************************************)
(* The calls on one loan.                                                   *)
(***************************************************************************)
\* The fields of a loan that did not change.
SameBut(loan, old, fields) == \A field \in LoanFields \ fields : loan[field] = old[field]

LEMMA EditDeadlineKeepsBooks ==
  ASSUME BooksIInv, IInv', NEW w \in Wallets, NEW l \in Nat, NEW deadline \in Nat,
         EditLoanClaimDeadline(w, l, deadline)
  PROVE  BooksIInv'
<1>0. PICK old : old = LoanOf(w, l)
  OBVIOUS
<1>1. UserOf(w) > 0 /\ l < Len(loans[UserOf(w)]) /\ old.startDate = 0 /\ deadline > time
  BY <1>0 DEF EditLoanClaimDeadline, LoanExists
<1>2. old \in Loan /\ SoundLoan(old, time)
  BY <1>0, <1>1, CalledLoanSound
<1>3. PICK loan : loan = [old EXCEPT !.claimDeadline = deadline]
  OBVIOUS
<1>4. loan \in Loan /\ loan.claimDeadline = deadline /\ SameBut(loan, old, {"claimDeadline"})
  BY <1>2, <1>3 DEF Loan, LoanFields, SameBut
<1>5. SetLoan(w, l, loan)
  BY <1>0, <1>3 DEF EditLoanClaimDeadline
<1>6. time \in Nat /\ deadline > 0 /\ ~Canceled(loan)
  BY <1>1, <1>4 DEF BooksIInv, AmountsTyped, Canceled
<1>7. /\ loan.startDate = old.startDate /\ loan.amountRepayed = old.amountRepayed
      /\ loan.amountBorrowed = old.amountBorrowed /\ loan.lastComputedDebt = old.lastComputedDebt
      /\ loan.lastComputedDate = old.lastComputedDate /\ loan.managerAddress = old.managerAddress
  BY <1>4 DEF SameBut, LoanFields
<1>8. SoundLoan(loan, time) /\ Lent(loan) = Lent(old) /\ Gained(loan) = Gained(old)
      /\ (CanBePaid(old) => CanBePaid(loan))
  BY <1>1, <1>2, <1>6, <1>7 DEF SoundLoan, Lent, Gained, CanBePaid
<1>9. /\ managers' = managers /\ pool' = pool /\ revenue' = revenue /\ time' = time
      /\ mended \subseteq mended' /\ (Canceled(old) => old.managerAddress \in mended')
  BY <1>0 DEF EditLoanClaimDeadline
<1>10. ASSUME NEW m \in Managers \ mended'
       PROVE  managers'[m].lentAmount = managers[m].lentAmount - UnpaidTo(old, m) + UnpaidTo(loan, m)
  <2>1. UnpaidTo(old, m) = UnpaidTo(loan, m)
    BY <1>6, <1>7, <1>9, <1>10 DEF UnpaidTo, Unpaid
  <2>2. managers[m].lentAmount \in Nat /\ UnpaidTo(old, m) \in Nat
    BY <1>2, AmountsNat DEF BooksIInv, ManagersTyped
  <2> QED BY <1>9, <2>1, <2>2
<1>11. pool \in Nat /\ revenue \in Nat /\ Gained(old) \in Nat /\ ManagersTyped'
  BY <1>2, <1>9, AmountsNat DEF BooksIInv, AmountsTyped, ManagersTyped
<1>12. pool' \in Nat /\ revenue' \in Nat /\ pool' + Lent(loan) = pool + Lent(old) /\ revenue' = revenue - Gained(old) + Gained(loan)
  BY <1>8, <1>9, <1>11
<1>20. Booked(w, l, old, loan)
  BY <1>0, <1>1, <1>4, <1>5, <1>8, <1>9, <1>10, <1>11, <1>12 DEF Booked
<1> QED BY ONLY BooksIInv, IInv', w \in Wallets, l \in Nat, <1>20, CallKeepsBooks

LEMMA CancelKeepsBooks ==
  ASSUME BooksIInv, IInv', NEW w \in Wallets, NEW l \in Nat, CancelLoan(w, l)
  PROVE  BooksIInv'
<1>0. PICK old : old = LoanOf(w, l)
  OBVIOUS
<1>1. /\ UserOf(w) > 0 /\ l < Len(loans[UserOf(w)]) /\ old.startDate = 0 /\ ~Canceled(old)
      /\ managers[old.managerAddress].lentAmount >= old.amountBorrowed
  BY <1>0 DEF CancelLoan, LoanExists
<1>2. old \in Loan /\ SoundLoan(old, time)
  BY <1>0, <1>1, CalledLoanSound
<1>3. PICK loan : loan = [old EXCEPT !.claimDeadline = 0]
  OBVIOUS
<1>4. loan \in Loan /\ loan.claimDeadline = 0 /\ SameBut(loan, old, {"claimDeadline"})
  BY <1>2, <1>3 DEF Loan, LoanFields, SameBut
<1>5. SetLoan(w, l, loan)
  BY <1>0, <1>3 DEF CancelLoan
<1>6. Canceled(loan)
  BY <1>4 DEF Canceled
<1>7. /\ loan.startDate = old.startDate /\ loan.amountRepayed = old.amountRepayed
      /\ loan.amountBorrowed = old.amountBorrowed /\ loan.lastComputedDebt = old.lastComputedDebt
      /\ loan.lastComputedDate = old.lastComputedDate /\ loan.managerAddress = old.managerAddress
  BY <1>4 DEF SameBut, LoanFields
<1>7a. old.amountRepayed = 0 /\ old.amountBorrowed \in Nat /\ old.managerAddress \in Managers
  BY <1>1, <1>2 DEF SoundLoan, Loan
<1>8. SoundLoan(loan, time) /\ Lent(loan) = Lent(old) /\ Gained(loan) = Gained(old)
      /\ (CanBePaid(old) => CanBePaid(loan))
  BY <1>1, <1>2, <1>7 DEF SoundLoan, Lent, Gained, CanBePaid
<1>9. /\ managers' = [managers EXCEPT ![old.managerAddress].lentAmount = @ - old.amountBorrowed]
      /\ pool' = pool /\ revenue' = revenue /\ time' = time /\ mended' = mended
  BY <1>0 DEF CancelLoan
<1>9a. /\ ManagersTyped' /\ managers'[old.managerAddress].lentAmount = managers[old.managerAddress].lentAmount - old.amountBorrowed
       /\ \A n \in Managers : n # old.managerAddress => managers'[n].lentAmount = managers[n].lentAmount
  <2>1. PICK h \in Managers : h = old.managerAddress
    BY <1>7a
  <2>2. managers[h].lentAmount \in Nat
    BY DEF BooksIInv, ManagersTyped
  <2>3. PICK rest \in Nat : rest = managers[h].lentAmount - old.amountBorrowed
    BY <1>1, <1>7a, <2>1, <2>2
  <2>4. managers' = [managers EXCEPT ![h].lentAmount = rest]
    BY <1>9, <2>1, <2>3
  <2> QED BY <2>1, <2>3, <2>4, ManagerChanges DEF BooksIInv
<1>10. Unpaid(old) = old.amountBorrowed /\ Unpaid(loan) = 0
  BY <1>1, <1>6, <1>7a DEF Unpaid, Excess
<1>11. ASSUME NEW m \in Managers
       PROVE  managers'[m].lentAmount = managers[m].lentAmount - UnpaidTo(old, m) + UnpaidTo(loan, m)
  <2>1. managers[m].lentAmount \in Nat
    BY DEF BooksIInv, ManagersTyped
  <2>2. CASE m = old.managerAddress
    <3>1. managers'[m].lentAmount = managers[m].lentAmount - old.amountBorrowed
      BY <1>9a, <2>2
    <3> QED BY <1>7, <1>7a, <1>10, <2>1, <2>2, <3>1 DEF UnpaidTo
  <2>3. CASE m # old.managerAddress
    <3>1. managers'[m].lentAmount = managers[m].lentAmount
      BY <1>9a, <2>3
    <3> QED BY <1>7, <2>1, <2>3, <3>1 DEF UnpaidTo
  <2> QED BY <2>2, <2>3
<1>12. ManagersTyped'
  BY <1>9a
<1>13. pool \in Nat /\ revenue \in Nat /\ Gained(old) \in Nat /\ Lent(old) \in Nat
  BY <1>2, AmountsNat DEF BooksIInv, AmountsTyped
<1>14. pool' \in Nat /\ revenue' \in Nat /\ pool' + Lent(loan) = pool + Lent(old) /\ revenue' = revenue - Gained(old) + Gained(loan)
  BY <1>8, <1>9, <1>13
<1>20. Booked(w, l, old, loan)
  BY <1>0, <1>1, <1>4, <1>5, <1>8, <1>9, <1>11, <1>12, <1>14 DEF Booked
<1> QED BY ONLY BooksIInv, IInv', w \in Wallets, l \in Nat, <1>20, CallKeepsBooks

LEMMA ClaimKeepsBooks ==
  ASSUME BooksIInv, IInv', NEW w \in Wallets, NEW l \in Nat, ClaimLoan(w, l)
  PROVE  BooksIInv'
<1>0. PICK old : old = LoanOf(w, l)
  OBVIOUS
<1>1. /\ UserOf(w) > 0 /\ l < Len(loans[UserOf(w)]) /\ old.startDate = 0 /\ ~Canceled(old)
      /\ pool >= old.amountBorrowed
  BY <1>0 DEF ClaimLoan, LoanExists
<1>2. old \in Loan /\ SoundLoan(old, time)
  BY <1>0, <1>1, CalledLoanSound
<1>2a. PICK debt : debt = WithInterest(old.amountBorrowed, old.dailyInterest)
  OBVIOUS
<1>2b. debt \in Nat /\ debt >= old.amountBorrowed /\ time \in Nat /\ time > 0
  BY <1>2, <1>2a, InterestGrows DEF Loan, BooksIInv, AmountsTyped
<1>3. PICK loan : loan = [old EXCEPT !.startDate = time, !.lastComputedDate = time, !.lastComputedDebt = debt]
  OBVIOUS
<1>4. /\ loan \in Loan /\ loan.startDate = time /\ loan.lastComputedDate = time /\ loan.lastComputedDebt = debt
      /\ SameBut(loan, old, {"startDate", "lastComputedDate", "lastComputedDebt"})
  BY <1>2, <1>2b, <1>3 DEF Loan, LoanFields, SameBut
<1>5. SetLoan(w, l, loan)
  BY <1>0, <1>2a, <1>3 DEF ClaimLoan
<1>7. /\ loan.amountRepayed = old.amountRepayed /\ loan.claimDeadline = old.claimDeadline
      /\ loan.amountBorrowed = old.amountBorrowed /\ loan.managerAddress = old.managerAddress
  BY <1>4 DEF SameBut, LoanFields
<1>7a. old.amountRepayed = 0 /\ old.amountBorrowed \in Nat
  BY <1>1, <1>2 DEF SoundLoan, Loan
<1>8. SoundLoan(loan, time) /\ CanBePaid(loan)
  BY <1>1, <1>2b, <1>4, <1>7, <1>7a DEF SoundLoan, CanBePaid, Canceled
<1>9. /\ managers' = managers /\ pool' = pool - old.amountBorrowed /\ revenue' = revenue /\ time' = time /\ mended' = mended
  BY <1>0 DEF ClaimLoan, history
<1>10. /\ \A m : UnpaidTo(loan, m) = UnpaidTo(old, m)
       /\ Gained(loan) = Gained(old) /\ Lent(old) = 0 /\ Lent(loan) = old.amountBorrowed
  BY <1>1, <1>2b, <1>4, <1>7, <1>7a DEF UnpaidTo, Unpaid, Gained, Lent, Excess, Canceled
<1>11. ASSUME NEW m \in Managers
       PROVE  managers'[m].lentAmount = managers[m].lentAmount - UnpaidTo(old, m) + UnpaidTo(loan, m)
  <2>1. managers[m].lentAmount \in Nat /\ UnpaidTo(old, m) \in Nat
    BY <1>2, AmountsNat DEF BooksIInv, ManagersTyped
  <2> QED BY <1>9, <1>10, <2>1
<1>12. ManagersTyped'
  BY <1>9 DEF BooksIInv, ManagersTyped
<1>13. pool \in Nat /\ revenue \in Nat /\ Gained(old) \in Nat
  BY <1>2, AmountsNat DEF BooksIInv, AmountsTyped
<1>14. pool' \in Nat /\ revenue' \in Nat /\ pool' + Lent(loan) = pool + Lent(old) /\ revenue' = revenue - Gained(old) + Gained(loan)
  BY <1>1, <1>7a, <1>9, <1>10, <1>13
<1>20. Booked(w, l, old, loan)
  BY <1>0, <1>1, <1>4, <1>5, <1>8, <1>9, <1>11, <1>12, <1>14 DEF Booked
<1> QED BY ONLY BooksIInv, IInv', w \in Wallets, l \in Nat, <1>20, CallKeepsBooks

\* Of a repayment the principal that is left goes to the contract, the rest is gain.
LEMMA RepayKeepsBooks ==
  ASSUME BooksIInv, IInv', NEW w \in Wallets, NEW l \in Nat, NEW repayment \in Nat, RepayLoan(w, l, repayment)
  PROVE  BooksIInv'
<1>0. PICK old : old = LoanOf(w, l)
  OBVIOUS
<1>1. /\ UserOf(w) > 0 /\ l < Len(loans[UserOf(w)]) /\ old.startDate > 0 /\ old.lastComputedDebt > 0
  BY <1>0 DEF RepayLoan, LoanExists
<1>2. /\ old \in Loan /\ SoundLoan(old, time)
      /\ \A m : UnpaidTo(old, m) <= TotalUnpaid(loans, m) /\ TotalUnpaid(loans, m) \in Nat
  BY <1>0, <1>1, CalledLoanSound
<1>2a. /\ old.amountBorrowed \in Nat /\ old.amountRepayed \in Nat /\ old.lastComputedDebt \in Nat
       /\ old.lastComputedDate \in Nat /\ old.managerAddress \in Managers /\ ~Canceled(old)
       /\ old.lastComputedDate <= time /\ time \in Nat
  BY <1>1, <1>2 DEF Loan, SoundLoan, BooksIInv, AmountsTyped
<1>2b. PICK date : date = old.lastComputedDate + DaysSince(old) * Day
  OBVIOUS
<1>2c. DaysSince(old) \in Nat /\ date \in Nat /\ date <= time
  BY <1>2a, <1>2b, DaysPass DEF DaysSince
<1>2d. PICK debt : debt = CurrentDebt(old)
  OBVIOUS
<1>2e. debt \in Nat /\ debt >= old.lastComputedDebt
  BY <1>2, <1>2c, <1>2d, DebtGrows
<1>2f. PICK amount : amount = Smaller(repayment, debt)
  OBVIOUS
<1>2g. amount \in Nat /\ debt - amount \in Nat
  BY <1>2e, <1>2f DEF Smaller
<1>2h. PICK part : part = PrincipalPart(old, amount)
  OBVIOUS
<1>2i. /\ part \in Nat /\ part <= amount /\ part <= Excess(old.amountBorrowed, old.amountRepayed)
       /\ Excess(old.amountBorrowed, old.amountRepayed + amount) = Excess(old.amountBorrowed, old.amountRepayed) - part
       /\ Excess(old.amountRepayed + amount, old.amountBorrowed) = Excess(old.amountRepayed, old.amountBorrowed) + amount - part
  <2>1. PICK borrowed, repaid \in Nat : borrowed = old.amountBorrowed /\ repaid = old.amountRepayed
    BY <1>2a
  <2>2. part = Smaller(amount, Excess(borrowed, repaid))
    BY <1>2h, <2>1 DEF PrincipalPart
  <2>3. /\ part \in Nat /\ part <= amount /\ part <= Excess(borrowed, repaid)
        /\ Excess(borrowed, repaid + amount) = Excess(borrowed, repaid) - part
        /\ Excess(repaid + amount, borrowed) = Excess(repaid, borrowed) + amount - part
    BY ONLY <1>2g, borrowed \in Nat, repaid \in Nat, <2>2 DEF Smaller, Excess
  <2> QED BY ONLY <2>1, <2>3
<1>3. PICK loan : loan = [old EXCEPT !.lastComputedDebt = debt - amount, !.amountRepayed = @ + amount,
                                     !.lastComputedDate = date]
  OBVIOUS
<1>4. /\ loan \in Loan /\ loan.lastComputedDebt = debt - amount /\ loan.amountRepayed = old.amountRepayed + amount
      /\ loan.lastComputedDate = date /\ SameBut(loan, old, {"lastComputedDebt", "amountRepayed", "lastComputedDate"})
  <2>1. PICK rest, total \in Nat : rest = debt - amount /\ total = old.amountRepayed + amount
    BY <1>2a, <1>2g
  <2>2. loan = [old EXCEPT !.lastComputedDebt = rest, !.amountRepayed = total, !.lastComputedDate = date]
    BY <1>3, <2>1
  <2>3. /\ loan \in Loan /\ loan.lastComputedDebt = rest /\ loan.amountRepayed = total
        /\ loan.lastComputedDate = date /\ SameBut(loan, old, {"lastComputedDebt", "amountRepayed", "lastComputedDate"})
    BY <1>2, <1>2c, <2>2 DEF Loan, LoanFields, SameBut
  <2> QED BY ONLY <2>1, <2>3
<1>5. SetLoan(w, l, loan)
  BY <1>0, <1>2b, <1>2d, <1>2f, <1>3 DEF RepayLoan
<1>7. /\ loan.startDate = old.startDate /\ loan.claimDeadline = old.claimDeadline
      /\ loan.amountBorrowed = old.amountBorrowed /\ loan.managerAddress = old.managerAddress
  BY <1>4 DEF SameBut, LoanFields
<1>8. SoundLoan(loan, time)
  BY <1>1, <1>2a, <1>2c, <1>4, <1>7 DEF SoundLoan, Canceled
<1>8a. CanBePaid(old) => CanBePaid(loan)
  BY <1>1, <1>2a, <1>2e, <1>2g, <1>4, <1>7 DEF CanBePaid
<1>9. /\ managers' = [managers EXCEPT ![old.managerAddress].lentAmount = Excess(@, part)]
      /\ pool' = pool + part /\ revenue' = revenue + amount - part /\ time' = time /\ mended' = mended
  BY <1>0, <1>2d, <1>2f, <1>2h DEF RepayLoan, history
<1>9a. /\ ManagersTyped' /\ managers'[old.managerAddress].lentAmount = Excess(managers[old.managerAddress].lentAmount, part)
       /\ \A n \in Managers : n # old.managerAddress => managers'[n].lentAmount = managers[n].lentAmount
  <2>1. PICK h \in Managers : h = old.managerAddress
    BY <1>2a
  <2>2. managers[h].lentAmount \in Nat
    BY DEF BooksIInv, ManagersTyped
  <2>3. PICK rest \in Nat : rest = Excess(managers[h].lentAmount, part)
    BY <1>2i, <2>2 DEF Excess
  <2>4. managers' = [managers EXCEPT ![h].lentAmount = rest]
    BY <1>9, <2>1, <2>3
  <2> QED BY <2>1, <2>3, <2>4, ManagerChanges DEF BooksIInv
<1>10. /\ Unpaid(old) = Excess(old.amountBorrowed, old.amountRepayed) /\ Unpaid(loan) = Unpaid(old) - part
       /\ Lent(old) = Unpaid(old) /\ Lent(loan) = Lent(old) - part
       /\ Gained(loan) = Gained(old) + amount - part
  BY <1>1, <1>2a, <1>2i, <1>4, <1>7 DEF Unpaid, Lent, Gained, Canceled
<1>10a. Unpaid(old) \in Nat /\ Lent(old) \in Nat /\ Gained(old) \in Nat /\ part <= Unpaid(old)
  BY <1>2, <1>2i, <1>10, AmountsNat
<1>11. ASSUME NEW m \in Managers, managers[m].lentAmount = TotalUnpaid(loans, m)
       PROVE  managers'[m].lentAmount = managers[m].lentAmount - UnpaidTo(old, m) + UnpaidTo(loan, m)
  <2>1. managers[m].lentAmount \in Nat
    BY DEF BooksIInv, ManagersTyped
  <2>2. CASE m = old.managerAddress
    <3>1. managers'[m].lentAmount = Excess(managers[m].lentAmount, part)
      BY <1>9a, <2>2
    <3>2. UnpaidTo(old, m) = Unpaid(old) /\ UnpaidTo(loan, m) = Unpaid(old) - part
      BY <1>7, <1>10, <2>2 DEF UnpaidTo
    <3>3. Unpaid(old) <= managers[m].lentAmount
      BY <1>2, <1>11, <3>2
    <3>4. managers'[m].lentAmount = managers[m].lentAmount - part
      BY <1>2i, <1>10a, <2>1, <3>1, <3>3 DEF Excess
    <3> QED BY ONLY <1>2i, <1>10a, <2>1, <3>2, <3>4
  <2>3. CASE m # old.managerAddress
    <3>1. managers'[m].lentAmount = managers[m].lentAmount
      BY <1>9a, <2>3
    <3> QED BY <1>7, <2>1, <2>3, <3>1 DEF UnpaidTo
  <2> QED BY <2>2, <2>3
<1>12. ManagersTyped'
  BY <1>9a
<1>13. pool \in Nat /\ revenue \in Nat
  BY DEF BooksIInv, AmountsTyped
<1>14. pool' \in Nat /\ revenue' \in Nat /\ pool' + Lent(loan) = pool + Lent(old) /\ revenue' = revenue - Gained(old) + Gained(loan)
  BY ONLY <1>2g, <1>2i, <1>9, <1>10, <1>10a, <1>13
<1>20. Booked(w, l, old, loan)
  BY <1>0, <1>1, <1>4, <1>5, <1>8, <1>8a, <1>9, <1>11, <1>12, <1>14 DEF Booked
<1> QED BY ONLY BooksIInv, IInv', w \in Wallets, l \in Nat, <1>20, CallKeepsBooks

LEMMA SetManagerKeepsBooks ==
  ASSUME BooksIInv, IInv', NEW w \in Wallets, NEW l \in Nat, NEW manager \in Managers, SetManager(w, l, manager)
  PROVE  BooksIInv'
<1>0. PICK old : old = LoanOf(w, l)
  OBVIOUS
<1>1. UserOf(w) > 0 /\ l < Len(loans[UserOf(w)])
  BY DEF SetManager
<1>2. old \in Loan /\ SoundLoan(old, time)
  BY <1>0, <1>1, CalledLoanSound
<1>3. PICK loan : loan = [old EXCEPT !.managerAddress = manager]
  OBVIOUS
<1>4. loan \in Loan /\ loan.managerAddress = manager /\ SameBut(loan, old, {"managerAddress"})
  BY <1>2, <1>3 DEF Loan, LoanFields, SameBut
<1>5. SetLoan(w, l, loan)
  BY <1>0, <1>3 DEF SetManager
<1>7. /\ loan.startDate = old.startDate /\ loan.amountRepayed = old.amountRepayed
      /\ loan.amountBorrowed = old.amountBorrowed /\ loan.lastComputedDebt = old.lastComputedDebt
      /\ loan.lastComputedDate = old.lastComputedDate /\ loan.claimDeadline = old.claimDeadline
  BY <1>4 DEF SameBut, LoanFields
<1>8. SoundLoan(loan, time) /\ Lent(loan) = Lent(old) /\ Gained(loan) = Gained(old)
      /\ (CanBePaid(old) => CanBePaid(loan))
  BY <1>2, <1>7 DEF SoundLoan, Lent, Gained, CanBePaid, Canceled
<1>9. /\ managers' = managers /\ pool' = pool /\ revenue' = revenue /\ time' = time
      /\ mended \subseteq mended' /\ old.managerAddress \in mended' /\ manager \in mended'
  BY <1>0 DEF SetManager, Correction
<1>10. ASSUME NEW m \in Managers \ mended'
       PROVE  managers'[m].lentAmount = managers[m].lentAmount - UnpaidTo(old, m) + UnpaidTo(loan, m)
  <2>1. UnpaidTo(old, m) = 0 /\ UnpaidTo(loan, m) = 0
    BY <1>4, <1>9, <1>10 DEF UnpaidTo
  <2>2. managers[m].lentAmount \in Nat
    BY DEF BooksIInv, ManagersTyped
  <2> QED BY <1>9, <2>1, <2>2
<1>11. pool \in Nat /\ revenue \in Nat /\ Gained(old) \in Nat /\ ManagersTyped'
  BY <1>2, <1>9, AmountsNat DEF BooksIInv, AmountsTyped, ManagersTyped
<1>12. pool' \in Nat /\ revenue' \in Nat /\ pool' + Lent(loan) = pool + Lent(old) /\ revenue' = revenue - Gained(old) + Gained(loan)
  BY <1>8, <1>9, <1>11
<1>20. Booked(w, l, old, loan)
  BY <1>0, <1>1, <1>4, <1>5, <1>8, <1>9, <1>10, <1>11, <1>12 DEF Booked
<1> QED BY ONLY BooksIInv, IInv', w \in Wallets, l \in Nat, <1>20, CallKeepsBooks

LEMMA EditLoanKeepsBooks ==
  ASSUME BooksIInv, IInv', NEW w \in Wallets, NEW l \in Nat, NEW interest \in Nat, NEW debt \in Nat, NEW date \in Nat,
         EditLoan(w, l, interest, debt, date)
  PROVE  BooksIInv'
<1>0. PICK old : old = LoanOf(w, l)
  OBVIOUS
<1>1. UserOf(w) > 0 /\ l < Len(loans[UserOf(w)]) /\ old.startDate > 0 /\ date \in old.startDate..time
  BY <1>0 DEF EditLoan, LoanExists
<1>2. old \in Loan /\ SoundLoan(old, time) /\ old.startDate \in Nat /\ time \in Nat
  BY <1>0, <1>1, CalledLoanSound DEF Loan, BooksIInv, AmountsTyped
<1>3. PICK loan : loan = [old EXCEPT !.dailyInterest = interest, !.lastComputedDebt = debt, !.lastComputedDate = date]
  OBVIOUS
<1>4. /\ loan \in Loan /\ loan.lastComputedDate = date
      /\ SameBut(loan, old, {"dailyInterest", "lastComputedDebt", "lastComputedDate"})
  BY <1>2, <1>3 DEF Loan, LoanFields, SameBut
<1>5. SetLoan(w, l, loan)
  BY <1>0, <1>3 DEF EditLoan
<1>7. /\ loan.startDate = old.startDate /\ loan.amountRepayed = old.amountRepayed
      /\ loan.amountBorrowed = old.amountBorrowed /\ loan.managerAddress = old.managerAddress
      /\ loan.claimDeadline = old.claimDeadline
  BY <1>4 DEF SameBut, LoanFields
<1>8. SoundLoan(loan, time) /\ Lent(loan) = Lent(old) /\ Gained(loan) = Gained(old)
      /\ \A m : UnpaidTo(loan, m) = UnpaidTo(old, m)
  BY <1>1, <1>2, <1>4, <1>7 DEF SoundLoan, Lent, Gained, UnpaidTo, Unpaid, Canceled
<1>9. /\ managers' = managers /\ pool' = pool /\ revenue' = revenue /\ time' = time
      /\ mended \subseteq mended' /\ <<UserOf(w), l>> \in mended'
  BY <1>0 DEF EditLoan, Correction
<1>10. ASSUME NEW m \in Managers
       PROVE  managers'[m].lentAmount = managers[m].lentAmount - UnpaidTo(old, m) + UnpaidTo(loan, m)
  <2>1. managers[m].lentAmount \in Nat /\ UnpaidTo(old, m) \in Nat
    BY <1>2, AmountsNat DEF BooksIInv, ManagersTyped
  <2> QED BY <1>8, <1>9, <2>1
<1>11. pool \in Nat /\ revenue \in Nat /\ Gained(old) \in Nat /\ ManagersTyped'
  BY <1>2, <1>9, AmountsNat DEF BooksIInv, AmountsTyped, ManagersTyped
<1>12. pool' \in Nat /\ revenue' \in Nat /\ pool' + Lent(loan) = pool + Lent(old) /\ revenue' = revenue - Gained(old) + Gained(loan)
  BY <1>8, <1>9, <1>11
<1>20. Booked(w, l, old, loan)
  BY <1>0, <1>1, <1>4, <1>5, <1>8, <1>9, <1>10, <1>11, <1>12 DEF Booked
<1> QED BY ONLY BooksIInv, IInv', w \in Wallets, l \in Nat, <1>20, CallKeepsBooks

(***************************************************************************)
(* The other calls.                                                         *)
(***************************************************************************)
LEMMA AddLoanKeepsBooks ==
  ASSUME BooksIInv, IInv', NEW m \in Managers, NEW w \in Wallets, NEW amount \in Nat, NEW interest \in Nat,
         NEW deadline \in Nat, AddLoan(m, w, amount, interest, deadline)
  PROVE  BooksIInv'
<1>1. PICK loan : loan = NewLoan(m, amount, interest, deadline)
  OBVIOUS
<1>2. /\ loan \in Loan /\ loan.amountBorrowed = amount /\ loan.claimDeadline = deadline /\ loan.managerAddress = m
      /\ loan.startDate = 0 /\ loan.lastComputedDebt = 0 /\ loan.lastComputedDate = 0 /\ loan.amountRepayed = 0
  BY <1>1 DEF NewLoan, Loan
<1>3. /\ managers' = [managers EXCEPT ![m].lentAmount = @ + amount]
      /\ pool' = pool /\ revenue' = revenue /\ time' = time /\ mended' = mended /\ deadline > time
  BY DEF AddLoan, history
<1>4. Fits(loans) /\ time \in Nat /\ pool \in Nat /\ revenue \in Nat
  BY DEF BooksIInv, AmountsTyped
<1>5. Lengthened(loans, loan, loans')
  <2>1. CASE UserOf(w) = 0
    BY <1>1, <2>1 DEF AddLoan, Lengthened
  <2>2. CASE UserOf(w) # 0
    <3>1. UserOf(w) \in 0..Len(loans) /\ Len(loans) \in Nat /\ DOMAIN loans = 1..Len(loans)
      BY <1>4 DEF BooksIInv, IInv, WalletsKnown, Fits
    <3>2. UserOf(w) > 0 /\ UserOf(w) \in DOMAIN loans
      BY ONLY <2>2, <3>1
    <3>3. Len(loans[UserOf(w)]) < MaxLoans /\ loans' = [loans EXCEPT ![UserOf(w)] = Append(@, loan)]
      BY <1>1, <2>2, <3>2 DEF AddLoan
    <3> QED BY <3>2, <3>3 DEF Lengthened
  <2> QED BY <2>1, <2>2
<1>6. Fits(loans') /\ \E id : Grown(loans, loans', id, loan)
  <2>1. loan \in Loan
    BY <1>2
  <2> QED BY ONLY <1>4, <1>5, <2>1, IdsGrow
<1>7. PICK id : /\ id \notin IdsOf(loans) /\ IdsOf(loans') = IdsOf(loans) \cup {id} /\ LoanAt(loans', id) = loan
                /\ \A old \in IdsOf(loans) : LoanAt(loans', old) = LoanAt(loans, old)
  BY <1>6 DEF Grown
<1>8. /\ \A n : TotalUnpaid(loans', n) = TotalUnpaid(loans, n) + UnpaidTo(loan, n)
      /\ TotalLent(loans') = TotalLent(loans) + Lent(loan)
      /\ TotalGained(loans') = TotalGained(loans) + Gained(loan)
  <2>1. loan \in Loan
    BY <1>2
  <2> QED BY ONLY <1>4, <1>6, <1>7, <2>1, TotalsGrow
<1>9. Unpaid(loan) = amount /\ Lent(loan) = 0 /\ Gained(loan) = 0
  <2>1. deadline # 0
    BY <1>3, <1>4
  <2> QED BY <1>2, <2>1 DEF Unpaid, Lent, Gained, Canceled, Excess
<1>10. SoundLoan(loan, time) /\ CanBePaid(loan)
  BY <1>2, <1>4 DEF SoundLoan, CanBePaid
<1>11. Fits(loans)'
  BY <1>6 DEF Fits
<1>12. ManagersTyped'
  BY <1>3 DEF BooksIInv, ManagersTyped
<1>13. ASSUME NEW n \in Managers \ mended' PROVE managers'[n].lentAmount = TotalUnpaid(loans', n)
  <2>1. managers[n].lentAmount = TotalUnpaid(loans, n) /\ managers[n].lentAmount \in Nat
    BY <1>3, <1>13 DEF BooksIInv, LentAsPromised, ManagersTyped
  <2>2. CASE n = m
    <3>1. managers'[n].lentAmount = managers[n].lentAmount + amount
      BY <1>3, <2>2 DEF BooksIInv, ManagersTyped
    <3>2. UnpaidTo(loan, n) = amount
      BY <1>2, <1>9, <2>2 DEF UnpaidTo
    <3> QED BY <1>8, <2>1, <3>1, <3>2
  <2>3. CASE n # m
    <3>1. managers'[n].lentAmount = managers[n].lentAmount
      BY <1>3, <2>3 DEF BooksIInv, ManagersTyped
    <3>2. UnpaidTo(loan, n) = 0
      BY <1>2, <2>3 DEF UnpaidTo
    <3> QED BY <1>8, <2>1, <3>1, <3>2
  <2> QED BY <2>2, <2>3
<1>14. LentAsPromised'
  BY <1>13 DEF LentAsPromised, TotalUnpaid, IdsOf, LoanAt
<1>15. TotalLent(loans') = TotalLent(loans) /\ TotalGained(loans') = TotalGained(loans)
  <2>1. TotalLent(loans) \in Nat /\ TotalGained(loans) \in Nat
    BY <1>4, TotalsNat
  <2> QED BY <1>8, <1>9, <2>1
<1>16. PoolFollows' /\ RevenueFollows'
  <2>1. pool' + TotalLent(loans') = InitialPool /\ revenue' = TotalGained(loans')
    BY <1>3, <1>15 DEF BooksIInv, PoolFollows, RevenueFollows
  <2> QED BY <2>1 DEF PoolFollows, RevenueFollows, TotalLent, TotalGained, IdsOf, LoanAt
<1>17. \A i \in IdsOf(loans') : SoundLoan(LoanAt(loans', i), time')
  BY <1>3, <1>7, <1>10 DEF BooksIInv, LoansSound
<1>18. LoansSound'
  BY <1>17 DEF LoansSound, IdsOf, LoanAt, SoundLoan
<1>19. \A i \in IdsOf(loans') \ mended' : CanBePaid(LoanAt(loans', i))
  BY <1>3, <1>7, <1>10 DEF BooksIInv, DebtsSuffice
<1>20. DebtsSuffice'
  BY <1>19 DEF DebtsSuffice, IdsOf, LoanAt, CanBePaid
<1>21. AmountsTyped'
  BY <1>3 DEF BooksIInv, AmountsTyped
<1> QED BY <1>11, <1>12, <1>14, <1>16, <1>18, <1>20, <1>21 DEF BooksIInv

\* Managers come and go without changing what they have lent.
LEMMA ManagersKeepBooks ==
  ASSUME BooksIInv, IInv', NEW m \in Managers, NEW limit \in Nat, AddManager(m, limit) \/ RemoveManager(m)
  PROVE  BooksIInv'
<1>1. /\ loans' = loans /\ pool' = pool /\ revenue' = revenue /\ time' = time /\ mended' = mended
  BY DEF AddManager, RemoveManager, history
<1>2. ManagersTyped' /\ \A n \in Managers : managers'[n].lentAmount = managers[n].lentAmount
  <2>1. PICK yes \in BOOLEAN, most \in Nat :
          managers' = [managers EXCEPT ![m].listed = yes, ![m].lentAmountLimit = most]
    BY DEF AddManager, RemoveManager
  <2>2. managers[m] \in [listed : BOOLEAN, lentAmountLimit : Nat, lentAmount : Nat]
    BY DEF BooksIInv, ManagersTyped
  <2>3. PICK r : r = [managers[m] EXCEPT !.listed = yes, !.lentAmountLimit = most]
    OBVIOUS
  <2>4. r \in [listed : BOOLEAN, lentAmountLimit : Nat, lentAmount : Nat] /\ r.lentAmount = managers[m].lentAmount
    BY <2>2, <2>3
  <2>5. managers' = [managers EXCEPT ![m] = r]
    BY <2>1, <2>2, <2>3 DEF BooksIInv, ManagersTyped
  <2> QED BY <2>4, <2>5 DEF BooksIInv, ManagersTyped
<1>3. Fits(loans)' /\ AmountsTyped' /\ PoolFollows' /\ RevenueFollows' /\ LoansSound' /\ DebtsSuffice'
  BY <1>1 DEF BooksIInv, Fits, AmountsTyped, PoolFollows, RevenueFollows, LoansSound, DebtsSuffice,
              TotalLent, TotalGained, IdsOf, LoanAt, SoundLoan, CanBePaid
<1>4. LentAsPromised'
  BY <1>1, <1>2 DEF BooksIInv, LentAsPromised, TotalUnpaid, IdsOf, LoanAt
<1> QED BY <1>2, <1>3, <1>4 DEF BooksIInv

\* Where users are, who rewards and what time it is do not matter to the books.
LEMMA OthersKeepBooks ==
  ASSUME BooksIInv, IInv', UNCHANGED <<managers, loans, pool, revenue, mended>>,
         time' = time \/ time' = time + 1
  PROVE  BooksIInv'
<1>1. Fits(loans)' /\ ManagersTyped' /\ AmountsTyped'
  BY DEF BooksIInv, Fits, ManagersTyped, AmountsTyped
<1>1a. PoolFollows' /\ RevenueFollows'
  BY DEF BooksIInv, PoolFollows, RevenueFollows, TotalLent, TotalGained, IdsOf, LoanAt
<1>1b. DebtsSuffice'
  BY DEF BooksIInv, DebtsSuffice, IdsOf, LoanAt, CanBePaid
<1>2. LentAsPromised'
  BY DEF BooksIInv, LentAsPromised, TotalUnpaid, IdsOf, LoanAt
<1>3. ASSUME NEW id \in IdsOf(loans) PROVE SoundLoan(LoanAt(loans, id), time')
  <2>1. LoanAt(loans, id) \in Loan /\ SoundLoan(LoanAt(loans, id), time) /\ time \in Nat
    BY <1>3, IdsFinite DEF BooksIInv, LoansSound, AmountsTyped
  <2> QED BY <2>1 DEF SoundLoan, Loan
<1>4. LoansSound'
  BY <1>3 DEF LoansSound, IdsOf, LoanAt, SoundLoan
<1> QED BY <1>1, <1>1a, <1>1b, <1>2, <1>4 DEF BooksIInv

LEMMA StepKeepsBooks == BooksIInv /\ [MicrocreditNext]_microcreditVars => BooksIInv'
<1> SUFFICES ASSUME BooksIInv, [MicrocreditNext]_microcreditVars PROVE BooksIInv'
  OBVIOUS
<1>1. /\ LoanIds \subseteq Nat /\ Limits \subseteq Nat /\ LoanAmounts \subseteq Nat /\ Interests \subseteq Nat
      /\ RepaymentAmounts \subseteq Nat /\ Corrections \subseteq Nat
  BY MicrocreditAssumption DEF LoanIds
<1>2. Deadlines \subseteq Nat /\ 1..time \subseteq Nat
  BY DEF Deadlines, BooksIInv, AmountsTyped
<1>3. IInv'
  BY StepKeepsOneLoan DEF BooksIInv
<1>4. CASE Transaction
  <2>1. CASE \E m \in Managers, limit \in Limits : AddManager(m, limit)
    BY <2>1, <1>1, <1>3, ManagersKeepBooks
  <2>2. CASE \E m \in Managers : RemoveManager(m)
    <3>1. 0 \in Nat
      OBVIOUS
    <3> QED BY <2>2, <1>3, <3>1, ManagersKeepBooks
  <2>3. CASE \E m \in Managers, w \in Wallets, a \in LoanAmounts, i \in Interests, d \in Deadlines :
               AddLoan(m, w, a, i, d)
    BY <2>3, <1>1, <1>2, <1>3, AddLoanKeepsBooks
  <2>4. CASE \E w \in Wallets, l \in LoanIds, d \in Deadlines : EditLoanClaimDeadline(w, l, d)
    BY <2>4, <1>1, <1>2, <1>3, EditDeadlineKeepsBooks
  <2>5. CASE \E w \in Wallets, l \in LoanIds : CancelLoan(w, l) \/ ClaimLoan(w, l)
    BY <2>5, <1>1, <1>3, CancelKeepsBooks, ClaimKeepsBooks
  <2>6. CASE \E old, new \in Wallets : ChangeUserAddress(old, new)
    BY <2>6, <1>3, OthersKeepBooks DEF ChangeUserAddress, history
  <2>7. CASE \E w \in Wallets, l \in LoanIds, a \in RepaymentAmounts : RepayLoan(w, l, a)
    BY <2>7, <1>1, <1>3, RepayKeepsBooks
  <2>8. CASE \E w \in Wallets, l \in LoanIds, m \in Managers : SetManager(w, l, m)
    BY <2>8, <1>1, <1>3, SetManagerKeepsBooks
  <2>9. CASE \E w \in Wallets, l \in LoanIds, i \in Interests, debt \in Corrections, date \in 1..time :
               EditLoan(w, l, i, debt, date)
    BY <2>9, <1>1, <1>2, <1>3, EditLoanKeepsBooks
  <2>10. CASE \E miner \in {None, "accepts", "refuses"} : UpdateDonationMiner(miner)
    BY <2>10, <1>3, OthersKeepBooks DEF UpdateDonationMiner, history
  <2> QED BY <1>4, <2>1, <2>2, <2>3, <2>4, <2>5, <2>6, <2>7, <2>8, <2>9, <2>10 DEF Transaction
<1>5. CASE TimePasses
  BY <1>3, <1>5, OthersKeepBooks DEF TimePasses, history
<1>6. CASE UNCHANGED microcreditVars
  BY <1>3, <1>6, OthersKeepBooks DEF microcreditVars, history
<1> QED BY <1>4, <1>5, <1>6 DEF MicrocreditNext

\* What a manager has lent is the principal that is out or promised, the principal comes
\* back to the contract and the interest to the revenue address, and no debt that nobody
\* has edited falls below the principal that is left, whatever is lent, repaid in parts,
\* canceled and moved.
THEOREM BooksAreKept == MicrocreditSpec => []BooksFollowLoans
<1>1. MicrocreditInit => BooksIInv
  BY InitBooks
<1>2. BooksIInv /\ [MicrocreditNext]_microcreditVars => BooksIInv'
  BY StepKeepsBooks
<1>3. BooksIInv => BooksFollowLoans
  BY BooksFollow
<1> QED BY <1>1, <1>2, <1>3, PTL DEF MicrocreditSpec
================================================================================
