----------------------------- MODULE StakingProofs -----------------------------
(***************************************************************************)
(* Staking: its books, the amounts the miner works with and the payments,    *)
(* and that PACT and SPACT together implement the ledger of final votes, for *)
(* every set of holders, supply, set of cooldowns and number of blocks.       *)
(*                                                                          *)
(* The inductive invariant adds to the properties that both tokens are sound *)
(* (VotingPowerProofs), that no claim is past the last unstake, and that the *)
(* contract has never chosen a delegate for the PACT it holds: the PACT      *)
(* behind the SPACT carries no votes of its own.                             *)
(***************************************************************************)
EXTENDS Staking, VotingPowerProofs

(***************************************************************************)
(* The unstakes.                                                            *)
(***************************************************************************)

\* The sum of the unstakes first..last of the sequence u.
Unstaked(u, first, last) == SumFunction([i \in first..last |-> u[i].amount])

AmountsOf(u) == [i \in DOMAIN u |-> u[i].amount]

\* A sum over the entries of a sequence is one over a set of its indexes.
LEMMA UnstakedIsSum ==
  ASSUME NEW u \in Seq(Unstake), NEW first \in Nat, NEW last \in Nat,
         first >= 1, last <= Len(u)
  PROVE  /\ first..last \in SUBSET (1..Len(u)) /\ IsFiniteSet(first..last)
         /\ \A i \in 1..Len(u) : AmountsOf(u)[i] \in Nat /\ AmountsOf(u)[i] = u[i].amount
         /\ Unstaked(u, first, last) = SumFunctionOnSet(AmountsOf(u), first..last)
         /\ Unstaked(u, first, last) \in Nat
<1> DEFINE f == [i \in first..last |-> u[i].amount]
<1>0. Supply \in Nat
  BY StakingAssumption
<1>1. /\ first..last \in SUBSET (1..Len(u)) /\ IsFiniteSet(first..last)
  BY FS_Interval
<1>2. \A i \in 1..Len(u) : AmountsOf(u)[i] \in Nat /\ AmountsOf(u)[i] = u[i].amount
  <2> SUFFICES ASSUME NEW i \in 1..Len(u)
               PROVE  AmountsOf(u)[i] \in Nat /\ AmountsOf(u)[i] = u[i].amount
    OBVIOUS
  <2>1. u[i] \in Unstake
    BY ElementOfSeq
  <2>. QED  BY <1>0, <2>1 DEF AmountsOf, Unstake, Amounts
<1>3. Unstaked(u, first, last) = SumFunctionOnSet(f, first..last)
  BY DEF Unstaked, SumFunction
<1>4. \A i \in first..last : AmountsOf(u)[i] \in Int /\ f[i] = AmountsOf(u)[i]
  BY <1>1, <1>2
<1>5. SumFunctionOnSet(f, first..last) = SumFunctionOnSet(AmountsOf(u), first..last)
  <2>. HIDE DEF f
  <2>. QED  BY <1>1, <1>4, SumSame
<1>6. SumFunctionOnSet(AmountsOf(u), first..last) \in Nat
  <2>1. \A i \in first..last : AmountsOf(u)[i] \in Nat
    BY <1>1, <1>2
  <2>. QED  BY <1>1, <2>1, SumNat
<1>. QED  BY <1>1, <1>2, <1>3, <1>5, <1>6

\* What is unpaid is what a claim pays and what it leaves.
LEMMA UnstakedSplit ==
  ASSUME NEW u \in Seq(Unstake), NEW n \in Nat, NEW m \in Nat, n <= m, m <= Len(u)
  PROVE  /\ Unstaked(u, n + 1, m) \in Nat /\ Unstaked(u, m + 1, Len(u)) \in Nat
         /\ Unstaked(u, n + 1, Len(u)) = Unstaked(u, n + 1, m) + Unstaked(u, m + 1, Len(u))
<1> DEFINE S == (n + 1)..m
           T == (m + 1)..Len(u)
<1>1. /\ n + 1 \in Nat /\ m + 1 \in Nat /\ Len(u) \in Nat /\ n + 1 >= 1 /\ m + 1 >= 1
      /\ Len(u) <= Len(u)
      /\ S \cap T = {} /\ S \cup T = (n + 1)..Len(u)
  OBVIOUS
<1>2. /\ Unstaked(u, n + 1, m) = SumFunctionOnSet(AmountsOf(u), S)
      /\ Unstaked(u, n + 1, m) \in Nat /\ IsFiniteSet(S) /\ S \in SUBSET (1..Len(u))
      /\ \A i \in 1..Len(u) : AmountsOf(u)[i] \in Nat
  BY <1>1, UnstakedIsSum
<1>3. /\ Unstaked(u, m + 1, Len(u)) = SumFunctionOnSet(AmountsOf(u), T)
      /\ Unstaked(u, m + 1, Len(u)) \in Nat /\ IsFiniteSet(T) /\ T \in SUBSET (1..Len(u))
  BY <1>1, UnstakedIsSum
<1>4. Unstaked(u, n + 1, Len(u)) = SumFunctionOnSet(AmountsOf(u), (n + 1)..Len(u))
  BY <1>1, UnstakedIsSum
<1>5. SumFunctionOnSet(AmountsOf(u), S \cup T)
        = SumFunctionOnSet(AmountsOf(u), S) + SumFunctionOnSet(AmountsOf(u), T)
  <2>1. \A i \in S \cup T : AmountsOf(u)[i] \in Int
    BY <1>2, <1>3
  <2>. HIDE DEF S, T
  <2>. QED  BY <1>1, <1>2, <1>3, <2>1, SumUnion
<1>. QED  BY <1>1, <1>2, <1>3, <1>4, <1>5

\* A new unstake is unpaid.
LEMMA UnstakedAppend ==
  ASSUME NEW u \in Seq(Unstake), NEW n \in Nat, n <= Len(u), NEW e \in Unstake,
         NEW u2, u2 = Append(u, e)
  PROVE  /\ u2 \in Seq(Unstake) /\ Len(u2) = Len(u) + 1
         /\ Unstaked(u, n + 1, Len(u)) \in Nat
         /\ Unstaked(u2, n + 1, Len(u2)) = Unstaked(u, n + 1, Len(u)) + e.amount
<1> DEFINE S == (n + 1)..Len(u)
<1>1. /\ u2 \in Seq(Unstake) /\ Len(u2) = Len(u) + 1 /\ u2[Len(u2)] = e
      /\ \A i \in 1..Len(u) : u2[i] = u[i]
  BY AppendProperties
<1>2. /\ n + 1 \in Nat /\ Len(u) \in Nat /\ Len(u2) \in Nat /\ n + 1 >= 1
      /\ Len(u) <= Len(u) /\ Len(u2) <= Len(u2)
      /\ (n + 1)..Len(u2) = S \cup {Len(u2)} /\ Len(u2) \notin S
  BY <1>1
<1>3. /\ Unstaked(u, n + 1, Len(u)) = SumFunctionOnSet(AmountsOf(u), S)
      /\ Unstaked(u, n + 1, Len(u)) \in Nat /\ IsFiniteSet(S) /\ S \in SUBSET (1..Len(u))
      /\ \A i \in 1..Len(u) : AmountsOf(u)[i] \in Nat /\ AmountsOf(u)[i] = u[i].amount
  BY <1>2, UnstakedIsSum
<1>4. /\ Unstaked(u2, n + 1, Len(u2)) = SumFunctionOnSet(AmountsOf(u2), S \cup {Len(u2)})
      /\ \A i \in 1..Len(u2) : AmountsOf(u2)[i] \in Nat /\ AmountsOf(u2)[i] = u2[i].amount
  <2>1. /\ Unstaked(u2, n + 1, Len(u2)) = SumFunctionOnSet(AmountsOf(u2), (n + 1)..Len(u2))
        /\ \A i \in 1..Len(u2) : AmountsOf(u2)[i] \in Nat /\ AmountsOf(u2)[i] = u2[i].amount
    BY ONLY <1>1, <1>2, UnstakedIsSum
  <2>. HIDE DEF S
  <2>. QED  BY <1>2, <2>1
<1>5. \A i \in S : AmountsOf(u)[i] \in Int /\ AmountsOf(u2)[i] = AmountsOf(u)[i]
  BY <1>1, <1>2, <1>3, <1>4
<1>6. SumFunctionOnSet(AmountsOf(u2), S) = SumFunctionOnSet(AmountsOf(u), S)
  <2>. HIDE DEF S
  <2>. QED  BY <1>3, <1>5, SumSame
<1>7. SumFunctionOnSet(AmountsOf(u2), S \cup {Len(u2)})
        = AmountsOf(u2)[Len(u2)] + SumFunctionOnSet(AmountsOf(u2), S)
  <2>1. \A i \in S \cup {Len(u2)} : AmountsOf(u2)[i] \in Int
    BY <1>1, <1>2, <1>3, <1>4
  <2>. HIDE DEF S
  <2>. QED  BY <1>2, <1>3, <2>1, SumAdd
<1>8. AmountsOf(u2)[Len(u2)] = e.amount /\ e.amount \in Nat
  BY <1>1, <1>2, <1>4, StakingAssumption DEF Unstake, Amounts
<1>. HIDE DEF S
<1>. QED  BY <1>1, <1>3, <1>4, <1>6, <1>7, <1>8

\* A set of indexes that holds, with each of its members, those from n on up to it
\* is an interval.
LEMMA Prefix ==
  ASSUME NEW n \in Nat, NEW last \in Int, NEW P, P \in SUBSET (n..last),
         \A i \in P : n..i \in SUBSET P
  PROVE  /\ Cardinality(P) \in Nat
         /\ P = n..(n + Cardinality(P) - 1)
         /\ P # {} => n + Cardinality(P) <= last + 1
<1> DEFINE T == {i \in Nat : i >= n /\ i \notin P}
<1>1. T \subseteq Nat /\ T # {}
  <2>1. CASE last < n
    BY <2>1
  <2>2. CASE last >= n
    <3>1. last + 1 \in T
      BY <2>2
    <3>. QED  BY <3>1
  <2>. QED  BY <2>1, <2>2
<1>2. PICK m \in T : \A k \in T : m <= k
  BY <1>1, LeastNatural
<1>3. P = n..(m - 1)
  <2>1. ASSUME NEW i \in n..(m - 1) PROVE i \in P
    <3>1. i \in Nat /\ i >= n /\ ~(m <= i)
      BY <1>1, <1>2
    <3>. QED  BY <1>2, <3>1
  <2>2. ASSUME NEW i \in P PROVE i \in n..(m - 1)
    <3>1. i \in Int /\ n <= i /\ m \in Nat /\ m >= n
      BY <1>2
    <3>2. CASE i >= m
      <4>1. m \in n..i
        BY <3>1, <3>2
      <4>2. m \in P
        BY <4>1
      <4>. QED  BY <1>2, <4>2
    <3>. QED  BY <3>1, <3>2
  <2>. QED  BY <2>1, <2>2
<1>4. m \in Nat /\ n <= m
  BY <1>2
<1>5. Cardinality(P) = m - n
  <2>1. Cardinality(n..(m - 1)) = IF n > m - 1 THEN 0 ELSE (m - 1) - n + 1
    BY <1>4, FS_Interval
  <2>. HIDE DEF T
  <2>. QED  BY <1>3, <1>4, <2>1
<1>6. P # {} => m <= last + 1
  <2>. HIDE DEF T
  <2>1. ASSUME P # {} PROVE m <= last + 1
    <3>1. n <= m - 1
      BY <1>3, <1>4, <2>1
    <3>2. m - 1 \in P
      BY <1>3, <1>4, <3>1
    <3>. QED  BY <1>4, <3>2
  <2>. QED  BY <2>1
<1>. HIDE DEF T
<1>. QED  BY <1>3, <1>4, <1>5, <1>6

\* A claim of holder h up to entry last moves the next unpaid entry from n to m.
Pays(h, last, u, n, m) ==
  /\ u = holders[h].unstakes /\ n = holders[h].nextUnstakeId
  /\ last < Len(u)
  /\ m = n + Cardinality(Payable(h, last))

\* The cooldown block of these unstakes has come.
Cooled(u, n, m) == \A i \in (n + 1)..m : u[i].cooldownBlock <= block

\* It pays the unstakes in between, all of which have cooled down.
LEMMA ClaimPays ==
  ASSUME NEW h, NEW u \in Seq(Unstake), NEW n \in Nat, n <= Len(u), block \in Nat,
         NEW last \in Int, NEW m, Pays(h, last, u, n, m)
  PROVE  /\ m \in Nat /\ n <= m /\ m <= Len(u)
         /\ ClaimAmount(h, last) = Unstaked(u, n + 1, m)
         /\ Cooled(u, n, m)
<1> DEFINE P == Payable(h, last)
           f == [i \in P |-> u[i + 1].amount]
           key == [i \in P |-> i + 1]
           D == (n + 1)..m
<1>0. /\ u = holders[h].unstakes /\ n = holders[h].nextUnstakeId
      /\ last < Len(u) /\ m = n + Cardinality(P)
  BY DEF Pays
<1>1. P = {i \in n..last : \A j \in n..i : u[j + 1].cooldownBlock < block}
  BY <1>0 DEF Payable
<1>2. P \in SUBSET (n..last) /\ \A i \in P : n..i \in SUBSET P
  <2>1. ASSUME NEW i \in P, NEW j \in n..i PROVE j \in P
    <3>1. i \in n..last /\ \A k \in n..i : u[k + 1].cooldownBlock < block
      BY <1>1
    <3>2. j \in n..last /\ n..j \in SUBSET (n..i)
      BY ONLY <3>1, n \in Nat, last \in Int, j \in n..i
    <3>. QED  BY <1>1, <3>1, <3>2
  <2>. QED  BY <1>1, <2>1
<1>3. /\ Cardinality(P) \in Nat
      /\ P = n..(n + Cardinality(P) - 1)
      /\ P # {} => n + Cardinality(P) <= last + 1
  <2>. HIDE DEF P
  <2>. QED  BY <1>2, Prefix
<1>4. m \in Nat /\ n <= m /\ m <= Len(u) /\ P = n..(m - 1)
  <2>1. m = n + Cardinality(P) /\ Len(u) \in Nat /\ last < Len(u)
    BY <1>0
  <2>2. m \in Nat /\ n <= m /\ P = n..(m - 1)
    <3>. HIDE DEF P
    <3>1. PICK c : c = Cardinality(P)
      OBVIOUS
    <3>2. n \in Nat /\ c \in Nat /\ m = n + c
      BY <1>3, <2>1, <3>1
    <3>3. P = n..(n + c - 1)
      BY <1>3, <3>1
    <3>4. m \in Nat /\ n <= m /\ n + c - 1 = m - 1
      BY ONLY <3>2
    <3>. QED  BY ONLY <3>3, <3>4
  <2>3. CASE P = {}
    <3>1. ~(n <= m - 1)
      <4>. HIDE DEF P
      <4>. QED  BY <2>2, <2>3
    <3>. QED  BY <2>1, <2>2, <3>1
  <2>4. CASE P # {}
    <3>1. m <= last + 1
      <4>. HIDE DEF P
      <4>. QED  BY <1>3, <2>1, <2>4
    <3>2. m <= Len(u)
      BY <2>1, <2>2, <3>1
    <3>. QED  BY <2>2, <3>2
  <2>. QED  BY <2>2, <2>3, <2>4
<1>5. \A i \in D : /\ i \in 1..Len(u) /\ i - 1 \in P
                   /\ u[i].cooldownBlock <= block
  <2> SUFFICES ASSUME NEW i \in D
               PROVE  /\ i \in 1..Len(u) /\ i - 1 \in P
                      /\ u[i].cooldownBlock <= block
    OBVIOUS
  <2>1. i \in 1..Len(u) /\ i - 1 \in n..(m - 1) /\ (i - 1) + 1 = i
    BY <1>4
  <2>2. i - 1 \in P
    BY <1>4, <2>1
  <2>3. u[(i - 1) + 1].cooldownBlock < block
    <3>1. i - 1 \in n..(i - 1)
      BY <2>1
    <3>. QED  BY <1>1, <2>2, <3>1
  <2>4. u[i].cooldownBlock \in Nat /\ u[i].cooldownBlock < block
    <3>1. u[i] \in Unstake /\ (i - 1) + 1 = i
      BY <2>1
    <3>. QED  BY <2>3, <3>1 DEF Unstake
  <2>. QED  BY <2>1, <2>2, <2>4
<1>6. IsFiniteSet(P) /\ IsFiniteSet(D)
  <2>1. n \in Int /\ m - 1 \in Int /\ n + 1 \in Int /\ m \in Int
    BY <1>4
  <2>2. IsFiniteSet(n..(m - 1)) /\ IsFiniteSet((n + 1)..m)
    BY ONLY <2>1, FS_Interval
  <2>. HIDE DEF P
  <2>. QED  BY <1>4, <2>2
<1>7. /\ \A i \in 1..Len(u) : AmountsOf(u)[i] \in Nat /\ AmountsOf(u)[i] = u[i].amount
      /\ Unstaked(u, n + 1, m) = SumFunctionOnSet(AmountsOf(u), D)
  <2>1. n + 1 \in Nat /\ n + 1 >= 1
    OBVIOUS
  <2>. QED  BY ONLY <1>4, <2>1, u \in Seq(Unstake), UnstakedIsSum DEF D
<1>8. \A i \in P : f[i] \in Int /\ i + 1 \in D /\ i + 1 \in 1..Len(u)
  <2> SUFFICES ASSUME NEW i \in P
               PROVE  f[i] \in Int /\ i + 1 \in D /\ i + 1 \in 1..Len(u)
    OBVIOUS
  <2>1. i + 1 \in D /\ i + 1 \in 1..Len(u)
    <3>. HIDE DEF P
    <3>. QED  BY <1>4
  <2>. QED  BY <1>7, <2>1
<1>9. \A d \in D : AmountsOf(u)[d] = SumFunctionOnSet(f, {a \in P : key[a] = d})
  <2> SUFFICES ASSUME NEW d \in D
               PROVE  AmountsOf(u)[d] = SumFunctionOnSet(f, {a \in P : key[a] = d})
    OBVIOUS
  <2>1. d \in 1..Len(u) /\ d - 1 \in P /\ (d - 1) + 1 = d
    BY <1>5
  <2>2. {a \in P : key[a] = d} = {d - 1}
    <3>1. \A a \in P : a \in Int
      BY <1>4
    <3>. HIDE DEF P
    <3>. QED  BY <2>1, <3>1
  <2>3. f[d - 1] = AmountsOf(u)[d] /\ f[d - 1] \in Int
    BY <1>7, <2>1
  <2>4. SumFunctionOnSet(f, {d - 1}) = f[d - 1]
    <3>. HIDE DEF f, P
    <3>. QED  BY <2>3, SumOne
  <2>. HIDE DEF f, P, key
  <2>. QED  BY <2>2, <2>3, <2>4
<1>10. SumFunctionOnSet(AmountsOf(u), D) = SumFunctionOnSet(f, {a \in P : key[a] \in D})
  <2>1. \A i \in P : f[i] \in Int
    BY <1>8
  <2>. HIDE DEF f, P, key, D
  <2>. QED  BY ONLY <1>6, <2>1, <1>9, SumOfGroups
<1>11. {a \in P : key[a] \in D} = P
  BY <1>8
<1>12. ClaimAmount(h, last) = SumFunctionOnSet(f, P)
  BY <1>0 DEF ClaimAmount, SumFunction
<1>13. Cooled(u, n, m)
  BY <1>5 DEF Cooled
<1>. HIDE DEF f, P, key
<1>. QED  BY <1>4, <1>7, <1>10, <1>11, <1>12, <1>13

(***************************************************************************)
(* The stakes.                                                              *)
(***************************************************************************)
HolderRecords == [amount : Amounts, nextUnstakeId : Nat, unstakes : Seq(Unstake)]

Stakes(hs) == [h \in Accounts |-> hs[h].amount]

\* Only the record of holder h is another one.
OnlyChanges(hs, hs2, h) ==
  /\ hs2 \in [Accounts -> HolderRecords]
  /\ \A x \in Accounts \ {h} : hs2[x] = hs[x]

\* The sum of the stakes follows the one that changes.
LEMMA StakeChanges ==
  ASSUME NEW hs \in [Accounts -> HolderRecords], NEW hs2, NEW h \in Accounts,
         OnlyChanges(hs, hs2, h)
  PROVE  /\ SumFunction(Stakes(hs)) \in Nat /\ SumFunction(Stakes(hs2)) \in Nat
         /\ hs[h].amount \in Amounts /\ hs2[h].amount \in Amounts
         /\ hs[h].amount <= SumFunction(Stakes(hs))
         /\ SumFunction(Stakes(hs2)) = SumFunction(Stakes(hs)) - hs[h].amount + hs2[h].amount
         /\ Stakes(hs2) = [Stakes(hs) EXCEPT ![h] = hs2[h].amount]
<1>0. Supply \in Nat
  BY StakingAssumption
<1>1. \A x \in Accounts : hs[x].amount \in Amounts /\ hs2[x].amount \in Amounts
  <2> SUFFICES ASSUME NEW x \in Accounts
               PROVE  hs[x].amount \in Amounts /\ hs2[x].amount \in Amounts
    OBVIOUS
  <2>1. hs[x] \in HolderRecords /\ hs2[x] \in HolderRecords
    BY DEF OnlyChanges
  <2>. QED  BY <2>1 DEF HolderRecords
<1>2. /\ SumFunction(Stakes(hs)) = SumFunctionOnSet(Stakes(hs), Accounts)
      /\ SumFunction(Stakes(hs2)) = SumFunctionOnSet(Stakes(hs2), Accounts)
  BY DEF SumFunction, Stakes
<1>3. \A x \in Accounts : Stakes(hs)[x] \in Nat /\ Stakes(hs2)[x] \in Nat
  BY <1>0, <1>1 DEF Stakes, Amounts
<1>4. \A x \in Accounts : x # h => Stakes(hs2)[x] = Stakes(hs)[x]
  BY DEF Stakes, OnlyChanges
<1>5. /\ SumFunctionOnSet(Stakes(hs), Accounts) \in Nat
      /\ SumFunctionOnSet(Stakes(hs2), Accounts) \in Nat
      /\ Stakes(hs)[h] <= SumFunctionOnSet(Stakes(hs), Accounts)
  <2>1. (\A x \in Accounts : Stakes(hs)[x] \in Nat) /\ (\A x \in Accounts : Stakes(hs2)[x] \in Nat)
    BY <1>3
  <2>. QED  BY <2>1, AccountsAssumption, SumNat, SumBoundsElement
<1>6. SumFunctionOnSet(Stakes(hs2), Accounts)
        = SumFunctionOnSet(Stakes(hs), Accounts) - Stakes(hs)[h] + Stakes(hs2)[h]
  <2>1. PICK f, g : f = Stakes(hs) /\ g = Stakes(hs2)
    OBVIOUS
  <2>2. /\ \A x \in Accounts : f[x] \in Nat /\ g[x] \in Nat /\ g[x] = IF x = h THEN g[h] ELSE f[x]
        /\ IsFiniteSet(Accounts)
    BY <1>3, <1>4, <2>1, AccountsAssumption
  <2>3. SumFunctionOnSet(g, Accounts) = SumFunctionOnSet(f, Accounts) - f[h] + g[h]
    BY <2>2, SumChange
  <2>. QED  BY <2>1, <2>3
<1>7. Stakes(hs)[h] = hs[h].amount /\ Stakes(hs2)[h] = hs2[h].amount
  BY DEF Stakes
<1>8. Stakes(hs2) = [Stakes(hs) EXCEPT ![h] = hs2[h].amount]
  BY <1>4 DEF Stakes
<1>. QED  BY <1>1, <1>2, <1>5, <1>6, <1>7, <1>8

\* What a holder has staked, and unstaked and not yet claimed.
Unpaid(r) == Unstaked(r.unstakes, r.nextUnstakeId + 1, Len(r.unstakes))

Owed(r) == r.amount + Unpaid(r)

(***************************************************************************)
(* The inductive invariant.                                                 *)
(***************************************************************************)
TokensSound ==
  /\ TokenSound(pact, Supply, MaxBlock, block) /\ pact.supply = Supply
  /\ TokenSound(spact, Supply, MaxBlock, block)

BooksKept ==
  \A h \in Accounts : /\ holders[h].nextUnstakeId <= Len(holders[h].unstakes)
                      /\ spact.balances[h] = Owed(holders[h])

IInv ==
  /\ TypeOK
  /\ TokensSound
  /\ pact.delegates[StakingContract] = ZeroAddress
  /\ pact.balances[StakingContract] >= spact.supply
  /\ BooksKept
  /\ currentTotalAmount = SumFunction(Stakes(holders))
  /\ MinerInSync

\* What a step may do: keep the past, and burn only for unstakes that cooled.
PaysWhatCooled ==
  \A h \in Accounts : spact'.balances[h] < spact.balances[h] =>
    LET paid == (holders[h].nextUnstakeId + 1)..holders'[h].nextUnstakeId
    IN  /\ \A i \in paid : holders[h].unstakes[i].cooldownBlock <= block
        /\ spact.balances[h] - spact'.balances[h] =
             SumFunction([i \in paid |-> holders[h].unstakes[i].amount])
        /\ pact'.balances[h] - pact.balances[h] = spact.balances[h] - spact'.balances[h]

PastKept ==
  /\ block' = block
  /\ SamePast(pact, pact', block)
  /\ SamePast(spact, spact', block)

LEMMA InitEstablishesIInv == Init => IInv
<1> SUFFICES ASSUME Init PROVE IInv
  OBVIOUS
<1>0. /\ Supply \in Nat /\ MaxBlock \in Nat /\ 1 \in 1..MaxBlock /\ StakingContract \in Accounts
      /\ 0 \in Amounts /\ IsFiniteSet(Accounts)
  BY StakingAssumption, AccountsAssumption DEF Amounts
<1>1. TokenSound(NewToken, Supply, MaxBlock, 1)
  BY <1>0, NewTokenLemma
<1>2. /\ NewToken.supply = 0 /\ \A a \in Accounts : NewToken.balances[a] = 0
      /\ \A a \in Accounts : NewToken.delegates[a] = ZeroAddress
      /\ \A a \in Accounts : NewToken.checkpoints[a] = << >>
      /\ NewToken \in TokenRecords(Supply, MaxBlock)
  BY <1>1 DEF NewToken, TokenSound
<1>3. pact = [balances |-> InitialBalances, delegates |-> NewToken.delegates,
              checkpoints |-> NewToken.checkpoints, nonces |-> NewToken.nonces, supply |-> Supply]
  BY DEF Init, NewToken
<1>4. TokenSound(pact, Supply, MaxBlock, 1)
  <2>1. pact \in TokenRecords(Supply, MaxBlock)
    <3>1. InitialBalances \in [Accounts -> 0..Supply] /\ Supply \in 0..Supply
      BY StakingAssumption
    <3>. QED  BY <1>2, <1>3, <3>1, TokenFields DEF TokenRecords
  <2>2. CheckpointsOrdered(pact, 1)
    BY <1>1, <1>3 DEF TokenSound, CheckpointsOrdered
  <2>3. SumFunctionOnSet(pact.balances, Accounts) = pact.supply
    BY <1>3, StakingAssumption, SupplyIsSum
  <2>4. VotesFollowBalances(pact)
    <3> SUFFICES ASSUME NEW d \in Accounts
                 PROVE  CurrentVotes(pact.checkpoints[d])
                          = SumFunctionOnSet(pact.balances, Delegators(pact, d))
      BY DEF VotesFollowBalances
    <3>1. Delegators(pact, d) = {}
      BY <1>2, <1>3, ZeroAddressAssumption DEF Delegators
    <3>2. CurrentVotes(pact.checkpoints[d]) = 0
      BY <1>2, <1>3 DEF CurrentVotes
    <3>. QED  BY <3>1, <3>2, SumEmpty
  <2>. QED  BY <2>1, <2>2, <2>3, <2>4 DEF TokenSound
<1>5. TokensSound
  BY <1>1, <1>3, <1>4 DEF Init, TokensSound
<1>6. /\ holders \in [Accounts -> HolderRecords]
      /\ \A a \in Accounts : holders[a] = [amount |-> 0, nextUnstakeId |-> 0, unstakes |-> << >>]
  BY <1>0 DEF Init, HolderRecords
<1>7. SumFunction(Stakes(holders)) = 0 /\ Stakes(holders) = [a \in Accounts |-> 0]
  <2>1. \A a \in Accounts : Stakes(holders)[a] = 0
    BY <1>6 DEF Stakes
  <2>2. SumFunctionOnSet(Stakes(holders), Accounts) = 0
    BY <1>0, <2>1, SumZero
  <2>. QED  BY <1>6, <2>2 DEF Stakes, SumFunction
<1>8. TypeOK
  BY <1>0, <1>4, <1>5, <1>6 DEF TypeOK, Init, TokensSound, TokenSound, HolderRecords
<1>9. BooksKept
  <2> SUFFICES ASSUME NEW h \in Accounts
               PROVE  /\ holders[h].nextUnstakeId <= Len(holders[h].unstakes)
                      /\ spact.balances[h] = Owed(holders[h])
    BY DEF BooksKept
  <2>1. /\ holders[h].amount = 0 /\ holders[h].nextUnstakeId = 0
        /\ holders[h].unstakes = << >> /\ Len(<< >>) = 0
    BY <1>6
  <2>2. Unstaked(<< >>, 0 + 1, 0) = 0
    BY SumEmpty DEF Unstaked, SumFunction
  <2>3. spact.balances[h] = 0
    BY <1>2 DEF Init
  <2>. QED  BY <2>1, <2>2, <2>3 DEF Owed, Unpaid
<1>10. /\ pact.delegates[StakingContract] = ZeroAddress
       /\ pact.balances[StakingContract] >= spact.supply
  <2>1. pact.balances[StakingContract] \in Nat
    BY <1>0, <1>3, StakingAssumption
  <2>2. spact.supply = 0
    BY <1>2 DEF Init
  <2>. QED  BY <1>0, <1>2, <1>3, <2>1, <2>2
<1>11. MinerInSync
  BY <1>7 DEF Init, MinerInSync, Stakes
<1>12. currentTotalAmount = SumFunction(Stakes(holders))
  BY <1>7 DEF Init
<1>. QED  BY <1>5, <1>8, <1>9, <1>10, <1>11, <1>12 DEF IInv

LEMMA InvariantFacts ==
  ASSUME IInv
  PROVE  /\ Supply \in Nat /\ MaxBlock \in Nat /\ block \in 1..MaxBlock /\ block \in Nat
         /\ StakingContract \in Accounts /\ IsFiniteSet(Accounts)
         /\ pact \in TokenRecords(Supply, MaxBlock) /\ spact \in TokenRecords(Supply, MaxBlock)
         /\ \A a \in Accounts : pact.balances[a] \in 0..Supply /\ spact.balances[a] \in 0..Supply
         /\ \A a \in Accounts : pact.delegates[a] \in Delegatees
         /\ spact.supply \in 0..Supply
         /\ TokenSound(pact, Supply, MaxBlock, block) /\ TokenSound(spact, Supply, MaxBlock, block)
         /\ holders \in [Accounts -> HolderRecords]
         /\ currentTotalAmount \in Nat
         /\ miner.linked \in BOOLEAN
<1>1. /\ pact \in TokenRecords(Supply, MaxBlock) /\ spact \in TokenRecords(Supply, MaxBlock)
      /\ Supply \in Nat /\ MaxBlock \in Nat /\ block \in 1..MaxBlock
  BY StakingAssumption DEF IInv, TypeOK
<1>2. /\ pact.balances \in [Accounts -> 0..Supply] /\ spact.balances \in [Accounts -> 0..Supply]
      /\ pact.delegates \in [Accounts -> Delegatees] /\ spact.supply \in 0..Supply
  BY <1>1, TokenFields
<1>3. /\ \A a \in Accounts : pact.balances[a] \in 0..Supply /\ spact.balances[a] \in 0..Supply
      /\ \A a \in Accounts : pact.delegates[a] \in Delegatees
  BY <1>2
<1>4. block \in Nat /\ StakingContract \in Accounts
  BY <1>1, StakingAssumption
<1>5. currentTotalAmount \in Nat /\ miner.linked \in BOOLEAN /\ holders \in [Accounts -> HolderRecords]
  BY <1>1 DEF IInv, TypeOK, HolderRecords, Amounts
<1>6. TokenSound(pact, Supply, MaxBlock, block) /\ TokenSound(spact, Supply, MaxBlock, block)
  BY DEF IInv, TokensSound
<1>. QED  BY <1>1, <1>2, <1>3, <1>4, <1>5, <1>6, AccountsAssumption

\* The fields of a holder's record, and what they are owed.
LEMMA HolderFacts ==
  ASSUME NEW r \in HolderRecords, r.nextUnstakeId <= Len(r.unstakes)
  PROVE  /\ r.amount \in Nat /\ r.nextUnstakeId \in Nat /\ r.unstakes \in Seq(Unstake)
         /\ Unpaid(r) \in Nat /\ Owed(r) \in Nat /\ r.amount <= Owed(r)
<1>1. r.amount \in Nat /\ r.nextUnstakeId \in Nat /\ r.unstakes \in Seq(Unstake)
  BY StakingAssumption DEF HolderRecords, Amounts
<1>2. Unpaid(r) \in Nat
  <2>1. r.nextUnstakeId + 1 \in Nat /\ r.nextUnstakeId + 1 >= 1 /\ Len(r.unstakes) \in Nat
        /\ Len(r.unstakes) <= Len(r.unstakes)
    BY <1>1
  <2>. QED  BY <1>1, <2>1, UnstakedIsSum DEF Unpaid
<1>. QED  BY <1>1, <1>2 DEF Owed

(***************************************************************************)
(* What the actions have in common: only the books of one holder change, and *)
(* the miner is told.                                                       *)
(***************************************************************************)
MinerTold ==
  \E linked \in BOOLEAN :
     miner' = [linked |-> linked, stakes |-> Stakes(holders'), total |-> currentTotalAmount']

Follows(h) ==
  /\ block' = block /\ cooldown' \in Cooldowns
  /\ TokensSound'
  /\ pact'.delegates[StakingContract] = ZeroAddress
  /\ pact'.balances[StakingContract] >= spact'.supply
  /\ OnlyChanges(holders, holders', h)
  /\ holders'[h].nextUnstakeId <= Len(holders'[h].unstakes)
  /\ spact'.balances[h] = Owed(holders'[h])
  /\ \A x \in Accounts \ {h} : spact'.balances[x] = spact.balances[x]
  /\ currentTotalAmount' = currentTotalAmount - holders[h].amount + holders'[h].amount
  /\ MinerTold

LEMMA FollowsKeepsIInv ==
  ASSUME IInv, NEW h \in Accounts, Follows(h)
  PROVE  IInv'
<1>0. /\ Supply \in Nat /\ block \in 1..MaxBlock /\ IsFiniteSet(Accounts) /\ MaxBlock \in Nat
      /\ holders \in [Accounts -> HolderRecords] /\ holders' \in [Accounts -> HolderRecords]
      /\ currentTotalAmount = SumFunction(Stakes(holders))
  BY InvariantFacts DEF Follows, OnlyChanges, IInv
<1>1. currentTotalAmount' = SumFunction(Stakes(holders')) /\ currentTotalAmount' \in Nat
  <2>1. OnlyChanges(holders, holders', h)
    BY DEF Follows
  <2>2. currentTotalAmount' = currentTotalAmount - holders[h].amount + holders'[h].amount
    BY DEF Follows
  <2>3. /\ SumFunction(Stakes(holders')) \in Nat
        /\ SumFunction(Stakes(holders'))
             = SumFunction(Stakes(holders)) - holders[h].amount + holders'[h].amount
    BY <1>0, <2>1, StakeChanges
  <2>. QED  BY <1>0, <2>2, <2>3
<1>2. ASSUME NEW x \in Accounts
      PROVE  /\ holders'[x].nextUnstakeId <= Len(holders'[x].unstakes)
             /\ spact'.balances[x] = Owed(holders'[x])
  <2>1. CASE x = h
    BY <2>1 DEF Follows
  <2>2. CASE x # h
    <3>1. holders'[x] = holders[x] /\ spact'.balances[x] = spact.balances[x]
      BY <2>2 DEF Follows, OnlyChanges
    <3>. QED  BY <3>1 DEF IInv, BooksKept
  <2>. QED  BY <2>1, <2>2
<1>3. BooksKept'
  BY <1>2 DEF BooksKept
<1>4. /\ pact' \in TokenRecords(Supply, MaxBlock) /\ spact' \in TokenRecords(Supply, MaxBlock)
      /\ spact'.supply \in 0..Supply
      /\ SumFunctionOnSet(spact'.balances, Accounts) = spact'.supply
  <2>1. TokenSound(pact', Supply, MaxBlock, block') /\ TokenSound(spact', Supply, MaxBlock, block')
    BY DEF Follows, TokensSound
  <2>2. pact' \in TokenRecords(Supply, MaxBlock) /\ spact' \in TokenRecords(Supply, MaxBlock)
    BY <2>1 DEF TokenSound
  <2>. QED  BY <2>1, <2>2, TokenFields DEF TokenSound
<1>5. currentTotalAmount' <= spact'.supply
  <2>1. PICK f, g : f = Stakes(holders') /\ g = spact'.balances
    OBVIOUS
  <2>2. \A x \in Accounts : f[x] \in Nat /\ g[x] \in Nat /\ f[x] <= g[x]
    <3> SUFFICES ASSUME NEW x \in Accounts
                 PROVE  f[x] \in Nat /\ g[x] \in Nat /\ f[x] <= g[x]
      OBVIOUS
    <3>1. PICK r : r = holders'[x]
      OBVIOUS
    <3>2. r \in HolderRecords /\ r.nextUnstakeId <= Len(r.unstakes) /\ g[x] = Owed(r)
      BY <1>0, <1>2, <2>1, <3>1
    <3>3. f[x] = r.amount
      BY <2>1, <3>1 DEF Stakes
    <3>. QED  BY <3>2, <3>3, HolderFacts
  <2>3. SumFunctionOnSet(f, Accounts) <= SumFunctionOnSet(g, Accounts)
    BY <1>0, <2>2, SumLarger
  <2>4. SumFunction(Stakes(holders')) = SumFunctionOnSet(f, Accounts)
    BY <2>1 DEF SumFunction, Stakes
  <2>. QED  BY <1>1, <1>4, <2>1, <2>3, <2>4
<1>6. currentTotalAmount' \in Amounts
  BY <1>0, <1>1, <1>4, <1>5 DEF Amounts
<1>7. /\ MinerInSync'
      /\ miner' \in [linked : BOOLEAN, stakes : [Accounts -> Amounts], total : Amounts]
  <2>1. PICK linked \in BOOLEAN :
          miner' = [linked |-> linked, stakes |-> Stakes(holders'), total |-> currentTotalAmount']
    BY DEF Follows, MinerTold
  <2>2. Stakes(holders') \in [Accounts -> Amounts]
    <3>1. \A x \in Accounts : holders'[x].amount \in Amounts
      BY <1>0 DEF HolderRecords
    <3>. QED  BY <3>1 DEF Stakes
  <2>. QED  BY <1>6, <2>1, <2>2 DEF MinerInSync, Stakes
<1>8. TypeOK'
  BY <1>0, <1>4, <1>6, <1>7 DEF TypeOK, HolderRecords, Follows
<1>. QED  BY <1>1, <1>3, <1>7, <1>8 DEF IInv, Follows

\* The miner is told as the contract is left.
LEMMA Told ==
  ASSUME IInv, NEW h \in Accounts, OnlyChanges(holders, holders', h),
         SetStakingAmounts(h, holders'[h].amount, currentTotalAmount')
  PROVE  MinerTold
<1>1. /\ miner \in [linked : BOOLEAN, stakes : [Accounts -> Amounts], total : Amounts]
      /\ miner.stakes = Stakes(holders)
  BY DEF IInv, TypeOK, MinerInSync, Stakes
<1>2. Stakes(holders') = [Stakes(holders) EXCEPT ![h] = holders'[h].amount]
  <2>1. holders \in [Accounts -> HolderRecords]
    BY InvariantFacts
  <2>. QED  BY <2>1, StakeChanges
<1>3. PICK told : told = Stakes(holders')
  OBVIOUS
<1>4. miner' = [linked |-> miner.linked, stakes |-> told, total |-> currentTotalAmount']
  BY <1>1, <1>2, <1>3 DEF SetStakingAmounts
<1>. QED  BY <1>1, <1>3, <1>4 DEF MinerTold

(***************************************************************************)
(* The actions.                                                             *)
(***************************************************************************)
GoodStep == IInv' /\ PastKept /\ PaysWhatCooled

LEMMA StakeIsGood ==
  ASSUME IInv, NEW c \in Holders, NEW h \in Accounts, NEW n \in Amounts, Stake(c, h, n)
  PROVE  GoodStep
<1>0. /\ Supply \in Nat /\ MaxBlock \in Nat /\ block \in 1..MaxBlock /\ n \in Nat
      /\ StakingContract \in Accounts /\ c \in Accounts /\ c # StakingContract
      /\ TokenSound(pact, Supply, MaxBlock, block) /\ TokenSound(spact, Supply, MaxBlock, block)
      /\ \A a \in Accounts : pact.balances[a] \in 0..Supply /\ spact.balances[a] \in 0..Supply
      /\ spact.supply \in 0..Supply /\ pact.balances[StakingContract] >= spact.supply
      /\ holders \in [Accounts -> HolderRecords] /\ currentTotalAmount \in Nat
      /\ UNCHANGED <<cooldown, block>> /\ pact.supply = Supply
  BY InvariantFacts DEF Stake, Holders, Amounts, IInv, TokensSound
<1>1. /\ TokenSound(pact', Supply, MaxBlock, block) /\ pact'.supply = pact.supply
      /\ pact'.delegates = pact.delegates /\ SamePast(pact, pact', block)
      /\ pact'.balances[StakingContract] = pact.balances[StakingContract] + n
  <2>1. CanTransfer(pact, c, StakingContract, n) /\ pact' = Transfer(pact, c, StakingContract, n, block)
    BY DEF Stake
  <2>2. /\ TokenSound(pact', Supply, MaxBlock, block) /\ pact'.supply = pact.supply
        /\ pact'.delegates = pact.delegates /\ SamePast(pact, pact', block)
        /\ \A a \in Accounts : pact'.balances[a] = pact.balances[a]
             - (IF a = c THEN n ELSE 0) + (IF a = StakingContract THEN n ELSE 0)
    BY <1>0, <2>1, TransferLemma
  <2>. QED  BY <1>0, <2>2
<1>2. pact'.balances[StakingContract] \in 0..Supply
  <2>1. pact' \in TokenRecords(Supply, MaxBlock)
    BY <1>1 DEF TokenSound
  <2>2. pact'.balances \in [Accounts -> 0..Supply]
    BY <2>1, TokenFields
  <2>. QED  BY <1>0, <2>2
<1>3. spact.supply + n <= Supply
  BY <1>0, <1>1, <1>2
<1>4. /\ TokenSound(spact', Supply, MaxBlock, block) /\ spact'.supply = spact.supply + n
      /\ SamePast(spact, spact', block)
      /\ \A x \in Accounts : spact'.balances[x] = spact.balances[x] + (IF x = h THEN n ELSE 0)
  <2>1. spact' = Mint(spact, h, n, block)
    BY DEF Stake
  <2>. QED  BY <1>0, <1>3, <2>1, MintLemma
<1>5. PICK r : r = holders[h]
  OBVIOUS
<1>6. /\ r \in HolderRecords /\ r.nextUnstakeId <= Len(r.unstakes) /\ spact.balances[h] = Owed(r)
      /\ r.amount \in Nat /\ Unpaid(r) \in Nat /\ r.amount <= Owed(r) /\ Owed(r) = r.amount + Unpaid(r)
  <2>1. r \in HolderRecords /\ r.nextUnstakeId <= Len(r.unstakes) /\ spact.balances[h] = Owed(r)
    BY <1>0, <1>5 DEF IInv, BooksKept
  <2>. QED  BY <2>1, HolderFacts DEF Owed
<1>7. PICK r2 : r2 = [amount |-> r.amount + n, nextUnstakeId |-> r.nextUnstakeId, unstakes |-> r.unstakes]
  OBVIOUS
<1>8. spact'.balances[h] \in 0..Supply
  <2>1. spact' \in TokenRecords(Supply, MaxBlock)
    BY <1>4 DEF TokenSound
  <2>2. spact'.balances \in [Accounts -> 0..Supply]
    BY <2>1, TokenFields
  <2>. QED  BY <2>2
<1>9. r.amount + n \in Amounts
  <2>1. spact'.balances[h] = spact.balances[h] + n
    BY <1>0, <1>4
  <2>2. r.amount \in Nat /\ n \in Nat /\ r.amount <= spact.balances[h]
    BY <1>0, <1>6 DEF Amounts
  <2>3. spact.balances[h] + n \in 0..Supply /\ spact.balances[h] \in Int
    BY <1>6, <1>8, <2>1
  <2>4. r.amount + n \in 0..Supply
    BY <1>0, <2>2, <2>3
  <2>. QED  BY <2>4 DEF Amounts
<1>10. /\ r2 \in HolderRecords /\ r2.amount = r.amount + n
       /\ r2.nextUnstakeId = r.nextUnstakeId /\ r2.unstakes = r.unstakes
       /\ r2 = [r EXCEPT !.amount = @ + n]
  BY <1>6, <1>7, <1>9 DEF HolderRecords
<1>11. holders' = [holders EXCEPT ![h] = r2]
  BY <1>5, <1>10 DEF Stake
<1>12. holders'[h] = r2 /\ OnlyChanges(holders, holders', h)
  BY <1>0, <1>10, <1>11 DEF OnlyChanges
<1>13. spact'.balances[h] = Owed(r2)
  <2>1. Unpaid(r2) = Unpaid(r)
    BY <1>10 DEF Unpaid
  <2>. QED  BY <1>0, <1>4, <1>6, <1>10, <2>1 DEF Owed
<1>14. MinerTold
  <2>1. SetStakingAmounts(h, holders'[h].amount, currentTotalAmount')
    BY <1>5, <1>10, <1>12 DEF Stake
  <2>. QED  BY <1>12, <2>1, Told
<1>15. TokensSound' /\ pact'.delegates[StakingContract] = ZeroAddress
       /\ pact'.balances[StakingContract] >= spact'.supply
  BY <1>0, <1>1, <1>4 DEF TokensSound, IInv
<1>16. currentTotalAmount' = currentTotalAmount - holders[h].amount + holders'[h].amount
  <2>1. currentTotalAmount' = currentTotalAmount + n
    BY DEF Stake
  <2>. QED  BY <1>0, <1>5, <1>6, <1>10, <1>12, <2>1
<1>17. Follows(h)
  <2>1. cooldown' \in Cooldowns
    BY <1>0 DEF IInv, TypeOK
  <2>2. \A x \in Accounts \ {h} : spact'.balances[x] = spact.balances[x]
    BY <1>0, <1>4
  <2>. QED  BY <1>0, <1>6, <1>10, <1>12, <1>13, <1>14, <1>15, <1>16, <2>1, <2>2 DEF Follows
<1>18. PaysWhatCooled
  <2>1. \A x \in Accounts : ~(spact'.balances[x] < spact.balances[x])
    BY <1>0, <1>4
  <2>. QED  BY <2>1 DEF PaysWhatCooled
<1>. QED  BY <1>0, <1>1, <1>4, <1>17, <1>18, FollowsKeepsIInv DEF GoodStep, PastKept

LEMMA UnstakeIsGood ==
  ASSUME IInv, NEW h \in Holders, NEW n \in Amounts, UnstakeAmount(h, n)
  PROVE  GoodStep
<1>0. /\ Supply \in Nat /\ block \in Nat /\ n \in Nat /\ h \in Accounts
      /\ holders \in [Accounts -> HolderRecords] /\ currentTotalAmount \in Nat
      /\ UNCHANGED <<pact, spact, cooldown, block>>
      /\ \A a \in Accounts : spact.balances[a] \in 0..Supply
  BY InvariantFacts DEF UnstakeAmount, Holders, Amounts
<1>1. PICK r, e : r = holders[h] /\ e = [amount |-> n, cooldownBlock |-> block + cooldown]
  OBVIOUS
<1>2. e \in Unstake /\ e.amount = n
  <2>1. cooldown \in Nat
    BY StakingAssumption DEF IInv, TypeOK
  <2>. QED  BY <1>0, <1>1, <2>1 DEF Unstake
<1>3. /\ r \in HolderRecords /\ r.nextUnstakeId <= Len(r.unstakes) /\ spact.balances[h] = Owed(r)
      /\ r.amount \in Nat /\ r.nextUnstakeId \in Nat /\ r.unstakes \in Seq(Unstake)
      /\ r.amount >= n
  <2>1. r \in HolderRecords /\ r.nextUnstakeId <= Len(r.unstakes) /\ spact.balances[h] = Owed(r)
    BY <1>0, <1>1 DEF IInv, BooksKept
  <2>2. r.amount >= n
    BY <1>1 DEF UnstakeAmount
  <2>. QED  BY <2>1, <2>2, HolderFacts
<1>4. PICK u2 : u2 = Append(r.unstakes, e)
  OBVIOUS
<1>5. /\ u2 \in Seq(Unstake) /\ Len(u2) = Len(r.unstakes) + 1 /\ Len(r.unstakes) \in Nat
      /\ Unpaid(r) \in Nat
      /\ Unstaked(u2, r.nextUnstakeId + 1, Len(u2)) = Unpaid(r) + n
  <2>1. PICK u, k : u = r.unstakes /\ k = r.nextUnstakeId
    OBVIOUS
  <2>2. u \in Seq(Unstake) /\ k \in Nat /\ k <= Len(u) /\ e \in Unstake /\ u2 = Append(u, e)
    BY <1>2, <1>3, <1>4, <2>1
  <2>3. /\ u2 \in Seq(Unstake) /\ Len(u2) = Len(u) + 1 /\ Unstaked(u, k + 1, Len(u)) \in Nat
        /\ Unstaked(u2, k + 1, Len(u2)) = Unstaked(u, k + 1, Len(u)) + e.amount
    BY ONLY <2>2, UnstakedAppend
  <2>4. Unpaid(r) = Unstaked(u, k + 1, Len(u))
    BY <2>1 DEF Unpaid
  <2>5. Len(r.unstakes) \in Nat /\ Len(u) = Len(r.unstakes)
    BY <1>3, <2>1
  <2>. QED  BY <1>2, <2>1, <2>3, <2>4, <2>5
<1>6. PICK r2 : r2 = [amount |-> r.amount - n, nextUnstakeId |-> r.nextUnstakeId, unstakes |-> u2]
  OBVIOUS
<1>7. /\ r2 \in HolderRecords /\ r2.amount = r.amount - n
      /\ r2.nextUnstakeId = r.nextUnstakeId /\ r2.unstakes = u2
      /\ r2 = [[r EXCEPT !.unstakes = u2] EXCEPT !.amount = @ - n]
  <2>1. r.amount - n \in Amounts
    BY <1>0, <1>3 DEF HolderRecords, Amounts
  <2>2. r2 \in HolderRecords
    BY <1>3, <1>5, <1>6, <2>1 DEF HolderRecords
  <2>3. /\ r2.amount = r.amount - n /\ r2.nextUnstakeId = r.nextUnstakeId /\ r2.unstakes = u2
        /\ r2 = [[r EXCEPT !.unstakes = u2] EXCEPT !.amount = @ - n]
    <3>1. PICK am, id, us : r = [amount |-> am, nextUnstakeId |-> id, unstakes |-> us]
      BY <1>3 DEF HolderRecords
    <3>2. PICK r3 : r3 = [r EXCEPT !.unstakes = u2]
      OBVIOUS
    <3>3. r3 = [amount |-> am, nextUnstakeId |-> id, unstakes |-> u2]
      BY ONLY <3>1, <3>2
    <3>4. r2 = [amount |-> am - n, nextUnstakeId |-> id, unstakes |-> u2]
      BY ONLY <1>6, <3>1
    <3>5. r2 = [r3 EXCEPT !.amount = @ - n]
      BY ONLY <3>3, <3>4
    <3>. QED  BY <1>6, <3>2, <3>5
  <2>. QED  BY <2>2, <2>3
<1>8. holders' = [holders EXCEPT ![h] = r2]
  <2>1. holders' = [holders EXCEPT ![h].unstakes = Append(@, e), ![h].amount = @ - n]
    BY <1>1 DEF UnstakeAmount
  <2>. QED  BY <1>0, <1>1, <1>4, <1>7, <2>1
<1>9. holders'[h] = r2 /\ OnlyChanges(holders, holders', h)
  BY <1>0, <1>7, <1>8 DEF OnlyChanges
<1>10. Owed(r2) = Owed(r)
  <2>1. Unpaid(r2) = Unpaid(r) + n
    BY <1>5, <1>7 DEF Unpaid
  <2>. QED  BY <1>0, <1>3, <1>5, <1>7, <2>1 DEF Owed
<1>11. currentTotalAmount' = currentTotalAmount - holders[h].amount + holders'[h].amount
  <2>1. currentTotalAmount' = currentTotalAmount - n
    BY DEF UnstakeAmount
  <2>. QED  BY <1>0, <1>1, <1>3, <1>7, <1>9, <2>1
<1>12. MinerTold
  <2>1. SetStakingAmounts(h, holders'[h].amount, currentTotalAmount')
    BY <1>1, <1>7, <1>9 DEF UnstakeAmount
  <2>. QED  BY <1>0, <1>9, <2>1, Told
<1>13. Follows(h)
  <2>1. TokensSound'
    BY <1>0 DEF IInv, TokensSound
  <2>2. holders'[h].nextUnstakeId <= Len(holders'[h].unstakes)
    BY <1>3, <1>5, <1>7, <1>9
  <2>. QED  BY <1>0, <1>3, <1>9, <1>10, <1>11, <1>12, <2>1, <2>2 DEF Follows, IInv, TypeOK
<1>14. PaysWhatCooled
  <2>1. \A x \in Accounts : ~(spact'.balances[x] < spact.balances[x])
    BY <1>0
  <2>. QED  BY <2>1 DEF PaysWhatCooled
<1>. QED  BY <1>0, <1>13, <1>14, FollowsKeepsIInv DEF GoodStep, PastKept, SamePast

LEMMA ClaimIsGood ==
  ASSUME IInv, NEW h \in Holders, NEW last \in Int, last < Len(holders[h].unstakes),
         ClaimUpTo(h, last)
  PROVE  GoodStep
<1>0. /\ Supply \in Nat /\ MaxBlock \in Nat /\ block \in 1..MaxBlock /\ block \in Nat
      /\ StakingContract \in Accounts /\ h \in Accounts /\ h # StakingContract
      /\ TokenSound(pact, Supply, MaxBlock, block) /\ TokenSound(spact, Supply, MaxBlock, block)
      /\ \A a \in Accounts : pact.balances[a] \in 0..Supply /\ spact.balances[a] \in 0..Supply
      /\ spact.supply \in 0..Supply /\ pact.balances[StakingContract] >= spact.supply
      /\ holders \in [Accounts -> HolderRecords] /\ currentTotalAmount \in Nat
      /\ pact.supply = Supply /\ miner.linked \in BOOLEAN
  BY InvariantFacts DEF Holders, IInv, TokensSound
<1>1. PICK r, u, n, m, a : /\ r = holders[h] /\ u = r.unstakes /\ n = r.nextUnstakeId
                           /\ m = n + Cardinality(Payable(h, last)) /\ a = ClaimAmount(h, last)
  OBVIOUS
<1>2. /\ r \in HolderRecords /\ n <= Len(u) /\ spact.balances[h] = Owed(r)
      /\ r.amount \in Nat /\ n \in Nat /\ u \in Seq(Unstake)
  <2>1. r \in HolderRecords /\ r.nextUnstakeId <= Len(r.unstakes) /\ spact.balances[h] = Owed(r)
    BY <1>0, <1>1 DEF IInv, BooksKept
  <2>. QED  BY <1>1, <2>1, HolderFacts
<1>3. /\ m \in Nat /\ n <= m /\ m <= Len(u) /\ a = Unstaked(u, n + 1, m)
      /\ \A i \in (n + 1)..m : u[i].cooldownBlock <= block
  <2>1. /\ u \in Seq(Unstake) /\ n \in Nat /\ n <= Len(u) /\ block \in Nat
        /\ last \in Int /\ Pays(h, last, u, n, m)
    BY <1>0, <1>1, <1>2 DEF Pays
  <2>2. /\ m \in Nat /\ n <= m /\ m <= Len(u) /\ ClaimAmount(h, last) = Unstaked(u, n + 1, m)
        /\ \A i \in (n + 1)..m : u[i].cooldownBlock <= block
    <3>1. m \in Nat /\ n <= m /\ m <= Len(u)
      BY ONLY <2>1, ClaimPays
    <3>2. ClaimAmount(h, last) = Unstaked(u, n + 1, m)
      BY ONLY <2>1, ClaimPays
    <3>3. Cooled(u, n, m)
      BY ONLY <2>1, ClaimPays
    <3>. QED  BY <3>1, <3>2, <3>3 DEF Cooled
  <2>. QED  BY <1>1, <2>2
<1>4. /\ a \in Nat /\ Unstaked(u, m + 1, Len(u)) \in Nat
      /\ Unstaked(u, n + 1, Len(u)) = a + Unstaked(u, m + 1, Len(u))
  BY <1>2, <1>3, UnstakedSplit
<1>5. /\ UNCHANGED <<currentTotalAmount, cooldown, miner, block>>
      /\ holders' = [holders EXCEPT ![h].nextUnstakeId = m]
      /\ CanBurn(spact, h, a) /\ spact' = Burn(spact, h, a, block)
      /\ CanTransfer(pact, StakingContract, h, a)
      /\ pact' = Transfer(pact, StakingContract, h, a, block)
  BY <1>0, <1>1 DEF ClaimUpTo
<1>6. /\ TokenSound(spact', Supply, MaxBlock, block) /\ spact'.supply = spact.supply - a
      /\ SamePast(spact, spact', block)
      /\ \A x \in Accounts : spact'.balances[x] = spact.balances[x] - (IF x = h THEN a ELSE 0)
  <2>1. /\ block \in 1..MaxBlock /\ Supply \in Nat /\ MaxBlock \in Nat
        /\ TokenSound(spact, Supply, MaxBlock, block)
        /\ h \in Accounts /\ a \in Nat /\ CanBurn(spact, h, a) /\ spact' = Burn(spact, h, a, block)
    BY <1>0, <1>4, <1>5
  <2>. QED  BY ONLY <2>1, BurnLemma
<1>7. /\ TokenSound(pact', Supply, MaxBlock, block) /\ pact'.supply = pact.supply
      /\ pact'.delegates = pact.delegates /\ SamePast(pact, pact', block)
      /\ \A x \in Accounts : pact'.balances[x] = pact.balances[x]
           - (IF x = StakingContract THEN a ELSE 0) + (IF x = h THEN a ELSE 0)
  <2>1. /\ block \in 1..MaxBlock /\ Supply \in Nat /\ MaxBlock \in Nat
        /\ TokenSound(pact, Supply, MaxBlock, block)
        /\ StakingContract \in Accounts /\ h \in Accounts /\ a \in Nat
        /\ CanTransfer(pact, StakingContract, h, a)
        /\ pact' = Transfer(pact, StakingContract, h, a, block)
    BY <1>0, <1>4, <1>5
  <2>. QED  BY ONLY <2>1, TransferLemma
<1>8. PICK r2 : r2 = [amount |-> r.amount, nextUnstakeId |-> m, unstakes |-> u]
  OBVIOUS
<1>9. /\ r2 \in HolderRecords /\ r2.amount = r.amount
      /\ r2.nextUnstakeId = m /\ r2.unstakes = u
      /\ r2 = [r EXCEPT !.nextUnstakeId = m]
  BY <1>1, <1>2, <1>3, <1>8 DEF HolderRecords
<1>10. holders' = [holders EXCEPT ![h] = r2]
  BY <1>1, <1>5, <1>9
<1>11. holders'[h] = r2 /\ OnlyChanges(holders, holders', h)
  BY <1>0, <1>9, <1>10 DEF OnlyChanges
<1>12. spact'.balances[h] = Owed(r2)
  <2>1. Unpaid(r) = Unstaked(u, n + 1, Len(u)) /\ Unpaid(r2) = Unstaked(u, m + 1, Len(u))
    BY <1>1, <1>9 DEF Unpaid
  <2>. QED  BY <1>0, <1>2, <1>4, <1>6, <1>9, <2>1 DEF Owed
<1>13. MinerTold
  <2>1. Stakes(holders') = Stakes(holders)
    BY <1>0, <1>1, <1>9, <1>10 DEF Stakes
  <2>2. /\ miner \in [linked : BOOLEAN, stakes : [Accounts -> Amounts], total : Amounts]
        /\ miner.stakes = Stakes(holders) /\ miner.total = currentTotalAmount
    BY DEF IInv, TypeOK, MinerInSync, Stakes
  <2>3. PICK stakes : stakes = Stakes(holders)
    OBVIOUS
  <2>4. miner = [linked |-> miner.linked, stakes |-> stakes, total |-> currentTotalAmount]
    BY <2>2, <2>3
  <2>. QED  BY <1>0, <1>5, <2>1, <2>3, <2>4 DEF MinerTold
<1>14. TokensSound' /\ pact'.delegates[StakingContract] = ZeroAddress
       /\ pact'.balances[StakingContract] >= spact'.supply
  BY <1>0, <1>4, <1>5, <1>6, <1>7 DEF TokensSound, IInv
<1>15. currentTotalAmount' = currentTotalAmount - holders[h].amount + holders'[h].amount
  BY <1>0, <1>1, <1>2, <1>5, <1>9, <1>11
<1>16. Follows(h)
  <2>1. cooldown' \in Cooldowns
    BY <1>5 DEF IInv, TypeOK
  <2>2. \A x \in Accounts \ {h} : spact'.balances[x] = spact.balances[x]
    BY <1>0, <1>6
  <2>. QED  BY <1>3, <1>5, <1>9, <1>11, <1>12, <1>13, <1>14, <1>15, <2>1, <2>2 DEF Follows
<1>17. PaysWhatCooled
  <2> SUFFICES ASSUME NEW x \in Accounts, spact'.balances[x] < spact.balances[x]
               PROVE  LET paid == (holders[x].nextUnstakeId + 1)..holders'[x].nextUnstakeId
                      IN  /\ \A i \in paid : holders[x].unstakes[i].cooldownBlock <= block
                          /\ spact.balances[x] - spact'.balances[x] =
                               SumFunction([i \in paid |-> holders[x].unstakes[i].amount])
                          /\ pact'.balances[x] - pact.balances[x]
                               = spact.balances[x] - spact'.balances[x]
    BY DEF PaysWhatCooled
  <2>1. x = h
    BY <1>0, <1>6
  <2>2. spact.balances[h] - spact'.balances[h] = a /\ pact'.balances[h] - pact.balances[h] = a
    <3>1. /\ h \in Accounts /\ h # StakingContract /\ a \in Nat
          /\ spact.balances[h] \in Nat /\ pact.balances[h] \in Nat
      BY <1>0, <1>4
    <3>2. spact'.balances[h] = spact.balances[h] - a
      BY <1>6, <3>1
    <3>3. pact'.balances[h] = pact.balances[h] + a
      BY <1>7, <3>1
    <3>. QED  BY ONLY <3>1, <3>2, <3>3
  <2>3. a = SumFunction([i \in (n + 1)..m |-> u[i].amount])
    BY <1>3 DEF Unstaked
  <2>4. holders'[h].nextUnstakeId = m /\ holders[h].nextUnstakeId = n /\ holders[h].unstakes = u
    BY <1>1, <1>9, <1>11
  <2>. QED  BY <1>3, <2>1, <2>2, <2>3, <2>4
<1>. QED  BY <1>0, <1>5, <1>6, <1>7, <1>16, <1>17, FollowsKeepsIInv DEF GoodStep, PastKept

\* A call that changes no stake and no SPACT balance.
Quiet ==
  /\ UNCHANGED <<holders, currentTotalAmount, block>>
  /\ cooldown' \in Cooldowns
  /\ TokensSound'
  /\ pact'.delegates[StakingContract] = ZeroAddress
  /\ pact'.balances[StakingContract] >= spact'.supply
  /\ spact'.balances = spact.balances
  /\ \E linked \in BOOLEAN : miner' = [linked |-> linked, stakes |-> miner.stakes, total |-> miner.total]
  /\ SamePast(pact, pact', block) /\ SamePast(spact, spact', block)

LEMMA QuietIsGood ==
  ASSUME IInv, Quiet
  PROVE  GoodStep
<1>0. /\ StakingContract \in Accounts /\ currentTotalAmount \in Nat
      /\ holders \in [Accounts -> HolderRecords]
      /\ \A a \in Accounts : spact.balances[a] \in 0..Supply
  BY InvariantFacts
<1>1. OnlyChanges(holders, holders', StakingContract)
  BY <1>0 DEF OnlyChanges, Quiet
<1>2. MinerTold
  <2>1. miner.stakes = Stakes(holders) /\ miner.total = currentTotalAmount
    BY DEF IInv, MinerInSync, Stakes
  <2>2. holders' = holders /\ currentTotalAmount' = currentTotalAmount
    BY DEF Quiet
  <2>. QED  BY <2>1, <2>2 DEF Quiet, MinerTold
<1>3. holders[StakingContract].amount \in Nat
  BY <1>0, StakingAssumption DEF HolderRecords, Amounts
<1>4. currentTotalAmount'
        = currentTotalAmount - holders[StakingContract].amount + holders'[StakingContract].amount
  BY <1>0, <1>3 DEF Quiet
<1>5. Follows(StakingContract)
  BY <1>0, <1>1, <1>2, <1>4 DEF Quiet, Follows, IInv, BooksKept
<1>6. PaysWhatCooled
  <2>1. \A x \in Accounts : ~(spact'.balances[x] < spact.balances[x])
    BY <1>0 DEF Quiet
  <2>. QED  BY <2>1 DEF PaysWhatCooled
<1>. QED  BY <1>0, <1>5, <1>6, FollowsKeepsIInv DEF GoodStep, PastKept, Quiet

\* A plain PACT transfer is no withdrawal: only holders send, the contract receives.
LEMMA TransferIsGood ==
  ASSUME IInv, NEW src \in Donors, NEW dst \in Accounts, NEW n \in Amounts,
         TransferPACT(src, dst, n)
  PROVE  GoodStep
<1>0. /\ Supply \in Nat /\ MaxBlock \in Nat /\ block \in 1..MaxBlock /\ n \in Nat
      /\ StakingContract \in Accounts /\ src \in Accounts /\ src # StakingContract
      /\ TokenSound(pact, Supply, MaxBlock, block) /\ TokenSound(spact, Supply, MaxBlock, block)
      /\ \A a \in Accounts : pact.balances[a] \in 0..Supply
      /\ spact.supply \in 0..Supply /\ pact.balances[StakingContract] >= spact.supply
      /\ pact.supply = Supply /\ miner.linked \in BOOLEAN /\ cooldown \in Cooldowns
      /\ UNCHANGED <<spact, holders, currentTotalAmount, cooldown, miner, block>>
      /\ CanTransfer(pact, src, dst, n) /\ pact' = Transfer(pact, src, dst, n, block)
  <2>1. src \in Accounts /\ src # StakingContract /\ n \in Nat
    BY StakingAssumption DEF Amounts
  <2>2. /\ UNCHANGED <<spact, holders, currentTotalAmount, cooldown, miner, block>>
        /\ CanTransfer(pact, src, dst, n) /\ pact' = Transfer(pact, src, dst, n, block)
    BY DEF TransferPACT
  <2>3. /\ pact.supply = Supply /\ cooldown \in Cooldowns
        /\ pact.balances[StakingContract] >= spact.supply
    BY DEF IInv, TypeOK, TokensSound
  <2>. QED  BY <2>1, <2>2, <2>3, InvariantFacts
<1>1. /\ TokenSound(pact', Supply, MaxBlock, block) /\ pact'.supply = pact.supply
      /\ pact'.delegates = pact.delegates /\ SamePast(pact, pact', block)
      /\ \A x \in Accounts : pact'.balances[x] = pact.balances[x]
           - (IF x = src THEN n ELSE 0) + (IF x = dst THEN n ELSE 0)
  BY <1>0, TransferLemma
<1>2. pact'.balances[StakingContract] >= spact'.supply
  BY <1>0, <1>1
<1>3. miner' = [linked |-> miner.linked, stakes |-> miner.stakes, total |-> miner.total]
  BY <1>0 DEF IInv, TypeOK
<1>4. Quiet
  BY <1>0, <1>1, <1>2, <1>3 DEF Quiet, TokensSound, SamePast, IInv
<1>. QED  BY <1>4, QuietIsGood

\* The contract delegates nothing, and delegation moves no token.
LEMMA DelegationIsGood ==
  ASSUME IInv, NEW a \in Holders, NEW e \in Representatives,
         DelegatePACT(a, e) \/ DelegateSPACT(a, e)
  PROVE  GoodStep
<1>0. /\ Supply \in Nat /\ MaxBlock \in Nat /\ block \in 1..MaxBlock
      /\ StakingContract \in Accounts /\ a \in Accounts /\ a # StakingContract /\ e \in Delegatees
      /\ TokenSound(pact, Supply, MaxBlock, block) /\ TokenSound(spact, Supply, MaxBlock, block)
      /\ pact.supply = Supply /\ miner.linked \in BOOLEAN /\ cooldown \in Cooldowns
      /\ pact.delegates[StakingContract] = ZeroAddress
      /\ pact.balances[StakingContract] >= spact.supply
      /\ UNCHANGED <<holders, currentTotalAmount, cooldown, miner, block>>
  BY InvariantFacts, StakingAssumption
     DEF Holders, IInv, TypeOK, TokensSound, DelegatePACT, DelegateSPACT
<1>1. miner' = [linked |-> miner.linked, stakes |-> miner.stakes, total |-> miner.total]
  BY <1>0 DEF IInv, TypeOK
<1>2. CASE DelegatePACT(a, e)
  <2>1. spact' = spact /\ pact' = Delegate(pact, a, e, block)
    BY <1>2 DEF DelegatePACT
  <2>2. /\ TokenSound(pact', Supply, MaxBlock, block)
        /\ pact'.balances = pact.balances /\ pact'.supply = pact.supply
        /\ \A x \in Accounts : pact'.delegates[x] = IF x = a THEN e ELSE pact.delegates[x]
        /\ SamePast(pact, pact', block)
    BY <1>0, <2>1, DelegateLemma
  <2>3. Quiet
    BY <1>0, <1>1, <2>1, <2>2 DEF Quiet, TokensSound, SamePast
  <2>. QED  BY <2>3, QuietIsGood
<1>3. CASE DelegateSPACT(a, e)
  <2>1. pact' = pact /\ spact' = Delegate(spact, a, e, block)
    BY <1>3 DEF DelegateSPACT
  <2>2. /\ TokenSound(spact', Supply, MaxBlock, block)
        /\ spact'.balances = spact.balances /\ spact'.supply = spact.supply
        /\ SamePast(spact, spact', block)
    BY <1>0, <2>1, DelegateLemma
  <2>3. Quiet
    BY <1>0, <1>1, <2>1, <2>2 DEF Quiet, TokensSound, SamePast
  <2>. QED  BY <2>3, QuietIsGood
<1>. QED  BY <1>2, <1>3

\* The owners' settings, and steps that change nothing.
LEMMA SettingIsGood ==
  ASSUME IInv, (\E n \in Cooldowns : UpdateCooldown(n)) \/ UpdateStaking \/ UNCHANGED vars
  PROVE  GoodStep
<1>1. /\ UNCHANGED <<pact, spact, holders, currentTotalAmount, block>> /\ cooldown' \in Cooldowns
      /\ TokensSound'
  BY DEF IInv, TypeOK, TokensSound, UpdateCooldown, UpdateStaking, vars
<1>2. \E linked \in BOOLEAN :
        miner' = [linked |-> linked, stakes |-> miner.stakes, total |-> miner.total]
  <2>1. miner = [linked |-> miner.linked, stakes |-> miner.stakes, total |-> miner.total]
        /\ miner.linked \in BOOLEAN
    BY DEF IInv, TypeOK
  <2>2. CASE UpdateStaking
    <3>1. miner' = [linked |-> ~miner.linked, stakes |-> miner.stakes, total |-> miner.total]
      BY <2>1, <2>2 DEF UpdateStaking
    <3>. QED  BY <2>1, <3>1
  <2>3. CASE miner' = miner
    BY <2>1, <2>3
  <2>. QED  BY <2>2, <2>3 DEF UpdateCooldown, vars
<1>3. Quiet
  BY <1>1, <1>2 DEF Quiet, SamePast, IInv
<1>. QED  BY <1>3, QuietIsGood

\* The last block of a checkpoint is not after a later block.
LEMMA BlockKeepsIInv ==
  ASSUME IInv, NextBlock
  PROVE  IInv' /\ PaysWhatCooled
<1>0. /\ Supply \in Nat /\ MaxBlock \in Nat /\ block \in 1..MaxBlock /\ block \in Nat
      /\ TokenSound(pact, Supply, MaxBlock, block) /\ TokenSound(spact, Supply, MaxBlock, block)
      /\ \A a \in Accounts : spact.balances[a] \in 0..Supply
      /\ UNCHANGED <<pact, spact, holders, currentTotalAmount, cooldown, miner>>
      /\ block' = block + 1 /\ block < MaxBlock
  BY InvariantFacts DEF NextBlock
<1>1. TokensSound'
  <2>1. TokenSound(pact, Supply, MaxBlock, block + 1) /\ TokenSound(spact, Supply, MaxBlock, block + 1)
    BY <1>0, NextBlockLemma
  <2>. QED  BY <1>0, <2>1 DEF TokensSound, IInv
<1>2. TypeOK'
  BY <1>0 DEF IInv, TypeOK
<1>3. BooksKept' /\ MinerInSync'
  BY <1>0 DEF IInv, BooksKept, MinerInSync
<1>4. PaysWhatCooled
  BY <1>0 DEF PaysWhatCooled
<1>. QED  BY <1>0, <1>1, <1>2, <1>3, <1>4 DEF IInv

LEMMA StepKeepsIInv ==
  ASSUME IInv, [Next]_vars
  PROVE  IInv' /\ PaysWhatCooled /\ (PastKept \/ NextBlock)
<1>1. ASSUME NEW c \in Holders, NEW h \in Accounts, NEW n \in Amounts, Stake(c, h, n)
      PROVE  GoodStep
  BY <1>1, StakeIsGood
<1>2. ASSUME NEW h \in Holders, NEW n \in Amounts, UnstakeAmount(h, n)
      PROVE  GoodStep
  BY <1>2, UnstakeIsGood
<1>3. ASSUME NEW h \in Holders, NEW last \in Nat, Claim(h) \/ ClaimPartial(h, last)
      PROVE  GoodStep
  <2>1. h \in Accounts /\ holders \in [Accounts -> HolderRecords]
    BY InvariantFacts DEF Holders
  <2>2. Len(holders[h].unstakes) \in Nat
    BY <2>1 DEF HolderRecords
  <2>3. CASE Claim(h)
    <3>1. PICK k : k = Len(holders[h].unstakes) - 1
      OBVIOUS
    <3>2. k \in Int /\ k < Len(holders[h].unstakes)
      BY <2>2, <3>1
    <3>3. ClaimUpTo(h, k)
      BY <2>3, <3>1 DEF Claim
    <3>. QED  BY <3>2, <3>3, ClaimIsGood
  <2>4. CASE ClaimPartial(h, last)
    <3>1. last \in Int /\ last < Len(holders[h].unstakes) /\ ClaimUpTo(h, last)
      BY <2>4 DEF ClaimPartial
    <3>. QED  BY <3>1, ClaimIsGood
  <2>. QED  BY <1>3, <2>3, <2>4
<1>4. ASSUME NEW n \in Cooldowns, UpdateCooldown(n)
      PROVE  GoodStep
  BY <1>4, SettingIsGood
<1>5. ASSUME NEW a \in Donors, NEW d \in Accounts, NEW n \in Amounts, TransferPACT(a, d, n)
      PROVE  GoodStep
  BY <1>5, TransferIsGood
<1>6. ASSUME NEW a \in Holders, NEW d \in Representatives, DelegatePACT(a, d) \/ DelegateSPACT(a, d)
      PROVE  GoodStep
  BY <1>6, DelegationIsGood
<1>7. CASE UpdateStaking \/ UNCHANGED vars
  <2>1. GoodStep
    BY <1>7, SettingIsGood
  <2>. QED  BY <2>1 DEF GoodStep
<1>8. CASE NextBlock
  BY <1>8, BlockKeepsIInv
<1>9. ASSUME NEW h \in Holders, NEW last \in 0..Len(holders[h].unstakes) PROVE last \in Nat
  OBVIOUS
<1>10. GoodStep => IInv' /\ PaysWhatCooled /\ PastKept
  BY DEF GoodStep
<1>. QED
  BY <1>1, <1>2, <1>3, <1>4, <1>5, <1>6, <1>7, <1>8, <1>9, <1>10 DEF Next

LEMMA StakingInvariant == Spec => []IInv
<1>1. IInv /\ [Next]_vars => IInv'
  BY StepKeepsIInv
<1>2. QED
  BY <1>1, InitEstablishesIInv, PTL DEF Spec

\* A holder's SPACT is what it is owed, and PACT in the contract stands behind all of
\* it: no claim fails for lack of tokens.
THEOREM StakingStakesAccounted == Spec => []StakesAccounted
<1>1. IInv => StakesAccounted
  BY DEF IInv, BooksKept, Owed, Unpaid, Unstaked, Stakes, StakesAccounted, Pending
<1>2. QED
  BY <1>1, StakingInvariant, PTL

\* The miner never drifts from the staking contract, linked or not.
THEOREM StakingMinerInSync == Spec => []MinerInSync
<1>1. IInv => MinerInSync
  BY DEF IInv
<1>2. QED
  BY <1>1, StakingInvariant, PTL

\* SPACT leaves a holder only for unstakes whose cooldown block has come, each of them
\* once, and as much PACT comes back.
THEOREM StakingPaidOnceAfterCooldown == Spec => PaidOnceAfterCooldown
<1>1. IInv /\ [Next]_vars => PaysWhatCooled
  BY StepKeepsIInv
<1>2. IInv /\ [Next]_vars =>
        [\A h \in Accounts : spact'.balances[h] < spact.balances[h] =>
           LET paid == (holders[h].nextUnstakeId + 1)..holders'[h].nextUnstakeId
           IN  /\ \A i \in paid : holders[h].unstakes[i].cooldownBlock <= block
               /\ spact.balances[h] - spact'.balances[h] =
                    SumFunction([i \in paid |-> holders[h].unstakes[i].amount])
               /\ pact'.balances[h] - pact.balances[h] =
                    spact.balances[h] - spact'.balances[h]]_vars
  BY <1>1 DEF PaysWhatCooled
<1>3. QED
  BY <1>2, StakingInvariant, PTL DEF PaidOnceAfterCooldown, Spec

(***************************************************************************)
(* The ledger of final votes of both tokens.                                *)
(***************************************************************************)
VotingTokens == {"PACT", "SPACT"}

LedgerVotes == [t \in VotingTokens |-> [v \in Accounts |-> CurrentVotes(TokenOf(t).checkpoints[v])]]

LedgerPast(b) ==
  [t \in VotingTokens |-> [v \in Accounts |-> PriorVotes(TokenOf(t).checkpoints[v], b)]]

LEMMA LedgerSum == ASSUME NEW f PROVE Ledger!SumFunction(f) = SumFunction(f)
<1>1. \A S : Ledger!SumFunctionOnSet(f, S) = (CHOOSE g : IsPartialSums(g, f, S))[S]
  BY DEF Ledger!SumFunctionOnSet, Ledger!FoldFunctionOnSet, Ledger!MapThenFoldSet,
         First, IsPartialSums
<1>. QED  BY <1>1, SumIsPartialSum DEF Ledger!SumFunction, SumFunction

\* The PACT in the contract has no delegate, so that PACT votes are at most what is
\* outside, and SPACT votes at most what is inside.
LEMMA VotesAffordable == IInv => LedgerVotes \in Ledger!Affordable
<1> SUFFICES ASSUME IInv PROVE LedgerVotes \in Ledger!Affordable
  OBVIOUS
<1> DEFINE sums == [t \in VotingTokens |-> SumFunction(LedgerVotes[t])]
           outside == Accounts \ {StakingContract}
<1>0. /\ Supply \in Nat /\ MaxBlock \in Nat /\ StakingContract \in Accounts /\ IsFiniteSet(Accounts)
      /\ TokenSound(pact, Supply, MaxBlock, block) /\ TokenSound(spact, Supply, MaxBlock, block)
      /\ \A a \in Accounts : pact.balances[a] \in Nat
      /\ spact.supply \in Nat /\ pact.supply = Supply
      /\ pact.balances[StakingContract] >= spact.supply
      /\ pact.delegates[StakingContract] = ZeroAddress
  <2>1. /\ \A a \in Accounts : pact.balances[a] \in 0..Supply
        /\ spact.supply \in 0..Supply
    BY InvariantFacts
  <2>. QED  BY <2>1, InvariantFacts DEF IInv, TokensSound
<1>1. LedgerVotes["PACT"] = Votes(pact) /\ LedgerVotes["SPACT"] = Votes(spact)
  BY DEF LedgerVotes, Votes, VotingTokens, TokenOf
<1>2. /\ Votes(pact) \in [Accounts -> 0..Supply]
      /\ SumFunction(Votes(pact)) \in Nat
      /\ SumFunction(Votes(pact)) = SumFunctionOnSet(pact.balances, Delegating(pact))
  BY <1>0, VotesAreBacked
<1>3. /\ Votes(spact) \in [Accounts -> 0..Supply]
      /\ SumFunction(Votes(spact)) \in Nat
      /\ SumFunction(Votes(spact)) <= spact.supply
  BY <1>0, VotesAreBacked
<1>4. SumFunction(Votes(pact)) <= SumFunctionOnSet(pact.balances, outside)
  <2>1. Delegating(pact) \in SUBSET outside
    BY <1>0, ZeroAddressAssumption DEF Delegating
  <2>2. IsFiniteSet(outside) /\ \A a \in outside : pact.balances[a] \in Nat
    BY <1>0, FS_Subset
  <2>. HIDE DEF outside
  <2>. QED  BY <1>2, <2>1, <2>2, SumPart
<1>5. /\ SumFunctionOnSet(pact.balances, outside) \in Nat
      /\ Supply = pact.balances[StakingContract] + SumFunctionOnSet(pact.balances, outside)
  <2>1. SumFunctionOnSet(pact.balances, Accounts)
          = pact.balances[StakingContract] + SumFunctionOnSet(pact.balances, outside)
    <3>1. \A a \in Accounts : pact.balances[a] \in Int
      BY <1>0
    <3>. QED  BY <1>0, <3>1, SumElement
  <2>2. SumFunctionOnSet(pact.balances, outside) \in Nat
    <3>1. IsFiniteSet(outside) /\ \A a \in outside : pact.balances[a] \in Nat
      BY <1>0, FS_Subset
    <3>. HIDE DEF outside
    <3>. QED  BY <3>1, SumNat
  <2>. QED  BY <1>0, <2>1, <2>2 DEF TokenSound
<1>6. SumFunction(Votes(pact)) + SumFunction(Votes(spact)) <= Supply
  <2>1. pact.balances[StakingContract] \in Nat
    BY <1>0
  <2>. HIDE DEF outside
  <2>. QED  BY <1>0, <1>2, <1>3, <1>4, <1>5, <2>1
<1>7. LedgerVotes \in Ledger!Distributions
  <2>1. \A t \in VotingTokens : LedgerVotes[t] \in [Accounts -> 0..Supply]
    BY <1>1, <1>2, <1>3 DEF VotingTokens
  <2>. QED  BY <2>1 DEF Ledger!Distributions, LedgerVotes, VotingTokens
<1>8. SumFunction(sums) = SumFunction(Votes(pact)) + SumFunction(Votes(spact))
  <2>1. /\ sums["PACT"] = SumFunction(Votes(pact)) /\ sums["SPACT"] = SumFunction(Votes(spact))
        /\ SumFunction(sums) = SumFunctionOnSet(sums, VotingTokens)
    BY <1>1 DEF SumFunction, VotingTokens
  <2>. HIDE DEF sums
  <2>2. SumFunctionOnSet(sums, {"SPACT"}) = sums["SPACT"]
    BY <1>3, <2>1, SumOne
  <2>3. SumFunctionOnSet(sums, {"SPACT"} \cup {"PACT"})
          = sums["PACT"] + SumFunctionOnSet(sums, {"SPACT"})
    <3>1. IsFiniteSet({"SPACT"}) /\ "PACT" \notin {"SPACT"}
      BY FS_Singleton
    <3>2. \A y \in {"SPACT"} \cup {"PACT"} : sums[y] \in Int
      BY <1>2, <1>3, <2>1
    <3>. QED  BY <3>1, <3>2, SumAdd
  <2>4. VotingTokens = {"SPACT"} \cup {"PACT"}
    BY DEF VotingTokens
  <2>. QED  BY <2>1, <2>2, <2>3, <2>4
<1>9. Ledger!Total(LedgerVotes) = SumFunction(sums)
  BY LedgerSum DEF Ledger!Total, VotingTokens
<1>. HIDE DEF sums
<1>. QED  BY <1>6, <1>7, <1>8, <1>9 DEF Ledger!Affordable

\* PACT and SPACT together implement the ledger the governor relies on: staking gives
\* no vote twice, and the votes at the end of a block are final.
THEOREM StakingImplementsVoteLedger == Spec => ImplementsVoteLedger
<1>1. Init => Ledger!LedgerInit
  <2> SUFFICES ASSUME Init PROVE Ledger!LedgerInit
    OBVIOUS
  <2>1. LedgerVotes \in Ledger!Affordable
    BY InitEstablishesIInv, VotesAffordable
  <2>2. block = 1 /\ 1..(block - 1) = {}
    BY DEF Init
  <2>3. [b \in 1..(block - 1) |-> LedgerPast(b)] = << >>
    BY <2>2
  <2>. QED  BY <2>1, <2>2, <2>3 DEF Ledger!LedgerInit, LedgerVotes, LedgerPast, VotingTokens
<1>a. (IInv => LedgerVotes \in Ledger!Affordable)'
  BY VotesAffordable, PTL
<1>2. IInv /\ IInv' /\ [Next]_vars => [Ledger!LedgerNext]_Ledger!ledgerVars
  <2> SUFFICES ASSUME IInv, IInv', [Next]_vars
               PROVE  [Ledger!LedgerNext]_Ledger!ledgerVars
    OBVIOUS
  <2>0. block \in 1..MaxBlock /\ LedgerVotes' \in Ledger!Affordable
    BY <1>a DEF IInv, TypeOK
  <2>1. CASE PastKept
    <3>1. /\ block' = block
          /\ \A b \in 1..(block - 1), v \in Accounts :
               /\ PriorVotes(pact'.checkpoints[v], b) = PriorVotes(pact.checkpoints[v], b)
               /\ PriorVotes(spact'.checkpoints[v], b) = PriorVotes(spact.checkpoints[v], b)
      BY <2>0, <2>1 DEF PastKept, SamePast
    <3>2. \A b \in 1..(block - 1) : LedgerPast(b)' = LedgerPast(b)
      BY <3>1 DEF LedgerPast, TokenOf
    <3>3. [b \in 1..(block' - 1) |-> LedgerPast(b)'] = [b \in 1..(block - 1) |-> LedgerPast(b)]
      BY <3>1, <3>2
    <3>4. Ledger!ChangeVotes
      BY <2>0, <3>1, <3>3 DEF Ledger!ChangeVotes, LedgerVotes, LedgerPast, VotingTokens
    <3>. QED  BY <3>4 DEF Ledger!LedgerNext
  <2>2. CASE NextBlock
    <3>1. block < MaxBlock /\ block' = block + 1 /\ pact' = pact /\ spact' = spact
      BY <2>2 DEF NextBlock
    <3>2. 1..(block' - 1) = 1..block
      BY <2>0, <3>1
    <3>3. \A v \in Accounts :
            /\ PriorVotes(pact.checkpoints[v], block) = CurrentVotes(pact.checkpoints[v])
            /\ PriorVotes(spact.checkpoints[v], block) = CurrentVotes(spact.checkpoints[v])
      BY CurrentBecomesPrior DEF IInv, TokensSound, TokenSound
    <3>4. LedgerPast(block) = LedgerVotes
      BY <3>3 DEF LedgerPast, LedgerVotes, TokenOf
    <3>5. \A b : LedgerPast(b)' = LedgerPast(b)
      BY <3>1 DEF LedgerPast, TokenOf
    <3>6. [b \in 1..(block' - 1) |-> LedgerPast(b)'] =
            [b \in 1..block |-> IF b = block THEN LedgerVotes
                                ELSE [c \in 1..(block - 1) |-> LedgerPast(c)][b]]
      <4>1. \A b \in 1..block : b # block => b \in 1..(block - 1)
        BY <2>0
      <4>. QED  BY <3>2, <3>4, <3>5, <4>1
    <3>7. LedgerVotes' = LedgerVotes
      BY <3>1 DEF LedgerVotes, TokenOf
    <3>8. Ledger!NextBlock
      BY <3>1, <3>6, <3>7 DEF Ledger!NextBlock, LedgerVotes, LedgerPast, VotingTokens
    <3>. QED  BY <3>8 DEF Ledger!LedgerNext
  <2>. QED  BY <2>1, <2>2, StepKeepsIInv
<1>3. QED
  BY <1>1, <1>2, StakingInvariant, PTL DEF ImplementsVoteLedger, Ledger!LedgerSpec, Spec
=============================================================================
