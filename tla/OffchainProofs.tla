---------------------------- MODULE OffchainProofs ----------------------------
(***************************************************************************)
(* Theorems about the off-chain programs, for any values of the constants.  *)
(* HolderCount: whoever holds is counted once, for any holders, transfers   *)
(* and reorganizations of the chain.  ReserveSetup: a helper of the market  *)
(* hands back the role it lends, and what it sets up is as the market's     *)
(* table says, for any table and size of the chunks and however often the   *)
(* runs stop and are repeated.  BeneficiarySnapshot: the file has who was   *)
(* valid all along, and nobody more often than they were valid somewhere,   *)
(* for any communities, people and order of the answers.  AirdropV2:        *)
(* whoever is on the list proves it and nobody else does, for a list of any  *)
(* length and any terms.  MerkleDistributor: every claim of the file is paid  *)
(* as listed and nothing else is, for tables of any length and any hashes.    *)
(***************************************************************************)
EXTENDS HolderCount, ReserveSetup, AirdropV2, MerkleDistributor, SumTheorems, SequenceTheorems, FunctionTheorems

(***************************************************************************)
(* The holders.                                                             *)
(***************************************************************************)
Transfer == [from : Accounts, to : Accounts, amount : Nat]

\* Adding up the events one after the other.
IsReplay(f, amounts, log, n) ==
  f = [i \in 0..n |-> IF i = 0 THEN amounts ELSE AddTransfer(f[i - 1], log[i])]

LEMMA ReplayExists == ASSUME NEW amounts, NEW log PROVE \A n \in Nat : \E f : IsReplay(f, amounts, log, n)
<1> DEFINE W == {n \in Nat : \E f : IsReplay(f, amounts, log, n)}
           V(f, i) == IF i = 0 THEN amounts ELSE AddTransfer(f[i - 1], log[i])
<1>1. 0 \in W
  <2> DEFINE f == [i \in 0..0 |-> amounts]
  <2>1. f = [i \in 0..0 |-> V(f, i)]
    <3>1. \A i \in 0..0 : i = 0
      OBVIOUS
    <3> QED BY <3>1
  <2>2. IsReplay(f, amounts, log, 0)
    BY <2>1 DEF IsReplay
  <2> QED BY <2>2
<1>2. ASSUME NEW n \in Nat, n \in W PROVE n + 1 \in W
  <2>1. PICK f : IsReplay(f, amounts, log, n)
    BY <1>2
  <2>2. \A i \in 0..n : f[i] = V(f, i)
    BY <2>1 DEF IsReplay
  <2> DEFINE m == n + 1
             g == [i \in 0..m |-> IF i = m THEN AddTransfer(f[m - 1], log[m]) ELSE f[i]]
  <2>3. ASSUME NEW i \in 0..m PROVE g[i] = V(g, i)
    <3>1. CASE i = m
      <4>1. m - 1 \in 0..m /\ m - 1 # m /\ m # 0
        OBVIOUS
      <4>2. g[m - 1] = f[m - 1] /\ g[m] = AddTransfer(f[m - 1], log[m])
        BY <3>1, <4>1
      <4> HIDE DEF g, m
      <4> QED BY <3>1, <4>1, <4>2
    <3>2. CASE i # m
      <4>1. i \in 0..n /\ (i # 0 => i - 1 \in 0..m /\ i - 1 # m)
        BY <3>2
      <4>2. g[i] = f[i] /\ (i # 0 => g[i - 1] = f[i - 1])
        BY <3>2, <4>1
      <4> HIDE DEF g, m
      <4> QED BY <2>2, <4>1, <4>2
    <3> QED BY <3>1, <3>2
  <2>4. IsReplay(g, amounts, log, m)
    <3> DEFINE h == [i \in 0..m |-> V(g, i)]
    <3>1. g = [i \in 0..m |-> g[i]]
      OBVIOUS
    <3>2. \A i \in 0..m : g[i] = h[i]
      BY <2>3
    <3> HIDE DEF g
    <3>3. g = h
      BY <3>1, <3>2
    <3> QED BY <3>3 DEF IsReplay
  <2> QED BY <2>4
<1> HIDE DEF W
<1>3. Nat \subseteq W
  BY <1>1, <1>2, NaturalInduction
<1> QED BY <1>3 DEF W

SumsUp(h, amounts, log, n) ==
  h[0] = amounts /\ \A i \in 1..n : h[i] = AddTransfer(h[i - 1], log[i])

LEMMA ReplayIs ==
  ASSUME NEW amounts, NEW log, Len(log) \in Nat
  PROVE  \E h : SumsUp(h, amounts, log, Len(log)) /\ TokenEvents(amounts, log) = h[Len(log)]
<1> DEFINE f == CHOOSE g : IsReplay(g, amounts, log, Len(log))
<1>1. IsReplay(f, amounts, log, Len(log))
  BY ReplayExists
<1>2. TokenEvents(amounts, log) = f[Len(log)]
  BY DEF TokenEvents, IsReplay
<1> HIDE DEF f
<1>3. SumsUp(f, amounts, log, Len(log))
  <2>1. 0 \in 0..Len(log) /\ \A i \in 1..Len(log) : i \in 0..Len(log) /\ i # 0
    OBVIOUS
  <2> QED BY <1>1, <2>1 DEF IsReplay, SumsUp
<1> QED BY <1>2, <1>3

\* One event more.
LEMMA ReplayOneMore ==
  ASSUME NEW amounts, NEW log \in Seq(Transfer), NEW e \in Transfer
  PROVE  TokenEvents(amounts, Append(log, e)) = AddTransfer(TokenEvents(amounts, log), e)
<1> DEFINE longer == Append(log, e)
           n == Len(log)
<1>1. /\ n \in Nat /\ Len(longer) = n + 1 /\ longer[n + 1] = e
      /\ \A i \in 1..n : longer[i] = log[i]
  OBVIOUS
<1> HIDE DEF longer, n
<1>2. PICK f : SumsUp(f, amounts, log, n) /\ TokenEvents(amounts, log) = f[n]
  BY <1>1, ReplayIs DEF n
<1>3. PICK g : SumsUp(g, amounts, longer, n + 1) /\ TokenEvents(amounts, longer) = g[n + 1]
  <2>1. PICK k \in Nat : k = Len(longer) /\ k = n + 1
    BY <1>1
  <2>2. PICK h : SumsUp(h, amounts, longer, Len(longer)) /\ TokenEvents(amounts, longer) = h[Len(longer)]
    <3>1. Len(longer) \in Nat
      BY <2>1
    <3> QED BY <3>1, ReplayIs
  <2> QED BY <2>1, <2>2
<1> DEFINE W == {i \in Nat : i <= n => g[i] = f[i]}
<1>4. 0 \in W
  BY <1>2, <1>3 DEF SumsUp
<1>5. ASSUME NEW i \in Nat, i \in W PROVE i + 1 \in W
  <2> SUFFICES ASSUME i + 1 <= n PROVE g[i + 1] = f[i + 1]
    OBVIOUS
  <2>1. i <= n /\ i + 1 \in 1..n /\ i + 1 \in 1..(n + 1) /\ (i + 1) - 1 = i
    BY <1>1
  <2>2. g[i] = f[i]
    BY <1>5, <2>1
  <2>3. f[i + 1] = AddTransfer(f[i], log[i + 1])
    BY <1>2, <2>1 DEF SumsUp
  <2>4. g[i + 1] = AddTransfer(g[i], longer[i + 1])
    BY <1>3, <2>1 DEF SumsUp
  <2> QED BY <1>1, <2>1, <2>2, <2>3, <2>4
<1> HIDE DEF W
<1>6. Nat \subseteq W
  BY <1>4, <1>5, NaturalInduction
<1>7. g[n] = f[n]
  BY <1>1, <1>6 DEF W
<1>8. n + 1 \in 1..(n + 1) /\ (n + 1) - 1 = n
  BY <1>1
<1>9. g[n + 1] = AddTransfer(g[n], longer[n + 1])
  BY <1>3, <1>8 DEF SumsUp
<1> QED BY <1>1, <1>2, <1>3, <1>7, <1>9 DEF longer

LEMMA ReplayNone == ASSUME NEW amounts PROVE TokenEvents(amounts, << >>) = amounts
<1>1. Len(<< >>) = 0 /\ Len(<< >>) \in Nat
  OBVIOUS
<1> QED BY <1>1, ReplayIs DEF SumsUp

(***************************************************************************)
(* What the script has added up, and what it will add, are the balances.    *)
(***************************************************************************)
CountsTyped ==
  /\ balanceOf \in [CountedTokens -> [Holders -> Nat]]
  /\ logs \in [CountedTokens -> Seq(Transfer)]
  /\ holderAmounts \in [CountedTokens -> [Accounts -> Nat]]

Agree(amounts, balances) ==
  /\ amounts \in [Accounts -> Nat]
  /\ \A a \in Holders : amounts[a] = balances[a]

HolderIInv ==
  /\ CountsTyped
  /\ \A t \in CountedTokens : Agree(TokenEvents(holderAmounts[t], logs[t]), balanceOf[t])
  /\ epoch \in Nat
  /\ epoch > 1 => count = Counted(holderAmounts)

LEMMA HolderInit == HolderCountInit => HolderIInv
<1> SUFFICES ASSUME HolderCountInit PROVE HolderIInv
  OBVIOUS
<1>1. << >> \in Seq(Transfer)
  OBVIOUS
<1>2. CountsTyped
  BY <1>1 DEF HolderCountInit, CountsTyped
<1>3. ASSUME NEW t \in CountedTokens PROVE Agree(TokenEvents(holderAmounts[t], logs[t]), balanceOf[t])
  <2>1. holderAmounts[t] = [a \in Accounts |-> 0] /\ logs[t] = << >> /\ balanceOf[t] = [a \in Holders |-> 0]
    BY DEF HolderCountInit
  <2>2. TokenEvents(holderAmounts[t], logs[t]) = holderAmounts[t]
    BY <2>1, ReplayNone
  <2> QED BY <2>1, <2>2 DEF Agree, Accounts
<1>4. epoch = 1
  BY DEF HolderCountInit
<1> QED BY <1>2, <1>3, <1>4 DEF HolderIInv

MayPay(balances, from, to, n) ==
  /\ from = to => from # ZeroAddress
  /\ from # ZeroAddress => balances[from] >= n
Paid(balances, from, to, n) ==
  [a \in Holders |-> IF from = to THEN balances[a] ELSE IF a = from THEN balances[a] - n
                     ELSE IF a = to THEN balances[a] + n ELSE balances[a]]

\* A transfer does to what is added up what it does to the balances.
LEMMA TransferAgrees ==
  ASSUME NEW amounts, NEW balances \in [Holders -> Nat], Agree(amounts, balances),
         NEW from \in Accounts, NEW to \in Accounts, NEW n \in Nat, MayPay(balances, from, to, n),
         NEW e, e = [from |-> from, to |-> to, amount |-> n]
  PROVE  Agree(AddTransfer(amounts, e), Paid(balances, from, to, n))
         /\ Paid(balances, from, to, n) \in [Holders -> Nat]
<1>0. PICK after : /\ after = Paid(balances, from, to, n)
                   /\ after = [a \in Holders |-> IF from = to THEN balances[a]
                                                 ELSE IF a = from THEN balances[a] - n
                                                 ELSE IF a = to THEN balances[a] + n ELSE balances[a]]
  BY DEF Paid
<1>m. (from = to => from # ZeroAddress) /\ (from # ZeroAddress => balances[from] >= n)
  BY DEF MayPay
<1>1. /\ amounts \in [Accounts -> Nat] /\ \A a \in Holders : amounts[a] = balances[a]
      /\ ZeroAddress \notin Holders /\ Accounts = Holders \cup {ZeroAddress}
  BY HolderCountAssumption DEF Agree, Accounts
<1>2. e.from = from /\ e.to = to /\ e.amount = n
  OBVIOUS
<1>3. PICK credited \in [Accounts -> Nat] :
        /\ credited = [amounts EXCEPT ![to] = @ + n]
        /\ credited[to] = amounts[to] + n
        /\ \A a \in Accounts : a # to => credited[a] = amounts[a]
  <2>1. PICK x \in Nat : x = amounts[to] + n
    <3>1. amounts[to] \in Nat
      BY <1>1
    <3> QED BY <3>1
  <2>2. PICK c : c = [amounts EXCEPT ![to] = x]
    OBVIOUS
  <2>3. c \in [Accounts -> Nat] /\ c[to] = x /\ \A a \in Accounts : a # to => c[a] = amounts[a]
    BY <1>1, <2>2
  <2> QED BY <2>1, <2>2, <2>3
<1>4. AddTransfer(amounts, e) =
        IF credited[from] >= n THEN [credited EXCEPT ![from] = @ - n]
        ELSE IF from # ZeroAddress THEN [credited EXCEPT ![from] = 0] ELSE credited
  BY <1>2, <1>3 DEF AddTransfer
<1>5. PICK r : r = AddTransfer(amounts, e)
  OBVIOUS
<1>6. CASE from = to
  <2>1. from \in Holders /\ credited[from] >= n
    BY <1>1, <1>3, <1>6, <1>m
  <2>2. r = [credited EXCEPT ![from] = @ - n]
    BY <1>4, <1>5, <2>1
  <2>3. r \in [Accounts -> Nat] /\ \A a \in Accounts : r[a] = amounts[a]
    BY <1>1, <1>3, <1>6, <2>1, <2>2
  <2>4. \A a \in Holders : a \in Accounts /\ after[a] = balances[a]
    BY <1>0, <1>1, <1>6
  <2> QED BY <1>0, <1>1, <1>5, <1>6, <2>3, <2>4 DEF Agree
<1>7. CASE from # to /\ from = ZeroAddress
  <2>1. /\ r \in [Accounts -> Nat]
        /\ \A a \in Accounts : a # from => r[a] = credited[a]
    <3>1. CASE credited[from] >= n
      BY <1>3, <1>4, <1>5, <3>1
    <3>2. CASE ~(credited[from] >= n)
      BY <1>4, <1>5, <1>7, <3>2
    <3> QED BY <3>1, <3>2
  <2>2. \A a \in Holders : a \in Accounts /\ a # from /\ after[a] = (IF a = to THEN balances[a] + n ELSE balances[a])
    BY <1>0, <1>1, <1>7
  <2>3. \A a \in Holders : r[a] = after[a]
    BY <1>1, <1>3, <2>1, <2>2
  <2> QED BY <1>0, <1>5, <2>1, <2>2, <2>3 DEF Agree
<1>8. CASE from # to /\ from # ZeroAddress
  <2>1. from \in Holders /\ credited[from] = balances[from] /\ credited[from] >= n
    BY <1>1, <1>3, <1>8, <1>m
  <2>2. r = [credited EXCEPT ![from] = @ - n]
    BY <1>4, <1>5, <2>1
  <2>3. /\ r \in [Accounts -> Nat] /\ r[from] = credited[from] - n
        /\ \A a \in Accounts : a # from => r[a] = credited[a]
    BY <1>3, <2>1, <2>2
  <2>4. \A a \in Holders : a \in Accounts /\ after[a] = (IF a = from THEN balances[a] - n ELSE
                                                         IF a = to THEN balances[a] + n ELSE balances[a])
    BY <1>0, <1>1, <1>8
  <2>5. \A a \in Holders : r[a] = after[a]
    BY <1>1, <1>3, <1>8, <2>1, <2>3, <2>4
  <2>6. \A a \in Holders : after[a] \in Nat
    BY <2>3, <2>4, <2>5
  <2> QED BY <1>0, <1>5, <2>3, <2>5, <2>6 DEF Agree
<1> QED BY <1>6, <1>7, <1>8

LEMMA TransferKeeps ==
  ASSUME HolderIInv, NEW t \in CountedTokens, NEW from \in Accounts, NEW to \in Accounts, NEW n \in Nat,
         TransferEvent(t, from, to, n)
  PROVE  HolderIInv'
<1>1. PICK e : e = [from |-> from, to |-> to, amount |-> n]
  OBVIOUS
<1>2. e \in Transfer
  BY <1>1 DEF Transfer
<1>3. PICK after : after = Paid(balanceOf[t], from, to, n)
  OBVIOUS
<1>4. /\ MayPay(balanceOf[t], from, to, n)
      /\ balanceOf' = [balanceOf EXCEPT ![t] = after]
      /\ logs' = [logs EXCEPT ![t] = Append(logs[t], e)]
      /\ UNCHANGED <<holderAmounts, count, epoch>>
  BY <1>1, <1>3 DEF TransferEvent, MayPay, Paid
<1>5. /\ balanceOf \in [CountedTokens -> [Holders -> Nat]] /\ logs \in [CountedTokens -> Seq(Transfer)]
      /\ holderAmounts \in [CountedTokens -> [Accounts -> Nat]]
      /\ balanceOf[t] \in [Holders -> Nat] /\ logs[t] \in Seq(Transfer)
  BY DEF HolderIInv, CountsTyped
<1>6. /\ Agree(AddTransfer(TokenEvents(holderAmounts[t], logs[t]), e), after)
      /\ after \in [Holders -> Nat]
  <2>1. Agree(TokenEvents(holderAmounts[t], logs[t]), balanceOf[t])
    BY DEF HolderIInv
  <2>2. PICK b \in [Holders -> Nat] : b = balanceOf[t]
    BY <1>5
  <2>3. after = Paid(b, from, to, n) /\ MayPay(b, from, to, n) /\ Agree(TokenEvents(holderAmounts[t], logs[t]), b)
    BY <1>3, <1>4, <2>1, <2>2
  <2> QED BY <1>1, <2>3, TransferAgrees
<1>7. Append(logs[t], e) \in Seq(Transfer)
  BY <1>2, <1>5
<1>8. CountsTyped'
  BY <1>4, <1>5, <1>6, <1>7 DEF CountsTyped
<1>9. ASSUME NEW s \in CountedTokens PROVE Agree(TokenEvents(holderAmounts'[s], logs'[s]), balanceOf'[s])
  <2>1. CASE s = t
    <3>1. logs'[s] = Append(logs[t], e) /\ balanceOf'[s] = after /\ holderAmounts'[s] = holderAmounts[t]
      BY <1>4, <1>5, <2>1
    <3>2. TokenEvents(holderAmounts[t], Append(logs[t], e)) = AddTransfer(TokenEvents(holderAmounts[t], logs[t]), e)
      BY <1>2, <1>5, ReplayOneMore
    <3> QED BY <1>6, <3>1, <3>2
  <2>2. CASE s # t
    <3>1. logs'[s] = logs[s] /\ balanceOf'[s] = balanceOf[s] /\ holderAmounts'[s] = holderAmounts[s]
      BY <1>4, <1>5, <2>2
    <3> QED BY <3>1 DEF HolderIInv
  <2> QED BY <2>1, <2>2
<1>10. epoch' \in Nat /\ (epoch' > 1 => count' = Counted(holderAmounts'))
  BY <1>4 DEF HolderIInv
<1> QED BY <1>8, <1>9, <1>10 DEF HolderIInv

LEMMA CheckKeeps == ASSUME HolderIInv, CheckEpoch PROVE HolderIInv'
<1>1. PICK amounts : amounts = [t \in CountedTokens |-> TokenEvents(holderAmounts[t], logs[t])]
  OBVIOUS
<1>2. /\ holderAmounts' = amounts /\ count' = Counted(amounts)
      /\ logs' = [t \in CountedTokens |-> << >>] /\ epoch' = epoch + 1 /\ balanceOf' = balanceOf
  BY <1>1 DEF CheckEpoch
<1>3. \A t \in CountedTokens : Agree(amounts[t], balanceOf[t])
  BY <1>1 DEF HolderIInv
<1>4. CountsTyped'
  <2>1. amounts \in [CountedTokens -> [Accounts -> Nat]]
    BY <1>1, <1>3 DEF Agree
  <2>2. << >> \in Seq(Transfer)
    OBVIOUS
  <2> QED BY <1>2, <2>1, <2>2 DEF CountsTyped, HolderIInv
<1>5. ASSUME NEW t \in CountedTokens PROVE Agree(TokenEvents(holderAmounts'[t], logs'[t]), balanceOf'[t])
  <2>1. logs'[t] = << >> /\ holderAmounts'[t] = amounts[t] /\ balanceOf'[t] = balanceOf[t]
    BY <1>2
  <2> QED BY <1>3, <2>1, ReplayNone
<1>6. epoch' \in Nat /\ count' = Counted(holderAmounts')
  BY <1>2 DEF HolderIInv
<1> QED BY <1>4, <1>5, <1>6 DEF HolderIInv

LEMMA StepKeepsHolders == HolderIInv /\ [HolderCountNext]_holderVars => HolderIInv'
<1> SUFFICES ASSUME HolderIInv, [HolderCountNext]_holderVars PROVE HolderIInv'
  OBVIOUS
<1>1. \A n \in 1..MaxSupply : n \in Nat
  OBVIOUS
<1>2. CASE \E t \in CountedTokens, from, to \in Accounts, amount \in 1..MaxSupply : TransferEvent(t, from, to, amount)
  BY <1>1, <1>2, TransferKeeps
<1>3. CASE CheckEpoch
  BY <1>3, CheckKeeps
<1>4. CASE UNCHANGED holderVars
  BY <1>4 DEF holderVars, HolderIInv, CountsTyped
<1> QED BY <1>2, <1>3, <1>4 DEF HolderCountNext

(***************************************************************************)
(* Counting.                                                                *)
(***************************************************************************)
\* With or without the zero address.
With(A, b) == IF b THEN A \cup {ZeroAddress} ELSE A
One(b) == IF b THEN 1 ELSE 0

LEMMA WithOne ==
  ASSUME NEW A, A \subseteq Holders, NEW b \in BOOLEAN
  PROVE  IsFiniteSet(A) /\ Cardinality(A) \in Nat /\ Cardinality(With(A, b)) = Cardinality(A) + One(b)
<1>1. IsFiniteSet(A) /\ ZeroAddress \notin A
  BY HolderCountAssumption, FS_Subset
<1>2. Cardinality(A) \in Nat
  BY <1>1, FS_CardinalityType
<1>3. CASE b
  BY <1>1, <1>2, <1>3, FS_AddElement DEF With, One
<1>4. CASE ~b
  BY <1>1, <1>2, <1>4 DEF With, One
<1> QED BY <1>1, <1>2, <1>3, <1>4

\* Those of two sets but not of a third, counted one set after the other.
LEMMA TwoApart ==
  ASSUME NEW P, P \subseteq Holders, NEW L, L \subseteq Holders, NEW S, S \subseteq Holders
  PROVE  Cardinality(P) + Cardinality(L \ P) + Cardinality(S \ P)
           = Cardinality(P \cup L \cup S) + Cardinality((L \cap S) \ P)
<1>1. \A A : A \subseteq Holders => IsFiniteSet(A) /\ Cardinality(A) \in Nat
  BY HolderCountAssumption, FS_Subset, FS_CardinalityType
<1>2. PICK l, s : l = L \ P /\ s = S \ P
  OBVIOUS
<1>3. /\ l \subseteq Holders /\ s \subseteq Holders /\ l \cup s \subseteq Holders /\ l \cap s \subseteq Holders
      /\ P \cup (l \cup s) \subseteq Holders
      /\ P \cap (l \cup s) = {} /\ P \cup (l \cup s) = P \cup L \cup S /\ l \cap s = (L \cap S) \ P
  BY <1>2
<1>4. Cardinality(l \cup s) = Cardinality(l) + Cardinality(s) - Cardinality(l \cap s)
  BY <1>1, <1>3, FS_Union
<1>5. Cardinality(P \cup (l \cup s)) = Cardinality(P) + Cardinality(l \cup s) - Cardinality(P \cap (l \cup s))
  BY <1>1, <1>3, FS_Union
<1>6. Cardinality(P \cap (l \cup s)) = 0
  BY <1>3, FS_EmptySet
<1>7. /\ Cardinality(P) \in Nat /\ Cardinality(l) \in Nat /\ Cardinality(s) \in Nat
      /\ Cardinality(l \cup s) \in Nat /\ Cardinality(l \cap s) \in Nat /\ Cardinality(P \cup (l \cup s)) \in Nat
  BY <1>1, <1>3
<1>8. Cardinality(P) + Cardinality(l) + Cardinality(s) = Cardinality(P \cup (l \cup s)) + Cardinality(l \cap s)
  BY <1>4, <1>5, <1>6, <1>7
<1> QED BY <1>2, <1>3, <1>8

LEMMA HoldersCounted == HolderIInv => CountedOnceOrExplained
<1> SUFFICES ASSUME HolderIInv, UpToDate
             PROVE  count = Cardinality(UNION {HoldersOf(t) : t \in CountedTokens})
                            + Cardinality((HoldersOf("LP") \cap HoldersOf("SPACT")) \ HoldersOf("PACT"))
                            + (IF holderAmounts["PACT"][ZeroAddress] > 0 THEN 1
                               ELSE Cardinality({t \in {"LP", "SPACT"} : holderAmounts[t][ZeroAddress] > 0}))
  BY DEF CountedOnceOrExplained
<1> DEFINE z(t) == holderAmounts[t][ZeroAddress] > 0
<1>1. "PACT" \in CountedTokens /\ "LP" \in CountedTokens /\ "SPACT" \in CountedTokens
  BY DEF CountedTokens
<1>2. ASSUME NEW t \in CountedTokens
      PROVE  HoldersOf(t) \subseteq Holders /\ Holding(holderAmounts, t) = With(HoldersOf(t), z(t))
  <2>1. Agree(holderAmounts[t], balanceOf[t])
    BY ReplayNone DEF UpToDate, HolderIInv
  <2>2. \A a \in Holders : holderAmounts[t][a] = balanceOf[t][a]
    BY <2>1 DEF Agree
  <2>3. Accounts = Holders \cup {ZeroAddress} /\ ZeroAddress \notin Holders
    BY HolderCountAssumption DEF Accounts
  <2> QED BY <2>2, <2>3 DEF HoldersOf, Holding, With
<1>3. PICK P, L, S : /\ P = HoldersOf("PACT") /\ L = HoldersOf("LP") /\ S = HoldersOf("SPACT")
                     /\ P \subseteq Holders /\ L \subseteq Holders /\ S \subseteq Holders
  BY <1>1, <1>2
<1>4. PICK zP \in BOOLEAN, zL \in BOOLEAN, zS \in BOOLEAN : zP = z("PACT") /\ zL = z("LP") /\ zS = z("SPACT")
  <2>1. \A t \in CountedTokens : z(t) \in BOOLEAN
    OBVIOUS
  <2> HIDE DEF z
  <2> QED BY <1>1, <2>1
<1>5. /\ Holding(holderAmounts, "PACT") = With(P, zP)
      /\ Holding(holderAmounts, "LP") = With(L, zL)
      /\ Holding(holderAmounts, "SPACT") = With(S, zS)
  BY <1>1, <1>2, <1>3, <1>4
<1>6. count = Cardinality(With(P, zP)) + Cardinality(With(L, zL) \ With(P, zP))
              + Cardinality(With(S, zS) \ With(P, zP))
  BY <1>5 DEF HolderIInv, UpToDate, Counted
<1>7. /\ With(L, zL) \ With(P, zP) = With(L \ P, zL /\ ~zP)
      /\ With(S, zS) \ With(P, zP) = With(S \ P, zS /\ ~zP)
  <2>1. ZeroAddress \notin Holders
    BY HolderCountAssumption
  <2> QED BY <1>3, <2>1 DEF With
<1>8. PICK bL \in BOOLEAN, bS \in BOOLEAN : bL = (zL /\ ~zP) /\ bS = (zS /\ ~zP)
  BY <1>4
<1>9. /\ Cardinality(With(P, zP)) = Cardinality(P) + One(zP) /\ Cardinality(P) \in Nat
      /\ Cardinality(With(L \ P, bL)) = Cardinality(L \ P) + One(bL) /\ Cardinality(L \ P) \in Nat
      /\ Cardinality(With(S \ P, bS)) = Cardinality(S \ P) + One(bS) /\ Cardinality(S \ P) \in Nat
  <2>1. L \ P \subseteq Holders /\ S \ P \subseteq Holders
    BY <1>3
  <2> QED BY <1>3, <1>4, <1>8, <2>1, WithOne
<1>10. PICK x \in Nat : x = One(zP) + One(bL) + One(bS)
  BY DEF One
<1>11. x = (IF zP THEN 1 ELSE Cardinality({t \in {"LP", "SPACT"} : z(t)}))
  <2>1. CASE zP
    <3>1. ~bL /\ ~bS
      BY <1>8, <2>1
    <3> QED BY <1>10, <2>1, <3>1 DEF One
  <2>2. CASE ~zP
    <3> DEFINE T == {t \in {"LP", "SPACT"} : z(t)}
    <3>1. bL = zL /\ bS = zS
      BY <1>4, <1>8, <2>2
    <3>2. T = (IF zL THEN {"LP"} ELSE {}) \cup (IF zS THEN {"SPACT"} ELSE {})
      BY <1>4
    <3> HIDE DEF T
    <3>3. Cardinality({"LP"}) = 1 /\ Cardinality({"SPACT"}) = 1 /\ Cardinality({}) = 0
          /\ Cardinality({"LP", "SPACT"}) = 2
      <4>1. IsFiniteSet({"LP"}) /\ Cardinality({"LP"}) = 1 /\ Cardinality({"SPACT"}) = 1 /\ Cardinality({}) = 0
        BY FS_Singleton, FS_EmptySet
      <4>2. "SPACT" \notin {"LP"} /\ {"LP"} \cup {"SPACT"} = {"LP", "SPACT"}
        OBVIOUS
      <4>3. Cardinality({"LP"} \cup {"SPACT"}) = 2
        BY <4>1, <4>2, FS_AddElement
      <4> QED BY <4>1, <4>2, <4>3
    <3>4. Cardinality(T) = One(zL) + One(zS)
      <4>1. CASE zL /\ zS
        <5>1. T = {"LP", "SPACT"}
          BY <3>2, <4>1
        <5> QED BY <3>3, <4>1, <5>1 DEF One
      <4>2. CASE zL /\ ~zS
        <5>1. T = {"LP"}
          BY <3>2, <4>2
        <5> QED BY <3>3, <4>2, <5>1 DEF One
      <4>3. CASE ~zL /\ zS
        <5>1. T = {"SPACT"}
          BY <3>2, <4>3
        <5> QED BY <3>3, <4>3, <5>1 DEF One
      <4>4. CASE ~zL /\ ~zS
        <5>1. T = {}
          BY <3>2, <4>4
        <5> QED BY <3>3, <4>4, <5>1 DEF One
      <4> QED BY <4>1, <4>2, <4>3, <4>4
    <3>5. x = One(zL) + One(zS)
      BY <1>10, <2>2, <3>1 DEF One
    <3> QED BY <2>2, <3>4, <3>5 DEF T
  <2> QED BY <2>1, <2>2
<1>12. Cardinality(P) + Cardinality(L \ P) + Cardinality(S \ P)
         = Cardinality(P \cup L \cup S) + Cardinality((L \cap S) \ P)
  <2>1. P \subseteq Holders /\ L \subseteq Holders /\ S \subseteq Holders
    BY <1>3
  <2> QED BY <2>1, TwoApart, Zenon
<1>13. UNION {HoldersOf(t) : t \in CountedTokens} = P \cup L \cup S
  BY <1>3 DEF CountedTokens
<1>14. count = (Cardinality(P) + Cardinality(L \ P) + Cardinality(S \ P)) + x
  <2>1. /\ One(zP) \in Nat /\ One(bL) \in Nat /\ One(bS) \in Nat
    BY DEF One
  <2>2. count = (Cardinality(P) + One(zP)) + (Cardinality(L \ P) + One(bL)) + (Cardinality(S \ P) + One(bS))
    BY <1>6, <1>7, <1>8, <1>9
  <2> QED BY <1>9, <1>10, <2>1, <2>2
<1> HIDE DEF z
<1>15. count = Cardinality(P \cup L \cup S) + Cardinality((L \cap S) \ P) + x
  BY <1>12, <1>14
<1> QED BY <1>3, <1>4, <1>11, <1>13, <1>15 DEF z

\* Whatever is transferred, minted and burned between the days the script looks at, the
\* number it prints is the number of holders, but for those the script counts twice and
\* the zero address.
THEOREM HoldersAreCounted == HolderCountSpec => []CountedOnceOrExplained
<1>1. HolderCountInit => HolderIInv
  BY HolderInit
<1>2. HolderIInv /\ [HolderCountNext]_holderVars => HolderIInv'
  BY StepKeepsHolders
<1>3. HolderIInv => CountedOnceOrExplained
  BY HoldersCounted
<1> QED BY <1>1, <1>2, <1>3, PTL DEF HolderCountSpec

(***************************************************************************)
(* The reserves.  What a helper is going to send is a sequence, whatever is  *)
(* in it; of sequences these are the facts that are used.                   *)
(***************************************************************************)
IsSeq(s) == \E S : s \in Seq(S)

LEMMA SeqIs ==
  ASSUME NEW s, IsSeq(s)
  PROVE  Len(s) \in Nat /\ DOMAIN s = 1..Len(s)
<1>1. PICK S : s \in Seq(S)
  BY DEF IsSeq
<1> QED BY <1>1

LEMMA TailIs ==
  ASSUME NEW s, IsSeq(s), s # << >>
  PROVE  /\ Len(s) \in Nat \ {0} /\ DOMAIN s = 1..Len(s) /\ Head(s) = s[1]
         /\ IsSeq(Tail(s)) /\ DOMAIN Tail(s) = 1..(Len(s) - 1)
         /\ \A i \in DOMAIN Tail(s) : i + 1 \in DOMAIN s /\ Tail(s)[i] = s[i + 1]
         /\ Tail(s) = << >> <=> Len(s) = 1
<1>1. PICK S : s \in Seq(S)
  BY DEF IsSeq
<1>2. Tail(s) \in Seq(S) /\ Len(Tail(s)) = Len(s) - 1 /\ Len(s) \in Nat \ {0}
  BY <1>1
<1>3. DOMAIN Tail(s) = 1..(Len(s) - 1)
  BY <1>2
<1>4. \A i \in DOMAIN Tail(s) : i + 1 \in DOMAIN s /\ Tail(s)[i] = s[i + 1]
  BY <1>1, <1>2
<1>5. Tail(s) = << >> <=> Len(s) = 1
  BY <1>2
<1> QED BY <1>1, <1>2, <1>3, <1>4, <1>5 DEF IsSeq

LEMMA IndexedIs ==
  ASSUME NEW n \in Nat, NEW s, s = [i \in 1..n |-> s[i]]
  PROVE  IsSeq(s) /\ Len(s) = n
<1> DEFINE S == {s[i] : i \in 1..n}
<1>1. s \in [1..n -> S]
  OBVIOUS
<1>2. s \in Seq(S)
  BY <1>1
<1>3. Len(s) \in Nat /\ DOMAIN s = 1..n /\ DOMAIN s = 1..Len(s)
  BY <1>1, <1>2
<1>4. \A m \in Nat : 1..m = 1..n => m = n
  <2> SUFFICES ASSUME NEW m \in Nat, 1..m = 1..n PROVE m = n
    OBVIOUS
  <2>1. (m > n => m \in 1..m) /\ (n > m => n \in 1..n)
    OBVIOUS
  <2> QED BY <2>1
<1> QED BY <1>2, <1>3, <1>4 DEF IsSeq

LEMMA ConcatIs ==
  ASSUME NEW s, NEW t, IsSeq(s), IsSeq(t)
  PROVE  /\ IsSeq(s \o t) /\ Len(s \o t) = Len(s) + Len(t)
         /\ \A i \in 1..Len(s) : (s \o t)[i] = s[i]
         /\ \A i \in 1..Len(t) : (s \o t)[Len(s) + i] = t[i]
         /\ \A i \in DOMAIN (s \o t) :
              i \in 1..Len(s) \/ (i - Len(s) \in 1..Len(t) /\ (s \o t)[i] = t[i - Len(s)])
<1>1. PICK S : s \in Seq(S)
  BY DEF IsSeq
<1>2. PICK T : t \in Seq(T)
  BY DEF IsSeq
<1> DEFINE U == S \cup T
<1>3. s \in Seq(U) /\ t \in Seq(U)
  BY <1>1, <1>2, SeqMonotonic
<1> HIDE DEF U
<1>4. s \o t \in Seq(U)
  BY <1>3
<1> DEFINE m == Len(s)
           l == Len(t)
           w == s \o t
<1>5. m \in Nat /\ l \in Nat /\ Len(w) = m + l /\ DOMAIN w = 1..(m + l)
  BY <1>3, <1>4
<1>6. (\A i \in 1..m : w[i] = s[i]) /\ \A i \in 1..l : w[m + i] = t[i]
  BY <1>3, <1>4
<1>7. IsSeq(w)
  BY <1>4 DEF IsSeq
<1> HIDE DEF m, l, w
<1>8. \A i \in DOMAIN w : i \in 1..m \/ (i - m \in 1..l /\ w[i] = t[i - m])
  <2> SUFFICES ASSUME NEW i \in DOMAIN w, i \notin 1..m PROVE i - m \in 1..l /\ w[i] = t[i - m]
    OBVIOUS
  <2>1. i - m \in 1..l /\ m + (i - m) = i
    BY <1>5
  <2>2. w[m + (i - m)] = t[i - m]
    BY <1>6, <2>1
  <2> QED BY <2>1, <2>2
<1> QED BY <1>5, <1>6, <1>7, <1>8 DEF m, l, w

Joined(w, s, t) ==
  /\ IsSeq(w) /\ Len(w) = Len(s) + Len(t)
  /\ \A i \in 1..Len(s) : w[i] = s[i]
  /\ \A i \in 1..Len(t) : w[Len(s) + i] = t[i]

LEMMA JoinIs ==
  ASSUME NEW s, NEW t, IsSeq(s), IsSeq(t) PROVE Joined(s \o t, s, t)
BY ConcatIs DEF Joined

LEMMA CallsIs ==
  ASSUME NEW name, NEW arguments, IsSeq(arguments)
  PROVE  /\ IsSeq(Calls(name, arguments)) /\ Len(Calls(name, arguments)) = Len(arguments)
         /\ \A i \in 1..Len(arguments) : Calls(name, arguments)[i] = [call |-> name, arg |-> arguments[i]]
<1> DEFINE c == Calls(name, arguments)
           n == Len(arguments)
<1>1. n \in Nat /\ DOMAIN arguments = 1..n
  BY SeqIs
<1>2. \A i \in 1..n : c[i] = [call |-> name, arg |-> arguments[i]]
  BY <1>1 DEF Calls
<1>3. c = [i \in 1..n |-> c[i]]
  BY <1>1, <1>2 DEF Calls
<1> HIDE DEF c, n
<1>4. IsSeq(c) /\ Len(c) = n
  BY <1>1, <1>3, IndexedIs
<1> QED BY <1>2, <1>4 DEF c, n

\* A list with one call.
LEMMA OneCallIs ==
  ASSUME NEW name, NEW argument
  PROVE  /\ IsSeq(Calls(name, <<argument>>)) /\ Len(Calls(name, <<argument>>)) = 1
         /\ Calls(name, <<argument>>)[1] = [call |-> name, arg |-> argument]
<1>1. IsSeq(<<argument>>) /\ Len(<<argument>>) = 1 /\ <<argument>>[1] = argument
  <2>1. <<argument>> \in Seq({argument})
    OBVIOUS
  <2> QED BY <2>1 DEF IsSeq
<1>2. 1 \in 1..Len(<<argument>>)
  BY <1>1
<1> QED BY <1>1, <1>2, CallsIs

(***************************************************************************)
(* What is kept of a sequence.                                              *)
(***************************************************************************)
IsKept(f, s, S, n) ==
  f = [i \in 0..n |-> IF i = 0 THEN << >>
                      ELSE IF s[i] \in S THEN Append(f[i - 1], s[i]) ELSE f[i - 1]]

LEMMA KeptExists == ASSUME NEW s, NEW S PROVE \A n \in Nat : \E f : IsKept(f, s, S, n)
<1> DEFINE W == {n \in Nat : \E f : IsKept(f, s, S, n)}
           More(e, i) == IF s[i] \in S THEN Append(e, s[i]) ELSE e
           V(f, i) == IF i = 0 THEN << >> ELSE More(f[i - 1], i)
<1>1. 0 \in W
  <2> DEFINE f == [i \in 0..0 |-> << >>]
  <2>1. f = [i \in 0..0 |-> V(f, i)]
    <3>1. \A i \in 0..0 : i = 0
      OBVIOUS
    <3> QED BY <3>1
  <2>2. IsKept(f, s, S, 0)
    BY <2>1 DEF IsKept
  <2> QED BY <2>2
<1>2. ASSUME NEW n \in Nat, n \in W PROVE n + 1 \in W
  <2>1. PICK f : IsKept(f, s, S, n)
    BY <1>2
  <2>2. \A i \in 0..n : f[i] = V(f, i)
    BY <2>1 DEF IsKept
  <2> DEFINE m == n + 1
             g == [i \in 0..m |-> IF i = m THEN More(f[m - 1], m) ELSE f[i]]
  <2>3. ASSUME NEW i \in 0..m PROVE g[i] = V(g, i)
    <3> HIDE DEF More
    <3>1. CASE i = m
      <4>1. m - 1 \in 0..m /\ m - 1 # m /\ m # 0
        OBVIOUS
      <4>2. g[m - 1] = f[m - 1] /\ g[m] = More(f[m - 1], m)
        BY <3>1, <4>1
      <4> HIDE DEF g, m
      <4> QED BY <3>1, <4>1, <4>2
    <3>2. CASE i # m
      <4>1. i \in 0..n /\ (i # 0 => i - 1 \in 0..m /\ i - 1 # m)
        BY <3>2
      <4>2. g[i] = f[i] /\ (i # 0 => g[i - 1] = f[i - 1])
        BY <3>2, <4>1
      <4> HIDE DEF g, m
      <4> QED BY <2>2, <4>1, <4>2
    <3> QED BY <3>1, <3>2
  <2>4. IsKept(g, s, S, m)
    <3> DEFINE h == [i \in 0..m |-> V(g, i)]
    <3>1. g = [i \in 0..m |-> g[i]]
      OBVIOUS
    <3>2. \A i \in 0..m : g[i] = h[i]
      BY <2>3
    <3> HIDE DEF g
    <3>3. g = h
      BY <3>1, <3>2
    <3> QED BY <3>3 DEF IsKept
  <2> QED BY <2>4
<1> HIDE DEF W
<1>3. Nat \subseteq W
  BY <1>1, <1>2, NaturalInduction
<1> QED BY <1>3 DEF W

\* e has what the first n elements of s have in S, each once if s has.
Holds(e, s, S, n) ==
  /\ IsSeq(e)
  /\ ToSet(e) = {s[i] : i \in 1..n} \cap S
  /\ (\A i, j \in 1..n : s[i] = s[j] => i = j) => IsInjective(e)

LEMMA HoldsMore ==
  ASSUME NEW s, NEW S, NEW n \in Nat, NEW e, Holds(e, s, S, n)
  PROVE  Holds(IF s[n + 1] \in S THEN Append(e, s[n + 1]) ELSE e, s, S, n + 1)
<1> DEFINE x == s[n + 1]
           Old == {s[i] : i \in 1..n}
           New == {s[i] : i \in 1..(n + 1)}
           Distinct(m) == \A i, j \in 1..m : s[i] = s[j] => i = j
<1>1. New = Old \cup {x}
  <2>1. ASSUME NEW y \in New PROVE y \in Old \cup {x}
    <3>1. PICK i \in 1..(n + 1) : y = s[i]
      OBVIOUS
    <3>2. i \in 1..n \/ i = n + 1
      OBVIOUS
    <3> QED BY <3>1, <3>2
  <2>2. ASSUME NEW y \in Old PROVE y \in New
    <3>1. PICK i \in 1..n : y = s[i]
      OBVIOUS
    <3>2. i \in 1..(n + 1)
      OBVIOUS
    <3> QED BY <3>1, <3>2
  <2>3. n + 1 \in 1..(n + 1)
    OBVIOUS
  <2>4. x \in New
    BY <2>3
  <2> HIDE DEF New, Old, x
  <2> QED BY <2>1, <2>2, <2>4
<1>2. Distinct(n + 1) => Distinct(n) /\ x \notin Old
  <2> SUFFICES ASSUME Distinct(n + 1) PROVE Distinct(n) /\ x \notin Old
    OBVIOUS
  <2>1. Distinct(n)
    OBVIOUS
  <2>2. ASSUME NEW i \in 1..n PROVE s[i] # x
    <3>1. i \in 1..(n + 1) /\ n + 1 \in 1..(n + 1) /\ i # n + 1
      OBVIOUS
    <3> QED BY <3>1
  <2> QED BY <2>1, <2>2
<1>3. IsSeq(e) /\ ToSet(e) = Old \cap S /\ (Distinct(n) => IsInjective(e))
  BY DEF Holds
<1> SUFFICES Holds(IF x \in S THEN Append(e, x) ELSE e, s, S, n + 1)
  OBVIOUS
<1>4. SUFFICES ASSUME NEW r, r = IF x \in S THEN Append(e, x) ELSE e
               PROVE  IsSeq(r) /\ ToSet(r) = New \cap S /\ (Distinct(n + 1) => IsInjective(r))
  BY DEF Holds
<1> HIDE DEF x, Old, New, Distinct
<1>5. CASE x \notin S
  BY <1>1, <1>2, <1>3, <1>4, <1>5
<1>6. CASE x \in S
  <2>1. PICK T : e \in Seq(T)
    BY <1>3 DEF IsSeq
  <2> DEFINE U == T \cup {x}
  <2>2. e \in Seq(U) /\ x \in U
    BY <2>1, SeqMonotonic
  <2> HIDE DEF U
  <2>3. r = Append(e, x)
    BY <1>4, <1>6
  <2>4. r \in Seq(U)
    BY <2>2, <2>3
  <2>5. /\ Len(e) \in Nat /\ DOMAIN e = 1..Len(e) /\ DOMAIN r = 1..(Len(e) + 1)
        /\ r[Len(e) + 1] = x /\ \A i \in 1..Len(e) : r[i] = e[i]
    BY <2>2, <2>3
  <2>6. ToSet(r) = ToSet(e) \cup {x}
    <3>1. ASSUME NEW i \in DOMAIN r PROVE r[i] \in ToSet(e) \cup {x}
      <4>1. i \in 1..Len(e) \/ i = Len(e) + 1
        BY <2>5
      <4> QED BY <2>5, <4>1 DEF ToSet
    <3>2. ASSUME NEW i \in DOMAIN e PROVE e[i] \in ToSet(r)
      <4>1. i \in DOMAIN r /\ r[i] = e[i]
        BY <2>5
      <4> QED BY <4>1 DEF ToSet
    <3>3. x \in ToSet(r)
      <4>1. Len(e) + 1 \in DOMAIN r
        BY <2>5
      <4> QED BY <2>5, <4>1 DEF ToSet
    <3>4. \A y \in ToSet(r) : y \in ToSet(e) \cup {x}
      BY <3>1 DEF ToSet
    <3>5. \A y \in ToSet(e) : y \in ToSet(r)
      BY <3>2 DEF ToSet
    <3> QED BY <3>3, <3>4, <3>5
  <2>7. ASSUME Distinct(n + 1) PROVE IsInjective(r)
    <3>1. IsInjective(e) /\ x \notin Old
      BY <1>2, <1>3, <2>7
    <3>2. \A i \in 1..Len(e) : e[i] # x
      <4>1. \A i \in 1..Len(e) : e[i] \in ToSet(e)
        BY <2>5 DEF ToSet
      <4> QED BY <1>3, <3>1, <4>1
    <3>3. ASSUME NEW i \in DOMAIN r, NEW j \in DOMAIN r, r[i] = r[j] PROVE i = j
      <4>1. (i \in 1..Len(e) \/ i = Len(e) + 1) /\ (j \in 1..Len(e) \/ j = Len(e) + 1)
        BY <2>5
      <4>2. \A a, b \in 1..Len(e) : e[a] = e[b] => a = b
        BY <2>5, <3>1 DEF IsInjective
      <4> QED BY <2>5, <3>2, <3>3, <4>1, <4>2
    <3> QED BY <3>3 DEF IsInjective
  <2>8. IsSeq(r)
    BY <2>4 DEF IsSeq
  <2> QED BY <1>1, <1>3, <1>6, <2>6, <2>7, <2>8
<1> QED BY <1>5, <1>6

LEMMA KeptIs ==
  ASSUME NEW s, IsSeq(s), NEW S
  PROVE  /\ IsSeq(Kept(s, S))
         /\ ToSet(Kept(s, S)) = ToSet(s) \cap S
         /\ IsInjective(s) => IsInjective(Kept(s, S))
<1> DEFINE f == CHOOSE g : IsKept(g, s, S, Len(s))
           n == Len(s)
<1>1. n \in Nat /\ DOMAIN s = 1..n
  BY SeqIs
<1>2. IsKept(f, s, S, n)
  BY <1>1, KeptExists
<1>3. Kept(s, S) = f[n]
  BY DEF Kept, IsKept
<1> HIDE DEF f, n
<1> DEFINE W == {i \in Nat : i <= n => Holds(f[i], s, S, i)}
<1>4. 0 \in W
  <2>1. f[0] = << >>
    <3>1. 0 \in 0..n
      BY <1>1
    <3> QED BY <1>2, <3>1 DEF IsKept
  <2>2. << >> \in Seq({}) /\ DOMAIN << >> = {}
    OBVIOUS
  <2>3. ToSet(<< >>) = {} /\ IsInjective(<< >>)
    BY <2>2 DEF ToSet, IsInjective
  <2>4. {s[i] : i \in 1..0} = {}
    OBVIOUS
  <2>5. Holds(<< >>, s, S, 0)
    BY <2>2, <2>3, <2>4 DEF Holds, IsSeq
  <2> QED BY <2>1, <2>5
<1>5. ASSUME NEW i \in Nat, i \in W PROVE i + 1 \in W
  <2> SUFFICES ASSUME i + 1 <= n PROVE Holds(f[i + 1], s, S, i + 1)
    OBVIOUS
  <2>1. i + 1 \in 0..n /\ i + 1 # 0 /\ (i + 1) - 1 = i /\ i <= n
    BY <1>1
  <2>2. Holds(f[i], s, S, i)
    BY <1>5, <2>1
  <2>3. f[i + 1] = IF s[i + 1] \in S THEN Append(f[(i + 1) - 1], s[i + 1]) ELSE f[(i + 1) - 1]
    BY <1>2, <2>1 DEF IsKept
  <2>4. f[i + 1] = IF s[i + 1] \in S THEN Append(f[i], s[i + 1]) ELSE f[i]
    BY <2>1, <2>3
  <2>5. Holds(IF s[i + 1] \in S THEN Append(f[i], s[i + 1]) ELSE f[i], s, S, i + 1)
    BY <2>2, HoldsMore
  <2> QED BY <2>4, <2>5
<1> HIDE DEF W
<1>6. Nat \subseteq W
  BY <1>4, <1>5, NaturalInduction
<1>7. Holds(f[n], s, S, n)
  BY <1>1, <1>6 DEF W
<1>8. ToSet(s) = {s[i] : i \in 1..n} /\ (IsInjective(s) => \A i, j \in 1..n : s[i] = s[j] => i = j)
  BY <1>1 DEF ToSet, IsInjective
<1> QED BY <1>3, <1>7, <1>8 DEF Holds

(***************************************************************************)
(* Pieces of a sequence: every element is in one, and no place in two.      *)
(***************************************************************************)
LEMMA DivisionIs ==
  ASSUME NEW x \in Nat, NEW m \in Nat \ {0}
  PROVE  x \div m \in Nat /\ (x \div m) * m <= x /\ x < (x \div m) * m + m
OBVIOUS

LEMMA TimesGrows ==
  ASSUME NEW x \in Nat, NEW y \in Nat, x <= y, NEW m \in Nat
  PROVE  x * m <= y * m
<1>1. PICK d \in Nat : y = x + d
  <2>1. y - x \in Nat /\ y = x + (y - x)
    OBVIOUS
  <2> QED BY <2>1
<1>2. y * m = x * m + d * m
  BY <1>1
<1>3. d * m \in Nat /\ x * m \in Nat
  BY Products
<1> QED BY <1>2, <1>3

\* The places of the k-th piece.
LastPlace(n, size, k) == IF k * size < n THEN k * size ELSE n
Places(n, size, k) == ((k - 1) * size + 1)..LastPlace(n, size, k)
Pieces(n, size) == 1..((n + size - 1) \div size)

LEMMA PlacesApart ==
  ASSUME NEW n \in Nat, NEW size \in Nat \ {0}, NEW k \in Nat \ {0}, NEW l \in Nat \ {0},
         NEW i \in Places(n, size, k), NEW j \in Places(n, size, l), k < l
  PROVE  i < j
<1>1. k * size \in Nat /\ (l - 1) * size \in Nat /\ k * size <= (l - 1) * size
  <2>1. k <= l - 1 /\ l - 1 \in Nat
    OBVIOUS
  <2> QED BY <2>1, TimesGrows, Products
<1> DEFINE a == k * size
           b == (l - 1) * size
<1>2. (k - 1) * size \in Nat
  BY Products
<1>3. i \in Int /\ i <= a
  BY <1>1, <1>2 DEF Places, LastPlace
<1>4. l * size \in Nat
  BY Products
<1>5. j \in Int /\ b + 1 <= j
  BY <1>1, <1>4 DEF Places, LastPlace
<1> HIDE DEF a, b
<1>6. a \in Nat /\ b \in Nat /\ a <= b
  BY <1>1 DEF a, b
<1> QED BY <1>3, <1>5, <1>6

LEMMA PlacesCover ==
  ASSUME NEW n \in Nat, NEW size \in Nat \ {0}, NEW i \in 1..n
  PROVE  \E k \in Pieces(n, size) : i \in Places(n, size, k)
<1> DEFINE q == (i - 1) \div size
           k == q + 1
           c == (n + size - 1) \div size
<1>1. q \in Nat /\ q * size <= i - 1 /\ i - 1 < q * size + size
  BY DivisionIs
<1>2. c \in Nat /\ n + size - 1 < c * size + size
  BY DivisionIs
<1> HIDE DEF q, c
<1>3. q < c
  <2> SUFFICES ASSUME c <= q PROVE FALSE
    BY <1>1, <1>2
  <2>1. c * size <= q * size /\ c * size \in Nat /\ q * size \in Nat
    BY <1>1, <1>2, TimesGrows, Products
  <2> QED BY <1>1, <1>2, <2>1
<1>4. k * size = q * size + size /\ (k - 1) * size = q * size /\ q * size \in Nat
  BY <1>1, Products
<1>5. i \in Places(n, size, k)
  <2> DEFINE b == k * size
             a == (k - 1) * size
  <2>1. a \in Nat /\ b \in Nat /\ a <= i - 1 /\ i - 1 < b
    BY <1>1, <1>4
  <2> HIDE DEF a, b
  <2>2. i \in (a + 1)..(IF b < n THEN b ELSE n)
    BY <2>1
  <2> QED BY <2>2 DEF Places, LastPlace, a, b
<1>6. k \in Pieces(n, size)
  BY <1>1, <1>2, <1>3 DEF Pieces, c
<1> QED BY <1>5, <1>6

LEMMA FirstPlace ==
  ASSUME NEW n \in Nat \ {0}, NEW size \in Nat \ {0}
  PROVE  1 \in Pieces(n, size) /\ 1 \in Places(n, size, 1)
<1>1. 1 * size = size /\ (1 - 1) * size = 0
  OBVIOUS
<1>2. 1 \in Places(n, size, 1)
  BY <1>1 DEF Places, LastPlace
<1>3. PICK k \in Pieces(n, size) : 1 \in Places(n, size, k)
  BY PlacesCover
<1>4. (n + size - 1) \div size \in Nat
  BY DivisionIs
<1> QED BY <1>2, <1>3, <1>4 DEF Pieces

LEMMA ChunkIs ==
  ASSUME NEW s, IsSeq(s), NEW size \in Nat \ {0}
  PROVE  /\ IsSeq(Chunk(s, size)) /\ DOMAIN Chunk(s, size) = Pieces(Len(s), size)
         /\ \A k \in DOMAIN Chunk(s, size) :
              /\ Places(Len(s), size, k) \subseteq DOMAIN s
              /\ ToSet(Chunk(s, size)[k]) = {s[i] : i \in Places(Len(s), size, k)}
<1> DEFINE c == Chunk(s, size)
           n == Len(s)
           m == (n + size - 1) \div size
<1>1. n \in Nat /\ DOMAIN s = 1..n
  BY SeqIs
<1>2. m \in Nat
  BY <1>1, DivisionIs
<1>3. c = [k \in 1..m |-> SubSeq(s, (k - 1) * size + 1, LastPlace(n, size, k))]
  BY DEF Chunk, LastPlace
<1>4. IsSeq(c) /\ DOMAIN c = 1..m
  <2>1. \A k \in 1..m : c[k] = SubSeq(s, (k - 1) * size + 1, LastPlace(n, size, k))
    BY <1>3
  <2>2. c = [k \in 1..m |-> c[k]]
    BY <1>3
  <2> HIDE DEF c, m
  <2> QED BY <1>2, <2>2, IndexedIs
<1>5. ASSUME NEW k \in 1..m
      PROVE  Places(n, size, k) \subseteq 1..n /\ ToSet(c[k]) = {s[i] : i \in Places(n, size, k)}
  <2> DEFINE a == (k - 1) * size + 1
             b == LastPlace(n, size, k)
  <2>1. (k - 1) * size \in Nat /\ k * size \in Nat
    BY <1>2, Products
  <2>2. a \in Nat \ {0} /\ b \in Nat /\ b <= n
    BY <1>1, <2>1 DEF LastPlace
  <2>3. c[k] = SubSeq(s, a, b)
    BY <1>3
  <2>4. Places(n, size, k) = a..b
    BY DEF Places
  <2> HIDE DEF a, b, c, n, m
  <2>5. a..b \subseteq 1..n
    BY <1>1, <2>2
  <2> DEFINE S == {s[i] : i \in 1..n}
             t == SubSeq(s, a, b)
  <2>6. /\ t \in Seq(S) /\ Len(t) = IF a <= b THEN b - a + 1 ELSE 0
        /\ \A j \in 1..(b - a + 1) : t[j] = s[a + j - 1]
    <3>1. \A i \in a..b : s[i] \in S
      BY <2>5
    <3> HIDE DEF S
    <3> QED BY <2>2, <3>1, SubSeqProperties
  <2>7. DOMAIN t = 1..(b - a + 1)
    <3>1. DOMAIN t = 1..Len(t)
      BY <2>6
    <3> HIDE DEF t
    <3> QED BY <2>2, <2>6, <3>1
  <2> HIDE DEF S, t
  <2>8. ToSet(t) = {s[i] : i \in a..b}
    <3>1. ASSUME NEW j \in DOMAIN t PROVE t[j] \in {s[i] : i \in a..b}
      <4>1. a + j - 1 \in a..b /\ t[j] = s[a + j - 1]
        BY <2>2, <2>6, <2>7
      <4> QED BY <4>1
    <3>2. ASSUME NEW i \in a..b PROVE \E j \in DOMAIN t : t[j] = s[i]
      <4>1. i - a + 1 \in 1..(b - a + 1) /\ a + (i - a + 1) - 1 = i
        BY <2>2
      <4>2. t[i - a + 1] = s[a + (i - a + 1) - 1]
        BY <2>6, <4>1
      <4> QED BY <2>7, <4>1, <4>2
    <3> QED BY <3>1, <3>2 DEF ToSet
  <2> QED BY <2>3, <2>4, <2>5, <2>8 DEF t
<1> QED BY <1>1, <1>4, <1>5 DEF Pieces

LEMMA ChunkCovers ==
  ASSUME NEW s, IsSeq(s), NEW size \in Nat \ {0}
  PROVE  /\ \A k \in DOMAIN Chunk(s, size) : \A x \in ToSet(Chunk(s, size)[k]) : x \in ToSet(s)
         /\ \A x \in ToSet(s) : \E k \in DOMAIN Chunk(s, size) : x \in ToSet(Chunk(s, size)[k])
<1> DEFINE c == Chunk(s, size)
           n == Len(s)
<1>1. /\ DOMAIN c = Pieces(n, size)
      /\ \A k \in DOMAIN c : /\ Places(n, size, k) \subseteq DOMAIN s
                             /\ ToSet(c[k]) = {s[i] : i \in Places(n, size, k)}
  BY ChunkIs
<1>2. n \in Nat /\ DOMAIN s = 1..n
  BY SeqIs
<1> HIDE DEF c, n
<1>3. ASSUME NEW k \in DOMAIN c, NEW x \in ToSet(c[k]) PROVE x \in ToSet(s)
  <2>1. PICK i \in Places(n, size, k) : x = s[i]
    BY <1>1
  <2>2. i \in DOMAIN s
    BY <1>1
  <2> QED BY <2>1, <2>2 DEF ToSet
<1>4. ASSUME NEW x \in ToSet(s) PROVE \E k \in DOMAIN c : x \in ToSet(c[k])
  <2>1. PICK i \in 1..n : x = s[i]
    BY <1>2 DEF ToSet
  <2>2. PICK k \in Pieces(n, size) : i \in Places(n, size, k)
    BY <1>2, PlacesCover
  <2> QED BY <1>1, <2>1, <2>2
<1> QED BY <1>3, <1>4 DEF c

(***************************************************************************)
(* What is true of a market, of what the helpers know, of the reserves, and *)
(* of what a helper has yet to send, whatever they are.                     *)
(***************************************************************************)
IsMarket(c) ==
  /\ IsSeq(c.symbols) /\ IsInjective(c.symbols) /\ "pool" \notin ToSet(c.symbols)
  /\ \A s \in ToSet(c.symbols) : c.config[s].strategy # "stableDebtTokenImpl"

LEMMA MarketsAre == \A m \in DOMAIN Markets : IsMarket(Markets[m])
BY ReserveSetupAssumption DEF IsMarket, IsSeq

TokenOf(c, s) == IF c.config[s].aTokenImpl = "AToken" THEN "aTokenImpl" ELSE "delegationAwareATokenImpl"
StrategyOf(c, s) == c.config[s].strategy

\* What deployed-contracts.json has, after n runs.
DbGood(d, n) ==
  /\ "stableDebtTokenImpl" \notin DOMAIN d
  /\ \A id \in DOMAIN d : d[id].what = id /\ d[id].for = "pool" /\ d[id].run \in 1..n

\* The address of a reserve.
AddressGood(a, id, s, d, n) ==
  /\ a.what = id
  /\ \/ a.for = "pool"
     \/ a.for = s /\ a.run \in 1..n /\ (id \notin DOMAIN d \/ d[id].run > a.run)

\* Only one run of initReservesByHelper is behind the reserves, and it began with the first.
OneRun(c, r) ==
  /\ \A s, t \in DOMAIN r : r[s].stableDebt.for = "pool" /\ r[t].stableDebt.for = "pool"
                             => r[s].stableDebt = r[t].stableDebt
  /\ \A s \in DOMAIN r : r[s].stableDebt.for = "pool" => c.symbols[1] \in DOMAIN r

ReservesGood(c, d, r, n) ==
  /\ DOMAIN r \subseteq ToSet(c.symbols)
  /\ \A s \in DOMAIN r : /\ AddressGood(r[s].aToken, TokenOf(c, s), s, d, n)
                         /\ AddressGood(r[s].strategy, StrategyOf(c, s), s, d, n)
  /\ OneRun(c, r)

\* What initializes reserves: every one of the market that is left is in some chunk.
Initializes(x) == x.call = "batchInitReserve"
Covered(c, r, q) ==
  \A s \in ToSet(c.symbols) : \/ s \in DOMAIN r
                              \/ \E k \in DOMAIN q : Initializes(q[k]) /\ s \in SymbolsOf(q[k].arg)

\* initReservesByHelper, run n.  Until it has sent the first chunk, this is to come before
\* any other; afterwards all pool-wide reserves are its own.
PoolInput(c, i, n) ==
  /\ i.symbol \in ToSet(c.symbols)
  /\ i.aToken = ForPool(TokenOf(c, i.symbol), n)
  /\ i.stableDebt = ForPool("stableDebtTokenImpl", n)
  /\ i.strategy = ForPool(StrategyOf(c, i.symbol), n)
PoolStep(c, x, n) ==
  \/ x.call = "deploy" /\ x.arg # "stableDebtTokenImpl"
  \/ Initializes(x) /\ \A i \in ToSet(x.arg) : PoolInput(c, i, n)
FirstComesFirst(c, q) ==
  \A k \in DOMAIN q : Initializes(q[k]) =>
    \E j \in 1..k : Initializes(q[j]) /\ c.symbols[1] \in SymbolsOf(q[j].arg)
OfRun(c, r, n) ==
  /\ c.symbols[1] \in DOMAIN r
  /\ \A s \in DOMAIN r : r[s].stableDebt.for = "pool" => r[s].stableDebt = ForPool("stableDebtTokenImpl", n)
Earlier(r, n) ==
  \A s \in DOMAIN r : /\ r[s].aToken.for # "pool" => r[s].aToken.run < n
                      /\ r[s].strategy.for # "pool" => r[s].strategy.run < n
InitPlan(c, r, q, n) ==
  /\ \A k \in DOMAIN q : PoolStep(c, q[k], n)
  /\ Earlier(r, n)
  /\ FirstComesFirst(c, q) \/ OfRun(c, r, n)
  /\ Covered(c, r, q)

\* initTokenReservesByHelper, run n: the chunks are of reserves that are left, and differ.
TokenAddress(a, id, s, d, n) ==
  /\ a.what = id
  /\ \/ a.for = "pool"
     \/ a.for = s /\ a.run = n /\ id \notin DOMAIN d
TokenInput(c, i, d, n) ==
  /\ i.symbol \in ToSet(c.symbols)
  /\ TokenAddress(i.aToken, TokenOf(c, i.symbol), i.symbol, d, n)
  /\ TokenAddress(i.strategy, StrategyOf(c, i.symbol), i.symbol, d, n)
  /\ i.stableDebt.for # "pool"
TokenPlan(c, d, r, q, n) ==
  /\ \A k \in DOMAIN q : /\ Initializes(q[k]) /\ SymbolsOf(q[k].arg) \cap DOMAIN r = {}
                         /\ \A i \in ToSet(q[k].arg) : TokenInput(c, i, d, n)
  /\ \A k, l \in DOMAIN q : k # l => SymbolsOf(q[k].arg) \cap SymbolsOf(q[l].arg) = {}
  /\ Covered(c, r, q)

\* configureReservesByHelper and setInitialMarketRatesInRatesOracleByHelper: the last step
\* gives the role back.
Meant(c) == {s \in ToSet(c.symbols) : c.config[s].baseLTV # -1}
ConfigurePlan(c, done, q, admin) ==
  /\ \A k \in DOMAIN q : \/ q[k].call = "setPoolAdmin"
                         \/ q[k].call = "configureReserves" /\ ToSet(q[k].arg) \subseteq Meant(c)
  /\ q # << >> => q[Len(q)] = [call |-> "setPoolAdmin", arg |-> Admin]
  /\ \A s \in Meant(c) : \/ s \in done
                         \/ \E k \in DOMAIN q : q[k].call = "configureReserves" /\ s \in ToSet(q[k].arg)
  /\ q = << >> => admin = Admin

RatesPlan(c, set, q, owner) ==
  /\ \A k \in DOMAIN q : \/ q[k].call \in {"transferOwnership", "setOracleOwnership"}
                         \/ q[k].call = "setOracleBorrowRates" /\ ToSet(q[k].arg) \subseteq ToSet(c.symbols)
  /\ q # << >> => q[Len(q)] = [call |-> "setOracleOwnership", arg |-> Admin]
  /\ \A s \in ToSet(c.symbols) : \/ s \in set
                                 \/ \E k \in DOMAIN q : q[k].call = "setOracleBorrowRates" /\ s \in ToSet(q[k].arg)
  /\ q = << >> => owner = Admin

(***************************************************************************)
(* What the helpers plan.                                                   *)
(***************************************************************************)
\* Inputs for symbols, in chunks.
Batched(q, ins, syms) ==
  /\ IsSeq(q)
  /\ \A k \in DOMAIN q : Initializes(q[k]) /\ \A i \in ToSet(q[k].arg) : i \in ToSet(ins)
  /\ \A s \in ToSet(syms) : \E k \in DOMAIN q : s \in SymbolsOf(q[k].arg)
  /\ \A k \in DOMAIN q : 1 \in DOMAIN q /\ syms[1] \in SymbolsOf(q[1].arg)
  /\ IsInjective(syms) =>
       \A k, l \in DOMAIN q : k # l => SymbolsOf(q[k].arg) \cap SymbolsOf(q[l].arg) = {}

LEMMA BatchesAre ==
  ASSUME NEW syms, IsSeq(syms), NEW ins, IsSeq(ins), Len(ins) = Len(syms),
         \A i \in 1..Len(syms) : ins[i].symbol = syms[i],
         NEW q, q = Calls("batchInitReserve", Chunk(ins, InitChunks))
  PROVE  Batched(q, ins, syms)
<1> DEFINE ch == Chunk(ins, InitChunks)
           n == Len(syms)
<1>1. n \in Nat /\ DOMAIN syms = 1..n /\ DOMAIN ins = 1..n
  BY SeqIs
<1>2. InitChunks \in Nat \ {0}
  BY ReserveSetupAssumption
<1>3. /\ IsSeq(ch) /\ DOMAIN ch = Pieces(n, InitChunks)
      /\ \A k \in DOMAIN ch : /\ Places(n, InitChunks, k) \subseteq 1..n
                              /\ ToSet(ch[k]) = {ins[i] : i \in Places(n, InitChunks, k)}
  BY <1>1, <1>2, ChunkIs
<1>4. \A k \in DOMAIN ch : \A x \in ToSet(ch[k]) : x \in ToSet(ins)
  BY <1>2, ChunkCovers
<1> HIDE DEF ch, n
<1>5. /\ IsSeq(q) /\ DOMAIN q = DOMAIN ch
      /\ \A k \in DOMAIN q : q[k] = [call |-> "batchInitReserve", arg |-> ch[k]]
  <2>1. IsSeq(q) /\ Len(q) = Len(ch) /\ \A k \in 1..Len(ch) : q[k] = [call |-> "batchInitReserve", arg |-> ch[k]]
    BY <1>3, CallsIs DEF ch
  <2>2. DOMAIN q = 1..Len(q) /\ DOMAIN ch = 1..Len(ch)
    BY <1>3, <2>1, SeqIs
  <2> QED BY <2>1, <2>2
<1>6. \A k \in DOMAIN q : q[k].call = "batchInitReserve" /\ q[k].arg = ch[k]
  BY <1>5
<1>7. ASSUME NEW k \in DOMAIN q
      PROVE  SymbolsOf(q[k].arg) = {syms[i] : i \in Places(n, InitChunks, k)}
  <2>1. ToSet(q[k].arg) = {ins[i] : i \in Places(n, InitChunks, k)} /\ Places(n, InitChunks, k) \subseteq 1..n
    BY <1>3, <1>5, <1>6
  <2>2. \A i \in Places(n, InitChunks, k) : ins[i].symbol = syms[i]
    BY <2>1 DEF n
  <2>3. SymbolsOf(q[k].arg) = {j.symbol : j \in {ins[i] : i \in Places(n, InitChunks, k)}}
    BY <2>1 DEF SymbolsOf
  <2> QED BY <2>2, <2>3
<1>8. \A s \in ToSet(syms) : \E k \in DOMAIN q : s \in SymbolsOf(q[k].arg)
  <2> SUFFICES ASSUME NEW s \in ToSet(syms) PROVE \E k \in DOMAIN q : s \in SymbolsOf(q[k].arg)
    OBVIOUS
  <2>1. PICK i \in 1..n : s = syms[i]
    BY <1>1 DEF ToSet
  <2>2. PICK k \in Pieces(n, InitChunks) : i \in Places(n, InitChunks, k)
    BY <1>1, <1>2, PlacesCover
  <2>3. k \in DOMAIN q
    BY <1>3, <1>5
  <2>4. s \in {syms[j] : j \in Places(n, InitChunks, k)}
    BY <2>1, <2>2
  <2> QED BY <1>7, <2>3, <2>4
<1>9. \A k \in DOMAIN q : 1 \in DOMAIN q /\ syms[1] \in SymbolsOf(q[1].arg)
  <2> SUFFICES ASSUME NEW k \in DOMAIN q PROVE 1 \in DOMAIN q /\ syms[1] \in SymbolsOf(q[1].arg)
    OBVIOUS
  <2>1. CASE n = 0
    <3>1. (n + InitChunks - 1) \div InitChunks = 0
      <4> DEFINE d == (n + InitChunks - 1) \div InitChunks
      <4>1. d \in Nat /\ d * InitChunks <= InitChunks - 1
        BY <1>2, <2>1, DivisionIs
      <4> HIDE DEF d
      <4>2. d >= 1 => 1 * InitChunks <= d * InitChunks
        BY <1>2, <4>1, TimesGrows
      <4> QED BY <1>2, <4>1, <4>2 DEF d
    <3> QED BY <1>3, <1>5, <3>1 DEF Pieces
  <2>2. CASE n # 0
    <3>1. 1 \in Pieces(n, InitChunks) /\ 1 \in Places(n, InitChunks, 1)
      BY <1>1, <1>2, <2>2, FirstPlace
    <3> QED BY <1>3, <1>5, <1>7, <3>1
  <2> QED BY <2>1, <2>2
<1>10. ASSUME IsInjective(syms), NEW k \in DOMAIN q, NEW l \in DOMAIN q, k # l
       PROVE  SymbolsOf(q[k].arg) \cap SymbolsOf(q[l].arg) = {}
  <2> SUFFICES ASSUME NEW x, x \in SymbolsOf(q[k].arg), x \in SymbolsOf(q[l].arg) PROVE FALSE
    OBVIOUS
  <2>1. PICK i \in Places(n, InitChunks, k) : x = syms[i]
    BY <1>7
  <2>2. PICK j \in Places(n, InitChunks, l) : x = syms[j]
    BY <1>7
  <2>3. i \in 1..n /\ j \in 1..n
    BY <1>3, <1>5
  <2>4. i = j
    BY <1>1, <1>10, <2>1, <2>2, <2>3 DEF IsInjective
  <2>5. k \in Nat \ {0} /\ l \in Nat \ {0}
    <3>1. DOMAIN q = 1..Len(q) /\ Len(q) \in Nat
      BY <1>5, SeqIs
    <3> QED BY <3>1
  <2>6. (k < l => i < j) /\ (l < k => j < i)
    BY <1>1, <1>2, <2>5, PlacesApart
  <2> QED BY <1>10, <2>3, <2>4, <2>5, <2>6
<1>11. \A k \in DOMAIN q : Initializes(q[k]) /\ \A i \in ToSet(q[k].arg) : i \in ToSet(ins)
  BY <1>4, <1>5, <1>6 DEF Initializes
<1> QED BY <1>5, <1>8, <1>9, <1>10, <1>11 DEF Batched

LEMMA ToDeployIs ==
  ASSUME market \in DOMAIN Markets
  PROVE  IsSeq(ToDeploy) /\ \A k \in DOMAIN ToDeploy : ToDeploy[k] # "stableDebtTokenImpl"
<1> DEFINE names == {"aTokenImpl", "delegationAwareATokenImpl"} \cup {ReservesConfig[s].strategy : s \in ToSet(Symbols)}
           strategy(i) == ReservesConfig[Symbols[i]].strategy
           places == [i \in DOMAIN Symbols |-> i]
           first == Kept(places, {i \in DOMAIN Symbols : \A j \in 1..(i - 1) : strategy(j) # strategy(i)})
           one == <<"aTokenImpl">>
           two == IF \E s \in ToSet(Symbols) : ATokenId(s) = "delegationAwareATokenImpl"
                  THEN <<"delegationAwareATokenImpl">> ELSE << >>
           three == [k \in DOMAIN first |-> strategy(first[k])]
<1>1. IsSeq(Symbols) /\ \A s \in ToSet(Symbols) : ReservesConfig[s].strategy # "stableDebtTokenImpl"
  BY MarketsAre DEF IsMarket, Symbols, ReservesConfig
<1>2. Len(Symbols) \in Nat /\ DOMAIN Symbols = 1..Len(Symbols)
  BY <1>1, SeqIs
<1>3. IsSeq(first) /\ \A k \in DOMAIN first : first[k] \in DOMAIN Symbols
  <2>1. IsSeq(places)
    <3>1. places = [i \in 1..Len(Symbols) |-> places[i]]
      BY <1>2
    <3> HIDE DEF places
    <3> QED BY <1>2, <3>1, IndexedIs
  <2>2. ToSet(places) \subseteq DOMAIN Symbols
    BY DEF ToSet
  <2>3. ToSet(first) \subseteq ToSet(places) /\ IsSeq(first)
    <3> HIDE DEF places
    <3> QED BY <2>1, KeptIs
  <2> HIDE DEF first, places
  <2>4. \A k \in DOMAIN first : first[k] \in ToSet(first)
    BY DEF ToSet
  <2> QED BY <2>2, <2>3, <2>4
<1>4. three \in Seq(names)
  <2> HIDE DEF first
  <2>1. Len(first) \in Nat /\ DOMAIN first = 1..Len(first)
    BY <1>3, SeqIs
  <2>2. \A i \in DOMAIN Symbols : strategy(i) \in names
    BY DEF ToSet
  <2> HIDE DEF names, strategy
  <2>3. \A k \in 1..Len(first) : three[k] \in names
    BY <1>3, <2>1, <2>2
  <2>4. three \in [1..Len(first) -> names]
    BY <2>1, <2>3
  <2> HIDE DEF three
  <2> QED BY <2>1, <2>4
<1>5. one \in Seq(names) /\ two \in Seq(names)
  <2>1. "aTokenImpl" \in names /\ "delegationAwareATokenImpl" \in names
    OBVIOUS
  <2> HIDE DEF names
  <2> QED BY <2>1
<1>6. ToDeploy = one \o two \o three
  BY DEF ToDeploy
<1>7. ToDeploy \in Seq(names)
  <2> HIDE DEF one, two, three, names
  <2> QED BY <1>4, <1>5, <1>6
<1>8. \A x \in names : x # "stableDebtTokenImpl"
  BY <1>1
<1> HIDE DEF names
<1>9. \A k \in DOMAIN ToDeploy : ToDeploy[k] \in names
  BY <1>7
<1> QED BY <1>7, <1>8, <1>9 DEF IsSeq

\* A sequence made of a symbol-indexed list of inputs.
LEMMA MappedIs ==
  ASSUME NEW s, IsSeq(s), NEW t, t = [i \in DOMAIN s |-> t[i]]
  PROVE  IsSeq(t) /\ Len(t) = Len(s) /\ DOMAIN t = 1..Len(s)
<1>1. Len(s) \in Nat /\ DOMAIN s = 1..Len(s)
  BY SeqIs
<1>2. t = [i \in 1..Len(s) |-> t[i]]
  BY <1>1
<1>3. IsSeq(t) /\ Len(t) = Len(s)
  BY <1>1, <1>2, IndexedIs
<1> QED BY <1>3, SeqIs

LEMMA InitPlanned ==
  ASSUME market \in DOMAIN Markets, NEW n \in Nat, ReservesGood(Markets[market], db, reserves, n)
  PROVE  /\ IsSeq(InitReservesByHelper(n + 1))
         /\ InitPlan(Markets[market], reserves, InitReservesByHelper(n + 1), n + 1)
<1> DEFINE c == Markets[market]
           run == n + 1
           input(s) == [symbol |-> s, aToken |-> ForPool(ATokenId(s), run),
                        stableDebt |-> ForPool("stableDebtTokenImpl", run),
                        strategy |-> ForPool(ReservesConfig[s].strategy, run)]
           ins == [i \in DOMAIN Symbols |-> input(Symbols[i])]
           a == Calls("deploy", ToDeploy)
           b == Calls("batchInitReserve", Chunk(ins, InitChunks))
           q == a \o b
<1>1. InitReservesByHelper(run) = q
  BY DEF InitReservesByHelper
<1>2. IsSeq(Symbols) /\ Symbols = c.symbols
  BY MarketsAre DEF IsMarket, Symbols
<1>3. \A s : input(s).symbol = s /\ (s \in ToSet(c.symbols) => PoolInput(c, input(s), run))
  BY DEF PoolInput, ATokenId, TokenOf, StrategyOf, ReservesConfig
<1>4. IsSeq(ins) /\ Len(ins) = Len(Symbols) /\ DOMAIN ins = 1..Len(Symbols)
  <2>1. ins = [i \in DOMAIN Symbols |-> ins[i]]
    OBVIOUS
  <2> HIDE DEF ins
  <2> QED BY <1>2, <2>1, MappedIs
<1>5. \A i \in 1..Len(Symbols) : ins[i] = input(Symbols[i])
  BY <1>2, SeqIs
<1>6. \A i \in ToSet(ins) : PoolInput(c, i, run)
  <2>1. \A i \in DOMAIN Symbols : Symbols[i] \in ToSet(c.symbols)
    BY <1>2 DEF ToSet
  <2>2. \A i \in DOMAIN ins : PoolInput(c, ins[i], run)
    <3> HIDE DEF input, c, run
    <3> QED BY <1>3, <2>1
  <2> HIDE DEF ins, c
  <2> QED BY <2>2 DEF ToSet
<1>7. \A i \in 1..Len(Symbols) : ins[i].symbol = Symbols[i]
  BY <1>3, <1>5
<1> HIDE DEF ins, input
<1>8. /\ IsSeq(b)
      /\ \A k \in DOMAIN b : Initializes(b[k]) /\ \A i \in ToSet(b[k].arg) : i \in ToSet(ins)
      /\ \A s \in ToSet(Symbols) : \E k \in DOMAIN b : s \in SymbolsOf(b[k].arg)
      /\ \A k \in DOMAIN b : 1 \in DOMAIN b /\ Symbols[1] \in SymbolsOf(b[1].arg)
  <2>1. Batched(b, ins, Symbols)
    BY <1>2, <1>4, <1>7, BatchesAre
  <2> HIDE DEF b
  <2> QED BY <2>1 DEF Batched
<1>9. /\ IsSeq(a) /\ \A k \in 1..Len(a) : a[k].call = "deploy" /\ a[k].arg # "stableDebtTokenImpl"
  <2>1. /\ IsSeq(a) /\ Len(a) = Len(ToDeploy)
        /\ \A k \in 1..Len(ToDeploy) : a[k] = [call |-> "deploy", arg |-> ToDeploy[k]]
    BY ToDeployIs, CallsIs
  <2>2. DOMAIN ToDeploy = 1..Len(ToDeploy)
    BY ToDeployIs, SeqIs
  <2>3. \A k \in 1..Len(ToDeploy) : ToDeploy[k] # "stableDebtTokenImpl"
    BY <2>2, ToDeployIs
  <2> HIDE DEF a
  <2>4. ASSUME NEW k \in 1..Len(ToDeploy) PROVE a[k].call = "deploy" /\ a[k].arg # "stableDebtTokenImpl"
    <3>1. a[k] = [call |-> "deploy", arg |-> ToDeploy[k]]
      BY <2>1
    <3>2. a[k].call = "deploy" /\ a[k].arg = ToDeploy[k]
      BY <3>1
    <3> QED BY <2>3, <3>2
  <2> QED BY <2>1, <2>4
<1> HIDE DEF a, b
<1>10. /\ IsSeq(q) /\ Len(q) = Len(a) + Len(b)
       /\ \A i \in 1..Len(a) : q[i] = a[i]
       /\ \A i \in 1..Len(b) : q[Len(a) + i] = b[i]
       /\ \A i \in DOMAIN q : i \in 1..Len(a) \/ (i - Len(a) \in 1..Len(b) /\ q[i] = b[i - Len(a)])
  BY <1>8, <1>9, ConcatIs
<1> HIDE DEF q
<1>11. /\ Len(a) \in Nat /\ Len(b) \in Nat /\ DOMAIN b = 1..Len(b) /\ DOMAIN q = 1..(Len(a) + Len(b))
  BY <1>8, <1>9, <1>10, SeqIs
<1>12. \A k \in DOMAIN q : PoolStep(c, q[k], run)
  <2> SUFFICES ASSUME NEW k \in DOMAIN q PROVE PoolStep(c, q[k], run)
    OBVIOUS
  <2>1. CASE k \in 1..Len(a)
    BY <1>9, <1>10, <2>1 DEF PoolStep
  <2>2. CASE k \notin 1..Len(a)
    <3>1. k - Len(a) \in DOMAIN b /\ q[k] = b[k - Len(a)]
      BY <1>10, <1>11, <2>2
    <3>2. Initializes(q[k]) /\ \A i \in ToSet(q[k].arg) : PoolInput(c, i, run)
      BY <1>6, <1>8, <3>1
    <3> QED BY <3>2 DEF PoolStep
  <2> QED BY <2>1, <2>2
<1>13. FirstComesFirst(c, q)
  <2> SUFFICES ASSUME NEW k \in DOMAIN q, Initializes(q[k])
               PROVE  \E j \in 1..k : Initializes(q[j]) /\ c.symbols[1] \in SymbolsOf(q[j].arg)
    BY DEF FirstComesFirst
  <2>1. k \notin 1..Len(a)
    BY <1>9, <1>10 DEF Initializes
  <2>2. k - Len(a) \in DOMAIN b /\ k \in Nat
    BY <1>10, <1>11, <2>1
  <2>3. 1 \in DOMAIN b /\ Symbols[1] \in SymbolsOf(b[1].arg) /\ Initializes(b[1])
    BY <1>8, <2>2
  <2>4. q[Len(a) + 1] = b[1]
    <3>1. 1 \in 1..Len(b)
      BY <1>11, <2>3
    <3> QED BY <1>10, <3>1, Zenon
  <2>5. Len(a) + 1 \in 1..k
    BY <1>11, <2>1, <2>2
  <2> QED BY <1>2, <2>3, <2>4, <2>5
<1>14. Covered(c, reserves, q)
  <2> SUFFICES ASSUME NEW s \in ToSet(c.symbols)
               PROVE  \E k \in DOMAIN q : Initializes(q[k]) /\ s \in SymbolsOf(q[k].arg)
    BY DEF Covered
  <2>1. PICK k \in DOMAIN b : s \in SymbolsOf(b[k].arg)
    BY <1>2, <1>8
  <2>2. Len(a) + k \in DOMAIN q /\ q[Len(a) + k] = b[k] /\ Initializes(b[k])
    BY <1>8, <1>10, <1>11
  <2> QED BY <2>1, <2>2
<1>15. Earlier(reserves, run)
  BY DEF ReservesGood, AddressGood, Earlier
<1> QED BY <1>1, <1>10, <1>12, <1>13, <1>14, <1>15 DEF InitPlan

LEMMA TokenPlanned ==
  ASSUME market \in DOMAIN Markets, NEW n \in Nat, DbGood(db, n)
  PROVE  /\ IsSeq(InitTokenReservesByHelper(n + 1))
         /\ TokenPlan(Markets[market], db, reserves, InitTokenReservesByHelper(n + 1), n + 1)
<1> DEFINE c == Markets[market]
           run == n + 1
           found(id, s) == AddressById(id, ForAsset(id, s, run))
           input(s) == [symbol |-> s, aToken |-> found(ATokenId(s), s),
                        stableDebt |-> found("stableDebtTokenImpl", s),
                        strategy |-> found(ReservesConfig[s].strategy, s)]
           left == Uninitialized
           ins == [i \in DOMAIN left |-> input(left[i])]
           q == Calls("batchInitReserve", Chunk(ins, InitChunks))
<1>1. InitTokenReservesByHelper(run) = q
  BY DEF InitTokenReservesByHelper
<1>2. IsSeq(Symbols) /\ IsInjective(Symbols) /\ "pool" \notin ToSet(Symbols) /\ Symbols = c.symbols
  BY MarketsAre DEF IsMarket, Symbols
<1>3. IsSeq(left) /\ IsInjective(left) /\ ToSet(left) = ToSet(Symbols) \ DOMAIN reserves
  <2>1. /\ IsSeq(left) /\ IsInjective(left)
        /\ ToSet(left) = ToSet(Symbols) \cap (ToSet(Symbols) \ DOMAIN reserves)
    BY <1>2, KeptIs DEF Uninitialized
  <2> HIDE DEF left
  <2> QED BY <2>1
<1>4. \A id, s : TokenAddress(found(id, s), id, s, db, run)
  BY DEF DbGood, TokenAddress, AddressById, ForAsset
<1>5. \A s : found("stableDebtTokenImpl", s).for = s
  BY DEF DbGood, AddressById, ForAsset
<1>6. ASSUME NEW s \in ToSet(left) PROVE TokenInput(c, input(s), db, run)
  <2>1. s \in ToSet(c.symbols) /\ s # "pool"
    BY <1>2, <1>3
  <2>2. ATokenId(s) = TokenOf(c, s) /\ ReservesConfig[s].strategy = StrategyOf(c, s)
    BY DEF ATokenId, TokenOf, StrategyOf, ReservesConfig
  <2> HIDE DEF found, c
  <2> QED BY <1>4, <1>5, <2>1, <2>2 DEF TokenInput
<1>7. \A s : input(s).symbol = s
  OBVIOUS
<1> HIDE DEF input, left
<1>8. IsSeq(ins) /\ Len(ins) = Len(left) /\ DOMAIN ins = 1..Len(left) /\ DOMAIN left = 1..Len(left)
  <2>1. ins = [i \in DOMAIN left |-> ins[i]]
    OBVIOUS
  <2> HIDE DEF ins
  <2> QED BY <1>3, <2>1, MappedIs, SeqIs
<1>9. \A i \in 1..Len(left) : ins[i] = input(left[i]) /\ left[i] \in ToSet(left)
  BY <1>8 DEF ToSet
<1>10. \A i \in ToSet(ins) : TokenInput(c, i, db, run)
  <2>1. \A i \in DOMAIN ins : TokenInput(c, ins[i], db, run)
    BY <1>6, <1>8, <1>9
  <2> HIDE DEF ins, c
  <2> QED BY <2>1 DEF ToSet
<1>11. \A i \in 1..Len(left) : ins[i].symbol = left[i]
  BY <1>7, <1>9
<1> HIDE DEF ins
<1>12. /\ IsSeq(q)
       /\ \A k \in DOMAIN q : Initializes(q[k]) /\ \A i \in ToSet(q[k].arg) : i \in ToSet(ins)
       /\ \A s \in ToSet(left) : \E k \in DOMAIN q : s \in SymbolsOf(q[k].arg)
       /\ \A k, l \in DOMAIN q : k # l => SymbolsOf(q[k].arg) \cap SymbolsOf(q[l].arg) = {}
  <2>1. q = Calls("batchInitReserve", Chunk(ins, InitChunks))
    OBVIOUS
  <2> HIDE DEF q
  <2>2. Batched(q, ins, left)
    <3>1. IsSeq(left) /\ IsSeq(ins) /\ Len(ins) = Len(left)
      BY <1>3, <1>8
    <3> QED BY <1>11, <2>1, <3>1, BatchesAre
  <2> QED BY <1>3, <2>2 DEF Batched
<1> HIDE DEF q
<1>13. \A i \in ToSet(ins) : i.symbol \in ToSet(left)
  <2>1. \A i \in DOMAIN ins : ins[i].symbol \in ToSet(left)
    BY <1>8, <1>9, <1>11
  <2> QED BY <2>1 DEF ToSet
<1>14. ASSUME NEW k \in DOMAIN q
       PROVE  /\ Initializes(q[k]) /\ SymbolsOf(q[k].arg) \cap DOMAIN reserves = {}
              /\ \A i \in ToSet(q[k].arg) : TokenInput(c, i, db, run)
  <2>1. \A x \in SymbolsOf(q[k].arg) : x \in ToSet(left)
    BY <1>12, <1>13 DEF SymbolsOf
  <2> QED BY <1>3, <1>10, <1>12, <2>1
<1>15. Covered(c, reserves, q)
  BY <1>2, <1>3, <1>12 DEF Covered
<1> QED BY <1>1, <1>12, <1>14, <1>15 DEF TokenPlan

\* Chunks of one list between two calls.
Framed(q, f, u, g, s, h, v) ==
  /\ IsSeq(q) /\ q # << >> /\ q[Len(q)] = [call |-> h, arg |-> v]
  /\ \A k \in DOMAIN q : q[k].call \in {f, h} \/ (q[k].call = g /\ ToSet(q[k].arg) \subseteq ToSet(s))
  /\ \A x \in ToSet(s) : \E k \in DOMAIN q : q[k].call = g /\ x \in ToSet(q[k].arg)

LEMMA FramedIs ==
  ASSUME NEW s, IsSeq(s), NEW f, NEW u, NEW g, NEW h, NEW v,
         NEW q, q = Calls(f, <<u>>) \o Calls(g, Chunk(s, EnableChunks)) \o Calls(h, <<v>>)
  PROVE  Framed(q, f, u, g, s, h, v)
<1> DEFINE ch == Chunk(s, EnableChunks)
           first == Calls(f, <<u>>)
           body == Calls(g, ch)
           last == Calls(h, <<v>>)
           head == first \o body
<1>1. EnableChunks \in Nat \ {0}
  BY ReserveSetupAssumption
<1>2. /\ IsSeq(ch) /\ \A k \in DOMAIN ch : \A x \in ToSet(ch[k]) : x \in ToSet(s)
      /\ \A x \in ToSet(s) : \E k \in DOMAIN ch : x \in ToSet(ch[k])
  BY <1>1, ChunkIs, ChunkCovers
<1> HIDE DEF ch
<1>3. /\ IsSeq(first) /\ Len(first) = 1 /\ first[1] = [call |-> f, arg |-> u]
      /\ IsSeq(last) /\ Len(last) = 1 /\ last[1] = [call |-> h, arg |-> v]
  BY OneCallIs
<1>4. /\ IsSeq(body) /\ Len(body) = Len(ch) /\ Len(ch) \in Nat /\ DOMAIN ch = 1..Len(ch)
      /\ \A k \in 1..Len(ch) : body[k] = [call |-> g, arg |-> ch[k]]
  BY <1>2, CallsIs, SeqIs
<1> HIDE DEF first, body, last
<1> DEFINE n == Len(ch)
<1>5. /\ IsSeq(head) /\ Len(head) = 1 + n
      /\ head[1] = first[1] /\ \A i \in 1..n : head[1 + i] = body[i]
  <2>1. /\ IsSeq(head) /\ Len(head) = Len(first) + Len(body)
        /\ \A i \in 1..Len(first) : head[i] = first[i]
        /\ \A i \in 1..Len(body) : head[Len(first) + i] = body[i]
    <3>1. Joined(head, first, body)
      BY <1>3, <1>4, JoinIs
    <3> HIDE DEF head
    <3> QED BY <3>1 DEF Joined
  <2> HIDE DEF head
  <2> QED BY <1>3, <1>4, <2>1
<1>6. q = head \o last
  BY DEF head, first, body, last, ch
<1> HIDE DEF head
<1>7. /\ IsSeq(q) /\ Len(q) = n + 2 /\ DOMAIN q = 1..(n + 2)
      /\ \A i \in 1..(n + 1) : q[i] = head[i]
      /\ q[n + 2] = last[1]
  <2>1. /\ IsSeq(q) /\ Len(q) = Len(head) + Len(last)
        /\ \A i \in 1..Len(head) : q[i] = head[i]
        /\ \A i \in 1..Len(last) : q[Len(head) + i] = last[i]
    <3>1. Joined(q, head, last)
      BY <1>3, <1>5, <1>6, JoinIs
    <3> QED BY <3>1 DEF Joined
  <2>2. DOMAIN q = 1..Len(q)
    BY <2>1, SeqIs
  <2>3. Len(q) = n + 2 /\ Len(head) = n + 1
    <3>1. Len(last) = 1
      BY <1>3
    <3>2. n \in Nat /\ Len(head) = 1 + n
      BY <1>4, <1>5
    <3>3. Len(q) = Len(head) + Len(last)
      BY <2>1
    <3> HIDE DEF n
    <3> QED BY <3>1, <3>2, <3>3
  <2>4. 1 \in 1..Len(last) /\ (n + 1) + 1 = n + 2
    BY <1>3, <1>4
  <2>5. q[(n + 1) + 1] = last[1]
    BY <2>1, <2>3, <2>4
  <2> HIDE DEF n
  <2> QED BY <2>1, <2>2, <2>3, <2>4, <2>5
<1>8. n \in Nat
  BY <1>4
<1>9. \A i \in 1..n : q[1 + i] = [call |-> g, arg |-> ch[i]]
  <2> SUFFICES ASSUME NEW i \in 1..n PROVE q[1 + i] = [call |-> g, arg |-> ch[i]]
    OBVIOUS
  <2>1. 1 + i \in 1..(n + 1)
    BY <1>8
  <2> QED BY <1>4, <1>5, <1>7, <2>1
<1>10. q[1] = [call |-> f, arg |-> u] /\ q[n + 2] = [call |-> h, arg |-> v]
  <2>1. 1 \in 1..(n + 1)
    BY <1>8
  <2> QED BY <1>3, <1>5, <1>7, <2>1
<1> HIDE DEF n
<1>11. q # << >> /\ q[Len(q)] = [call |-> h, arg |-> v]
  <2>1. Len(q) # Len(<< >>)
    BY <1>7, <1>8
  <2> QED BY <1>7, <1>10, <2>1
<1>12. ASSUME NEW k \in DOMAIN q
       PROVE  q[k].call \in {f, h} \/ (q[k].call = g /\ ToSet(q[k].arg) \subseteq ToSet(s))
  <2>1. CASE k = 1
    BY <1>10, <2>1
  <2>2. CASE k = n + 2
    BY <1>10, <2>2
  <2>3. CASE k # 1 /\ k # n + 2
    <3>1. k - 1 \in 1..n /\ 1 + (k - 1) = k
      BY <1>7, <1>8, <2>3
    <3>2. q[k] = [call |-> g, arg |-> ch[k - 1]]
      BY <1>9, <3>1
    <3>3. k - 1 \in DOMAIN ch
      BY <1>4, <3>1 DEF n
    <3>4. q[k].call = g /\ q[k].arg = ch[k - 1]
      BY <3>2
    <3> QED BY <1>2, <3>3, <3>4
  <2> QED BY <2>1, <2>2, <2>3
<1>13. ASSUME NEW x \in ToSet(s) PROVE \E k \in DOMAIN q : q[k].call = g /\ x \in ToSet(q[k].arg)
  <2>1. PICK k \in DOMAIN ch : x \in ToSet(ch[k])
    BY <1>2
  <2>2. k \in 1..n /\ k \in Int
    BY <1>4 DEF n
  <2>3. 1 + k \in DOMAIN q
    <3>1. 1 + k \in 1..(n + 2)
      BY <1>8, <2>2
    <3> QED BY <1>7, <3>1
  <2>4. q[1 + k].call = g /\ q[1 + k].arg = ch[k]
    <3>1. q[1 + k] = [call |-> g, arg |-> ch[k]]
      BY <1>9, <2>2
    <3> DEFINE y == q[1 + k]
    <3>2. y = [call |-> g, arg |-> ch[k]]
      BY <3>1
    <3> HIDE DEF y
    <3>3. y.call = g /\ y.arg = ch[k]
      BY <3>2
    <3> QED BY <3>3 DEF y
  <2> QED BY <2>1, <2>3, <2>4
<1> QED BY <1>7, <1>11, <1>12, <1>13 DEF Framed

LEMMA ConfigurePlanned ==
  ASSUME market \in DOMAIN Markets
  PROVE  /\ IsSeq(ConfigureReservesByHelper)
         /\ ConfigureReservesByHelper # << >> =>
              ConfigurePlan(Markets[market], configured, ConfigureReservesByHelper, poolAdmin)
<1> DEFINE c == Markets[market]
           left == LeftToConfigure
           wanted == {s \in ToSet(Symbols) : /\ ReservesConfig[s].baseLTV # -1
                                             /\ s \notin configured \/ ReservesConfig[s].threshold = 0}
           q == ConfigureReservesByHelper
<1>1. IsSeq(Symbols) /\ Symbols = c.symbols
  BY MarketsAre DEF IsMarket, Symbols
<1>3. IsSeq(left) /\ ToSet(left) = ToSet(Symbols) \cap wanted
  <2>1. left = Kept(Symbols, wanted)
    BY DEF LeftToConfigure
  <2> HIDE DEF wanted, left
  <2> QED BY <1>1, <2>1, KeptIs
<1>4. \A s \in ToSet(left) : s \in Meant(c)
  <2>1. \A s \in wanted : s \in Meant(c)
    BY <1>1 DEF Meant, ReservesConfig
  <2> HIDE DEF wanted, left
  <2> QED BY <1>3, <2>1
<1>5. \A s \in Meant(c) : s \in configured \/ s \in ToSet(left)
  <2>1. \A s \in Meant(c) : s \in ToSet(Symbols) /\ (s \in configured \/ s \in wanted)
    BY <1>1 DEF Meant, ReservesConfig
  <2> HIDE DEF wanted, left
  <2> QED BY <1>3, <2>1
<1> HIDE DEF left, wanted
<1>6. CASE left = << >>
  <2>1. << >> \in Seq({})
    OBVIOUS
  <2>2. q = << >>
    BY <1>6 DEF ConfigureReservesByHelper, left
  <2> QED BY <2>1, <2>2 DEF IsSeq
<1>7. CASE left # << >>
  <2>1. q = Calls("setPoolAdmin", <<Helper>>) \o Calls("configureReserves", Chunk(left, EnableChunks))
            \o Calls("setPoolAdmin", <<Admin>>)
    BY <1>7 DEF ConfigureReservesByHelper, left
  <2> HIDE DEF q
  <2>2. /\ IsSeq(q) /\ q # << >> /\ q[Len(q)] = [call |-> "setPoolAdmin", arg |-> Admin]
        /\ \A k \in DOMAIN q : q[k].call \in {"setPoolAdmin", "setPoolAdmin"}
                               \/ (q[k].call = "configureReserves" /\ ToSet(q[k].arg) \subseteq ToSet(left))
        /\ \A x \in ToSet(left) : \E k \in DOMAIN q : q[k].call = "configureReserves" /\ x \in ToSet(q[k].arg)
    <3>1. Framed(q, "setPoolAdmin", Helper, "configureReserves", left, "setPoolAdmin", Admin)
      BY <1>3, <2>1, FramedIs
    <3> QED BY <3>1 DEF Framed
  <2>3. \A k \in DOMAIN q : q[k].call = "setPoolAdmin"
                           \/ (q[k].call = "configureReserves" /\ ToSet(q[k].arg) \subseteq Meant(c))
    BY <1>4, <2>2
  <2>4. \A s \in Meant(c) : s \in configured
                           \/ \E k \in DOMAIN q : q[k].call = "configureReserves" /\ s \in ToSet(q[k].arg)
    BY <1>5, <2>2
  <2> HIDE DEF c
  <2>5. ConfigurePlan(c, configured, q, poolAdmin)
    BY <2>2, <2>3, <2>4 DEF ConfigurePlan
  <2> QED BY <2>2, <2>5 DEF q, c
<1> QED BY <1>6, <1>7

LEMMA RatesPlanned ==
  ASSUME market \in DOMAIN Markets
  PROVE  /\ IsSeq(SetInitialMarketRatesByHelper)
         /\ RatesPlan(Markets[market], rates, SetInitialMarketRatesByHelper, oracleOwner)
<1> DEFINE c == Markets[market]
           q == SetInitialMarketRatesByHelper
<1>1. IsSeq(Symbols) /\ Symbols = c.symbols
  BY MarketsAre DEF IsMarket, Symbols
<1>2. q = Calls("transferOwnership", <<Helper>>) \o Calls("setOracleBorrowRates", Chunk(Symbols, EnableChunks))
          \o Calls("setOracleOwnership", <<Admin>>)
  BY DEF SetInitialMarketRatesByHelper
<1> HIDE DEF q
<1>3. /\ IsSeq(q) /\ q # << >> /\ q[Len(q)] = [call |-> "setOracleOwnership", arg |-> Admin]
      /\ \A k \in DOMAIN q : q[k].call \in {"transferOwnership", "setOracleOwnership"}
                             \/ (q[k].call = "setOracleBorrowRates" /\ ToSet(q[k].arg) \subseteq ToSet(Symbols))
      /\ \A x \in ToSet(Symbols) : \E k \in DOMAIN q : q[k].call = "setOracleBorrowRates" /\ x \in ToSet(q[k].arg)
  <2>1. Framed(q, "transferOwnership", Helper, "setOracleBorrowRates", Symbols, "setOracleOwnership", Admin)
    BY <1>1, <1>2, FramedIs
  <2> QED BY <2>1 DEF Framed
<1> HIDE DEF c
<1>4. RatesPlan(c, rates, q, oracleOwner)
  BY <1>1, <1>3 DEF RatesPlan
<1> QED BY <1>3, <1>4 DEF q, c

(***************************************************************************)
(* One transaction less to send.                                            *)
(***************************************************************************)
Rest(t, q) ==
  /\ IsSeq(t) /\ IsSeq(q) /\ 1 \in DOMAIN q /\ Head(q) = q[1]
  /\ \A k \in DOMAIN t : k \in Nat /\ k + 1 \in DOMAIN q /\ t[k] = q[k + 1]
  /\ \A k \in DOMAIN q : k \in Nat /\ (k = 1 \/ (k - 1 \in DOMAIN t /\ t[k - 1] = q[k]))
  /\ t = << >> => q[Len(q)] = q[1]
  /\ t # << >> => t[Len(t)] = q[Len(q)]

LEMMA RestIs == ASSUME NEW q, IsSeq(q), q # << >> PROVE Rest(Tail(q), q)
<1> DEFINE t == Tail(q)
           n == Len(q)
<1>1. /\ n \in Nat \ {0} /\ DOMAIN q = 1..n /\ Head(q) = q[1]
      /\ IsSeq(t) /\ DOMAIN t = 1..(n - 1)
      /\ \A i \in DOMAIN t : i + 1 \in DOMAIN q /\ t[i] = q[i + 1]
      /\ t = << >> <=> n = 1
  BY TailIs
<1>2. Len(t) \in Nat /\ DOMAIN t = 1..Len(t)
  BY <1>1, SeqIs
<1> HIDE DEF t, n
<1>3. \A k \in DOMAIN q : k \in Nat /\ (k = 1 \/ (k - 1 \in DOMAIN t /\ t[k - 1] = q[k]))
  <2> SUFFICES ASSUME NEW k \in DOMAIN q, k # 1 PROVE k - 1 \in DOMAIN t /\ t[k - 1] = q[k]
    BY <1>1
  <2>1. k - 1 \in 1..(n - 1) /\ (k - 1) + 1 = k
    BY <1>1
  <2> QED BY <1>1, <2>1
<1>4. t # << >> => t[Len(t)] = q[n]
  <2> SUFFICES ASSUME t # << >> PROVE t[Len(t)] = q[n]
    OBVIOUS
  <2>1. n - 1 \in 1..(n - 1) /\ n - 1 \in Nat
    BY <1>1
  <2>2. Len(t) = n - 1
    <3>1. 1..Len(t) = 1..(n - 1)
      BY <1>1, <1>2
    <3>2. Len(t) >= n - 1
      BY <1>2, <2>1, <3>1
    <3>3. Len(t) \in 1..Len(t)
      BY <1>2, <2>1, <3>2
    <3> QED BY <1>2, <2>1, <3>1, <3>2, <3>3
  <2>3. t[n - 1] = q[(n - 1) + 1] /\ (n - 1) + 1 = n
    BY <1>1, <2>1
  <2> QED BY <2>2, <2>3
<1>5. t = << >> => q[n] = q[1]
  BY <1>1
<1>6. 1 \in DOMAIN q /\ \A k \in DOMAIN t : k \in Nat
  BY <1>1
<1> QED BY <1>1, <1>3, <1>4, <1>5, <1>6 DEF Rest, t, n

LEMMA RestCovered ==
  ASSUME NEW c, NEW r, NEW q, NEW t, Rest(t, q), Covered(c, r, q),
         NEW m, DOMAIN r \subseteq DOMAIN m, Initializes(q[1]) => SymbolsOf(q[1].arg) \subseteq DOMAIN m
  PROVE  Covered(c, m, t)
<1> SUFFICES ASSUME NEW s \in ToSet(c.symbols), s \notin DOMAIN m
             PROVE  \E k \in DOMAIN t : Initializes(t[k]) /\ s \in SymbolsOf(t[k].arg)
  BY DEF Covered
<1>1. PICK k \in DOMAIN q : Initializes(q[k]) /\ s \in SymbolsOf(q[k].arg)
  BY DEF Covered
<1>2. k # 1
  BY <1>1
<1>3. k - 1 \in DOMAIN t /\ t[k - 1] = q[k]
  BY <1>2 DEF Rest
<1> QED BY <1>1, <1>3

\* deploy: what is looked up is of this run from now on.
DeployedFor(e, d, id, n) ==
  e = [i \in DOMAIN d \cup {id} |-> IF i = id THEN ForPool(i, n) ELSE d[i]]

LEMMA DeployKeeps ==
  ASSUME NEW c, NEW d, NEW r, NEW q, NEW n \in Nat \ {0}, NEW t, Rest(t, q), q[1].call = "deploy",
         DbGood(d, n), ReservesGood(c, d, r, n), InitPlan(c, r, q, n),
         NEW e, DeployedFor(e, d, q[1].arg, n)
  PROVE  DbGood(e, n) /\ ReservesGood(c, e, r, n) /\ InitPlan(c, r, t, n)
<1> DEFINE id == q[1].arg
<1>1. 1 \in DOMAIN q
  BY DEF Rest
<1>2. id # "stableDebtTokenImpl" /\ ~Initializes(q[1])
  BY <1>1 DEF InitPlan, PoolStep, Initializes
<1> HIDE DEF id
<1>3. DOMAIN e = DOMAIN d \cup {id} /\ \A i \in DOMAIN e : e[i] = IF i = id THEN ForPool(i, n) ELSE d[i]
  BY DEF DeployedFor, id
<1>4. \A i : ForPool(i, n).what = i /\ ForPool(i, n).for = "pool" /\ ForPool(i, n).run = n
  BY DEF ForPool
<1>5. DbGood(e, n)
  <2>1. n \in 1..n
    OBVIOUS
  <2> QED BY <1>2, <1>3, <1>4, <2>1 DEF DbGood
<1>6. ASSUME NEW a, NEW i, NEW s, AddressGood(a, i, s, d, n), a.for # "pool" => a.run < n
      PROVE  AddressGood(a, i, s, e, n)
  BY <1>3, <1>4, <1>6 DEF AddressGood
<1>7. ReservesGood(c, e, r, n)
  <2>1. \A s \in DOMAIN r : /\ AddressGood(r[s].aToken, TokenOf(c, s), s, e, n)
                            /\ AddressGood(r[s].strategy, StrategyOf(c, s), s, e, n)
    BY <1>6 DEF ReservesGood, InitPlan, Earlier
  <2> QED BY <2>1 DEF ReservesGood
<1>8. Covered(c, r, t)
  BY <1>2, RestCovered DEF InitPlan
<1>9. \A k \in DOMAIN t : PoolStep(c, t[k], n)
  BY DEF InitPlan, Rest
<1>10. FirstComesFirst(c, q) => FirstComesFirst(c, t)
  <2> SUFFICES ASSUME FirstComesFirst(c, q), NEW k \in DOMAIN t, Initializes(t[k])
               PROVE  \E j \in 1..k : Initializes(t[j]) /\ c.symbols[1] \in SymbolsOf(t[j].arg)
    BY DEF FirstComesFirst
  <2>1. k \in Nat /\ k + 1 \in DOMAIN q /\ t[k] = q[k + 1]
    BY DEF Rest
  <2>2. PICK j \in 1..(k + 1) : Initializes(q[j]) /\ c.symbols[1] \in SymbolsOf(q[j].arg)
    BY <2>1 DEF FirstComesFirst
  <2>3. j # 1
    BY <1>2, <2>2
  <2>4. j \in DOMAIN q
    <3>1. Len(q) \in Nat /\ DOMAIN q = 1..Len(q)
      BY SeqIs DEF Rest
    <3> QED BY <2>1, <2>2, <3>1
  <2>5. j - 1 \in DOMAIN t /\ t[j - 1] = q[j]
    BY <2>3, <2>4 DEF Rest
  <2>6. j - 1 \in 1..k
    BY <2>1, <2>2, <2>3
  <2> QED BY <2>2, <2>5, <2>6
<1> QED BY <1>5, <1>7, <1>8, <1>9, <1>10 DEF InitPlan

\* batchInitReserve: what is new is among the inputs.
Initialized(m, r, ins) ==
  m = [s \in DOMAIN r \cup SymbolsOf(ins) |->
         IF s \in DOMAIN r THEN r[s] ELSE CHOOSE i \in ToSet(ins) : i.symbol = s]

Extends(m, r, ins) ==
  /\ DOMAIN m = DOMAIN r \cup SymbolsOf(ins)
  /\ \A s \in DOMAIN m : \/ s \in DOMAIN r /\ m[s] = r[s]
                         \/ s \notin DOMAIN r /\ m[s] \in ToSet(ins) /\ m[s].symbol = s

LEMMA InitializedIs ==
  ASSUME NEW m, NEW r, NEW ins, Initialized(m, r, ins) PROVE Extends(m, r, ins)
<1>1. /\ DOMAIN m = DOMAIN r \cup SymbolsOf(ins)
      /\ \A s \in DOMAIN m : m[s] = IF s \in DOMAIN r THEN r[s] ELSE CHOOSE i \in ToSet(ins) : i.symbol = s
  BY DEF Initialized
<1>2. ASSUME NEW s \in DOMAIN m, s \notin DOMAIN r PROVE m[s] \in ToSet(ins) /\ m[s].symbol = s
  <2>1. \E i \in ToSet(ins) : i.symbol = s
    BY <1>1, <1>2 DEF SymbolsOf
  <2> QED BY <1>1, <1>2, <2>1
<1> QED BY <1>1, <1>2 DEF Extends

LEMMA OfRunIsOne ==
  ASSUME NEW c, NEW r, NEW n, OfRun(c, r, n) PROVE OneRun(c, r)
BY DEF OfRun, OneRun

LEMMA PoolBatchKeeps ==
  ASSUME NEW c, NEW d, NEW r, NEW q, NEW n \in Nat \ {0}, NEW t, Rest(t, q), Initializes(q[1]),
         SymbolsOf(q[1].arg) \cap DOMAIN r = {},
         ReservesGood(c, d, r, n), InitPlan(c, r, q, n),
         NEW m, Initialized(m, r, q[1].arg)
  PROVE  ReservesGood(c, d, m, n) /\ InitPlan(c, m, t, n)
<1> DEFINE ins == q[1].arg
<1>1. 1 \in DOMAIN q
  BY DEF Rest
<1>2. \A i \in ToSet(ins) : PoolInput(c, i, n)
  BY <1>1 DEF InitPlan, PoolStep, Initializes
<1>3. Extends(m, r, ins)
  BY InitializedIs
<1>4. FirstComesFirst(c, q) => c.symbols[1] \in SymbolsOf(ins)
  <2> SUFFICES ASSUME FirstComesFirst(c, q) PROVE c.symbols[1] \in SymbolsOf(ins)
    OBVIOUS
  <2>1. PICK j \in 1..1 : c.symbols[1] \in SymbolsOf(q[j].arg)
    BY <1>1 DEF FirstComesFirst
  <2>2. j = 1
    OBVIOUS
  <2> QED BY <2>1, <2>2
<1> HIDE DEF ins
<1>5. \A i : ForPool(i, n).what = i /\ ForPool(i, n).for = "pool"
  BY DEF ForPool
<1>6. OfRun(c, m, n)
  <2>1. \A s \in DOMAIN m : s \notin DOMAIN r => m[s].stableDebt = ForPool("stableDebtTokenImpl", n)
    BY <1>2, <1>3 DEF Extends, PoolInput
  <2>2. CASE FirstComesFirst(c, q)
    <3>1. c.symbols[1] \in DOMAIN m /\ c.symbols[1] \notin DOMAIN r
      BY <1>3, <1>4, <2>2 DEF Extends, ins
    <3>2. \A s \in DOMAIN r : r[s].stableDebt.for # "pool"
      BY <3>1 DEF ReservesGood, OneRun
    <3> QED BY <1>3, <2>1, <3>1, <3>2 DEF OfRun, Extends
  <2>3. CASE OfRun(c, r, n)
    BY <1>3, <2>1, <2>3 DEF OfRun, Extends
  <2> QED BY <2>2, <2>3 DEF InitPlan
<1>7. \A s \in DOMAIN m : s \notin DOMAIN r =>
        /\ s \in ToSet(c.symbols)
        /\ m[s].aToken = ForPool(TokenOf(c, s), n) /\ m[s].strategy = ForPool(StrategyOf(c, s), n)
  BY <1>2, <1>3 DEF Extends, PoolInput
<1>8. ReservesGood(c, d, m, n)
  <2>1. ASSUME NEW s \in DOMAIN m
        PROVE  /\ s \in ToSet(c.symbols)
               /\ AddressGood(m[s].aToken, TokenOf(c, s), s, d, n)
               /\ AddressGood(m[s].strategy, StrategyOf(c, s), s, d, n)
    <3>1. CASE s \in DOMAIN r
      <4>1. m[s] = r[s]
        BY <1>3, <3>1 DEF Extends
      <4> QED BY <3>1, <4>1 DEF ReservesGood
    <3>2. CASE s \notin DOMAIN r
      BY <1>5, <1>7, <3>2 DEF AddressGood
    <3> QED BY <3>1, <3>2
  <2> QED BY <1>6, <2>1, OfRunIsOne DEF ReservesGood
<1>9. Earlier(m, n)
  <2>1. ASSUME NEW s \in DOMAIN m
        PROVE  /\ m[s].aToken.for # "pool" => m[s].aToken.run < n
               /\ m[s].strategy.for # "pool" => m[s].strategy.run < n
    <3>1. CASE s \in DOMAIN r
      <4>1. m[s] = r[s]
        BY <1>3, <3>1 DEF Extends
      <4> QED BY <3>1, <4>1 DEF InitPlan, Earlier
    <3>2. CASE s \notin DOMAIN r
      BY <1>5, <1>7, <3>2
    <3> QED BY <3>1, <3>2
  <2> QED BY <2>1 DEF Earlier
<1>10. Covered(c, m, t)
  BY <1>3, RestCovered DEF InitPlan, Extends, ins
<1>11. \A k \in DOMAIN t : PoolStep(c, t[k], n)
  BY DEF InitPlan, Rest
<1> QED BY <1>6, <1>8, <1>9, <1>10, <1>11 DEF InitPlan

LEMMA TokenBatchKeeps ==
  ASSUME NEW c, "pool" \notin ToSet(c.symbols), NEW d, NEW r, NEW q, NEW n \in Nat \ {0}, NEW t, Rest(t, q),
         ReservesGood(c, d, r, n), TokenPlan(c, d, r, q, n),
         NEW m, Initialized(m, r, q[1].arg)
  PROVE  ReservesGood(c, d, m, n) /\ TokenPlan(c, d, m, t, n)
<1> DEFINE ins == q[1].arg
<1>1. 1 \in DOMAIN q
  BY DEF Rest
<1>2. \A i \in ToSet(ins) : TokenInput(c, i, d, n)
  BY <1>1 DEF TokenPlan
<1>3. Extends(m, r, ins)
  BY InitializedIs
<1>4. n \in 1..n
  OBVIOUS
<1> HIDE DEF ins
<1>5. ASSUME NEW s \in DOMAIN m, s \notin DOMAIN r
      PROVE  /\ s \in ToSet(c.symbols) /\ m[s].stableDebt.for # "pool"
             /\ AddressGood(m[s].aToken, TokenOf(c, s), s, d, n)
             /\ AddressGood(m[s].strategy, StrategyOf(c, s), s, d, n)
  <2>1. TokenInput(c, m[s], d, n) /\ m[s].symbol = s
    BY <1>2, <1>3, <1>5 DEF Extends
  <2>2. /\ TokenAddress(m[s].aToken, TokenOf(c, s), s, d, n)
        /\ TokenAddress(m[s].strategy, StrategyOf(c, s), s, d, n)
        /\ s \in ToSet(c.symbols) /\ m[s].stableDebt.for # "pool"
    BY <2>1 DEF TokenInput
  <2>3. \A a, i : TokenAddress(a, i, s, d, n) => AddressGood(a, i, s, d, n)
    BY <1>4 DEF TokenAddress, AddressGood
  <2> QED BY <2>2, <2>3
<1>6. ReservesGood(c, d, m, n)
  <2>1. ASSUME NEW s \in DOMAIN m
        PROVE  /\ s \in ToSet(c.symbols)
               /\ AddressGood(m[s].aToken, TokenOf(c, s), s, d, n)
               /\ AddressGood(m[s].strategy, StrategyOf(c, s), s, d, n)
    <3>1. CASE s \in DOMAIN r
      <4>1. m[s] = r[s]
        BY <1>3, <3>1 DEF Extends
      <4> QED BY <3>1, <4>1 DEF ReservesGood
    <3>2. CASE s \notin DOMAIN r
      BY <1>5, <3>2
    <3> QED BY <3>1, <3>2
  <2>2. OneRun(c, m)
    <3>1. \A s \in DOMAIN m : m[s].stableDebt.for = "pool" => s \in DOMAIN r /\ m[s] = r[s]
      BY <1>3, <1>5 DEF Extends
    <3>2. DOMAIN r \subseteq DOMAIN m
      BY <1>3 DEF Extends
    <3> QED BY <3>1, <3>2 DEF ReservesGood, OneRun
  <2> QED BY <2>1, <2>2 DEF ReservesGood
<1>7. Covered(c, m, t)
  BY <1>3, RestCovered DEF TokenPlan, Extends, ins
<1>8. ASSUME NEW k \in DOMAIN t
      PROVE  /\ Initializes(t[k]) /\ SymbolsOf(t[k].arg) \cap DOMAIN m = {}
             /\ \A i \in ToSet(t[k].arg) : TokenInput(c, i, d, n)
  <2>1. k + 1 \in DOMAIN q /\ t[k] = q[k + 1] /\ k + 1 # 1
    <3>1. k \in Nat /\ k + 1 \in DOMAIN q /\ t[k] = q[k + 1] /\ k # 0
      <4>1. Len(t) \in Nat /\ DOMAIN t = 1..Len(t)
        BY SeqIs DEF Rest
      <4> QED BY <4>1 DEF Rest
    <3> QED BY <3>1
  <2>2. /\ Initializes(q[k + 1]) /\ SymbolsOf(q[k + 1].arg) \cap DOMAIN r = {}
        /\ \A i \in ToSet(q[k + 1].arg) : TokenInput(c, i, d, n)
    BY <2>1 DEF TokenPlan
  <2>3. SymbolsOf(q[k + 1].arg) \cap SymbolsOf(ins) = {}
    BY <1>1, <2>1 DEF TokenPlan, ins
  <2>4. DOMAIN m = DOMAIN r \cup SymbolsOf(ins)
    BY <1>3 DEF Extends
  <2> QED BY <2>1, <2>2, <2>3, <2>4
<1>9. ASSUME NEW k \in DOMAIN t, NEW l \in DOMAIN t, k # l
      PROVE  SymbolsOf(t[k].arg) \cap SymbolsOf(t[l].arg) = {}
  <2>1. /\ k \in Nat /\ k + 1 \in DOMAIN q /\ t[k] = q[k + 1]
        /\ l \in Nat /\ l + 1 \in DOMAIN q /\ t[l] = q[l + 1]
    BY DEF Rest
  <2>2. k + 1 # l + 1
    BY <1>9, <2>1
  <2> QED BY <2>1, <2>2 DEF TokenPlan
<1> QED BY <1>6, <1>7, <1>8, <1>9 DEF TokenPlan

\* The pool's admin changes, or reserves are configured.
LEMMA ConfigureKeeps ==
  ASSUME NEW c, NEW done, NEW q, NEW t, Rest(t, q), NEW admin, ConfigurePlan(c, done, q, admin)
  PROVE  /\ q[1].call = "setPoolAdmin" => ConfigurePlan(c, done, t, q[1].arg)
         /\ q[1].call = "configureReserves" => /\ ToSet(q[1].arg) \subseteq Meant(c)
                                               /\ ConfigurePlan(c, done \cup ToSet(q[1].arg), t, admin)
<1>1. 1 \in DOMAIN q /\ q # << >>
  <2>1. 1 \in DOMAIN q /\ DOMAIN << >> = {}
    BY DEF Rest
  <2> QED BY <2>1
<1>2. q[Len(q)] = [call |-> "setPoolAdmin", arg |-> Admin]
  BY <1>1 DEF ConfigurePlan
<1>3. \A k \in DOMAIN t : \/ t[k].call = "setPoolAdmin"
                          \/ t[k].call = "configureReserves" /\ ToSet(t[k].arg) \subseteq Meant(c)
  BY DEF ConfigurePlan, Rest
<1>4. t # << >> => t[Len(t)] = [call |-> "setPoolAdmin", arg |-> Admin]
  BY <1>2 DEF Rest
<1>5. t = << >> => q[1].call = "setPoolAdmin" /\ q[1].arg = Admin
  BY <1>2 DEF Rest
<1>6. \A s \in Meant(c) : \/ s \in done
                          \/ q[1].call = "configureReserves" /\ s \in ToSet(q[1].arg)
                          \/ \E k \in DOMAIN t : t[k].call = "configureReserves" /\ s \in ToSet(t[k].arg)
  <2> SUFFICES ASSUME NEW s \in Meant(c), s \notin done,
                      ~(q[1].call = "configureReserves" /\ s \in ToSet(q[1].arg))
               PROVE  \E k \in DOMAIN t : t[k].call = "configureReserves" /\ s \in ToSet(t[k].arg)
    OBVIOUS
  <2>1. PICK k \in DOMAIN q : q[k].call = "configureReserves" /\ s \in ToSet(q[k].arg)
    BY DEF ConfigurePlan
  <2>2. k # 1
    BY <2>1
  <2>3. k - 1 \in DOMAIN t /\ t[k - 1] = q[k]
    BY <2>2 DEF Rest
  <2> QED BY <2>1, <2>3
<1>7. ASSUME q[1].call = "setPoolAdmin" PROVE ConfigurePlan(c, done, t, q[1].arg)
  <2>1. \A s \in Meant(c) : \/ s \in done
                            \/ \E k \in DOMAIN t : t[k].call = "configureReserves" /\ s \in ToSet(t[k].arg)
    BY <1>6, <1>7
  <2> QED BY <1>3, <1>4, <1>5, <2>1 DEF ConfigurePlan
<1>8. ASSUME q[1].call = "configureReserves"
      PROVE  /\ ToSet(q[1].arg) \subseteq Meant(c)
             /\ ConfigurePlan(c, done \cup ToSet(q[1].arg), t, admin)
  <2>1. \A s \in Meant(c) : \/ s \in done \cup ToSet(q[1].arg)
                            \/ \E k \in DOMAIN t : t[k].call = "configureReserves" /\ s \in ToSet(t[k].arg)
    BY <1>6
  <2>2. t # << >>
    BY <1>5, <1>8
  <2>3. ToSet(q[1].arg) \subseteq Meant(c)
    BY <1>1, <1>8 DEF ConfigurePlan
  <2> QED BY <1>3, <1>4, <2>1, <2>2, <2>3 DEF ConfigurePlan
<1> QED BY <1>7, <1>8

\* The oracle changes hands, or rates are set.
LEMMA RatesKeep ==
  ASSUME NEW c, NEW set, NEW q, NEW t, Rest(t, q), NEW owner, RatesPlan(c, set, q, owner)
  PROVE  /\ q[1].call \in {"transferOwnership", "setOracleOwnership"} => RatesPlan(c, set, t, q[1].arg)
         /\ q[1].call = "setOracleBorrowRates" => /\ ToSet(q[1].arg) \subseteq ToSet(c.symbols)
                                                  /\ RatesPlan(c, set \cup ToSet(q[1].arg), t, owner)
<1>1. 1 \in DOMAIN q /\ q # << >>
  <2>1. 1 \in DOMAIN q /\ DOMAIN << >> = {}
    BY DEF Rest
  <2> QED BY <2>1
<1>2. q[Len(q)] = [call |-> "setOracleOwnership", arg |-> Admin]
  BY <1>1 DEF RatesPlan
<1>3. \A k \in DOMAIN t : \/ t[k].call \in {"transferOwnership", "setOracleOwnership"}
                          \/ t[k].call = "setOracleBorrowRates" /\ ToSet(t[k].arg) \subseteq ToSet(c.symbols)
  BY DEF RatesPlan, Rest
<1>4. t # << >> => t[Len(t)] = [call |-> "setOracleOwnership", arg |-> Admin]
  BY <1>2 DEF Rest
<1>5. t = << >> => q[1].call = "setOracleOwnership" /\ q[1].arg = Admin
  BY <1>2 DEF Rest
<1>6. \A s \in ToSet(c.symbols) :
        \/ s \in set
        \/ q[1].call = "setOracleBorrowRates" /\ s \in ToSet(q[1].arg)
        \/ \E k \in DOMAIN t : t[k].call = "setOracleBorrowRates" /\ s \in ToSet(t[k].arg)
  <2> SUFFICES ASSUME NEW s \in ToSet(c.symbols), s \notin set,
                      ~(q[1].call = "setOracleBorrowRates" /\ s \in ToSet(q[1].arg))
               PROVE  \E k \in DOMAIN t : t[k].call = "setOracleBorrowRates" /\ s \in ToSet(t[k].arg)
    OBVIOUS
  <2>1. PICK k \in DOMAIN q : q[k].call = "setOracleBorrowRates" /\ s \in ToSet(q[k].arg)
    BY DEF RatesPlan
  <2>2. k # 1
    BY <2>1
  <2>3. k - 1 \in DOMAIN t /\ t[k - 1] = q[k]
    BY <2>2 DEF Rest
  <2> QED BY <2>1, <2>3
<1>7. ASSUME q[1].call \in {"transferOwnership", "setOracleOwnership"} PROVE RatesPlan(c, set, t, q[1].arg)
  <2>1. \A s \in ToSet(c.symbols) :
          s \in set \/ \E k \in DOMAIN t : t[k].call = "setOracleBorrowRates" /\ s \in ToSet(t[k].arg)
    BY <1>6, <1>7
  <2> QED BY <1>3, <1>4, <1>5, <2>1 DEF RatesPlan
<1>8. ASSUME q[1].call = "setOracleBorrowRates"
      PROVE  /\ ToSet(q[1].arg) \subseteq ToSet(c.symbols)
             /\ RatesPlan(c, set \cup ToSet(q[1].arg), t, owner)
  <2>1. \A s \in ToSet(c.symbols) :
          \/ s \in set \cup ToSet(q[1].arg)
          \/ \E k \in DOMAIN t : t[k].call = "setOracleBorrowRates" /\ s \in ToSet(t[k].arg)
    BY <1>6
  <2>2. t # << >>
    BY <1>5, <1>8
  <2>3. ToSet(q[1].arg) \subseteq ToSet(c.symbols)
    BY <1>1, <1>8 DEF RatesPlan
  <2> QED BY <1>3, <1>4, <2>1, <2>2, <2>3 DEF RatesPlan
<1> QED BY <1>7, <1>8

(***************************************************************************)
(* The invariant.                                                           *)
(***************************************************************************)
PlanGood(c, d, r, done, set, admin, owner, h, q, n) ==
  /\ IsSeq(q)
  /\ h = "initReserves" => n # 0 /\ InitPlan(c, r, q, n)
  /\ h = "initTokenReserves" => n # 0 /\ TokenPlan(c, d, r, q, n)
  /\ h = "configureReserves" => ConfigurePlan(c, done, q, admin)
  /\ h = "setMarketRates" => RatesPlan(c, set, q, owner)

OutcomesGood(c, r, done, set, o) ==
  /\ DOMAIN o = Helpers
  /\ o["initTokenReserves"] # "reverted"
  /\ o["initReserves"] = "done" \/ o["initTokenReserves"] = "done" => ToSet(c.symbols) \subseteq DOMAIN r
  /\ done \subseteq Meant(c) /\ (o["configureReserves"] = "done" => Meant(c) \subseteq done)
  /\ set \subseteq ToSet(c.symbols) /\ (o["setMarketRates"] = "done" => ToSet(c.symbols) \subseteq set)

RolesGood(o, admin, owner, h) ==
  /\ h # "setMarketRates" /\ owner = Helper => o["setMarketRates"] \in {"cut", "refused"}
  /\ h # "configureReserves" /\ admin = Helper => o["configureReserves"] = "cut"

Runs(run, h, q) == run = [helper |-> h, steps |-> q] /\ (h \in Helpers \/ run = NoHelper)

SetupGood(c, d, r, done, set, admin, owner, h, q, o, n) ==
  /\ n \in Nat
  /\ DbGood(d, n) /\ ReservesGood(c, d, r, n)
  /\ PlanGood(c, d, r, done, set, admin, owner, h, q, n)
  /\ OutcomesGood(c, r, done, set, o)
  /\ RolesGood(o, admin, owner, h)

ReserveIInv ==
  /\ market \in DOMAIN Markets
  /\ Runs(running, running.helper, running.steps)
  /\ SetupGood(Markets[market], db, reserves, configured, rates, poolAdmin, oracleOwner, running.helper,
               running.steps, outcome, helperRuns)

\* Which helper sends a call.
LEMMA CallOf ==
  ASSUME NEW c, NEW d, NEW r, NEW done, NEW set, NEW admin, NEW owner, NEW h \in Helpers, NEW q, NEW n,
         PlanGood(c, d, r, done, set, admin, owner, h, q, n), 1 \in DOMAIN q
  PROVE  /\ q[1].call = "deploy" => h = "initReserves"
         /\ q[1].call = "batchInitReserve" => h \in {"initReserves", "initTokenReserves"}
         /\ q[1].call \in {"setPoolAdmin", "configureReserves"} => h = "configureReserves"
         /\ q[1].call \in {"transferOwnership", "setOracleOwnership", "setOracleBorrowRates"} => h = "setMarketRates"
<1>1. h = "initReserves" => q[1].call \in {"deploy", "batchInitReserve"}
  BY DEF PlanGood, InitPlan, PoolStep, Initializes
<1>2. h = "initTokenReserves" => q[1].call = "batchInitReserve"
  BY DEF PlanGood, TokenPlan, Initializes
<1>3. h = "configureReserves" => q[1].call \in {"setPoolAdmin", "configureReserves"}
  BY DEF PlanGood, ConfigurePlan
<1>4. h = "setMarketRates" => q[1].call \in {"transferOwnership", "setOracleOwnership", "setOracleBorrowRates"}
  BY DEF PlanGood, RatesPlan
<1> QED BY <1>1, <1>2, <1>3, <1>4 DEF Helpers

LEMMA MoreRuns ==
  ASSUME NEW c, NEW d, NEW r, NEW n \in Nat, DbGood(d, n), ReservesGood(c, d, r, n)
  PROVE  DbGood(d, n + 1) /\ ReservesGood(c, d, r, n + 1)
<1>1. \A k \in 1..n : k \in 1..(n + 1)
  OBVIOUS
<1>2. DbGood(d, n + 1)
  BY <1>1 DEF DbGood
<1>3. \A a, id, s : AddressGood(a, id, s, d, n) => AddressGood(a, id, s, d, n + 1)
  BY <1>1 DEF AddressGood
<1> QED BY <1>2, <1>3 DEF ReservesGood

LEMMA ReserveInvInit == ReserveSetupInit => ReserveIInv
<1> SUFFICES ASSUME ReserveSetupInit PROVE ReserveIInv
  OBVIOUS
<1> DEFINE c == Markets[market]
<1>1. << >> \in Seq({}) /\ DOMAIN << >> = {}
  OBVIOUS
<1>2. running = NoHelper /\ running.helper = "none" /\ running.steps = << >> /\ helperRuns \in Nat
  BY DEF ReserveSetupInit, NoHelper
<1>3. Runs(running, "none", << >>)
  BY <1>2 DEF Runs, NoHelper
<1>4. DbGood(db, helperRuns) /\ ReservesGood(c, db, reserves, helperRuns)
  BY <1>1 DEF ReserveSetupInit, DbGood, ReservesGood, OneRun
<1>5. PlanGood(c, db, reserves, configured, rates, poolAdmin, oracleOwner, "none", << >>, helperRuns)
  BY <1>1 DEF PlanGood, IsSeq
<1>6. OutcomesGood(c, reserves, configured, rates, outcome)
  BY DEF ReserveSetupInit, OutcomesGood, Helpers
<1>7. RolesGood(outcome, poolAdmin, oracleOwner, "none")
  BY DEF ReserveSetupInit, RolesGood, Admin, Helper
<1>8. market \in DOMAIN Markets
  BY DEF ReserveSetupInit
<1> QED BY <1>2, <1>3, <1>4, <1>5, <1>6, <1>7, <1>8 DEF ReserveIInv, SetupGood

LEMMA RunHelperKeeps == ReserveIInv /\ (\E h \in Helpers : RunHelper(h)) => ReserveIInv'
<1> SUFFICES ASSUME ReserveIInv, NEW h \in Helpers, RunHelper(h) PROVE ReserveIInv'
  OBVIOUS
<1> DEFINE c == Markets[market]
           n == helperRuns
           q == StepsOf(h, helperRuns + 1)
<1>1. /\ market \in DOMAIN Markets /\ n \in Nat /\ DbGood(db, n) /\ ReservesGood(c, db, reserves, n)
      /\ OutcomesGood(c, reserves, configured, rates, outcome)
      /\ RolesGood(outcome, poolAdmin, oracleOwner, running.helper)
  BY DEF ReserveIInv, SetupGood
<1>2. /\ running = NoHelper /\ helperRuns' = n + 1
      /\ running' = IF q = << >> THEN NoHelper ELSE [helper |-> h, steps |-> q]
      /\ UNCHANGED <<market, db, reserves, configured, poolAdmin, oracleOwner, rates, outcome>>
  BY DEF RunHelper
<1>3. DbGood(db, n + 1) /\ ReservesGood(c, db, reserves, n + 1)
  <2> HIDE DEF c, n
  <2> QED BY <1>1, MoreRuns
<1>4. RolesGood(outcome, poolAdmin, oracleOwner, "none")
  BY <1>1, <1>2 DEF NoHelper
\* Nothing to send.
<1>5. CASE q = << >>
  <2>1. running' = NoHelper
    BY <1>2, <1>5
  <2>2. running'.helper = "none" /\ running'.steps = << >> /\ Runs(running', "none", << >>)
    BY <2>1 DEF NoHelper, Runs
  <2>3. IsSeq(<< >>)
    <3>1. << >> \in Seq({})
      OBVIOUS
    <3> QED BY <3>1 DEF IsSeq
  <2>4. PlanGood(c, db, reserves, configured, rates, poolAdmin, oracleOwner, "none", << >>, n + 1)
    BY <2>3 DEF PlanGood
  <2>5. SetupGood(c, db, reserves, configured, rates, poolAdmin, oracleOwner, "none", << >>, outcome, n + 1)
    BY <1>1, <1>3, <1>4, <2>4 DEF SetupGood
  <2> QED BY <1>1, <1>2, <2>2, <2>5 DEF ReserveIInv
<1>6. CASE q # << >>
  <2>1. PlanGood(c, db, reserves, configured, rates, poolAdmin, oracleOwner, h, q, n + 1)
    <3>1. h = "initReserves" => IsSeq(q) /\ InitPlan(c, reserves, q, n + 1)
      BY <1>1, InitPlanned DEF StepsOf
    <3>2. h = "initTokenReserves" => IsSeq(q) /\ TokenPlan(c, db, reserves, q, n + 1)
      BY <1>1, TokenPlanned DEF StepsOf
    <3>3. h = "configureReserves" => IsSeq(q) /\ ConfigurePlan(c, configured, q, poolAdmin)
      BY <1>1, <1>6, ConfigurePlanned DEF StepsOf
    <3>4. h = "setMarketRates" => IsSeq(q) /\ RatesPlan(c, rates, q, oracleOwner)
      BY <1>1, RatesPlanned DEF StepsOf
    <3>5. n + 1 # 0 /\ h \in {"initReserves", "initTokenReserves", "configureReserves", "setMarketRates"}
      BY <1>1 DEF Helpers
    <3> HIDE DEF q, c, n
    <3> QED BY <3>1, <3>2, <3>3, <3>4, <3>5 DEF PlanGood
  <2> HIDE DEF q
  <2>2. RolesGood(outcome, poolAdmin, oracleOwner, h)
    BY <1>4 DEF RolesGood
  <2>3. running' = [helper |-> h, steps |-> q]
    BY <1>2, <1>6
  <2>4. running'.helper = h /\ running'.steps = q
    BY <2>3
  <2>5. SetupGood(c, db, reserves, configured, rates, poolAdmin, oracleOwner, h, q, outcome, n + 1)
    BY <1>1, <1>3, <2>1, <2>2 DEF SetupGood
  <2>6. Runs(running', h, q)
    BY <2>3 DEF Runs
  <2> QED BY <1>1, <1>2, <2>4, <2>5, <2>6 DEF ReserveIInv
<1> QED BY <1>5, <1>6

\* What a transaction finds, and leaves to send.
Before(c, h, q, n) ==
  /\ market \in DOMAIN Markets /\ c = Markets[market] /\ n = helperRuns
  /\ h = running.helper /\ h \in Helpers /\ q = running.steps
  /\ SetupGood(c, db, reserves, configured, rates, poolAdmin, oracleOwner, h, q, outcome, n)

LEMMA SendingIs ==
  ASSUME ReserveIInv, Sending
  PROVE  /\ Before(Markets[market], running.helper, running.steps, helperRuns)
         /\ running = [helper |-> running.helper, steps |-> running.steps]
         /\ Rest(Tail(running.steps), running.steps)
<1>1. running.steps # << >>
  BY DEF Sending
<1>2. running # NoHelper
  BY <1>1 DEF NoHelper
<1>3. IsSeq(running.steps)
  BY DEF ReserveIInv, SetupGood, PlanGood
<1>4. running.helper \in Helpers /\ running = [helper |-> running.helper, steps |-> running.steps]
  BY <1>2 DEF ReserveIInv, Runs
<1>5. Rest(Tail(running.steps), running.steps)
  BY <1>1, <1>3, RestIs
<1> QED BY <1>4, <1>5 DEF ReserveIInv, Before

LEMMA TransactIs ==
  ASSUME ReserveIInv, NEW call, Transact(call)
  PROVE  \E c, h, q, n, t :
           /\ Before(c, h, q, n) /\ Rest(t, q) /\ Step = q[1] /\ q[1].call = call
           /\ running' = [helper |-> h, steps |-> t] /\ outcome' = outcome /\ helperRuns' = n
           /\ NotInitialized
<1> DEFINE h == running.helper
           q == running.steps
<1>1. Sending /\ Step.call = call /\ TxAccepted /\ running' = [running EXCEPT !.steps = Tail(running.steps)]
      /\ outcome' = outcome /\ helperRuns' = helperRuns
  BY DEF Transact
<1>2. /\ Before(Markets[market], h, q, helperRuns) /\ running = [helper |-> h, steps |-> q]
      /\ Rest(Tail(q), q)
  BY <1>1, SendingIs
<1>3. Step = q[1]
  BY <1>2 DEF Step, Rest
<1>4. running' = [helper |-> h, steps |-> Tail(q)]
  BY <1>1, <1>2
<1>5. NotInitialized
  BY <1>1 DEF TxAccepted
<1> QED BY <1>1, <1>2, <1>3, <1>4, <1>5

LEMMA AfterIs ==
  ASSUME NEW c, NEW h \in Helpers, NEW t, NEW n, market' \in DOMAIN Markets, c = Markets[market'],
         running' = [helper |-> h, steps |-> t], helperRuns' = n,
         SetupGood(c, db', reserves', configured', rates', poolAdmin', oracleOwner', h, t, outcome', n)
  PROVE  ReserveIInv'
<1>1. running'.helper = h /\ running'.steps = t
  OBVIOUS
<1>2. Runs(running', h, t)
  BY DEF Runs
<1> QED BY <1>1, <1>2 DEF ReserveIInv

LEMMA DeployStep == ReserveIInv /\ Deploy => ReserveIInv'
<1> SUFFICES ASSUME ReserveIInv, Deploy PROVE ReserveIInv'
  OBVIOUS
<1>1. PICK c, h, q, n, t :
        /\ Before(c, h, q, n) /\ Rest(t, q) /\ Step = q[1] /\ q[1].call = "deploy"
        /\ running' = [helper |-> h, steps |-> t] /\ outcome' = outcome /\ helperRuns' = n
        /\ NotInitialized
  BY TransactIs DEF Deploy
<1>2. /\ market \in DOMAIN Markets /\ c = Markets[market] /\ h \in Helpers /\ n \in Nat
      /\ DbGood(db, n) /\ ReservesGood(c, db, reserves, n)
      /\ PlanGood(c, db, reserves, configured, rates, poolAdmin, oracleOwner, h, q, n)
      /\ OutcomesGood(c, reserves, configured, rates, outcome)
      /\ RolesGood(outcome, poolAdmin, oracleOwner, h)
  BY <1>1 DEF Before, SetupGood
<1>3. 1 \in DOMAIN q /\ IsSeq(t)
  BY <1>1 DEF Rest
<1>4. h = "initReserves"
  BY <1>1, <1>2, <1>3, CallOf
<1>5. n # 0 /\ InitPlan(c, reserves, q, n)
  BY <1>2, <1>4 DEF PlanGood
<1>6. DeployedFor(db', db, q[1].arg, n)
  BY <1>1 DEF Deploy, DeployedFor, Before
<1>7. DbGood(db', n) /\ ReservesGood(c, db', reserves, n) /\ InitPlan(c, reserves, t, n)
  BY <1>1, <1>2, <1>5, <1>6, DeployKeeps
<1>8. PlanGood(c, db', reserves, configured, rates, poolAdmin, oracleOwner, h, t, n)
  BY <1>3, <1>4, <1>5, <1>7 DEF PlanGood
<1>9. SetupGood(c, db', reserves, configured, rates, poolAdmin, oracleOwner, h, t, outcome, n)
  BY <1>2, <1>7, <1>8 DEF SetupGood
<1>10. UNCHANGED <<market, reserves, configured, poolAdmin, oracleOwner, rates>>
  BY DEF Deploy
<1> QED BY <1>1, <1>2, <1>9, <1>10, AfterIs

LEMMA BatchStep == ReserveIInv /\ BatchInitReserve => ReserveIInv'
<1> SUFFICES ASSUME ReserveIInv, BatchInitReserve PROVE ReserveIInv'
  OBVIOUS
<1>1. PICK c, h, q, n, t :
        /\ Before(c, h, q, n) /\ Rest(t, q) /\ Step = q[1] /\ q[1].call = "batchInitReserve"
        /\ running' = [helper |-> h, steps |-> t] /\ outcome' = outcome /\ helperRuns' = n
        /\ NotInitialized
  BY TransactIs DEF BatchInitReserve
<1>2. /\ market \in DOMAIN Markets /\ c = Markets[market] /\ h \in Helpers /\ n \in Nat
      /\ DbGood(db, n) /\ ReservesGood(c, db, reserves, n)
      /\ PlanGood(c, db, reserves, configured, rates, poolAdmin, oracleOwner, h, q, n)
      /\ OutcomesGood(c, reserves, configured, rates, outcome)
      /\ RolesGood(outcome, poolAdmin, oracleOwner, h)
  BY <1>1 DEF Before, SetupGood
<1>3. 1 \in DOMAIN q /\ IsSeq(t)
  BY <1>1 DEF Rest
<1>4. h \in {"initReserves", "initTokenReserves"} /\ Initializes(q[1])
  BY <1>1, <1>2, <1>3, CallOf DEF Initializes
<1>5. SymbolsOf(q[1].arg) \cap DOMAIN reserves = {}
  BY <1>1 DEF NotInitialized
<1>6. Initialized(reserves', reserves, q[1].arg)
  BY <1>1 DEF BatchInitReserve, Initialized
<1>7. "pool" \notin ToSet(c.symbols)
  BY <1>2, MarketsAre DEF IsMarket
<1>8. /\ ReservesGood(c, db, reserves', n)
      /\ PlanGood(c, db, reserves', configured, rates, poolAdmin, oracleOwner, h, t, n)
  <2>1. CASE h = "initReserves"
    <3>1. n # 0 /\ InitPlan(c, reserves, q, n)
      BY <1>2, <2>1 DEF PlanGood
    <3>2. ReservesGood(c, db, reserves', n) /\ InitPlan(c, reserves', t, n)
      BY <1>1, <1>2, <1>4, <1>5, <1>6, <3>1, PoolBatchKeeps
    <3> QED BY <1>3, <2>1, <3>1, <3>2 DEF PlanGood
  <2>2. CASE h = "initTokenReserves"
    <3>1. n # 0 /\ TokenPlan(c, db, reserves, q, n)
      BY <1>2, <2>2 DEF PlanGood
    <3>2. ReservesGood(c, db, reserves', n) /\ TokenPlan(c, db, reserves', t, n)
      BY <1>1, <1>2, <1>6, <1>7, <3>1, TokenBatchKeeps
    <3> QED BY <1>3, <2>2, <3>1, <3>2 DEF PlanGood
  <2> QED BY <1>4, <2>1, <2>2
<1>9. OutcomesGood(c, reserves', configured, rates, outcome)
  <2>1. DOMAIN reserves \subseteq DOMAIN reserves'
    <3>1. Extends(reserves', reserves, q[1].arg)
      BY <1>6, InitializedIs
    <3> QED BY <3>1 DEF Extends
  <2> QED BY <1>2, <2>1 DEF OutcomesGood
<1>10. SetupGood(c, db, reserves', configured, rates, poolAdmin, oracleOwner, h, t, outcome, n)
  BY <1>2, <1>8, <1>9 DEF SetupGood
<1>11. UNCHANGED <<market, db, configured, poolAdmin, oracleOwner, rates>>
  BY DEF BatchInitReserve
<1> QED BY <1>1, <1>2, <1>10, <1>11, AfterIs

LEMMA SetPoolAdminStep == ReserveIInv /\ SetPoolAdmin => ReserveIInv'
<1> SUFFICES ASSUME ReserveIInv, SetPoolAdmin PROVE ReserveIInv'
  OBVIOUS
<1>1. PICK c, h, q, n, t :
        /\ Before(c, h, q, n) /\ Rest(t, q) /\ Step = q[1] /\ q[1].call = "setPoolAdmin"
        /\ running' = [helper |-> h, steps |-> t] /\ outcome' = outcome /\ helperRuns' = n
        /\ NotInitialized
  BY TransactIs DEF SetPoolAdmin
<1>2. /\ market \in DOMAIN Markets /\ c = Markets[market] /\ h \in Helpers /\ n \in Nat
      /\ DbGood(db, n) /\ ReservesGood(c, db, reserves, n)
      /\ PlanGood(c, db, reserves, configured, rates, poolAdmin, oracleOwner, h, q, n)
      /\ OutcomesGood(c, reserves, configured, rates, outcome)
      /\ RolesGood(outcome, poolAdmin, oracleOwner, h)
  BY <1>1 DEF Before, SetupGood
<1>3. 1 \in DOMAIN q /\ IsSeq(t)
  BY <1>1 DEF Rest
<1>4. h = "configureReserves"
  BY <1>1, <1>2, <1>3, CallOf
<1>5. poolAdmin' = q[1].arg /\ UNCHANGED <<market, db, reserves, configured, oracleOwner, rates>>
  BY <1>1 DEF SetPoolAdmin
<1>6. ConfigurePlan(c, configured, t, poolAdmin')
  <2>1. ConfigurePlan(c, configured, q, poolAdmin)
    BY <1>2, <1>4 DEF PlanGood
  <2> QED BY <1>1, <1>5, <2>1, ConfigureKeeps
<1>7. PlanGood(c, db, reserves, configured, rates, poolAdmin', oracleOwner, h, t, n)
  BY <1>3, <1>4, <1>6 DEF PlanGood
<1>8. RolesGood(outcome, poolAdmin', oracleOwner, h)
  BY <1>2, <1>4 DEF RolesGood
<1>9. SetupGood(c, db, reserves, configured, rates, poolAdmin', oracleOwner, h, t, outcome, n)
  BY <1>2, <1>7, <1>8 DEF SetupGood
<1> QED BY <1>1, <1>2, <1>5, <1>9, AfterIs

LEMMA ConfigureStep == ReserveIInv /\ ConfigureReserves => ReserveIInv'
<1> SUFFICES ASSUME ReserveIInv, ConfigureReserves PROVE ReserveIInv'
  OBVIOUS
<1>1. PICK c, h, q, n, t :
        /\ Before(c, h, q, n) /\ Rest(t, q) /\ Step = q[1] /\ q[1].call = "configureReserves"
        /\ running' = [helper |-> h, steps |-> t] /\ outcome' = outcome /\ helperRuns' = n
        /\ NotInitialized
  BY TransactIs DEF ConfigureReserves
<1>2. /\ market \in DOMAIN Markets /\ c = Markets[market] /\ h \in Helpers /\ n \in Nat
      /\ DbGood(db, n) /\ ReservesGood(c, db, reserves, n)
      /\ PlanGood(c, db, reserves, configured, rates, poolAdmin, oracleOwner, h, q, n)
      /\ OutcomesGood(c, reserves, configured, rates, outcome)
      /\ RolesGood(outcome, poolAdmin, oracleOwner, h)
  BY <1>1 DEF Before, SetupGood
<1>3. 1 \in DOMAIN q /\ IsSeq(t)
  BY <1>1 DEF Rest
<1>4. h = "configureReserves"
  BY <1>1, <1>2, <1>3, CallOf
<1>5. /\ configured' = configured \cup ToSet(q[1].arg)
      /\ UNCHANGED <<market, db, reserves, poolAdmin, oracleOwner, rates>>
  BY <1>1 DEF ConfigureReserves
<1>6. ToSet(q[1].arg) \subseteq Meant(c) /\ ConfigurePlan(c, configured', t, poolAdmin)
  <2>1. ConfigurePlan(c, configured, q, poolAdmin)
    BY <1>2, <1>4 DEF PlanGood
  <2> QED BY <1>1, <1>5, <2>1, ConfigureKeeps
<1>7. PlanGood(c, db, reserves, configured', rates, poolAdmin, oracleOwner, h, t, n)
  BY <1>3, <1>4, <1>6 DEF PlanGood
<1>8. RolesGood(outcome, poolAdmin, oracleOwner, h)
  BY <1>2, <1>4 DEF RolesGood
<1>9. OutcomesGood(c, reserves, configured', rates, outcome)
  BY <1>2, <1>5, <1>6 DEF OutcomesGood
<1>10. SetupGood(c, db, reserves, configured', rates, poolAdmin, oracleOwner, h, t, outcome, n)
  BY <1>2, <1>7, <1>8, <1>9 DEF SetupGood
<1> QED BY <1>1, <1>2, <1>5, <1>10, AfterIs

LEMMA RatesStep == ReserveIInv /\ SetOracleBorrowRates => ReserveIInv'
<1> SUFFICES ASSUME ReserveIInv, SetOracleBorrowRates PROVE ReserveIInv'
  OBVIOUS
<1>1. PICK c, h, q, n, t :
        /\ Before(c, h, q, n) /\ Rest(t, q) /\ Step = q[1] /\ q[1].call = "setOracleBorrowRates"
        /\ running' = [helper |-> h, steps |-> t] /\ outcome' = outcome /\ helperRuns' = n
        /\ NotInitialized
  BY TransactIs DEF SetOracleBorrowRates
<1>2. /\ market \in DOMAIN Markets /\ c = Markets[market] /\ h \in Helpers /\ n \in Nat
      /\ DbGood(db, n) /\ ReservesGood(c, db, reserves, n)
      /\ PlanGood(c, db, reserves, configured, rates, poolAdmin, oracleOwner, h, q, n)
      /\ OutcomesGood(c, reserves, configured, rates, outcome)
      /\ RolesGood(outcome, poolAdmin, oracleOwner, h)
  BY <1>1 DEF Before, SetupGood
<1>3. 1 \in DOMAIN q /\ IsSeq(t)
  BY <1>1 DEF Rest
<1>4. h = "setMarketRates"
  BY <1>1, <1>2, <1>3, CallOf
<1>5. /\ rates' = rates \cup ToSet(q[1].arg)
      /\ UNCHANGED <<market, db, reserves, configured, poolAdmin, oracleOwner>>
  BY <1>1 DEF SetOracleBorrowRates
<1>6. ToSet(q[1].arg) \subseteq ToSet(c.symbols) /\ RatesPlan(c, rates', t, oracleOwner)
  <2>1. RatesPlan(c, rates, q, oracleOwner)
    BY <1>2, <1>4 DEF PlanGood
  <2> QED BY <1>1, <1>5, <2>1, RatesKeep
<1>7. PlanGood(c, db, reserves, configured, rates', poolAdmin, oracleOwner, h, t, n)
  BY <1>3, <1>4, <1>6 DEF PlanGood
<1>8. OutcomesGood(c, reserves, configured, rates', outcome)
  BY <1>2, <1>5, <1>6 DEF OutcomesGood
<1>9. SetupGood(c, db, reserves, configured, rates', poolAdmin, oracleOwner, h, t, outcome, n)
  BY <1>2, <1>7, <1>8 DEF SetupGood
<1> QED BY <1>1, <1>2, <1>5, <1>9, AfterIs

LEMMA MoveOracleStep == ReserveIInv /\ MoveOracle => ReserveIInv'
<1> SUFFICES ASSUME ReserveIInv, MoveOracle PROVE ReserveIInv'
  OBVIOUS
<1>0. PICK call \in {"transferOwnership", "setOracleOwnership"} : Transact(call)
  BY DEF MoveOracle
<1>1. PICK c, h, q, n, t :
        /\ Before(c, h, q, n) /\ Rest(t, q) /\ Step = q[1] /\ q[1].call = call
        /\ running' = [helper |-> h, steps |-> t] /\ outcome' = outcome /\ helperRuns' = n
        /\ NotInitialized
  BY <1>0, TransactIs
<1>2. /\ market \in DOMAIN Markets /\ c = Markets[market] /\ h \in Helpers /\ n \in Nat
      /\ DbGood(db, n) /\ ReservesGood(c, db, reserves, n)
      /\ PlanGood(c, db, reserves, configured, rates, poolAdmin, oracleOwner, h, q, n)
      /\ OutcomesGood(c, reserves, configured, rates, outcome)
      /\ RolesGood(outcome, poolAdmin, oracleOwner, h)
  BY <1>1 DEF Before, SetupGood
<1>3. 1 \in DOMAIN q /\ IsSeq(t)
  BY <1>1 DEF Rest
<1>4. h = "setMarketRates"
  BY <1>0, <1>1, <1>2, <1>3, CallOf
<1>5. oracleOwner' = q[1].arg /\ UNCHANGED <<market, db, reserves, configured, poolAdmin, rates>>
  BY <1>1 DEF MoveOracle
<1>6. RatesPlan(c, rates, t, oracleOwner')
  <2>1. RatesPlan(c, rates, q, oracleOwner)
    BY <1>2, <1>4 DEF PlanGood
  <2> QED BY <1>0, <1>1, <1>5, <2>1, RatesKeep
<1>7. PlanGood(c, db, reserves, configured, rates, poolAdmin, oracleOwner', h, t, n)
  BY <1>3, <1>4, <1>6 DEF PlanGood
<1>8. RolesGood(outcome, poolAdmin, oracleOwner', h)
  BY <1>2, <1>4 DEF RolesGood
<1>9. SetupGood(c, db, reserves, configured, rates, poolAdmin, oracleOwner', h, t, outcome, n)
  BY <1>2, <1>7, <1>8 DEF SetupGood
<1> QED BY <1>1, <1>2, <1>5, <1>9, AfterIs

\* However a run ends.
LEMMA EndKeeps ==
  ASSUME ReserveIInv, running.helper \in Helpers, Unmoved, NEW how, EndRun(how),
         OutcomesGood(Markets[market], reserves, configured, rates, outcome'),
         RolesGood(outcome', poolAdmin, oracleOwner, "none")
  PROVE  ReserveIInv'
<1> DEFINE c == Markets[market]
<1>1. /\ market \in DOMAIN Markets /\ helperRuns \in Nat
      /\ DbGood(db, helperRuns) /\ ReservesGood(c, db, reserves, helperRuns)
  BY DEF ReserveIInv, SetupGood
<1>2. /\ running' = NoHelper
      /\ UNCHANGED <<market, db, reserves, configured, poolAdmin, oracleOwner, rates, helperRuns>>
  BY DEF EndRun, Unmoved
<1>3. IsSeq(<< >>)
  <2>1. << >> \in Seq({})
    OBVIOUS
  <2> QED BY <2>1 DEF IsSeq
<1>4. PlanGood(c, db, reserves, configured, rates, poolAdmin, oracleOwner, "none", << >>, helperRuns)
  BY <1>3 DEF PlanGood
<1>5. SetupGood(c, db, reserves, configured, rates, poolAdmin, oracleOwner, "none", << >>, outcome', helperRuns)
  BY <1>1, <1>4 DEF SetupGood
<1>6. running'.helper = "none" /\ running'.steps = << >> /\ Runs(running', "none", << >>)
  BY <1>2 DEF NoHelper, Runs
<1> QED BY <1>1, <1>2, <1>5, <1>6 DEF ReserveIInv

\* What the end of a run finds.
LEMMA EndIs ==
  ASSUME ReserveIInv, running.helper \in Helpers, NEW how, EndRun(how)
  PROVE  LET c == Markets[market]
             h == running.helper
         IN /\ PlanGood(c, db, reserves, configured, rates, poolAdmin, oracleOwner, h, running.steps, helperRuns)
            /\ OutcomesGood(c, reserves, configured, rates, outcome)
            /\ RolesGood(outcome, poolAdmin, oracleOwner, h)
            /\ DOMAIN outcome' = Helpers
            /\ \A k \in Helpers : outcome'[k] = IF k = h THEN how ELSE outcome[k]
<1>1. DOMAIN outcome = Helpers
  BY DEF ReserveIInv, SetupGood, OutcomesGood
<1>2. outcome' = [outcome EXCEPT ![running.helper] = how]
  BY DEF EndRun
<1>3. DOMAIN outcome' = Helpers /\ \A k \in Helpers : outcome'[k] = IF k = running.helper THEN how ELSE outcome[k]
  BY <1>1, <1>2
<1> QED BY <1>3 DEF ReserveIInv, SetupGood

LEMMA HelpersAre ==
  Helpers = {"initReserves", "initTokenReserves", "configureReserves", "setMarketRates"}
BY DEF Helpers

LEMMA FinishStep == ReserveIInv /\ Finish => ReserveIInv'
<1> SUFFICES ASSUME ReserveIInv, Finish PROVE ReserveIInv'
  OBVIOUS
<1> DEFINE c == Markets[market]
           h == running.helper
<1>1. running.steps = << >> /\ EndRun("done") /\ Unmoved /\ h \in Helpers
  BY DEF Finish, Sending, ReserveIInv, Runs
<1>2. /\ PlanGood(c, db, reserves, configured, rates, poolAdmin, oracleOwner, h, << >>, helperRuns)
      /\ OutcomesGood(c, reserves, configured, rates, outcome)
      /\ RolesGood(outcome, poolAdmin, oracleOwner, h)
      /\ DOMAIN outcome' = Helpers
      /\ \A k \in Helpers : outcome'[k] = IF k = h THEN "done" ELSE outcome[k]
  BY <1>1, EndIs
<1>3. DOMAIN << >> = {}
  OBVIOUS
<1>4. /\ h \in {"initReserves", "initTokenReserves"} => ToSet(c.symbols) \subseteq DOMAIN reserves
      /\ h = "configureReserves" => /\ Meant(c) \subseteq configured
                                    /\ poolAdmin = Admin
      /\ h = "setMarketRates" => ToSet(c.symbols) \subseteq rates /\ oracleOwner = Admin
  BY <1>2, <1>3 DEF PlanGood, InitPlan, TokenPlan, ConfigurePlan, RatesPlan, Covered
<1> HIDE DEF c, h
<1>5. OutcomesGood(c, reserves, configured, rates, outcome')
  BY <1>1, <1>2, <1>4, HelpersAre DEF OutcomesGood
<1>6. RolesGood(outcome', poolAdmin, oracleOwner, "none")
  <2>1. Admin # Helper
    BY DEF Admin, Helper
  <2> QED BY <1>1, <1>2, <1>4, <2>1, HelpersAre DEF RolesGood
<1> QED BY <1>1, <1>5, <1>6, EndKeeps DEF c, h

LEMMA InterruptStep == ReserveIInv /\ Interrupt => ReserveIInv'
<1> SUFFICES ASSUME ReserveIInv, Interrupt PROVE ReserveIInv'
  OBVIOUS
<1> DEFINE c == Markets[market]
           h == running.helper
<1>1. EndRun("cut") /\ Unmoved /\ h \in Helpers
  BY SendingIs DEF Interrupt, Before
<1>2. /\ PlanGood(c, db, reserves, configured, rates, poolAdmin, oracleOwner, h, running.steps, helperRuns)
      /\ OutcomesGood(c, reserves, configured, rates, outcome)
      /\ RolesGood(outcome, poolAdmin, oracleOwner, h)
      /\ DOMAIN outcome' = Helpers
      /\ \A k \in Helpers : outcome'[k] = IF k = h THEN "cut" ELSE outcome[k]
  BY <1>1, EndIs
<1> HIDE DEF c, h
<1>3. OutcomesGood(c, reserves, configured, rates, outcome')
  BY <1>1, <1>2, HelpersAre DEF OutcomesGood
<1>4. RolesGood(outcome', poolAdmin, oracleOwner, "none")
  BY <1>1, <1>2, HelpersAre DEF RolesGood
<1> QED BY <1>1, <1>3, <1>4, EndKeeps DEF c, h

\* What is not accepted: chunks of initReservesByHelper, and calls without the role.
LEMMA RevertStep == ReserveIInv /\ Revert => ReserveIInv'
<1> SUFFICES ASSUME ReserveIInv, Revert PROVE ReserveIInv'
  OBVIOUS
<1> DEFINE c == Markets[market]
           h == running.helper
           q == running.steps
           how == IF HasRole THEN "reverted" ELSE "refused"
<1>1. Sending /\ ~TxAccepted /\ EndRun(how) /\ Unmoved
  BY DEF Revert
<1>2. h \in Helpers /\ Step = q[1] /\ 1 \in DOMAIN q
  BY <1>1, SendingIs DEF Before, Rest, Step
<1>3. /\ PlanGood(c, db, reserves, configured, rates, poolAdmin, oracleOwner, h, q, helperRuns)
      /\ OutcomesGood(c, reserves, configured, rates, outcome)
      /\ RolesGood(outcome, poolAdmin, oracleOwner, h)
      /\ DOMAIN outcome' = Helpers
      /\ \A k \in Helpers : outcome'[k] = IF k = h THEN how ELSE outcome[k]
  BY <1>1, <1>2, EndIs
<1>4. h \in {"initTokenReserves", "setMarketRates"} => how = "refused"
  <2>1. h = "initTokenReserves" => NotInitialized
    BY <1>2, <1>3 DEF PlanGood, TokenPlan, NotInitialized
  <2>2. h = "setMarketRates" => NotInitialized
    BY <1>2, <1>3 DEF PlanGood, RatesPlan, NotInitialized
  <2> QED BY <1>1, <2>1, <2>2 DEF TxAccepted
<1>5. h = "configureReserves" => poolAdmin # Helper
  <2> SUFFICES ASSUME h = "configureReserves" PROVE poolAdmin # Helper
    OBVIOUS
  <2>1. q[1].call \in {"setPoolAdmin", "configureReserves"}
    BY <1>2, <1>3 DEF PlanGood, ConfigurePlan
  <2>2. NotInitialized
    BY <1>2, <2>1 DEF NotInitialized
  <2>3. ~HasRole
    BY <1>1, <2>2 DEF TxAccepted
  <2> QED BY <1>2, <2>1, <2>3 DEF HasRole
<1>6. how \in {"reverted", "refused"}
  OBVIOUS
<1> HIDE DEF c, h, how, q
<1>7. OutcomesGood(c, reserves, configured, rates, outcome')
  BY <1>2, <1>3, <1>4, <1>6, HelpersAre DEF OutcomesGood
<1>8. RolesGood(outcome', poolAdmin, oracleOwner, "none")
  BY <1>2, <1>3, <1>4, <1>5, HelpersAre DEF RolesGood
<1> QED BY <1>1, <1>2, <1>7, <1>8, EndKeeps DEF c, h

LEMMA ReserveInvNext == ReserveIInv /\ [ReserveSetupNext]_reserveVars => ReserveIInv'
<1>1. ReserveIInv /\ UNCHANGED reserveVars => ReserveIInv'
  BY DEF ReserveIInv, reserveVars
<1> QED BY <1>1, RunHelperKeeps, DeployStep, BatchStep, SetPoolAdminStep, ConfigureStep, RatesStep, MoveOracleStep,
           FinishStep, RevertStep, InterruptStep DEF ReserveSetupNext

LEMMA ReserveInvHolds == ReserveSetupSpec => []ReserveIInv
BY ReserveInvInit, ReserveInvNext, PTL DEF ReserveSetupSpec

(***************************************************************************)
(* The roles are lent, and given back: between two runs a helper's contract *)
(* has one only if the last run that lent it, or tried to, was stopped: one *)
(* that ends by itself has given it back, whatever is then left to          *)
(* configure.  HandedBack, for every market and every sequence of runs.     *)
(***************************************************************************)
THEOREM RolesAreHandedBack == ReserveSetupSpec => []HandedBack
<1>1. ReserveIInv => HandedBack
  <2> SUFFICES ASSUME ReserveIInv, running = NoHelper PROVE HandedBack
    BY DEF HandedBack
  <2>1. RolesGood(outcome, poolAdmin, oracleOwner, "none")
    BY DEF ReserveIInv, SetupGood, NoHelper
  <2> QED BY <2>1 DEF HandedBack, RolesGood
<1> QED BY <1>1, ReserveInvHolds, PTL

(***************************************************************************)
(* Reserves are as their configuration says, whatever ran before and        *)
(* wherever it stopped.  ReservesAsConfigured, for every market, every size *)
(* of chunks and every sequence of runs.                                    *)
(***************************************************************************)
THEOREM ReservesSetUpAsConfigured == ReserveSetupSpec => []ReservesAsConfigured
<1>1. ReserveIInv => ReservesAsConfigured
  <2> SUFFICES ASSUME ReserveIInv PROVE ReservesAsConfigured
    OBVIOUS
  <2> DEFINE c == Markets[market]
             pooled == {t \in DOMAIN reserves : reserves[t].stableDebt.for = "pool"}
             debts == {reserves[s].stableDebt : s \in pooled}
             named(s) == [aToken |-> ATokenId(s), strategy |-> ReservesConfig[s].strategy]
  <2>1. /\ ReservesGood(c, db, reserves, helperRuns)
        /\ OutcomesGood(c, reserves, configured, rates, outcome)
    BY DEF ReserveIInv, SetupGood
  <2>2. Symbols = c.symbols /\ \A s : ATokenId(s) = TokenOf(c, s) /\ ReservesConfig[s].strategy = StrategyOf(c, s)
    BY DEF Symbols, ReservesConfig, ATokenId, TokenOf, StrategyOf
  <2>3. Meant(c) = {s \in ToSet(Symbols) : ReservesConfig[s].baseLTV # -1}
    BY DEF Meant, Symbols, ReservesConfig
  <2> HIDE DEF c
  <2>4. ASSUME NEW s \in DOMAIN reserves, NEW part \in DOMAIN named(s)
        PROVE  LET address == reserves[s][part] IN
               /\ address.what = named(s)[part]
               /\ \/ address.for = "pool"
                  \/ address.for = s /\ (named(s)[part] \notin DOMAIN db \/ db[named(s)[part]].run > address.run)
    <3>1. part \in {"aToken", "strategy"}
      OBVIOUS
    <3>2. named(s).aToken = TokenOf(c, s) /\ named(s).strategy = StrategyOf(c, s)
      BY <2>2
    <3>3. /\ AddressGood(reserves[s].aToken, TokenOf(c, s), s, db, helperRuns)
          /\ AddressGood(reserves[s].strategy, StrategyOf(c, s), s, db, helperRuns)
      BY <2>1 DEF ReservesGood
    <3> HIDE DEF named
    <3>4. CASE part = "aToken"
      BY <3>2, <3>3, <3>4 DEF AddressGood
    <3>5. CASE part = "strategy"
      BY <3>2, <3>3, <3>5 DEF AddressGood
    <3> QED BY <3>1, <3>4, <3>5
  <2>5. Cardinality(debts) <= 1
    <3>1. \A x, y \in debts : x = y
      BY <2>1 DEF ReservesGood, OneRun
    <3>2. CASE debts = {}
      BY <3>2, FS_EmptySet
    <3>3. CASE debts # {}
      <4>1. PICK x : x \in debts
        BY <3>3
      <4> HIDE DEF debts
      <4>2. debts = {x}
        BY <3>1, <4>1
      <4>3. Cardinality({x}) = 1
        BY FS_Singleton
      <4> QED BY <4>2, <4>3
    <3> QED BY <3>2, <3>3
  <2>6. outcome["initTokenReserves"] # "reverted"
    BY <2>1 DEF OutcomesGood
  <2>7. \A h \in {"initReserves", "initTokenReserves"} : outcome[h] = "done" => DOMAIN reserves = ToSet(Symbols)
    BY <2>1, <2>2 DEF OutcomesGood, ReservesGood
  <2>8. outcome["configureReserves"] = "done" => configured = {s \in ToSet(Symbols) : ReservesConfig[s].baseLTV # -1}
    BY <2>1, <2>3 DEF OutcomesGood
  <2>9. outcome["setMarketRates"] = "done" => rates = ToSet(Symbols)
    BY <2>1, <2>2 DEF OutcomesGood
  <2> QED BY <2>4, <2>5, <2>6, <2>7, <2>8, <2>9 DEF ReservesAsConfigured
<1> QED BY <1>1, ReserveInvHolds, PTL

(***************************************************************************)
(* The snapshot.  What is in a sequence, and that it is there once, when    *)
(* something is appended, joined or cut.                                    *)
(***************************************************************************)
LEMMA AppendIs ==
  ASSUME NEW S, NEW s \in Seq(S), NEW x \in S
  PROVE  /\ Append(s, x) \in Seq(S) /\ Len(Append(s, x)) = Len(s) + 1
         /\ \A i \in 1..Len(s) : Append(s, x)[i] = s[i]
         /\ Append(s, x)[Len(s) + 1] = x
         /\ Range(Append(s, x)) = Range(s) \cup {x}
         /\ IsInjective(s) /\ x \notin Range(s) => IsInjective(Append(s, x))
<1> DEFINE r == Append(s, x)
           n == Len(s)
<1>1. /\ n \in Nat /\ DOMAIN s = 1..n /\ DOMAIN r = 1..(n + 1) /\ r \in Seq(S) /\ Len(r) = n + 1
      /\ r[n + 1] = x /\ \A i \in 1..n : r[i] = s[i]
  OBVIOUS
<1> HIDE DEF r, n
<1>2. \A i \in 1..(n + 1) : i \in 1..n \/ i = n + 1
  BY <1>1
<1>3. \A i \in 1..n : i \in 1..(n + 1)
  BY <1>1
<1>4. n + 1 \in 1..(n + 1) /\ n + 1 \notin 1..n
  BY <1>1
<1>5. Range(r) = Range(s) \cup {x}
  <2>1. \A y \in Range(r) : y \in Range(s) \cup {x}
    BY <1>1, <1>2 DEF Range
  <2>2. \A y \in Range(s) \cup {x} : y \in Range(r)
    BY <1>1, <1>3, <1>4 DEF Range
  <2> QED BY <2>1, <2>2
<1>6. ASSUME IsInjective(s), x \notin Range(s) PROVE IsInjective(r)
  <2>1. \A a, b \in 1..n : s[a] = s[b] => a = b
    BY <1>1, <1>6 DEF IsInjective
  <2>2. \A a \in 1..n : s[a] # x
    BY <1>1, <1>6 DEF Range
  <2>3. ASSUME NEW a \in 1..(n + 1), NEW b \in 1..(n + 1), r[a] = r[b] PROVE a = b
    BY <1>1, <1>2, <2>1, <2>2, <2>3
  <2> QED BY <1>1, <2>3 DEF IsInjective
<1> QED BY <1>1, <1>5, <1>6 DEF r, n

LEMMA JoinHas ==
  ASSUME NEW s, NEW t, IsSeq(s), IsSeq(t)
  PROVE  /\ Range(s \o t) = Range(s) \cup Range(t)
         /\ IsInjective(s) /\ IsInjective(t) /\ Range(s) \cap Range(t) = {} => IsInjective(s \o t)
<1>1. PICK w : w = s \o t
  OBVIOUS
<1>2. Joined(w, s, t)
  BY <1>1, JoinIs
<1>3. PICK m, n : m = Len(s) /\ n = Len(t)
  OBVIOUS
<1>4. m \in Nat /\ n \in Nat /\ DOMAIN s = 1..m /\ DOMAIN t = 1..n /\ DOMAIN w = 1..(m + n)
  BY <1>2, <1>3, SeqIs DEF Joined
<1>5. (\A i \in 1..m : w[i] = s[i]) /\ (\A i \in 1..n : w[m + i] = t[i])
  BY <1>2, <1>3 DEF Joined
<1>6. ASSUME NEW i \in 1..(m + n), i \notin 1..m PROVE i - m \in 1..n /\ m + (i - m) = i /\ w[i] = t[i - m]
  <2>1. i - m \in 1..n /\ m + (i - m) = i
    BY <1>4, <1>6
  <2> QED BY <1>5, <2>1
<1>7. Range(w) = Range(s) \cup Range(t)
  <2>1. ASSUME NEW i \in 1..(m + n) PROVE w[i] \in Range(s) \cup Range(t)
    <3>1. CASE i \in 1..m
      BY <1>4, <1>5, <3>1 DEF Range
    <3>2. CASE i \notin 1..m
      BY <1>4, <1>6, <3>2 DEF Range
    <3> QED BY <3>1, <3>2
  <2>2. ASSUME NEW i \in 1..m PROVE s[i] \in Range(w)
    <3>1. i \in 1..(m + n)
      BY <1>4
    <3> QED BY <1>4, <1>5, <3>1 DEF Range
  <2>3. ASSUME NEW i \in 1..n PROVE t[i] \in Range(w)
    <3>1. m + i \in 1..(m + n)
      BY <1>4
    <3> QED BY <1>4, <1>5, <3>1 DEF Range
  <2>4. \A y \in Range(w) : y \in Range(s) \cup Range(t)
    BY <1>4, <2>1 DEF Range
  <2>5. \A y \in Range(s) \cup Range(t) : y \in Range(w)
    BY <1>4, <2>2, <2>3 DEF Range
  <2> QED BY <2>4, <2>5
<1>8. ASSUME IsInjective(s), IsInjective(t), Range(s) \cap Range(t) = {} PROVE IsInjective(w)
  <2>1. (\A a, b \in 1..m : s[a] = s[b] => a = b) /\ (\A a, b \in 1..n : t[a] = t[b] => a = b)
    BY <1>4, <1>8 DEF IsInjective
  <2>2. \A a \in 1..m, b \in 1..n : s[a] # t[b]
    BY <1>4, <1>8 DEF Range
  <2>3. ASSUME NEW a \in 1..(m + n), NEW b \in 1..(m + n), w[a] = w[b] PROVE a = b
    <3>1. CASE a \in 1..m /\ b \in 1..m
      BY <1>5, <2>1, <2>3, <3>1
    <3>2. CASE a \in 1..m /\ b \notin 1..m
      BY <1>5, <1>6, <2>2, <2>3, <3>2
    <3>3. CASE a \notin 1..m /\ b \in 1..m
      BY <1>5, <1>6, <2>2, <2>3, <3>3
    <3>4. CASE a \notin 1..m /\ b \notin 1..m
      <4>1. a - m = b - m
        BY <1>6, <2>1, <2>3, <3>4
      <4> QED BY <1>4, <1>6, <3>4, <4>1
    <3> QED BY <3>1, <3>2, <3>3, <3>4
  <2> QED BY <1>4, <2>3 DEF IsInjective
<1> QED BY <1>1, <1>7, <1>8

\* The first n elements and the rest.
CutAt(s, n, head, rest) == head = SubSeq(s, 1, n) /\ rest = SubSeq(s, n + 1, Len(s))
SplitOf(S, s, head, rest) ==
  /\ rest \in Seq(S)
  /\ Range(s) = Range(head) \cup Range(rest)
  /\ IsInjective(s) => IsInjective(rest) /\ Range(head) \cap Range(rest) = {}

LEMMA CutIs ==
  ASSUME NEW S, NEW s \in Seq(S), NEW n \in 0..Len(s), NEW head, NEW rest, CutAt(s, n, head, rest)
  PROVE  SplitOf(S, s, head, rest)
<1> USE DEF CutAt
<1>1. PICK m : m = Len(s)
  OBVIOUS
<1>2. m \in Nat /\ n \in 0..m /\ DOMAIN s = 1..m /\ n \in Nat /\ n <= m
  BY <1>1
<1>3. head \in Seq(S) /\ Len(head) = n /\ DOMAIN head = 1..n /\ \A i \in 1..n : head[i] = s[i]
  BY <1>1, <1>2
<1>4. /\ rest \in Seq(S) /\ Len(rest) = m - n /\ DOMAIN rest = 1..(m - n)
      /\ \A i \in 1..(m - n) : rest[i] = s[n + i]
  <2>1. \A i \in (n + 1)..m : s[i] \in S
    BY <1>1, <1>2
  <2>2. /\ rest \in Seq(S) /\ Len(rest) = IF n + 1 <= m THEN m - (n + 1) + 1 ELSE 0
        /\ \A i \in 1..(m - (n + 1) + 1) : rest[i] = s[n + 1 + i - 1]
    <3>1. n + 1 \in Int /\ m \in Int
      BY <1>2
    <3> QED BY <1>1, <2>1, <3>1, SubSeqProperties
  <2>3. Len(rest) = m - n
    BY <1>2, <2>2
  <2>4. m - (n + 1) + 1 = m - n /\ \A i \in 1..(m - n) : n + 1 + i - 1 = n + i
    BY <1>2
  <2>5. \A i \in 1..(m - n) : rest[i] = s[n + i]
    BY <2>2, <2>4
  <2>6. DOMAIN rest = 1..(m - n)
    BY <2>2, <2>3
  <2> QED BY <2>2, <2>3, <2>5, <2>6
<1>5. \A i \in 1..m : i \in 1..n \/ (i - n \in 1..(m - n) /\ n + (i - n) = i)
  BY <1>2
<1>6. (\A i \in 1..n : i \in 1..m) /\ (\A i \in 1..(m - n) : n + i \in 1..m)
  BY <1>2
<1>7. Range(s) = Range(head) \cup Range(rest)
  <2>1. ASSUME NEW i \in 1..m PROVE s[i] \in Range(head) \cup Range(rest)
    <3>1. CASE i \in 1..n
      BY <1>3, <3>1 DEF Range
    <3>2. CASE i - n \in 1..(m - n) /\ n + (i - n) = i
      <4>1. rest[i - n] = s[i]
        BY <1>4, <3>2
      <4> QED BY <1>4, <3>2, <4>1 DEF Range
    <3> QED BY <1>5, <3>1, <3>2
  <2>2. \A y \in Range(s) : y \in Range(head) \cup Range(rest)
    BY <1>2, <2>1 DEF Range
  <2>3. \A y \in Range(head) \cup Range(rest) : y \in Range(s)
    BY <1>2, <1>3, <1>4, <1>6 DEF Range
  <2> QED BY <2>2, <2>3
<1>8. ASSUME IsInjective(s) PROVE IsInjective(rest) /\ Range(head) \cap Range(rest) = {}
  <2>1. \A a, b \in 1..m : s[a] = s[b] => a = b
    BY <1>2, <1>8 DEF IsInjective
  <2>2. ASSUME NEW a \in 1..(m - n), NEW b \in 1..(m - n), rest[a] = rest[b] PROVE a = b
    <3>1. n + a = n + b
      BY <1>4, <1>6, <2>1, <2>2
    <3> QED BY <1>2, <3>1
  <2>3. ASSUME NEW a \in 1..n, NEW b \in 1..(m - n) PROVE head[a] # rest[b]
    <3>1. a # n + b
      BY <1>2
    <3> QED BY <1>3, <1>4, <1>6, <2>1, <3>1
  <2>4. IsInjective(rest)
    BY <1>4, <2>2 DEF IsInjective
  <2>5. Range(head) \cap Range(rest) = {}
    BY <1>3, <1>4, <2>3 DEF Range
  <2> QED BY <2>4, <2>5
<1> QED BY <1>4, <1>7, <1>8 DEF SplitOf

(***************************************************************************)
(* The questions: one for each place of each list, each once.               *)
(***************************************************************************)
IsFlat(f, s, n) == f = [i \in 1..n |-> IF i = 1 THEN s[i] ELSE f[i - 1] \o s[i]]

LEMMA FlatExists == ASSUME NEW s PROVE \A n \in Nat : \E f : IsFlat(f, s, n)
<1> DEFINE W == {n \in Nat : \E f : IsFlat(f, s, n)}
           V(f, i) == IF i = 1 THEN s[i] ELSE f[i - 1] \o s[i]
<1>1. 0 \in W
  <2> DEFINE f == [i \in 1..0 |-> 0]
  <2>1. f = [i \in 1..0 |-> V(f, i)]
    OBVIOUS
  <2>2. IsFlat(f, s, 0)
    BY <2>1 DEF IsFlat
  <2> QED BY <2>2
<1>2. ASSUME NEW n \in Nat, n \in W PROVE n + 1 \in W
  <2>1. PICK f : IsFlat(f, s, n)
    BY <1>2
  <2>2. \A i \in 1..n : f[i] = V(f, i)
    BY <2>1 DEF IsFlat
  <2> DEFINE m == n + 1
             g == [i \in 1..m |-> IF i = m THEN V(f, m) ELSE f[i]]
  <2>3. ASSUME NEW i \in 1..m PROVE g[i] = V(g, i)
    <3>1. CASE i = m
      <4>1. m # 1 => m - 1 \in 1..m /\ m - 1 # m
        OBVIOUS
      <4>2. (m # 1 => g[m - 1] = f[m - 1]) /\ g[m] = V(f, m)
        BY <3>1, <4>1
      <4> HIDE DEF g, m
      <4> QED BY <3>1, <4>2
    <3>2. CASE i # m
      <4>1. i \in 1..n /\ (i # 1 => i - 1 \in 1..m /\ i - 1 # m)
        BY <3>2
      <4>2. g[i] = f[i] /\ (i # 1 => g[i - 1] = f[i - 1])
        BY <3>2, <4>1
      <4> HIDE DEF g, m
      <4> QED BY <2>2, <4>1, <4>2
    <3> QED BY <3>1, <3>2
  <2>4. IsFlat(g, s, m)
    <3> DEFINE h == [i \in 1..m |-> V(g, i)]
    <3>1. g = [i \in 1..m |-> g[i]]
      OBVIOUS
    <3>2. \A i \in 1..m : g[i] = h[i]
      BY <2>3
    <3> HIDE DEF g
    <3>3. g = h
      BY <3>1, <3>2
    <3> QED BY <3>3 DEF IsFlat
  <2> QED BY <2>4
<1> HIDE DEF W
<1>3. Nat \subseteq W
  BY <1>1, <1>2, NaturalInduction
<1> QED BY <1>3 DEF W

\* The places of the lists of the first n communities, as long as the answers say.
AskedOf(lengths, n) == {s \in Communities \X Nat : \E i \in 1..n : s[1] = communityList[i] /\ s[2] \in 1..lengths[i]}
AsksFor(q, lengths, n) == q \in Seq(Communities \X Nat) /\ IsInjective(q) /\ Range(q) = AskedOf(lengths, n)

QuestionsTo(c, l, q) ==
  /\ q \in Seq(Communities \X Nat) /\ IsInjective(q)
  /\ Range(q) = {s \in Communities \X Nat : s[1] = c /\ s[2] \in 1..l}

LEMMA QuestionsOfOne ==
  ASSUME NEW c \in Communities, NEW l \in Nat, NEW q, q = [k \in 1..l |-> <<c, k>>]
  PROVE  QuestionsTo(c, l, q)
<1>1. DOMAIN q = 1..l /\ \A k \in 1..l : q[k] = <<c, k>>
  OBVIOUS
<1>2. q \in Seq(Communities \X Nat)
  <2>1. \A k \in 1..l : <<c, k>> \in Communities \X Nat
    OBVIOUS
  <2>2. q \in [1..l -> Communities \X Nat]
    BY <2>1
  <2> QED BY <2>2
<1>3. IsInjective(q)
  BY <1>1 DEF IsInjective
<1>4. Range(q) = {s \in Communities \X Nat : s[1] = c /\ s[2] \in 1..l}
  <2>1. ASSUME NEW k \in 1..l PROVE q[k] \in {s \in Communities \X Nat : s[1] = c /\ s[2] \in 1..l}
    BY <1>1
  <2>2. ASSUME NEW s \in Communities \X Nat, s[1] = c, s[2] \in 1..l PROVE s \in Range(q)
    <3>1. s = <<c, s[2]>>
      BY <2>2
    <3>2. q[s[2]] = s
      BY <1>1, <2>2, <3>1
    <3> QED BY <1>1, <2>2, <3>2 DEF Range
  <2>3. \A y \in Range(q) : y \in {s \in Communities \X Nat : s[1] = c /\ s[2] \in 1..l}
    BY <1>1, <2>1 DEF Range
  <2> QED BY <2>2, <2>3
<1> QED BY <1>2, <1>3, <1>4 DEF QuestionsTo

LEMMA QuestionsAre ==
  ASSUME NEW m \in Nat, NEW lengths \in [1..m -> Nat], Len(lengths) = m,
         communityList \in Seq(Communities), IsInjective(communityList), m <= Len(communityList)
  PROVE  AsksFor(Questions(lengths), lengths, m)
<1> DEFINE one(i) == [k \in 1..lengths[i] |-> <<communityList[i], k>>]
           s == [i \in DOMAIN lengths |-> one(i)]
<1>1. DOMAIN lengths = 1..m /\ DOMAIN s = 1..m /\ \A i \in 1..m : s[i] = one(i)
  OBVIOUS
<1>2. Len(s) = m
  <2>1. s = [i \in 1..m |-> s[i]]
    BY <1>1
  <2> HIDE DEF s
  <2> QED BY <2>1, IndexedIs
<1>3. ASSUME NEW i \in 1..m
      PROVE  /\ s[i] \in Seq(Communities \X Nat) /\ IsInjective(s[i])
             /\ Range(s[i]) = {x \in Communities \X Nat : x[1] = communityList[i] /\ x[2] \in 1..lengths[i]}
  <2>1. communityList[i] \in Communities /\ lengths[i] \in Nat
    OBVIOUS
  <2>2. s[i] = [k \in 1..lengths[i] |-> <<communityList[i], k>>]
    BY <1>1
  <2> HIDE DEF s
  <2>3. PICK c, l, q : c = communityList[i] /\ l = lengths[i] /\ q = s[i]
    OBVIOUS
  <2>4. QuestionsTo(c, l, q)
    BY <2>1, <2>2, <2>3, QuestionsOfOne
  <2> QED BY <2>3, <2>4 DEF QuestionsTo
<1>4. Questions(lengths) = FlattenSeq(s)
  BY DEF Questions
<1> HIDE DEF s
<1>5. CASE m = 0
  <2>1. Questions(lengths) = s /\ s = << >>
    <3>1. FlattenSeq(s) = s
      BY <1>2, <1>5 DEF FlattenSeq
    <3>2. s = << >>
      BY <1>1, <1>5
    <3> QED BY <1>4, <3>1, <3>2
  <2>2. << >> \in Seq(Communities \X Nat) /\ IsInjective(<< >>) /\ Range(<< >>) = {}
    BY DEF IsInjective, Range
  <2>3. AskedOf(lengths, m) = {}
    BY <1>5 DEF AskedOf
  <2> QED BY <2>1, <2>2, <2>3 DEF AsksFor
<1>6. CASE m > 0
  <2> DEFINE f == CHOOSE g : IsFlat(g, s, m)
             W == {n \in Nat : n + 1 <= m => AsksFor(f[n + 1], lengths, n + 1)}
  <2>1. IsFlat(f, s, m)
    BY FlatExists
  <2>2. Questions(lengths) = f[m]
    BY <1>2, <1>4, <1>6 DEF FlattenSeq, IsFlat
  <2> HIDE DEF f
  <2>3. \A i \in 1..m : f[i] = IF i = 1 THEN s[i] ELSE f[i - 1] \o s[i]
    BY <2>1 DEF IsFlat
  <2>4. 0 \in W
    <3>1. 1 \in 1..m
      BY <1>6
    <3>2. f[1] = s[1]
      BY <2>3, <3>1
    <3>3. AskedOf(lengths, 1) = {x \in Communities \X Nat : x[1] = communityList[1] /\ x[2] \in 1..lengths[1]}
      <4>1. \A i \in 1..1 : i = 1
        OBVIOUS
      <4>2. 1 \in 1..1
        OBVIOUS
      <4> QED BY <4>1, <4>2 DEF AskedOf
    <3>4. AsksFor(f[1], lengths, 1)
      BY <1>3, <3>1, <3>2, <3>3 DEF AsksFor
    <3> QED BY <3>4
  <2>5. ASSUME NEW j \in Nat, j \in W PROVE j + 1 \in W
    <3> SUFFICES ASSUME j + 1 + 1 <= m PROVE AsksFor(f[j + 1 + 1], lengths, j + 1 + 1)
      OBVIOUS
    <3>1. PICK i, h : i = j + 1 + 1 /\ h = j + 1
      OBVIOUS
    <3>2. /\ i \in 1..m /\ h \in 1..m /\ i # 1 /\ i - 1 = h /\ h + 1 = i
          /\ (\A k \in 1..i : k \in 1..h \/ k = i) /\ (\A k \in 1..h : k \in 1..i /\ k \in 1..m /\ k # i)
          /\ i \in 1..i
      BY <3>1
    <3>3. AsksFor(f[h], lengths, h)
      BY <2>5, <3>1
    <3>4. f[i] = f[h] \o s[i]
      BY <2>3, <3>2
    <3>5. AskedOf(lengths, i) = AskedOf(lengths, h) \cup Range(s[i])
      <4>1. ASSUME NEW x \in AskedOf(lengths, i) PROVE x \in AskedOf(lengths, h) \cup Range(s[i])
        <5>1. x \in Communities \X Nat
          BY DEF AskedOf
        <5>2. PICK k \in 1..i : x[1] = communityList[k] /\ x[2] \in 1..lengths[k]
          BY DEF AskedOf
        <5>3. CASE k \in 1..h
          BY <5>1, <5>2, <5>3 DEF AskedOf
        <5>4. CASE k = i
          BY <1>3, <3>2, <5>1, <5>2, <5>4
        <5> QED BY <3>2, <5>3, <5>4
      <4>2. \A x \in AskedOf(lengths, h) \cup Range(s[i]) : x \in AskedOf(lengths, i)
        BY <1>3, <3>2 DEF AskedOf
      <4> QED BY <4>1, <4>2
    <3>6. AskedOf(lengths, h) \cap Range(s[i]) = {}
      <4>1. \A k \in 1..h : communityList[k] # communityList[i]
        <5>1. \A k \in 1..h : k \in DOMAIN communityList /\ i \in DOMAIN communityList /\ k # i
          BY <3>2
        <5> QED BY <5>1 DEF IsInjective
      <4> QED BY <1>3, <3>2, <4>1 DEF AskedOf
    <3>7. IsSeq(f[h]) /\ IsSeq(s[i])
      BY <1>3, <3>2, <3>3 DEF AsksFor, IsSeq
    <3>8. /\ Range(f[i]) = Range(f[h]) \cup Range(s[i])
          /\ IsInjective(f[i])
      BY <1>3, <3>2, <3>3, <3>4, <3>6, <3>7, JoinHas DEF AsksFor
    <3>9. f[i] \in Seq(Communities \X Nat)
      BY <1>3, <3>2, <3>3, <3>4 DEF AsksFor
    <3>10. AsksFor(f[i], lengths, i)
      BY <3>3, <3>5, <3>8, <3>9 DEF AsksFor
    <3> QED BY <3>1, <3>10
  <2> HIDE DEF W
  <2>6. Nat \subseteq W
    BY <2>4, <2>5, NaturalInduction
  <2>7. m - 1 \in Nat /\ (m - 1) + 1 = m
    BY <1>6
  <2>8. AsksFor(f[(m - 1) + 1], lengths, (m - 1) + 1)
    <3>1. m - 1 \in W /\ (m - 1) + 1 <= m
      BY <2>6, <2>7
    <3> QED BY <3>1 DEF W
  <2> QED BY <2>2, <2>7, <2>8
<1> QED BY <1>5, <1>6

(***************************************************************************)
(* The invariant: what the chain is like, and in each phase of the script    *)
(* what it has found and whom it will still ask for.                         *)
(***************************************************************************)
ListsGood ==
  /\ communityList \in Seq(Communities) /\ IsInjective(communityList)
  /\ beneficiaryList \in [Communities -> Seq(People)]
  /\ \A c \in Communities : IsInjective(beneficiaryList[c])
States == {"NONE", "Valid", "Locked", "Removed", "AddressChanged"}
StatesGood ==
  /\ state \in [Communities -> [People -> States]]
  /\ \A c \in Communities : \A p \in Range(beneficiaryList[c]) : state[c][p] # "NONE"
HistoriesGood == steady \subseteq ValidNow /\ seen \subseteq Communities \X People

Shaped(x) ==
  x = [phase |-> x.phase, runs |-> x.runs, waiting |-> x.waiting, lengths |-> x.lengths,
       todo |-> x.todo, found |-> x.found]

\* getCommunities.ts: the first m communities were asked for, and some have come.
ListsCommunities(m, waiting, found) ==
  /\ m \in 0..Len(communityList)
  /\ waiting \subseteq 1..m
  /\ found \in Seq(Communities) /\ IsInjective(found)
  /\ Range(found) = {communityList[i] : i \in (1..m) \ waiting}
  /\ Len(found) + Cardinality(waiting) = m
HasListed(found) == Len(found) <= Len(communityList) /\ IsPrefixInSomeOrder(found, communityList)

\* getBeneficiaries.ts: whoever is steady is in the part of a list that was, or will be, told.
InLists(s, waiting, lengths) ==
  \E i \in DOMAIN lengths : /\ communityList[i] = s[1]
                            /\ i \in waiting \/ \E k \in 1..lengths[i] : beneficiaryList[s[1]][k] = s[2]
AsksLengths(waiting, lengths, found) ==
  /\ Len(lengths) \in 0..Len(communityList)
  /\ lengths \in [1..Len(lengths) -> Nat]
  /\ waiting \subseteq 1..Len(lengths)
  /\ found = << >>
  /\ \A i \in 1..Len(lengths) : lengths[i] <= Len(beneficiaryList[communityList[i]])
  /\ \A s \in steady : InLists(s, waiting, lengths)
  /\ ValidNow \subseteq seen

\* Whoever is still to be asked for, and whom it has been asked about.
Asks(pending, s) == \E k \in DOMAIN beneficiaryList[s[1]] : <<s[1], k>> \in pending /\ beneficiaryList[s[1]][k] = s[2]
SeenAs(p) == {s \in seen : s[2] = p}
Told(pending, p) == {s \in SeenAs(p) : ~Asks(pending, s)}
Copies(found, p) == {i \in DOMAIN found : found[i] = p}

AsksPeople(waiting, todo, found) ==
  /\ todo \in Seq(Communities \X Nat) /\ IsInjective(todo)
  /\ waiting \cap Range(todo) = {}
  /\ \A q \in waiting \cup Range(todo) :
       q \in Communities \X Nat /\ q[1] \in Range(communityList) /\ q[2] \in DOMAIN beneficiaryList[q[1]]
  /\ found \in Seq(People)
  /\ \A s \in steady : s[2] \in Range(found) \/ Asks(waiting \cup Range(todo), s)
  /\ \A p \in People : Cardinality(Copies(found, p)) <= Cardinality(Told(waiting \cup Range(todo), p))
  /\ ValidNow \subseteq seen

HasWritten(found) ==
  /\ found \in Seq(People)
  /\ \A s \in steady : s[2] \in Range(found)
  /\ \A p \in People : Cardinality(Copies(found, p)) <= Cardinality(SeenAs(p))

ScriptGood(x) ==
  /\ Shaped(x)
  /\ x.phase = "listing" => \E m \in Nat : ListsCommunities(m, x.waiting, x.found)
  /\ x.phase = "listed" => HasListed(x.found)
  /\ x.phase = "communities" => AsksLengths(x.waiting, x.lengths, x.found)
  /\ x.phase = "beneficiaries" => AsksPeople(x.waiting, x.todo, x.found)
  /\ x.phase = "written" => HasWritten(x.found)

SnapshotIInv == ListsGood /\ StatesGood /\ HistoriesGood /\ ScriptGood(script)

LEMMA SeenFinite ==
  ASSUME seen \subseteq Communities \X People, NEW p
  PROVE  /\ IsFiniteSet(SeenAs(p)) /\ Cardinality(SeenAs(p)) \in Nat
         /\ \A pending : IsFiniteSet(Told(pending, p)) /\ Cardinality(Told(pending, p)) <= Cardinality(SeenAs(p))
                         /\ Cardinality(Told(pending, p)) \in Nat
<1>1. IsFiniteSet(Communities \X People)
  BY SnapshotAssumption, FS_Product
<1>2. SeenAs(p) \subseteq Communities \X People
  BY DEF SeenAs
<1>3. IsFiniteSet(SeenAs(p)) /\ Cardinality(SeenAs(p)) \in Nat
  BY <1>1, <1>2, FS_Subset, FS_CardinalityType
<1>4. ASSUME NEW pending
      PROVE  IsFiniteSet(Told(pending, p)) /\ Cardinality(Told(pending, p)) <= Cardinality(SeenAs(p))
             /\ Cardinality(Told(pending, p)) \in Nat
  <2>1. Told(pending, p) \subseteq SeenAs(p)
    BY DEF Told
  <2> QED BY <1>3, <2>1, FS_Subset, FS_CardinalityType
<1> QED BY <1>3, <1>4

LEMMA SnapshotValid == SnapshotIInv => SnapshotTakesTheValid
<1> SUFFICES ASSUME SnapshotIInv PROVE SnapshotTakesTheValid
  OBVIOUS
<1>1. CASE script.phase = "written"
  <2>1. HasWritten(script.found)
    BY <1>1 DEF SnapshotIInv, ScriptGood
  <2>2. \A p \in Range(script.found) : p \in People
    BY <2>1 DEF HasWritten, Range
  <2> QED BY <1>1, <2>1, <2>2 DEF SnapshotTakesTheValid, HasWritten, Copies, SeenAs
<1>2. CASE script.phase = "listed"
  BY <1>2 DEF SnapshotIInv, ScriptGood, HasListed, SnapshotTakesTheValid
<1>3. CASE script.phase \notin {"written", "listed"}
  BY <1>3 DEF SnapshotTakesTheValid
<1> QED BY <1>1, <1>2, <1>3

LEMMA SnapshotInitial == SnapshotInit => SnapshotIInv
<1> SUFFICES ASSUME SnapshotInit PROVE SnapshotIInv
  OBVIOUS
<1>1. ListsGood
  BY SnapshotAssumption DEF SnapshotInit, ListsGood
<1>2. StatesGood
  <2>1. state \in [Communities -> [People -> States]]
    BY DEF SnapshotInit, States
  <2>2. \A c \in Communities : \A p \in Range(beneficiaryList[c]) : p \in People
    BY <1>1 DEF ListsGood, Range
  <2> QED BY <2>1, <2>2 DEF SnapshotInit, StatesGood
<1>3. HistoriesGood
  BY DEF SnapshotInit, HistoriesGood
<1>4. ScriptGood(script)
  BY DEF SnapshotInit, ScriptGood, NotStarted, Shaped
<1> QED BY <1>1, <1>2, <1>3, <1>4 DEF SnapshotIInv

(***************************************************************************)
(* The chain moves on: lists only grow, and so does what was seen.           *)
(***************************************************************************)
Longer(new, old) == Len(new) \in Nat /\ Len(old) <= Len(new) /\ \A i \in 1..Len(old) : new[i] = old[i]
MovesOn ==
  /\ ListsGood' /\ StatesGood'
  /\ Longer(communityList', communityList)
  /\ \A c \in Communities : Longer(beneficiaryList'[c], beneficiaryList[c])

LEMMA MovingKeeps ==
  ASSUME SnapshotIInv, MovesOn, Changed
  PROVE  SnapshotIInv'
<1>1. HistoriesGood'
  <2>1. ValidNow' \subseteq Communities \X People
    BY DEF ValidNow
  <2> QED BY <2>1 DEF Changed, HistoriesGood, SnapshotIInv
<1>2. steady' \subseteq steady /\ seen \subseteq seen' /\ ValidNow' \subseteq seen' /\ script' = script
  BY DEF Changed
<1>3. seen' \subseteq Communities \X People /\ seen \subseteq Communities \X People
  BY <1>1 DEF HistoriesGood, SnapshotIInv
<1>4. PICK n \in Nat : n = Len(communityList)
  BY DEF SnapshotIInv, ListsGood
<1>5. PICK l \in Nat : l = Len(communityList') /\ n <= l /\ \A i \in 1..n : communityList'[i] = communityList[i]
  BY <1>4 DEF MovesOn, Longer
<1>6. \A c \in Communities :
        /\ Len(beneficiaryList[c]) \in Nat /\ DOMAIN beneficiaryList[c] = 1..Len(beneficiaryList[c])
        /\ Len(beneficiaryList'[c]) \in Nat /\ DOMAIN beneficiaryList'[c] = 1..Len(beneficiaryList'[c])
        /\ Len(beneficiaryList[c]) <= Len(beneficiaryList'[c])
        /\ \A k \in DOMAIN beneficiaryList[c] : k \in DOMAIN beneficiaryList'[c] /\ beneficiaryList'[c][k] = beneficiaryList[c][k]
  <2> SUFFICES ASSUME NEW c \in Communities
      PROVE /\ Len(beneficiaryList[c]) \in Nat /\ DOMAIN beneficiaryList[c] = 1..Len(beneficiaryList[c])
            /\ Len(beneficiaryList'[c]) \in Nat /\ DOMAIN beneficiaryList'[c] = 1..Len(beneficiaryList'[c])
            /\ Len(beneficiaryList[c]) <= Len(beneficiaryList'[c])
            /\ \A k \in DOMAIN beneficiaryList[c] : k \in DOMAIN beneficiaryList'[c] /\ beneficiaryList'[c][k] = beneficiaryList[c][k]
    OBVIOUS
  <2>1. PICK a, b : a = beneficiaryList[c] /\ b = beneficiaryList'[c]
    OBVIOUS
  <2>2. a \in Seq(People) /\ b \in Seq(People) /\ Longer(b, a)
    BY <2>1 DEF MovesOn, ListsGood, SnapshotIInv
  <2>3. Len(a) \in Nat /\ Len(b) \in Nat /\ DOMAIN a = 1..Len(a) /\ DOMAIN b = 1..Len(b)
    BY <2>2
  <2>4. Len(a) <= Len(b) /\ \A k \in 1..Len(a) : k \in 1..Len(b) /\ b[k] = a[k]
    BY <2>2, <2>3 DEF Longer
  <2> QED BY <2>1, <2>3, <2>4
<1>7. \A c \in Range(communityList) : c \in Communities /\ c \in Range(communityList')
  <2>1. DOMAIN communityList = 1..n /\ DOMAIN communityList' = 1..l /\ \A i \in 1..n : communityList[i] \in Communities
    BY <1>4, <1>5 DEF MovesOn, ListsGood, SnapshotIInv
  <2>2. \A i \in 1..n : i \in 1..l
    BY <1>5
  <2> QED BY <1>5, <2>1, <2>2 DEF Range
<1>8. ScriptGood(script)
  BY DEF SnapshotIInv
<1> DEFINE x == script
<1>9. ASSUME NEW m \in Nat, ListsCommunities(m, x.waiting, x.found) PROVE ListsCommunities(m, x.waiting, x.found)'
  <2>1. m \in 0..n /\ x.waiting \subseteq 1..m /\ Range(x.found) = {communityList[i] : i \in (1..m) \ x.waiting}
    BY <1>4, <1>9 DEF ListsCommunities
  <2>2. m \in 0..l
    BY <1>5, <2>1
  <2>3. \A i \in 1..m : communityList'[i] = communityList[i]
    BY <1>5, <2>1
  <2>4. {communityList'[i] : i \in (1..m) \ x.waiting} = {communityList[i] : i \in (1..m) \ x.waiting}
    BY <2>3
  <2> QED BY <1>2, <1>5, <1>9, <2>1, <2>2, <2>4 DEF ListsCommunities
<1>10. ASSUME HasListed(x.found) PROVE HasListed(x.found)'
  <2>1. PICK r : r = x.found
    OBVIOUS
  <2>2. Len(r) <= n /\ IsInjective(r) /\ Range(r) = {communityList[i] : i \in 1..Len(r)}
    BY <1>4, <1>10, <2>1 DEF HasListed, IsPrefixInSomeOrder
  <2>3. \A i \in 1..Len(r) : communityList'[i] = communityList[i]
    BY <1>5, <2>2
  <2>4. {communityList'[i] : i \in 1..Len(r)} = {communityList[i] : i \in 1..Len(r)}
    BY <2>3
  <2>5. x.found' = r
    BY <1>2, <2>1
  <2>6. Len(r) <= l
    BY <1>5, <2>2
  <2> QED BY <1>5, <2>2, <2>4, <2>5, <2>6 DEF HasListed, IsPrefixInSomeOrder
<1>11. ASSUME AsksLengths(x.waiting, x.lengths, x.found) PROVE AsksLengths(x.waiting, x.lengths, x.found)'
  <2>1. PICK w, e : w = x.waiting /\ e = x.lengths
    OBVIOUS
  <2>2. x.waiting' = w /\ x.lengths' = e /\ x.found' = x.found
    BY <1>2, <2>1
  <2>3. /\ Len(e) \in 0..n /\ e \in [1..Len(e) -> Nat] /\ w \subseteq 1..Len(e) /\ x.found = << >>
        /\ \A i \in 1..Len(e) : e[i] <= Len(beneficiaryList[communityList[i]])
        /\ \A s \in steady : InLists(s, w, e)
    BY <1>4, <1>11, <2>1 DEF AsksLengths
  <2>4. Len(e) \in 0..l
    BY <1>5, <2>3
  <2>5. ASSUME NEW i \in 1..Len(e)
        PROVE  communityList[i] \in Communities /\ communityList'[i] = communityList[i] /\ e[i] \in Nat
    <3>1. i \in 1..n
      BY <2>3
    <3>2. communityList \in [1..n -> Communities]
      BY <1>4 DEF ListsGood, SnapshotIInv
    <3> QED BY <1>5, <2>3, <3>1, <3>2
  <2>6. \A i \in 1..Len(e) : e[i] <= Len(beneficiaryList'[communityList'[i]])
    BY <1>6, <2>3, <2>5
  <2>7. ASSUME NEW s \in steady' PROVE InLists(s, w, e)'
    <3>1. PICK i \in 1..Len(e) : /\ communityList[i] = s[1]
                                 /\ i \in w \/ \E k \in 1..e[i] : beneficiaryList[s[1]][k] = s[2]
      BY <1>2, <2>3 DEF InLists
    <3>2. communityList'[i] = s[1] /\ s[1] \in Communities /\ e[i] \in Nat /\ e[i] <= Len(beneficiaryList[s[1]])
      BY <2>3, <2>5, <3>1
    <3>3. CASE i \in w
      BY <2>3, <3>2, <3>3 DEF InLists
    <3>4. CASE \E k \in 1..e[i] : beneficiaryList[s[1]][k] = s[2]
      <4>1. PICK k \in 1..e[i] : beneficiaryList[s[1]][k] = s[2]
        BY <3>4
      <4>2. k \in DOMAIN beneficiaryList[s[1]]
        BY <1>6, <3>2
      <4>3. beneficiaryList'[s[1]][k] = s[2]
        BY <1>6, <3>2, <4>1, <4>2
      <4> QED BY <2>3, <3>2, <4>3 DEF InLists
    <3> QED BY <3>1, <3>3, <3>4
  <2> QED BY <1>2, <1>5, <2>2, <2>3, <2>4, <2>6, <2>7 DEF AsksLengths
<1>12. ASSUME AsksPeople(x.waiting, x.todo, x.found) PROVE AsksPeople(x.waiting, x.todo, x.found)'
  <2>1. PICK w, t, r, g : w = x.waiting /\ t = x.todo /\ r = x.found /\ g = w \cup Range(t)
    OBVIOUS
  <2>2. x.waiting' = w /\ x.todo' = t /\ x.found' = r
    BY <1>2, <2>1
  <2>3. /\ t \in Seq(Communities \X Nat) /\ IsInjective(t) /\ w \cap Range(t) = {} /\ r \in Seq(People)
        /\ \A q \in g : q \in Communities \X Nat /\ q[1] \in Range(communityList) /\ q[2] \in DOMAIN beneficiaryList[q[1]]
        /\ \A s \in steady : s[2] \in Range(r) \/ Asks(g, s)
        /\ \A p \in People : Cardinality(Copies(r, p)) <= Cardinality(Told(g, p))
    BY <1>12, <2>1 DEF AsksPeople
  <2>4. \A q \in g : q[1] \in Range(communityList') /\ q[2] \in DOMAIN beneficiaryList'[q[1]]
    BY <1>6, <1>7, <2>3
  <2>5. ASSUME NEW s \in Communities \X People PROVE Asks(g, s)' <=> Asks(g, s)
    <3>1. ASSUME NEW k \in DOMAIN beneficiaryList[s[1]], <<s[1], k>> \in g
          PROVE  k \in DOMAIN beneficiaryList'[s[1]] /\ beneficiaryList'[s[1]][k] = beneficiaryList[s[1]][k]
      BY <1>6
    <3>2. ASSUME NEW k, <<s[1], k>> \in g PROVE k \in DOMAIN beneficiaryList[s[1]]
      BY <2>3, <3>2
    <3> QED BY <3>1, <3>2 DEF Asks
  <2>6. \A s \in steady' : s[2] \in Range(r) \/ Asks(g, s)'
    <3>1. \A s \in steady' : s \in steady /\ s \in Communities \X People
      BY <1>1, <1>2 DEF HistoriesGood, ValidNow
    <3> QED BY <2>3, <2>5, <3>1
  <2>7. ASSUME NEW p \in People PROVE Cardinality(Copies(r, p)) <= Cardinality(Told(g, p))'
    <3>1. Told(g, p) \subseteq Told(g, p)'
      BY <1>2, <1>3, <2>5 DEF Told, SeenAs
    <3>2. IsFiniteSet(Told(g, p)') /\ Cardinality(Told(g, p)') \in Nat
      <4>1. IsFiniteSet(Communities \X People)
        BY SnapshotAssumption, FS_Product
      <4>2. Told(g, p)' \subseteq Communities \X People
        BY <1>3 DEF Told, SeenAs
      <4> QED BY <4>1, <4>2, FS_Subset, FS_CardinalityType
    <3>3. Cardinality(Told(g, p)) <= Cardinality(Told(g, p)')
      BY <3>1, <3>2, FS_Subset
    <3>4. IsFiniteSet(Copies(r, p)) /\ Cardinality(Copies(r, p)) \in Nat
      <4>1. Copies(r, p) \subseteq 1..Len(r) /\ Len(r) \in Nat
        BY <2>3 DEF Copies
      <4>2. IsFiniteSet(1..Len(r))
        BY <4>1, FS_Interval
      <4> QED BY <4>1, <4>2, FS_Subset, FS_CardinalityType
    <3>5. Cardinality(Told(g, p)) \in Nat
      BY <1>3, SeenFinite
    <3>6. Cardinality(Copies(r, p)) <= Cardinality(Told(g, p))
      BY <2>3
    <3> QED BY <3>2, <3>3, <3>4, <3>5, <3>6
  <2>8. /\ \A q \in w \cup Range(t) :
             q \in Communities \X Nat /\ q[1] \in Range(communityList') /\ q[2] \in DOMAIN beneficiaryList'[q[1]]
        /\ \A s \in steady' : s[2] \in Range(r) \/ Asks(w \cup Range(t), s)'
        /\ \A p \in People : Cardinality(Copies(r, p)) <= Cardinality(Told(w \cup Range(t), p))'
    BY <2>1, <2>3, <2>4, <2>6, <2>7
  <2> QED BY <1>2, <2>2, <2>3, <2>8 DEF AsksPeople, Copies
<1>13. ASSUME HasWritten(x.found) PROVE HasWritten(x.found)'
  <2>1. PICK r : r = x.found
    OBVIOUS
  <2>2. x.found' = r /\ r \in Seq(People)
    BY <1>2, <1>13, <2>1 DEF HasWritten
  <2>3. ASSUME NEW p \in People PROVE Cardinality(Copies(r, p)) <= Cardinality(SeenAs(p)')
    <3>1. SeenAs(p) \subseteq SeenAs(p)'
      BY <1>2 DEF SeenAs
    <3>2. IsFiniteSet(SeenAs(p)') /\ Cardinality(SeenAs(p)') \in Nat
      <4>1. IsFiniteSet(Communities \X People)
        BY SnapshotAssumption, FS_Product
      <4>2. SeenAs(p)' \subseteq Communities \X People
        BY <1>3 DEF SeenAs
      <4> QED BY <4>1, <4>2, FS_Subset, FS_CardinalityType
    <3>3. Cardinality(SeenAs(p)) <= Cardinality(SeenAs(p)') /\ Cardinality(SeenAs(p)) \in Nat
      BY <1>3, <3>1, <3>2, FS_Subset, SeenFinite
    <3>4. Cardinality(Copies(r, p)) \in Nat
      <4>1. Copies(r, p) \subseteq 1..Len(r) /\ Len(r) \in Nat
        BY <2>2 DEF Copies
      <4>2. IsFiniteSet(1..Len(r))
        BY <4>1, FS_Interval
      <4> QED BY <4>1, <4>2, FS_Subset, FS_CardinalityType
    <3>5. Cardinality(Copies(r, p)) <= Cardinality(SeenAs(p))
      BY <1>13, <2>1 DEF HasWritten
    <3> QED BY <3>2, <3>3, <3>4, <3>5
  <2>4. \A s \in steady' : s[2] \in Range(r)
    BY <1>2, <1>13, <2>1 DEF HasWritten
  <2> QED BY <2>2, <2>3, <2>4 DEF HasWritten, Copies
<1>14. ScriptGood(script)'
  BY <1>2, <1>8, <1>9, <1>10, <1>11, <1>12, <1>13 DEF ScriptGood, Shaped
<1> QED BY <1>1, <1>14 DEF SnapshotIInv, MovesOn

LEMMA SameIsLonger ==
  SnapshotIInv => /\ Longer(communityList, communityList)
                  /\ \A c \in Communities : Longer(beneficiaryList[c], beneficiaryList[c])
<1>1. \A S : \A s \in Seq(S) : Longer(s, s)
  BY DEF Longer
<1> QED BY <1>1 DEF SnapshotIInv, ListsGood

LEMMA AddCommunityKeeps ==
  ASSUME SnapshotIInv, NEW c \in Communities, AddCommunity(c) PROVE SnapshotIInv'
<1>1. c \notin Range(communityList) /\ communityList' = Append(communityList, c)
      /\ beneficiaryList' = beneficiaryList /\ state' = state /\ Changed
  BY DEF AddCommunity
<1>2. ListsGood'
  BY <1>1, AppendIs DEF ListsGood, SnapshotIInv
<1>3. Longer(communityList', communityList)
  BY <1>1, AppendIs DEF Longer, ListsGood, SnapshotIInv
<1>4. StatesGood'
  BY <1>1 DEF StatesGood, SnapshotIInv
<1>5. MovesOn
  BY <1>1, <1>2, <1>3, <1>4, SameIsLonger DEF MovesOn
<1> QED BY <1>1, <1>5, MovingKeeps

LEMMA JoinKeeps ==
  ASSUME SnapshotIInv, NEW c \in Communities, NEW p \in People, Join(c, p) PROVE SnapshotIInv'
<1>1. /\ state[c][p] = "NONE" /\ state' = [state EXCEPT ![c][p] = "Valid"]
      /\ beneficiaryList' = [beneficiaryList EXCEPT ![c] = Append(beneficiaryList[c], p)]
      /\ communityList' = communityList /\ Changed
  BY DEF Join
<1>2. /\ beneficiaryList \in [Communities -> Seq(People)]
      /\ \A d \in Communities : IsInjective(beneficiaryList[d])
      /\ state \in [Communities -> [People -> States]]
      /\ \A d \in Communities : \A q \in Range(beneficiaryList[d]) : state[d][q] # "NONE"
  BY DEF ListsGood, StatesGood, SnapshotIInv
<1>3. PICK old, new : old = beneficiaryList[c] /\ new = Append(old, p)
  OBVIOUS
<1>4. old \in Seq(People) /\ IsInjective(old) /\ p \notin Range(old)
  BY <1>1, <1>2, <1>3
<1>5. new \in Seq(People) /\ IsInjective(new) /\ Range(new) = Range(old) \cup {p} /\ Longer(new, old)
  BY <1>3, <1>4, AppendIs DEF Longer
<1>6. \A d \in Communities : beneficiaryList'[d] = IF d = c THEN new ELSE beneficiaryList[d]
  BY <1>1, <1>2, <1>3
<1>7. beneficiaryList' \in [Communities -> Seq(People)]
  BY <1>1, <1>2, <1>3, <1>5
<1>8. ListsGood'
  <2>1. communityList' \in Seq(Communities) /\ IsInjective(communityList')
    BY <1>1 DEF ListsGood, SnapshotIInv
  <2>2. \A d \in Communities : IsInjective(beneficiaryList'[d])
    BY <1>2, <1>5, <1>6
  <2> QED BY <1>7, <2>1, <2>2 DEF ListsGood
<1>9. /\ state' \in [Communities -> [People -> States]]
      /\ \A d \in Communities, q \in People : state'[d][q] = IF d = c /\ q = p THEN "Valid" ELSE state[d][q]
  BY <1>1, <1>2 DEF States
<1>10. StatesGood'
  <2>1. ASSUME NEW d \in Communities, NEW q \in Range(beneficiaryList'[d]) PROVE state'[d][q] # "NONE"
    <3>1. q \in People
      BY <1>7 DEF Range
    <3>2. CASE d = c /\ q = p
      BY <1>9, <3>1, <3>2
    <3>3. CASE ~(d = c /\ q = p)
      <4>1. q \in Range(beneficiaryList[d])
        BY <1>3, <1>5, <1>6, <3>3
      <4> QED BY <1>2, <1>9, <3>1, <3>3, <4>1
    <3> QED BY <3>2, <3>3
  <2> QED BY <1>9, <2>1 DEF StatesGood
<1>11. MovesOn
  BY <1>1, <1>3, <1>5, <1>6, <1>8, <1>10, SameIsLonger DEF MovesOn
<1> QED BY <1>1, <1>11, MovingKeeps

\* A call that leaves the lists alone and takes nobody's state away.
LEMMA StatesChangeKeeps ==
  ASSUME SnapshotIInv, UNCHANGED <<communityList, beneficiaryList>>, Changed,
         state' \in [Communities -> [People -> States]],
         \A c \in Communities, p \in People : state[c][p] # "NONE" => state'[c][p] # "NONE"
  PROVE  SnapshotIInv'
<1>1. ListsGood'
  BY DEF ListsGood, SnapshotIInv
<1>2. StatesGood'
  <2>1. ASSUME NEW c \in Communities, NEW p \in Range(beneficiaryList[c]) PROVE state'[c][p] # "NONE"
    <3>1. p \in People
      BY DEF ListsGood, SnapshotIInv, Range
    <3>2. state[c][p] # "NONE"
      BY DEF StatesGood, SnapshotIInv
    <3> QED BY <3>1, <3>2
  <2> QED BY <2>1 DEF StatesGood
<1>3. MovesOn
  BY <1>1, <1>2, SameIsLonger DEF MovesOn
<1> QED BY <1>3, MovingKeeps

LEMMA ChainKeeps == ASSUME SnapshotIInv, ChainNext PROVE SnapshotIInv'
<1>1. state \in [Communities -> [People -> States]]
  BY DEF StatesGood, SnapshotIInv
<1>2. ASSUME NEW c \in Communities, AddCommunity(c) PROVE SnapshotIInv'
  BY <1>2, AddCommunityKeeps
<1>3. ASSUME NEW c \in Communities, NEW p \in People, Join(c, p) PROVE SnapshotIInv'
  BY <1>3, JoinKeeps
<1>4. ASSUME NEW c \in Communities, NEW p \in People, NEW from \in {"Valid", "Locked", "Removed"},
             NEW to \in {"Valid", "Locked", "Removed"}, ChangeState(c, p, from, to)
      PROVE  SnapshotIInv'
  <2>1. state' = [state EXCEPT ![c][p] = to] /\ UNCHANGED <<communityList, beneficiaryList>> /\ Changed
    BY <1>4 DEF ChangeState
  <2>2. state' \in [Communities -> [People -> States]]
    BY <1>1, <2>1 DEF States
  <2>3. \A d \in Communities, q \in People : state'[d][q] = IF d = c /\ q = p THEN to ELSE state[d][q]
    BY <1>1, <2>1
  <2> QED BY <2>1, <2>2, <2>3, StatesChangeKeeps
<1>5. ASSUME NEW c \in Communities, NEW old \in People, NEW new \in People, ChangeAddress(c, old, new)
      PROVE  SnapshotIInv'
  <2>1. /\ old # new /\ state[c][old] # "NONE"
        /\ state' = [state EXCEPT ![c][old] = "AddressChanged",
                                  ![c][new] = IF @ = "NONE" THEN state[c][old] ELSE @]
        /\ UNCHANGED <<communityList, beneficiaryList>> /\ Changed
    BY <1>5 DEF ChangeAddress
  <2>2. state[c][old] \in States /\ state[c][new] \in States
    BY <1>1
  <2>3. PICK g \in [People -> States] :
          g = [state[c] EXCEPT ![old] = "AddressChanged",
                               ![new] = IF state[c][new] = "NONE" THEN state[c][old] ELSE state[c][new]]
    BY <1>1, <2>2 DEF States
  <2>4. state' = [state EXCEPT ![c] = g]
    BY <1>1, <2>1, <2>3
  <2>5. state' \in [Communities -> [People -> States]]
    BY <1>1, <2>3, <2>4
  <2>6. \A q \in People : state[c][q] # "NONE" => g[q] # "NONE"
    BY <1>1, <2>1, <2>3
  <2>7. \A d \in Communities, q \in People : state[d][q] # "NONE" => state'[d][q] # "NONE"
    BY <1>1, <2>4, <2>6
  <2> QED BY <2>1, <2>5, <2>7, StatesChangeKeeps
<1> QED BY <1>2, <1>3, <1>4, <1>5 DEF ChainNext

(***************************************************************************)
(* The script.                                                              *)
(***************************************************************************)
\* A step of the script that leaves the histories alone.
LEMMA ScriptKeeps ==
  ASSUME SnapshotIInv, UNCHANGED <<chainVars, steady, seen>>, ScriptGood(script')
  PROVE  SnapshotIInv'
<1>1. UNCHANGED <<communityList, beneficiaryList, state, changes, steady, seen>>
  BY DEF chainVars
<1>2. (ListsGood /\ StatesGood /\ HistoriesGood)'
  BY <1>1 DEF SnapshotIInv, ListsGood, StatesGood, HistoriesGood, ValidNow, Enlisted
<1>3. ScriptGood(script)'
  <2>1. \A y : Shaped(y)' <=> Shaped(y)
    OBVIOUS
  <2>2. \A m, w, r : ListsCommunities(m, w, r)' <=> ListsCommunities(m, w, r)
    BY <1>1 DEF ListsCommunities
  <2>3. \A r : HasListed(r)' <=> HasListed(r)
    BY <1>1 DEF HasListed
  <2>4. ValidNow' = ValidNow
    BY <1>1 DEF ValidNow, Enlisted
  <2>5. \A w, e, r : AsksLengths(w, e, r)' <=> AsksLengths(w, e, r)
    <3>1. \A s, w, e : InLists(s, w, e)' <=> InLists(s, w, e)
      BY <1>1 DEF InLists
    <3> QED BY <1>1, <2>4, <3>1 DEF AsksLengths
  <2>6. \A w, t, r : AsksPeople(w, t, r)' <=> AsksPeople(w, t, r)
    <3>1. \A g, s : Asks(g, s)' <=> Asks(g, s)
      BY <1>1 DEF Asks
    <3>2. \A g, p : Told(g, p)' = Told(g, p)
      BY <1>1, <3>1 DEF Told, SeenAs
    <3> SUFFICES ASSUME NEW w, NEW t, NEW r PROVE AsksPeople(w, t, r)' <=> AsksPeople(w, t, r)
      OBVIOUS
    <3>3. \A s : Asks(w \cup Range(t), s)' <=> Asks(w \cup Range(t), s)
      BY <3>1
    <3>4. \A p : Told(w \cup Range(t), p)' = Told(w \cup Range(t), p)
      BY <3>2
    <3> QED BY <1>1, <2>4, <3>3, <3>4 DEF AsksPeople, Copies
  <2>7. \A r : HasWritten(r)' <=> HasWritten(r)
    BY <1>1 DEF HasWritten, Copies, SeenAs
  <2>8. ScriptGood(script')
    OBVIOUS
  <2>9. \A x : ScriptGood(x) => ScriptGood(x)'
    BY <2>1, <2>2, <2>3, <2>5, <2>6, <2>7 DEF ScriptGood
  <2> QED BY <2>8, <2>9
<1> QED BY <1>2, <1>3 DEF SnapshotIInv

LEMMA ScriptShaped ==
  ASSUME SnapshotIInv
  PROVE  /\ script = [phase |-> script.phase, runs |-> script.runs, waiting |-> script.waiting,
                      lengths |-> script.lengths, todo |-> script.todo, found |-> script.found]
         /\ communityList \in Seq(Communities) /\ IsInjective(communityList)
         /\ Len(communityList) \in Nat /\ DOMAIN communityList = 1..Len(communityList)
         /\ beneficiaryList \in [Communities -> Seq(People)]
BY DEF SnapshotIInv, ScriptGood, Shaped, ListsGood

\* A script in a given phase.
LEMMA ScriptInPhase ==
  ASSUME NEW phase, NEW runs, NEW waiting, NEW lengths, NEW todo, NEW found, NEW x,
         x = [phase |-> phase, runs |-> runs, waiting |-> waiting, lengths |-> lengths, todo |-> todo, found |-> found],
         phase = "listing" => \E m \in Nat : ListsCommunities(m, waiting, found),
         phase = "listed" => HasListed(found),
         phase = "communities" => AsksLengths(waiting, lengths, found),
         phase = "beneficiaries" => AsksPeople(waiting, todo, found),
         phase = "written" => HasWritten(found)
  PROVE  ScriptGood(x)
BY DEF ScriptGood, Shaped

\* A script that begins, or fails.
LEMMA StartListingKeeps == ASSUME SnapshotIInv, StartListing PROVE SnapshotIInv'
<1>1. PICK n \in Nat : n = Len(communityList) /\ DOMAIN communityList = 1..n
  BY ScriptShaped
<1>2. /\ script' = [phase |-> "listing", runs |-> script.runs + 1, waiting |-> 1..n,
                    lengths |-> << >>, todo |-> << >>, found |-> << >>]
      /\ steady' = {} /\ seen' = {}
      /\ UNCHANGED <<communityList, beneficiaryList, state>>
  BY <1>1 DEF StartListing, NotStarted, chainVars
<1>3. (ListsGood /\ StatesGood /\ HistoriesGood)'
  BY <1>2 DEF SnapshotIInv, ListsGood, StatesGood, HistoriesGood
<1>4. ListsCommunities(n, 1..n, << >>)'
  <2>1. << >> \in Seq(Communities) /\ IsInjective(<< >>) /\ Range(<< >>) = {} /\ Len(<< >>) = 0
    BY DEF IsInjective, Range
  <2>2. Cardinality(1..n) = n
    BY FS_Interval
  <2>3. {communityList'[i] : i \in (1..n) \ (1..n)} = {} /\ n \in 0..Len(communityList') /\ 0 + n = n
    BY <1>1, <1>2
  <2> QED BY <2>1, <2>2, <2>3 DEF ListsCommunities
<1>5. ScriptGood(script)'
  BY <1>2, <1>4 DEF ScriptGood, Shaped
<1> QED BY <1>3, <1>5 DEF SnapshotIInv

LEMMA StartKeeps == ASSUME SnapshotIInv, Start PROVE SnapshotIInv'
<1>1. PICK n \in Nat : n = Len(communityList) /\ DOMAIN communityList = 1..n
  BY ScriptShaped
<1>2. PICK zeros : zeros = [i \in 1..n |-> 0]
  OBVIOUS
<1>3. /\ script' = [phase |-> "communities", runs |-> script.runs + 1, waiting |-> 1..n,
                    lengths |-> zeros, todo |-> << >>, found |-> << >>]
      /\ steady' = ValidNow /\ seen' = ValidNow
      /\ UNCHANGED <<communityList, beneficiaryList, state>>
  BY <1>1, <1>2 DEF Start, NotStarted, chainVars
<1>4. ValidNow' = ValidNow /\ ValidNow \subseteq Communities \X People
  BY <1>3 DEF ValidNow, Enlisted
<1>5. (ListsGood /\ StatesGood /\ HistoriesGood)'
  BY <1>3, <1>4 DEF SnapshotIInv, ListsGood, StatesGood, HistoriesGood
<1>6. AsksLengths(1..n, zeros, << >>)'
  <2>1. zeros \in [1..n -> Nat] /\ DOMAIN zeros = 1..n /\ Len(zeros) = n
    BY <1>2
  <2>2. \A i \in 1..n : zeros[i] <= Len(beneficiaryList[communityList[i]])
    <3>1. ASSUME NEW i \in 1..n PROVE Len(beneficiaryList[communityList[i]]) \in Nat
      <4>1. communityList[i] \in Communities
        BY <1>1, ScriptShaped
      <4>2. beneficiaryList[communityList[i]] \in Seq(People)
        BY <4>1, ScriptShaped
      <4> QED BY <4>2
    <3> QED BY <1>2, <3>1
  <2>3. ASSUME NEW s \in ValidNow PROVE InLists(s, 1..n, zeros)'
    <3>1. s[1] \in Range(communityList)
      BY DEF ValidNow, Enlisted
    <3>2. PICK i \in 1..n : communityList[i] = s[1]
      BY <1>1, <3>1 DEF Range
    <3> QED BY <1>3, <2>1, <3>2 DEF InLists
  <2> QED BY <1>1, <1>3, <1>4, <2>1, <2>2, <2>3 DEF AsksLengths
<1>7. ScriptGood(script)'
  BY <1>3, <1>6 DEF ScriptGood, Shaped
<1> QED BY <1>5, <1>7 DEF SnapshotIInv

LEMMA FailKeeps == ASSUME SnapshotIInv, Fail PROVE SnapshotIInv'
<1>1. script' = [phase |-> "failed", runs |-> script.runs, waiting |-> {},
                 lengths |-> << >>, todo |-> << >>, found |-> << >>]
  BY DEF Fail, NotStarted
<1>2. ScriptGood(script')
  BY <1>1, ScriptInPhase
<1> QED BY <1>2, ScriptKeeps DEF Fail

\* getCommunities.ts
LEMMA GetCommunityKeeps ==
  ASSUME SnapshotIInv, NEW i \in DOMAIN communityList, GetCommunity(i) PROVE SnapshotIInv'
<1>1. PICK w, r : w = script.waiting /\ r = script.found
  OBVIOUS
<1>2. /\ script.phase = "listing" /\ i \in w
      /\ script' = [phase |-> "listing", runs |-> script.runs, waiting |-> w \ {i}, lengths |-> script.lengths,
                    todo |-> script.todo, found |-> Append(r, communityList[i])]
  <2>1. script.phase = "listing" /\ i \in w
    BY <1>1 DEF GetCommunity
  <2>2. script' = [script EXCEPT !.waiting = w \ {i}, !.found = Append(r, communityList[i])]
    BY <1>1, ScriptShaped DEF GetCommunity
  <2> QED BY <1>1, <2>1, <2>2, ScriptShaped
<1>3. PICK m \in Nat : ListsCommunities(m, w, r)
  BY <1>1, <1>2 DEF SnapshotIInv, ScriptGood
<1>4. PICK n \in Nat : n = Len(communityList)
  BY ScriptShaped
<1>5. /\ m \in 0..n /\ w \subseteq 1..m /\ r \in Seq(Communities) /\ IsInjective(r)
      /\ Range(r) = {communityList[k] : k \in (1..m) \ w} /\ Len(r) + Cardinality(w) = m
  BY <1>3, <1>4 DEF ListsCommunities
<1>6. \A k \in 1..m : k \in DOMAIN communityList /\ communityList[k] \in Communities
  BY <1>4, <1>5, ScriptShaped
<1>7. \A k \in 1..m : communityList[k] = communityList[i] => k = i
  BY <1>2, <1>5, <1>6, ScriptShaped DEF IsInjective
<1>8. PICK c \in Communities : c = communityList[i]
  BY <1>2, <1>5, <1>6
<1>9. c \notin Range(r)
  BY <1>2, <1>5, <1>7, <1>8
<1>10. PICK q : q = Append(r, c)
  OBVIOUS
<1>11. q \in Seq(Communities) /\ IsInjective(q) /\ Range(q) = Range(r) \cup {c} /\ Len(q) = Len(r) + 1
  BY <1>5, <1>9, <1>10, AppendIs
<1>12. Range(q) = {communityList[k] : k \in (1..m) \ (w \ {i})}
  BY <1>2, <1>5, <1>8, <1>11
<1>13. Len(q) + Cardinality(w \ {i}) = m
  <2>1. IsFiniteSet(1..m)
    BY FS_Interval
  <2>2. IsFiniteSet(w)
    BY <1>5, <2>1, FS_Subset
  <2>3. Cardinality(w \ {i}) = Cardinality(w) - 1 /\ Cardinality(w) \in Nat
    BY <1>2, <2>2, FS_RemoveElement, FS_CardinalityType
  <2>4. Len(r) \in Nat
    BY <1>5
  <2> QED BY <1>5, <1>11, <2>3, <2>4
<1>14. ListsCommunities(m, w \ {i}, q)
  BY <1>4, <1>5, <1>11, <1>12, <1>13 DEF ListsCommunities
<1>15. ScriptGood(script')
  BY <1>2, <1>8, <1>10, <1>14, ScriptInPhase
<1> QED BY <1>15, ScriptKeeps DEF GetCommunity

LEMMA CommunitiesListedKeeps == ASSUME SnapshotIInv, CommunitiesListed PROVE SnapshotIInv'
<1>1. PICK r : r = script.found
  OBVIOUS
<1>2. /\ script.phase = "listing" /\ script.waiting = {}
      /\ script' = [phase |-> "listed", runs |-> script.runs, waiting |-> {}, lengths |-> script.lengths,
                    todo |-> script.todo, found |-> r]
  <2>1. script.phase = "listing" /\ script.waiting = {} /\ script' = [script EXCEPT !.phase = "listed"]
    BY DEF CommunitiesListed
  <2> QED BY <1>1, <2>1, ScriptShaped
<1>3. PICK m \in Nat : ListsCommunities(m, {}, r)
  BY <1>1, <1>2 DEF SnapshotIInv, ScriptGood
<1>4. /\ m \in 0..Len(communityList) /\ IsInjective(r) /\ r \in Seq(Communities)
      /\ Range(r) = {communityList[i] : i \in 1..m} /\ Len(r) = m
  <2>1. Len(r) + Cardinality({}) = m /\ r \in Seq(Communities)
    BY <1>3 DEF ListsCommunities
  <2>2. Len(r) = m
    BY <2>1, FS_EmptySet
  <2>3. (1..m) \ {} = 1..m
    OBVIOUS
  <2> QED BY <1>3, <2>2, <2>3 DEF ListsCommunities
<1>5. HasListed(r)
  BY <1>4, ScriptShaped DEF HasListed, IsPrefixInSomeOrder
<1>6. ScriptGood(script')
  BY <1>2, <1>5, ScriptInPhase
<1> QED BY <1>6, ScriptKeeps DEF CommunitiesListed

\* getBeneficiaries.ts
LEMMA ParseCommunityKeeps ==
  ASSUME SnapshotIInv, NEW i \in DOMAIN communityList, ParseCommunity(i) PROVE SnapshotIInv'
<1>1. PICK w, e, l : w = script.waiting /\ e = script.lengths /\ l = Len(beneficiaryList[communityList[i]])
  OBVIOUS
<1>2. PICK d : d = [e EXCEPT ![i] = l]
  OBVIOUS
<1>3. /\ script.phase = "communities" /\ i \in w
      /\ script' = [phase |-> "communities", runs |-> script.runs, waiting |-> w \ {i}, lengths |-> d,
                    todo |-> script.todo, found |-> script.found]
  <2>1. script.phase = "communities" /\ i \in w
    BY <1>1 DEF ParseCommunity
  <2>2. script' = [script EXCEPT !.waiting = w \ {i}, !.lengths = d]
    BY <1>1, <1>2, ScriptShaped DEF ParseCommunity
  <2> QED BY <1>1, <2>1, <2>2, ScriptShaped
<1>4. AsksLengths(w, e, script.found)
  BY <1>1, <1>3 DEF SnapshotIInv, ScriptGood
<1>5. PICK m \in Nat : m = Len(e)
  <2>1. Len(e) \in 0..Len(communityList)
    BY <1>4 DEF AsksLengths
  <2>2. Len(communityList) \in Nat
    BY ScriptShaped
  <2> QED BY <2>1, <2>2
<1>6. /\ m \in 0..Len(communityList) /\ e \in [1..m -> Nat] /\ w \subseteq 1..m
      /\ \A j \in 1..m : e[j] <= Len(beneficiaryList[communityList[j]])
      /\ \A s \in steady : InLists(s, w, e)
  BY <1>4, <1>5 DEF AsksLengths
<1>7. communityList[i] \in Communities
  BY ScriptShaped
<1>8. /\ beneficiaryList[communityList[i]] \in Seq(People) /\ l \in Nat
      /\ DOMAIN beneficiaryList[communityList[i]] = 1..l
  BY <1>1, <1>7, ScriptShaped
<1>9. /\ d \in [1..m -> Nat] /\ DOMAIN d = 1..m
      /\ \A j \in 1..m : d[j] = IF j = i THEN l ELSE e[j]
  BY <1>2, <1>6, <1>8
<1>10. Len(d) = m
  <2>1. d = [j \in 1..m |-> d[j]]
    BY <1>9
  <2> QED BY <2>1, IndexedIs
<1>11. ASSUME NEW j \in 1..m PROVE d[j] <= Len(beneficiaryList[communityList[j]])
  <2>1. CASE j = i
    <3>1. d[j] = l /\ l = Len(beneficiaryList[communityList[j]])
      BY <1>1, <1>9, <2>1
    <3> QED BY <1>8, <3>1
  <2>2. CASE j # i
    <3>1. d[j] = e[j]
      BY <1>9, <2>2
    <3> QED BY <1>6, <3>1
  <2> QED BY <2>1, <2>2
<1>12. ASSUME NEW s \in steady PROVE InLists(s, w \ {i}, d)
  <2>1. PICK j \in 1..m : /\ communityList[j] = s[1]
                          /\ j \in w \/ \E k \in 1..e[j] : beneficiaryList[s[1]][k] = s[2]
    BY <1>6 DEF InLists
  <2>2. CASE j # i
    BY <1>9, <2>1, <2>2 DEF InLists
  <2>3. CASE j = i
    <3>1. s \in ValidNow
      BY DEF SnapshotIInv, HistoriesGood
    <3>2. s[2] \in Range(beneficiaryList[s[1]])
      BY <3>1 DEF ValidNow, Enlisted
    <3>3. PICK k \in 1..l : beneficiaryList[s[1]][k] = s[2]
      BY <1>8, <2>1, <2>3, <3>2 DEF Range
    <3>4. k \in 1..d[i]
      BY <1>9, <2>3
    <3> QED BY <1>9, <2>1, <2>3, <3>3, <3>4 DEF InLists
  <2> QED BY <2>2, <2>3
<1>13. AsksLengths(w \ {i}, d, script.found)
  BY <1>4, <1>6, <1>9, <1>10, <1>11, <1>12 DEF AsksLengths
<1>14. ScriptGood(script')
  BY <1>3, <1>13, ScriptInPhase
<1> QED BY <1>14, ScriptKeeps DEF ParseCommunity

LEMMA CommunitiesParsedKeeps == ASSUME SnapshotIInv, CommunitiesParsed PROVE SnapshotIInv'
<1>1. PICK e, q : e = script.lengths /\ q = Questions(e)
  OBVIOUS
<1>2. /\ script.phase = "communities" /\ script.waiting = {}
      /\ script' = [phase |-> "beneficiaries", runs |-> script.runs, waiting |-> {}, lengths |-> e,
                    todo |-> q, found |-> script.found]
  <2>1. script.phase = "communities" /\ script.waiting = {}
        /\ script' = [script EXCEPT !.phase = "beneficiaries", !.todo = q]
    BY <1>1 DEF CommunitiesParsed
  <2> QED BY <1>1, <2>1, ScriptShaped
<1>3. AsksLengths({}, e, script.found)
  BY <1>1, <1>2 DEF SnapshotIInv, ScriptGood
<1>4. PICK m \in Nat : m = Len(e)
  <2>1. Len(e) \in 0..Len(communityList)
    BY <1>3 DEF AsksLengths
  <2>2. Len(communityList) \in Nat
    BY ScriptShaped
  <2> QED BY <2>1, <2>2
<1>5. /\ m <= Len(communityList) /\ e \in [1..m -> Nat] /\ DOMAIN e = 1..m
      /\ \A j \in 1..m : e[j] <= Len(beneficiaryList[communityList[j]])
      /\ \A s \in steady : InLists(s, {}, e)
      /\ script.found = << >> /\ ValidNow \subseteq seen
  <2>1. m <= Len(communityList) /\ e \in [1..m -> Nat]
    BY <1>3, <1>4, ScriptShaped DEF AsksLengths
  <2> QED BY <1>3, <1>4, <2>1 DEF AsksLengths
<1>6. AsksFor(q, e, m)
  BY <1>1, <1>4, <1>5, ScriptShaped, QuestionsAre
<1>7. q \in Seq(Communities \X Nat) /\ IsInjective(q) /\ Range(q) = AskedOf(e, m)
  BY <1>6 DEF AsksFor
<1>8. ASSUME NEW i \in 1..m
      PROVE  /\ communityList[i] \in Communities /\ communityList[i] \in Range(communityList)
             /\ e[i] \in Nat /\ \A k \in 1..e[i] : k \in DOMAIN beneficiaryList[communityList[i]]
  <2>1. communityList[i] \in Communities /\ communityList[i] \in Range(communityList)
    <3>1. i \in DOMAIN communityList
      BY <1>5, ScriptShaped
    <3> QED BY <3>1, ScriptShaped DEF Range
  <2>2. PICK b : b = beneficiaryList[communityList[i]]
    OBVIOUS
  <2>3. b \in Seq(People)
    BY <2>1, <2>2, ScriptShaped
  <2>4. Len(b) \in Nat /\ DOMAIN b = 1..Len(b) /\ e[i] \in Nat /\ e[i] <= Len(b)
    BY <1>5, <2>2, <2>3
  <2> QED BY <2>1, <2>2, <2>4
<1>9. ASSUME NEW x \in Range(q)
      PROVE  x \in Communities \X Nat /\ x[1] \in Range(communityList) /\ x[2] \in DOMAIN beneficiaryList[x[1]]
  <2>1. x \in Communities \X Nat /\ \E i \in 1..m : x[1] = communityList[i] /\ x[2] \in 1..e[i]
    BY <1>7 DEF AskedOf
  <2> QED BY <1>8, <2>1
<1>10. ASSUME NEW s \in steady PROVE Asks(Range(q), s)
  <2>1. PICK i \in 1..m : communityList[i] = s[1] /\ \E k \in 1..e[i] : beneficiaryList[s[1]][k] = s[2]
    BY <1>5 DEF InLists
  <2>2. PICK k \in 1..e[i] : beneficiaryList[s[1]][k] = s[2]
    BY <2>1
  <2>3. k \in DOMAIN beneficiaryList[s[1]] /\ k \in Nat /\ s[1] \in Communities
    BY <1>8, <2>1
  <2>4. <<s[1], k>> \in Range(q)
    BY <1>7, <2>1, <2>3 DEF AskedOf
  <2> QED BY <2>2, <2>3, <2>4 DEF Asks
<1>11. ASSUME NEW p \in People PROVE Cardinality(Copies(<< >>, p)) <= Cardinality(Told(Range(q), p))
  <2>1. Copies(<< >>, p) = {}
    BY DEF Copies
  <2>2. Cardinality(Told(Range(q), p)) \in Nat
    BY SeenFinite DEF SnapshotIInv, HistoriesGood
  <2>3. Cardinality({}) = 0
    BY FS_EmptySet
  <2> QED BY <2>1, <2>2, <2>3
<1>12. AsksPeople({}, q, << >>)
  <2>1. {} \cup Range(q) = Range(q) /\ {} \cap Range(q) = {} /\ << >> \in Seq(People)
    OBVIOUS
  <2> QED BY <1>5, <1>7, <1>9, <1>10, <1>11, <2>1 DEF AsksPeople
<1>13. script' = [phase |-> "beneficiaries", runs |-> script.runs, waiting |-> {}, lengths |-> e,
                  todo |-> q, found |-> << >>]
  <2>1. script.found = << >>
    BY <1>5
  <2> QED BY <1>2, <2>1
<1>14. ScriptGood(script')
  BY <1>12, <1>13, ScriptInPhase
<1> QED BY <1>14, ScriptKeeps DEF CommunitiesParsed

LEMMA AskChunkKeeps == ASSUME SnapshotIInv, AskChunk PROVE SnapshotIInv'
<1>1. PICK t, n : t = script.todo /\ n = IF ChunkSize < Len(t) THEN ChunkSize ELSE Len(t)
  OBVIOUS
<1>2. PICK head, rest : head = SubSeq(t, 1, n) /\ rest = SubSeq(t, n + 1, Len(t))
  OBVIOUS
<1>3. /\ script.phase = "beneficiaries" /\ script.waiting = {}
      /\ script' = [phase |-> "beneficiaries", runs |-> script.runs, waiting |-> Range(head),
                    lengths |-> script.lengths, todo |-> rest, found |-> script.found]
      /\ UNCHANGED <<chainVars, steady, seen>>
  <2>1. /\ script.phase = "beneficiaries" /\ script.waiting = {}
        /\ script' = [script EXCEPT !.waiting = Range(head), !.todo = rest]
        /\ UNCHANGED <<chainVars, steady, seen>>
    BY <1>1, <1>2, ScriptShaped DEF AskChunk
  <2> QED BY <1>1, <2>1, ScriptShaped
<1>4. AsksPeople({}, t, script.found)
  BY <1>1, <1>3 DEF SnapshotIInv, ScriptGood
<1>5. t \in Seq(Communities \X Nat) /\ IsInjective(t) /\ n \in 0..Len(t)
  <2>1. t \in Seq(Communities \X Nat) /\ IsInjective(t)
    BY <1>4 DEF AsksPeople
  <2>2. Len(t) \in Nat /\ ChunkSize \in Nat
    BY <2>1, SnapshotAssumption
  <2> QED BY <1>1, <2>1, <2>2
<1>6. /\ rest \in Seq(Communities \X Nat) /\ IsInjective(rest)
      /\ Range(t) = Range(head) \cup Range(rest) /\ Range(head) \cap Range(rest) = {}
  <2>1. PICK S : S = Communities \X Nat
    OBVIOUS
  <2>2. t \in Seq(S) /\ n \in 0..Len(t)
    BY <1>5, <2>1
  <2>3. CutAt(t, n, head, rest)
    BY <1>2 DEF CutAt
  <2>4. SplitOf(S, t, head, rest)
    BY <2>2, <2>3, CutIs, Zenon
  <2> QED BY <1>5, <2>1, <2>4 DEF SplitOf
<1>7. AsksPeople(Range(head), rest, script.found)
  <2>1. {} \cup Range(t) = Range(head) \cup Range(rest)
    BY <1>6
  <2> QED BY <1>4, <1>6, <2>1 DEF AsksPeople
<1>8. ScriptGood(script')
  BY <1>3, <1>7, ScriptInPhase
<1> QED BY <1>3, <1>8, ScriptKeeps

LEMMA AnswerKeeps ==
  ASSUME SnapshotIInv, NEW c \in Communities, NEW k \in DOMAIN beneficiaryList[c], Answer(c, k)
  PROVE  SnapshotIInv'
<1>1. PICK w, t, r, p, q :
        /\ w = script.waiting /\ t = script.todo /\ r = script.found /\ p = beneficiaryList[c][k]
        /\ q = IF state[c][p] = "Valid" THEN Append(r, p) ELSE r
  OBVIOUS
<1>2. /\ script.phase = "beneficiaries" /\ <<c, k>> \in w
      /\ script' = [phase |-> "beneficiaries", runs |-> script.runs, waiting |-> w \ {<<c, k>>},
                    lengths |-> script.lengths, todo |-> t, found |-> q]
      /\ UNCHANGED <<chainVars, steady, seen>>
  <2>1. /\ script.phase = "beneficiaries" /\ <<c, k>> \in w
        /\ script' = [script EXCEPT !.waiting = w \ {<<c, k>>}, !.found = q]
        /\ UNCHANGED <<chainVars, steady, seen>>
    BY <1>1, ScriptShaped DEF Answer
  <2> QED BY <1>1, <2>1, ScriptShaped
<1>3. AsksPeople(w, t, r)
  BY <1>1, <1>2 DEF SnapshotIInv, ScriptGood
<1>4. PICK old, new : old = w \cup Range(t) /\ new = (w \ {<<c, k>>}) \cup Range(t)
  OBVIOUS
<1>5. /\ t \in Seq(Communities \X Nat) /\ IsInjective(t) /\ w \cap Range(t) = {}
      /\ \A x \in old :
           x \in Communities \X Nat /\ x[1] \in Range(communityList) /\ x[2] \in DOMAIN beneficiaryList[x[1]]
      /\ r \in Seq(People)
      /\ \A s \in steady : s[2] \in Range(r) \/ Asks(old, s)
      /\ \A y \in People : Cardinality(Copies(r, y)) <= Cardinality(Told(old, y))
      /\ ValidNow \subseteq seen
  BY <1>3, <1>4 DEF AsksPeople
<1>6. new = old \ {<<c, k>>} /\ <<c, k>> \in old
  BY <1>2, <1>4, <1>5
<1>7. /\ p \in People /\ c \in Range(communityList) /\ p \in Range(beneficiaryList[c])
      /\ \A j \in DOMAIN beneficiaryList[c] : beneficiaryList[c][j] = p => j = k
  <2>1. <<c, k>>[1] = c
    OBVIOUS
  <2>2. c \in Range(communityList)
    BY <1>5, <1>6, <2>1
  <2>3. beneficiaryList[c] \in Seq(People) /\ IsInjective(beneficiaryList[c])
    BY DEF SnapshotIInv, ListsGood
  <2>4. p \in People /\ p \in Range(beneficiaryList[c])
    BY <1>1, <2>3 DEF Range
  <2>5. \A j \in DOMAIN beneficiaryList[c] : beneficiaryList[c][j] = p => j = k
    BY <1>1, <2>3 DEF IsInjective
  <2> QED BY <2>2, <2>4, <2>5
<1>8. r \in Seq(People) /\ q \in Seq(People) /\ Range(r) \subseteq Range(q)
  <2>1. CASE state[c][p] = "Valid"
    BY <1>1, <1>5, <1>7, <2>1, AppendIs
  <2>2. CASE state[c][p] # "Valid"
    BY <1>1, <1>5, <2>2
  <2> QED BY <2>1, <2>2
<1>9. ASSUME NEW s \in Communities \X People PROVE Asks(new, s) => Asks(old, s)
  BY <1>6 DEF Asks
<1>10. ASSUME NEW s \in steady PROVE s[2] \in Range(q) \/ Asks(new, s)
  <2>1. CASE s[2] \in Range(r)
    BY <1>8, <2>1
  <2>2. CASE Asks(old, s)
    <3>1. PICK j \in DOMAIN beneficiaryList[s[1]] : <<s[1], j>> \in old /\ beneficiaryList[s[1]][j] = s[2]
      BY <2>2 DEF Asks
    <3>2. CASE <<s[1], j>> # <<c, k>>
      BY <1>6, <3>1, <3>2 DEF Asks
    <3>3. CASE <<s[1], j>> = <<c, k>>
      <4>1. s[1] = c /\ j = k /\ s[2] = p
        BY <1>1, <3>1, <3>3
      <4>2. s \in ValidNow
        BY DEF SnapshotIInv, HistoriesGood
      <4>3. state[c][p] = "Valid"
        BY <4>1, <4>2 DEF ValidNow
      <4>4. p \in Range(q)
        BY <1>1, <1>5, <1>7, <4>3, AppendIs
      <4> QED BY <4>1, <4>4
    <3> QED BY <3>2, <3>3
  <2> QED BY <1>5, <2>1, <2>2
<1>11. seen \subseteq Communities \X People
  BY DEF SnapshotIInv, HistoriesGood
<1>12. ASSUME NEW y \in People PROVE Cardinality(Copies(q, y)) <= Cardinality(Told(new, y))
  <2>1. Told(old, y) \subseteq Told(new, y)
    BY <1>9, <1>11 DEF Told, SeenAs
  <2>2. IsFiniteSet(Told(new, y)) /\ Cardinality(Told(new, y)) \in Nat /\ Cardinality(Told(old, y)) \in Nat
        /\ IsFiniteSet(Told(old, y))
    BY <1>11, SeenFinite
  <2>3. IsFiniteSet(Copies(r, y)) /\ Cardinality(Copies(r, y)) \in Nat
    <3>1. Copies(r, y) \subseteq 1..Len(r) /\ Len(r) \in Nat
      BY <1>8 DEF Copies
    <3>2. IsFiniteSet(1..Len(r))
      BY <3>1, FS_Interval
    <3> QED BY <3>1, <3>2, FS_Subset, FS_CardinalityType
  <2>4. Cardinality(Copies(r, y)) <= Cardinality(Told(old, y))
    BY <1>5
  <2>5. Cardinality(Told(old, y)) <= Cardinality(Told(new, y))
    BY <2>1, <2>2, FS_Subset
  <2>6. CASE state[c][p] # "Valid"
    <3>1. q = r
      BY <1>1, <2>6
    <3> QED BY <2>2, <2>3, <2>4, <2>5, <3>1
  <2>7. CASE state[c][p] = "Valid"
    <3>1. PICK n \in Nat : n = Len(r)
      BY <1>8
    <3>2. /\ DOMAIN r = 1..n /\ DOMAIN q = 1..(n + 1) /\ q[n + 1] = p /\ \A i \in 1..n : q[i] = r[i]
      <4>1. q = Append(r, p)
        BY <1>1, <2>7
      <4>2. Len(q) = n + 1
        BY <1>8, <1>7, <3>1, <4>1, AppendIs
      <4> QED BY <1>7, <1>8, <3>1, <4>1, <4>2, AppendIs
    <3>3. CASE y # p
      <4>1. Copies(q, y) = Copies(r, y)
        <5>1. \A i \in 1..(n + 1) : i \in 1..n \/ i = n + 1
          OBVIOUS
        <5>2. \A i \in 1..n : i \in 1..(n + 1)
          OBVIOUS
        <5> QED BY <3>2, <3>3, <5>1, <5>2 DEF Copies
      <4> QED BY <2>2, <2>3, <2>4, <2>5, <4>1
    <3>4. CASE y = p
      <4>1. Copies(q, y) = Copies(r, y) \cup {n + 1} /\ n + 1 \notin Copies(r, y)
        <5>1. \A i \in 1..(n + 1) : i \in 1..n \/ i = n + 1
          OBVIOUS
        <5>2. n + 1 \notin 1..n /\ n + 1 \in 1..(n + 1) /\ \A i \in 1..n : i \in 1..(n + 1)
          OBVIOUS
        <5> QED BY <3>2, <3>4, <5>1, <5>2 DEF Copies
      <4>2. Cardinality(Copies(q, y)) = Cardinality(Copies(r, y)) + 1
        BY <2>3, <4>1, FS_AddElement
      <4>3. PICK s : s = <<c, p>>
        OBVIOUS
      <4>4. s \in SeenAs(y)
        <5>1. s \in Communities \X People /\ s[1] = c /\ s[2] = p
          BY <1>7, <4>3
        <5>2. s \in ValidNow
          BY <1>7, <2>7, <5>1 DEF ValidNow, Enlisted
        <5> QED BY <1>5, <3>4, <5>1, <5>2 DEF SeenAs
      <4>5. Asks(old, s)
        BY <1>1, <1>6, <4>3 DEF Asks
      <4>6. ~Asks(new, s)
        BY <1>6, <1>7, <4>3 DEF Asks
      <4>7. s \notin Told(old, y) /\ s \in Told(new, y)
        BY <4>4, <4>5, <4>6 DEF Told
      <4>8. Cardinality(Told(old, y) \cup {s}) = Cardinality(Told(old, y)) + 1
        BY <2>2, <4>7, FS_AddElement
      <4>9. Cardinality(Told(old, y) \cup {s}) <= Cardinality(Told(new, y))
        <5>1. Told(old, y) \cup {s} \subseteq Told(new, y)
          BY <2>1, <4>7
        <5> QED BY <2>2, <5>1, FS_Subset
      <4> QED BY <2>2, <2>3, <2>4, <4>2, <4>8, <4>9
    <3> QED BY <3>3, <3>4
  <2> QED BY <2>6, <2>7
<1>13. AsksPeople(w \ {<<c, k>>}, t, q)
  BY <1>4, <1>5, <1>6, <1>8, <1>10, <1>12 DEF AsksPeople
<1>14. ScriptGood(script')
  BY <1>2, <1>13, ScriptInPhase
<1> QED BY <1>2, <1>14, ScriptKeeps

LEMMA WriteKeeps == ASSUME SnapshotIInv, Write PROVE SnapshotIInv'
<1>1. PICK r : r = script.found
  OBVIOUS
<1>2. /\ script.phase = "beneficiaries" /\ script.todo = << >> /\ script.waiting = {}
      /\ script' = [phase |-> "written", runs |-> script.runs, waiting |-> script.waiting, lengths |-> script.lengths,
                    todo |-> script.todo, found |-> r]
      /\ UNCHANGED <<chainVars, steady, seen>>
  <2>1. /\ script.phase = "beneficiaries" /\ script.todo = << >> /\ script.waiting = {}
        /\ script' = [script EXCEPT !.phase = "written"]
        /\ UNCHANGED <<chainVars, steady, seen>>
    BY DEF Write
  <2> QED BY <1>1, <2>1, ScriptShaped
<1>3. AsksPeople({}, << >>, r)
  BY <1>1, <1>2 DEF SnapshotIInv, ScriptGood
<1>4. {} \cup Range(<< >>) = {}
  BY DEF Range
<1>5. ASSUME NEW y \in People PROVE Cardinality(Copies(r, y)) <= Cardinality(SeenAs(y))
  <2>1. Cardinality(Copies(r, y)) <= Cardinality(Told({}, y))
    BY <1>3, <1>4 DEF AsksPeople
  <2>2. Told({}, y) = SeenAs(y)
    BY DEF Told, Asks
  <2> QED BY <2>1, <2>2
<1>6. \A s \in steady : s[2] \in Range(r)
  BY <1>3, <1>4 DEF AsksPeople, Asks
<1>7. HasWritten(r)
  BY <1>3, <1>5, <1>6 DEF HasWritten, AsksPeople
<1>8. ScriptGood(script')
  BY <1>2, <1>7, ScriptInPhase
<1> QED BY <1>2, <1>8, ScriptKeeps

LEMMA StepKeepsSnapshot == SnapshotIInv /\ [SnapshotNext]_snapshotVars => SnapshotIInv'
<1> SUFFICES ASSUME SnapshotIInv, [SnapshotNext]_snapshotVars PROVE SnapshotIInv'
  OBVIOUS
<1>1. CASE StartListing
  BY <1>1, StartListingKeeps
<1>2. CASE Start
  BY <1>2, StartKeeps
<1>3. CASE ScriptNext
  <2>1. CASE CommunitiesListed
    BY <2>1, CommunitiesListedKeeps
  <2>2. CASE CommunitiesParsed
    BY <2>2, CommunitiesParsedKeeps
  <2>3. CASE AskChunk
    BY <2>3, AskChunkKeeps
  <2>4. CASE Write
    BY <2>4, WriteKeeps
  <2>5. CASE Fail
    BY <2>5, FailKeeps
  <2>6. ASSUME NEW i \in DOMAIN communityList, GetCommunity(i) \/ ParseCommunity(i) PROVE SnapshotIInv'
    BY <2>6, GetCommunityKeeps, ParseCommunityKeeps
  <2>7. ASSUME NEW c \in Communities, NEW k \in DOMAIN beneficiaryList[c], Answer(c, k) PROVE SnapshotIInv'
    BY <2>7, AnswerKeeps
  <2> QED BY <1>3, <2>1, <2>2, <2>3, <2>4, <2>5, <2>6, <2>7 DEF ScriptNext
<1>4. CASE ChainNext
  BY <1>4, ChainKeeps
<1>5. CASE UNCHANGED snapshotVars
  <2>1. ScriptGood(script') /\ UNCHANGED <<chainVars, steady, seen>>
    BY <1>5 DEF snapshotVars, SnapshotIInv
  <2> QED BY <2>1, ScriptKeeps
<1> QED BY <1>1, <1>2, <1>3, <1>4, <1>5 DEF SnapshotNext

\* However the answers interleave with what happens to the communities meanwhile, the file
\* has everybody who was valid throughout, and nobody who never was.
\* SnapshotTakesTheValid, for any people, communities, lists, chunks and changes.
THEOREM SnapshotIsOfTheValid == SnapshotSpec => []SnapshotTakesTheValid
<1>1. SnapshotInit => SnapshotIInv
  BY SnapshotInitial
<1>2. SnapshotIInv /\ [SnapshotNext]_snapshotVars => SnapshotIInv'
  BY StepKeepsSnapshot
<1>3. SnapshotIInv => SnapshotTakesTheValid
  BY SnapshotValid
<1> QED BY <1>1, <1>2, <1>3, PTL DEF SnapshotSpec

(***************************************************************************)
(* The hashes.                                                              *)
(***************************************************************************)
Hashes == Seq(Nat) \ {NoNode}

LEMMA HashIs ==
  ASSUME NEW s \in Hashes
  PROVE  s \in Seq(Nat) /\ Len(s) \in Nat \ {0} /\ DOMAIN s = 1..Len(s) /\ s # NoNode
BY DEF Hashes, NoNode

LEMMA LeafIsHash == ASSUME NEW n \in Nat \ {0} PROVE <<n>> \in Hashes
BY DEF Hashes, NoNode

\* 0 and then one sequence after the other.
OfTwo(z, x, y) ==
  /\ z \in Seq(Nat) /\ Len(z) = 1 + Len(x) + Len(y) /\ z[1] = 0
  /\ \A i \in 1..Len(x) : z[1 + i] = x[i]
  /\ \A i \in 1..Len(y) : z[1 + Len(x) + i] = y[i]

LEMMA TwoJoined == ASSUME NEW x \in Seq(Nat), NEW y \in Seq(Nat) PROVE OfTwo(<<0>> \o x \o y, x, y)
<1>1. PICK o : o = <<0>>
  OBVIOUS
<1>2. o \in Seq(Nat) /\ Len(o) = 1 /\ o[1] = 0
  BY <1>1
<1>3. PICK l, m : l = Len(x) /\ m = Len(y)
  OBVIOUS
<1>4. l \in Nat /\ m \in Nat /\ IsSeq(o) /\ IsSeq(x) /\ IsSeq(y)
  BY <1>2, <1>3 DEF IsSeq
<1>5. PICK u : u = o \o x
  OBVIOUS
<1>6. u \in Seq(Nat) /\ Joined(u, o, x)
  BY <1>2, <1>4, <1>5, JoinIs
<1>7. IsSeq(u) /\ Len(u) = 1 + l /\ u[1] = 0 /\ \A i \in 1..l : u[1 + i] = x[i]
  BY <1>2, <1>3, <1>4, <1>6 DEF Joined
<1>8. PICK z : z = u \o y
  OBVIOUS
<1>9. z \in Seq(Nat) /\ Joined(z, u, y)
  BY <1>4, <1>6, <1>7, <1>8, JoinIs
<1>10. Len(z) = 1 + l + m /\ \A i \in 1..m : z[1 + l + i] = y[i]
  BY <1>3, <1>4, <1>7, <1>9 DEF Joined
<1>11. \A i \in 1..(1 + l) : z[i] = u[i]
  BY <1>7, <1>9 DEF Joined
<1>12. 1 \in 1..(1 + l) /\ \A i \in 1..l : 1 + i \in 1..(1 + l)
  BY <1>4
<1>13. OfTwo(z, x, y)
  BY <1>3, <1>7, <1>9, <1>10, <1>11, <1>12 DEF OfTwo
<1> QED BY <1>1, <1>5, <1>8, <1>13

LEMMA TwoHashed == ASSUME NEW x \in Hashes, NEW y \in Hashes
                   PROVE  <<0>> \o x \o y \in Hashes /\ OfTwo(<<0>> \o x \o y, x, y)
<1>1. /\ x \in Seq(Nat) /\ y \in Seq(Nat) /\ Len(x) \in Nat /\ Len(y) \in Nat
  BY HashIs
<1>2. PICK z : z = <<0>> \o x \o y
  OBVIOUS
<1>3. OfTwo(z, x, y)
  BY <1>1, <1>2, TwoJoined
<1>4. z \in Seq(Nat) /\ Len(z) # 0
  BY <1>1, <1>3 DEF OfTwo
<1>5. z # << >>
  BY <1>4
<1> QED BY <1>2, <1>3, <1>4, <1>5 DEF Hashes, NoNode

(***************************************************************************)
(* The order of hashes, and the hash of two in that order.                  *)
(***************************************************************************)
LEMMA DifferIs ==
  ASSUME NEW a, NEW b, NEW i
  PROVE  i \in Differ(a, b) <=> i \in 1..Len(a) /\ (i > Len(b) \/ a[i] # b[i])
BY Zenon DEF Differ

\* The first place where b is not as a.
IsFirst(i, a, b) == i \in Differ(a, b) /\ \A j \in Differ(a, b) : i <= j

LEMMA FirstDiffers ==
  ASSUME NEW a \in Seq(Nat), NEW b \in Seq(Nat), Differ(a, b) # {}
  PROVE  \E i : IsFirst(i, a, b) /\ (Precedes(a, b) <=> i <= Len(b) /\ a[i] < b[i])
<1>1. Differ(a, b) \subseteq Nat
  BY DEF Differ
<1>2. \E i : IsFirst(i, a, b)
  BY <1>1, LeastNatural DEF IsFirst
<1>3. PICK i : i = CHOOSE h \in Differ(a, b) : \A j \in Differ(a, b) : h <= j
  OBVIOUS
<1>4. IsFirst(i, a, b)
  BY <1>2, <1>3 DEF IsFirst
<1>5. Precedes(a, b) <=> i <= Len(b) /\ a[i] < b[i]
  BY <1>3 DEF Precedes
<1> QED BY <1>4, <1>5

\* Of two that differ, one comes first.
LEMMA OnePrecedes ==
  ASSUME NEW a \in Seq(Nat), NEW b \in Seq(Nat), a # b PROVE Precedes(a, b) <=> ~Precedes(b, a)
<1>1. PICK l, m : l = Len(a) /\ m = Len(b)
  OBVIOUS
<1>2. l \in Nat /\ m \in Nat /\ (\A i \in 1..l : a[i] \in Nat) /\ (\A i \in 1..m : b[i] \in Nat)
  <2>1. ASSUME NEW i \in 1..Len(a) PROVE a[i] \in Nat
    OBVIOUS
  <2>2. ASSUME NEW i \in 1..Len(b) PROVE b[i] \in Nat
    OBVIOUS
  <2>3. Len(a) \in Nat /\ Len(b) \in Nat
    OBVIOUS
  <2> QED BY <1>1, <2>1, <2>2, <2>3
<1>3. /\ \A i : i \in Differ(a, b) <=> i \in 1..l /\ (i > m \/ a[i] # b[i])
      /\ \A i : i \in Differ(b, a) <=> i \in 1..m /\ (i > l \/ b[i] # a[i])
  BY <1>1, DifferIs, Zenon
<1>4. ASSUME l <= m, \A i \in 1..l : a[i] = b[i] PROVE Precedes(a, b) /\ ~Precedes(b, a)
  <2>1. Differ(a, b) = {}
    <3>1. \A i \in 1..l : ~(i > m)
      BY <1>2, <1>4
    <3>2. \A i : i \notin Differ(a, b)
      BY <1>3, <1>4, <3>1
    <3> QED BY <3>2
  <2>2. l # m
    BY <1>1, <1>4, SeqEqual
  <2>3. Precedes(a, b)
    BY <1>1, <1>2, <1>4, <2>1, <2>2 DEF Precedes
  <2>4. l + 1 \in Differ(b, a)
    <3>1. l + 1 \in 1..m /\ l + 1 > l
      BY <1>2, <1>4, <2>2
    <3> QED BY <1>3, <3>1
  <2>5. PICK i : IsFirst(i, b, a) /\ (Precedes(b, a) <=> i <= Len(a) /\ b[i] < a[i])
    BY <2>4, FirstDiffers
  <2>6. i \in 1..m /\ (i > l \/ b[i] # a[i])
    BY <1>3, <2>5 DEF IsFirst
  <2>7. ~(i <= l)
    BY <1>2, <1>4, <2>6
  <2> QED BY <1>1, <2>3, <2>5, <2>7
<1>5. ASSUME m <= l, \A i \in 1..m : b[i] = a[i] PROVE Precedes(b, a) /\ ~Precedes(a, b)
  <2>1. Differ(b, a) = {}
    <3>1. \A i \in 1..m : ~(i > l)
      BY <1>2, <1>5
    <3>2. \A i : i \notin Differ(b, a)
      BY <1>3, <1>5, <3>1
    <3> QED BY <3>2
  <2>2. l # m
    BY <1>1, <1>5, SeqEqual
  <2>3. Precedes(b, a)
    BY <1>1, <1>2, <1>5, <2>1, <2>2 DEF Precedes
  <2>4. m + 1 \in Differ(a, b)
    <3>1. m + 1 \in 1..l /\ m + 1 > m
      BY <1>2, <1>5, <2>2
    <3> QED BY <1>3, <3>1
  <2>5. PICK i : IsFirst(i, a, b) /\ (Precedes(a, b) <=> i <= Len(b) /\ a[i] < b[i])
    BY <2>4, FirstDiffers
  <2>6. i \in 1..l /\ (i > m \/ a[i] # b[i])
    BY <1>3, <2>5 DEF IsFirst
  <2>7. ~(i <= m)
    BY <1>2, <1>5, <2>6
  <2> QED BY <1>1, <2>3, <2>5, <2>7
<1>6. CASE \E i \in 1..l : i <= m /\ a[i] # b[i]
  <2>1. PICK h \in 1..l : h <= m /\ a[h] # b[h]
    BY <1>6
  <2>2. h \in Differ(a, b) /\ h \in Differ(b, a)
    BY <1>2, <1>3, <2>1
  <2>3. PICK i : IsFirst(i, a, b) /\ (Precedes(a, b) <=> i <= Len(b) /\ a[i] < b[i])
    BY <2>2, FirstDiffers
  <2>4. PICK k : IsFirst(k, b, a) /\ (Precedes(b, a) <=> k <= Len(a) /\ b[k] < a[k])
    BY <2>2, FirstDiffers
  <2>5. i \in 1..l /\ (i > m \/ a[i] # b[i]) /\ k \in 1..m /\ (k > l \/ b[k] # a[k])
    BY <1>3, <2>3, <2>4 DEF IsFirst
  <2>6. i \in 1..l /\ i \in 1..m /\ k \in 1..l /\ k \in 1..m /\ a[i] # b[i] /\ b[k] # a[k]
    <3>1. i <= h /\ k <= h
      BY <2>2, <2>3, <2>4 DEF IsFirst
    <3>2. i \in 1..l /\ k \in 1..m /\ h \in 1..l /\ h <= m
      BY <2>1, <2>5
    <3>3. i \in 1..m /\ k \in 1..l /\ ~(i > m) /\ ~(k > l)
      BY <1>2, <3>1, <3>2
    <3> QED BY <2>5, <3>3
  <2>7. i \in Differ(b, a) /\ k \in Differ(a, b)
    BY <1>3, <2>6
  <2>8. i <= k /\ k <= i
    BY <2>3, <2>4, <2>7 DEF IsFirst
  <2>9. i = k
    BY <2>6, <2>8
  <2>10. a[i] \in Nat /\ b[i] \in Nat /\ i <= Len(b) /\ i <= Len(a)
    BY <1>1, <1>2, <2>6
  <2> QED BY <2>3, <2>4, <2>6, <2>9, <2>10
<1>7. CASE \A i \in 1..l : i <= m => a[i] = b[i]
  <2>1. l <= m \/ m <= l
    BY <1>2
  <2>2. CASE l <= m
    <3>1. \A i \in 1..l : a[i] = b[i]
      BY <1>2, <1>7, <2>2
    <3> QED BY <1>4, <2>2, <3>1
  <2>3. CASE m <= l
    <3>1. \A i \in 1..m : b[i] = a[i]
      BY <1>2, <1>7, <2>3
    <3> QED BY <1>5, <2>3, <3>1
  <2> QED BY <2>1, <2>2, <2>3
<1> QED BY <1>6, <1>7

\* The hash of a pair is the same from either side.
LEMMA HashedEitherWay ==
  ASSUME NEW a \in Hashes, NEW b \in Hashes PROVE CombinedHash(a, b) = CombinedHash(b, a)
<1>1. a \in Seq(Nat) /\ b \in Seq(Nat) /\ a # NoNode /\ b # NoNode
  BY HashIs
<1>2. CASE a = b
  BY <1>2
<1>3. CASE a # b
  BY <1>1, <1>3, OnePrecedes DEF CombinedHash
<1> QED BY <1>2, <1>3

IsPairHash(z, a, b) == z \in Hashes /\ (OfTwo(z, a, b) \/ OfTwo(z, b, a))

LEMMA HashOfPair == ASSUME NEW a \in Hashes, NEW b \in Hashes PROVE IsPairHash(CombinedHash(a, b), a, b)
<1>1. b # NoNode
  BY HashIs
<1>2. CombinedHash(a, b) = <<0>> \o a \o b \/ CombinedHash(a, b) = <<0>> \o b \o a
  BY <1>1 DEF CombinedHash
<1>3. IsPairHash(<<0>> \o a \o b, a, b) /\ IsPairHash(<<0>> \o b \o a, a, b)
  BY TwoHashed DEF IsPairHash
<1> QED BY <1>2, <1>3

LEMMA HashAlone == ASSUME NEW a PROVE CombinedHash(a, NoNode) = a
BY DEF CombinedHash

(***************************************************************************)
(* The layers of a tree.                                                    *)
(***************************************************************************)
\* A step for every number up to n: there is a sequence of values from a first one.
StepsIn(S, G, n) == \A i \in 1..n : G[i] \in [S -> S]
GoesBy(g, x, G, n) == g[0] = x /\ \A i \in 1..n : g[i] = G[i][g[i - 1]]

LEMMA StepByStep ==
  ASSUME NEW S, NEW x \in S, NEW G, NEW n \in Nat, StepsIn(S, G, n)
  PROVE  \E g \in [0..n -> S] : GoesBy(g, x, G, n)
<1> USE DEF StepsIn, GoesBy
<1> DEFINE P(k) == \E g \in [0..k -> S] : g[0] = x /\ \A i \in 1..k : g[i] = G[i][g[i - 1]]
           W == {k \in Nat : k <= n => P(k)}
<1>1. 0 \in W
  <2> DEFINE g == [i \in 0..0 |-> x]
  <2>1. g \in [0..0 -> S] /\ g[0] = x /\ \A i \in 1..0 : g[i] = G[i][g[i - 1]]
    OBVIOUS
  <2> HIDE DEF g
  <2> QED BY <2>1
<1>2. ASSUME NEW k \in Nat, k \in W PROVE k + 1 \in W
  <2> SUFFICES ASSUME k + 1 <= n PROVE P(k + 1)
    OBVIOUS
  <2>1. k <= n /\ P(k)
    BY <1>2
  <2>2. PICK g \in [0..k -> S] : g[0] = x /\ \A i \in 1..k : g[i] = G[i][g[i - 1]]
    BY <2>1
  <2>3. PICK m \in Nat : m = k + 1
    OBVIOUS
  <2>4. m \in 1..n /\ k \in 0..k /\ G[m] \in [S -> S] /\ g[k] \in S
    BY <2>3
  <2>5. PICK y \in S : y = G[m][g[k]]
    BY <2>4
  <2>6. PICK h : h = [i \in 0..m |-> IF i = m THEN y ELSE g[i]]
    OBVIOUS
  <2>7. \A i \in 0..m : i = m \/ i \in 0..k
    BY <2>3
  <2>8. h \in [0..m -> S] /\ \A i \in 0..k : h[i] = g[i]
    BY <2>2, <2>3, <2>6, <2>7
  <2>9. h[0] = x /\ h[m] = y
    BY <2>2, <2>3, <2>6, <2>8
  <2>10. ASSUME NEW i \in 1..m PROVE h[i] = G[i][h[i - 1]]
    <3>1. CASE i = m
      <4>1. i - 1 = k /\ k \in 0..k
        BY ONLY k \in Nat, <2>3, <3>1
      <4>2. h[k] = g[k]
        BY <2>8, <4>1
      <4> QED BY <2>5, <2>9, <3>1, <4>1, <4>2
    <3>2. CASE i # m
      <4>1. i \in 1..k /\ i \in 0..k /\ i - 1 \in 0..k
        BY <2>3, <3>2
      <4>2. h[i] = g[i] /\ h[i - 1] = g[i - 1]
        BY <2>8, <4>1
      <4> QED BY <2>2, <4>1, <4>2
    <3> QED BY <3>1, <3>2
  <2>11. P(m)
    BY <2>8, <2>9, <2>10
  <2> QED BY <2>3, <2>11
<1> HIDE DEF P
<1>3. Nat \subseteq W
  <2> HIDE DEF W
  <2> QED BY <1>1, <1>2, NaturalInduction
<1>4. P(n)
  BY <1>3
<1> QED BY <1>4 DEF P

Nodes == Seq(Hashes) \ {<< >>}

LEMMA NodesAre ==
  ASSUME NEW l \in Nodes
  PROVE  /\ l \in Seq(Hashes) /\ Len(l) \in Nat /\ Len(l) >= 1 /\ DOMAIN l = 1..Len(l)
         /\ \A i \in 1..Len(l) : l[i] \in Hashes
<1>1. l \in Seq(Hashes) /\ l # << >>
  BY DEF Nodes
<1> QED BY <1>1

IsNext(n, l) ==
  /\ n \in Nodes /\ Len(n) = (Len(l) + 1) \div 2
  /\ \A i \in 1..Len(n) : /\ 2 * i - 1 \in 1..Len(l)
                          /\ n[i] = CombinedHash(l[2 * i - 1], At(l, 2 * i))

\* What is at a place, or nothing.
LEMMA AtIs ==
  ASSUME NEW l \in Nodes, NEW i \in Int
  PROVE  /\ i \in 1..Len(l) => At(l, i) = l[i] /\ At(l, i) \in Hashes /\ At(l, i) # NoNode
         /\ i \notin 1..Len(l) => At(l, i) = NoNode
BY NodesAre, HashIs DEF At

LEMMA NextIs == ASSUME NEW l \in Nodes PROVE IsNext(NextLayer(l), l)
<1>1. PICK m \in Nat : m = Len(l) /\ m >= 1
  BY NodesAre
<1>2. PICK k : k = (m + 1) \div 2
  OBVIOUS
<1>3. k \in Nat /\ k >= 1 /\ \A i \in 1..k : 2 * i - 1 \in 1..m /\ 2 * i \in Int
  BY <1>1, <1>2
<1>4. PICK n : n = NextLayer(l)
  OBVIOUS
<1>5. n = [i \in 1..k |-> CombinedHash(l[2 * i - 1], At(l, 2 * i))]
  BY <1>1, <1>2, <1>4 DEF NextLayer
<1>6. ASSUME NEW i \in 1..k PROVE CombinedHash(l[2 * i - 1], At(l, 2 * i)) \in Hashes
  <2>1. PICK a, b : a = l[2 * i - 1] /\ b = At(l, 2 * i)
    OBVIOUS
  <2>2. a \in Hashes
    BY <1>1, <1>3, <2>1, NodesAre
  <2>3. b \in Hashes \/ b = NoNode
    BY <1>3, <2>1, AtIs
  <2>4. CASE b \in Hashes
    <3>1. IsPairHash(CombinedHash(a, b), a, b)
      BY <2>2, <2>4, HashOfPair
    <3> QED BY <2>1, <3>1 DEF IsPairHash
  <2>5. CASE b = NoNode
    BY <2>1, <2>2, <2>5, HashAlone
  <2> QED BY <2>3, <2>4, <2>5
<1>7. n \in [1..k -> Hashes]
  BY <1>5, <1>6
<1>8. n \in Seq(Hashes) /\ Len(n) = k
  BY <1>3, <1>7
<1>9. n # << >>
  BY <1>3, <1>8
<1>10. \A i \in 1..k : n[i] = CombinedHash(l[2 * i - 1], At(l, 2 * i))
  BY <1>5
<1> QED BY <1>1, <1>2, <1>3, <1>4, <1>8, <1>9, <1>10 DEF IsNext, Nodes

\* Layers above each other, the last perhaps not yet the root.
IsTower(t, e) ==
  /\ t \in Seq(Nodes) /\ Len(t) >= 1 /\ t[1] = e
  /\ \A k \in 1..Len(t) : k # Len(t) => Len(t[k]) > 1 /\ IsNext(t[k + 1], t[k])
Push(t) == IF Len(Last(t)) <= 1 THEN t ELSE Append(t, NextLayer(Last(t)))

LEMMA PushIsTower ==
  ASSUME NEW e \in Nodes, NEW t, IsTower(t, e)
  PROVE  /\ IsTower(Push(t), e)
         /\ Len(Last(Push(t))) <= 1 \/ Len(Last(Push(t))) < Len(Last(t))
<1>1. PICK m \in Nat : m = Len(t) /\ m >= 1
  BY DEF IsTower
<1>2. t \in Seq(Nodes) /\ t[1] = e /\ Last(t) = t[m] /\ t[m] \in Nodes
  <2>1. t \in Seq(Nodes) /\ m \in 1..Len(t)
    BY <1>1 DEF IsTower
  <2> QED BY <1>1, <2>1 DEF IsTower, Last
<1>3. CASE Len(Last(t)) <= 1
  BY <1>3 DEF Push
<1>4. CASE ~(Len(Last(t)) <= 1)
  <2>1. PICK l, n, u : l = t[m] /\ n = NextLayer(l) /\ u = Append(t, n)
    OBVIOUS
  <2>2. Push(t) = u
    BY <1>2, <1>4, <2>1 DEF Push
  <2>3. IsNext(n, l) /\ n \in Nodes /\ l \in Nodes
    <3>1. l \in Nodes /\ IsNext(n, l)
      BY <1>2, <2>1, NextIs
    <3> QED BY <3>1 DEF IsNext
  <2>4. u \in Seq(Nodes) /\ Len(u) = m + 1 /\ u[m + 1] = n /\ \A k \in 1..m : u[k] = t[k]
    BY <1>1, <1>2, <2>1, <2>3
  <2>5. Last(u) = n
    BY <1>1, <2>4 DEF Last
  <2>6. Len(l) \in Nat /\ Len(l) > 1 /\ Len(n) = (Len(l) + 1) \div 2
    BY <1>2, <1>4, <2>1, <2>3, NodesAre DEF IsNext
  <2>7. Len(n) < Len(l)
    BY <2>6
  <2>8. ASSUME NEW k \in 1..(m + 1), k # m + 1 PROVE Len(u[k]) > 1 /\ IsNext(u[k + 1], u[k])
    <3>1. k \in 1..m
      BY <1>1, <2>8
    <3>2. CASE k = m
      BY <2>1, <2>3, <2>4, <2>6, <3>1, <3>2
    <3>3. CASE k # m
      <4>1. k + 1 \in 1..m
        BY <1>1, <3>1, <3>3
      <4>2. Len(t[k]) > 1 /\ IsNext(t[k + 1], t[k])
        BY <1>1, <3>1, <3>3 DEF IsTower
      <4> QED BY <2>4, <3>1, <4>1, <4>2
    <3> QED BY <3>2, <3>3
  <2>9. IsTower(u, e)
    <3>1. 1 \in 1..m /\ m + 1 >= 1
      BY <1>1
    <3> QED BY <1>2, <2>4, <2>8, <3>1 DEF IsTower
  <2> QED BY <1>2, <2>1, <2>2, <2>5, <2>7, <2>9
<1> QED BY <1>3, <1>4

IsPushed(f, e, n) ==
  f = [i \in 0..n |-> IF i = 0 THEN <<e>> ELSE Push(f[i - 1])]

IsTree(t, e) == IsTower(t, e) /\ Len(Last(t)) = 1

LEMMA FirstIsTower == ASSUME NEW e \in Nodes PROVE IsTower(<<e>>, e) /\ Last(<<e>>) = e
<1>1. <<e>> \in Seq(Nodes) /\ Len(<<e>>) = 1 /\ <<e>>[1] = e
  OBVIOUS
<1> QED BY <1>1 DEF IsTower, Last

LEMMA LayersAreTree == ASSUME NEW e \in Nodes PROVE IsTree(Layers(e), e)
<1>1. PICK n \in Nat : n = Len(e) /\ n >= 1
  BY NodesAre
<1> DEFINE S == {t \in Seq(Nodes) : IsTower(t, e)}
<1>2. PICK step : step = [t \in S |-> Push(t)]
  OBVIOUS
<1>3. \A t \in S : Push(t) \in S
  BY PushIsTower DEF IsTower
<1>4. <<e>> \in S
  BY FirstIsTower DEF IsTower
<1>5. \E g \in [0..n -> S] : g[0] = <<e>> /\ \A i \in 1..n : g[i] = [j \in 1..n |-> step][i][g[i - 1]]
  <2>1. step \in [S -> S]
    BY <1>2, <1>3
  <2> HIDE DEF S
  <2>2. PICK G : G = [j \in 1..n |-> step]
    OBVIOUS
  <2>3. \A i \in 1..n : G[i] \in [S -> S]
    BY <2>1, <2>2
  <2>4. PICK T, x : T = S /\ x = <<e>>
    OBVIOUS
  <2>5. x \in T /\ StepsIn(T, G, n)
    BY <1>4, <2>3, <2>4 DEF StepsIn
  <2>6. PICK g \in [0..n -> T] : GoesBy(g, x, G, n)
    BY <2>5, StepByStep
  <2> QED BY <2>2, <2>4, <2>6 DEF GoesBy
<1>6. PICK g \in [0..n -> S] : g[0] = <<e>> /\ \A i \in 1..n : g[i] = Push(g[i - 1])
  <2>1. PICK g \in [0..n -> S] : g[0] = <<e>> /\ \A i \in 1..n : g[i] = [j \in 1..n |-> step][i][g[i - 1]]
    BY <1>5
  <2>2. ASSUME NEW i \in 1..n PROVE g[i] = Push(g[i - 1])
    <3>1. g[i - 1] \in S
      <4>1. i - 1 \in 0..n
        OBVIOUS
      <4> HIDE DEF S
      <4> QED BY <4>1
    <3>2. g[i] = step[g[i - 1]]
      BY <2>1
    <3> HIDE DEF S
    <3> QED BY <1>2, <3>1, <3>2
  <2> QED BY <2>1, <2>2
<1> HIDE DEF S
<1>7. IsPushed(g, e, n)
  <2>1. g = [i \in 0..n |-> g[i]]
    BY <1>6
  <2>2. ASSUME NEW i \in 0..n PROVE g[i] = IF i = 0 THEN <<e>> ELSE Push(g[i - 1])
    <3>1. i = 0 \/ i \in 1..n
      OBVIOUS
    <3> QED BY <1>6, <3>1
  <2> QED BY <2>1, <2>2 DEF IsPushed
<1>8. PICK f : IsPushed(f, e, n) /\ Layers(e) = f[n]
  <2>1. PICK f : f = CHOOSE h : IsPushed(h, e, Len(e))
    OBVIOUS
  <2>2. IsPushed(f, e, n)
    BY <1>1, <1>7, <2>1
  <2>3. Layers(e) = f[n]
    BY <1>1, <2>1 DEF Layers, IsPushed, Push
  <2> QED BY <2>2, <2>3
<1> DEFINE W == {i \in Nat : i <= n => /\ IsTower(f[i], e)
                                       /\ Len(Last(f[i])) <= 1 \/ Len(Last(f[i])) + i <= n}
<1>9. f[0] = <<e>> /\ \A i \in 1..n : f[i] = Push(f[i - 1])
  <2>1. 0 \in 0..n /\ \A i \in 1..n : i \in 0..n /\ i # 0
    OBVIOUS
  <2> QED BY <1>8, <2>1 DEF IsPushed
<1>10. \A t : IsTower(t, e) => Last(t) \in Nodes /\ Len(Last(t)) \in Nat /\ Len(Last(t)) >= 1
  <2> SUFFICES ASSUME NEW t, IsTower(t, e) PROVE Last(t) \in Nodes /\ Len(Last(t)) \in Nat /\ Len(Last(t)) >= 1
    OBVIOUS
  <2>1. t \in Seq(Nodes) /\ Len(t) \in 1..Len(t) /\ Last(t) = t[Len(t)]
    BY DEF IsTower, Last
  <2>2. Last(t) \in Nodes
    BY <2>1
  <2> QED BY <2>2, NodesAre
<1>11. 0 \in W
  <2>1. IsTower(f[0], e) /\ Last(f[0]) = e
    BY <1>9, FirstIsTower
  <2> QED BY <1>1, <2>1
<1>12. ASSUME NEW i \in Nat, i \in W PROVE i + 1 \in W
  <2> SUFFICES ASSUME i + 1 <= n
      PROVE IsTower(f[i + 1], e) /\ (Len(Last(f[i + 1])) <= 1 \/ Len(Last(f[i + 1])) + (i + 1) <= n)
    OBVIOUS
  <2>1. PICK t, u : t = f[i] /\ u = f[i + 1]
    OBVIOUS
  <2>2. i <= n /\ i + 1 \in 1..n /\ (i + 1) - 1 = i
    OBVIOUS
  <2>3. IsTower(t, e) /\ (Len(Last(t)) <= 1 \/ Len(Last(t)) + i <= n) /\ u = Push(t)
    BY <1>9, <1>12, <2>1, <2>2
  <2>4. IsTower(u, e) /\ (Len(Last(u)) <= 1 \/ Len(Last(u)) < Len(Last(t)))
    BY <2>3, PushIsTower
  <2>5. Len(Last(t)) <= 1 => u = t
    BY <2>3 DEF Push
  <2>6. Len(Last(t)) \in Nat /\ Len(Last(u)) \in Nat
    BY <1>10, <2>3, <2>4
  <2>7. Len(Last(u)) <= 1 \/ Len(Last(u)) + (i + 1) <= n
    BY <2>3, <2>4, <2>5, <2>6
  <2> QED BY <2>1, <2>4, <2>7
<1> HIDE DEF W
<1>13. n \in W
  BY <1>11, <1>12, NaturalInduction
<1>14. PICK t : t = f[n]
  OBVIOUS
<1>15. IsTower(t, e) /\ (Len(Last(t)) <= 1 \/ Len(Last(t)) + n <= n)
  BY <1>13, <1>14 DEF W
<1>16. Len(Last(t)) = 1
  BY <1>10, <1>15
<1> QED BY <1>8, <1>14, <1>15, <1>16 DEF IsTree

(***************************************************************************)
(* The way up from a node with a proof.                                     *)
(***************************************************************************)
IsRise(f, node, proof, n) ==
  f = [i \in 0..n |-> IF i = 0 THEN node ELSE CombinedHash(f[i - 1], proof[i])]
Rises(f, node, proof) ==
  /\ f \in [0..Len(proof) -> Hashes] /\ f[0] = node
  /\ \A i \in 1..Len(proof) : f[i] = CombinedHash(f[i - 1], proof[i])

LEMMA HashAboveIs ==
  ASSUME NEW node \in Hashes, NEW proof \in Seq(Hashes)
  PROVE  \E f : Rises(f, node, proof) /\ HashAbove(node, proof) = f[Len(proof)]
<1>1. PICK n \in Nat : n = Len(proof)
  OBVIOUS
<1>2. \A a, b \in Hashes : CombinedHash(a, b) \in Hashes
  BY HashOfPair DEF IsPairHash
<1>3. PICK G : G = [i \in 1..n |-> [a \in Hashes |-> CombinedHash(a, proof[i])]]
  OBVIOUS
<1>4. \A i \in 1..n : proof[i] \in Hashes
  BY <1>1
<1>5. StepsIn(Hashes, G, n)
  BY <1>2, <1>3, <1>4 DEF StepsIn
<1>6. PICK g \in [0..n -> Hashes] : GoesBy(g, node, G, n)
  BY <1>5, StepByStep
<1>7. g[0] = node /\ \A i \in 1..n : g[i] = CombinedHash(g[i - 1], proof[i])
  <2>1. ASSUME NEW i \in 1..n PROVE g[i] = CombinedHash(g[i - 1], proof[i])
    <3>1. i - 1 \in 0..n
      OBVIOUS
    <3>2. g[i - 1] \in Hashes
      BY <3>1
    <3>3. g[i] = G[i][g[i - 1]]
      BY <1>6 DEF GoesBy
    <3> QED BY <1>3, <3>2, <3>3
  <2> QED BY <1>6, <2>1 DEF GoesBy
<1>8. IsRise(g, node, proof, n)
  <2>1. g = [i \in 0..n |-> g[i]]
    OBVIOUS
  <2>2. ASSUME NEW i \in 0..n PROVE g[i] = IF i = 0 THEN node ELSE CombinedHash(g[i - 1], proof[i])
    <3>1. i = 0 \/ i \in 1..n
      OBVIOUS
    <3> QED BY <1>7, <3>1
  <2> QED BY <2>1, <2>2 DEF IsRise
<1>9. PICK f : IsRise(f, node, proof, n) /\ HashAbove(node, proof) = f[n]
  <2>1. PICK f : f = CHOOSE h : IsRise(h, node, proof, Len(proof))
    OBVIOUS
  <2>2. IsRise(f, node, proof, n)
    BY <1>1, <1>8, <2>1
  <2>3. HashAbove(node, proof) = f[n]
    BY <1>1, <2>1 DEF HashAbove, IsRise
  <2> QED BY <2>2, <2>3
<1>10. f[0] = node /\ \A i \in 1..n : f[i] = CombinedHash(f[i - 1], proof[i])
  <2>1. 0 \in 0..n /\ \A i \in 1..n : i \in 0..n /\ i # 0
    OBVIOUS
  <2> QED BY <1>9, <2>1 DEF IsRise
<1> DEFINE W == {i \in Nat : i <= n => f[i] \in Hashes}
<1>11. 0 \in W
  BY <1>10
<1>12. ASSUME NEW i \in Nat, i \in W PROVE i + 1 \in W
  <2> SUFFICES ASSUME i + 1 <= n PROVE f[i + 1] \in Hashes
    OBVIOUS
  <2>1. i <= n /\ i + 1 \in 1..n /\ (i + 1) - 1 = i
    OBVIOUS
  <2>2. f[i] \in Hashes /\ proof[i + 1] \in Hashes /\ f[i + 1] = CombinedHash(f[i], proof[i + 1])
    BY <1>4, <1>10, <1>12, <2>1
  <2> QED BY <1>2, <2>2
<1> HIDE DEF W
<1>13. \A i \in 0..n : f[i] \in Hashes
  <2>1. Nat \subseteq W
    BY <1>11, <1>12, NaturalInduction
  <2> QED BY <2>1 DEF W
<1>14. f \in [0..n -> Hashes]
  BY <1>9, <1>13 DEF IsRise
<1> QED BY <1>1, <1>9, <1>10, <1>14 DEF Rises

LEMMA HashAboveNone == ASSUME NEW node \in Hashes PROVE HashAbove(node, << >>) = node
<1>1. PICK p : p = << >>
  OBVIOUS
<1>2. p \in Seq(Hashes) /\ Len(p) = 0
  BY <1>1
<1>3. PICK f : Rises(f, node, p) /\ HashAbove(node, p) = f[Len(p)]
  BY <1>2, HashAboveIs
<1>4. f[0] = node
  BY <1>3 DEF Rises
<1> QED BY <1>1, <1>2, <1>3, <1>4

LEMMA HashAboveOneMore ==
  ASSUME NEW node \in Hashes, NEW proof \in Seq(Hashes), NEW b \in Hashes
  PROVE  HashAbove(node, Append(proof, b)) = CombinedHash(HashAbove(node, proof), b)
<1>1. PICK n \in Nat : n = Len(proof)
  OBVIOUS
<1>2. PICK longer : longer = Append(proof, b)
  OBVIOUS
<1>3. /\ longer \in Seq(Hashes) /\ Len(longer) = n + 1 /\ longer[n + 1] = b
      /\ \A i \in 1..n : longer[i] = proof[i]
  BY <1>1, <1>2
<1>4. PICK f : Rises(f, node, proof) /\ HashAbove(node, proof) = f[Len(proof)]
  BY HashAboveIs
<1>5. PICK g : Rises(g, node, longer) /\ HashAbove(node, longer) = g[Len(longer)]
  BY <1>3, HashAboveIs
<1> DEFINE W == {i \in Nat : i <= n => g[i] = f[i]}
<1>6. 0 \in W
  BY <1>4, <1>5 DEF Rises
<1>7. ASSUME NEW i \in Nat, i \in W PROVE i + 1 \in W
  <2> SUFFICES ASSUME i + 1 <= n PROVE g[i + 1] = f[i + 1]
    OBVIOUS
  <2>1. i <= n /\ i + 1 \in 1..n /\ i + 1 \in 1..(n + 1) /\ (i + 1) - 1 = i
    OBVIOUS
  <2>2. g[i] = f[i]
    BY <1>7, <2>1
  <2>3. f[i + 1] = CombinedHash(f[i], proof[i + 1])
    BY <1>1, <1>4, <2>1 DEF Rises
  <2>4. g[i + 1] = CombinedHash(g[i], longer[i + 1])
    BY <1>3, <1>5, <2>1 DEF Rises
  <2> QED BY <1>3, <2>1, <2>2, <2>3, <2>4
<1> HIDE DEF W
<1>8. g[n] = f[n]
  <2>1. Nat \subseteq W
    BY <1>6, <1>7, NaturalInduction
  <2> QED BY <2>1 DEF W
<1>9. g[n + 1] = CombinedHash(g[n], b)
  <2>1. n + 1 \in 1..(n + 1) /\ (n + 1) - 1 = n
    OBVIOUS
  <2> QED BY <1>3, <1>5, <2>1 DEF Rises
<1> QED BY <1>1, <1>2, <1>3, <1>4, <1>5, <1>8, <1>9

(***************************************************************************)
(* From a node to the one above it.                                         *)
(***************************************************************************)
\* What is above the place idx of layer l, in layer n.
IsAbove(n, l, idx, b) ==
  /\ idx \div 2 \in Nat /\ idx \div 2 + 1 \in 1..Len(n)
  /\ b = NoNode => n[idx \div 2 + 1] = l[idx + 1]
  /\ b # NoNode => b \in Hashes /\ n[idx \div 2 + 1] = CombinedHash(l[idx + 1], b)

LEMMA PairAbove ==
  ASSUME NEW l \in Nodes, NEW n, IsNext(n, l), NEW idx \in Nat, idx + 1 \in 1..Len(l)
  PROVE  IsAbove(n, l, idx, At(l, PairIndex(idx) + 1))
<1>1. PICK m \in Nat : m = Len(l) /\ m >= 1
  BY NodesAre
<1>2. PICK q : q = idx \div 2
  OBVIOUS
<1>3. q \in Nat /\ (idx = 2 * q \/ idx = 2 * q + 1) /\ idx % 2 = idx - 2 * q
  BY <1>2
<1>4. idx + 1 <= m /\ Len(n) = (m + 1) \div 2
  BY <1>1 DEF IsNext
<1>5. q + 1 \in Nat /\ q + 1 >= 1 /\ q + 1 <= Len(n) /\ q + 1 \in 1..Len(n)
  BY <1>3, <1>4
<1>6. PICK x, y : x = l[2 * (q + 1) - 1] /\ y = At(l, 2 * (q + 1))
  OBVIOUS
<1>7. n[q + 1] = CombinedHash(x, y) /\ 2 * (q + 1) - 1 \in 1..m
  BY <1>1, <1>5, <1>6 DEF IsNext
<1>8. x \in Hashes
  BY <1>1, <1>6, <1>7, NodesAre
<1>9. PICK b : b = At(l, PairIndex(idx) + 1)
  OBVIOUS
<1>10. CASE idx = 2 * q
  <2>1. PairIndex(idx) + 1 = 2 * (q + 1) /\ 2 * (q + 1) - 1 = idx + 1
    BY <1>3, <1>10 DEF PairIndex
  <2>2. b = y /\ x = l[idx + 1]
    BY <1>6, <1>9, <2>1
  <2>3. y = NoNode \/ y \in Hashes
    <3>1. 2 * (q + 1) \in Int
      BY <1>3
    <3> QED BY <1>6, <3>1, AtIs
  <2>4. y = NoNode => n[q + 1] = x
    BY <1>7, HashAlone
  <2> QED BY <1>2, <1>3, <1>5, <1>7, <1>9, <2>2, <2>3, <2>4 DEF IsAbove
<1>11. CASE idx = 2 * q + 1
  <2>1. PairIndex(idx) + 1 = 2 * (q + 1) - 1 /\ 2 * (q + 1) = idx + 1
    BY <1>3, <1>11 DEF PairIndex
  <2>2. b = x /\ b # NoNode
    <3>1. 2 * (q + 1) - 1 \in Int
      BY <1>3
    <3> QED BY <1>1, <1>6, <1>7, <1>9, <2>1, <3>1, AtIs
  <2>3. y = l[idx + 1] /\ y \in Hashes
    <3>1. idx + 1 \in Int
      OBVIOUS
    <3> QED BY <1>1, <1>6, <2>1, <3>1, AtIs
  <2>4. CombinedHash(x, y) = CombinedHash(y, x)
    BY <1>8, <2>3, HashedEitherWay
  <2> QED BY <1>2, <1>3, <1>5, <1>7, <1>8, <1>9, <2>2, <2>3, <2>4 DEF IsAbove
<1> QED BY <1>3, <1>10, <1>11

(***************************************************************************)
(* The walk up.                                                             *)
(***************************************************************************)
WalkOn(layer, below) ==
  LET pair == At(layer, PairIndex(below.idx) + 1)
  IN [idx |-> below.idx \div 2,
      proof |-> IF pair = NoNode THEN below.proof ELSE Append(below.proof, pair)]
IsWalk(f, t, idx, n) ==
  f = [k \in 0..n |-> IF k = 0 THEN [idx |-> idx, proof |-> << >>] ELSE WalkOn(t[k], f[k - 1])]
Walkers == [idx : Nat, proof : Seq(Hashes)]
Walks(f, t, idx) ==
  /\ f[0] = [idx |-> idx, proof |-> << >>]
  /\ \A k \in 1..Len(t) : f[k] = WalkOn(t[k], f[k - 1])

LEMMA WalkOnIs ==
  ASSUME NEW l \in Nodes, NEW below \in Walkers
  PROVE  WalkOn(l, below) \in Walkers
<1>1. PICK idx, proof, b : idx = below.idx /\ proof = below.proof /\ b = At(l, PairIndex(idx) + 1)
  OBVIOUS
<1>2. idx \in Nat /\ proof \in Seq(Hashes)
  BY <1>1 DEF Walkers
<1>3. PairIndex(idx) + 1 \in Int /\ idx \div 2 \in Nat
  BY <1>2 DEF PairIndex
<1>4. b = NoNode \/ b \in Hashes
  BY <1>1, <1>3, AtIs
<1>5. b \in Hashes => Append(proof, b) \in Seq(Hashes)
  BY <1>2
<1> QED BY <1>1, <1>2, <1>3, <1>4, <1>5 DEF WalkOn, Walkers

LEMMA ProofIsWalked ==
  ASSUME NEW t \in Seq(Nodes), NEW el, IndexOf(t, el) \in Nat
  PROVE  \E f : Walks(f, t, IndexOf(t, el)) /\ Proof(t, el) = f[Len(t)].proof
<1>1. PICK n \in Nat : n = Len(t)
  OBVIOUS
<1>2. PICK idx \in Nat : idx = IndexOf(t, el)
  OBVIOUS
<1>3. PICK x : x = [idx |-> idx, proof |-> << >>]
  OBVIOUS
<1>4. x \in Walkers
  <2>1. << >> \in Seq(Hashes)
    OBVIOUS
  <2> QED BY <1>3, <2>1 DEF Walkers
<1>5. PICK G : G = [k \in 1..n |-> [b \in Walkers |-> WalkOn(t[k], b)]]
  OBVIOUS
<1>6. StepsIn(Walkers, G, n)
  <2>1. \A k \in 1..n : t[k] \in Nodes
    BY <1>1
  <2> QED BY <1>5, <2>1, WalkOnIs DEF StepsIn
<1>7. PICK g \in [0..n -> Walkers] : GoesBy(g, x, G, n)
  BY <1>4, <1>6, StepByStep
<1>8. g[0] = x /\ \A k \in 1..n : g[k] = WalkOn(t[k], g[k - 1])
  <2>1. ASSUME NEW k \in 1..n PROVE g[k] = WalkOn(t[k], g[k - 1])
    <3>1. k - 1 \in 0..n
      OBVIOUS
    <3>2. g[k - 1] \in Walkers
      BY <3>1
    <3>3. g[k] = G[k][g[k - 1]]
      BY <1>7 DEF GoesBy
    <3> QED BY <1>5, <3>2, <3>3
  <2> QED BY <1>7, <2>1 DEF GoesBy
<1>9. IsWalk(g, t, idx, n)
  <2>1. g = [k \in 0..n |-> g[k]]
    OBVIOUS
  <2>2. ASSUME NEW k \in 0..n
      PROVE g[k] = IF k = 0 THEN [idx |-> idx, proof |-> << >>] ELSE WalkOn(t[k], g[k - 1])
    <3>1. k = 0 \/ k \in 1..n
      OBVIOUS
    <3> QED BY <1>3, <1>8, <3>1
  <2> QED BY <2>1, <2>2 DEF IsWalk
<1>10. PICK f : IsWalk(f, t, idx, n) /\ Proof(t, el) = f[n].proof
  <2>1. PICK f : f = CHOOSE h : IsWalk(h, t, IndexOf(t, el), Len(t))
    OBVIOUS
  <2>2. IsWalk(f, t, idx, n)
    BY <1>1, <1>2, <1>9, <2>1
  <2>3. Proof(t, el) = f[n].proof
    BY <1>1, <2>1 DEF Proof, IsWalk, WalkOn
  <2> QED BY <2>2, <2>3
<1>11. Walks(f, t, idx)
  <2>1. 0 \in 0..n /\ \A i \in 1..n : i \in 0..n /\ i # 0
    OBVIOUS
  <2> QED BY <1>1, <1>10, <2>1 DEF IsWalk, Walks
<1> QED BY <1>1, <1>2, <1>10, <1>11

\* How far a walk has come: it is at a place of the layer, and its proof leads there.
Reaches(w, l, el) ==
  /\ w \in Walkers /\ w.idx + 1 \in 1..Len(l) /\ HashAbove(el, w.proof) = l[w.idx + 1]

LEMMA WalkedUp ==
  ASSUME NEW l \in Nodes, NEW n, IsNext(n, l), NEW el \in Hashes, NEW w, Reaches(w, l, el)
  PROVE  Reaches(WalkOn(l, w), n, el)
<1>1. PICK idx, proof, b : idx = w.idx /\ proof = w.proof /\ b = At(l, PairIndex(idx) + 1)
  OBVIOUS
<1>2. idx \in Nat /\ proof \in Seq(Hashes) /\ idx + 1 \in 1..Len(l) /\ HashAbove(el, proof) = l[idx + 1]
  BY <1>1 DEF Reaches, Walkers
<1>3. IsAbove(n, l, idx, b)
  BY <1>1, <1>2, PairAbove
<1>4. PICK q, v : q = idx \div 2 /\ v = WalkOn(l, w)
  OBVIOUS
<1>5. v = [idx |-> q, proof |-> IF b = NoNode THEN proof ELSE Append(proof, b)]
  BY <1>1, <1>4 DEF WalkOn
<1>6. v \in Walkers
  BY <1>4, WalkOnIs DEF Reaches
<1>7. q + 1 \in 1..Len(n) /\ (b = NoNode => n[q + 1] = l[idx + 1])
      /\ (b # NoNode => b \in Hashes /\ n[q + 1] = CombinedHash(l[idx + 1], b))
  BY <1>3, <1>4 DEF IsAbove
<1>8. CASE b = NoNode
  <2>1. v.idx = q /\ v.proof = proof
    BY <1>5, <1>8
  <2> QED BY <1>2, <1>4, <1>6, <1>7, <1>8, <2>1 DEF Reaches
<1>9. CASE b # NoNode
  <2>1. v.idx = q /\ v.proof = Append(proof, b)
    BY <1>5, <1>9
  <2>2. HashAbove(el, Append(proof, b)) = CombinedHash(HashAbove(el, proof), b)
    BY <1>2, <1>7, <1>9, HashAboveOneMore
  <2> QED BY <1>2, <1>4, <1>6, <1>7, <1>9, <2>1, <2>2 DEF Reaches
<1> QED BY <1>8, <1>9

LEMMA IndexOfIs ==
  ASSUME NEW t \in Seq(Nodes), Len(t) >= 1, NEW el \in Range(t[1])
  PROVE  IndexOf(t, el) \in Nat /\ IndexOf(t, el) + 1 \in 1..Len(t[1]) /\ t[1][IndexOf(t, el) + 1] = el
<1>1. PICK l : l = t[1]
  OBVIOUS
<1>2. l \in Nodes
  BY <1>1
<1>3. PICK m \in Nat : m = Len(l) /\ DOMAIN l = 1..m
  BY <1>2, NodesAre
<1>4. PICK S : S = {i \in 1..m : l[i] = el}
  OBVIOUS
<1>5. S \subseteq Nat /\ S # {}
  <2>1. \E i \in 1..m : l[i] = el
    BY <1>1, <1>3 DEF Range
  <2> QED BY <1>4, <2>1
<1>6. PICK i \in S : \A j \in S : i <= j
  BY <1>5, LeastNatural
<1>7. \E h \in DOMAIN l : l[h] = el /\ \A j \in 1..(h - 1) : l[j] # el
  <2>1. i \in 1..m /\ l[i] = el
    BY <1>4, <1>6
  <2>2. ASSUME NEW j \in 1..(i - 1) PROVE l[j] # el
    <3>1. j \in 1..m /\ ~(i <= j)
      BY <2>1
    <3> QED BY <1>4, <1>6, <3>1
  <2> QED BY <1>3, <2>1, <2>2
<1>8. PICK c : c = CHOOSE h \in DOMAIN l : l[h] = el /\ \A j \in 1..(h - 1) : l[j] # el
  OBVIOUS
<1>9. c \in DOMAIN l /\ l[c] = el
  BY <1>7, <1>8
<1>10. IndexOf(t, el) = c - 1
  BY <1>1, <1>8 DEF IndexOf
<1> QED BY <1>1, <1>3, <1>9, <1>10

(***************************************************************************)
(* Whatever is in the first layer, its proof leads to the root.             *)
(***************************************************************************)
LEMMA ProofLeadsUp ==
  ASSUME NEW e \in Nodes, NEW t, IsTree(t, e), NEW el \in Range(e)
  PROVE  Proof(t, el) \in Seq(Hashes) /\ HashAbove(el, Proof(t, el)) = Root(t)
<1>1. t \in Seq(Nodes) /\ Len(t) >= 1 /\ t[1] = e /\ Last(t) = t[Len(t)] /\ Len(t[Len(t)]) = 1
  BY DEF IsTree, IsTower, Last
<1>2. PICK n \in Nat : n = Len(t) /\ n >= 1
  BY <1>1
<1>3. \A k \in 1..n : t[k] \in Nodes
  BY <1>1, <1>2
<1>4. \A k \in 1..n : k # n => IsNext(t[k + 1], t[k])
  BY <1>2 DEF IsTree, IsTower
<1>5. el \in Hashes
  <2>1. e \in Nodes /\ \E i \in DOMAIN e : e[i] = el
    BY DEF Range
  <2> QED BY <2>1, NodesAre
<1>6. PICK idx : idx = IndexOf(t, el)
  OBVIOUS
<1>7. idx \in Nat /\ idx + 1 \in 1..Len(e) /\ e[idx + 1] = el
  <2>1. el \in Range(t[1])
    BY <1>1
  <2> QED BY <1>1, <1>6, <2>1, IndexOfIs
<1>8. PICK f : Walks(f, t, idx) /\ Proof(t, el) = f[n].proof
  BY <1>1, <1>2, <1>6, <1>7, ProofIsWalked
<1>9. \A k \in 1..n : f[k] = WalkOn(t[k], f[k - 1])
  BY <1>2, <1>8 DEF Walks
<1>10. Reaches(f[0], t[1], el)
  <2>1. PICK p : p = << >>
    OBVIOUS
  <2>2. p \in Seq(Hashes) /\ HashAbove(el, p) = el
    BY <1>5, <2>1, HashAboveNone
  <2>3. PICK w : w = f[0]
    OBVIOUS
  <2>4. w = [idx |-> idx, proof |-> p]
    BY <1>8, <2>1, <2>3 DEF Walks
  <2> QED BY <1>1, <1>7, <2>2, <2>3, <2>4 DEF Reaches, Walkers
<1> DEFINE W == {k \in Nat : k + 1 <= n => Reaches(f[k], t[k + 1], el)}
<1>11. 0 \in W
  BY <1>10
<1>12. ASSUME NEW k \in Nat, k \in W PROVE k + 1 \in W
  <2>1. PICK h \in Nat : h = k + 1
    OBVIOUS
  <2> SUFFICES ASSUME h + 1 <= n PROVE Reaches(f[h], t[h + 1], el)
    BY <2>1
  <2>2. h \in 1..n /\ h # n /\ h - 1 = k
    BY <2>1
  <2>3. Reaches(f[k], t[h], el)
    BY <1>12, <2>1, <2>2
  <2>4. PICK l, m, w, v : l = t[h] /\ m = t[h + 1] /\ w = f[k] /\ v = f[h]
    OBVIOUS
  <2>5. l \in Nodes /\ IsNext(m, l)
    BY <1>3, <1>4, <2>2, <2>4
  <2>6. v = WalkOn(l, w)
    BY <1>9, <2>2, <2>4
  <2>7. Reaches(w, l, el)
    BY <2>3, <2>4
  <2>8. Reaches(WalkOn(l, w), m, el)
    BY <1>5, <2>5, <2>7, WalkedUp
  <2> QED BY <2>4, <2>6, <2>8
<1> HIDE DEF W
<1>13. PICK k \in Nat : n = k + 1
  <2>1. n - 1 \in Nat /\ n = (n - 1) + 1
    BY <1>2
  <2> QED BY <2>1
<1>14. PICK l, w, v : l = t[n] /\ w = f[k] /\ v = f[n]
  OBVIOUS
<1>15. Reaches(w, l, el)
  <2>1. Nat \subseteq W
    BY <1>11, <1>12, NaturalInduction
  <2> QED BY <1>13, <1>14, <2>1 DEF W
<1>16. v = WalkOn(l, w)
  <2>1. n \in 1..n /\ n - 1 = k
    BY <1>13
  <2> QED BY <1>9, <1>14, <2>1
<1>17. l \in Nodes /\ Len(l) = 1 /\ l[1] = Root(t)
  BY <1>1, <1>2, <1>3, <1>14 DEF Root
<1>18. w.idx = 0 /\ w.proof \in Seq(Hashes) /\ HashAbove(el, w.proof) = l[1]
  BY <1>15, <1>17 DEF Reaches, Walkers
<1>19. At(l, PairIndex(w.idx) + 1) = NoNode
  <2>1. PairIndex(0) + 1 = 2
    BY DEF PairIndex
  <2> QED BY <1>17, <1>18, <2>1, AtIs
<1>20. v.proof = w.proof
  BY <1>16, <1>19 DEF WalkOn
<1> QED BY <1>8, <1>14, <1>17, <1>18, <1>20

(***************************************************************************)
(* And nothing else leads there.  What a hash is made of never changes on   *)
(* the way up: the root is made of the leaves, and the hash above a node of  *)
(* that node among others.                                                  *)
(***************************************************************************)
MadeOf(z, M) == \A i \in 1..Len(z) : z[i] = 0 \/ z[i] \in M
Has(z, n) == \E i \in 1..Len(z) : z[i] = n

LEMMA PairMadeOf ==
  ASSUME NEW a \in Hashes, NEW b \in Hashes, NEW z, OfTwo(z, a, b), NEW M, MadeOf(a, M), MadeOf(b, M)
  PROVE  MadeOf(z, M)
<1>1. PICK l, m : l = Len(a) /\ m = Len(b)
  OBVIOUS
<1>2. l \in Nat /\ m \in Nat
  BY <1>1, HashIs
<1>3. /\ Len(z) = 1 + l + m /\ z[1] = 0
      /\ \A i \in 1..l : z[1 + i] = a[i]
      /\ \A i \in 1..m : z[1 + l + i] = b[i]
  BY <1>1 DEF OfTwo
<1>4. ASSUME NEW i \in 1..Len(z) PROVE z[i] = 0 \/ z[i] \in M
  <2>1. CASE i = 1
    BY <1>3, <2>1
  <2>2. CASE i - 1 \in 1..l
    <3>1. PICK j \in 1..l : i = 1 + j
      <4>1. i = 1 + (i - 1)
        BY <1>2, <1>3
      <4> QED BY <2>2, <4>1
    <3> QED BY <1>1, <1>3, <3>1 DEF MadeOf
  <2>3. CASE i - 1 - l \in 1..m
    <3>1. PICK j \in 1..m : i = 1 + l + j
      <4>1. i = 1 + l + (i - 1 - l)
        BY <1>2, <1>3
      <4> QED BY <2>3, <4>1
    <3> QED BY <1>1, <1>3, <3>1 DEF MadeOf
  <2>4. i = 1 \/ i - 1 \in 1..l \/ i - 1 - l \in 1..m
    BY <1>2, <1>3
  <2> QED BY <2>1, <2>2, <2>3, <2>4
<1> QED BY <1>4 DEF MadeOf

LEMMA CombinedMadeOf ==
  ASSUME NEW a \in Hashes, NEW b \in Hashes, NEW M, MadeOf(a, M), MadeOf(b, M)
  PROVE  MadeOf(CombinedHash(a, b), M)
<1>1. IsPairHash(CombinedHash(a, b), a, b)
  BY HashOfPair
<1> QED BY <1>1, PairMadeOf DEF IsPairHash

LEMMA CombinedHas ==
  ASSUME NEW a \in Hashes, NEW b \in Hashes, NEW n, Has(a, n) PROVE Has(CombinedHash(a, b), n)
<1>1. PICK z : z = CombinedHash(a, b)
  OBVIOUS
<1>2. OfTwo(z, a, b) \/ OfTwo(z, b, a)
  BY <1>1, HashOfPair DEF IsPairHash
<1>3. PICK l, m : l = Len(a) /\ m = Len(b)
  OBVIOUS
<1>4. l \in Nat /\ m \in Nat
  BY <1>3, HashIs
<1>5. PICK i \in 1..l : a[i] = n
  BY <1>3 DEF Has
<1>6. CASE OfTwo(z, a, b)
  <2>1. PICK j : j = 1 + i
    OBVIOUS
  <2>2. j \in 1..Len(z) /\ z[j] = n
    BY <1>3, <1>4, <1>5, <1>6, <2>1 DEF OfTwo
  <2> QED BY <1>1, <2>2 DEF Has
<1>7. CASE OfTwo(z, b, a)
  <2>1. PICK j : j = 1 + m + i
    OBVIOUS
  <2>2. j \in 1..Len(z) /\ z[j] = n
    BY <1>3, <1>4, <1>5, <1>7, <2>1 DEF OfTwo
  <2> QED BY <1>1, <2>2 DEF Has
<1> QED BY <1>2, <1>6, <1>7

\* The hash above a node has what the node has.
LEMMA HashAboveHas ==
  ASSUME NEW node \in Hashes, NEW proof \in Seq(Hashes), NEW n, Has(node, n)
  PROVE  Has(HashAbove(node, proof), n)
<1>1. PICK len \in Nat : len = Len(proof)
  OBVIOUS
<1>2. PICK f : Rises(f, node, proof) /\ HashAbove(node, proof) = f[Len(proof)]
  BY HashAboveIs
<1> DEFINE W == {i \in Nat : i <= len => Has(f[i], n)}
<1>3. 0 \in W
  BY <1>2 DEF Rises
<1>4. ASSUME NEW i \in Nat, i \in W PROVE i + 1 \in W
  <2> SUFFICES ASSUME i + 1 <= len PROVE Has(f[i + 1], n)
    OBVIOUS
  <2>1. i <= len /\ i + 1 \in 1..len /\ i \in 0..len /\ (i + 1) - 1 = i
    OBVIOUS
  <2>2. PICK x, y : x = f[i] /\ y = proof[i + 1]
    OBVIOUS
  <2>3. x \in Hashes /\ y \in Hashes /\ f[i + 1] = CombinedHash(x, y)
    BY <1>1, <1>2, <2>1, <2>2 DEF Rises
  <2>4. Has(x, n)
    BY <1>4, <2>1, <2>2
  <2> QED BY <2>3, <2>4, CombinedHas
<1> HIDE DEF W
<1>5. Nat \subseteq W
  BY <1>3, <1>4, NaturalInduction
<1> QED BY <1>1, <1>2, <1>5 DEF W

\* The root is made of what the leaves are made of.
LEMMA RootMadeOf ==
  ASSUME NEW e \in Nodes, NEW t, IsTree(t, e), NEW M, \A i \in 1..Len(e) : MadeOf(e[i], M)
  PROVE  MadeOf(Root(t), M)
<1>1. t \in Seq(Nodes) /\ Len(t) >= 1 /\ t[1] = e /\ Last(t) = t[Len(t)] /\ Len(t[Len(t)]) = 1
  BY DEF IsTree, IsTower, Last
<1>2. PICK n \in Nat : n = Len(t) /\ n >= 1
  BY <1>1
<1>3. \A k \in 1..n : t[k] \in Nodes
  BY <1>1, <1>2
<1>4. \A k \in 1..n : k # n => IsNext(t[k + 1], t[k])
  BY <1>2 DEF IsTree, IsTower
<1> DEFINE All(l) == \A i \in 1..Len(l) : MadeOf(l[i], M)
           W == {k \in Nat : k + 1 <= n => All(t[k + 1])}
<1>5. 0 \in W
  BY <1>1
<1>6. ASSUME NEW k \in Nat, k \in W PROVE k + 1 \in W
  <2>1. PICK h \in Nat : h = k + 1
    OBVIOUS
  <2> SUFFICES ASSUME h + 1 <= n PROVE All(t[h + 1])
    BY <2>1
  <2>2. PICK l, m : l = t[h] /\ m = t[h + 1]
    OBVIOUS
  <2>3. h \in 1..n /\ h # n
    BY <2>1
  <2>4. l \in Nodes /\ IsNext(m, l) /\ All(l)
    BY <1>3, <1>4, <1>6, <2>1, <2>2, <2>3
  <2>5. ASSUME NEW i \in 1..Len(m) PROVE MadeOf(m[i], M)
    <3>1. PICK a, b : a = l[2 * i - 1] /\ b = At(l, 2 * i)
      OBVIOUS
    <3>2. 2 * i - 1 \in 1..Len(l) /\ m[i] = CombinedHash(a, b)
      BY <2>4, <2>5, <3>1 DEF IsNext
    <3>3. a \in Hashes /\ MadeOf(a, M)
      BY <2>4, <3>1, <3>2, NodesAre
    <3>4. CASE 2 * i \in 1..Len(l)
      <4>1. 2 * i \in Int
        BY <2>4, NodesAre, <3>4
      <4>2. b = l[2 * i] /\ b \in Hashes /\ MadeOf(b, M)
        BY <2>4, <3>1, <3>4, <4>1, AtIs
      <4> QED BY <3>2, <3>3, <4>2, CombinedMadeOf
    <3>5. CASE 2 * i \notin 1..Len(l)
      <4>1. 2 * i \in Int
        <5>1. Len(m) \in Nat
          BY <2>4, NodesAre DEF IsNext
        <5> QED BY <5>1
      <4>2. b = NoNode
        BY <2>4, <3>1, <3>5, <4>1, AtIs
      <4> QED BY <3>2, <3>3, <4>2, HashAlone
    <3> QED BY <3>4, <3>5
  <2> QED BY <2>2, <2>5
<1> HIDE DEF W, All
<1>7. PICK k \in Nat : n = k + 1
  <2>1. n - 1 \in Nat /\ n = (n - 1) + 1
    BY <1>2
  <2> QED BY <2>1
<1>8. All(t[n])
  <2>1. Nat \subseteq W
    BY <1>5, <1>6, NaturalInduction
  <2> QED BY <1>7, <2>1 DEF W
<1> QED BY <1>1, <1>2, <1>8 DEF All, Root

AreLeaves(e) == \A i \in 1..Len(e) : \E n \in Nat \ {0} : e[i] = <<n>>

\* No proof whatever leads to the root from a leaf the tree has not.
LEMMA OnlyLeavesLeadUp ==
  ASSUME NEW e \in Nodes, AreLeaves(e), NEW t, IsTree(t, e), NEW n \in Nat \ {0},
         NEW p \in Seq(Hashes), HashAbove(<<n>>, p) = Root(t)
  PROVE  <<n>> \in Range(e)
<1>1. PICK M : M = {m \in Nat \ {0} : <<m>> \in Range(e)}
  OBVIOUS
<1>2. ASSUME NEW i \in 1..Len(e) PROVE MadeOf(e[i], M)
  <2>1. PICK m \in Nat \ {0} : e[i] = <<m>>
    BY DEF AreLeaves
  <2>2. m \in M
    <3>1. i \in DOMAIN e
      BY NodesAre
    <3> QED BY <1>1, <2>1, <3>1 DEF Range
  <2>3. PICK z : z = <<m>>
    OBVIOUS
  <2>4. Len(z) = 1 /\ z[1] = m
    BY <2>3
  <2>5. MadeOf(z, M)
    BY <2>2, <2>4 DEF MadeOf
  <2> QED BY <2>1, <2>3, <2>5
<1>3. MadeOf(Root(t), M)
  BY <1>2, RootMadeOf
<1>4. PICK x : x = <<n>>
  OBVIOUS
<1>5. x \in Hashes /\ Len(x) = 1 /\ x[1] = n
  BY <1>4, LeafIsHash
<1>6. Has(x, n)
  BY <1>5 DEF Has
<1>7. Has(Root(t), n)
  BY <1>4, <1>5, <1>6, HashAboveHas
<1>8. n \in M
  BY <1>3, <1>7 DEF Has, MadeOf
<1> QED BY <1>1, <1>8

(***************************************************************************)
(* The second airdrop: the root in use is that of the list in use.          *)
(***************************************************************************)
RootGood ==
  /\ list \in Seq(People) /\ Range(list) \subseteq ever
  /\ IF list = << >> THEN root = NoNode ELSE root = Root(GenerateMerkleTree(list))
TermsGood == terms \in Terms /\ offered \in Nat /\ terms.totalAmount <= offered
PaidGood ==
  /\ beneficiaries \in [People -> [claimedAmount : Nat, lastClaimTime : Nat]]
  /\ time \in Nat
  /\ \A p \in People : /\ beneficiaries[p].claimedAmount > 0 => p \in ever
                       /\ beneficiaries[p].claimedAmount <= offered
AirdropIInv == SnapshotIInv /\ RootGood /\ TermsGood /\ PaidGood

LEMMA LeafOfIs ==
  ASSUME NEW p \in People
  PROVE  \E n \in Nat \ {0} : LeafOf[p] = <<n>>
<1>1. PICK s : s = LeafOf[p]
  OBVIOUS
<1>2. s \in Seq(Nat \ {0}) /\ Len(s) = 1
  BY <1>1, AirdropV2Assumption
<1>3. PICK n \in Nat \ {0} : n = s[1]
  BY <1>2
<1>4. PICK z : z = <<n>>
  OBVIOUS
<1>5. z \in Seq(Nat \ {0}) /\ Len(z) = 1 /\ z[1] = n
  BY <1>4
<1>6. s = z
  BY <1>2, <1>3, <1>5, SeqEqual
<1> QED BY <1>1, <1>4, <1>6

LEMMA LeavesAre ==
  ASSUME NEW people \in Seq(People), people # << >>
  PROVE  /\ Leaves(people) \in Nodes
         /\ \A p \in People : p \in Range(people) <=> LeafOf[p] \in Range(Leaves(people))
         /\ IsTree(GenerateMerkleTree(people), Leaves(people)) /\ AreLeaves(Leaves(people))
<1>1. PICK n \in Nat : n = Len(people) /\ n >= 1
  <2>1. Len(people) \in Nat /\ Len(people) # 0
    OBVIOUS
  <2> QED BY <2>1
<1>2. PICK l : l = Leaves(people)
  OBVIOUS
<1>3. l = [i \in 1..n |-> LeafOf[people[i]]] /\ \A i \in 1..n : people[i] \in People
  BY <1>1, <1>2 DEF Leaves
<1>4. \A i \in 1..n : LeafOf[people[i]] \in Hashes
  BY <1>3, LeafOfIs, LeafIsHash
<1>5. l \in Seq(Hashes) /\ Len(l) = n
  BY <1>1, <1>3, <1>4
<1>6. l # << >>
  BY <1>1, <1>5
<1>7. l \in Nodes
  BY <1>5, <1>6 DEF Nodes
<1>8. ASSUME NEW p \in People PROVE p \in Range(people) <=> LeafOf[p] \in Range(l)
  <2>1. ASSUME p \in Range(people) PROVE LeafOf[p] \in Range(l)
    <3>1. PICK i \in 1..n : people[i] = p
      BY <1>1, <2>1 DEF Range
    <3> QED BY <1>3, <3>1 DEF Range
  <2>2. ASSUME LeafOf[p] \in Range(l) PROVE p \in Range(people)
    <3>1. PICK i \in 1..n : l[i] = LeafOf[p]
      BY <1>3, <2>2 DEF Range
    <3>2. LeafOf[people[i]] = LeafOf[p] /\ people[i] \in People
      BY <1>3, <3>1
    <3>3. people[i] = p
      BY <3>2, AirdropV2Assumption
    <3> QED BY <1>1, <3>3 DEF Range
  <2> QED BY <2>1, <2>2
<1>9. IsTree(Layers(l), l)
  BY <1>7, LayersAreTree
<1>10. AreLeaves(l)
  BY <1>3, <1>5, LeafOfIs DEF AreLeaves
<1> QED BY <1>2, <1>7, <1>8, <1>9, <1>10 DEF GenerateMerkleTree, LibraryTreeOf

LEMMA AirdropPays == AirdropIInv => AirdropPaysTheListed
<1> SUFFICES ASSUME AirdropIInv PROVE AirdropPaysTheListed
  OBVIOUS
<1>1. ASSUME NEW p \in Range(list) PROVE VerifyProof(LeafOf[p], GetProof[p], root)
  <2>1. list \in Seq(People) /\ list # << >> /\ p \in People
    BY <1>1 DEF AirdropIInv, RootGood, Range
  <2>2. root = Root(GenerateMerkleTree(list))
    BY <2>1 DEF AirdropIInv, RootGood
  <2>3. PICK e, t : e = Leaves(list) /\ t = GenerateMerkleTree(list)
    OBVIOUS
  <2>4. e \in Nodes /\ IsTree(t, e) /\ LeafOf[p] \in Range(e)
    BY <1>1, <2>1, <2>3, LeavesAre
  <2>5. HashAbove(LeafOf[p], Proof(t, LeafOf[p])) = Root(t)
    BY <2>4, ProofLeadsUp
  <2>6. GetProof[p] = Proof(t, LeafOf[p])
    BY <1>1, <2>3 DEF GetProof
  <2> QED BY <2>2, <2>3, <2>5, <2>6 DEF VerifyProof
<1> QED BY <1>1 DEF AirdropIInv, PaidGood, AirdropPaysTheListed

LEMMA AirdropBegins == AirdropV2Init => AirdropIInv
<1> SUFFICES ASSUME AirdropV2Init PROVE AirdropIInv
  OBVIOUS
<1>1. SnapshotIInv
  BY SnapshotInitial DEF AirdropV2Init
<1>2. RootGood
  BY DEF AirdropV2Init, RootGood, Range
<1>3. TermsGood
  BY AirdropV2Assumption DEF AirdropV2Init, TermsGood, Terms
<1>4. PaidGood
  BY AirdropV2Assumption DEF AirdropV2Init, PaidGood, Terms
<1> QED BY <1>1, <1>2, <1>3, <1>4 DEF AirdropIInv

LEMMA UpdateMerkleRootKeeps == ASSUME AirdropIInv, UpdateMerkleRoot PROVE AirdropIInv'
<1>1. SnapshotIInv'
  <2>1. UNCHANGED snapshotVars
    BY DEF UpdateMerkleRoot
  <2> QED BY <2>1, StepKeepsSnapshot DEF AirdropIInv
<1>2. list' \in Seq(People) /\ list' # << >>
  BY DEF UpdateMerkleRoot, AirdropIInv, SnapshotIInv, ScriptGood, HasWritten
<1>3. root' = Root(GenerateMerkleTree(list')) /\ ever' = ever \cup Range(list')
  BY DEF UpdateMerkleRoot, GenerateMerkleTreeFromFile
<1>4. RootGood'
  BY <1>2, <1>3 DEF RootGood, GenerateMerkleTree, LibraryTreeOf, Leaves
<1>5. TermsGood' /\ PaidGood'
  BY <1>3 DEF UpdateMerkleRoot, AirdropIInv, TermsGood, PaidGood
<1> QED BY <1>1, <1>4, <1>5 DEF AirdropIInv

LEMMA UpdateTermKeeps ==
  ASSUME AirdropIInv, NEW change \in TermChanges, UpdateTerm(change[1], change[2]) PROVE AirdropIInv'
<1>1. PICK term, value : term = change[1] /\ value = change[2]
  OBVIOUS
<1>2. term \in {"startTime", "trancheAmount", "totalAmount", "cooldown"} /\ value \in Nat
  BY <1>1, AirdropV2Assumption
<1>3. UpdateTerm(term, value)
  BY <1>1
<1>4. SnapshotIInv'
  <2>1. UNCHANGED snapshotVars
    BY <1>3 DEF UpdateTerm
  <2> QED BY <2>1, StepKeepsSnapshot DEF AirdropIInv
<1>5. RootGood'
  BY <1>3 DEF UpdateTerm, AirdropIInv, RootGood, GenerateMerkleTree, LibraryTreeOf, Leaves
<1>6. TermsGood' /\ offered <= offered'
  <2>1. terms \in Terms /\ offered \in Nat /\ terms.totalAmount <= offered
        /\ terms' = [terms EXCEPT ![term] = value]
        /\ offered' = IF term = "totalAmount" /\ value > offered THEN value ELSE offered
    BY <1>3 DEF UpdateTerm, AirdropIInv, TermsGood
  <2>2. CASE term = "totalAmount"
    BY <1>2, <2>1, <2>2 DEF TermsGood, Terms
  <2>3. CASE term = "startTime"
    BY <1>2, <2>1, <2>3 DEF TermsGood, Terms
  <2>4. CASE term = "trancheAmount"
    BY <1>2, <2>1, <2>4 DEF TermsGood, Terms
  <2>5. CASE term = "cooldown"
    BY <1>2, <2>1, <2>5 DEF TermsGood, Terms
  <2> QED BY <1>2, <2>2, <2>3, <2>4, <2>5
<1>7. PaidGood'
  BY <1>3, <1>6 DEF UpdateTerm, AirdropIInv, TermsGood, PaidGood
<1> QED BY <1>4, <1>5, <1>6, <1>7 DEF AirdropIInv

LEMMA ClaimKeeps ==
  ASSUME AirdropIInv, NEW proof \in Proofs, NEW p \in People, Claim(p, proof) PROVE AirdropIInv'
<1>1. SnapshotIInv'
  <2>1. UNCHANGED snapshotVars
    BY DEF Claim
  <2> QED BY <2>1, StepKeepsSnapshot DEF AirdropIInv
<1>2. RootGood'
  BY DEF Claim, AirdropIInv, RootGood, GenerateMerkleTree, LibraryTreeOf, Leaves
<1>3. TermsGood'
  BY DEF Claim, AirdropIInv, TermsGood
<1>4. PICK b : b = beneficiaries[p]
  OBVIOUS
<1>5. b.claimedAmount \in Nat /\ time \in Nat /\ (b.claimedAmount > 0 => p \in ever)
  BY <1>4 DEF AirdropIInv, PaidGood
<1>6. p \in ever
  <2>1. CASE b.claimedAmount = 0
    <3>1. root # NoNode /\ HashAbove(LeafOf[p], proof) = root
      BY <1>4, <2>1 DEF Claim, Proves, VerifyProof
    <3>2. list \in Seq(People) /\ list # << >> /\ root = Root(GenerateMerkleTree(list))
      BY <3>1 DEF AirdropIInv, RootGood
    <3>3. PICK e, t : e = Leaves(list) /\ t = GenerateMerkleTree(list)
      OBVIOUS
    <3>4. e \in Nodes /\ IsTree(t, e) /\ AreLeaves(e) /\ \A q \in People : q \in Range(list) <=> LeafOf[q] \in Range(e)
      BY <3>2, <3>3, LeavesAre
    <3>5. proof \in Seq(Hashes)
      <4>1. CASE proof \in Range(GetProof)
        <5>1. PICK q \in Range(list) : proof = Proof(t, LeafOf[q])
          BY <3>3, <4>1 DEF GetProof, Range
        <5>2. q \in People
          BY <3>2, <5>1 DEF Range
        <5> QED BY <3>4, <5>1, <5>2, ProofLeadsUp
      <4>2. << >> \in Seq(Hashes)
        OBVIOUS
      <4> QED BY <4>1, <4>2 DEF Proofs
    <3>6. PICK n \in Nat \ {0} : LeafOf[p] = <<n>>
      BY LeafOfIs
    <3>7. <<n>> \in Range(e)
      BY <3>1, <3>2, <3>3, <3>4, <3>5, <3>6, OnlyLeavesLeadUp
    <3>8. p \in Range(list)
      BY <3>4, <3>6, <3>7
    <3> QED BY <3>8 DEF AirdropIInv, RootGood
  <2> QED BY <1>5, <2>1
<1>7. PICK amount : amount = b.claimedAmount + ClaimAmount(b.claimedAmount)
  OBVIOUS
<1>8. amount \in Nat /\ amount <= offered
  <2>1. PICK c, total, tranche : c = b.claimedAmount /\ total = terms.totalAmount /\ tranche = terms.trancheAmount
    OBVIOUS
  <2>2. c \in Nat /\ total \in Nat /\ tranche \in Nat /\ offered \in Nat /\ total <= offered
    BY <1>5, <2>1 DEF AirdropIInv, TermsGood, Terms
  <2>3. c < total
    BY <1>4, <2>1 DEF Claim
  <2>4. amount = c + IF total - c > tranche THEN tranche ELSE total - c
    BY <1>7, <2>1 DEF ClaimAmount
  <2> QED BY <2>2, <2>3, <2>4
<1>9. beneficiaries' = [beneficiaries EXCEPT ![p] = [claimedAmount |-> amount, lastClaimTime |-> time]]
      /\ ever' = ever /\ offered' = offered /\ time' = time
  BY <1>4, <1>7 DEF Claim
<1>10. PaidGood'
  <2>1. beneficiaries \in [People -> [claimedAmount : Nat, lastClaimTime : Nat]]
        /\ \A q \in People : (beneficiaries[q].claimedAmount > 0 => q \in ever)
                             /\ beneficiaries[q].claimedAmount <= offered
    BY DEF AirdropIInv, PaidGood
  <2>2. beneficiaries' \in [People -> [claimedAmount : Nat, lastClaimTime : Nat]]
    BY <1>5, <1>8, <1>9, <2>1
  <2>3. ASSUME NEW q \in People
        PROVE (beneficiaries'[q].claimedAmount > 0 => q \in ever) /\ beneficiaries'[q].claimedAmount <= offered
    <3>1. CASE q = p
      BY <1>6, <1>8, <1>9, <2>1, <3>1
    <3>2. CASE q # p
      BY <1>9, <2>1, <3>2
    <3> QED BY <3>1, <3>2
  <2> QED BY <1>5, <1>9, <2>2, <2>3 DEF PaidGood
<1> QED BY <1>1, <1>2, <1>3, <1>10 DEF AirdropIInv

LEMMA StepKeepsAirdrop == AirdropIInv /\ [AirdropV2Next]_airdropV2Vars => AirdropIInv'
<1> SUFFICES ASSUME AirdropIInv, [AirdropV2Next]_airdropV2Vars PROVE AirdropIInv'
  OBVIOUS
<1>1. ASSUME [SnapshotNext]_snapshotVars, UNCHANGED airdropVars PROVE AirdropIInv'
  <2>1. SnapshotIInv'
    BY <1>1, StepKeepsSnapshot DEF AirdropIInv
  <2>2. RootGood' /\ TermsGood' /\ PaidGood'
    BY <1>1 DEF airdropVars, AirdropIInv, RootGood, TermsGood, PaidGood, GenerateMerkleTree, LibraryTreeOf, Leaves
  <2> QED BY <2>1, <2>2 DEF AirdropIInv
<1>2. CASE UpdateMerkleRoot
  BY <1>2, UpdateMerkleRootKeeps
<1>3. ASSUME NEW change \in TermChanges, UpdateTerm(change[1], change[2]) PROVE AirdropIInv'
  BY <1>3, UpdateTermKeeps
<1>4. ASSUME NEW proof \in Proofs, NEW p \in People, Claim(p, proof) PROVE AirdropIInv'
  BY <1>4, ClaimKeeps
<1>5. CASE Wait
  <2>1. SnapshotIInv'
    <3>1. UNCHANGED snapshotVars
      BY <1>5 DEF Wait
    <3> QED BY <3>1, StepKeepsSnapshot DEF AirdropIInv
  <2>2. RootGood' /\ TermsGood' /\ PaidGood'
    BY <1>5 DEF Wait, AirdropIInv, RootGood, TermsGood, PaidGood, GenerateMerkleTree, LibraryTreeOf, Leaves
  <2> QED BY <2>1, <2>2 DEF AirdropIInv
<1> QED BY <1>1, <1>2, <1>3, <1>4, <1>5 DEF AirdropV2Next, airdropV2Vars

\* Whoever is on the list the root was made from proves it, and nobody is paid who never was on
\* one, or more than was ever offered.
\* AirdropPaysTheListed, for any people, lists of any length, and terms.
THEOREM TheListedAreProvedAndPaid == AirdropV2Spec => []AirdropPaysTheListed
<1>1. AirdropV2Init => AirdropIInv
  BY AirdropBegins
<1>2. AirdropIInv /\ [AirdropV2Next]_airdropV2Vars => AirdropIInv'
  BY StepKeepsAirdrop
<1>3. AirdropIInv => AirdropPaysTheListed
  BY AirdropPays
<1> QED BY <1>1, <1>2, <1>3, PTL DEF AirdropV2Spec

(***************************************************************************)
(* Sets in an order.                                                        *)
(***************************************************************************)
IsOrder(less, S) ==
  /\ \A x, y \in S : x # y => (<<x, y>> \in less <=> <<y, x>> \notin less)
  /\ \A x \in S : <<x, x>> \notin less
  /\ \A x, y, z \in S : <<x, y>> \in less /\ <<y, z>> \in less => <<x, z>> \in less
Below(x, S, less) == {y \in S : <<y, x>> \in less}

\* Every member of the set has a place in the sequence, of its own.
Lists(s, S) ==
  /\ s \in Seq(S) /\ Len(s) = Cardinality(S)
  /\ \A x \in S : \E i \in 1..Len(s) : s[i] = x
  /\ \A i, j \in 1..Len(s) : s[i] = s[j] => i = j

LEMMA BelowIs ==
  ASSUME NEW S, IsFiniteSet(S), NEW less, IsOrder(less, S), NEW x \in S
  PROVE  /\ IsFiniteSet(Below(x, S, less)) /\ Cardinality(Below(x, S, less)) \in Nat
         /\ Cardinality(Below(x, S, less)) < Cardinality(S)
         /\ \A y \in S : <<x, y>> \in less => Cardinality(Below(x, S, less)) < Cardinality(Below(y, S, less))
<1>1. ASSUME NEW A, NEW B, A \subseteq B, B \subseteq S, NEW b \in B, b \notin A
      PROVE  IsFiniteSet(A) /\ Cardinality(A) \in Nat /\ Cardinality(B) \in Nat /\ Cardinality(A) < Cardinality(B)
  <2>1. IsFiniteSet(B)
    BY <1>1, FS_Subset
  <2>2. IsFiniteSet(A) /\ Cardinality(A) <= Cardinality(B) /\ (Cardinality(B) = Cardinality(A) => B = A)
    BY <1>1, <2>1, FS_Subset
  <2>3. Cardinality(A) \in Nat /\ Cardinality(B) \in Nat
    BY <2>1, <2>2, FS_CardinalityType
  <2>4. B # A
    BY <1>1
  <2> QED BY <2>2, <2>3, <2>4
<1>2. Below(x, S, less) \subseteq S /\ x \notin Below(x, S, less)
  BY DEF Below, IsOrder
<1>3. ASSUME NEW y \in S, <<x, y>> \in less
      PROVE  Below(x, S, less) \subseteq Below(y, S, less) /\ Below(y, S, less) \subseteq S /\ x \in Below(y, S, less)
  BY <1>3 DEF Below, IsOrder
<1>4. ASSUME NEW y \in S, <<x, y>> \in less
      PROVE  Cardinality(Below(x, S, less)) < Cardinality(Below(y, S, less))
  <2>1. PICK A, B : A = Below(x, S, less) /\ B = Below(y, S, less)
    OBVIOUS
  <2>2. A \subseteq B /\ B \subseteq S /\ x \in B /\ x \notin A
    BY <1>2, <1>3, <1>4, <2>1
  <2> QED BY <1>1, <2>1, <2>2
<1>5. PICK A : A = Below(x, S, less)
  OBVIOUS
<1>6. IsFiniteSet(A) /\ Cardinality(A) \in Nat /\ Cardinality(A) < Cardinality(S)
  BY <1>1, <1>2, <1>5
<1> QED BY <1>4, <1>5, <1>6

LEMMA InOrderIs ==
  ASSUME NEW S, IsFiniteSet(S), NEW less, IsOrder(less, S)
  PROVE  Lists(InOrder(S, less), S)
<1>1. PICK n \in Nat : n = Cardinality(S)
  BY FS_CardinalityType
<1>2. PICK rank : rank = [x \in S |-> Cardinality(Below(x, S, less)) + 1]
  OBVIOUS
<1>3. ASSUME NEW x \in S
      PROVE  /\ rank[x] = Cardinality(Below(x, S, less)) + 1 /\ rank[x] \in 1..n
             /\ \A y \in S : <<x, y>> \in less => rank[x] < rank[y]
  <2>1. rank[x] = Cardinality(Below(x, S, less)) + 1
    BY <1>2
  <2>2. Cardinality(Below(x, S, less)) \in Nat /\ Cardinality(Below(x, S, less)) < n
    BY <1>1, BelowIs
  <2>3. ASSUME NEW y \in S, <<x, y>> \in less PROVE rank[x] < rank[y]
    <3>1. Cardinality(Below(x, S, less)) < Cardinality(Below(y, S, less))
      BY <2>3, BelowIs
    <3>2. Cardinality(Below(y, S, less)) \in Nat
      BY BelowIs
    <3>3. rank[y] = Cardinality(Below(y, S, less)) + 1
      BY <1>2
    <3> QED BY <2>1, <2>2, <3>1, <3>2, <3>3
  <2> QED BY <2>1, <2>2, <2>3
<1>4. \A x, y \in S : rank[x] = rank[y] => x = y
  <2> SUFFICES ASSUME NEW x \in S, NEW y \in S, rank[x] = rank[y], x # y PROVE FALSE
    OBVIOUS
  <2>1. rank[x] < rank[y] \/ rank[y] < rank[x]
    BY <1>3 DEF IsOrder
  <2>2. rank[x] \in Nat /\ rank[y] \in Nat
    BY <1>3
  <2> QED BY <2>1, <2>2
<1>5. rank \in Injection(S, 1..n)
  <2>1. rank \in [S -> 1..n]
    BY <1>2, <1>3
  <2> QED BY <1>4, <2>1 DEF Injection, IsInjective
<1>6. \A k \in 1..n : \E x \in S : rank[x] = k
  <2>1. IsFiniteSet(1..n) /\ Cardinality(1..n) = n
    BY FS_Interval
  <2>2. rank \in Surjection(S, 1..n)
    BY <1>1, <1>5, <2>1, FS_Injection
  <2> QED BY <2>2 DEF Surjection
<1>7. PICK s : s = InOrder(S, less)
  OBVIOUS
<1>8. ASSUME NEW k \in 1..n PROVE s[k] \in S /\ rank[s[k]] = k
  <2>1. s[k] = CHOOSE x \in S : Cardinality({y \in S : <<y, x>> \in less}) = k - 1
    BY <1>1, <1>7 DEF InOrder
  <2>2. \E x \in S : Cardinality({y \in S : <<y, x>> \in less}) = k - 1
    <3>1. PICK x \in S : rank[x] = k
      BY <1>6
    <3>2. Cardinality(Below(x, S, less)) + 1 = k /\ Cardinality(Below(x, S, less)) \in Nat
      BY <1>3, <3>1, BelowIs
    <3>3. Cardinality(Below(x, S, less)) = k - 1
      BY <3>2
    <3> QED BY <3>3 DEF Below
  <2>3. s[k] \in S /\ Cardinality({y \in S : <<y, s[k]>> \in less}) = k - 1
    <3>1. PICK c : c = CHOOSE x \in S : Cardinality({y \in S : <<y, x>> \in less}) = k - 1
      OBVIOUS
    <3>2. c \in S /\ Cardinality({y \in S : <<y, c>> \in less}) = k - 1
      BY <2>2, <3>1
    <3> QED BY <2>1, <3>1, <3>2
  <2>4. Cardinality(Below(s[k], S, less)) = k - 1
    BY <2>3 DEF Below
  <2> QED BY <1>3, <2>3, <2>4
<1>9. s \in Seq(S) /\ Len(s) = n
  <2> DEFINE c(k) == CHOOSE x \in S : Cardinality({y \in S : <<y, x>> \in less}) = k - 1
  <2>0. s = [k \in 1..n |-> c(k)]
    BY <1>1, <1>7 DEF InOrder
  <2> HIDE DEF c
  <2>1. s = [k \in 1..n |-> s[k]]
    BY <2>0
  <2>2. s \in [1..n -> S]
    BY <1>8, <2>1
  <2> QED BY <2>2
<1>10. ASSUME NEW x \in S PROVE \E i \in 1..n : s[i] = x
  BY <1>3, <1>4, <1>8
<1>11. \A i, j \in 1..n : s[i] = s[j] => i = j
  BY <1>8
<1> QED BY <1>1, <1>7, <1>9, <1>10, <1>11 DEF Lists

\* Numbers in their order, and nodes of one number.
LEMMA NumbersInOrder == ASSUME NEW S, S \subseteq Nat PROVE IsOrder({p \in S \X S : p[1] < p[2]}, S)
<1>1. \A x, y \in S : <<x, y>> \in {p \in S \X S : p[1] < p[2]} <=> x < y
  OBVIOUS
<1> QED BY <1>1 DEF IsOrder

LEMMA LeavesPrecede == ASSUME NEW m \in Nat, NEW n \in Nat PROVE Precedes(<<m>>, <<n>>) <=> m < n
<1>1. PICK a, b : a = <<m>> /\ b = <<n>>
  OBVIOUS
<1>2. Len(a) = 1 /\ a[1] = m /\ Len(b) = 1 /\ b[1] = n
  BY <1>1
<1>3. \A i : i \in Differ(a, b) <=> i = 1 /\ a[1] # b[1]
  <2>1. \A i : i \in 1..1 <=> i = 1
    OBVIOUS
  <2>2. \A i : i \in Differ(a, b) <=> i \in 1..1 /\ (i > 1 \/ a[i] # b[i])
    BY <1>2, DifferIs
  <2> QED BY <2>1, <2>2
<1>4. CASE m = n
  <2>1. Differ(a, b) = {}
    BY <1>2, <1>3, <1>4
  <2>2. Precedes(a, b) <=> Len(a) < Len(b)
    BY <2>1 DEF Precedes
  <2> QED BY <1>1, <1>2, <1>4, <2>2
<1>5. CASE m # n
  <2>1. 1 \in Differ(a, b)
    BY <1>2, <1>3, <1>5
  <2>2. a \in Seq(Nat) /\ b \in Seq(Nat)
    BY <1>1
  <2>3. PICK i : IsFirst(i, a, b) /\ (Precedes(a, b) <=> i <= Len(b) /\ a[i] < b[i])
    BY <2>1, <2>2, FirstDiffers
  <2>4. i = 1
    BY <1>3, <2>3 DEF IsFirst
  <2> QED BY <1>1, <1>2, <2>3, <2>4
<1> QED BY <1>4, <1>5

AreLeafNodes(S) == \A x \in S : \E n \in Nat \ {0} : x = <<n>>

LEMMA NodesInOrder ==
  ASSUME NEW S, AreLeafNodes(S) PROVE IsOrder({p \in S \X S : Precedes(p[1], p[2])}, S)
<1>1. PICK less : less = {p \in S \X S : Precedes(p[1], p[2])}
  OBVIOUS
<1>2. PICK f : f = [x \in S |-> x[1]]
  OBVIOUS
<1>3. ASSUME NEW x \in S PROVE f[x] \in Nat /\ x = <<f[x]>>
  BY <1>2 DEF AreLeafNodes
<1>4. ASSUME NEW x \in S, NEW y \in S PROVE <<x, y>> \in less <=> f[x] < f[y]
  <2>1. <<x, y>> \in less <=> Precedes(x, y)
    BY <1>1
  <2>2. PICK m, n \in Nat : m = f[x] /\ n = f[y]
    BY <1>3
  <2>3. x = <<m>> /\ y = <<n>>
    BY <1>3, <2>2
  <2>4. Precedes(<<m>>, <<n>>) <=> m < n
    BY LeavesPrecede
  <2> QED BY <2>1, <2>2, <2>3, <2>4
<1>5. \A x, y \in S : f[x] = f[y] => x = y
  BY <1>3
<1> QED BY <1>1, <1>3, <1>4, <1>5 DEF IsOrder

(***************************************************************************)
(* The first airdrop.                                                       *)
(***************************************************************************)
\* A sum over part of the summands, found by another name.
LEMMA SumRenamed ==
  ASSUME NEW D, IsFiniteSet(D), NEW g, \A d \in D : g[d] \in Nat,
         NEW C, NEW h \in Injection(C, D), NEW f, \A c \in C : f[c] = g[h[c]]
  PROVE  IsFiniteSet(C) /\ SumFunctionOnSet(f, C) \in Nat /\ SumFunctionOnSet(f, C) <= SumFunctionOnSet(g, D)
<1>1. IsFiniteSet(C)
  BY FS_Injection
<1>2. h \in [C -> D] /\ \A c, d \in C : h[c] = h[d] => c = d
  BY DEF Injection, IsInjective
<1> DEFINE Image(T) == {h[c] : c \in T}
           P == {T \in SUBSET C : SumFunctionOnSet(f, T) = SumFunctionOnSet(g, Image(T))}
<1>3. {} \in P
  <2>1. Image({}) = {}
    OBVIOUS
  <2> QED BY <2>1, SumEmpty
<1>4. ASSUME NEW T \in SUBSET C, NEW x \in C, x \notin T, T \in P PROVE T \cup {x} \in P
  <2>1. IsFiniteSet(T)
    BY <1>1, FS_Subset
  <2>2. \A y \in T \cup {x} : f[y] \in Int
    BY <1>2
  <2>3. SumFunctionOnSet(f, T \cup {x}) = f[x] + SumFunctionOnSet(f, T)
    BY <1>4, <2>1, <2>2, SumAdd
  <2>4. PICK I, z : I = Image(T) /\ z = h[x]
    OBVIOUS
  <2>5. I \subseteq D /\ z \in D /\ z \notin I /\ Image(T \cup {x}) = I \cup {z}
    BY <1>2, <1>4, <2>4
  <2>6. IsFiniteSet(I)
    BY <2>5, FS_Subset
  <2>7. \A y \in I \cup {z} : g[y] \in Int
    BY <2>5
  <2>8. SumFunctionOnSet(g, I \cup {z}) = g[z] + SumFunctionOnSet(g, I)
    BY <2>5, <2>6, <2>7, SumAdd
  <2>9. f[x] = g[z] /\ SumFunctionOnSet(f, T) = SumFunctionOnSet(g, I)
    BY <1>4, <2>4
  <2>10. SumFunctionOnSet(f, T \cup {x}) = SumFunctionOnSet(g, Image(T \cup {x}))
    BY <2>3, <2>5, <2>8, <2>9
  <2> QED BY <2>10
<1>5. SUBSET C \subseteq P
  <2> HIDE DEF P
  <2> QED BY <1>1, <1>3, <1>4, SubsetInduction
<1>6. PICK I : I = Image(C)
  OBVIOUS
<1>7. I \in SUBSET D /\ SumFunctionOnSet(f, C) = SumFunctionOnSet(g, I)
  BY <1>2, <1>5, <1>6
<1>8. SumFunctionOnSet(g, I) \in Nat /\ SumFunctionOnSet(g, I) <= SumFunctionOnSet(g, D)
  BY <1>7, SumPart
<1> QED BY <1>1, <1>7, <1>8

IndexRange == 0..(Cardinality(Everybody) - 1)
Claims == [index : IndexRange, account : Everybody, amount : Amounts, proof : Seq(Hashes)]
NodeOf(c) == ToNode(c.index, c.account, c.amount)
IsLeafOf(c, index, account, amount) == c.index = index /\ c.account = account /\ c.amount = amount

\* The file: claims that pass the check, of different accounts at different indices, for
\* no more than there is; and no proof is good for anything else.
FileGood ==
  /\ file.claims \subseteq Claims /\ IsFiniteSet(file.claims)
  /\ \A c, d \in file.claims : c.index = d.index \/ c.account = d.account => c = d
  /\ \A c \in file.claims : HashAbove(NodeOf(c), c.proof) = file.root
  /\ \A index \in IndexRange, account \in Everybody, amount \in Amounts, proof \in Seq(Hashes) :
       HashAbove(ToNode(index, account, amount), proof) = file.root
         => \E c \in file.claims : IsLeafOf(c, index, account, amount)
  /\ TotalOf(file.claims) <= Supply
DropPaid ==
  /\ balance \in Nat /\ taken \in Nat /\ received \in [Everybody -> Nat]
  /\ balance + taken + TotalOf(file.claims \ Unclaimed) = Supply
  /\ \A a \in Everybody :
       received[a] # 0 => \E c \in file.claims \ Unclaimed : c.account = a /\ c.amount = received[a]
DropIInv == hash \in DOMAIN Keccak /\ FileGood /\ DropPaid

LEMMA EarningsAre ==
  /\ \A n \in Amounts : n \in Nat
  /\ \A a \in Everybody : a \in Nat
  /\ \A t \in Tables : /\ Len(t) \in Nat /\ DOMAIN t = 1..Len(t)
                       /\ \A i \in DOMAIN t : t[i].earnings \in Nat /\ t[i].earnings \in Amounts
                                              /\ t[i].address[1] \in AccountsOf(t)
                       /\ AccountsOf(t) \subseteq Everybody
                       /\ \A a \in AccountsOf(t) : \E i \in DOMAIN t : t[i].address[1] = a
<1>1. ASSUME NEW t \in Tables, NEW i \in DOMAIN t
      PROVE  t[i].earnings \in Nat /\ t[i].address[1] \in Nat
  <2>1. PICK R : R = [address : Nat \X STRING, earnings : Nat]
    OBVIOUS
  <2>2. t \in Seq(R)
    BY <2>1, DistributorAssumption
  <2>3. t[i] \in R
    BY <2>2
  <2> QED BY <2>1, <2>3
<1>2. ASSUME NEW t \in Tables PROVE Len(t) \in Nat /\ DOMAIN t = 1..Len(t)
  BY DistributorAssumption
<1>3. \A t \in Tables : AccountsOf(t) = {t[i].address[1] : i \in DOMAIN t}
  BY DEF AccountsOf, AddressesOf
<1>4. \A n \in Amounts : n \in Nat
  BY <1>1 DEF Amounts
<1>5. \A a \in Everybody : a \in Nat
  BY <1>1, <1>3 DEF Everybody
<1> QED BY <1>1, <1>2, <1>3, <1>4, <1>5 DEF Amounts, Everybody

LEMMA ToNodeIs ==
  ASSUME hash \in DOMAIN Keccak, NEW i \in IndexRange, NEW a \in Everybody, NEW n \in Amounts
  PROVE  /\ \E m \in Nat \ {0} : ToNode(i, a, n) = <<m>>
         /\ ToNode(i, a, n) \in Hashes
<1>1. <<i, a, n>> \in LeafData
  BY DEF LeafData, IndexRange
<1>2. PICK m \in Nat \ {0} : m = Keccak[hash][<<i, a, n>>]
  BY <1>1, DistributorAssumption
<1>3. ToNode(i, a, n) = <<m>>
  BY <1>2 DEF ToNode
<1> QED BY <1>3, LeafIsHash

LEMMA ToNodeTellsApart ==
  ASSUME hash \in DOMAIN Keccak, NEW i \in IndexRange, NEW a \in Everybody, NEW n \in Amounts,
         NEW j \in IndexRange, NEW b \in Everybody, NEW m \in Amounts, ToNode(i, a, n) = ToNode(j, b, m)
  PROVE  i = j /\ a = b /\ n = m
<1>1. <<i, a, n>> \in LeafData /\ <<j, b, m>> \in LeafData
  BY DEF LeafData, IndexRange
<1>2. Keccak[hash][<<i, a, n>>] = Keccak[hash][<<j, b, m>>]
  BY DEF ToNode
<1>3. <<i, a, n>> = <<j, b, m>>
  BY <1>1, <1>2, DistributorAssumption
<1> QED BY <1>3

\* The claims of a table, in the order of its accounts, and the nodes of the tree.
ClaimAt(i, order, amounts, tree) ==
  [index |-> i - 1, account |-> order[i], amount |-> amounts[i],
   proof |-> ProofOf(tree, i - 1, order[i], amounts[i])]

IsParsed(f, table, order, amounts, nodes, tree, n) ==
  /\ n \in Nat /\ n >= 1 /\ n <= Cardinality(Everybody) /\ Lists(order, AccountsOf(table)) /\ Len(order) = n
  /\ amounts = [i \in 1..n |-> EarningsOf(table, order[i])]
  /\ nodes = [i \in 1..n |-> ToNode(i - 1, order[i], amounts[i])]
  /\ tree = TreeOf(nodes)
  /\ f = [root |-> Root(tree), claims |-> {ClaimAt(i, order, amounts, tree) : i \in 1..n}]

LEMMA ParsedIs ==
  ASSUME NEW table \in Tables, table # << >>
  PROVE  \E order, amounts, nodes, tree, n : IsParsed(ParseBalanceMap(table), table, order, amounts, nodes, tree, n)
<1> DEFINE A == AccountsOf(table)
           less == {p \in A \X A : p[1] < p[2]}
           order == InOrder(A, less)
           amounts == [i \in DOMAIN order |-> EarningsOf(table, order[i])]
           tree == BalanceTree(order, amounts)
<1>1. ParseBalanceMap(table)
        = [root |-> Root(tree), claims |-> {ClaimAt(i, order, amounts, tree) : i \in DOMAIN order}]
  BY DEF ParseBalanceMap, ClaimAt
<1> HIDE DEF A, less, order, amounts, tree
<1>2. A = AccountsOf(table) /\ less = {p \in A \X A : p[1] < p[2]} /\ order = InOrder(A, less)
  BY DEF A, less, order
<1>3. A \subseteq Everybody /\ A \subseteq Nat /\ A # {}
  <2>1. 1 \in DOMAIN table
    <3>1. Len(table) \in Nat /\ DOMAIN table = 1..Len(table) /\ Len(table) # 0
      <4>1. table \in Seq([address : Nat \X STRING, earnings : Nat])
        BY DistributorAssumption
      <4> QED BY <4>1
    <3> QED BY <3>1
  <2> QED BY <1>2, <2>1, EarningsAre
<1>4. IsFiniteSet(A) /\ Cardinality(A) <= Cardinality(Everybody)
  BY <1>3, FS_Subset, DistributorAssumption
<1>5. PICK n \in Nat : n = Cardinality(A) /\ n >= 1
  <2>1. Cardinality(A) \in Nat /\ Cardinality(A) # 0
    BY <1>3, <1>4, FS_CardinalityType, FS_EmptySet
  <2> QED BY <2>1
<1>6. Lists(order, A)
  <2>1. IsOrder(less, A)
    BY <1>2, <1>3, NumbersInOrder
  <2> QED BY <1>2, <1>4, <2>1, InOrderIs
<1>7. Len(order) = n /\ DOMAIN order = 1..n
  BY <1>5, <1>6 DEF Lists
<1>8. amounts = [i \in 1..n |-> EarningsOf(table, order[i])]
  BY <1>7 DEF amounts
<1>9. PICK nodes : nodes = [i \in 1..n |-> ToNode(i - 1, order[i], amounts[i])]
  OBVIOUS
<1>10. tree = TreeOf(nodes)
  BY <1>7, <1>9 DEF tree, BalanceTree
<1>11. ParseBalanceMap(table) = [root |-> Root(tree), claims |-> {ClaimAt(i, order, amounts, tree) : i \in 1..n}]
  BY <1>1, <1>7
<1>12. n <= Cardinality(Everybody) /\ Lists(order, AccountsOf(table))
  BY <1>2, <1>4, <1>5, <1>6
<1>13. IsParsed(ParseBalanceMap(table), table, order, amounts, nodes, tree, n)
  BY <1>5, <1>7, <1>8, <1>9, <1>10, <1>11, <1>12 DEF IsParsed
<1> QED BY <1>13

\* What a table is made into, for every place in the order of its accounts.
LEMMA PlaceIs ==
  ASSUME hash \in DOMAIN Keccak, NEW table \in Tables, NEW f, NEW order, NEW amounts, NEW nodes, NEW tree, NEW n,
         IsParsed(f, table, order, amounts, nodes, tree, n), NEW i \in 1..n
  PROVE  /\ i - 1 \in IndexRange /\ order[i] \in Everybody /\ amounts[i] \in Amounts
         /\ nodes[i] = ToNode(i - 1, order[i], amounts[i])
         /\ \E row \in DOMAIN table : /\ table[row].address[1] = order[i] /\ table[row].earnings = amounts[i]
                                      /\ row = CHOOSE r \in DOMAIN table : table[r].address[1] = order[i]
<1>1. n \in Nat /\ n <= Cardinality(Everybody) /\ Cardinality(Everybody) \in Nat
  BY DistributorAssumption, FS_CardinalityType DEF IsParsed
<1>2. i - 1 \in IndexRange
  BY <1>1 DEF IndexRange
<1>3. order[i] \in AccountsOf(table)
  <2>1. order \in Seq(AccountsOf(table)) /\ Len(order) = n
    BY DEF IsParsed, Lists
  <2> QED BY <2>1
<1>4. PICK a : a = order[i]
  OBVIOUS
<1>5. \E r \in DOMAIN table : table[r].address[1] = a
  BY <1>3, <1>4, EarningsAre
<1>6. PICK row : row = CHOOSE r \in DOMAIN table : table[r].address[1] = a
  OBVIOUS
<1>7. row \in DOMAIN table /\ table[row].address[1] = a
  BY <1>5, <1>6
<1>8. amounts[i] = table[row].earnings
  BY <1>4, <1>6 DEF IsParsed, EarningsOf
<1>9. amounts[i] \in Amounts /\ a \in Everybody
  BY <1>3, <1>4, <1>7, <1>8, EarningsAre
<1>10. nodes[i] = ToNode(i - 1, order[i], amounts[i])
  BY DEF IsParsed
<1> QED BY <1>2, <1>4, <1>6, <1>7, <1>8, <1>9, <1>10

LEMMA TreeOfIs ==
  ASSUME NEW n \in Nat, n >= 1, NEW q, DOMAIN q = 1..n, \A i \in 1..n : \E m \in Nat \ {0} : q[i] = <<m>>
  PROVE  \E e \in Nodes : IsTree(TreeOf(q), e) /\ AreLeaves(e) /\ Range(e) = Range(q)
<1>1. PICK S : S = Range(q)
  OBVIOUS
<1>2. AreLeafNodes(S) /\ S # {} /\ \A i \in 1..n : q[i] \in S
  <2>1. S = {q[i] : i \in 1..n} /\ 1 \in 1..n
    BY <1>1 DEF Range
  <2> QED BY <2>1 DEF AreLeafNodes
<1>3. IsFiniteSet(S)
  <2>1. PICK g : g = [i \in 1..n |-> q[i]]
    OBVIOUS
  <2>2. \A x \in S : \E i \in 1..n : g[i] = x
    BY <1>1, <2>1 DEF Range
  <2>3. g \in Surjection(1..n, S)
    BY <1>2, <2>1, <2>2 DEF Surjection
  <2>4. IsFiniteSet(1..n)
    BY ONLY n \in Nat, FS_Interval
  <2> QED BY <2>3, <2>4, FS_Surjection
<1>4. PICK less : less = {p \in S \X S : Precedes(p[1], p[2])}
  OBVIOUS
<1>5. PICK e : e = InOrder(S, less)
  OBVIOUS
<1>6. Lists(e, S)
  <2>1. IsOrder(less, S)
    BY <1>2, <1>4, NodesInOrder
  <2> QED BY <1>3, <1>5, <2>1, InOrderIs
<1>7. S \subseteq Hashes
  BY <1>2, LeafIsHash DEF AreLeafNodes
<1>8. e \in Seq(S) /\ Len(e) \in Nat /\ DOMAIN e = 1..Len(e) /\ \A i \in 1..Len(e) : e[i] \in S
  BY <1>6 DEF Lists
<1>9. Range(e) = S
  BY <1>6, <1>8 DEF Range, Lists
<1>10. e \in Nodes
  <2>1. e \in Seq(Hashes)
    BY <1>7, <1>8
  <2>2. e # << >>
    BY <1>2, <1>9 DEF Range
  <2> QED BY <2>1, <2>2 DEF Nodes
<1>11. AreLeaves(e)
  BY <1>2, <1>8 DEF AreLeaves, AreLeafNodes
<1>12. TreeOf(q) = Layers(e)
  BY <1>1, <1>4, <1>5 DEF TreeOf
<1>13. IsTree(TreeOf(q), e)
  BY <1>10, <1>12, LayersAreTree
<1> QED BY <1>1, <1>9, <1>10, <1>11, <1>13

LEMMA FailedIsGood == ASSUME file = Failed PROVE hash \in DOMAIN Keccak => FileGood
<1> SUFFICES ASSUME hash \in DOMAIN Keccak PROVE FileGood
  OBVIOUS
<1>1. file.claims = {} /\ file.root = NoNode
  BY DEF Failed
<1>2. ASSUME NEW i \in IndexRange, NEW a \in Everybody, NEW k \in Amounts, NEW p \in Seq(Hashes)
      PROVE  HashAbove(ToNode(i, a, k), p) # NoNode
  <2>1. PICK x : x = ToNode(i, a, k)
    OBVIOUS
  <2>2. x \in Hashes
    BY <2>1, ToNodeIs
  <2>3. PICK f : Rises(f, x, p) /\ HashAbove(x, p) = f[Len(p)]
    BY <2>2, HashAboveIs
  <2>4. Len(p) \in Nat /\ Len(p) \in 0..Len(p)
    OBVIOUS
  <2>5. HashAbove(x, p) \in Hashes
    BY <2>3, <2>4 DEF Rises
  <2> QED BY <2>1, <2>5, HashIs
<1>3. IsFiniteSet(file.claims)
  BY <1>1, FS_EmptySet
<1>4. TotalOf(file.claims) <= Supply
  BY <1>1, SumEmpty, DistributorAssumption DEF TotalOf
<1> QED BY <1>1, <1>2, <1>3, <1>4 DEF FileGood

LEMMA ParsedIsGood ==
  ASSUME hash \in DOMAIN Keccak, NEW table \in Tables, table # << >>, file = ParseBalanceMap(table)
  PROVE  FileGood
<1>1. PICK order, amounts, nodes, tree, n : IsParsed(file, table, order, amounts, nodes, tree, n)
  BY ParsedIs
<1>2. /\ n \in Nat /\ n >= 1 /\ DOMAIN nodes = 1..n /\ tree = TreeOf(nodes) /\ file.root = Root(tree)
      /\ file.claims = {ClaimAt(i, order, amounts, tree) : i \in 1..n}
      /\ \A i, j \in 1..n : order[i] = order[j] => i = j
  BY <1>1 DEF IsParsed, Lists
<1>3. ASSUME NEW i \in 1..n
      PROVE  /\ i - 1 \in IndexRange /\ order[i] \in Everybody /\ amounts[i] \in Amounts
             /\ nodes[i] = ToNode(i - 1, order[i], amounts[i])
  BY <1>1, PlaceIs
<1>4. \A i \in 1..n : \E m \in Nat \ {0} : nodes[i] = <<m>>
  BY <1>3, ToNodeIs
<1>5. PICK e \in Nodes : IsTree(tree, e) /\ AreLeaves(e) /\ Range(e) = Range(nodes)
  BY <1>2, <1>4, TreeOfIs
<1>6. \A x : x \in Range(e) <=> \E i \in 1..n : x = nodes[i]
  BY <1>2, <1>5 DEF Range
<1>7. ASSUME NEW i \in 1..n
      PROVE  Proof(tree, nodes[i]) \in Seq(Hashes) /\ HashAbove(nodes[i], Proof(tree, nodes[i])) = file.root
  BY <1>2, <1>5, <1>6, ProofLeadsUp
<1>8. ASSUME NEW i \in 1..n, NEW c, c = ClaimAt(i, order, amounts, tree)
      PROVE  /\ c \in Claims /\ NodeOf(c) = nodes[i] /\ c.proof = Proof(tree, nodes[i])
             /\ c.index = i - 1 /\ c.account = order[i] /\ c.amount = amounts[i]
  <2>1. PICK p : p = Proof(tree, nodes[i])
    OBVIOUS
  <2>2. c = [index |-> i - 1, account |-> order[i], amount |-> amounts[i], proof |-> p]
    BY <1>3, <1>8, <2>1 DEF ClaimAt, ProofOf
  <2>3. p \in Seq(Hashes)
    BY <1>7, <2>1
  <2>4. c \in Claims
    BY <1>3, <2>2, <2>3 DEF Claims
  <2> QED BY <1>3, <2>1, <2>2, <2>4 DEF NodeOf
<1>9. ASSUME NEW c \in file.claims PROVE \E i \in 1..n : c = ClaimAt(i, order, amounts, tree)
  BY <1>2
<1>10. file.claims \subseteq Claims
  BY <1>8, <1>9
<1>11. \A c, d \in file.claims : c.index = d.index \/ c.account = d.account => c = d
  <2> SUFFICES ASSUME NEW c \in file.claims, NEW d \in file.claims, c.index = d.index \/ c.account = d.account
               PROVE  c = d
    OBVIOUS
  <2>1. PICK i \in 1..n : c = ClaimAt(i, order, amounts, tree)
    BY <1>9
  <2>2. PICK j \in 1..n : d = ClaimAt(j, order, amounts, tree)
    BY <1>9
  <2>3. c.index = i - 1 /\ d.index = j - 1 /\ c.account = order[i] /\ d.account = order[j]
    BY <1>8, <2>1, <2>2
  <2>4. i = j
    BY <1>2, <2>3
  <2> QED BY <2>1, <2>2, <2>4
<1>12. \A c \in file.claims : HashAbove(NodeOf(c), c.proof) = file.root
  <2> TAKE c \in file.claims
  <2>1. PICK i \in 1..n : c = ClaimAt(i, order, amounts, tree)
    BY <1>9
  <2> QED BY <1>7, <1>8, <2>1
<1>13. ASSUME NEW i \in IndexRange, NEW a \in Everybody, NEW k \in Amounts, NEW p \in Seq(Hashes),
              HashAbove(ToNode(i, a, k), p) = file.root
       PROVE  \E c \in file.claims : IsLeafOf(c, i, a, k)
  <2>1. PICK m \in Nat \ {0} : ToNode(i, a, k) = <<m>>
    BY ToNodeIs
  <2>2. HashAbove(<<m>>, p) = Root(tree)
    BY <1>2, <1>13, <2>1
  <2>3. <<m>> \in Range(e)
    BY <1>5, <2>2, OnlyLeavesLeadUp
  <2>4. PICK j \in 1..n : ToNode(i, a, k) = nodes[j]
    BY <1>6, <2>1, <2>3
  <2>5. i = j - 1 /\ a = order[j] /\ k = amounts[j]
    <3>1. ToNode(i, a, k) = ToNode(j - 1, order[j], amounts[j])
      BY <1>3, <2>4
    <3> QED BY <1>3, <3>1, ToNodeTellsApart
  <2>6. PICK c : c = ClaimAt(j, order, amounts, tree)
    OBVIOUS
  <2>7. c \in file.claims
    BY <1>2, <2>6
  <2> QED BY <1>8, <2>5, <2>6, <2>7 DEF IsLeafOf
<1>14. IsFiniteSet(file.claims) /\ TotalOf(file.claims) <= Supply
  <2>1. PICK C, D : C = file.claims /\ D = DOMAIN table
    OBVIOUS
  <2>2. PICK f, g : f = [c \in C |-> c.amount] /\ g = [i \in D |-> table[i].earnings]
    OBVIOUS
  <2>3. PICK h : h = [c \in C |-> CHOOSE r \in D : table[r].address[1] = c.account]
    OBVIOUS
  <2>4. ASSUME NEW c \in C PROVE h[c] \in D /\ table[h[c]].address[1] = c.account /\ f[c] = g[h[c]]
    <3>1. PICK i \in 1..n : c = ClaimAt(i, order, amounts, tree)
      BY <1>9, <2>1
    <3>2. c.account = order[i] /\ c.amount = amounts[i]
      BY <1>8, <3>1
    <3>3. PICK row \in D : /\ table[row].address[1] = order[i] /\ table[row].earnings = amounts[i]
                           /\ row = CHOOSE r \in D : table[r].address[1] = order[i]
      BY <1>1, <2>1, PlaceIs
    <3>4. h[c] = CHOOSE r \in D : table[r].address[1] = c.account
      BY <2>3
    <3>5. h[c] = row
      BY <3>2, <3>3, <3>4
    <3> QED BY <2>2, <3>2, <3>3, <3>5
  <2>5. \A c, d \in C : h[c] = h[d] => c = d
    BY <1>11, <2>1, <2>4
  <2>6. h \in Injection(C, D)
    <3>1. h \in [C -> D]
      BY <2>3, <2>4
    <3> QED BY <2>5, <3>1 DEF Injection, IsInjective
  <2>7. IsFiniteSet(D) /\ \A i \in D : g[i] \in Nat
    <3>1. D = 1..Len(table) /\ Len(table) \in Nat /\ \A i \in D : table[i].earnings \in Nat
      BY <2>1, EarningsAre
    <3>2. IsFiniteSet(D)
      <4>1. 1 \in Int /\ Len(table) \in Int
        BY <3>1
      <4> QED BY <3>1, <4>1, FS_Interval
    <3>3. \A i \in D : g[i] = table[i].earnings
      BY <2>2
    <3> QED BY <3>1, <3>2, <3>3
  <2>8. IsFiniteSet(C) /\ SumFunctionOnSet(f, C) \in Nat /\ SumFunctionOnSet(f, C) <= SumFunctionOnSet(g, D)
    BY <2>4, <2>6, <2>7, SumRenamed
  <2>9. SumFunctionOnSet(g, D) <= Supply
    BY <2>1, <2>2, DistributorAssumption DEF SumOf
  <2>10. SumFunctionOnSet(g, D) \in Nat /\ Supply \in Nat
    BY <2>7, SumNat, DistributorAssumption
  <2>11. TotalOf(file.claims) = SumFunctionOnSet(f, C)
    BY <2>1, <2>2 DEF TotalOf
  <2> QED BY <2>1, <2>8, <2>9, <2>10, <2>11
<1> QED BY <1>10, <1>11, <1>12, <1>13, <1>14 DEF FileGood

LEMMA DropProofsAre == ASSUME FileGood, NEW p \in DropProofs PROVE p \in Seq(Hashes)
<1>0. CASE p \in OtherProofs
  BY <1>0, DistributorAssumption DEF Hashes
<1> SUFFICES ASSUME p \notin OtherProofs PROVE p \in Seq(Hashes)
  BY <1>0
<1>1. PICK c \in file.claims :
        p \in {c.proof, SubSeq(c.proof, 2, Len(c.proof)), SubSeq(c.proof, 1, Len(c.proof) - 1)}
  BY DEF DropProofs
<1>2. PICK s : s = c.proof
  OBVIOUS
<1>3. s \in Seq(Hashes) /\ Len(s) \in Nat
  BY <1>2 DEF FileGood, Claims
<1>4. SubSeq(s, 2, Len(s)) \in Seq(Hashes)
  <2>1. \A i \in 2..Len(s) : s[i] \in Hashes
    BY <1>3
  <2> QED BY <1>3, <2>1, SubSeqProperties
<1>5. SubSeq(s, 1, Len(s) - 1) \in Seq(Hashes)
  <2>1. \A i \in 1..(Len(s) - 1) : s[i] \in Hashes
    BY <1>3
  <2> QED BY <1>3, <2>1, SubSeqProperties
<1> QED BY <1>1, <1>2, <1>3, <1>4, <1>5

\* What is claimed and what is not are all there is.
LEMMA ClaimedAndNot ==
  ASSUME FileGood, NEW S, S \subseteq file.claims
  PROVE  /\ IsFiniteSet(S) /\ TotalOf(S) \in Nat /\ TotalOf(file.claims \ S) \in Nat
         /\ TotalOf(file.claims \ S) + TotalOf(S) = TotalOf(file.claims)
         /\ \A c \in file.claims : c.amount \in Nat /\ (c \notin S => TotalOf(S \cup {c}) = c.amount + TotalOf(S))
<1>1. PICK C, f : C = file.claims /\ f = [c \in C |-> c.amount]
  OBVIOUS
<1>2. \A T : TotalOf(T) = SumFunctionOnSet(f, T)
  BY <1>1 DEF TotalOf
<1>3. \A c \in C : f[c] = c.amount /\ f[c] \in Nat
  BY <1>1, EarningsAre DEF FileGood, Claims
<1>4. PICK U : U = C \ S
  OBVIOUS
<1>5. IsFiniteSet(C) /\ IsFiniteSet(S) /\ IsFiniteSet(U) /\ S \cup U = C /\ S \cap U = {}
  <2>1. IsFiniteSet(C) /\ S \in SUBSET C /\ U \in SUBSET C
    BY <1>1, <1>4 DEF FileGood
  <2> QED BY <1>4, <2>1, FS_Subset
<1>6. SumFunctionOnSet(f, S) \in Nat /\ SumFunctionOnSet(f, U) \in Nat
  BY <1>3, <1>5, SumNat
<1>7. SumFunctionOnSet(f, S \cup U) = SumFunctionOnSet(f, S) + SumFunctionOnSet(f, U)
  <2>1. \A c \in S \cup U : f[c] \in Int
    BY <1>3, <1>5
  <2> QED BY <1>5, <2>1, SumUnion
<1>8. ASSUME NEW c \in C, c \notin S PROVE SumFunctionOnSet(f, S \cup {c}) = f[c] + SumFunctionOnSet(f, S)
  <2>1. \A d \in S \cup {c} : f[d] \in Int
    BY <1>3, <1>5
  <2> QED BY <1>5, <1>8, <2>1, SumAdd
<1>9. TotalOf(S) = SumFunctionOnSet(f, S) /\ TotalOf(file.claims \ S) = SumFunctionOnSet(f, U)
      /\ TotalOf(file.claims) = SumFunctionOnSet(f, S \cup U)
  BY <1>1, <1>2, <1>4, <1>5
<1>10. ASSUME NEW c \in file.claims
       PROVE  c.amount \in Nat /\ (c \notin S => TotalOf(S \cup {c}) = c.amount + TotalOf(S))
  BY <1>1, <1>2, <1>3, <1>8
<1>11. TotalOf(file.claims \ S) + TotalOf(S) = TotalOf(file.claims)
  BY <1>6, <1>7, <1>9
<1> QED BY <1>5, <1>6, <1>9, <1>10, <1>11

LEMMA DropPays == DropIInv => ClaimsPaidAsListed
<1> SUFFICES ASSUME DropIInv PROVE ClaimsPaidAsListed
  OBVIOUS
<1>1. FileGood /\ DropPaid
  BY DEF DropIInv
<1>2. \A c \in file.claims : VerifyProof(ToNode(c.index, c.account, c.amount), c.proof, file.root)
  BY <1>1 DEF FileGood, NodeOf, VerifyProof
<1>3. balance + taken >= TotalOf(Unclaimed)
  <2>1. Unclaimed \subseteq file.claims
    BY DEF Unclaimed
  <2>2. /\ TotalOf(Unclaimed) \in Nat /\ TotalOf(file.claims \ Unclaimed) \in Nat
        /\ TotalOf(file.claims \ Unclaimed) + TotalOf(Unclaimed) = TotalOf(file.claims)
    BY <1>1, <2>1, ClaimedAndNot
  <2>3. PICK u, v, w : u = TotalOf(Unclaimed) /\ v = TotalOf(file.claims \ Unclaimed) /\ w = TotalOf(file.claims)
    OBVIOUS
  <2>4. w <= Supply /\ balance + taken + v = Supply /\ balance \in Nat /\ taken \in Nat
    BY <1>1, <2>3 DEF FileGood, DropPaid
  <2> QED BY <2>2, <2>3, <2>4
<1> QED BY <1>1, <1>2, <1>3 DEF ClaimsPaidAsListed, DropPaid

LEMMA DropBegins == DistributorInit => DropIInv
<1> SUFFICES ASSUME DistributorInit PROVE DropIInv
  OBVIOUS
<1>1. hash \in DOMAIN Keccak /\ balance = Supply /\ taken = 0 /\ claimedAt = {} /\ received = [a \in Everybody |-> 0]
  BY DEF DistributorInit
<1>2. PICK table \in Tables : file = WriteMerkleTree(table)
  BY DEF DistributorInit
<1>3. FileGood
  <2>1. CASE table # << >> /\ Accepted(table)
    BY <1>1, <1>2, <2>1, ParsedIsGood DEF WriteMerkleTree
  <2>2. CASE ~(table # << >> /\ Accepted(table))
    BY <1>1, <1>2, <2>2, FailedIsGood DEF WriteMerkleTree
  <2> QED BY <2>1, <2>2
<1>4. file.claims \ Unclaimed = {}
  BY <1>1 DEF Unclaimed
<1>5. TotalOf(file.claims \ Unclaimed) = 0
  BY <1>4, SumEmpty DEF TotalOf
<1>6. DropPaid
  <2>1. balance \in Nat /\ taken \in Nat /\ balance + taken + 0 = Supply
    BY <1>1, DistributorAssumption
  <2>2. received \in [Everybody -> Nat] /\ \A a \in Everybody : received[a] = 0
    BY <1>1
  <2> QED BY <1>5, <2>1, <2>2 DEF DropPaid
<1> QED BY <1>1, <1>3, <1>6 DEF DropIInv

LEMMA ClaimDropKeeps ==
  ASSUME DropIInv, NEW i \in Indices, NEW a \in Everybody, NEW n \in Amounts, NEW p \in DropProofs,
         ClaimDrop(i, a, n, p)
  PROVE  DropIInv'
<1>1. FileGood /\ DropPaid /\ hash \in DOMAIN Keccak
  BY DEF DropIInv
<1>2. /\ HashAbove(ToNode(i, a, n), p) = file.root /\ n <= balance /\ i \notin claimedAt
      /\ claimedAt' = claimedAt \cup {i} /\ balance' = balance - n
      /\ received' = [received EXCEPT ![a] = @ + n]
      /\ file' = file /\ hash' = hash /\ taken' = taken
  BY DEF ClaimDrop, SetClaimed, VerifyProof
<1>3. i \in IndexRange /\ n \in Nat
  BY <1>1, EarningsAre DEF Indices, FileGood, Claims
<1>4. PICK c \in file.claims : IsLeafOf(c, i, a, n)
  <2>1. p \in Seq(Hashes)
    BY <1>1, DropProofsAre
  <2> QED BY <1>1, <1>2, <1>3, <2>1 DEF FileGood
<1>5. c.index = i /\ c.account = a /\ c.amount = n
  BY <1>4 DEF IsLeafOf
<1>6. PICK S : S = file.claims \ Unclaimed
  OBVIOUS
<1>7. S \subseteq file.claims /\ c \notin S /\ \A d \in file.claims : d \in S <=> d.index \in claimedAt
  BY <1>2, <1>5, <1>6 DEF Unclaimed
<1>8. (file.claims \ Unclaimed)' = S \cup {c}
  <2>1. (file.claims \ Unclaimed)' = {d \in file.claims : d.index \in claimedAt \/ d.index = i}
    BY <1>2 DEF Unclaimed
  <2>2. \A d \in file.claims : d.index = i <=> d = c
    BY <1>1, <1>5 DEF FileGood
  <2> QED BY <1>7, <2>1, <2>2
<1>9. TotalOf(S) \in Nat /\ TotalOf(S \cup {c}) = n + TotalOf(S)
  BY <1>1, <1>5, <1>7, ClaimedAndNot
<1>10. \A T : TotalOf(T)' = TotalOf(T)
  BY <1>2 DEF TotalOf
<1>11. FileGood'
  BY <1>1, <1>2 DEF FileGood, NodeOf, ToNode, TotalOf
<1>12. received[a] = 0
  <2> SUFFICES ASSUME received[a] # 0 PROVE FALSE
    OBVIOUS
  <2>1. PICK d \in S : d.account = a
    BY <1>1, <1>6 DEF DropPaid
  <2>2. d = c
    BY <1>1, <1>5, <1>7, <2>1 DEF FileGood
  <2> QED BY <1>7, <2>1, <2>2
<1>13. received' \in [Everybody -> Nat] /\ received'[a] = n /\ \A b \in Everybody : b # a => received'[b] = received[b]
  BY <1>1, <1>2, <1>3, <1>12 DEF DropPaid
<1>14. ASSUME NEW b \in Everybody, received'[b] # 0
       PROVE  \E d \in S \cup {c} : d.account = b /\ d.amount = received'[b]
  <2>1. CASE b = a
    BY <1>5, <1>13, <2>1
  <2>2. CASE b # a
    <3>1. received'[b] = received[b]
      BY <1>13, <2>2
    <3> QED BY <1>1, <1>6, <1>14, <3>1 DEF DropPaid
  <2> QED BY <2>1, <2>2
<1>15. DropPaid'
  <2>1. balance \in Nat /\ taken \in Nat /\ balance + taken + TotalOf(S) = Supply
    BY <1>1, <1>6 DEF DropPaid
  <2>2. balance' \in Nat /\ taken' \in Nat
    BY <1>2, <1>3, <2>1
  <2>3. PICK s, u : s = TotalOf(S) /\ u = TotalOf(S \cup {c})
    OBVIOUS
  <2>4. balance' + taken' + u = Supply
    BY <1>2, <1>3, <1>9, <2>1, <2>3
  <2>5. TotalOf(file.claims \ Unclaimed)' = u
    BY <1>2, <1>8, <2>3 DEF TotalOf
  <2> QED BY <1>8, <1>13, <1>14, <2>2, <2>4, <2>5 DEF DropPaid
<1> QED BY <1>1, <1>2, <1>11, <1>15 DEF DropIInv

LEMMA StepKeepsDrop == DropIInv /\ [DistributorNext]_distributorVars => DropIInv'
<1> SUFFICES ASSUME DropIInv, [DistributorNext]_distributorVars PROVE DropIInv'
  OBVIOUS
<1>1. ASSUME file' = file, hash' = hash PROVE FileGood' /\ hash' \in DOMAIN Keccak
  BY <1>1 DEF DropIInv, FileGood, NodeOf, ToNode, TotalOf
<1>2. ASSUME file' = file, hash' = hash, claimedAt' = claimedAt, received' = received,
             balance' \in Nat, taken' \in Nat, balance' + taken' = balance + taken
      PROVE  DropIInv'
  <2>1. DropPaid
    BY DEF DropIInv
  <2>2. TotalOf(file.claims \ Unclaimed)' = TotalOf(file.claims \ Unclaimed)
    BY <1>2 DEF TotalOf, Unclaimed
  <2>3. balance' + taken' + TotalOf(file.claims \ Unclaimed)' = Supply
    BY <1>2, <2>1, <2>2 DEF DropPaid
  <2>4. DropPaid'
    BY <1>2, <2>1, <2>3 DEF DropPaid, Unclaimed
  <2> QED BY <1>1, <1>2, <2>4 DEF DropIInv
<1>3. balance \in Nat /\ taken \in Nat
  BY DEF DropIInv, DropPaid
<1>4. ASSUME NEW i \in Indices, NEW a \in Everybody, NEW n \in Amounts, NEW p \in DropProofs, ClaimDrop(i, a, n, p)
      PROVE  DropIInv'
  BY <1>4, ClaimDropKeeps
<1>5. CASE WithdrawUnclaimed
  BY <1>2, <1>3, <1>5 DEF WithdrawUnclaimed
<1>6. CASE TransferOut(1)
  BY <1>2, <1>3, <1>6 DEF TransferOut
<1>7. CASE MineBlock
  BY <1>2, <1>3, <1>7 DEF MineBlock
<1>8. CASE UNCHANGED distributorVars
  BY <1>2, <1>3, <1>8 DEF distributorVars
<1> QED BY <1>4, <1>5, <1>6, <1>7, <1>8 DEF DistributorNext

\* Every claim of the file is proved by its proof and nothing else by any, and there is enough for all
\* that are left, but for what the owner took out; nobody is paid twice, or another amount.
\* ClaimsPaidAsListed, for any tables, any hashes that are all different, and any supply.
THEOREM TheFileIsPaid == DistributorSpec => []ClaimsPaidAsListed
<1>1. DistributorInit => DropIInv
  BY DropBegins
<1>2. DropIInv /\ [DistributorNext]_distributorVars => DropIInv'
  BY StepKeepsDrop
<1>3. DropIInv => ClaimsPaidAsListed
  BY DropPays
<1> QED BY <1>1, <1>2, <1>3, PTL DEF DistributorSpec
===============================================================================
