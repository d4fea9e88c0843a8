-------------------------- MODULE VotingPowerProofs --------------------------
(***************************************************************************)
(* What the operators of VotingPower do to a token, for every set of         *)
(* accounts and every supply: the checkpoints stay ordered and fit for the   *)
(* search, getPriorVotes returns the votes at the end of the block and its   *)
(* answer for a finished block never changes, and the votes follow the       *)
(* balances through every transfer, mint, burn and delegation.  PACTToken    *)
(* and Staking are proved from these facts.                                  *)
(***************************************************************************)
EXTENDS VotingPower, SumTheorems, SequenceTheorems

(***************************************************************************)
(* The binary search.                                                       *)
(***************************************************************************)
Checkpoints == [fromBlock : Nat, votes : Nat]

Bounds(s) == (1..Len(s)) \X (1..Len(s))

\* One level of the recursion.
SearchStep(g, s, b, p) ==
  LET lower == p[1]
      upper == p[2]
      center == upper - (upper - lower) \div 2
  IN  IF upper <= lower THEN s[lower].votes
      ELSE IF s[center].fromBlock = b THEN s[center].votes
      ELSE IF s[center].fromBlock < b THEN g[<<center, upper>>]
      ELSE g[<<lower, center - 1>>]

IsSearch(g, s, b) == g = [p \in Bounds(s) |-> SearchStep(g, s, b, p)]

LEMMA BinarySearchIsSearch ==
  ASSUME NEW s, NEW b
  PROVE  BinarySearch(s, b) = (CHOOSE g : IsSearch(g, s, b))[<<1, Len(s)>>]
BY DEF BinarySearch, IsSearch, SearchStep, Bounds

\* The checkpoint of l..u that is in force at the end of block b.
InForce(s, b, l, u, k) ==
  /\ k \in l..u
  /\ s[k].fromBlock <= b
  /\ \A j \in l..u : k < j => s[j].fromBlock > b

\* What the search returns for the interval l..u.
Found(s, b, l, u) ==
  IF \E k \in l..u : InForce(s, b, l, u, k)
  THEN s[CHOOSE k \in l..u : InForce(s, b, l, u, k)].votes
  ELSE s[l].votes

\* The last element of a non-empty set of checkpoints that are not after b.
LEMMA InForceExists ==
  ASSUME NEW s \in Seq(Checkpoints), NEW b \in Nat, NEW l \in Nat, NEW u \in Nat,
         NEW i \in l..u, s[i].fromBlock <= b, l >= 1, u <= Len(s)
  PROVE  \E k \in l..u : k >= i /\ InForce(s, b, l, u, k)
<1> DEFINE T == {n \in Nat : u - n \in l..u /\ s[u - n].fromBlock <= b}
<1>1. u - i \in T
  BY DEF T
<1>2. PICK n \in T : \A m \in T : n <= m
  <2>1. T \subseteq Nat /\ T # {}
    BY <1>1
  <2>. HIDE DEF T
  <2>. QED  BY <2>1, LeastNatural
<1>3. ASSUME NEW j \in l..u, u - n < j PROVE s[j].fromBlock > b
  <2>1. j \in 1..Len(s) /\ s[j].fromBlock \in Nat
    <3>1. j \in 1..Len(s)
      OBVIOUS
    <3>2. s[j] \in Checkpoints
      BY <3>1
    <3>. QED  BY <3>1, <3>2 DEF Checkpoints
  <2>2. u - j \notin T
    <3> SUFFICES ASSUME u - j \in T PROVE FALSE
      OBVIOUS
    <3>1. n <= u - j
      BY <1>2
    <3>2. n \in Nat
      OBVIOUS
    <3>. HIDE DEF T
    <3>. QED  BY <1>3, <3>1, <3>2
  <2>3. u - (u - j) = j
    OBVIOUS
  <2>. QED  BY <2>1, <2>2, <2>3
<1>4. n <= u - i
  BY <1>1, <1>2
<1>. QED  BY <1>2, <1>3, <1>4 DEF InForce

LEMMA InForceUnique ==
  ASSUME NEW s, NEW b \in Nat, NEW l \in Nat, NEW u \in Nat, NEW k, NEW m,
         \A j \in l..u : s[j].fromBlock \in Nat,
         InForce(s, b, l, u, k), InForce(s, b, l, u, m)
  PROVE  k = m
BY DEF InForce

LEMMA FoundInForce ==
  ASSUME NEW s \in Seq(Checkpoints), NEW b \in Nat, NEW l \in Nat, NEW u \in Nat,
         l >= 1, u <= Len(s), NEW k, InForce(s, b, l, u, k)
  PROVE  Found(s, b, l, u) = s[k].votes
<1>0. \A j \in l..u : s[j].fromBlock \in Nat
  <2>1. \A j \in l..u : j \in 1..Len(s)
    OBVIOUS
  <2>2. \A j \in 1..Len(s) : s[j] \in Checkpoints
    OBVIOUS
  <2>. QED  BY <2>1, <2>2 DEF Checkpoints
<1> DEFINE m == CHOOSE m \in l..u : InForce(s, b, l, u, m)
<1>1. k \in l..u
  BY DEF InForce
<1>2. InForce(s, b, l, u, m)
  BY <1>1
<1>3. m = k
  <2>. HIDE DEF m
  <2>. QED  BY <1>0, <1>2, InForceUnique
<1>. QED  BY <1>1, <1>3 DEF Found

\* Found solves the recursion.
LEMMA FoundIsStep ==
  ASSUME NEW s \in Seq(Checkpoints), Ordered(s), NEW b \in Nat,
         NEW l \in 1..Len(s), NEW u \in 1..Len(s),
         NEW g, \A x \in 1..Len(s), y \in 1..Len(s) :
                   x <= y /\ y - x < u - l => g[<<x, y>>] = Found(s, b, x, y)
  PROVE  Found(s, b, l, u) = SearchStep(g, s, b, <<l, u>>)
<1>0. /\ Len(s) \in Nat /\ l \in Nat /\ u \in Nat
      /\ l >= 1 /\ u <= Len(s)
      /\ \A j \in 1..Len(s) : s[j].fromBlock \in Nat
      /\ \A j \in l..u : j \in 1..Len(s) /\ s[j].fromBlock \in Nat
  <2>1. Len(s) \in Nat
    OBVIOUS
  <2>2. \A j \in 1..Len(s) : s[j] \in Checkpoints
    OBVIOUS
  <2>3. \A j \in 1..Len(s) : s[j].fromBlock \in Nat
    BY <2>2 DEF Checkpoints
  <2>4. \A j \in l..u : j \in 1..Len(s)
    BY <2>1
  <2>. QED  BY <2>1, <2>3, <2>4
<1>1. CASE u <= l
  <2>1. SearchStep(g, s, b, <<l, u>>) = s[l].votes
    BY <1>1 DEF SearchStep
  <2>2. ASSUME NEW k \in l..u, InForce(s, b, l, u, k)
        PROVE  Found(s, b, l, u) = s[l].votes
    <3>1. k = l
      BY <1>1
    <3>2. Found(s, b, l, u) = s[k].votes
      <4>1. \A x \in l..u : InForce(s, b, l, u, x) => Found(s, b, l, u) = s[x].votes
        BY <1>0, FoundInForce, SMTT(30)
      <4>. QED  BY <2>2, <4>1
    <3>. QED  BY <3>1, <3>2
  <2>3. ASSUME ~ \E k \in l..u : InForce(s, b, l, u, k)
        PROVE  Found(s, b, l, u) = s[l].votes
    BY <2>3 DEF Found
  <2>. QED  BY <2>1, <2>2, <2>3
<1>2. CASE l < u
  <2>0. PICK c : c = u - (u - l) \div 2
    OBVIOUS
  <2>1. /\ c \in Nat /\ l < c /\ c <= u /\ 1 <= c /\ c <= Len(s)
        /\ c \in 1..Len(s) /\ c - 1 \in 1..Len(s) /\ c - 1 \in Nat /\ l <= c - 1
        /\ u - c < u - l /\ (c - 1) - l < u - l
    BY <1>0, <1>2, <2>0
  <2>2. /\ s[c].fromBlock \in Nat
        /\ \A j \in c..u : j \in 1..Len(s) /\ s[j].fromBlock \in Nat
        /\ \A j \in l..(c - 1) : j \in 1..Len(s) /\ s[j].fromBlock \in Nat
    <3>1. \A j \in c..u : j \in l..u
      BY <1>0, <2>1
    <3>2. \A j \in l..(c - 1) : j \in l..u
      BY <1>0, <2>1
    <3>. QED  BY <1>0, <2>1, <3>1, <3>2
  <2>3. CASE s[c].fromBlock = b
    <3>1. SearchStep(g, s, b, <<l, u>>) = s[c].votes
      BY <1>2, <2>0, <2>3 DEF SearchStep
    <3>2. \A j \in l..u : c < j => s[j].fromBlock > b
      BY <1>0, <2>1, <2>3 DEF Ordered
    <3>3. InForce(s, b, l, u, c)
      <4>1. c \in l..u /\ s[c].fromBlock <= b
        BY <1>0, <2>1, <2>2, <2>3
      <4>. QED  BY <3>2, <4>1 DEF InForce
    <3>. QED  BY <1>0, <3>1, <3>3, FoundInForce
  <2>4. CASE s[c].fromBlock < b
    <3>1. SearchStep(g, s, b, <<l, u>>) = g[<<c, u>>]
      BY <1>2, <2>0, <2>2, <2>4 DEF SearchStep
    <3>2. g[<<c, u>>] = Found(s, b, c, u)
      BY <2>1
    <3>3. PICK k \in c..u : InForce(s, b, c, u, k)
      <4>1. c \in c..u /\ c >= 1 /\ u <= Len(s)
        BY <1>0, <2>1
      <4>2. s[c].fromBlock <= b
        BY <1>0, <2>1, <2>4
      <4>. QED  BY <1>0, <2>1, <4>1, <4>2, InForceExists
    <3>4. InForce(s, b, l, u, k)
      <4>1. k \in l..u /\ \A j \in l..u : k < j => j \in c..u
        BY <1>0, <2>1
      <4>. QED  BY <3>3, <4>1 DEF InForce
    <3>5. Found(s, b, c, u) = s[k].votes
      BY <1>0, <2>1, <2>2, <3>3, FoundInForce
    <3>6. Found(s, b, l, u) = s[k].votes
      BY <1>0, <3>4, FoundInForce
    <3>. QED  BY <3>1, <3>2, <3>5, <3>6
  <2>5. CASE s[c].fromBlock > b
    <3>1. SearchStep(g, s, b, <<l, u>>) = g[<<l, c - 1>>]
      BY <1>2, <2>0, <2>2, <2>5 DEF SearchStep
    <3>2. g[<<l, c - 1>>] = Found(s, b, l, c - 1)
      BY <2>1
    <3>3. ASSUME NEW j \in c..u PROVE s[j].fromBlock > b
      <4>1. j \in 1..Len(s) /\ s[j].fromBlock \in Nat
        BY <2>2
      <4>2. j # c => s[c].fromBlock < s[j].fromBlock
        BY <2>1, <4>1 DEF Ordered
      <4>. QED  BY <2>2, <2>5, <4>1, <4>2
    <3>4. ASSUME NEW k PROVE InForce(s, b, l, c - 1, k) <=> InForce(s, b, l, u, k)
      <4>1. k \in l..u => k \in l..(c - 1) \/ k \in c..u
        BY <1>0, <2>1
      <4>2. k \in l..(c - 1) => k \in l..u
        BY <1>0, <2>1
      <4>3. \A j \in l..u : j \in l..(c - 1) \/ j \in c..u
        BY <1>0, <2>1
      <4>4. \A j \in l..(c - 1) : j \in l..u
        BY <1>0, <2>1
      <4>5. k \in c..u => ~(s[k].fromBlock <= b)
        BY <2>2, <3>3
      <4>. QED  BY <3>3, <4>1, <4>2, <4>3, <4>4, <4>5 DEF InForce
    <3>5. Found(s, b, l, c - 1) = Found(s, b, l, u)
      <4>1. ASSUME NEW k, InForce(s, b, l, u, k)
            PROVE  Found(s, b, l, c - 1) = Found(s, b, l, u)
        <5>1. Found(s, b, l, u) = s[k].votes
          BY <1>0, <4>1, FoundInForce
        <5>2. InForce(s, b, l, c - 1, k)
          BY <3>4, <4>1
        <5>3. Found(s, b, l, c - 1) = s[k].votes
          BY <1>0, <2>1, <2>2, <5>2, FoundInForce
        <5>. QED  BY <5>1, <5>3
      <4>2. ASSUME \A k : ~InForce(s, b, l, u, k)
            PROVE  Found(s, b, l, c - 1) = Found(s, b, l, u)
        <5>1. \A k : ~InForce(s, b, l, c - 1, k)
          BY <3>4, <4>2
        <5>. QED  BY <4>2, <5>1 DEF Found
      <4>. QED  BY <4>1, <4>2
    <3>. QED  BY <3>1, <3>2, <3>5
  <2>. QED  BY <2>2, <2>3, <2>4, <2>5
<1>. QED  BY <1>0, <1>1, <1>2

\* There is a function that solves it, and it is the only one on the intervals
\* the search visits.
LEMMA SearchExists ==
  ASSUME NEW s \in Seq(Checkpoints), Ordered(s), NEW b \in Nat
  PROVE  \E g : IsSearch(g, s, b)
<1> DEFINE g == [p \in Bounds(s) |-> Found(s, b, p[1], p[2])]
<1>1. \A l, u \in 1..Len(s) : g[<<l, u>>] = Found(s, b, l, u)
  BY DEF Bounds
<1>2. ASSUME NEW p \in Bounds(s) PROVE Found(s, b, p[1], p[2]) = SearchStep(g, s, b, p)
  <2>1. PICK l \in 1..Len(s), u \in 1..Len(s) : p = <<l, u>>
    BY DEF Bounds
  <2>2. p[1] = l /\ p[2] = u
    BY <2>1
  <2>. HIDE DEF g
  <2>3. Found(s, b, l, u) = SearchStep(g, s, b, <<l, u>>)
    BY <1>1, FoundIsStep
  <2>. QED  BY <2>1, <2>2, <2>3
<1>3. g = [p \in Bounds(s) |-> SearchStep(g, s, b, p)]
  <2>1. g = [p \in Bounds(s) |-> Found(s, b, p[1], p[2])]
    OBVIOUS
  <2>. HIDE DEF g
  <2>. QED  BY <1>2, <2>1
<1>. QED  BY <1>3 DEF IsSearch

LEMMA SearchUnique ==
  ASSUME NEW s \in Seq(Checkpoints), Ordered(s), NEW b \in Nat, NEW g, IsSearch(g, s, b),
         NEW l0 \in 1..Len(s), NEW u0 \in 1..Len(s), l0 <= u0
  PROVE  g[<<l0, u0>>] = Found(s, b, l0, u0)
<1> DEFINE Bad == {n \in Nat : \E l, u \in 1..Len(s) :
                      l <= u /\ n = u - l /\ g[<<l, u>>] # Found(s, b, l, u)}
<1> SUFFICES ASSUME g[<<l0, u0>>] # Found(s, b, l0, u0) PROVE FALSE
  OBVIOUS
<1>0. Len(s) \in Nat
  OBVIOUS
<1>1. u0 - l0 \in Bad
  <2>1. l0 \in Nat /\ u0 \in Nat /\ u0 - l0 \in Nat
    BY <1>0
  <2>. QED  BY <2>1, Zenon
<1>2. PICK n \in Bad : \A m \in Bad : n <= m
  <2>1. Bad \subseteq Nat /\ Bad # {}
    BY <1>1
  <2>. HIDE DEF Bad
  <2>. QED  BY <2>1, LeastNatural
<1>3. PICK l \in 1..Len(s), u \in 1..Len(s) :
         l <= u /\ n = u - l /\ g[<<l, u>>] # Found(s, b, l, u)
  OBVIOUS
<1>4. ASSUME NEW x \in 1..Len(s), NEW y \in 1..Len(s), x <= y, y - x < u - l
      PROVE  g[<<x, y>>] = Found(s, b, x, y)
  <2> SUFFICES ASSUME g[<<x, y>>] # Found(s, b, x, y) PROVE FALSE
    OBVIOUS
  <2>1. y - x \in Bad
    <3>1. x \in Nat /\ y \in Nat /\ y - x \in Nat
      BY <1>0, <1>4
    <3>. QED  BY <1>4, <3>1, Zenon
  <2>2. n <= y - x
    BY <1>2, <2>1
  <2>. QED  BY <1>3, <1>4, <2>2
<1>5. Found(s, b, l, u) = SearchStep(g, s, b, <<l, u>>)
  BY <1>4, FoundIsStep
<1>6. <<l, u>> \in Bounds(s)
  BY DEF Bounds
<1>7. g[<<l, u>>] = SearchStep(g, s, b, <<l, u>>)
  BY <1>6 DEF IsSearch
<1>. QED  BY <1>3, <1>5, <1>7

(***************************************************************************)
(* getPriorVotes.                                                           *)
(***************************************************************************)

\* getPriorVotes returns the votes at the end of the block asked for, for every
\* history of checkpoints in increasing order.
THEOREM PriorVotesCorrect ==
  ASSUME NEW s \in Seq(Checkpoints), Ordered(s), NEW b \in Nat
  PROVE  IsVotesAt(PriorVotes(s, b), s, b)
<1>0. /\ Len(s) \in Nat
      /\ s # << >> => 1 \in 1..Len(s) /\ Len(s) \in 1..Len(s)
      /\ \A i \in 1..Len(s) : s[i].fromBlock \in Nat /\ s[i].votes \in Nat
  <2>1. Len(s) \in Nat /\ (s # << >> => Len(s) > 0)
    BY EmptySeq
  <2>2. \A i \in 1..Len(s) : s[i] \in Checkpoints
    OBVIOUS
  <2>3. \A i \in 1..Len(s) : s[i].fromBlock \in Nat /\ s[i].votes \in Nat
    BY <2>2 DEF Checkpoints
  <2>. QED  BY <2>1, <2>3
<1>1. CASE s = << >>
  BY <1>1 DEF PriorVotes, IsVotesAt
<1>2. CASE s # << >> /\ s[Len(s)].fromBlock <= b
  <2>1. PriorVotes(s, b) = s[Len(s)].votes
    BY <1>2 DEF PriorVotes
  <2>2. Len(s) \in 1..Len(s) /\ \A j \in 1..Len(s) : ~(Len(s) < j)
    BY <1>0, <1>2
  <2>. QED  BY <1>2, <2>1, <2>2 DEF IsVotesAt
<1>3. CASE s # << >> /\ s[Len(s)].fromBlock > b /\ s[1].fromBlock > b
  <2>1. PriorVotes(s, b) = 0
    BY <1>0, <1>3 DEF PriorVotes
  <2>2. ASSUME NEW i \in 1..Len(s) PROVE s[i].fromBlock > b
    <3>1. i # 1 => s[1].fromBlock < s[i].fromBlock
      BY <1>0, <1>3 DEF Ordered
    <3>. QED  BY <1>0, <1>3, <3>1
  <2>. QED  BY <2>1, <2>2 DEF IsVotesAt
<1>4. CASE s # << >> /\ s[Len(s)].fromBlock > b /\ s[1].fromBlock <= b
  <2>1. PriorVotes(s, b) = BinarySearch(s, b)
    BY <1>0, <1>4 DEF PriorVotes
  <2>2. PICK g : IsSearch(g, s, b) /\ BinarySearch(s, b) = g[<<1, Len(s)>>]
    BY SearchExists, BinarySearchIsSearch
  <2>3. g[<<1, Len(s)>>] = Found(s, b, 1, Len(s))
    BY <1>0, <1>4, <2>2, SearchUnique
  <2>4. PICK k \in 1..Len(s) : InForce(s, b, 1, Len(s), k)
    <3>1. 1 \in 1..Len(s) /\ 1 >= 1 /\ Len(s) <= Len(s) /\ Len(s) \in Nat /\ 1 \in Nat
      BY <1>0, <1>4
    <3>. QED  BY <1>4, <3>1, InForceExists
  <2>5. Found(s, b, 1, Len(s)) = s[k].votes
    BY <1>0, <2>4, FoundInForce
  <2>. QED  BY <2>1, <2>2, <2>3, <2>4, <2>5 DEF InForce, IsVotesAt
<1>. QED  BY <1>0, <1>1, <1>2, <1>3, <1>4

\* There is one answer.
LEMMA VotesAtUnique ==
  ASSUME NEW s \in Seq(Checkpoints), NEW b \in Nat, NEW v, NEW w,
         IsVotesAt(v, s, b), IsVotesAt(w, s, b)
  PROVE  v = w
<1>0. \A i \in 1..Len(s) : i \in Nat /\ s[i].fromBlock \in Nat
  <2>1. \A i \in 1..Len(s) : s[i] \in Checkpoints
    OBVIOUS
  <2>. QED  BY <2>1 DEF Checkpoints
<1>. QED  BY <1>0 DEF IsVotesAt

(***************************************************************************)
(* One checkpoint.                                                          *)
(***************************************************************************)

\* No checkpoint of s is from a block after b.
UpTo(s, b) == s # << >> => s[Len(s)].fromBlock <= b

\* Writing a checkpoint keeps the sequence ordered, makes the new votes the
\* current ones and leaves the answers for earlier blocks alone.
LEMMA WriteCheckpointLemma ==
  ASSUME NEW B \in SUBSET Nat, NEW V \in SUBSET Nat,
         NEW s \in Seq([fromBlock : B, votes : V]), Ordered(s),
         NEW b \in B, UpTo(s, b), NEW v \in V
  PROVE  /\ WriteCheckpoint(s, b, v) \in Seq([fromBlock : B, votes : V])
         /\ Ordered(WriteCheckpoint(s, b, v))
         /\ UpTo(WriteCheckpoint(s, b, v), b)
         /\ CurrentVotes(WriteCheckpoint(s, b, v)) = v
         /\ \A b0 \in Nat : \A w :
              b0 < b /\ IsVotesAt(w, s, b0) => IsVotesAt(w, WriteCheckpoint(s, b, v), b0)
<1> DEFINE CP == [fromBlock : B, votes : V]
           cp == [fromBlock |-> b, votes |-> v]
           s2 == WriteCheckpoint(s, b, v)
<1>0. /\ Len(s) \in Nat
      /\ s # << >> => Len(s) \in 1..Len(s)
      /\ \A i \in 1..Len(s) : s[i] \in CP /\ s[i].fromBlock \in Nat /\ s[i].fromBlock <= b
  <2>1. Len(s) \in Nat /\ (s # << >> => Len(s) > 0)
    BY EmptySeq
  <2>2. \A i \in 1..Len(s) : s[i] \in CP /\ s[i].fromBlock \in Nat
    <3>1. \A i \in 1..Len(s) : s[i] \in CP
      <4>1. s \in Seq(CP)
        OBVIOUS
      <4>. HIDE DEF CP
      <4>. QED  BY <4>1
    <3>2. \A e \in CP : e.fromBlock \in Nat
      OBVIOUS
    <3>. QED  BY <3>1, <3>2
  <2>3. ASSUME NEW i \in 1..Len(s) PROVE s[i].fromBlock <= b
    <3>1. s # << >> /\ Len(s) \in 1..Len(s)
      BY <2>1
    <3>2. i # Len(s) => s[i].fromBlock < s[Len(s)].fromBlock
      BY <2>1, <3>1 DEF Ordered
    <3>3. s[Len(s)].fromBlock <= b /\ b \in Nat
      BY <3>1 DEF UpTo
    <3>. QED  BY <2>2, <3>1, <3>2, <3>3
  <2>. QED  BY <2>1, <2>2, <2>3
<1>1. cp \in CP /\ cp.fromBlock = b /\ cp.votes = v /\ b \in Nat
  OBVIOUS
<1>2. CASE s # << >> /\ s[Len(s)].fromBlock = b
  <2>1. s2 = [s EXCEPT ![Len(s)] = cp]
    BY <1>2 DEF WriteCheckpoint
  <2>a. Len(s) \in 1..Len(s) /\ s \in Seq(CP)
    BY <1>0, <1>2
  <2>2. s2 \in Seq(CP) /\ Len(s2) = Len(s)
    <3>. HIDE DEF CP, cp, s2
    <3>. QED  BY <1>1, <2>1, <2>a, ExceptSeq
  <2>3. \A i \in 1..Len(s) : s2[i] = IF i = Len(s) THEN cp ELSE s[i]
    <3>. HIDE DEF CP, cp, s2
    <3>. QED  BY <1>1, <2>1, <2>a, ExceptSeq
  <2>4. \A i \in 1..Len(s) : s2[i].fromBlock = s[i].fromBlock
    <3>. HIDE DEF s2
    <3>. QED  BY <1>1, <1>2, <2>3
  <2>5. s2 # << >> /\ s2[Len(s2)] = cp
    <3>. HIDE DEF cp, s2
    <3>. QED  BY <1>0, <1>2, <2>2, <2>3
  <2>6. Ordered(s2)
    <3>. HIDE DEF s2
    <3>. QED  BY <2>2, <2>4 DEF Ordered
  <2>7. UpTo(s2, b) /\ CurrentVotes(s2) = v
    <3>. HIDE DEF s2
    <3>. QED  BY <1>1, <2>5 DEF UpTo, CurrentVotes
  <2>8. ASSUME NEW b0 \in Nat, NEW w, b0 < b, IsVotesAt(w, s, b0)
        PROVE  IsVotesAt(w, s2, b0)
    <3>1. \A i \in 1..Len(s) : s[i].fromBlock <= b0 => i # Len(s) /\ s2[i].votes = s[i].votes
      <4>. HIDE DEF s2
      <4>. QED  BY <1>0, <1>1, <1>2, <2>3, <2>8
    <3>. HIDE DEF s2
    <3>. QED  BY <2>2, <2>4, <2>8, <3>1 DEF IsVotesAt
  <2>. QED  BY <2>2, <2>6, <2>7, <2>8, Zenon
<1>3. CASE ~(s # << >> /\ s[Len(s)].fromBlock = b)
  <2>1. s2 = Append(s, cp)
    BY <1>3 DEF WriteCheckpoint
  <2>2. /\ s2 \in Seq(CP) /\ Len(s2) = Len(s) + 1 /\ s2[Len(s) + 1] = cp
        /\ \A i \in 1..Len(s) : s2[i] = s[i]
    <3>1. s \in Seq(CP)
      OBVIOUS
    <3>. HIDE DEF CP, cp, s2
    <3>. QED  BY <1>1, <2>1, <3>1, AppendProperties
  <2>3. \A i \in 1..Len(s) : s[i].fromBlock < b
    <3>1. s # << >> => s[Len(s)].fromBlock < b
      BY <1>0, <1>1, <1>3
    <3>2. ASSUME NEW i \in 1..Len(s) PROVE s[i].fromBlock < b
      <4>1. s # << >> /\ Len(s) \in 1..Len(s)
        BY <1>0, EmptySeq
      <4>2. i # Len(s) => s[i].fromBlock < s[Len(s)].fromBlock
        BY <1>0, <4>1 DEF Ordered
      <4>. QED  BY <1>0, <1>1, <3>1, <4>1, <4>2
    <3>. QED  BY <3>2
  <2>4. Ordered(s2)
    <3> SUFFICES ASSUME NEW i \in 1..Len(s2), NEW j \in 1..Len(s2), i < j
                 PROVE  s2[i].fromBlock < s2[j].fromBlock
      BY DEF Ordered
    <3>. HIDE DEF s2
    <3>1. i \in 1..Len(s) /\ s2[i].fromBlock = s[i].fromBlock
      BY <1>0, <2>2
    <3>2. CASE j = Len(s) + 1
      BY <1>1, <2>2, <2>3, <3>1, <3>2
    <3>3. CASE j \in 1..Len(s)
      <4>1. s2[j].fromBlock = s[j].fromBlock /\ s[i].fromBlock < s[j].fromBlock
        BY <2>2, <3>1, <3>3 DEF Ordered
      <4>. QED  BY <3>1, <4>1
    <3>4. j = Len(s) + 1 \/ j \in 1..Len(s)
      BY <1>0, <2>2
    <3>. QED  BY <3>2, <3>3, <3>4
  <2>5. UpTo(s2, b) /\ CurrentVotes(s2) = v
    <3>1. s2 # << >>
      <4>. HIDE DEF s2
      <4>. QED  BY <1>0, <2>2, EmptySeq
    <3>. HIDE DEF s2
    <3>. QED  BY <1>1, <2>2, <3>1 DEF UpTo, CurrentVotes
  <2>6. ASSUME NEW b0 \in Nat, NEW w, b0 < b, IsVotesAt(w, s, b0)
        PROVE  IsVotesAt(w, s2, b0)
    <3>. HIDE DEF s2
    <3>1. s2[Len(s) + 1].fromBlock > b0
      BY <1>1, <2>2, <2>6
    <3>2. \A j \in 1..Len(s2) : j \in 1..Len(s) \/ j = Len(s) + 1
      BY <1>0, <2>2
    <3>3. \A j \in 1..Len(s) : j \in 1..Len(s2)
      BY <1>0, <2>2
    <3>. QED  BY <2>2, <2>6, <3>1, <3>2, <3>3 DEF IsVotesAt
  <2>. QED  BY <2>2, <2>4, <2>5, <2>6, Zenon
<1>. QED  BY <1>2, <1>3

LEMMA WriteCheckpointCurrent ==
  ASSUME NEW S, NEW s \in Seq(S), NEW b, NEW v
  PROVE  CurrentVotes(WriteCheckpoint(s, b, v)) = v
<1> DEFINE cp == [fromBlock |-> b, votes |-> v]
<1>0. Len(s) \in Nat /\ (s # << >> => Len(s) \in 1..Len(s)) /\ cp.votes = v
  BY EmptySeq
<1>1. CASE s # << >> /\ s[Len(s)].fromBlock = b
  <2>1. WriteCheckpoint(s, b, v) = [s EXCEPT ![Len(s)] = cp]
    BY <1>1 DEF WriteCheckpoint
  <2>. HIDE DEF cp
  <2>2. PICK r : r = [s EXCEPT ![Len(s)] = cp]
    OBVIOUS
  <2>3. Len(r) = Len(s) /\ r[Len(s)] = cp
    BY <1>0, <1>1, <2>2
  <2>4. r # << >>
    BY <1>0, <1>1, <2>3
  <2>. QED  BY <1>0, <2>1, <2>2, <2>3, <2>4 DEF CurrentVotes
<1>2. CASE ~(s # << >> /\ s[Len(s)].fromBlock = b)
  <2>1. WriteCheckpoint(s, b, v) = Append(s, cp)
    BY <1>2 DEF WriteCheckpoint
  <2>. HIDE DEF cp
  <2>2. PICK r : r = Append(s, cp)
    OBVIOUS
  <2>3. Len(r) = Len(s) + 1 /\ r[Len(s) + 1] = cp
    BY <1>0, <2>2
  <2>4. r # << >>
    BY <1>0, <2>3
  <2>. QED  BY <1>0, <2>1, <2>2, <2>3, <2>4 DEF CurrentVotes
<1>. QED  BY <1>1, <1>2

\* So getPriorVotes of an earlier block answers as before.
LEMMA WriteCheckpointPrior ==
  ASSUME NEW B \in SUBSET Nat, NEW V \in SUBSET Nat,
         NEW s \in Seq([fromBlock : B, votes : V]), Ordered(s),
         NEW b \in B, UpTo(s, b), NEW v \in V, NEW b0 \in Nat, b0 < b
  PROVE  PriorVotes(WriteCheckpoint(s, b, v), b0) = PriorVotes(s, b0)
<1> DEFINE s2 == WriteCheckpoint(s, b, v)
<1>1. /\ s2 \in Seq([fromBlock : B, votes : V]) /\ Ordered(s2)
      /\ \A w : IsVotesAt(w, s, b0) => IsVotesAt(w, s2, b0)
  BY WriteCheckpointLemma
<1>2. \A r \in Seq([fromBlock : B, votes : V]) : r \in Seq(Checkpoints)
  <2>1. [fromBlock : B, votes : V] \subseteq Checkpoints
    BY DEF Checkpoints
  <2>. QED  BY <2>1, SeqMonotonic
<1>. HIDE DEF s2
<1>3. IsVotesAt(PriorVotes(s, b0), s2, b0)
  BY <1>1, <1>2, PriorVotesCorrect
<1>4. IsVotesAt(PriorVotes(s2, b0), s2, b0)
  BY <1>1, <1>2, PriorVotesCorrect
<1>. QED  BY <1>1, <1>2, <1>3, <1>4, VotesAtUnique DEF s2

(***************************************************************************)
(* One token.                                                               *)
(***************************************************************************)

\* What every operation of a token keeps.
TokenSound(t, maxSupply, lastBlock, b) ==
  /\ t \in TokenRecords(maxSupply, lastBlock)
  /\ CheckpointsOrdered(t, b)
  /\ SumFunctionOnSet(t.balances, Accounts) = t.supply
  /\ VotesFollowBalances(t)

\* getPriorVotes answers as before for every block before b.
SamePast(t, t2, b) ==
  \A d \in Accounts, b0 \in Nat :
     b0 < b => PriorVotes(t2.checkpoints[d], b0) = PriorVotes(t.checkpoints[d], b0)

LEMMA SupplyIsSum ==
  ASSUME NEW f, NEW V, f \in [Accounts -> V]
  PROVE  SumFunction(f) = SumFunctionOnSet(f, Accounts)
BY DEF SumFunction

LEMMA TokenFields ==
  ASSUME NEW cap, NEW last, NEW t \in TokenRecords(cap, last)
  PROVE  /\ t.balances \in [Accounts -> 0..cap]
         /\ t.delegates \in [Accounts -> Delegatees]
         /\ t.checkpoints \in [Accounts -> Seq([fromBlock : 1..last, votes : 0..cap])]
         /\ t.nonces \in [Accounts -> Nat]
         /\ t.supply \in 0..cap
         /\ t = [balances |-> t.balances, delegates |-> t.delegates,
                 checkpoints |-> t.checkpoints, nonces |-> t.nonces, supply |-> t.supply]
BY DEF TokenRecords

LEMMA WithBalances ==
  ASSUME NEW cap, NEW last, NEW t \in TokenRecords(cap, last), NEW e
  PROVE  [t EXCEPT !.balances = e]
           = [balances |-> e, delegates |-> t.delegates,
              checkpoints |-> t.checkpoints, nonces |-> t.nonces, supply |-> t.supply]
<1>1. PICK ba, de, cp, no, su :
        t = [balances |-> ba, delegates |-> de, checkpoints |-> cp, nonces |-> no, supply |-> su]
  BY DEF TokenRecords
<1>. QED  BY ONLY <1>1

LEMMA WithSupply ==
  ASSUME NEW cap, NEW last, NEW t \in TokenRecords(cap, last), NEW e, NEW k
  PROVE  [t EXCEPT !.balances = e, !.supply = k]
           = [balances |-> e, delegates |-> t.delegates,
              checkpoints |-> t.checkpoints, nonces |-> t.nonces, supply |-> k]
<1>1. PICK ba, de, cp, no, su :
        t = [balances |-> ba, delegates |-> de, checkpoints |-> cp, nonces |-> no, supply |-> su]
  BY DEF TokenRecords
<1>2. PICK u : u = [balances |-> e, delegates |-> de, checkpoints |-> cp, nonces |-> no, supply |-> su]
  OBVIOUS
<1>3. [t EXCEPT !.balances = e] = u
  BY ONLY <1>1, <1>2
<1>4. [t EXCEPT !.balances = e, !.supply = k] = [u EXCEPT !.supply = k]
  BY <1>3, Zenon
<1>5. [u EXCEPT !.supply = k]
        = [balances |-> e, delegates |-> de, checkpoints |-> cp, nonces |-> no, supply |-> k]
  BY ONLY <1>2
<1>6. t.delegates = de /\ t.checkpoints = cp /\ t.nonces = no
  BY ONLY <1>1
<1>. QED  BY <1>4, <1>5, <1>6, Zenon

LEMMA WithDelegates ==
  ASSUME NEW cap, NEW last, NEW t \in TokenRecords(cap, last), NEW e
  PROVE  [t EXCEPT !.delegates = e]
           = [balances |-> t.balances, delegates |-> e,
              checkpoints |-> t.checkpoints, nonces |-> t.nonces, supply |-> t.supply]
<1>1. PICK ba, de, cp, no, su :
        t = [balances |-> ba, delegates |-> de, checkpoints |-> cp, nonces |-> no, supply |-> su]
  BY DEF TokenRecords
<1>. QED  BY ONLY <1>1

LEMMA WithNonces ==
  ASSUME NEW cap, NEW last, NEW t \in TokenRecords(cap, last), NEW e
  PROVE  [t EXCEPT !.nonces = e]
           = [balances |-> t.balances, delegates |-> t.delegates,
              checkpoints |-> t.checkpoints, nonces |-> e, supply |-> t.supply]
<1>1. PICK ba, de, cp, no, su :
        t = [balances |-> ba, delegates |-> de, checkpoints |-> cp, nonces |-> no, supply |-> su]
  BY DEF TokenRecords
<1>. QED  BY ONLY <1>1

LEMMA VotesTyped ==
  ASSUME NEW cap \in Nat, NEW B, NEW s \in Seq([fromBlock : B, votes : 0..cap])
  PROVE  CurrentVotes(s) \in 0..cap
<1>1. CASE s = << >>
  BY <1>1 DEF CurrentVotes
<1>2. CASE s # << >>
  <2> DEFINE CP == [fromBlock : B, votes : 0..cap]
  <2>1. s \in Seq(CP) /\ Len(s) \in 1..Len(s)
    <3>1. Len(s) \in Nat /\ Len(s) # 0
      BY <1>2, EmptySeq
    <3>. QED  BY <3>1
  <2>2. s[Len(s)] \in CP
    <3>. HIDE DEF CP
    <3>. QED  BY <2>1, ElementOfSeq
  <2>. QED  BY <1>2, <2>2 DEF CurrentVotes
<1>. QED  BY <1>1, <1>2

\* What _moveDelegates does to the votes of d.
Shift(src, dst, n, d) ==
  (IF src # dst /\ d = dst THEN n ELSE 0) - (IF src # dst /\ d = src THEN n ELSE 0)

\* The votes of the destination stay below the cap.
Fits(t, src, dst, n, cap) ==
  \A d \in Accounts :
     d = dst /\ Moves(src, dst, n) => CurrentVotes(t.checkpoints[d]) + n <= cap

\* _moveDelegates: the votes move, everything else stays.
LEMMA MoveDelegatesLemma ==
  ASSUME NEW cap \in Nat, NEW last \in Nat, NEW b \in 1..last,
         NEW t \in TokenRecords(cap, last), CheckpointsOrdered(t, b),
         NEW src \in Delegatees, NEW dst \in Delegatees, NEW n \in Nat,
         CanMove(t, src, dst, n), Fits(t, src, dst, n, cap),
         NEW t2, t2 = MoveDelegates(t, src, dst, n, b)
  PROVE  /\ t2 \in TokenRecords(cap, last)
         /\ t2.balances = t.balances /\ t2.delegates = t.delegates
         /\ t2.nonces = t.nonces /\ t2.supply = t.supply
         /\ CheckpointsOrdered(t2, b)
         /\ \A d \in Accounts :
              CurrentVotes(t2.checkpoints[d])
                = CurrentVotes(t.checkpoints[d]) + Shift(src, dst, n, d)
         /\ SamePast(t, t2, b)
<1> DEFINE H == Seq([fromBlock : 1..last, votes : 0..cap])
<1>0. /\ t.checkpoints \in [Accounts -> H]
      /\ \A d \in Accounts : CurrentVotes(t.checkpoints[d]) \in 0..cap
  <2>1. t.checkpoints \in [Accounts -> H]
    BY TokenFields
  <2>2. \A d \in Accounts : CurrentVotes(t.checkpoints[d]) \in 0..cap
    BY <2>1, VotesTyped
  <2>. QED  BY <2>1, <2>2
<1>1. CASE ~Moves(src, dst, n)
  <2>1. t2 = t
    BY <1>1 DEF MoveDelegates
  <2>2. src = dst \/ n = 0
    BY <1>1 DEF Moves
  <2>. QED  BY <1>0, <2>1, <2>2 DEF SamePast, Shift
<1>2. CASE Moves(src, dst, n)
  <2> DEFINE new(d) == IF d = src THEN CurrentVotes(t.checkpoints[d]) - n
                       ELSE CurrentVotes(t.checkpoints[d]) + n
             cps2 == [a \in Accounts |->
                        IF a = src \/ a = dst
                        THEN WriteCheckpoint(t.checkpoints[a], b, new(a))
                        ELSE t.checkpoints[a]]
  <2>0. src # dst /\ n > 0
    BY <1>2 DEF Moves
  <2>1. t2 = [t EXCEPT !.checkpoints = cps2]
    <3>1. t2 = [t EXCEPT !.checkpoints = [a \in Accounts |->
         LET cps == t.checkpoints[a]
         IN  IF a = src
             THEN WriteCheckpoint(cps, b, CurrentVotes(cps) - n)
             ELSE IF a = dst
             THEN WriteCheckpoint(cps, b, CurrentVotes(cps) + n)
             ELSE cps]]
      BY <1>2 DEF MoveDelegates
    <3>2. \A a \in Accounts :
            (IF a = src
             THEN WriteCheckpoint(t.checkpoints[a], b, CurrentVotes(t.checkpoints[a]) - n)
             ELSE IF a = dst
             THEN WriteCheckpoint(t.checkpoints[a], b, CurrentVotes(t.checkpoints[a]) + n)
             ELSE t.checkpoints[a]) = cps2[a]
      OBVIOUS
    <3>. QED  BY <3>1, <3>2
  <2>2. /\ t2.balances = t.balances /\ t2.delegates = t.delegates
        /\ t2.nonces = t.nonces /\ t2.supply = t.supply /\ t2.checkpoints = cps2
    <3>. HIDE DEF cps2
    <3>. QED  BY <2>1 DEF TokenRecords
  <2>3. ASSUME NEW d \in Accounts, d = src \/ d = dst
        PROVE  /\ new(d) \in 0..cap
               /\ cps2[d] \in H /\ Ordered(cps2[d]) /\ UpTo(cps2[d], b)
               /\ CurrentVotes(cps2[d]) = new(d)
               /\ \A b0 \in Nat : b0 < b => PriorVotes(cps2[d], b0) = PriorVotes(t.checkpoints[d], b0)
    <3>1. new(d) \in 0..cap
      <4>1. CASE d = src
        <5>1. d # ZeroAddress
          BY ZeroAddressAssumption
        <5>2. CurrentVotes(t.checkpoints[d]) >= n
          BY <1>2, <4>1, <5>1 DEF CanMove
        <5>3. CurrentVotes(t.checkpoints[d]) \in 0..cap
          BY <1>0
        <5>4. new(d) = CurrentVotes(t.checkpoints[d]) - n
          BY <4>1
        <5>. HIDE DEF new
        <5>. QED  BY <5>2, <5>3, <5>4
      <4>2. CASE d # src
        <5>1. CurrentVotes(t.checkpoints[d]) + n <= cap
          BY <1>2, <2>3, <4>2 DEF Fits
        <5>2. CurrentVotes(t.checkpoints[d]) \in 0..cap
          BY <1>0
        <5>3. new(d) = CurrentVotes(t.checkpoints[d]) + n
          BY <4>2
        <5>. HIDE DEF new
        <5>. QED  BY <5>1, <5>2, <5>3
      <4>. QED  BY <4>1, <4>2
    <3>2. /\ t.checkpoints[d] \in H
          /\ Ordered(t.checkpoints[d]) /\ UpTo(t.checkpoints[d], b)
      BY <1>0 DEF CheckpointsOrdered, UpTo
    <3>3. cps2[d] = WriteCheckpoint(t.checkpoints[d], b, new(d))
      BY <2>3
    <3>. HIDE DEF new, cps2
    <3>4. PICK B, V, s, v : B = 1..last /\ V = 0..cap /\ s = t.checkpoints[d] /\ v = new(d)
      OBVIOUS
    <3>5. /\ B \in SUBSET Nat /\ V \in SUBSET Nat /\ b \in B /\ v \in V
          /\ s \in Seq([fromBlock : B, votes : V]) /\ Ordered(s) /\ UpTo(s, b)
      BY <3>1, <3>2, <3>4
    <3>6. /\ WriteCheckpoint(s, b, v) \in Seq([fromBlock : B, votes : V])
          /\ Ordered(WriteCheckpoint(s, b, v)) /\ UpTo(WriteCheckpoint(s, b, v), b)
          /\ CurrentVotes(WriteCheckpoint(s, b, v)) = v
      <4>1. WriteCheckpoint(s, b, v) \in Seq([fromBlock : B, votes : V])
        BY ONLY <3>5, WriteCheckpointLemma
      <4>2. Ordered(WriteCheckpoint(s, b, v)) /\ UpTo(WriteCheckpoint(s, b, v), b)
        BY ONLY <3>5, WriteCheckpointLemma
      <4>3. CurrentVotes(WriteCheckpoint(s, b, v)) = v
        BY ONLY <3>5, WriteCheckpointCurrent
      <4>. QED  BY <4>1, <4>2, <4>3
    <3>7. \A b0 \in Nat : b0 < b => PriorVotes(WriteCheckpoint(s, b, v), b0) = PriorVotes(s, b0)
      BY ONLY <3>5, WriteCheckpointPrior
    <3>. QED  BY <3>1, <3>3, <3>4, <3>6, <3>7
  <2>4. \A d \in Accounts : d # src /\ d # dst => cps2[d] = t.checkpoints[d]
    OBVIOUS
  <2>5. \A d \in Accounts : cps2[d] \in H /\ Ordered(cps2[d]) /\ UpTo(cps2[d], b)
    <3>. HIDE DEF cps2, H
    <3>. QED  BY <1>0, <2>3, <2>4 DEF CheckpointsOrdered, UpTo
  <2>6. t2 \in TokenRecords(cap, last)
    <3>1. cps2 \in [Accounts -> H]
      <4>1. cps2 = [a \in Accounts |-> cps2[a]]
        OBVIOUS
      <4>. HIDE DEF cps2, H
      <4>. QED  BY <2>5, <4>1
    <3>. HIDE DEF cps2
    <3>. QED  BY <2>1, <3>1 DEF TokenRecords
  <2>7. CheckpointsOrdered(t2, b)
    <3>. HIDE DEF cps2
    <3>. QED  BY <2>2, <2>5 DEF CheckpointsOrdered, UpTo
  <2>8. ASSUME NEW d \in Accounts
        PROVE  CurrentVotes(t2.checkpoints[d])
                = CurrentVotes(t.checkpoints[d]) + Shift(src, dst, n, d)
    <3>1. CASE d = src
      <4>1. CurrentVotes(cps2[d]) = new(d)
        BY <2>3, <3>1
      <4>2. new(d) = CurrentVotes(t.checkpoints[d]) - n
        BY <3>1
      <4>3. Shift(src, dst, n, d) = -n
        BY <2>0, <3>1 DEF Shift
      <4>. HIDE DEF cps2, new
      <4>. QED  BY <1>0, <2>2, <4>1, <4>2, <4>3
    <3>2. CASE d = dst
      <4>1. CurrentVotes(cps2[d]) = new(d)
        BY <2>3, <3>2
      <4>2. new(d) = CurrentVotes(t.checkpoints[d]) + n
        BY <2>0, <3>2
      <4>3. Shift(src, dst, n, d) = n
        BY <2>0, <3>2 DEF Shift
      <4>. HIDE DEF cps2, new
      <4>. QED  BY <1>0, <2>2, <4>1, <4>2, <4>3
    <3>3. CASE d # src /\ d # dst
      <4>. HIDE DEF cps2
      <4>. QED  BY <1>0, <2>2, <2>4, <3>3 DEF Shift
    <3>. QED  BY <3>1, <3>2, <3>3
  <2>9. SamePast(t, t2, b)
    <3>. HIDE DEF cps2
    <3>. QED  BY <2>2, <2>3, <2>4 DEF SamePast
  <2>. QED
    <3>. HIDE DEF cps2
    <3>. QED  BY <2>2, <2>6, <2>7, <2>8, <2>9
<1>. QED  BY <1>1, <1>2

(***************************************************************************)
(* The operations of a token.  Each changes balances or delegates and then  *)
(* moves the votes that changed hands.                                      *)
(***************************************************************************)

\* The balances delegated to d change by what _moveDelegates will move.
Shifted(t, t1, src, dst, n) ==
  \A d \in Accounts :
     SumFunctionOnSet(t1.balances, Delegators(t1, d))
       = SumFunctionOnSet(t.balances, Delegators(t, d)) + Shift(src, dst, n, d)

LEMMA DelegatorsFinite ==
  ASSUME NEW t, NEW d
  PROVE  Delegators(t, d) \in SUBSET Accounts /\ IsFiniteSet(Delegators(t, d))
BY AccountsAssumption, FS_Subset DEF Delegators

LEMMA BalancesSums ==
  ASSUME NEW cap \in Nat, NEW last \in Nat, NEW t \in TokenRecords(cap, last), NEW d
  PROVE  /\ SumFunctionOnSet(t.balances, Delegators(t, d)) \in Nat
         /\ SumFunctionOnSet(t.balances, Delegators(t, d))
              <= SumFunctionOnSet(t.balances, Accounts)
<1>1. \A a \in Accounts : t.balances[a] \in Nat
  <2>1. t.balances \in [Accounts -> 0..cap]
    BY TokenFields
  <2>2. \A a \in Accounts : t.balances[a] \in 0..cap
    BY <2>1
  <2>. QED  BY <2>2
<1>. QED  BY <1>1, AccountsAssumption, DelegatorsFinite, SumPart

\* If the balances and the votes moved agree, the token stays sound.
LEMMA Rebalance ==
  ASSUME NEW cap \in Nat, NEW last \in Nat, NEW b \in 1..last,
         NEW t, TokenSound(t, cap, last, b),
         NEW t1 \in TokenRecords(cap, last), t1.checkpoints = t.checkpoints,
         SumFunctionOnSet(t1.balances, Accounts) = t1.supply,
         NEW src \in Delegatees, NEW dst \in Delegatees, NEW n \in Nat,
         Shifted(t, t1, src, dst, n),
         NEW t2, t2 = MoveDelegates(t1, src, dst, n, b)
  PROVE  /\ TokenSound(t2, cap, last, b)
         /\ t2.balances = t1.balances /\ t2.delegates = t1.delegates
         /\ t2.nonces = t1.nonces /\ t2.supply = t1.supply
         /\ SamePast(t, t2, b)
<1>1. /\ t \in TokenRecords(cap, last) /\ CheckpointsOrdered(t, b)
      /\ VotesFollowBalances(t)
  BY DEF TokenSound
<1>2. CheckpointsOrdered(t1, b)
  BY <1>1 DEF CheckpointsOrdered
<1>3. \A d \in Accounts : CurrentVotes(t1.checkpoints[d]) \in Nat
  <2>1. t1.checkpoints \in [Accounts -> Seq([fromBlock : 1..last, votes : 0..cap])]
    BY TokenFields
  <2>2. \A d \in Accounts : CurrentVotes(t1.checkpoints[d]) \in 0..cap
    BY <2>1, VotesTyped
  <2>. QED  BY <2>2
<1>4. \A d \in Accounts : CurrentVotes(t1.checkpoints[d])
                            = SumFunctionOnSet(t1.balances, Delegators(t1, d))
                                - Shift(src, dst, n, d)
  <2> SUFFICES ASSUME NEW d \in Accounts
               PROVE  CurrentVotes(t1.checkpoints[d])
                        = SumFunctionOnSet(t1.balances, Delegators(t1, d))
                            - Shift(src, dst, n, d)
    OBVIOUS
  <2>1. CurrentVotes(t1.checkpoints[d]) = SumFunctionOnSet(t.balances, Delegators(t, d))
    BY <1>1 DEF VotesFollowBalances
  <2>2. SumFunctionOnSet(t1.balances, Delegators(t1, d))
          = SumFunctionOnSet(t.balances, Delegators(t, d)) + Shift(src, dst, n, d)
    BY DEF Shifted
  <2>3. Shift(src, dst, n, d) \in Int
    BY DEF Shift
  <2>. QED  BY <1>3, <2>1, <2>2, <2>3
<1>5. t1.supply \in 0..cap
  BY TokenFields
<1>6. CanMove(t1, src, dst, n)
  <2> SUFFICES ASSUME Moves(src, dst, n), src # ZeroAddress
               PROVE  CurrentVotes(t1.checkpoints[src]) >= n
    BY DEF CanMove
  <2>1. src \in Accounts /\ Shift(src, dst, n, src) = -n
    BY DEF Delegatees, Shift, Moves
  <2>2. SumFunctionOnSet(t1.balances, Delegators(t1, src)) \in Nat
    BY BalancesSums
  <2>. QED  BY <1>4, <2>1, <2>2
<1>7. Fits(t1, src, dst, n, cap)
  <2> SUFFICES ASSUME NEW d \in Accounts, d = dst, Moves(src, dst, n)
               PROVE  CurrentVotes(t1.checkpoints[d]) + n <= cap
    BY DEF Fits
  <2>1. Shift(src, dst, n, d) = n
    BY DEF Shift, Moves
  <2>2. /\ SumFunctionOnSet(t1.balances, Delegators(t1, d)) \in Nat
        /\ SumFunctionOnSet(t1.balances, Delegators(t1, d)) <= t1.supply
    BY BalancesSums
  <2>. QED  BY <1>4, <1>5, <2>1, <2>2
<1>8. /\ t2 \in TokenRecords(cap, last)
      /\ t2.balances = t1.balances /\ t2.delegates = t1.delegates
      /\ t2.nonces = t1.nonces /\ t2.supply = t1.supply
      /\ CheckpointsOrdered(t2, b)
      /\ \A d \in Accounts :
           CurrentVotes(t2.checkpoints[d])
             = CurrentVotes(t1.checkpoints[d]) + Shift(src, dst, n, d)
      /\ SamePast(t1, t2, b)
  BY <1>2, <1>6, <1>7, MoveDelegatesLemma
<1>9. VotesFollowBalances(t2)
  <2> SUFFICES ASSUME NEW d \in Accounts
               PROVE  CurrentVotes(t2.checkpoints[d])
                        = SumFunctionOnSet(t2.balances, Delegators(t2, d))
    BY DEF VotesFollowBalances
  <2>1. Delegators(t2, d) = Delegators(t1, d)
    BY <1>8 DEF Delegators
  <2>2. Shift(src, dst, n, d) \in Int
    BY DEF Shift
  <2>3. SumFunctionOnSet(t1.balances, Delegators(t1, d)) \in Nat
    BY BalancesSums
  <2>4. \A x, y \in Int : x - y + y = x
    OBVIOUS
  <2>. QED  BY <1>4, <1>8, <2>1, <2>2, <2>3, <2>4
<1>10. SamePast(t, t2, b)
  BY <1>8 DEF SamePast
<1>11. TokenSound(t2, cap, last, b)
  BY <1>8, <1>9 DEF TokenSound
<1>. QED  BY <1>8, <1>10, <1>11

\* Adding k to the balance of x.
AddTo(f, x, k) == [f EXCEPT ![x] = @ + k]

LEMMA SumAdjust ==
  ASSUME NEW A, NEW S \in SUBSET A, IsFiniteSet(S), NEW f \in [A -> Int],
         NEW x \in A, NEW k \in Int
  PROVE  SumFunctionOnSet(AddTo(f, x, k), S)
           = SumFunctionOnSet(f, S) + (IF x \in S THEN k ELSE 0)
<1> DEFINE g == AddTo(f, x, k)
<1>1. \A y \in A : f[y] \in Int /\ g[y] \in Int /\ g[y] = IF y = x THEN f[y] + k ELSE f[y]
  BY DEF AddTo
<1>2. SumFunctionOnSet(f, S) \in Int
  BY SumInt
<1>. HIDE DEF g
<1>3. CASE x \in S
  <2>1. SumFunctionOnSet(g, S) = SumFunctionOnSet(f, S) - f[x] + g[x]
    BY <1>1, <1>3, SumChange
  <2>. QED  BY <1>1, <1>2, <1>3, <2>1 DEF g
<1>4. CASE x \notin S
  <2>1. \A y \in S : f[y] \in Int /\ g[y] = f[y]
    BY <1>1, <1>4
  <2>2. SumFunctionOnSet(g, S) = SumFunctionOnSet(f, S)
    BY <2>1, SumSame
  <2>. QED  BY <1>2, <1>4, <2>2 DEF g
<1>. QED  BY <1>3, <1>4

\* _transferTokens moves amount from src to dst, and the votes with it.
LEMMA TransferLemma ==
  ASSUME NEW cap \in Nat, NEW last \in Nat, NEW b \in 1..last,
         NEW t, TokenSound(t, cap, last, b),
         NEW src \in Accounts, NEW dst \in Accounts, NEW n \in Nat,
         CanTransfer(t, src, dst, n), NEW t2, t2 = Transfer(t, src, dst, n, b)
  PROVE  /\ TokenSound(t2, cap, last, b)
         /\ \A a \in Accounts : t2.balances[a] = t.balances[a]
              - (IF a = src THEN n ELSE 0) + (IF a = dst THEN n ELSE 0)
         /\ t2.delegates = t.delegates /\ t2.nonces = t.nonces /\ t2.supply = t.supply
         /\ SamePast(t, t2, b)
<1> DEFINE f == t.balances
           f1 == AddTo(f, src, -n)
           f2 == AddTo(f1, dst, n)
           t1 == [balances |-> f2, delegates |-> t.delegates,
                  checkpoints |-> t.checkpoints, nonces |-> t.nonces, supply |-> t.supply]
<1>0. /\ t \in TokenRecords(cap, last)
      /\ SumFunctionOnSet(f, Accounts) = t.supply
      /\ f \in [Accounts -> 0..cap] /\ t.supply \in 0..cap
      /\ t.delegates \in [Accounts -> Delegatees]
      /\ \A a \in Accounts : f[a] \in Nat
      /\ f[src] >= n
  <2>1. t \in TokenRecords(cap, last) /\ SumFunctionOnSet(f, Accounts) = t.supply
    BY DEF TokenSound
  <2>2. /\ f \in [Accounts -> 0..cap] /\ t.supply \in 0..cap
        /\ t.delegates \in [Accounts -> Delegatees]
    BY <2>1, TokenFields
  <2>3. f[src] >= n
    BY DEF CanTransfer
  <2>. HIDE DEF f
  <2>. QED  BY <2>1, <2>2, <2>3
<1>1. f \in [Accounts -> Int] /\ f1 \in [Accounts -> Int] /\ f2 \in [Accounts -> Int]
  <2>1. f \in [Accounts -> Int]
    BY <1>0
  <2>. HIDE DEF f
  <2>2. f1 \in [Accounts -> Int]
    BY <2>1 DEF AddTo
  <2>. HIDE DEF f1
  <2>. QED  BY <2>1, <2>2 DEF AddTo
<1>2. \A a \in Accounts : f2[a] = f[a] - (IF a = src THEN n ELSE 0)
                                    + (IF a = dst THEN n ELSE 0)
  <2>. HIDE DEF f
  <2>1. \A a \in Accounts : f1[a] = IF a = src THEN f[a] + (-n) ELSE f[a]
    BY <1>1 DEF AddTo
  <2>. HIDE DEF f1
  <2>2. \A a \in Accounts : f2[a] = IF a = dst THEN f1[a] + n ELSE f1[a]
    BY <1>1 DEF AddTo
  <2>. HIDE DEF f2
  <2>3. \A a \in Accounts : f[a] \in Int
    BY <1>1
  <2>. QED  BY <2>1, <2>2, <2>3
<1>3. ASSUME NEW S \in SUBSET Accounts
      PROVE  SumFunctionOnSet(f2, S) = SumFunctionOnSet(f, S)
               - (IF src \in S THEN n ELSE 0) + (IF dst \in S THEN n ELSE 0)
  <2>1. IsFiniteSet(S)
    BY AccountsAssumption, FS_Subset
  <2>. HIDE DEF f
  <2>2. SumFunctionOnSet(f1, S) = SumFunctionOnSet(f, S) + (IF src \in S THEN -n ELSE 0)
    BY <1>1, <2>1, SumAdjust
  <2>3. SumFunctionOnSet(f, S) \in Int
    BY <1>1, <2>1, SumInt
  <2>. HIDE DEF f1
  <2>4. SumFunctionOnSet(f2, S) = SumFunctionOnSet(f1, S) + (IF dst \in S THEN n ELSE 0)
    BY <1>1, <2>1, SumAdjust
  <2>. HIDE DEF f2
  <2>. QED  BY <2>2, <2>3, <2>4
<1>4. \A a \in Accounts : f2[a] \in Nat
  <2>. HIDE DEF f, f2
  <2>. QED  BY <1>0, <1>2
<1>5. SumFunctionOnSet(f2, Accounts) = t.supply
  <2>. HIDE DEF f, f2
  <2>. QED  BY <1>0, <1>3
<1>6. t1 \in TokenRecords(cap, last)
  <2>1. \A a \in Accounts : f2[a] <= t.supply
    <3>. HIDE DEF f2
    <3>. QED  BY <1>4, <1>5, AccountsAssumption, SumBoundsElement
  <2>3. f2 \in [Accounts -> 0..cap]
    <3>. HIDE DEF f2
    <3>. QED  BY <1>0, <1>1, <1>4, <2>1
  <2>. HIDE DEF f2
  <2>. QED  BY <1>0, <2>3, TokenFields DEF TokenRecords
<1>7. Shifted(t, t1, t.delegates[src], t.delegates[dst], n)
  <2> SUFFICES ASSUME NEW d \in Accounts
               PROVE  SumFunctionOnSet(t1.balances, Delegators(t1, d))
                        = SumFunctionOnSet(t.balances, Delegators(t, d))
                            + Shift(t.delegates[src], t.delegates[dst], n, d)
    BY DEF Shifted
  <2>1. Delegators(t1, d) = Delegators(t, d) /\ t1.balances = f2
    BY DEF Delegators
  <2>2. /\ src \in Delegators(t, d) <=> t.delegates[src] = d
        /\ dst \in Delegators(t, d) <=> t.delegates[dst] = d
    BY DEF Delegators
  <2>3. Delegators(t, d) \in SUBSET Accounts
    BY DelegatorsFinite
  <2>4. SumFunctionOnSet(f, Delegators(t, d)) \in Nat
    BY <1>0, BalancesSums
  <2>5. SumFunctionOnSet(f2, Delegators(t, d)) = SumFunctionOnSet(f, Delegators(t, d))
          - (IF t.delegates[src] = d THEN n ELSE 0) + (IF t.delegates[dst] = d THEN n ELSE 0)
    <3>. HIDE DEF f, f2
    <3>. QED  BY <1>3, <2>2, <2>3
  <2>6. \A x \in Nat : x - (IF t.delegates[src] = d THEN n ELSE 0)
                         + (IF t.delegates[dst] = d THEN n ELSE 0)
                       = x + Shift(t.delegates[src], t.delegates[dst], n, d)
    BY DEF Shift
  <2>. HIDE DEF f2, t1
  <2>. QED  BY <2>1, <2>4, <2>5, <2>6
<1>8. t2 = MoveDelegates(t1, t.delegates[src], t.delegates[dst], n, b)
  <2>1. [[t EXCEPT !.balances[src] = @ - n] EXCEPT !.balances[dst] = @ + n] = t1
    <3>1. [t EXCEPT !.balances[src] = @ - n] = [t EXCEPT !.balances = f1]
      <4>1. \A x \in Int : x - n = x + (-n)
        OBVIOUS
      <4>2. f[src] - n = f[src] + (-n)
        BY <1>0, <4>1
      <4>. QED  BY <4>2, Zenon DEF AddTo
    <3>2. PICK u : u = [t EXCEPT !.balances = f1]
      OBVIOUS
    <3>. HIDE DEF f1
    <3>3. u = [balances |-> f1, delegates |-> t.delegates,
               checkpoints |-> t.checkpoints, nonces |-> t.nonces, supply |-> t.supply]
      <4>1. t \in TokenRecords(cap, last)
        BY <1>0
      <4>. QED  BY ONLY <3>2, <4>1, WithBalances, Zenon
    <3>4. [u EXCEPT !.balances[dst] = @ + n] = [u EXCEPT !.balances = f2]
      <4>1. u.balances = f1
        BY <3>3
      <4>. QED  BY <4>1, Zenon DEF AddTo
    <3>5. [u EXCEPT !.balances = f2] = t1
      <4>. HIDE DEF f2
      <4>. QED  BY <3>3
    <3>. QED  BY <3>1, <3>2, <3>4, <3>5
  <2>. QED  BY <2>1 DEF Transfer
<1>9. /\ TokenSound(t2, cap, last, b)
      /\ t2.balances = t1.balances /\ t2.delegates = t1.delegates
      /\ t2.nonces = t1.nonces /\ t2.supply = t1.supply
      /\ SamePast(t, t2, b)
  <2>1. /\ t.delegates[src] \in Delegatees /\ t.delegates[dst] \in Delegatees
        /\ t1.checkpoints = t.checkpoints
        /\ SumFunctionOnSet(t1.balances, Accounts) = t1.supply
    BY <1>0, <1>5
  <2>. HIDE DEF t1
  <2>. QED  BY <1>6, <1>7, <1>8, <2>1, Rebalance
<1>. QED  BY <1>2, <1>9

\* k new tokens for account a; minting moves their votes to a's delegate,
\* burning takes them away.
Resupplied(t, a, k) ==
  [balances |-> AddTo(t.balances, a, k), delegates |-> t.delegates,
   checkpoints |-> t.checkpoints, nonces |-> t.nonces, supply |-> t.supply + k]

MintsOrBurns(t, a, k, src, dst, n) ==
  \/ k = n /\ src = ZeroAddress /\ dst = t.delegates[a]
  \/ k = -n /\ src = t.delegates[a] /\ dst = ZeroAddress

\* What minting and burning have in common.
LEMMA SupplyLemma ==
  ASSUME NEW cap \in Nat, NEW last \in Nat, NEW b \in 1..last,
         NEW t, TokenSound(t, cap, last, b),
         NEW a \in Accounts, NEW k \in Int, NEW n \in Nat,
         NEW src \in Delegatees, NEW dst \in Delegatees,
         MintsOrBurns(t, a, k, src, dst, n),
         t.balances[a] + k >= 0, t.supply + k <= cap,
         NEW t2, t2 = MoveDelegates(Resupplied(t, a, k), src, dst, n, b)
  PROVE  /\ TokenSound(t2, cap, last, b)
         /\ \A x \in Accounts : t2.balances[x] = t.balances[x] + (IF x = a THEN k ELSE 0)
         /\ t2.delegates = t.delegates /\ t2.nonces = t.nonces
         /\ t2.supply = t.supply + k
         /\ SamePast(t, t2, b)
<1> DEFINE f == t.balances
           f2 == AddTo(f, a, k)
<1>t. PICK t1 : /\ t1 = Resupplied(t, a, k)
                /\ t1 = [balances |-> f2, delegates |-> t.delegates,
                         checkpoints |-> t.checkpoints, nonces |-> t.nonces,
                         supply |-> t.supply + k]
  BY DEF Resupplied
<1>0. /\ t \in TokenRecords(cap, last)
      /\ SumFunctionOnSet(f, Accounts) = t.supply
      /\ f \in [Accounts -> 0..cap] /\ t.supply \in 0..cap
      /\ t.delegates \in [Accounts -> Delegatees]
      /\ \A x \in Accounts : f[x] \in Nat
  <2>1. t \in TokenRecords(cap, last) /\ SumFunctionOnSet(f, Accounts) = t.supply
    BY DEF TokenSound
  <2>2. /\ f \in [Accounts -> 0..cap] /\ t.supply \in 0..cap
        /\ t.delegates \in [Accounts -> Delegatees]
    BY <2>1, TokenFields
  <2>. HIDE DEF f
  <2>. QED  BY <2>1, <2>2
<1>1. f \in [Accounts -> Int] /\ f2 \in [Accounts -> Int]
  <2>1. f \in [Accounts -> Int]
    BY <1>0
  <2>. HIDE DEF f
  <2>. QED  BY <2>1 DEF AddTo
<1>2. \A x \in Accounts : f2[x] = f[x] + (IF x = a THEN k ELSE 0)
  <2>. HIDE DEF f
  <2>. QED  BY <1>1 DEF AddTo
<1>3. ASSUME NEW S \in SUBSET Accounts
      PROVE  SumFunctionOnSet(f2, S) = SumFunctionOnSet(f, S) + (IF a \in S THEN k ELSE 0)
  <2>1. IsFiniteSet(S)
    BY AccountsAssumption, FS_Subset
  <2>. HIDE DEF f
  <2>. QED  BY <1>1, <2>1, SumAdjust
<1>4. \A x \in Accounts : f2[x] \in Nat
  <2>1. f[a] + k >= 0
    OBVIOUS
  <2>. HIDE DEF f, f2
  <2>. QED  BY <1>0, <1>2, <2>1
<1>5. SumFunctionOnSet(f2, Accounts) = t.supply + k
  <2>1. SumFunctionOnSet(f2, Accounts)
          = SumFunctionOnSet(f, Accounts) + (IF a \in Accounts THEN k ELSE 0)
    BY <1>3
  <2>. HIDE DEF f, f2
  <2>. QED  BY <1>0, <2>1
<1>6. t1 \in TokenRecords(cap, last)
  <2>1. \A x \in Accounts : f2[x] <= t.supply + k
    <3>. HIDE DEF f2
    <3>. QED  BY <1>4, <1>5, AccountsAssumption, SumBoundsElement
  <2>2. t.supply + k \in 0..cap
    <3>1. SumFunctionOnSet(f2, Accounts) \in Nat
      <4>. HIDE DEF f2
      <4>. QED  BY <1>4, AccountsAssumption, SumNat
    <3>. HIDE DEF f2
    <3>. QED  BY <1>0, <1>5, <3>1
  <2>3. f2 \in [Accounts -> 0..cap]
    <3>. HIDE DEF f2
    <3>. QED  BY <1>0, <1>1, <1>4, <2>1, <2>2
  <2>. HIDE DEF f2
  <2>. QED  BY <1>0, <1>t, <2>2, <2>3, TokenFields DEF TokenRecords
<1>7. Shifted(t, t1, src, dst, n)
  <2> SUFFICES ASSUME NEW d \in Accounts
               PROVE  SumFunctionOnSet(t1.balances, Delegators(t1, d))
                        = SumFunctionOnSet(t.balances, Delegators(t, d))
                            + Shift(src, dst, n, d)
    BY DEF Shifted
  <2>1. Delegators(t1, d) = Delegators(t, d) /\ t1.balances = f2
    BY <1>t DEF Delegators
  <2>2. a \in Delegators(t, d) <=> t.delegates[a] = d
    BY DEF Delegators
  <2>3. Delegators(t, d) \in SUBSET Accounts
    BY DelegatorsFinite
  <2>4. SumFunctionOnSet(f, Delegators(t, d)) \in Nat
    BY <1>0, BalancesSums
  <2>5. SumFunctionOnSet(f2, Delegators(t, d)) = SumFunctionOnSet(f, Delegators(t, d))
          + (IF t.delegates[a] = d THEN k ELSE 0)
    <3>. HIDE DEF f, f2
    <3>. QED  BY <1>3, <2>2, <2>3
  <2>6. Shift(src, dst, n, d) = IF t.delegates[a] = d THEN k ELSE 0
    <3>1. d # ZeroAddress
      BY ZeroAddressAssumption
    <3>. QED  BY <3>1 DEF Shift, MintsOrBurns
  <2>. HIDE DEF f2
  <2>. QED  BY <2>1, <2>4, <2>5, <2>6
<1>9. /\ TokenSound(t2, cap, last, b)
      /\ t2.balances = t1.balances /\ t2.delegates = t1.delegates
      /\ t2.nonces = t1.nonces /\ t2.supply = t1.supply
      /\ SamePast(t, t2, b)
  <2>1. /\ t1.checkpoints = t.checkpoints
        /\ SumFunctionOnSet(t1.balances, Accounts) = t1.supply
    BY <1>0, <1>5, <1>t
  <2>. QED  BY <1>6, <1>7, <1>t, <2>1, Rebalance
<1>. QED  BY <1>2, <1>9, <1>t

\* _mint: the supply must stay below the cap.
LEMMA MintLemma ==
  ASSUME NEW cap \in Nat, NEW last \in Nat, NEW b \in 1..last,
         NEW t, TokenSound(t, cap, last, b),
         NEW a \in Accounts, NEW n \in Nat, t.supply + n <= cap,
         NEW t2, t2 = Mint(t, a, n, b)
  PROVE  /\ TokenSound(t2, cap, last, b)
         /\ \A x \in Accounts : t2.balances[x] = t.balances[x] + (IF x = a THEN n ELSE 0)
         /\ t2.delegates = t.delegates /\ t2.nonces = t.nonces
         /\ t2.supply = t.supply + n
         /\ SamePast(t, t2, b)
<1>2. t \in TokenRecords(cap, last)
  BY DEF TokenSound
<1>3. [t EXCEPT !.balances[a] = @ + n, !.supply = @ + n]
        = [t EXCEPT !.balances = AddTo(t.balances, a, n), !.supply = t.supply + n]
  BY Zenon DEF AddTo
<1>4. [t EXCEPT !.balances[a] = @ + n, !.supply = @ + n] = Resupplied(t, a, n)
  BY ONLY <1>2, <1>3, WithSupply, Zenon DEF Resupplied
<1>5. t2 = MoveDelegates(Resupplied(t, a, n), ZeroAddress, t.delegates[a], n, b)
  BY <1>4, Zenon DEF Mint
<1>6. /\ t.delegates[a] \in Delegatees /\ ZeroAddress \in Delegatees
      /\ t.balances[a] + n >= 0 /\ n \in Int
  <2>1. t.delegates \in [Accounts -> Delegatees] /\ t.balances \in [Accounts -> 0..cap]
    BY <1>2, TokenFields
  <2>2. t.balances[a] \in 0..cap
    BY <2>1
  <2>. QED  BY <2>1, <2>2 DEF Delegatees
<1>. QED  BY <1>5, <1>6, SupplyLemma DEF MintsOrBurns

\* _burn.
LEMMA BurnLemma ==
  ASSUME NEW cap \in Nat, NEW last \in Nat, NEW b \in 1..last,
         NEW t, TokenSound(t, cap, last, b),
         NEW a \in Accounts, NEW n \in Nat, CanBurn(t, a, n),
         NEW t2, t2 = Burn(t, a, n, b)
  PROVE  /\ TokenSound(t2, cap, last, b)
         /\ \A x \in Accounts : t2.balances[x] = t.balances[x] - (IF x = a THEN n ELSE 0)
         /\ t2.delegates = t.delegates /\ t2.nonces = t.nonces
         /\ t2.supply = t.supply - n
         /\ SamePast(t, t2, b)
<1>0. t.supply + (-n) = t.supply - n /\ t.balances[a] + (-n) = t.balances[a] - n
  <2>1. t.supply \in 0..cap /\ t.balances \in [Accounts -> 0..cap]
    BY TokenFields DEF TokenSound
  <2>2. t.balances[a] \in 0..cap
    BY <2>1
  <2>. QED  BY <2>1, <2>2
<1>2. t \in TokenRecords(cap, last)
  BY DEF TokenSound
<1>3. [t EXCEPT !.balances[a] = @ - n, !.supply = @ - n]
        = [t EXCEPT !.balances = AddTo(t.balances, a, -n), !.supply = t.supply + (-n)]
  BY <1>0, Zenon DEF AddTo
<1>4. [t EXCEPT !.balances[a] = @ - n, !.supply = @ - n] = Resupplied(t, a, -n)
  BY ONLY <1>2, <1>3, WithSupply, Zenon DEF Resupplied
<1>5. t2 = MoveDelegates(Resupplied(t, a, -n), t.delegates[a], ZeroAddress, n, b)
  BY <1>4, Zenon DEF Burn
<1>6. /\ t.delegates[a] \in Delegatees /\ ZeroAddress \in Delegatees
      /\ t.balances[a] + (-n) >= 0 /\ t.supply + (-n) <= cap /\ -n \in Int
      /\ t.supply \in Int /\ \A x \in Accounts : t.balances[x] \in Int
  <2>1. /\ t.delegates \in [Accounts -> Delegatees] /\ t.balances \in [Accounts -> 0..cap]
        /\ t.supply \in 0..cap
    BY <1>2, TokenFields
  <2>2. \A x \in Accounts : t.balances[x] \in 0..cap
    BY <2>1
  <2>. QED  BY <2>1, <2>2 DEF Delegatees, CanBurn
<1>7. /\ TokenSound(t2, cap, last, b)
      /\ \A x \in Accounts : t2.balances[x] = t.balances[x] + (IF x = a THEN -n ELSE 0)
      /\ t2.delegates = t.delegates /\ t2.nonces = t.nonces
      /\ t2.supply = t.supply + (-n)
      /\ SamePast(t, t2, b)
  <2>1. MintsOrBurns(t, a, -n, t.delegates[a], ZeroAddress, n)
    BY DEF MintsOrBurns
  <2>2. PICK k \in Int : k = -n
    BY <1>6
  <2>3. PICK src \in Delegatees, dst \in Delegatees : src = t.delegates[a] /\ dst = ZeroAddress
    BY <1>6
  <2>4. /\ MintsOrBurns(t, a, k, src, dst, n)
        /\ t.balances[a] + k >= 0 /\ t.supply + k <= cap
        /\ t2 = MoveDelegates(Resupplied(t, a, k), src, dst, n, b)
    BY <1>5, <1>6, <2>1, <2>2, <2>3
  <2>5. /\ TokenSound(t2, cap, last, b)
        /\ \A x \in Accounts : t2.balances[x] = t.balances[x] + (IF x = a THEN k ELSE 0)
        /\ t2.delegates = t.delegates /\ t2.nonces = t.nonces
        /\ t2.supply = t.supply + k
        /\ SamePast(t, t2, b)
    BY ONLY <2>4, SupplyLemma, TokenSound(t, cap, last, b)
  <2>. QED  BY ONLY <2>2, <2>5
<1>8. \A x \in Accounts : t2.balances[x] = t.balances[x] - (IF x = a THEN n ELSE 0)
  BY <1>6, <1>7
<1>. QED  BY <1>0, <1>7, <1>8

\* _delegate: the delegator's balance changes hands, no token does.
LEMMA DelegateLemma ==
  ASSUME NEW cap \in Nat, NEW last \in Nat, NEW b \in 1..last,
         NEW t, TokenSound(t, cap, last, b),
         NEW a \in Accounts, NEW e \in Delegatees,
         NEW t2, t2 = Delegate(t, a, e, b)
  PROVE  /\ TokenSound(t2, cap, last, b)
         /\ t2.balances = t.balances /\ t2.nonces = t.nonces /\ t2.supply = t.supply
         /\ \A x \in Accounts : t2.delegates[x] = IF x = a THEN e ELSE t.delegates[x]
         /\ SamePast(t, t2, b)
<1> DEFINE f == t.balances
           de == [t.delegates EXCEPT ![a] = e]
           old == t.delegates[a]
<1>0. /\ t \in TokenRecords(cap, last)
      /\ SumFunctionOnSet(f, Accounts) = t.supply
      /\ t.delegates \in [Accounts -> Delegatees]
      /\ \A x \in Accounts : f[x] \in Nat
  <2>1. t \in TokenRecords(cap, last) /\ SumFunctionOnSet(f, Accounts) = t.supply
    BY DEF TokenSound
  <2>2. f \in [Accounts -> 0..cap] /\ t.delegates \in [Accounts -> Delegatees]
    BY <2>1, TokenFields
  <2>. HIDE DEF f
  <2>. QED  BY <2>1, <2>2
<1>1. /\ de \in [Accounts -> Delegatees]
      /\ \A x \in Accounts : de[x] = IF x = a THEN e ELSE t.delegates[x]
  BY <1>0
<1>2. PICK t1 : t1 = [balances |-> t.balances, delegates |-> de,
                      checkpoints |-> t.checkpoints, nonces |-> t.nonces, supply |-> t.supply]
  OBVIOUS
<1>3. t1 \in TokenRecords(cap, last)
  <2>. HIDE DEF de
  <2>. QED  BY <1>0, <1>1, <1>2, TokenFields DEF TokenRecords
<1>4. t2 = MoveDelegates(t1, old, e, f[a], b)
  <2>1. [t EXCEPT !.delegates[a] = e] = [t EXCEPT !.delegates = de]
    BY Zenon
  <2>2. [t EXCEPT !.delegates = de] = t1
    <3>. HIDE DEF de, f
    <3>. QED  BY ONLY <1>0, <1>2, WithDelegates, Zenon
  <2>. QED  BY <2>1, <2>2, Zenon DEF Delegate
<1>5. Shifted(t, t1, old, e, f[a])
  <2> SUFFICES ASSUME NEW d \in Accounts
               PROVE  SumFunctionOnSet(t1.balances, Delegators(t1, d))
                        = SumFunctionOnSet(t.balances, Delegators(t, d)) + Shift(old, e, f[a], d)
    BY DEF Shifted
  <2>1. t1.balances = f /\ Delegators(t1, d) = {x \in Accounts : de[x] = d}
    <3>. HIDE DEF de
    <3>. QED  BY <1>2 DEF Delegators
  <2>2. PICK S : S = Delegators(t, d)
    OBVIOUS
  <2>3. S \in SUBSET Accounts /\ IsFiniteSet(S) /\ (a \in S <=> old = d)
    BY <2>2, DelegatorsFinite DEF Delegators
  <2>4. SumFunctionOnSet(f, S) \in Nat
    BY <1>0, <2>2, BalancesSums
  <2>5. f[a] \in Nat /\ \A x \in S : f[x] \in Int
    BY <1>0, <2>3
  <2>6. CASE old # e /\ d = e
    <3>1. Delegators(t1, d) = S \cup {a} /\ a \notin S
      BY <1>1, <2>1, <2>2, <2>3, <2>6 DEF Delegators
    <3>2. SumFunctionOnSet(f, S \cup {a}) = f[a] + SumFunctionOnSet(f, S)
      <4>1. \A x \in S \cup {a} : f[x] \in Int
        BY <2>5
      <4>. HIDE DEF f
      <4>. QED  BY <2>3, <3>1, <4>1, SumAdd
    <3>3. Shift(old, e, f[a], d) = f[a]
      BY <2>5, <2>6 DEF Shift
    <3>4. SumFunctionOnSet(t1.balances, Delegators(t1, d)) = SumFunctionOnSet(f, S \cup {a})
      BY <2>1, <3>1
    <3>5. SumFunctionOnSet(t.balances, Delegators(t, d)) = SumFunctionOnSet(f, S)
      BY <2>2
    <3>6. \A x, y \in Nat : y + x = x + y
      OBVIOUS
    <3>7. f[a] + SumFunctionOnSet(f, S) = SumFunctionOnSet(f, S) + f[a]
      BY <2>4, <2>5, <3>6, Zenon
    <3>. HIDE DEF f, old
    <3>. QED  BY <3>2, <3>3, <3>4, <3>5, <3>7, Zenon
  <2>7. CASE old # e /\ d = old
    <3>1. Delegators(t1, d) = S \ {a} /\ a \in S
      BY <1>1, <2>1, <2>2, <2>3, <2>7 DEF Delegators
    <3>2. SumFunctionOnSet(f, S) = f[a] + SumFunctionOnSet(f, S \ {a})
      <4>. HIDE DEF f
      <4>. QED  BY <2>3, <2>5, <3>1, SumElement
    <3>3. SumFunctionOnSet(f, S \ {a}) \in Nat
      <4>1. S \ {a} \in SUBSET Accounts
        BY <2>3
      <4>. HIDE DEF f
      <4>. QED  BY <1>0, <4>1, AccountsAssumption, SumPart
    <3>4. Shift(old, e, f[a], d) = -f[a]
      BY <2>5, <2>7 DEF Shift
    <3>5. SumFunctionOnSet(t1.balances, Delegators(t1, d)) = SumFunctionOnSet(f, S \ {a})
      BY <2>1, <3>1
    <3>6. SumFunctionOnSet(t.balances, Delegators(t, d)) = SumFunctionOnSet(f, S)
      BY <2>2
    <3>7. \A x, y \in Nat : x = (y + x) + (-y)
      OBVIOUS
    <3>8. SumFunctionOnSet(f, S \ {a}) = (f[a] + SumFunctionOnSet(f, S \ {a})) + (-f[a])
      BY <2>5, <3>3, <3>7, Zenon
    <3>. HIDE DEF f, old
    <3>. QED  BY <3>2, <3>4, <3>5, <3>6, <3>8, Zenon
  <2>8. CASE old = e \/ (d # e /\ d # old)
    <3>1. Delegators(t1, d) = S
      BY <1>1, <2>1, <2>2, <2>3, <2>8 DEF Delegators
    <3>2. Shift(old, e, f[a], d) = 0
      BY <2>5, <2>8 DEF Shift
    <3>. HIDE DEF old
    <3>. QED  BY <2>1, <2>2, <2>4, <3>1, <3>2
  <2>. QED  BY <2>6, <2>7, <2>8
<1>6. /\ TokenSound(t2, cap, last, b)
      /\ t2.balances = t1.balances /\ t2.nonces = t1.nonces /\ t2.supply = t1.supply
      /\ t2.delegates = t1.delegates
      /\ SamePast(t, t2, b)
  <2>1. /\ old \in Delegatees /\ f[a] \in Nat
        /\ t1.checkpoints = t.checkpoints
        /\ SumFunctionOnSet(t1.balances, Accounts) = t1.supply
    <3>. HIDE DEF de
    <3>. QED  BY <1>0, <1>2
  <2>. HIDE DEF f, old
  <2>. QED  BY <1>3, <1>4, <1>5, <2>1, Rebalance
<1>7. t1.balances = t.balances /\ t1.nonces = t.nonces /\ t1.supply = t.supply
  <2>. HIDE DEF de
  <2>. QED  BY <1>2
<1>8. \A x \in Accounts : t2.delegates[x] = IF x = a THEN e ELSE t.delegates[x]
  <2>1. t2.delegates = de
    BY <1>2, <1>6
  <2>. QED  BY <1>1, <2>1
<1>. QED  BY <1>6, <1>7, <1>8

\* A signature used up changes nothing but a nonce.
LEMMA UseNonceLemma ==
  ASSUME NEW cap \in Nat, NEW last \in Nat, NEW b \in 1..last,
         NEW t, TokenSound(t, cap, last, b), NEW a \in Accounts,
         NEW t2, t2 = UseNonce(t, a)
  PROVE  /\ TokenSound(t2, cap, last, b)
         /\ t2.balances = t.balances /\ t2.supply = t.supply
         /\ t2.nonces = [t.nonces EXCEPT ![a] = @ + 1]
         /\ SamePast(t, t2, b)
<1> DEFINE no == [t.nonces EXCEPT ![a] = @ + 1]
<1>0. t \in TokenRecords(cap, last)
  BY DEF TokenSound
<1>1. no \in [Accounts -> Nat]
  <2>1. t.nonces \in [Accounts -> Nat]
    BY <1>0, TokenFields
  <2>. QED  BY <2>1
<1>2. t2 = [balances |-> t.balances, delegates |-> t.delegates,
            checkpoints |-> t.checkpoints, nonces |-> no, supply |-> t.supply]
  <2>1. t2 = [t EXCEPT !.nonces = no]
    BY Zenon DEF UseNonce
  <2>. HIDE DEF no
  <2>. QED  BY ONLY <1>0, <2>1, WithNonces, Zenon
<1>. HIDE DEF no
<1>3. /\ t2.balances = t.balances /\ t2.delegates = t.delegates
      /\ t2.checkpoints = t.checkpoints /\ t2.nonces = no /\ t2.supply = t.supply
  BY <1>2
<1>4. t2 \in TokenRecords(cap, last)
  BY <1>0, <1>1, <1>2, TokenFields DEF TokenRecords
<1>5. CheckpointsOrdered(t2, b) /\ VotesFollowBalances(t2)
  <2>1. \A d : Delegators(t2, d) = Delegators(t, d)
    BY <1>3 DEF Delegators
  <2>. QED  BY <1>3, <2>1 DEF TokenSound, CheckpointsOrdered, VotesFollowBalances
<1>6. TokenSound(t2, cap, last, b)
  BY <1>3, <1>4, <1>5 DEF TokenSound
<1>7. SamePast(t, t2, b)
  BY <1>3 DEF SamePast
<1>. QED  BY <1>3, <1>6, <1>7 DEF no

\* A token nobody holds.
LEMMA NewTokenLemma ==
  ASSUME NEW cap \in Nat, NEW last \in Nat, NEW b \in Nat
  PROVE  TokenSound(NewToken, cap, last, b)
<1>1. NewToken \in TokenRecords(cap, last)
  <2>1. << >> \in Seq([fromBlock : 1..last, votes : 0..cap])
    OBVIOUS
  <2>. QED  BY <2>1 DEF NewToken, TokenRecords, Delegatees
<1>2. CheckpointsOrdered(NewToken, b)
  BY DEF NewToken, CheckpointsOrdered, Ordered
<1>3. \A S \in SUBSET Accounts : SumFunctionOnSet(NewToken.balances, S) = 0
  <2> SUFFICES ASSUME NEW S \in SUBSET Accounts
               PROVE  SumFunctionOnSet(NewToken.balances, S) = 0
    OBVIOUS
  <2>1. IsFiniteSet(S)
    BY AccountsAssumption, FS_Subset
  <2>2. \A x \in S : NewToken.balances[x] = 0
    BY DEF NewToken
  <2>. QED  BY <2>1, <2>2, SumZero
<1>4. VotesFollowBalances(NewToken)
  <2>1. \A d \in Accounts : CurrentVotes(NewToken.checkpoints[d]) = 0
    BY DEF NewToken, CurrentVotes
  <2>. QED  BY <1>3, <2>1, DelegatorsFinite DEF VotesFollowBalances
<1>5. NewToken.supply = 0
  BY DEF NewToken
<1>. QED  BY <1>1, <1>2, <1>3, <1>4, <1>5 DEF TokenSound

\* A new block changes no token.
LEMMA NextBlockLemma ==
  ASSUME NEW cap \in Nat, NEW last \in Nat, NEW b \in Nat,
         NEW t, TokenSound(t, cap, last, b)
  PROVE  TokenSound(t, cap, last, b + 1)
<1>1. \A d \in Accounts : t.checkpoints[d] \in Seq([fromBlock : 1..last, votes : 0..cap])
  <2>1. t.checkpoints \in [Accounts -> Seq([fromBlock : 1..last, votes : 0..cap])]
    BY TokenFields DEF TokenSound
  <2>. QED  BY <2>1
<1>2. ASSUME NEW d \in Accounts, t.checkpoints[d] # << >>
      PROVE  t.checkpoints[d][Len(t.checkpoints[d])].fromBlock <= b + 1
  <2> DEFINE CP == [fromBlock : 1..last, votes : 0..cap]
  <2>1. PICK s \in Seq(CP) : s = t.checkpoints[d]
    BY <1>1
  <2>2. Len(s) \in 1..Len(s)
    BY <1>2, <2>1, EmptySeq
  <2>3. s[Len(s)] \in CP
    <3>. HIDE DEF CP
    <3>. QED  BY <2>2
  <2>4. s[Len(s)].fromBlock <= b
    BY <1>2, <2>1 DEF TokenSound, CheckpointsOrdered
  <2>. QED  BY <2>1, <2>3, <2>4
<1>. QED  BY <1>2 DEF TokenSound, CheckpointsOrdered

(***************************************************************************)
(* The votes of all delegates together.                                     *)
(***************************************************************************)
Votes(t) == [v \in Accounts |-> CurrentVotes(t.checkpoints[v])]

\* The accounts whose balance counts as votes.
Delegating(t) == {a \in Accounts : t.delegates[a] \in Accounts}

\* No token votes twice: the votes of all delegates are the balances delegated.
THEOREM VotesAreBacked ==
  ASSUME NEW cap \in Nat, NEW last \in Nat, NEW b, NEW t, TokenSound(t, cap, last, b)
  PROVE  /\ Votes(t) \in [Accounts -> 0..cap]
         /\ SumFunction(Votes(t)) = SumFunctionOnSet(t.balances, Delegating(t))
         /\ SumFunction(Votes(t)) \in Nat
         /\ SumFunction(Votes(t)) <= t.supply
<1>0. t \in TokenRecords(cap, last)
  BY DEF TokenSound
<1>1. Votes(t) \in [Accounts -> 0..cap]
  <2>1. t.checkpoints \in [Accounts -> Seq([fromBlock : 1..last, votes : 0..cap])]
    BY <1>0, TokenFields
  <2>2. \A d \in Accounts : CurrentVotes(t.checkpoints[d]) \in 0..cap
    BY <2>1, VotesTyped
  <2>. QED  BY <2>2 DEF Votes
<1>2. \A a \in Accounts : t.balances[a] \in Nat
  <2>1. t.balances \in [Accounts -> 0..cap]
    BY <1>0, TokenFields
  <2>2. \A a \in Accounts : t.balances[a] \in 0..cap
    BY <2>1
  <2>. QED  BY <2>2
<1>3. SumFunction(Votes(t)) = SumFunctionOnSet(Votes(t), Accounts)
  BY DEF SumFunction, Votes
<1>4. \A d \in Accounts : Votes(t)[d]
        = SumFunctionOnSet(t.balances, {a \in Accounts : t.delegates[a] = d})
  BY DEF Votes, TokenSound, VotesFollowBalances, Delegators
<1>5. SumFunctionOnSet(Votes(t), Accounts) = SumFunctionOnSet(t.balances, Delegating(t))
  <2>1. SumFunctionOnSet(Votes(t), Accounts)
          = SumFunctionOnSet(t.balances, {a \in Accounts : t.delegates[a] \in Accounts})
    BY <1>2, <1>4, AccountsAssumption, SumOfGroups
  <2>. QED  BY <2>1 DEF Delegating
<1>6. /\ SumFunctionOnSet(t.balances, Delegating(t)) \in Nat
      /\ SumFunctionOnSet(t.balances, Delegating(t)) <= SumFunctionOnSet(t.balances, Accounts)
  <2>1. Delegating(t) \in SUBSET Accounts
    BY DEF Delegating
  <2>. QED  BY <1>2, <2>1, AccountsAssumption, SumPart
<1>7. SumFunctionOnSet(t.balances, Accounts) = t.supply
  BY DEF TokenSound
<1>. QED  BY <1>1, <1>3, <1>5, <1>6, <1>7

\* At the end of a block its votes become final.
LEMMA CurrentBecomesPrior ==
  ASSUME NEW t, NEW b, CheckpointsOrdered(t, b), NEW d \in Accounts
  PROVE  PriorVotes(t.checkpoints[d], b) = CurrentVotes(t.checkpoints[d])
BY DEF PriorVotes, CurrentVotes, CheckpointsOrdered
=============================================================================
