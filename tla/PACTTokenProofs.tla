--------------------------- MODULE PACTTokenProofs ---------------------------
(***************************************************************************)
(* The PACT token: its invariants and that it implements the ledger of      *)
(* final votes, for every set of accounts, supply, set of signed messages   *)
(* and number of blocks.                                                     *)
(*                                                                          *)
(* What a call does to the token record is stated once, in                  *)
(* VotingPowerProofs; here each action is one citation of it.  The inductive *)
(* invariant adds to the properties that a message which took effect has    *)
(* its nonce behind it.                                                      *)
(*                                                                          *)
(* The last part proves the loop of getPriorVotes, step by step.            *)
(***************************************************************************)
EXTENDS PACTToken, PriorVotesSearch, VotingPowerProofs

\* A message takes effect only while its nonce is the signer's next one.
NoncesSpent ==
  \A m \in Messages :
     applied[m] = 0 \/ (applied[m] = 1 /\ m.nonce < pact.nonces[m.signer])

IInv ==
  /\ TypeOK
  /\ TokenSound(pact, MaxSupply, MaxBlock, block)
  /\ pact.supply = MaxSupply
  /\ NoncesSpent

LEMMA InitEstablishesIInv == Init => IInv
<1> SUFFICES ASSUME Init PROVE IInv
  OBVIOUS
<1>0. MaxSupply \in Nat /\ MaxBlock \in Nat /\ 1 \in 1..MaxBlock /\ InitialOwner \in Accounts
  BY TokenAssumption
<1>1. TokenSound(NewToken, MaxSupply, MaxBlock, 1) /\ NewToken.supply = 0
  BY <1>0, NewTokenLemma DEF NewToken
<1>2. TokenSound(pact, MaxSupply, MaxBlock, 1) /\ pact.supply = 0 + MaxSupply
  <2>1. NewToken.supply + MaxSupply <= MaxSupply
    BY <1>0, <1>1
  <2>2. pact = Mint(NewToken, InitialOwner, MaxSupply, 1)
    BY DEF Init
  <2>. QED  BY <1>0, <1>1, <2>1, <2>2, MintLemma
<1>3. TypeOK
  <2>1. pact \in TokenRecords(MaxSupply, MaxBlock)
    BY <1>2 DEF TokenSound
  <2>2. allowances \in [Accounts -> [Spenders -> Allowances]]
    BY <1>0 DEF Init, Allowances, Amounts
  <2>. QED  BY <1>0, <2>1, <2>2 DEF TypeOK, Init
<1>4. NoncesSpent
  BY DEF NoncesSpent, Init
<1>. QED  BY <1>0, <1>2, <1>3, <1>4 DEF IInv, Init

\* What a call within the block does to the token: nothing a delegate's past
\* depends on, and no nonce goes back.
SoundStep ==
  /\ TokenSound(pact', MaxSupply, MaxBlock, block)
  /\ pact'.supply = MaxSupply
  /\ SamePast(pact, pact', block)

LEMMA StepKeepsIInv ==
  ASSUME IInv, [Next]_vars
  PROVE  /\ IInv'
         /\ block' = block => SamePast(pact, pact', block)
<1> USE DEF IInv
<1>0. /\ MaxSupply \in Nat /\ MaxBlock \in Nat /\ block \in 1..MaxBlock
      /\ pact.nonces \in [Accounts -> Nat] /\ pact \in TokenRecords(MaxSupply, MaxBlock)
      /\ applied \in [Messages -> Nat]
      /\ allowances \in [Accounts -> [Spenders -> Allowances]]
  BY TokenAssumption, TokenFields DEF TypeOK
\* What is left to show when a call leaves the nonces alone.
<1>k. ASSUME SoundStep, pact'.nonces = pact.nonces, UNCHANGED <<block, timestamp, applied>>,
             allowances' \in [Accounts -> [Spenders -> Allowances]]
      PROVE  IInv' /\ SamePast(pact, pact', block)
  <2>1. TokenSound(pact', MaxSupply, MaxBlock, block') /\ pact'.supply = MaxSupply
    BY <1>k DEF SoundStep
  <2>2. NoncesSpent'
    BY <1>k DEF NoncesSpent
  <2>3. TypeOK'
    BY <1>k, <2>1 DEF TypeOK, TokenSound
  <2>. QED  BY <1>k, <2>1, <2>2, <2>3 DEF SoundStep
\* And when it uses up the nonce of a message.
<1>m. ASSUME NEW m \in Messages, SoundStep, SignedAndFresh(m),
             pact'.nonces = [pact.nonces EXCEPT ![m.signer] = @ + 1],
             applied' = [applied EXCEPT ![m] = @ + 1], UNCHANGED <<block, timestamp>>,
             allowances' \in [Accounts -> [Spenders -> Allowances]]
      PROVE  IInv' /\ SamePast(pact, pact', block)
  <2>1. TokenSound(pact', MaxSupply, MaxBlock, block') /\ pact'.supply = MaxSupply
    BY <1>m DEF SoundStep
  <2>2. \A x \in Messages : x.signer \in Accounts /\ x.nonce \in Nat
    BY MessagesAssumption
  <2>3. \A a \in Accounts : pact.nonces[a] \in Nat /\ pact'.nonces[a] \in Nat
                            /\ pact'.nonces[a] = IF a = m.signer THEN pact.nonces[a] + 1
                                                 ELSE pact.nonces[a]
    BY <1>0, <1>m, <2>2
  <2>4. applied[m] = 0
    BY <1>m, <2>2, <2>3 DEF NoncesSpent, SignedAndFresh
  <2>5. \A x \in Messages : applied'[x] = IF x = m THEN 1 ELSE applied[x]
    BY <1>0, <1>m, <2>4
  <2>6. m.nonce = pact.nonces[m.signer]
    BY <1>m DEF SignedAndFresh
  <2>7. NoncesSpent'
    <3> SUFFICES ASSUME NEW x \in Messages
                 PROVE  applied'[x] = 0 \/ (applied'[x] = 1 /\ x.nonce < pact'.nonces[x.signer])
      BY DEF NoncesSpent
    <3>1. CASE x = m
      BY <2>2, <2>3, <2>5, <2>6, <3>1
    <3>2. CASE x # m
      <4>1. applied'[x] = applied[x]
        BY <2>5, <3>2
      <4>2. pact'.nonces[x.signer] \in Nat /\ pact.nonces[x.signer] \in Nat
            /\ pact'.nonces[x.signer] >= pact.nonces[x.signer]
        BY <2>2, <2>3
      <4>3. applied[x] = 0 \/ (applied[x] = 1 /\ x.nonce < pact.nonces[x.signer])
        BY DEF NoncesSpent
      <4>. QED  BY <2>2, <4>1, <4>2, <4>3
    <3>. QED  BY <3>1, <3>2
  <2>8. applied' \in [Messages -> Nat]
    BY <1>0, <1>m
  <2>9. TypeOK'
    BY <1>m, <2>1, <2>8 DEF TypeOK, TokenSound
  <2>. QED  BY <1>m, <2>1, <2>7, <2>9 DEF SoundStep
<1>t. ASSUME NEW src \in Accounts, NEW dst \in Accounts, NEW n \in Amounts,
             CanTransfer(pact, src, dst, n), pact' = Transfer(pact, src, dst, n, block)
      PROVE  SoundStep /\ pact'.nonces = pact.nonces
  <2>1. n \in Nat
    BY <1>0 DEF Amounts
  <2>. QED  BY <1>0, <1>t, <2>1, TransferLemma DEF SoundStep
<1>d. ASSUME NEW a \in Accounts, NEW e \in Delegatees, NEW t,
             TokenSound(t, MaxSupply, MaxBlock, block), t.supply = MaxSupply,
             SamePast(pact, t, block), pact' = Delegate(t, a, e, block)
      PROVE  SoundStep /\ pact'.nonces = t.nonces
  <2>1. /\ TokenSound(pact', MaxSupply, MaxBlock, block)
        /\ pact'.nonces = t.nonces /\ pact'.supply = t.supply
        /\ SamePast(t, pact', block)
    BY <1>0, <1>d, DelegateLemma
  <2>2. SamePast(pact, pact', block)
    BY <1>d, <2>1 DEF SamePast
  <2>. QED  BY <1>d, <2>1, <2>2 DEF SoundStep
<1>u. ASSUME NEW m \in Messages, NEW t, t = UseNonce(pact, m.signer)
      PROVE  /\ TokenSound(t, MaxSupply, MaxBlock, block) /\ t.supply = MaxSupply
             /\ t.nonces = [pact.nonces EXCEPT ![m.signer] = @ + 1]
             /\ SamePast(pact, t, block)
  <2>1. m.signer \in Accounts
    BY MessagesAssumption
  <2>2. PICK a \in Accounts : a = m.signer
    BY <2>1
  <2>3. /\ MaxSupply \in Nat /\ MaxBlock \in Nat /\ block \in 1..MaxBlock
        /\ TokenSound(pact, MaxSupply, MaxBlock, block) /\ pact.supply = MaxSupply
        /\ t = UseNonce(pact, a)
    BY <1>0, <1>u, <2>2
  <2>4. /\ TokenSound(t, MaxSupply, MaxBlock, block) /\ t.supply = MaxSupply
        /\ t.nonces = [pact.nonces EXCEPT ![a] = @ + 1]
        /\ SamePast(pact, t, block)
    BY ONLY <2>3, UseNonceLemma
  <2>. QED  BY ONLY <2>2, <2>4
<1>1. ASSUME NEW a \in Accounts, NEW s \in Spenders, NEW n \in Allowances, Approve(a, s, n)
      PROVE  IInv' /\ SamePast(pact, pact', block)
  <2>1. allowances' \in [Accounts -> [Spenders -> Allowances]]
    BY <1>0, <1>1 DEF Approve
  <2>2. SoundStep /\ pact'.nonces = pact.nonces
    BY <1>1 DEF Approve, SoundStep, SamePast
  <2>. QED  BY <1>1, <1>k, <2>1, <2>2 DEF Approve
<1>2. ASSUME NEW a \in Accounts, NEW d \in Accounts, NEW n \in Amounts, TransferTo(a, d, n)
      PROVE  IInv' /\ SamePast(pact, pact', block)
  <2>1. SoundStep /\ pact'.nonces = pact.nonces
    BY <1>2, <1>t DEF TransferTo
  <2>. QED  BY <1>0, <1>2, <1>k, <2>1 DEF TransferTo
<1>3. ASSUME NEW s \in Spenders, NEW a \in Accounts, NEW d \in Accounts, NEW n \in Amounts,
             TransferFrom(s, a, d, n)
      PROVE  IInv' /\ SamePast(pact, pact', block)
  <2>1. SoundStep /\ pact'.nonces = pact.nonces
    BY <1>3, <1>t DEF TransferFrom
  <2>2. allowances' \in [Accounts -> [Spenders -> Allowances]]
    <3>1. CASE UNCHANGED allowances
      BY <1>0, <3>1
    <3>2. CASE /\ allowances[a][s] # MaxAllowance /\ allowances[a][s] >= n
               /\ allowances' = [allowances EXCEPT ![a][s] = @ - n]
      <4>1. allowances[a] \in [Spenders -> Allowances]
        BY <1>0
      <4>2. allowances[a][s] \in Allowances
        BY <4>1
      <4>3. allowances[a][s] - n \in Allowances
        BY <1>0, <3>2, <4>2 DEF Allowances, Amounts
      <4>4. [allowances[a] EXCEPT ![s] = @ - n] \in [Spenders -> Allowances]
        BY <4>1, <4>3
      <4>. QED  BY <1>0, <3>2, <4>4
    <3>. QED  BY <1>3, <3>1, <3>2 DEF TransferFrom
  <2>. QED  BY <1>3, <1>k, <2>1, <2>2 DEF TransferFrom
<1>4. ASSUME NEW a \in Accounts, NEW d \in Delegatees, DelegateTo(a, d)
      PROVE  IInv' /\ SamePast(pact, pact', block)
  <2>1. SamePast(pact, pact, block)
    BY DEF SamePast
  <2>2. SoundStep /\ pact'.nonces = pact.nonces
    BY <1>4, <1>d, <2>1 DEF DelegateTo
  <2>. QED  BY <1>0, <1>4, <1>k, <2>2 DEF DelegateTo
<1>5. ASSUME NEW m \in Messages, Permit(m)
      PROVE  IInv' /\ SamePast(pact, pact', block)
  <2>1. m.signer \in Accounts /\ m.to \in Spenders /\ m.value \in Allowances
    BY <1>5, MessagesAssumption DEF Permit
  <2>2. allowances' \in [Accounts -> [Spenders -> Allowances]]
    BY <1>0, <1>5, <2>1 DEF Permit
  <2>3. pact' = UseNonce(pact, m.signer)
    BY <1>5 DEF Permit
  <2>4. SoundStep /\ pact'.nonces = [pact.nonces EXCEPT ![m.signer] = @ + 1]
    BY <1>u, <2>3 DEF SoundStep
  <2>. QED  BY <1>5, <1>m, <2>2, <2>4 DEF Permit
<1>6. ASSUME NEW m \in Messages, DelegateBySig(m)
      PROVE  IInv' /\ SamePast(pact, pact', block)
  <2>1. m.signer \in Accounts /\ m.to \in Delegatees
    BY <1>6, MessagesAssumption DEF DelegateBySig
  <2>2. PICK t : t = UseNonce(pact, m.signer) /\ pact' = Delegate(t, m.signer, m.to, block)
    BY <1>6 DEF DelegateBySig
  <2>3. /\ TokenSound(t, MaxSupply, MaxBlock, block) /\ t.supply = MaxSupply
        /\ t.nonces = [pact.nonces EXCEPT ![m.signer] = @ + 1]
        /\ SamePast(pact, t, block)
    BY <1>u, <2>2
  <2>4. SoundStep /\ pact'.nonces = t.nonces
    BY <1>d, <2>1, <2>2, <2>3
  <2>. QED  BY <1>0, <1>6, <1>m, <2>3, <2>4 DEF DelegateBySig
<1>7. CASE NextBlock
  <2>1. UNCHANGED <<pact, allowances, applied>> /\ block' = block + 1 /\ block < MaxBlock
    BY <1>7 DEF NextBlock
  <2>2. block' \in 1..MaxBlock /\ block' # block
    BY <1>0, <2>1
  <2>3. timestamp' \in Nat
    BY <1>7, TokenAssumption DEF NextBlock, TypeOK
  <2>4. TokenSound(pact', MaxSupply, MaxBlock, block')
    BY <1>0, <2>1, NextBlockLemma
  <2>. QED  BY <2>1, <2>2, <2>3, <2>4 DEF TypeOK, NoncesSpent
<1>8. CASE UNCHANGED vars
  BY <1>8 DEF vars, TypeOK, NoncesSpent, SamePast
<1>. QED  BY <1>1, <1>2, <1>3, <1>4, <1>5, <1>6, <1>7, <1>8 DEF Next

LEMMA TokenInvariant == Spec => []IInv
<1>1. IInv /\ [Next]_vars => IInv'
  BY StepKeepsIInv
<1>2. QED
  BY <1>1, InitEstablishesIInv, PTL DEF Spec

\* Votes never drift from balances: every delegate's last checkpoint is the sum of
\* what is delegated to it, and no call creates or destroys PACT.
THEOREM TokenVotesAreDelegatedBalances == Spec => []VotesAreDelegatedBalances
<1>1. IInv => VotesAreDelegatedBalances
  <2> SUFFICES ASSUME IInv PROVE VotesAreDelegatedBalances
    OBVIOUS
  <2>1. /\ TypeOK /\ pact.supply = MaxSupply
        /\ pact \in TokenRecords(MaxSupply, MaxBlock)
        /\ CheckpointsOrdered(pact, block) /\ VotesFollowBalances(pact)
        /\ SumFunctionOnSet(pact.balances, Accounts) = pact.supply
    BY DEF IInv, TokenSound
  <2>2. SumFunction(pact.balances) = SumFunctionOnSet(pact.balances, Accounts)
    BY <2>1, TokenFields, SupplyIsSum
  <2>. QED  BY <2>1, <2>2 DEF VotesAreDelegatedBalances
<1>2. QED
  BY <1>1, TokenInvariant, PTL

\* No signed message takes effect twice, whoever submits it and however often.
THEOREM TokenSignatureUsedOnce == Spec => []SignatureUsedOnce
<1>1. IInv => SignatureUsedOnce
  BY DEF IInv, NoncesSpent, SignatureUsedOnce
<1>2. QED
  BY <1>1, TokenInvariant, PTL

(***************************************************************************)
(* The ledger of final votes.                                               *)
(***************************************************************************)
LedgerVotes == [t \in {"PACT"} |-> [v \in Accounts |-> CurrentVotes(pact.checkpoints[v])]]

LedgerPast(b) ==
  [t \in {"PACT"} |-> [v \in Accounts |-> PriorVotes(pact.checkpoints[v], b)]]

LEMMA LedgerSum == ASSUME NEW f PROVE Ledger!SumFunction(f) = SumFunction(f)
<1>1. \A S : Ledger!SumFunctionOnSet(f, S) = (CHOOSE g : IsPartialSums(g, f, S))[S]
  BY DEF Ledger!SumFunctionOnSet, Ledger!FoldFunctionOnSet, Ledger!MapThenFoldSet,
         First, IsPartialSums
<1>. QED  BY <1>1, SumIsPartialSum DEF Ledger!SumFunction, SumFunction

\* The votes of the one token are affordable because they are its own balances.
LEMMA VotesAffordable == IInv => LedgerVotes \in Ledger!Affordable
<1> SUFFICES ASSUME IInv PROVE LedgerVotes \in Ledger!Affordable
  OBVIOUS
<1> DEFINE sums == [t \in {"PACT"} |-> SumFunction(LedgerVotes[t])]
<1>1. LedgerVotes = [t \in {"PACT"} |-> Votes(pact)]
  BY DEF LedgerVotes, Votes
<1>2. /\ Votes(pact) \in [Accounts -> 0..MaxSupply]
      /\ SumFunction(Votes(pact)) \in Nat
      /\ SumFunction(Votes(pact)) <= MaxSupply
  BY TokenAssumption, VotesAreBacked DEF IInv
<1>3. LedgerVotes \in Ledger!Distributions
  BY <1>1, <1>2 DEF Ledger!Distributions
<1>4. SumFunction(sums) = SumFunction(Votes(pact))
  <2>1. sums["PACT"] = SumFunction(Votes(pact)) /\ SumFunction(sums) = SumFunctionOnSet(sums, {"PACT"})
    BY <1>1 DEF SumFunction
  <2>. HIDE DEF sums
  <2>2. SumFunctionOnSet(sums, {"PACT"}) = sums["PACT"]
    <3>1. sums["PACT"] \in Int
      BY <1>2, <2>1
    <3>. QED  BY ONLY <3>1, SumOne
  <2>. QED  BY <2>1, <2>2
<1>5. Ledger!Total(LedgerVotes) = SumFunction(sums)
  BY LedgerSum DEF Ledger!Total
<1>. HIDE DEF sums
<1>. QED  BY <1>2, <1>3, <1>4, <1>5 DEF Ledger!Affordable

\* The token implements the ledger the governor relies on: what getPriorVotes
\* answers for a finished block never changes, and is what the votes were when
\* the block ended.
THEOREM TokenImplementsVoteLedger == Spec => ImplementsVoteLedger
<1>1. Init => Ledger!LedgerInit
  <2> SUFFICES ASSUME Init PROVE Ledger!LedgerInit
    OBVIOUS
  <2>1. LedgerVotes \in Ledger!Affordable
    BY InitEstablishesIInv, VotesAffordable
  <2>2. block = 1 /\ 1..(block - 1) = {}
    BY DEF Init
  <2>3. [b \in 1..(block - 1) |-> LedgerPast(b)] = << >>
    BY <2>2
  <2>. QED  BY <2>1, <2>2, <2>3 DEF Ledger!LedgerInit, LedgerVotes, LedgerPast
<1>a. (IInv => LedgerVotes \in Ledger!Affordable)'
  BY VotesAffordable, PTL
<1>2. IInv /\ IInv' /\ [Next]_vars => [Ledger!LedgerNext]_Ledger!ledgerVars
  <2> SUFFICES ASSUME IInv, IInv', [Next]_vars
               PROVE  [Ledger!LedgerNext]_Ledger!ledgerVars
    OBVIOUS
  <2>0. block \in 1..MaxBlock /\ LedgerVotes' \in Ledger!Affordable
    BY <1>a DEF IInv, TypeOK
  <2>1. CASE block' = block
    <3>1. SamePast(pact, pact', block)
      BY <2>1, StepKeepsIInv
    <3>2. \A b \in 1..(block - 1), v \in Accounts :
            PriorVotes(pact'.checkpoints[v], b) = PriorVotes(pact.checkpoints[v], b)
      BY <2>0, <3>1 DEF SamePast
    <3>3. [b \in 1..(block' - 1) |-> LedgerPast(b)'] = [b \in 1..(block - 1) |-> LedgerPast(b)]
      BY <2>1, <3>2 DEF LedgerPast
    <3>4. Ledger!ChangeVotes
      BY <2>0, <2>1, <3>3 DEF Ledger!ChangeVotes, LedgerVotes, LedgerPast
    <3>. QED  BY <3>4 DEF Ledger!LedgerNext
  <2>2. CASE NextBlock
    <3>1. block < MaxBlock /\ block' = block + 1 /\ pact' = pact
      BY <2>2 DEF NextBlock
    <3>2. 1..(block' - 1) = 1..block
      BY <2>0, <3>1
    <3>3. \A v \in Accounts :
            PriorVotes(pact.checkpoints[v], block) = CurrentVotes(pact.checkpoints[v])
      BY CurrentBecomesPrior DEF IInv, TokenSound
    <3>4. LedgerPast(block) = LedgerVotes
      BY <3>3 DEF LedgerPast, LedgerVotes
    <3>5. [b \in 1..(block' - 1) |-> LedgerPast(b)'] =
            [b \in 1..block |-> IF b = block THEN LedgerVotes
                                ELSE [c \in 1..(block - 1) |-> LedgerPast(c)][b]]
      <4>1. \A b \in 1..block : b # block => b \in 1..(block - 1)
        BY <2>0
      <4>. QED  BY <3>1, <3>2, <3>4, <4>1 DEF LedgerPast
    <3>6. Ledger!NextBlock
      BY <3>1, <3>5 DEF Ledger!NextBlock, LedgerVotes, LedgerPast
    <3>. QED  BY <3>6 DEF Ledger!LedgerNext
  <2>3. block' = block \/ NextBlock
    BY DEF Next, vars, Approve, TransferTo, TransferFrom, DelegateTo, Permit, DelegateBySig
  <2>. QED  BY <2>1, <2>2, <2>3
<1>3. QED
  BY <1>1, <1>2, TokenInvariant, PTL DEF ImplementsVoteLedger, Ledger!LedgerSpec, Spec

(***************************************************************************)
(* The search of getPriorVotes, as the program runs it: correct for every   *)
(* increasing sequence of checkpoints.  The inductive invariant is          *)
(* SearchTyped with the loop invariant SearchInterval and the result.       *)
(***************************************************************************)
SearchIInv == SearchTyped /\ SearchInterval /\ ReturnsVotesAtBlock

\* Every history is an increasing sequence of checkpoints of natural votes.
LEMMA HistoryShape ==
  ASSUME SearchTyped
  PROVE  /\ cps \in Seq([fromBlock : Blocks, votes : Nat])
         /\ Len(cps) \in Nat
         /\ cps = << >> <=> Len(cps) = 0
         /\ \A i \in 1..Len(cps) : cps[i].fromBlock \in Nat /\ cps[i].votes \in Nat
         /\ Ordered(cps)
         /\ blockNumber \in Nat
<1>1. cps \in Seq([fromBlock : Blocks, votes : Nat]) /\ Ordered(cps)
  BY HistoriesAssumption DEF SearchTyped
<1>2. \A i \in 1..Len(cps) : cps[i] \in [fromBlock : Blocks, votes : Nat]
  BY <1>1, ElementOfSeq
<1>3. Len(cps) \in Nat /\ (cps = << >> <=> Len(cps) = 0)
  BY <1>1
<1>4. \A i \in 1..Len(cps) : cps[i].fromBlock \in Nat /\ cps[i].votes \in Nat
  BY <1>2, BlocksAssumption
<1>5. QED
  BY <1>1, <1>3, <1>4, BlocksAssumption DEF SearchTyped

\* The middle lies strictly above the lower bound and not above the upper one,
\* so the interval shrinks whichever side is kept.
LEMMA CenterInside ==
  ASSUME NEW l \in Nat, NEW u \in Nat, l < u
  PROVE  /\ u - (u - l) \div 2 \in Nat
         /\ l < u - (u - l) \div 2
         /\ u - (u - l) \div 2 <= u
  OBVIOUS

\* Every step of the search keeps the inductive invariant.
LEMMA SearchStepKeepsIInv == SearchIInv /\ [SearchNext]_searchVars => SearchIInv'
<1> SUFFICES ASSUME SearchIInv, [SearchNext]_searchVars
             PROVE  SearchIInv'
  OBVIOUS
<1> USE DEF SearchIInv
<1>s. /\ cps \in Seq([fromBlock : Blocks, votes : Nat])
      /\ Len(cps) \in Nat
      /\ cps = << >> <=> Len(cps) = 0
      /\ \A i \in 1..Len(cps) : cps[i].fromBlock \in Nat /\ cps[i].votes \in Nat
      /\ Ordered(cps)
      /\ blockNumber \in Nat
  BY HistoryShape
<1>1. CASE NoCheckpoints
  BY <1>1, <1>s DEF NoCheckpoints, Return, SearchTyped, SearchInterval, ReturnsVotesAtBlock,
     IsVotesAt
<1>2. CASE MostRecent
  <2>1. IsVotesAt(cps[Len(cps)].votes, cps, blockNumber)
    BY <1>2, <1>s DEF MostRecent, IsVotesAt
  <2>2. QED
    BY <1>2, <2>1, <1>s
       DEF MostRecent, Return, SearchTyped, SearchInterval, ReturnsVotesAtBlock, IsVotesAt
<1>3. CASE BeforeFirst
  <2>1. \A i \in 1..Len(cps) : cps[i].fromBlock > blockNumber
    BY <1>3, <1>s DEF BeforeFirst, Ordered
  <2>2. QED
    BY <1>3, <2>1, <1>s
       DEF BeforeFirst, Return, SearchTyped, SearchInterval, ReturnsVotesAtBlock, IsVotesAt
<1>4. CASE StartSearch
  BY <1>4, <1>s DEF StartSearch, SearchTyped, SearchInterval, ReturnsVotesAtBlock
<1>c. ASSUME pc = "loop", upper > lower
      PROVE  /\ Center \in 1..Len(cps) /\ Center \in Nat
             /\ lower < Center /\ Center <= upper
  <2>1. /\ Center \in Nat /\ lower < Center /\ Center <= upper
    BY <1>c, CenterInside DEF Center, SearchTyped
  <2>2. QED
    BY <1>c, <2>1, <1>s DEF SearchInterval, SearchTyped
<1>5. CASE ExactHit
  <2>1. Center \in 1..Len(cps)
    BY <1>5, <1>c DEF ExactHit
  <2>2. IsVotesAt(cps[Center].votes, cps, blockNumber)
    <3>1. \A j \in 1..Len(cps) : Center < j => cps[j].fromBlock > blockNumber
      BY <1>5, <2>1, <1>s DEF ExactHit, Ordered
    <3>2. cps[Center].fromBlock <= blockNumber
      BY <1>5, <1>s DEF ExactHit
    <3>3. QED
      BY <2>1, <3>1, <3>2 DEF IsVotesAt
  <2>3. cps[Center].votes \in Nat
    BY <2>1, <1>s
  <2>4. QED
    BY <1>5, <2>2, <2>3
       DEF ExactHit, Return, SearchTyped, SearchInterval, ReturnsVotesAtBlock, IsVotesAt
<1>6. CASE RaiseLower
  <2>1. /\ Center \in 1..Len(cps) /\ Center \in Nat
        /\ lower < Center /\ Center <= upper
    BY <1>6, <1>c DEF RaiseLower
  <2>2. QED
    BY <1>6, <2>1, <1>s DEF RaiseLower, SearchTyped, SearchInterval, ReturnsVotesAtBlock
<1>7. CASE DropUpper
  <2>1. /\ Center \in 1..Len(cps) /\ Center \in Nat
        /\ lower < Center /\ Center <= upper
    BY <1>7, <1>c DEF DropUpper
  <2>2. \A j \in 1..Len(cps) : Center - 1 < j => cps[j].fromBlock > blockNumber
    BY <1>7, <2>1, <1>s DEF DropUpper, Ordered
  <2>3. QED
    BY <1>7, <2>1, <2>2, <1>s DEF DropUpper, SearchTyped, SearchInterval, ReturnsVotesAtBlock
<1>8. CASE LeaveLoop
  <2>1. lower \in 1..Len(cps) /\ lower = upper
    BY <1>8, <1>s DEF LeaveLoop, SearchTyped, SearchInterval
  <2>2. IsVotesAt(cps[lower].votes, cps, blockNumber)
    BY <1>8, <2>1, <1>s DEF LeaveLoop, SearchInterval, IsVotesAt
  <2>3. cps[lower].votes \in Nat
    BY <2>1, <1>s
  <2>4. QED
    BY <1>8, <2>2, <2>3
       DEF LeaveLoop, Return, SearchTyped, SearchInterval, ReturnsVotesAtBlock, IsVotesAt
<1>9. CASE UNCHANGED searchVars
  BY <1>9 DEF searchVars, SearchTyped, SearchInterval, ReturnsVotesAtBlock, IsVotesAt
<1>10. QED
  BY <1>1, <1>2, <1>3, <1>4, <1>5, <1>6, <1>7, <1>8, <1>9 DEF SearchNext

LEMMA SearchInvariant == SearchSpec => []SearchIInv
<1>1. SearchInit => SearchIInv
  BY BlocksAssumption DEF SearchInit, SearchIInv, SearchTyped, SearchInterval, ReturnsVotesAtBlock
<1>2. QED
  BY <1>1, SearchStepKeepsIInv, PTL DEF SearchSpec

\* getPriorVotes returns the votes at the end of the block asked for, whatever
\* the checkpoints and the block are.
THEOREM SearchReturnsVotesAtBlock == SearchSpec => []ReturnsVotesAtBlock
<1>1. SearchIInv => ReturnsVotesAtBlock
  BY DEF SearchIInv
<1>2. QED
  BY <1>1, SearchInvariant, PTL

\* The search never reads a checkpoint outside the account's sequence.
THEOREM SearchStaysInside == SearchSpec => []SearchInterval
<1>1. SearchIInv => SearchInterval
  BY DEF SearchIInv
<1>2. QED
  BY <1>1, SearchInvariant, PTL
=============================================================================
