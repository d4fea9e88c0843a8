------------------------------ MODULE PACTToken ------------------------------
(***************************************************************************)
(* The PACT token (contracts/token/PACTToken.sol, TransferrableVotingToken, *)
(* VotingPower): transfers, allowances, delegation, and the two calls that  *)
(* act on a holder's signature, permit and delegateBySig.                   *)
(*                                                                          *)
(* One action is one transaction; NextBlock ends the block and lets time    *)
(* pass.  Messages are the signatures holders have handed out: anyone may   *)
(* submit any of them, at any time and as often as they like.               *)
(***************************************************************************)
EXTENDS VotingPower

CONSTANTS
  InitialOwner,   \* the account that receives the whole supply
  TokenContract,  \* the token's own address
  MaxSupply,      \* MAX_SUPPLY
  MaxAllowance,   \* MAX_INT_96, the allowance that is never used up
  Spenders,       \* the accounts that get allowances
  Messages,       \* the signed messages in circulation
  TimeSteps,      \* how far the timestamp may advance with a block
  MaxBlock        \* bound of the model: the last block

ASSUME TokenAssumption ==
  /\ InitialOwner \in Accounts
  /\ MaxSupply \in Nat /\ MaxAllowance \in Nat /\ MaxSupply < MaxAllowance
  /\ Spenders \subseteq Accounts
  /\ TimeSteps \subseteq Nat /\ MaxBlock \in Nat \ {0}

VARIABLES
  pact,        \* the token record of VotingPower
  allowances,  \* allowances[owner][spender]
  block,       \* block.number
  timestamp,   \* block.timestamp
  applied      \* history: how often each signed message took effect

vars == <<pact, allowances, block, timestamp, applied>>

Amounts == 0..MaxSupply
Allowances == Amounts \cup {MaxAllowance}

\* Holders sign what they like; spenders and values are those of the model.
ASSUME MessagesAssumption ==
  \A m \in Messages :
     /\ m.signer \in Accounts /\ m.nonce \in Nat
     /\ \/ m.kind = "permit" /\ m.to \in Spenders /\ m.value \in Allowances
        \/ m.kind = "delegate" /\ m.to \in Delegatees

TypeOK ==
  /\ pact \in TokenRecords(MaxSupply, MaxBlock)
  /\ allowances \in [Accounts -> [Spenders -> Allowances]]
  /\ block \in 1..MaxBlock
  /\ timestamp \in Nat
  /\ applied \in [Messages -> Nat]

Init ==
  /\ pact = Mint(NewToken, InitialOwner, MaxSupply, 1)
  /\ allowances = [a \in Accounts |-> [s \in Spenders |-> 0]]
  /\ block = 1
  /\ timestamp = 1
  /\ applied = [m \in Messages |-> 0]

(***************************************************************************)
(* Transactions.                                                            *)
(***************************************************************************)
Approve(owner, spender, amount) ==
  /\ allowances' = [allowances EXCEPT ![owner][spender] = amount]
  /\ UNCHANGED <<pact, block, timestamp, applied>>

TransferTo(src, dst, amount) ==
  /\ dst # TokenContract
  /\ CanTransfer(pact, src, dst, amount)
  /\ pact' = Transfer(pact, src, dst, amount, block)
  /\ UNCHANGED <<allowances, block, timestamp, applied>>

\* An infinite allowance, and one's own balance, are spent without a debit.
TransferFrom(spender, src, dst, amount) ==
  /\ dst # TokenContract
  /\ IF spender # src /\ allowances[src][spender] # MaxAllowance
     THEN /\ allowances[src][spender] >= amount
          /\ allowances' = [allowances EXCEPT ![src][spender] = @ - amount]
     ELSE UNCHANGED allowances
  /\ CanTransfer(pact, src, dst, amount)
  /\ pact' = Transfer(pact, src, dst, amount, block)
  /\ UNCHANGED <<block, timestamp, applied>>

DelegateTo(delegator, delegatee) ==
  /\ CanDelegate(pact, delegator, delegatee)
  /\ pact' = Delegate(pact, delegator, delegatee, block)
  /\ UNCHANGED <<allowances, block, timestamp, applied>>

\* A message recovers to its signer only for the nonce it was signed with.
SignedAndFresh(m) == m.nonce = pact.nonces[m.signer] /\ timestamp <= m.deadline

Permit(m) ==
  /\ m.kind = "permit"
  /\ SignedAndFresh(m)
  /\ allowances' = [allowances EXCEPT ![m.signer][m.to] = m.value]
  /\ pact' = UseNonce(pact, m.signer)
  /\ applied' = [applied EXCEPT ![m] = @ + 1]
  /\ UNCHANGED <<block, timestamp>>

DelegateBySig(m) ==
  /\ m.kind = "delegate"
  /\ SignedAndFresh(m)
  /\ LET spent == UseNonce(pact, m.signer)
     IN  /\ CanDelegate(spent, m.signer, m.to)
         /\ pact' = Delegate(spent, m.signer, m.to, block)
  /\ applied' = [applied EXCEPT ![m] = @ + 1]
  /\ UNCHANGED <<allowances, block, timestamp>>

NextBlock ==
  /\ block < MaxBlock
  /\ block' = block + 1
  /\ \E dt \in TimeSteps : timestamp' = timestamp + dt
  /\ UNCHANGED <<pact, allowances, applied>>

Next ==
  \/ \E a \in Accounts, s \in Spenders, n \in Allowances : Approve(a, s, n)
  \/ \E a \in Accounts, d \in Accounts, n \in Amounts : TransferTo(a, d, n)
  \/ \E s \in Spenders, a \in Accounts, d \in Accounts, n \in Amounts :
        TransferFrom(s, a, d, n)
  \/ \E a \in Accounts, d \in Delegatees : DelegateTo(a, d)
  \/ \E m \in Messages : Permit(m) \/ DelegateBySig(m)
  \/ NextBlock

Spec == Init /\ [][Next]_vars

(***************************************************************************)
(* Properties.                                                              *)
(***************************************************************************)

\* No call of the token creates or destroys PACT, and the last checkpoint of a
\* delegate is the sum of the balances delegated to it, whatever order transfers,
\* self-transfers and re-delegations came in (_moveDelegates is called from four
\* places); the checkpoints are fit for the binary search of getPriorVotes.
VotesAreDelegatedBalances ==
  /\ TypeOK /\ CheckpointsOrdered(pact, block)
  /\ SumFunction(pact.balances) = MaxSupply /\ pact.supply = MaxSupply
  /\ VotesFollowBalances(pact)

\* A signed message, permit or delegation, takes effect at most once, however
\* often it is submitted; the two kinds share one nonce sequence.
SignatureUsedOnce == \A m \in Messages : applied[m] <= 1

\* getPriorVotes of a finished block never changes: the token implements the
\* ledger of final votes that the governor relies on.
Ledger == INSTANCE VoteLedger WITH
  Voters <- Accounts, Tokens <- {"PACT"}, Supply <- MaxSupply,
  votes <- [t \in {"PACT"} |-> [v \in Accounts |-> CurrentVotes(pact.checkpoints[v])]],
  past  <- [b \in 1..(block - 1) |-> [t \in {"PACT"} |->
              [v \in Accounts |-> PriorVotes(pact.checkpoints[v], b)]]]

ImplementsVoteLedger == Ledger!LedgerSpec
=============================================================================
