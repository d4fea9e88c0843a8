------------------------------ MODULE HolderCount ------------------------------
(***************************************************************************)
(* The script that counts, day by day, who holds PACT, a share of the pool   *)
(* with PACT, or SPACT (script/transferInfo.ts).                             *)
(*                                                                           *)
(* It never asks for a balance: it adds up the Transfer events of each token,  *)
(* a day of blocks at a time, from a block before the tokens were first        *)
(* transferred.                                                              *)
(***************************************************************************)
EXTENDS Integers, Sequences, FiniteSets, SequencesExt

CONSTANTS
  Holders,
  ZeroAddress,     \* where minted tokens come from and burned ones go
  MaxSupply,       \* bound of the model: how much of a token exists
  MaxTransfers,    \* bound of the model: transfers of a day
  MaxEpoch         \* bound of the model: how many days the script looks at

ASSUME HolderCountAssumption ==
  /\ IsFiniteSet(Holders) /\ ZeroAddress \notin Holders
  /\ MaxSupply \in Nat /\ MaxTransfers \in Nat /\ MaxEpoch \in Nat

Accounts == Holders \cup {ZeroAddress}
CountedTokens == {"PACT", "LP", "SPACT"}

VARIABLES
  balanceOf,      \* the balances on the chain
  logs,           \* the transfers of each token since the last day the script looked at
  holderAmounts,  \* what the script has added up
  count,          \* what it printed last
  epoch

holderVars == <<balanceOf, logs, holderAmounts, count, epoch>>

HolderCountInit ==
  /\ balanceOf = [t \in CountedTokens |-> [a \in Holders |-> 0]]
  /\ logs = [t \in CountedTokens |-> << >>]
  /\ holderAmounts = [t \in CountedTokens |-> [a \in Accounts |-> 0]]
  /\ count = 0
  /\ epoch = 1

\* A transfer on the chain, minting and burning among them.
TransferEvent(t, from, to, amount) ==
  LET sum == FoldFunctionOnSet(+, 0, balanceOf[t], Holders)
  IN /\ from = to => from # ZeroAddress
     /\ FoldFunctionOnSet(LAMBDA l, n : n + Len(l), 0, logs, CountedTokens) < MaxTransfers
     /\ IF from = ZeroAddress THEN sum + amount <= MaxSupply ELSE balanceOf[t][from] >= amount
     /\ balanceOf' = [balanceOf EXCEPT ![t] = [a \in Holders |->
          IF from = to THEN @[a] ELSE IF a = from THEN @[a] - amount
          ELSE IF a = to THEN @[a] + amount ELSE @[a]]]
     /\ logs' = [logs EXCEPT ![t] = Append(@, [from |-> from, to |-> to, amount |-> amount])]
     /\ UNCHANGED <<holderAmounts, count, epoch>>

\* The receiver gets the amount, the sender loses it if it has it.  A sender that
\* does not is reported and set to nothing, the zero address is left as it is.
AddTransfer(amounts, e) ==
  LET credited == [amounts EXCEPT ![e.to] = @ + e.amount]
  IN IF credited[e.from] >= e.amount THEN [credited EXCEPT ![e.from] = @ - e.amount]
     ELSE IF e.from # ZeroAddress THEN [credited EXCEPT ![e.from] = 0] ELSE credited

\* tokenEvents
TokenEvents(amounts, log) ==
  LET after[i \in 0..Len(log)] ==
        IF i = 0 THEN amounts ELSE LET before == after[i - 1] IN AddTransfer(before, log[i])
  IN after[Len(log)]

Holding(amounts, t) == {a \in Accounts : amounts[t][a] > 0}

\* Mutant: who holds PACT and something else is counted for both.
CountedEverywhere(amounts) ==
  Cardinality(Holding(amounts, "PACT")) + Cardinality(Holding(amounts, "LP"))
    + Cardinality(Holding(amounts, "SPACT"))

\* Everybody with PACT, and everybody with LP, and with SPACT, who has no PACT.
Counted(amounts) ==
  Cardinality(Holding(amounts, "PACT"))
    + Cardinality(Holding(amounts, "LP") \ Holding(amounts, "PACT"))
    + Cardinality(Holding(amounts, "SPACT") \ Holding(amounts, "PACT"))

\* checkEpoch
CheckEpoch ==
  LET amounts == [t \in CountedTokens |-> TokenEvents(holderAmounts[t], logs[t])]
  IN /\ epoch <= MaxEpoch
     /\ holderAmounts' = amounts
     /\ count' = Counted(amounts)
     /\ logs' = [t \in CountedTokens |-> << >>]
     /\ epoch' = epoch + 1
     /\ balanceOf' = balanceOf

HolderCountNext ==
  \/ \E t \in CountedTokens, from, to \in Accounts, amount \in 1..MaxSupply : TransferEvent(t, from, to, amount)
  \/ CheckEpoch

HolderCountSpec == HolderCountInit /\ [][HolderCountNext]_holderVars

(***************************************************************************)
(* Property.                                                                *)
(***************************************************************************)
UpToDate == epoch > 1 /\ \A t \in CountedTokens : logs[t] = << >>
HoldersOf(t) == {a \in Holders : balanceOf[t][a] > 0}

\* The number printed is the number of holders, except that whoever has LP and SPACT
\* but no PACT is counted twice and the zero address is counted, like anybody else,
\* for what was burned.
CountedOnceOrExplained ==
  UpToDate =>
    count = Cardinality(UNION {HoldersOf(t) : t \in CountedTokens})
            + Cardinality((HoldersOf("LP") \cap HoldersOf("SPACT")) \ HoldersOf("PACT"))
            + (IF holderAmounts["PACT"][ZeroAddress] > 0 THEN 1
               ELSE Cardinality({t \in {"LP", "SPACT"} : holderAmounts[t][ZeroAddress] > 0}))
=============================================================================
