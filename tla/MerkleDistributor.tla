--------------------------- MODULE MerkleDistributor ---------------------------
(***************************************************************************)
(* The first airdrop: airdrop_scripts/tree_scripts turns a table of            *)
(* addresses and earnings into a Merkle root and a claim for every address,    *)
(* and the contract MerkleDistributor, deployed with the root, pays the        *)
(* claims.                                                                   *)
(*                                                                           *)
(* Accounts are numbers in the order of their addresses.  An address is an     *)
(* account and a way to write it; "bad" is no address.                         *)
(***************************************************************************)
EXTENDS MerkleTree

CONSTANTS
  Tables,       \* the tables: sequences of [address, earnings]
  Keccak,       \* bound of the model: what keccak256 may give for the data of the leaves
  OtherProofs,  \* bound of the model: the proofs claimants try that are none of the file's
  Supply,       \* what the contract is sent when it is deployed
  ClaimPeriod,  \* blocks during which claims are paid
  MaxBlock      \* bound of the model: the last block

AddressesOf(table) == {table[i].address : i \in DOMAIN table}
AccountsOf(table) == {a[1] : a \in AddressesOf(table)}
Everybody == UNION {AccountsOf(t) : t \in Tables}
Amounts == UNION {{t[i].earnings : i \in DOMAIN t} : t \in Tables}
SumOf(table) == SumFunctionOnSet([i \in DOMAIN table |-> table[i].earnings], DOMAIN table)

\* Index, account and amount.
LeafData == (0..(Cardinality(Everybody) - 1)) \X Everybody \X Amounts

\* Different data have different hashes.  merkleDistribuitor.ts sends a billion PACT,
\* which the tables do not exceed.
ASSUME DistributorAssumption ==
  /\ Tables \subseteq Seq([address : Nat \X STRING, earnings : Nat])
  /\ IsFiniteSet(Everybody)
  /\ \A table \in Tables : SumOf(table) <= Supply
  /\ \A k \in DOMAIN Keccak :
       /\ Keccak[k] \in [LeafData -> Nat \ {0}]
       /\ \A c, d \in LeafData : Keccak[k][c] = Keccak[k][d] => c = d
  /\ OtherProofs \subseteq Seq(Seq(Nat) \ {NoNode})
  /\ Supply \in Nat /\ ClaimPeriod \in Nat /\ MaxBlock \in Nat

VARIABLES
  file,       \* what the scripts wrote: the root, the claims; or that they failed
  hash,       \* which of Keccak the hashes are
  balance,    \* PACT of the contract
  claimedAt,  \* the indices that were claimed
  received,   \* what each account was paid
  taken,      \* what the owner took out
  block       \* the current block

distributorVars == <<file, hash, balance, claimedAt, received, taken, block>>

(***************************************************************************)
(* The scripts.                                                             *)
(***************************************************************************)

\* keccak256(abi.encodePacked(index, account, amount))
ToNode(index, account, amount) == <<Keccak[hash][<<index, account, amount>>]>>

\* parseBalanceMap refuses a table with something that is no address, with an
\* address twice in whatever writing, or with earnings that are not positive.
Accepted(table) ==
  /\ \A i \in DOMAIN table : table[i].address[2] # "bad" /\ table[i].earnings > 0
  /\ Cardinality(AccountsOf(table)) = Len(table)

EarningsOf(table, account) ==
  table[CHOOSE i \in DOMAIN table : table[i].address[1] = account].earnings

\* BalanceTree: the nodes of accounts and amounts, by index from 0.
BalanceTree(accounts, amounts) ==
  TreeOf([i \in DOMAIN accounts |-> ToNode(i - 1, accounts[i], amounts[i])])
ProofOf(tree, index, account, amount) == Proof(tree, ToNode(index, account, amount))

\* The accounts in the order of their addresses, each with its index.
ParseBalanceMap(table) ==
  LET accounts == AccountsOf(table)
      sorted == InOrder(accounts, {p \in accounts \X accounts : p[1] < p[2]})
      amounts == [i \in DOMAIN sorted |-> EarningsOf(table, sorted[i])]
      tree == BalanceTree(sorted, amounts)
  IN [root   |-> Root(tree),
      claims |-> {[index |-> i - 1, account |-> sorted[i], amount |-> amounts[i],
                   proof |-> ProofOf(tree, i - 1, sorted[i], amounts[i])] : i \in DOMAIN sorted}]

Failed == [root |-> NoNode, claims |-> {}]

\* An empty tree is an error, too.
WriteMerkleTree(table) ==
  IF table # << >> /\ Accepted(table) THEN ParseBalanceMap(table) ELSE Failed

(***************************************************************************)
(* The contract.                                                            *)
(***************************************************************************)
DistributorInit ==
  /\ hash \in DOMAIN Keccak
  /\ \E table \in Tables : file = WriteMerkleTree(table)
  /\ balance = Supply
  /\ claimedAt = {}
  /\ received = [a \in Everybody |-> 0]
  /\ taken = 0
  /\ block = 0

Deployed == file.root # NoNode

SetClaimed(index) == index \notin claimedAt /\ claimedAt' = claimedAt \cup {index}

\* Anybody may claim for anybody, with whatever proof there is.
ClaimDrop(index, account, amount, proof) ==
  /\ Deployed /\ block <= ClaimPeriod
  /\ VerifyProof(ToNode(index, account, amount), proof, file.root)
  /\ amount <= balance
  /\ SetClaimed(index)
  /\ balance' = balance - amount
  /\ received' = [received EXCEPT ![account] = @ + amount]
  /\ UNCHANGED <<file, hash, taken, block>>

\* The owner takes what is left, once the period is over.
WithdrawUnclaimed ==
  /\ Deployed /\ block > ClaimPeriod
  /\ balance' = 0
  /\ taken' = taken + balance
  /\ UNCHANGED <<file, hash, claimedAt, received, block>>

\* transfer: the owner sends PACT of the contract anywhere, at any time.
TransferOut(amount) ==
  /\ Deployed /\ amount \in 1..balance
  /\ balance' = balance - amount
  /\ taken' = taken + amount
  /\ UNCHANGED <<file, hash, claimedAt, received, block>>

MineBlock ==
  /\ Deployed /\ block < MaxBlock
  /\ block' = block + 1
  /\ UNCHANGED <<file, hash, balance, claimedAt, received, taken>>

\* What a claimant may submit: a proof of the file, one cut short, or any other.
DropProofs ==
  OtherProofs \cup UNION {{c.proof, SubSeq(c.proof, 2, Len(c.proof)), SubSeq(c.proof, 1, Len(c.proof) - 1)}
                           : c \in file.claims}
Indices == {c.index : c \in file.claims}

DistributorNext ==
  \/ \E i \in Indices, a \in Everybody, n \in Amounts, p \in DropProofs : ClaimDrop(i, a, n, p)
  \/ WithdrawUnclaimed
  \/ TransferOut(1)
  \/ MineBlock

DistributorSpec == DistributorInit /\ [][DistributorNext]_distributorVars

(***************************************************************************)
(* Properties.                                                              *)
(***************************************************************************)
TotalOf(claims) == SumFunctionOnSet([c \in file.claims |-> c.amount], claims)
Unclaimed == {c \in file.claims : c.index \notin claimedAt}

\* Whatever the number of addresses and the order of the hashes, every claim of the
\* file passes the contract's check, and there is enough for all claims that are left,
\* whoever came before, but for what the owner took out.  And an account is paid once,
\* the amount the file lists for it, or nothing: neither another
\* proof, nor another amount, nor another writing of its address gives more.
ClaimsPaidAsListed ==
  /\ \A c \in file.claims :
       VerifyProof(ToNode(c.index, c.account, c.amount), c.proof, file.root)
  /\ balance + taken >= TotalOf(Unclaimed)
  /\ \A a \in Everybody :
       received[a] # 0 => \E c \in file.claims \ Unclaimed : c.account = a /\ c.amount = received[a]
=============================================================================
