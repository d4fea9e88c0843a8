------------------------------- MODULE AirdropV2 -------------------------------
(***************************************************************************)
(* The second airdrop: the list a snapshot wrote is made into a Merkle root    *)
(* (script/merkleTree/generateMerkleTree.ts), the owner gives the contract the  *)
(* root, and whoever is on the list claims tranche after tranche.              *)
(***************************************************************************)
EXTENDS BeneficiarySnapshot, MerkleTree

CONSTANTS
  LeafOf,         \* the hash of each person's address
  InitialTerms,   \* the terms the contract begins with
  TermChanges,    \* bound of the model: what the owner may set a term to
  MaxTime         \* bound of the model: the last moment

Terms == [startTime : Nat, trancheAmount : Nat, totalAmount : Nat, cooldown : Nat]

\* Addresses do not share a leaf of the tree.
ASSUME AirdropV2Assumption ==
  /\ \A p \in People : LeafOf[p] \in Seq(Nat \ {0}) /\ Len(LeafOf[p]) = 1
  /\ \A p, q \in People : p # q => LeafOf[p] # LeafOf[q]
  /\ InitialTerms \in Terms
  /\ TermChanges \subseteq {"startTime", "trancheAmount", "totalAmount", "cooldown"} \X Nat
  /\ MaxTime \in Nat

VARIABLES
  list,          \* beneficiaryList_prod.ts: the people the root was made from
  root,          \* merkleRoot
  terms,         \* startTime, trancheAmount, totalAmount, cooldown
  beneficiaries, \* claimedAmount and lastClaimTime of everybody
  ever,          \* whoever was on a list the contract had the root of
  offered,       \* the largest totalAmount there was
  time

airdropVars == <<list, root, terms, beneficiaries, ever, offered, time>>
airdropV2Vars == <<snapshotVars, airdropVars>>

Leaves(people) == [i \in DOMAIN people |-> LeafOf[people[i]]]

\* generateMerkleTree, getProof: the leaves in the order of the list, with repetitions.
\* The list is the one of the snapshot's file (the script imports a file of tests as it is,
\* the line that imports this one is commented out).
GenerateMerkleTree(people) == LibraryTreeOf(Leaves(people))
GenerateMerkleTreeFromFile == GenerateMerkleTree(script.found)
GetProof ==
  LET tree == GenerateMerkleTree(list) IN [p \in Range(list) |-> Proof(tree, LeafOf[p])]

AirdropV2Init ==
  /\ SnapshotInit
  /\ list = << >> /\ root = NoNode
  /\ terms = InitialTerms
  /\ beneficiaries = [p \in People |-> [claimedAmount |-> 0, lastClaimTime |-> 0]]
  /\ ever = {}
  /\ offered = InitialTerms.totalAmount
  /\ time = 0

\* updateMerkleRoot, with the root of the list the last snapshot wrote.
UpdateMerkleRoot ==
  /\ script.phase = "written" /\ script.found # << >> /\ list # script.found
  /\ list' = script.found
  /\ root' = Root(GenerateMerkleTreeFromFile)
  /\ ever' = ever \cup Range(script.found)
  /\ UNCHANGED <<snapshotVars, terms, beneficiaries, offered, time>>

\* updateStartTime, updateTrancheAmount, updateTotalAmount, updateCooldown
UpdateTerm(term, value) ==
  /\ terms[term] # value
  /\ terms' = [terms EXCEPT ![term] = value]
  /\ offered' = IF term = "totalAmount" /\ value > offered THEN value ELSE offered
  /\ UNCHANGED <<snapshotVars, list, root, beneficiaries, ever, time>>

ClaimAmount(claimedAmount) ==
  IF terms.totalAmount - claimedAmount > terms.trancheAmount
  THEN terms.trancheAmount ELSE terms.totalAmount - claimedAmount

\* Mutant: the proof counts only once something has been claimed.
ProvesLater(p, proof) ==
  beneficiaries[p].claimedAmount # 0 => root # NoNode /\ VerifyProof(LeafOf[p], proof, root)

\* The proof counts only until something has been claimed.
Proves(p, proof) ==
  beneficiaries[p].claimedAmount = 0 => root # NoNode /\ VerifyProof(LeafOf[p], proof, root)

\* The contract's PACT is left out: a claim it cannot pay is not made.
Claim(p, proof) ==
  LET b == beneficiaries[p]
  IN /\ terms.startTime <= time
     /\ Proves(p, proof)
     /\ b.lastClaimTime + terms.cooldown <= time
     /\ b.claimedAmount < terms.totalAmount
     /\ beneficiaries' = [beneficiaries EXCEPT ![p] =
          [claimedAmount |-> b.claimedAmount + ClaimAmount(b.claimedAmount), lastClaimTime |-> time]]
     /\ UNCHANGED <<snapshotVars, list, root, terms, ever, offered, time>>

Wait ==
  /\ time < MaxTime
  /\ time' = time + 1
  /\ UNCHANGED <<snapshotVars, list, root, terms, beneficiaries, ever, offered>>

\* Proofs anybody can have: those of the list in use.
Proofs == Range(GetProof) \cup {<< >>}

AirdropV2Next ==
  \/ SnapshotNext /\ UNCHANGED airdropVars
  \/ UpdateMerkleRoot
  \/ \E change \in TermChanges : UpdateTerm(change[1], change[2])
  \/ \E proof \in Proofs, p \in People : Claim(p, proof)
  \/ Wait

AirdropV2Spec == AirdropV2Init /\ [][AirdropV2Next]_airdropV2Vars

(***************************************************************************)
(* Properties.                                                              *)
(***************************************************************************)

\* Whoever is on the list passes the contract's check, wherever the answers of the
\* snapshot put them, how many they are, and even twice on it; and nobody gets PACT
\* who was on no list, or more than the largest total there was, whatever the owner
\* does to the terms and the root between claims.
AirdropPaysTheListed ==
  /\ LET proofs == GetProof IN \A p \in Range(list) : VerifyProof(LeafOf[p], proofs[p], root)
  /\ \A p \in People :
       /\ beneficiaries[p].claimedAmount > 0 => p \in ever
       /\ beneficiaries[p].claimedAmount <= offered
=============================================================================
