------------------------------ MODULE MCOffchain ------------------------------
(***************************************************************************)
(* Instances of the two airdrops, the holder count and the setup of reserves   *)
(* for TLC.  They have nothing to do with each other: a behaviour runs one of  *)
(* them and leaves the others where they start.                               *)
(***************************************************************************)
EXTENDS MerkleDistributor, AirdropV2, HolderCount, ReserveSetup

CONSTANTS ana, ben, zero, hal, ida

VARIABLE program

vars == <<program, distributorVars, airdropV2Vars, holderVars, reserveVars>>

Row(account, writing, earnings) == [address |-> <<account, writing>>, earnings |-> earnings]

\* Every table of up to two rows over two accounts, with something wrong or not, and
\* tables of one to five accounts in an order of their own.
Rows == {Row(a, w, n) : a \in {1, 2}, w \in {"checksum", "lower"}, n \in {0, 1}} \cup {Row(1, "bad", 1)}
MCTables ==
  {<< >>} \cup {<<r>> : r \in Rows} \cup {<<r, s>> : r \in Rows, s \in Rows}
  \cup {[i \in 1..n |-> Row(n + 1 - i, "checksum", 1 + (i % 2))] : n \in 3..5}

\* Hashes in four orders.
HashOrders ==
  <<[i \in 0..4 |-> i], [i \in 0..4 |-> 4 - i], [i \in 0..4 |-> (i * 2) % 5], [i \in 0..4 |-> (i * 3 + 1) % 5]>>
MCKeccak == [k \in 1..4 |-> [d \in LeafData |-> 100 * HashOrders[k][d[1]] + 10 * d[2] + d[3]]]

\* No proof at all, a leaf, and a leaf and a node above two of them.
MCOtherProofs == {<< >>, << <<11>> >>, << <<121>>, <<0, 11, 121>> >>}

\* One person is in two communities, a third community is still to come.
MCInitialCommunities == <<1, 2>>
MCInitialLists == 1 :> <<ana, ben>> @@ 2 :> <<ana>> @@ 3 :> << >>

MCLeafOf == ana :> <<2>> @@ ben :> <<1>>

MCTerms == [startTime |-> 1, trancheAmount |-> 2, totalAmount |-> 3, cooldown |-> 0]
MCTermChanges == {<<"totalAmount", 1>>}

\* What the Moola market has not, from the tables of the aave and amm markets: an asset
\* that is no collateral, one that is not to be configured, and one aware of delegation.
MixedMarket ==
  [symbols |-> <<"USDT", "BUSD", "UNI">>,
   config  |->
     [USDT |-> [baseLTV |-> -1, threshold |-> 8500, aTokenImpl |-> "AToken",
                strategy |-> "rateStrategyStable"],
      BUSD |-> [baseLTV |-> 0, threshold |-> 0, aTokenImpl |-> "AToken",
                strategy |-> "rateStrategyStableOne"],
      UNI  |-> [baseLTV |-> 6000, threshold |-> 6500, aTokenImpl |-> "DelegationAwareAToken",
                strategy |-> "rateStrategyVolatileThree"]]]
MCMarkets == [Moola |-> MoolaMarket, mixed |-> MixedMarket]

FirstDrop ==
  /\ program = "first airdrop"
  /\ DistributorInit
OtherThanFirstDrop == file = Failed /\ hash = 1 /\ balance = Supply /\ claimedAt = {}
                      /\ received = [a \in Everybody |-> 0] /\ taken = 0 /\ block = 0

OtherThanReserves == market = "Moola"

MCInit ==
  /\ AirdropV2Init /\ HolderCountInit /\ ReserveSetupInit
  /\ \/ FirstDrop /\ OtherThanReserves
     \/ program \in {"second airdrop", "holder count"} /\ OtherThanFirstDrop /\ OtherThanReserves
     \/ program = "reserves" /\ OtherThanFirstDrop

MCNext ==
  /\ program' = program
  /\ \/ program = "first airdrop" /\ DistributorNext /\ UNCHANGED <<airdropV2Vars, holderVars, reserveVars>>
     \/ program = "second airdrop" /\ AirdropV2Next /\ UNCHANGED <<distributorVars, holderVars, reserveVars>>
     \/ program = "holder count" /\ HolderCountNext /\ UNCHANGED <<distributorVars, airdropV2Vars, reserveVars>>
     \/ program = "reserves" /\ ReserveSetupNext /\ UNCHANGED <<distributorVars, airdropV2Vars, holderVars>>

\* Whoever holds tokens may change places with another.
Symmetry == Permutations(Holders)

MCSpec == MCInit /\ [][MCNext]_vars
=============================================================================
