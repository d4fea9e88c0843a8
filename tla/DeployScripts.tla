----------------------------- MODULE DeployScripts -----------------------------
(***************************************************************************)
(* The scripts of deploy/prod as data: what each of them sends to the chain, *)
(* in the order it sends it.  Deployment.tla runs them.                      *)
(*                                                                           *)
(* A script is known by its tag.  It names the tags it depends on, the       *)
(* network its hard-coded addresses belong to ("any" when it looks addresses *)
(* up in the records of earlier runs) and the tags of the runs that printed  *)
(* those addresses.  A contract is known by the name it is deployed under.   *)
(***************************************************************************)
EXTENDS Naturals, Sequences, TLC

(***************************************************************************)
(* Steps.  "get" reads a recorded deployment, the others are transactions   *)
(* of the deployer.  PACT is counted in billions.                           *)
(***************************************************************************)
Get(c) == [op |-> "get", on |-> c]
Deploy(c) == [op |-> "deploy", on |-> c, logic |-> c, admin |-> "none"]
DeployProxy(c, logic, admin) == [op |-> "deploy", on |-> c, logic |-> logic, admin |-> admin]
Initialize(c, links) == [op |-> "initialize", on |-> c, links |-> links]
Send(c, billions) == [op |-> "send", on |-> c, billions |-> billions]
Link(c, fn, value) == [op |-> "link", on |-> c, fn |-> fn, value |-> value]
\* Mutant: the contract stays with the deployer.
HandOverForgotten(c, owner) == Get(c)
HandOver(c, owner) == [op |-> "handover", on |-> c, owner |-> owner]
Propose(calls) == [op |-> "propose", on |-> "PACTDelegator", calls |-> calls]

(***************************************************************************)
(* The calls of a proposal, made by the timelock.  A View is there only to   *)
(* make the proposal fail if the upgrade before it went wrong.  One that     *)
(* reads a list reverts as well when the list has no such index.  (The       *)
(* others read mappings and numbers.)  The community whose beneficiaries a   *)
(* trial reads runs the implementation it is called on here.                 *)
(***************************************************************************)
Upgrade(proxy, logic) == [kind |-> "upgrade", on |-> proxy, logic |-> logic]
Update(c, fn, value) == [kind |-> "update", on |-> c, fn |-> fn, value |-> value]
View(c, fn) == [kind |-> "view", on |-> c, fn |-> fn]
ViewAt(c, fn, index) == [kind |-> "viewAt", on |-> c, fn |-> fn, index |-> index]
MoveToken(c, token) == [kind |-> "move", on |-> c, fn |-> "transfer", token |-> token]
Relinquish(c, owner) == [kind |-> "relinquish", on |-> c, owner |-> owner]

FirstDeployment(deps, steps) == [deps |-> deps, network |-> "any", after |-> {}, steps |-> steps]
Later(chain, after, steps) == [deps |-> << >>, network |-> chain, after |-> after, steps |-> steps]

(***************************************************************************)
(* The first deployment.                                                    *)
(***************************************************************************)
token == FirstDeployment(<< >>, <<Deploy("PACTToken")>>)

impactProxyAdmin == FirstDeployment(<< >>, <<Deploy("ImpactProxyAdmin")>>)

\* Only a chain it does not know gets a cUSD of its own.
cUSD(chain) ==
  FirstDeployment(<< >>, IF chain \in {"mainnet", "alfajores", "baklava"}
                         THEN << >> ELSE <<Deploy("TokenMock")>>)

governance == FirstDeployment(<<"TokenProd", "ImpactProxyAdminProd">>,
  << Get("PACTToken"), Get("ImpactProxyAdmin"),
     Deploy("PACTDelegate"),
     DeployProxy("PACTDelegator", "PACTDelegate", "ImpactProxyAdmin"),
     Deploy("PACTTimelock"),
     Initialize("PACTDelegator", {<<"timelock", "PACTTimelock">>, <<"token", "PACTToken">>}),
     Get("PACTToken"), Send("PACTDelegator", 2),
     HandOver("ImpactProxyAdmin", "PACTTimelock") >>)

\* Mutant: the proxy is left as it is.
TreasuryNotInitialized == FirstDeployment(<<"ImpactProxyAdminProd", "cUSDProd">>,
  << Get("ImpactProxyAdmin"), Deploy("TreasuryImplementation"),
     DeployProxy("TreasuryProxy", "TreasuryImplementation", "ImpactProxyAdmin") >>)

treasury == FirstDeployment(<<"ImpactProxyAdminProd", "cUSDProd">>,
  << Get("ImpactProxyAdmin"),
     Deploy("TreasuryImplementation"),
     DeployProxy("TreasuryProxy", "TreasuryImplementation", "ImpactProxyAdmin"),
     Initialize("TreasuryProxy", {}) >>)

community == FirstDeployment(<<"ImpactProxyAdminProd", "GovernanceProd", "TreasuryProd", "cUSDProd">>,
  << Get("ImpactProxyAdmin"), Get("PACTTimelock"),
     Deploy("CommunityAdminImplementation"),
     DeployProxy("CommunityAdminProxy", "CommunityAdminImplementation", "ImpactProxyAdmin"),
     Deploy("CommunityImplementation"),
     Initialize("CommunityAdminProxy", {<<"updateCommunityImplementation", "CommunityImplementation">>}),
     Get("TreasuryProxy"),
     Link("CommunityAdminProxy", "updateTreasury", "TreasuryProxy"),
     Link("TreasuryProxy", "updateCommunityAdmin", "CommunityAdminProxy"),
     HandOver("CommunityAdminProxy", "PACTTimelock"),
     HandOver("TreasuryProxy", "PACTTimelock") >>)

donationMiner == FirstDeployment(<<"ImpactProxyAdminProd", "GovernanceProd", "TreasuryProd", "cUSDProd">>,
  << Get("PACTToken"), Get("TreasuryProxy"), Get("ImpactProxyAdmin"), Get("PACTTimelock"),
     Deploy("DonationMinerImplementation"),
     DeployProxy("DonationMinerProxy", "DonationMinerImplementation", "ImpactProxyAdmin"),
     Initialize("DonationMinerProxy", {<<"PACT", "PACTToken">>, <<"treasury", "TreasuryProxy">>}),
     Get("PACTToken"), Send("DonationMinerProxy", 4),
     HandOver("DonationMinerProxy", "PACTTimelock") >>)

\* initialize pays the advance out of what was sent just before.
impactLabsVesting == FirstDeployment(<<"DonationMinerProd">>,
  << Get("ImpactProxyAdmin"), Get("PACTTimelock"), Get("DonationMinerProxy"), Get("PACTToken"),
     Deploy("ImpactLabsVestingImplementation"),
     DeployProxy("ImpactLabsVestingProxy", "ImpactLabsVestingImplementation", "ImpactProxyAdmin"),
     Send("ImpactLabsVestingProxy", 3),
     Initialize("ImpactLabsVestingProxy", {<<"PACT", "PACTToken">>, <<"donationMiner", "DonationMinerProxy">>}),
     HandOver("ImpactLabsVestingProxy", "PACTTimelock") >>)

merkleDistribuitor == FirstDeployment(<<"TokenProd">>,
  << Get("PACTTimelock"), Get("PACTToken"),
     Deploy("MerkleDistributor"),
     Send("MerkleDistributor", 1),
     HandOver("MerkleDistributor", "PACTTimelock") >>)

(***************************************************************************)
(* Later deployments.  Their addresses are hard-coded.                      *)
(***************************************************************************)
airdropV2 == Later("alfajores", {"Prod"},
  << Get("PACTToken"),
     Deploy("AirdropV2Implementation"),
     DeployProxy("AirdropV2Proxy", "AirdropV2Implementation", "ImpactProxyAdmin"),
     Initialize("AirdropV2Proxy", {<<"PACT", "PACTToken">>}) >>)

councilProxyAdmin == Later("any", {}, <<Deploy("CouncilProxyAdmin")>>)

impactMultiSigProxyAdmin == Later("any", {}, <<Deploy("ImpactMultiSigProxyAdmin")>>)

deposit == Later("mainnet", {"Prod"},
  << Deploy("DepositImplementation"),
     DeployProxy("DepositProxy", "DepositImplementation", "ImpactProxyAdmin"),
     Initialize("DepositProxy", {<<"treasury", "TreasuryProxy">>, <<"donationMiner", "DonationMinerProxy">>}),
     HandOver("DepositProxy", "PACTTimelock") >>)

\* Mutant: the proxy is given to the other administrator.
LearnAndEarnOfMultisig == Later("mainnet", {"Prod"},
  << Deploy("LearnAndEarnImplementation"),
     DeployProxy("LearnAndEarnProxy", "LearnAndEarnImplementation", "ImpactMultiSigProxyAdmin"),
     Initialize("LearnAndEarnProxy", {}), HandOver("LearnAndEarnProxy", "PACTTimelock") >>)

learnAndEarn == Later("mainnet", {"Prod"},
  << Deploy("LearnAndEarnImplementation"),
     DeployProxy("LearnAndEarnProxy", "LearnAndEarnImplementation", "ImpactProxyAdmin"),
     Initialize("LearnAndEarnProxy", {<<"communityAdmin", "CommunityAdminProxy">>}),
     HandOver("LearnAndEarnProxy", "PACTTimelock") >>)

\* The revenue contract is wired in, but the lines that would initialise it and
\* hand it over are commented out.
microcredit == Later("alfajores", {"ImpactMultiSigProxyAdminProd"},
  << Deploy("MicrocreditRevenueImplementation"),
     DeployProxy("MicrocreditRevenueProxy", "MicrocreditRevenueImplementation", "ImpactMultiSigProxyAdmin"),
     Deploy("MicrocreditImplementation"),
     DeployProxy("MicrocreditProxy", "MicrocreditImplementation", "ImpactMultiSigProxyAdmin"),
     Initialize("MicrocreditProxy", {<<"revenueAddress", "MicrocreditRevenueProxy">>}),
     HandOver("MicrocreditProxy", "multisig") >>)

referralLink == Later("mainnet", {"Prod"},
  << Deploy("ReferralLinkImplementation"),
     DeployProxy("ReferralLinkProxy", "ReferralLinkImplementation", "ImpactProxyAdmin"),
     Initialize("ReferralLinkProxy", {}),
     HandOver("ReferralLinkProxy", "referralOwner") >>)

staking == Later("alfajores", {"Prod"},
  << Deploy("SPACTToken"),
     Deploy("StakingImplementation"),
     DeployProxy("StakingProxy", "StakingImplementation", "ImpactProxyAdmin"),
     Initialize("StakingProxy", {<<"PACT", "PACTToken">>, <<"SPACT", "SPACTToken">>,
                                 <<"donationMiner", "DonationMinerProxy">>}),
     HandOver("StakingProxy", "PACTTimelock"),
     HandOver("SPACTToken", "StakingProxy"),
     Deploy("DonationMinerImplementation"),
     Propose(<< Upgrade("DonationMinerProxy", "DonationMinerImplementation"),
                Update("DonationMinerProxy", "updateStaking", "StakingProxy"),
                Update("DonationMinerProxy", "updateStakingDonationRatio", "ratio"),
                Update("DonationMinerProxy", "updateCommunityDonationRatio", "ratio") >>) >>)

treasuryLpSwap == Later("mainnet", {"Prod"},
  << Deploy("TreasuryLpSwapImplementation"),
     DeployProxy("TreasuryLpSwapProxy", "TreasuryLpSwapImplementation", "ImpactProxyAdmin"),
     Initialize("TreasuryLpSwapProxy", {<<"treasury", "TreasuryProxy">>}) >>)

(***************************************************************************)
(* Helpers: a new implementation, a proposal, or both.                      *)
(***************************************************************************)
airdropV1_transferTokens == Later("mainnet", {"Prod", "MerkleDistributorProd"},
  << Propose(<<MoveToken("MerkleDistributor", "PACTToken")>>) >>)

airdropV2_updateMerkleRoot == Later("alfajores", {"Prod", "AirdropV2Prod"},
  << Propose(<<Update("AirdropV2Proxy", "updateMerkleRoot", "root")>>) >>)

ambassadors_addEntity == Later("mainnet", {"Prod"},
  << Propose(<<Update("AmbassadorsProxy", "addEntity", "entity")>>) >>)

ambassadors_replaceEntityAccount == Later("mainnet", {"Prod"},
  << Propose(<<Update("AmbassadorsProxy", "replaceEntityAccount", "entity")>>) >>)

callMethod == Later("alfajores", {"Prod"},
  << Propose(<<MoveToken("DonationMinerProxy", "PACTToken")>>) >>)

communityAdmin_community_upgrade == Later("mainnet", {"Prod"},
  << Deploy("CommunityImplementation"),
     Deploy("CommunityAdminImplementation"),
     Propose(<< Upgrade("CommunityAdminProxy", "CommunityAdminImplementation"),
                Update("CommunityAdminProxy", "updateCommunityImplementation", "CommunityImplementation"),
                ViewAt("CommunityAdminProxy", "communityListAt", 200),
                ViewAt("CommunityImplementation", "beneficiaryListAt", 20) >>) >>)

communityAdmin_upgrade == Later("mainnet", {"Prod"},
  << Deploy("CommunityAdminImplementation"),
     Propose(<< Upgrade("CommunityAdminProxy", "CommunityAdminImplementation"),
                Update("CommunityAdminProxy", "updateTreasurySafetyPercentage", "safety"),
                Update("CommunityAdminProxy", "updateTreasuryMinBalance", "safety") >>) >>)

community_upgrade == Later("mainnet", {"Prod"},
  << Deploy("CommunityImplementation"),
     Propose(<< Update("CommunityAdminProxy", "updateCommunityImplementation", "CommunityImplementation"),
                View("CommunityImplementation", "impactMarketAddress") >>) >>)

donationMiner_updateStakingDonationRatio == Later("mainnet", {"Prod"},
  << Propose(<<Update("DonationMinerProxy", "updateStakingDonationRatio", "ratio")>>) >>)

\* What it deploys as the new miner is the Microcredit implementation; the
\* proposal that would put it behind the miner's proxy is commented out.
donationMiner_upgrade_treasury_setToken == Later("mainnet", {"Prod"},
  << Deploy("MicrocreditImplementation") >>)

donationMiner_upgrade_updateRecurringCronAddress == Later("alfajores", {"Prod"},
  << Deploy("DonationMinerImplementation"),
     Propose(<< Upgrade("DonationMinerProxy", "DonationMinerImplementation"),
                Update("DonationMinerProxy", "updateRecurringCronAddress", "cron") >>) >>)

\* The token of the trial call is mainnet's PACT, everything else is alfajores'.
donationMiner_upgrade == Later("alfajores", {"Prod"},
  << Deploy("DonationMinerImplementation"),
     Propose(<< Upgrade("DonationMinerProxy", "DonationMinerImplementation"),
                MoveToken("DonationMinerProxy", "PACTToken of mainnet") >>) >>)

impactLabsVesting_upgrade == Later("mainnet", {"Prod"},
  << Propose(<<Update("ImpactLabsVestingProxy", "updateImpactLabs", "impactLabs")>>) >>)

impactMarketCouncil_upgrade == Later("mainnet", {"Prod"},
  << Deploy("ImpactMarketCouncilImplementation"),
     Propose(<< Upgrade("ImpactMarketCouncilProxy", "ImpactMarketCouncilImplementation"),
                View("ImpactMarketCouncilProxy", "getActions") >>) >>)

learnAndEarn_upgrade == Later("mainnet", {"Prod", "LearnAndEarn"},
  << Deploy("LearnAndEarnImplementation"),
     Propose(<< Upgrade("LearnAndEarnProxy", "LearnAndEarnImplementation"),
                View("LearnAndEarnProxy", "levels") >>) >>)

microcreditImplementation == Later("any", {}, <<Deploy("MicrocreditImplementation")>>)

\* Its addresses are alfajores', where no script of deploy/prod as it is now puts the proxy;
\* on mainnet, where one does, this script has no address for it.
referralLink_upgrade == Later("alfajores", {"Prod"},
  << Deploy("ReferralLinkImplementation"),
     Propose(<< Upgrade("ReferralLinkProxy", "ReferralLinkImplementation"),
                View("ReferralLinkProxy", "campaignReferralLinks") >>) >>)

transferOwnershipMethod == Later("mainnet", {"Prod"},
  << Propose(<< Relinquish("ImpactProxyAdmin", "multisig"),
                Relinquish("DonationMinerProxy", "multisig") >>) >>)

treasury_setToken == Later("mainnet", {"Prod"},
  << Propose(<<Update("TreasuryProxy", "setToken", "cUSD")>>) >>)

uniswap_integration == Later("mainnet", {"Prod", "TreasuryLpSwap"},
  << Deploy("CommunityImplementation"),
     Deploy("CommunityAdminImplementation"),
     Deploy("DonationMinerImplementation"),
     Deploy("TreasuryImplementation"),
     Propose(<< Upgrade("CommunityAdminProxy", "CommunityAdminImplementation"),
                Update("CommunityAdminProxy", "updateCommunityImplementation", "CommunityImplementation"),
                ViewAt("CommunityAdminProxy", "communityListAt", 2),
                Upgrade("DonationMinerProxy", "DonationMinerImplementation"),
                View("DonationMinerProxy", "currentRewardPeriodNumber"),
                Upgrade("TreasuryProxy", "TreasuryImplementation"),
                Update("TreasuryProxy", "updatePACT", "PACTToken"),
                Update("TreasuryProxy", "updateDonationMiner", "DonationMinerProxy"),
                Update("TreasuryProxy", "updateLpSwap", "TreasuryLpSwapProxy"),
                Update("TreasuryProxy", "setToken", "cUSD") >>) >>)

(***************************************************************************)
(* The scripts by tag.  "Prod" selects several of them, in the order of      *)
(* their file names.                                                        *)
(***************************************************************************)
ProdTags == << "cUSDProd", "CommunityProd", "DonationMinerProd", "GovernanceProd",
               "ImpactLabsVestingProd", "ImpactProxyAdminProd", "TokenProd", "TreasuryProd" >>

Scripts(chain) ==
  "TokenProd" :> token @@ "cUSDProd" :> cUSD(chain) @@ "ImpactProxyAdminProd" :> impactProxyAdmin
  @@ "GovernanceProd" :> governance @@ "TreasuryProd" :> treasury @@ "CommunityProd" :> community
  @@ "DonationMinerProd" :> donationMiner @@ "ImpactLabsVestingProd" :> impactLabsVesting
  @@ "MerkleDistributorProd" :> merkleDistribuitor
  @@ "AirdropV2Prod" :> airdropV2 @@ "CouncilProxyAdminProd" :> councilProxyAdmin
  @@ "ImpactMultiSigProxyAdminProd" :> impactMultiSigProxyAdmin @@ "DepositProd" :> deposit
  @@ "LearnAndEarn" :> learnAndEarn @@ "MicrocreditProd" :> microcredit
  @@ "ReferralLink" :> referralLink @@ "Staking" :> staking @@ "TreasuryLpSwap" :> treasuryLpSwap
  @@ "AirdropV1_transferERC20" :> airdropV1_transferTokens
  @@ "AirdropV2_updateMerkleRoot" :> airdropV2_updateMerkleRoot
  @@ "Ambassadors_addEntity" :> ambassadors_addEntity
  @@ "Ambassadors_replaceEntityAccount" :> ambassadors_replaceEntityAccount
  @@ "CallMethod" :> callMethod
  @@ "CommunityAdminAndCommunity_upgrade" :> communityAdmin_community_upgrade
  @@ "CommunityAdmin_upgrade" :> communityAdmin_upgrade @@ "Community_upgrade" :> community_upgrade
  @@ "DonationMiner.updateStakingDonationRatio" :> donationMiner_updateStakingDonationRatio
  @@ "DonationMiner.upgrade+Treasury.setToken" :> donationMiner_upgrade_treasury_setToken
  @@ "DonationMiner.upgrade+DonationMiner.updateRecurringCronAddress"
       :> donationMiner_upgrade_updateRecurringCronAddress
  @@ "DonationMiner_upgrade" :> donationMiner_upgrade
  @@ "ImpactLabsVesting_upgrade" :> impactLabsVesting_upgrade
  @@ "ImpactMarketCouncil_upgrade" :> impactMarketCouncil_upgrade
  @@ "LearnAndEarn_upgrade" :> learnAndEarn_upgrade
  @@ "MicrocreditImplementation" :> microcreditImplementation
  @@ "ReferralLink_upgrade" :> referralLink_upgrade @@ "TransferOwnership" :> transferOwnershipMethod
  @@ "Treasury_setToken" :> treasury_setToken @@ "uniswap_integration" :> uniswap_integration
=============================================================================
