------------------------------ MODULE Deployment ------------------------------
(***************************************************************************)
(* Runs of the deployment scripts against a chain.                          *)
(*                                                                           *)
(* `hardhat deploy --tags <tag>` collects the scripts of the tag, each       *)
(* after the ones it depends on, and sends their transactions one by one.    *)
(* A run ends at its last step, at a transaction that reverts, or wherever   *)
(* the operator's machine or the RPC node gives up; the operator may then    *)
(* start another run.  A contract already recorded is not deployed again.    *)
(* Everything else is sent again.  Proposals the scripts make are voted on   *)
(* and executed by the timelock, which makes all of their calls or none.     *)
(*                                                                           *)
(* hardhat-deploy and OpenZeppelin's Ownable, Initializable and ProxyAdmin   *)
(* are modelled from how the scripts use them.                              *)
(***************************************************************************)
EXTENDS DeployScripts, SequencesExt, FiniteSets

CONSTANTS
  Networks,        \* the networks of the instance, among "mainnet", "alfajores" and others
  Tags,            \* the tags the operator may ask for
  MaxInvocations,  \* bound of the model: how many runs are started
  MaxInterrupted,  \* bound of the model: how many of the tags have runs that are interrupted
  MaxProposals     \* bound of the model: how many proposals the scripts make

ASSUME DeploymentAssumption ==
  /\ \A n \in Networks : Tags \subseteq DOMAIN Scripts(n) \cup {"Prod"}
  /\ MaxInvocations \in Nat /\ MaxInterrupted \in Nat /\ MaxProposals \in Nat

VARIABLES
  network,      \* the network of the session
  world,        \* the contracts on the chain
  run,          \* the run in progress: its tag, what it has still to do
  invocations,  \* the runs started so far
  ended,        \* how runs ended: <<tag, "completed" | "interrupted" | "reverted">>
  proposals     \* the proposals made: tag, calls, state

vars == <<network, world, run, invocations, ended, proposals>>

(***************************************************************************)
(* The scripts a run goes through.                                          *)
(***************************************************************************)
FirstOccurrences(s) ==
  LET kept[i \in 0..Len(s)] ==
        IF i = 0 THEN << >>
        ELSE LET before == kept[i - 1]
             IN IF Contains(before, s[i]) THEN before ELSE Append(before, s[i])
  IN kept[Len(s)]

\* Mutant: the scripts run in the order of their files.
IgnoringDependencies(chain, tag) == IF tag = "Prod" THEN ProdTags ELSE <<tag>>

\* hardhat-deploy: a script comes after its dependencies, and once.
InDependencyOrder(chain, tag) ==
  LET scripts == Scripts(chain)
      Before[t \in DOMAIN scripts] ==
        FlattenSeq([i \in DOMAIN scripts[t].deps |-> Before[scripts[t].deps[i]]]) \o <<t>>
      selected == IF tag = "Prod" THEN ProdTags ELSE <<tag>>
  IN FirstOccurrences(FlattenSeq([i \in DOMAIN selected |-> Before[selected[i]]]))

\* The transactions of a run.
Plan(chain, tag) ==
  LET scripts == Scripts(chain)
      order == InDependencyOrder(chain, tag)
  IN FlattenSeq([i \in DOMAIN order |-> scripts[order[i]].steps])

Idle == run.tag = "none"

Completed == {t \in Tags : <<t, "completed">> \in ended}

(***************************************************************************)
(* The chain.                                                               *)
(***************************************************************************)

\* Contracts that belong to their deployer from the start.
OwnableOnDeploy ==
  {"ImpactProxyAdmin", "CouncilProxyAdmin", "ImpactMultiSigProxyAdmin", "MerkleDistributor", "SPACTToken"}

\* Proxies and the implementation each is meant to run.
ImplementationOf ==
  "PACTDelegator" :> "PACTDelegate" @@ "TreasuryProxy" :> "TreasuryImplementation"
  @@ "CommunityAdminProxy" :> "CommunityAdminImplementation"
  @@ "DonationMinerProxy" :> "DonationMinerImplementation"
  @@ "ImpactLabsVestingProxy" :> "ImpactLabsVestingImplementation"
  @@ "AirdropV2Proxy" :> "AirdropV2Implementation" @@ "DepositProxy" :> "DepositImplementation"
  @@ "LearnAndEarnProxy" :> "LearnAndEarnImplementation"
  @@ "MicrocreditRevenueProxy" :> "MicrocreditRevenueImplementation"
  @@ "MicrocreditProxy" :> "MicrocreditImplementation"
  @@ "ReferralLinkProxy" :> "ReferralLinkImplementation" @@ "StakingProxy" :> "StakingImplementation"
  @@ "TreasuryLpSwapProxy" :> "TreasuryLpSwapImplementation"
  @@ "AmbassadorsProxy" :> "AmbassadorsImplementation"
  @@ "ImpactMarketCouncilProxy" :> "ImpactMarketCouncilImplementation"
Proxies == DOMAIN ImplementationOf

\* The functions the proposals of the scripts call, by the contract whose code has them.
FunctionsOf ==
  "DonationMinerImplementation" :> {"updateStaking", "updateStakingDonationRatio",
      "updateCommunityDonationRatio", "updateRecurringCronAddress", "currentRewardPeriodNumber", "transfer"}
  @@ "CommunityAdminImplementation" :> {"updateCommunityImplementation", "communityListAt",
      "updateTreasurySafetyPercentage", "updateTreasuryMinBalance"}
  @@ "CommunityImplementation" :> {"beneficiaryListAt", "impactMarketAddress"}
  @@ "TreasuryImplementation" :> {"updatePACT", "updateDonationMiner", "updateLpSwap", "setToken"}
  @@ "ImpactLabsVestingImplementation" :> {"updateImpactLabs"}
  @@ "ImpactMarketCouncilImplementation" :> {"getActions"}
  @@ "AmbassadorsImplementation" :> {"addEntity", "replaceEntityAccount"}
  @@ "AirdropV2Implementation" :> {"updateMerkleRoot"}
  @@ "LearnAndEarnImplementation" :> {"levels"}
  @@ "ReferralLinkImplementation" :> {"campaignReferralLinks"}
  @@ "MerkleDistributor" :> {"transfer"}

\* "position" is the treasury's position in a pool of Uniswap, itself a token.
Contracts ==
  UNION {{s.on : s \in UNION {ToSet(Scripts(n)[t].steps) : t \in DOMAIN Scripts(n)}} : n \in Networks}
  \cup {"AmbassadorsProxy", "ImpactMarketCouncilProxy", "ImpactMarketCouncilImplementation", "position"}

\* What each is to receive of the supply.
Allocation == "PACTDelegator" :> 2 @@ "DonationMinerProxy" :> 4 @@ "ImpactLabsVestingProxy" :> 3
              @@ "MerkleDistributor" :> 1

\* Ambassadors and the council are deployed by scripts the repository keeps for its
\* tests only, and ReferralLink on alfajores by none with those addresses (the recorded
\* deployments have it): they are there from the start, in the hands of their owners.
External(chain) ==
  "AmbassadorsProxy" :> "PACTTimelock" @@ "ImpactMarketCouncilProxy" :> "PACTTimelock"
  @@ (IF chain = "alfajores" THEN "ReferralLinkProxy" :> "referralOwner" ELSE << >>)

\* "listed" is how long the lists are that trial calls of proposals read.
EmptyWorld(chain) ==
  LET external == External(chain)
      IfExternal(there(_), otherwise) ==
        [c \in Contracts |-> IF c \in DOMAIN external THEN there(c) ELSE otherwise]
  IN [deployed    |-> DOMAIN external,
      owner       |-> IfExternal(LAMBDA c : external[c], "nobody"),
      logic       |-> IfExternal(LAMBDA c : ImplementationOf[c], "none"),
      admin       |-> IfExternal(LAMBDA c : "ImpactProxyAdmin", "none"),
      initialized |-> DOMAIN external,
      sent        |-> [c \in DOMAIN Allocation |-> 0],
      links       |-> {},
      listed      |-> [communityListAt |-> 0, beneficiaryListAt |-> 0]]

Total(w) == FoldFunction(+, 0, w.sent)
SetLink(w, c, fn, value) ==
  [w EXCEPT !.links = {l \in @ : l[1] # c \/ l[2] # fn} \cup {<<c, fn, value>>}]
Linked(w, c, fn) == \E l \in w.links : l[1] = c /\ l[2] = fn

(***************************************************************************)
(* The deployer's transactions: when each is accepted, and what it does.    *)
(***************************************************************************)
\* Mutant: a proxy may be initialized again.
AcceptedAgain(w, s) ==
  CASE s.op = "get" -> s.on \in w.deployed
    [] s.op = "initialize" -> s.on \in w.deployed
    [] s.op = "send" -> Total(w) + s.billions <= 10
    [] s.op \in {"link", "handover"} -> w.owner[s.on] = "deployer"
    [] OTHER -> TRUE

\* The deployer holds the whole supply of 10 billion when it begins.  The advance
\* impactLabsVesting pays, less than a billion, comes out of what it was sent.
Accepted(w, s) ==
  CASE s.op = "get" -> s.on \in w.deployed
    [] s.op = "initialize" ->
         /\ s.on \in w.deployed \ w.initialized
         /\ s.on = "ImpactLabsVestingProxy" => w.sent[s.on] > 0
    [] s.op = "send" -> Total(w) + s.billions <= 10
    [] s.op \in {"link", "handover"} -> w.owner[s.on] = "deployer"
    [] OTHER -> TRUE

\* Initializing a proxy makes its caller the owner; the governor's gives itself to its timelock.
OwnerOnInitialize(c) == IF c = "PACTDelegator" THEN "PACTTimelock" ELSE "deployer"

Effect(w, s) ==
  CASE s.op = "deploy" /\ s.on \notin w.deployed ->
         [w EXCEPT !.deployed = @ \cup {s.on}, !.logic[s.on] = s.logic, !.admin[s.on] = s.admin,
                   !.owner[s.on] = IF s.on \in OwnableOnDeploy THEN "deployer" ELSE @]
    [] s.op = "initialize" ->
         [w EXCEPT !.initialized = @ \cup {s.on}, !.owner[s.on] = OwnerOnInitialize(s.on),
                   !.links = @ \cup {<<s.on, l[1], l[2]>> : l \in s.links}]
    [] s.op = "send" -> [w EXCEPT !.sent[s.on] = @ + s.billions]
    [] s.op = "link" -> SetLink(w, s.on, s.fn, s.value)
    [] s.op = "handover" -> [w EXCEPT !.owner[s.on] = s.owner]
    [] OTHER -> w

(***************************************************************************)
(* The timelock's calls.                                                    *)
(***************************************************************************)
\* Treasury.setToken is given a position of the pool, which must be TreasuryLpSwap's.
CallAccepted(w, call) ==
  CASE call.kind = "upgrade" ->
         /\ w.owner["ImpactProxyAdmin"] = "PACTTimelock" /\ w.admin[call.on] = "ImpactProxyAdmin"
         /\ call.logic \in w.deployed
    [] call.kind = "relinquish" -> w.owner[call.on] = "PACTTimelock"
    [] OTHER ->
         /\ call.on \in w.deployed /\ w.logic[call.on] \in DOMAIN FunctionsOf
         /\ call.fn \in FunctionsOf[w.logic[call.on]]
         /\ call.kind \in {"update", "move"} => w.owner[call.on] = "PACTTimelock"
         /\ call.kind = "move" => call.token \in w.deployed
         /\ call.kind = "viewAt" => call.index < w.listed[call.fn]
         /\ call.fn = "setToken" =>
              Linked(w, "TreasuryProxy", "updateLpSwap") /\ w.owner["position"] = "TreasuryLpSwapProxy"

CallEffect(w, call) ==
  CASE call.kind = "upgrade" -> [w EXCEPT !.logic[call.on] = call.logic]
    [] call.kind = "relinquish" -> [w EXCEPT !.owner[call.on] = call.owner]
    [] call.kind = "update" /\ call.value \in Contracts -> SetLink(w, call.on, call.fn, call.value)
    [] OTHER -> w

\* Whether every call of a proposal is accepted, and the world after them.
Performed(w, calls) ==
  LET after[i \in 0..Len(calls)] ==
        IF i = 0 THEN [ok |-> TRUE, world |-> w]
        ELSE LET before == after[i - 1]
             IN IF before.ok /\ CallAccepted(before.world, calls[i])
                THEN [ok |-> TRUE, world |-> CallEffect(before.world, calls[i])]
                ELSE [ok |-> FALSE, world |-> before.world]
  IN after[Len(calls)]

(***************************************************************************)
(* Actions.                                                                 *)
(***************************************************************************)
NoRun == [tag |-> "none", todo |-> << >>]

Init ==
  /\ network \in Networks
  /\ world = EmptyWorld(network)
  /\ run = NoRun
  /\ invocations = 0
  /\ ended = {}
  /\ proposals = << >>

\* The scripts whose hard-coded addresses exist on this network.
Invocable ==
  LET scripts == Scripts(network)
  IN {tag \in Tags : tag # "Prod" => /\ scripts[tag].network \in {"any", network}
                                     /\ scripts[tag].after \subseteq Completed}

\* The operator runs one of them, or the first deployment.
Invoke ==
  /\ Idle /\ invocations < MaxInvocations
  /\ \E tag \in Invocable : run' = [tag |-> tag, todo |-> Plan(network, tag)]
  /\ invocations' = invocations + 1
  /\ UNCHANGED <<network, world, ended, proposals>>

Ends(outcome) ==
  /\ run' = NoRun
  /\ ended' = ended \cup {<<run.tag, outcome>>}
  /\ UNCHANGED <<network, world, invocations, proposals>>

NextStep == Head(run.todo)

\* createProposal: the governor takes one live proposal of a proposer at a time.
LiveProposal == \E p \in Range(proposals) : p.state = "live"
ProposeStep ==
  /\ NextStep.op = "propose" /\ ~LiveProposal /\ Len(proposals) < MaxProposals
  /\ proposals' = Append(proposals, [tag |-> run.tag, calls |-> NextStep.calls, state |-> "live"])
  /\ world' = world

TransactStep ==
  /\ NextStep.op # "propose" /\ Accepted(world, NextStep)
  /\ world' = Effect(world, NextStep)
  /\ proposals' = proposals

\* The script's next step succeeds.
Step ==
  /\ ~Idle /\ run.todo # << >>
  /\ ProposeStep \/ TransactStep
  /\ run' = [run EXCEPT !.todo = Tail(@)]
  /\ UNCHANGED <<network, invocations, ended>>

Complete == ~Idle /\ run.todo = << >> /\ Ends("completed")

\* The next step fails and the run with it.
Revert ==
  /\ ~Idle /\ run.todo # << >>
  /\ IF NextStep.op = "propose" THEN LiveProposal ELSE ~Accepted(world, NextStep)
  /\ Ends("reverted")

\* The machine, the connection or the operator gives up between two transactions.
Interrupt ==
  /\ ~Idle /\ run.todo # << >>
  /\ Ends("interrupted")
  /\ Cardinality({e \in ended' : e[2] = "interrupted"}) <= MaxInterrupted

SetState(i, from, to) ==
  /\ proposals[i].state = from
  /\ proposals' = [proposals EXCEPT ![i].state = to]
  /\ UNCHANGED <<network, run, invocations, ended>>

Vote(i) == \E to \in {"queued", "defeated"} : SetState(i, "live", to) /\ world' = world

\* All the calls of the proposal are made, or the transaction reverts.
Execute(i) ==
  /\ SetState(i, "queued", "executed")
  /\ LET performed == Performed(world, proposals[i].calls)
     IN performed.ok /\ world' = performed.world

\* The grace period passes.
Expire(i) == SetState(i, "queued", "expired") /\ world' = world

\* The reminder at the end of uniswap_integration: somebody gives the position of
\* the pool to TreasuryLpSwap.
GivePosition ==
  /\ "TreasuryLpSwapProxy" \in world.initialized /\ world.owner["position"] = "nobody"
  /\ world' = [world EXCEPT !.owner["position"] = "TreasuryLpSwapProxy"]
  /\ UNCHANGED <<network, run, invocations, ended, proposals>>

\* Communities are added, and beneficiaries to the one that trial calls read: no list is
\* ever shortened.  What makes a difference is that a list is long enough for a trial call
\* when its proposal is executed, so it becomes that while the proposal is queued.
Join ==
  \E p \in Range(proposals) : \E call \in ToSet(p.calls) :
    /\ p.state = "queued" /\ call.kind = "viewAt" /\ world.listed[call.fn] <= call.index
    /\ world' = [world EXCEPT !.listed[call.fn] = call.index + 1]
    /\ UNCHANGED <<network, run, invocations, ended, proposals>>

Next ==
  \/ Invoke \/ Step \/ Complete \/ Revert \/ Interrupt
  \/ \E i \in DOMAIN proposals : Vote(i) \/ Execute(i) \/ Expire(i)
  \/ GivePosition \/ Join

\* A run that was started goes on by itself.
Spec == Init /\ [][Next]_vars /\ WF_vars(Step \/ Complete \/ Revert)

(***************************************************************************)
(* Properties.                                                              *)
(***************************************************************************)
Executed(tag) == \E p \in Range(proposals) : p.tag = tag /\ p.state = "executed"

\* Whoever a first deployment hands a contract to, unless a proposal has passed it on since.
Governed(c) ==
  \/ world.owner[c] = "PACTTimelock"
  \/ world.owner[c] = "multisig" /\ c \in {"ImpactProxyAdmin", "DonationMinerProxy"}
     /\ Executed("TransferOwnership")

\* However often runs are interrupted and repeated, nobody is sent its share of the
\* supply twice: sending comes after an initialize that works once, or uses up what
\* is left.  Only merkleDistribuitor sends before anything that fails when repeated,
\* and there is PACT left for a second time only while the first deployment is not finished.
AllocationsSentOnce ==
  \A c \in DOMAIN Allocation :
    \/ world.sent[c] <= Allocation[c]
    \/ c = "MerkleDistributor" /\ world.sent[c] = 2 /\ "Prod" \notin Completed

\* Once the first deployment has finished, every proxy of it is initialized and in
\* the hands of the timelock, or of those a proposal gave it to, the shares of the
\* supply are where they belong and the treasury and the administration of
\* communities know each other; no later run or proposal undoes it.
CompletedProdIsGoverned ==
  "Prod" \in Completed =>
    /\ \A c \in {"PACTDelegator", "TreasuryProxy", "CommunityAdminProxy", "DonationMinerProxy",
                 "ImpactLabsVestingProxy"} : c \in world.initialized /\ Governed(c)
    /\ Governed("ImpactProxyAdmin")
    /\ \A c \in DOMAIN Allocation \ {"MerkleDistributor"} : world.sent[c] = Allocation[c]
    /\ <<"CommunityAdminProxy", "updateTreasury", "TreasuryProxy">> \in world.links
    /\ <<"TreasuryProxy", "updateCommunityAdmin", "CommunityAdminProxy">> \in world.links

\* A contract that others already refer to answers: it is initialized, it runs its
\* own code whatever has been upgraded, and a staking contract the miner takes stakes
\* from can mint and burn SPACT.  The exception is the revenue contract of
\* Microcredit, wired in without being initialized.
WiredToInitialized ==
  /\ \A c \in Proxies \cap world.deployed : world.logic[c] = ImplementationOf[c]
  /\ \A l \in world.links :
       /\ l[3] \in Proxies \ {"MicrocreditRevenueProxy"} => l[3] \in world.initialized
       /\ l[2] = "updateStaking" => world.owner["SPACTToken"] = l[3]

\* A proposal that was voted through can be executed.  Otherwise the contracts it
\* acts on were given away by another proposal, or the treasury lacks the position
\* of its pool, or there are fewer communities, or people in one, than the trial call of
\* an upgrade takes for granted, or it is one of two that never can: AirdropV2 was not handed
\* over to the timelock, and DonationMiner_upgrade tries the upgrade on another network's PACT.
QueuedProposalsExecutable ==
  \A p \in Range(proposals) : p.state = "queued" =>
    \/ Performed(world, p.calls).ok
    \/ Executed("TransferOwnership")
    \/ p.tag \in {"Treasury_setToken", "uniswap_integration"} /\ world.owner["position"] = "nobody"
    \/ p.tag = "Treasury_setToken" /\ ~Executed("uniswap_integration")
    \/ p.tag = "uniswap_integration" /\ world.listed["communityListAt"] < 3
    \/ /\ p.tag = "CommunityAdminAndCommunity_upgrade"
       /\ world.listed["communityListAt"] < 201 \/ world.listed["beneficiaryListAt"] < 21
    \/ p.tag \in {"AirdropV2_updateMerkleRoot", "DonationMiner_upgrade"}

\* The first run of the first deployment sends its transactions in an order that
\* works: unless it is interrupted it completes.
FirstProdCompletes ==
  (invocations = 1 /\ run.tag = "Prod")
    ~> ({<<"Prod", "completed">>, <<"Prod", "interrupted">>} \cap ended # {})
=============================================================================
