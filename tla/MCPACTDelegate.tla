---------------------------- MODULE MCPACTDelegate ---------------------------
(***************************************************************************)
(* Instances of PACTDelegate for TLC.  All voting periods and delays are 1  *)
(* or 2 blocks, and a block takes one unit of time.                         *)
(***************************************************************************)
EXTENDS PACTDelegate, TLC

CONSTANTS alice, bob, governor

MCInitialConfig ==
  [delay |-> 1, pendingAdmin |-> Nobody, votingDelay |-> 1, votingPeriod |-> 1,
   proposalThreshold |-> 0, quorumVotes |-> 1, releaseToken |-> SPACTCode]

MCEtas == 0..(MaxTime + MaxDelay)

Set(setting, value) == [setting |-> setting, value |-> value]
Payment == Set("external", 1)

\* One harmless proposal, for the runs about votes.
PaymentOnly == {<<Payment>>}

\* Calls that change the settings of the governor and of the timelock, among
\* them one that is refused unless the call before it is made first.
SettingCalls ==
  { <<Set("proposalThreshold", 1), Set("quorumVotes", 1)>>,
    <<Set("quorumVotes", 2)>>,
    <<Set("delay", 2), Set("releaseToken", NoToken)>>,
    <<Set("votingDelay", 2), Set("votingPeriod", 2)>> }

\* Proposals that share a call, and one that repeats it.
CompetingCalls == { <<Payment, Payment>>, <<Payment>>, <<Set("delay", 2), Payment>> }

\* The same, or the handover of the timelock beside a change of the delay, when
\* the successor has no other calls either.
HandOver == Set("pendingAdmin", Successor)
Slower == Set("delay", 2)
HandOverCalls == SettingCalls \cup {<<HandOver>>, <<Slower>>}
HandOverOrSettings ==
  \/ /\ {proposals[id].calls : id \in Created} \subseteq SettingCalls
     /\ admin = TheDelegate
  \/ /\ {proposals[id].calls : id \in Created} \subseteq {<<HandOver>>, <<Slower>>}
     /\ {a.call : a \in announced} \subseteq {HandOver, Slower}

\* Bound of the instance: proposals compete when each voter holds one PACT
\* throughout; otherwise there is one proposal, and no block after its vote.
EvenVotes ==
  /\ votes["PACT"] = [v \in Voters |-> 1]
  /\ \A b \in 1..(block - 1) : past[b] = votes
OneOrEvenVotes ==
  EvenVotes \/ (proposalCount <= 2 /\ block <= 5 /\ \A id \in Created : proposals[id].calls = <<Payment>>)

Symmetric == Permutations(Voters)
=============================================================================
