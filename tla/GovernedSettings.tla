-------------------------- MODULE GovernedSettings ---------------------------
(***************************************************************************)
(* The settings that only an executed proposal can change, and what a list  *)
(* of calls does to them.  The timelock owns PACTDelegate and itself, so    *)
(* every setter below is reached through PACTTimelock.executeTransaction.   *)
(* A call is a record [setting, value]; a call that changes none of these   *)
(* settings (to another contract) has the setting "external".               *)
(***************************************************************************)
EXTENDS Integers, Sequences

CONSTANTS
  MinDelay, MaxDelay,                  \* MINIMUM_DELAY, MAXIMUM_DELAY of the timelock
  MinVotingDelay, MaxVotingDelay,      \* MIN_VOTING_DELAY, MAX_VOTING_DELAY
  MinVotingPeriod, MaxVotingPeriod,    \* MIN_VOTING_PERIOD, MAX_VOTING_PERIOD
  MinThreshold, MaxThreshold           \* MIN_PROPOSAL_THRESHOLD, MAX_PROPOSAL_THRESHOLD

ASSUME LimitsAssumption ==
  /\ MinDelay \in Nat \ {0} /\ MaxDelay \in Nat
  /\ MinVotingDelay \in Nat \ {0} /\ MaxVotingDelay \in Nat
  /\ MinVotingPeriod \in Nat \ {0} /\ MaxVotingPeriod \in Nat
  /\ MinThreshold \in Nat /\ MaxThreshold \in Nat

\* Addresses, as the numbers a call carries.
Nobody == 0        \* address(0)
TheDelegate == 1   \* PACTDelegate
Successor == 2     \* a later governor

\* Tokens, as the numbers a call carries.
NoToken == 0
SPACTCode == 1
PACTCode == 2

TimelockSettings == {"delay", "pendingAdmin"}
DelegateSettings ==
  {"votingDelay", "votingPeriod", "proposalThreshold", "quorumVotes", "releaseToken"}
Settings == TimelockSettings \cup DelegateSettings

Configs == [Settings -> Nat]
Calls == [setting : Settings \cup {"external"}, value : Nat]

\* The requires of the setter a call reaches, under the settings in force.
Acceptable(call, cfg) ==
  /\ call.setting = "delay" => call.value \in MinDelay..MaxDelay
  /\ call.setting = "votingDelay" => call.value \in MinVotingDelay..MaxVotingDelay
  /\ call.setting = "votingPeriod" => call.value \in MinVotingPeriod..MaxVotingPeriod
  /\ call.setting = "proposalThreshold" => call.value \in MinThreshold..MaxThreshold
  /\ call.setting = "quorumVotes" => call.value >= cfg["proposalThreshold"]
  /\ call.setting = "releaseToken" => call.value # PACTCode

\* The positions of the last call of calls[1..n] to set s: one or none.
LastSet(calls, n, s) ==
  {i \in 1..n : calls[i].setting = s /\ \A j \in (i + 1)..n : calls[j].setting # s}

\* The settings after the first n calls.
After(calls, n, cfg) ==
  [s \in Settings |->
     IF LastSet(calls, n, s) = {} THEN cfg[s]
     ELSE calls[CHOOSE i \in LastSet(calls, n, s) : TRUE].value]

\* Every call of the list is accepted when its turn comes.
AllAccepted(calls, cfg) ==
  \A i \in 1..Len(calls) : Acceptable(calls[i], After(calls, i - 1, cfg))
=============================================================================
