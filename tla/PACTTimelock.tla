---------------------------- MODULE PACTTimelock -----------------------------
(***************************************************************************)
(* The timelock (contracts/governor/PACTTimelock.sol).  Its admin queues,    *)
(* cancels and executes calls; a call is known by its content and its eta.   *)
(* The admin is a contract that handles the calls of a proposal in one       *)
(* transaction, hence the lists of calls.                                    *)
(***************************************************************************)
EXTENDS GovernedSettings

CONSTANTS
  GracePeriod,    \* GRACE_PERIOD
  InitialConfig,  \* the settings after deployment
  CallLists,      \* bound of the model: the lists of calls that are handled together
  Etas,           \* bound of the model: the etas calls are queued for
  TimeSteps,      \* bound of the model: how far the timestamp advances at once
  MaxTime         \* bound of the model: the last timestamp

ASSUME TimelockAssumption ==
  /\ GracePeriod \in Nat
  /\ InitialConfig \in Configs
  /\ InitialConfig["delay"] \in MinDelay..MaxDelay
  /\ CallLists \subseteq Seq(Calls) \ {<< >>}
  /\ Etas \subseteq Nat
  /\ TimeSteps \subseteq Nat \ {0}
  /\ MaxTime \in Nat

VARIABLES
  timestamp,  \* block.timestamp
  admin,      \* who may queue, cancel and execute
  config,     \* the settings of GovernedSettings, pendingAdmin and delay among them
  queued,     \* queuedTransactions: the queued [call, eta]
  announced,  \* history: every [call, eta, at] that was queued, with the time
  performed   \* history: the sequence of [call, eta, at] that were executed

timelockVars == <<timestamp, admin, config, queued, announced, performed>>

Admins == {TheDelegate, Successor}

Entries(calls, eta) == {[call |-> calls[i], eta |-> eta] : i \in 1..Len(calls)}
Distinct(calls) == \A i, j \in 1..Len(calls) : calls[i] = calls[j] => i = j

TimelockTypeOK ==
  /\ timestamp \in Nat
  /\ admin \in Admins
  /\ config \in Configs /\ config["delay"] \in MinDelay..MaxDelay
  /\ queued \subseteq [call : Calls, eta : Nat]
  /\ announced \subseteq [call : Calls, eta : Nat, at : Nat]
  /\ performed \in Seq([call : Calls, eta : Nat, at : Nat])

TimelockInit ==
  /\ timestamp = 1
  /\ admin = TheDelegate
  /\ config = InitialConfig
  /\ queued = {}
  /\ announced = {}
  /\ performed = << >>

QueueTransactions(caller, calls, eta) ==
  /\ caller = admin
  /\ eta >= timestamp + config["delay"]
  /\ queued' = queued \cup Entries(calls, eta)
  /\ announced' = announced \cup
       {[call |-> calls[i], eta |-> eta, at |-> timestamp] : i \in 1..Len(calls)}
  /\ UNCHANGED <<timestamp, admin, config, performed>>

CancelTransactions(caller, calls, eta) ==
  /\ caller = admin
  /\ queued' = queued \ Entries(calls, eta)
  /\ UNCHANGED <<timestamp, admin, config, announced, performed>>

\* Mutants: the calls stay queued; they are executed before their eta.
ExecuteKeepsQueue(caller, calls, eta) ==
  /\ caller = admin
  /\ Distinct(calls) /\ Entries(calls, eta) \subseteq queued
  /\ timestamp >= eta
  /\ timestamp <= eta + GracePeriod
  /\ AllAccepted(calls, config)
  /\ config' = After(calls, Len(calls), config)
  /\ performed' = performed \o
       [i \in 1..Len(calls) |-> [call |-> calls[i], eta |-> eta, at |-> timestamp]]
  /\ UNCHANGED <<timestamp, admin, queued, announced>>
ExecuteEarly(caller, calls, eta) ==
  /\ caller = admin
  /\ Distinct(calls) /\ Entries(calls, eta) \subseteq queued
  /\ timestamp <= eta + GracePeriod
  /\ AllAccepted(calls, config)
  /\ queued' = queued \ Entries(calls, eta)
  /\ config' = After(calls, Len(calls), config)
  /\ performed' = performed \o
       [i \in 1..Len(calls) |-> [call |-> calls[i], eta |-> eta, at |-> timestamp]]
  /\ UNCHANGED <<timestamp, admin, announced>>

\* Each call must be queued when its turn comes, so none may come twice; any
\* call that fails reverts them all.
ExecuteTransactions(caller, calls, eta) ==
  /\ caller = admin
  /\ Distinct(calls) /\ Entries(calls, eta) \subseteq queued
  /\ timestamp >= eta
  /\ timestamp <= eta + GracePeriod
  /\ AllAccepted(calls, config)
  /\ queued' = queued \ Entries(calls, eta)
  /\ config' = After(calls, Len(calls), config)
  /\ performed' = performed \o
       [i \in 1..Len(calls) |-> [call |-> calls[i], eta |-> eta, at |-> timestamp]]
  /\ UNCHANGED <<timestamp, admin, announced>>

\* setDelay and setPendingAdmin are reached by executing a call to the timelock
\* itself; acceptAdmin completes the handover.
AcceptAdmin(caller) ==
  /\ caller = config["pendingAdmin"]
  /\ admin' = caller
  /\ config' = [config EXCEPT !["pendingAdmin"] = Nobody]
  /\ UNCHANGED <<timestamp, queued, announced, performed>>

TimePasses ==
  /\ \E dt \in TimeSteps : timestamp' = timestamp + dt
  /\ timestamp' <= MaxTime
  /\ UNCHANGED <<admin, config, queued, announced, performed>>

TimelockNext ==
  \/ \E caller \in Admins, calls \in CallLists, eta \in Etas :
        \/ QueueTransactions(caller, calls, eta)
        \/ CancelTransactions(caller, calls, eta)
        \/ ExecuteTransactions(caller, calls, eta)
  \/ \E caller \in Admins : AcceptAdmin(caller)
  \/ TimePasses

TimelockSpec == TimelockInit /\ [][TimelockNext]_timelockVars

(***************************************************************************)
(* Properties.                                                              *)
(***************************************************************************)

\* A call is executed at most once for its eta, although a queued flag can be
\* set again after it was cleared.
PerformedOnce ==
  \A i, j \in 1..Len(performed) :
     performed[i].call = performed[j].call /\ performed[i].eta = performed[j].eta => i = j

\* What is executed was announced, and never less than MINIMUM_DELAY earlier,
\* however the delay was changed in between.
MinimumNotice ==
  \A i \in 1..Len(performed) :
     LET announcements == {a \in announced : a.call = performed[i].call
                                             /\ a.eta = performed[i].eta}
     IN  /\ announcements # {}
         /\ \A a \in announcements : performed[i].at >= a.at + MinDelay
=============================================================================
