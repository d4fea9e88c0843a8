-------------------------- MODULE PACTDelegateProofs -------------------------
(***************************************************************************)
(* What the timelock and the governor that is its admin guarantee for every *)
(* list of calls, every number of voters and proposals, every supply, every *)
(* delay and period within its limits, and every order of its operations.   *)
(*                                                                          *)
(* None of the properties is inductive alone.  "One live proposal" needs    *)
(* that latestProposalIds names the last proposal of its proposer and that  *)
(* the earlier ones are over; the timelock properties need that the steps   *)
(* of the governor are steps of the timelock's admin; that a queued call is *)
(* owned needs that an eta is given once and only after the vote.           *)
(***************************************************************************)
EXTENDS PACTDelegate, SumTheorems, SequenceTheorems, TLAPS

(***************************************************************************)
(* The timelock, whoever its admin is.                                      *)
(*                                                                          *)
(* PerformedOnce is not inductive: it needs that what was performed is no   *)
(* longer queued, which holds because it cannot be queued again: its eta is *)
(* past, and a new eta lies ahead by a delay that is never 0.               *)
(***************************************************************************)

QueuedAnnounced ==
  \A q \in queued : \E a \in announced : a.call = q.call /\ a.eta = q.eta

NoticeGiven == \A a \in announced : a.eta >= a.at + MinDelay

PerformedAnnounced ==
  \A i \in 1..Len(performed) :
     \E a \in announced : a.call = performed[i].call /\ a.eta = performed[i].eta

PerformedInTime ==
  \A i \in 1..Len(performed) :
     performed[i].eta <= performed[i].at /\ performed[i].at <= timestamp

PerformedNotQueued ==
  \A i \in 1..Len(performed), q \in queued :
     ~(q.call = performed[i].call /\ q.eta = performed[i].eta)

TimelockIInv ==
  /\ TimelockTypeOK
  /\ QueuedAnnounced
  /\ NoticeGiven
  /\ PerformedAnnounced
  /\ PerformedInTime
  /\ PerformedNotQueued
  /\ PerformedOnce

\* Any step of any admin: with any list of calls and any eta.
AnyTimelockStep ==
  \/ \E caller \in Admins, calls \in Seq(Calls), eta \in Nat :
        \/ QueueTransactions(caller, calls, eta)
        \/ CancelTransactions(caller, calls, eta)
        \/ ExecuteTransactions(caller, calls, eta)
  \/ \E caller \in Admins : AcceptAdmin(caller)
  \/ TimePasses

(***************************************************************************)
(* Lists of calls.                                                          *)
(***************************************************************************)

LEMMA CallsTyped ==
  ASSUME NEW calls \in Seq(Calls)
  PROVE  /\ Len(calls) \in Nat
         /\ \A i \in 1..Len(calls) : calls[i] \in Calls
  BY ElementOfSeq

\* What an accepted list of calls leaves behind is a configuration again, and
\* its delay is within the limits of the timelock.
LEMMA AfterTyped ==
  ASSUME NEW calls \in Seq(Calls), NEW cfg \in Configs,
         cfg["delay"] \in MinDelay..MaxDelay,
         AllAccepted(calls, cfg)
  PROVE  /\ After(calls, Len(calls), cfg) \in Configs
         /\ After(calls, Len(calls), cfg)["delay"] \in MinDelay..MaxDelay
<1> DEFINE last(s) == CHOOSE i \in LastSet(calls, Len(calls), s) : TRUE
<1>1. \A i \in 1..Len(calls) : calls[i] \in Calls
  BY CallsTyped
<1>2. ASSUME NEW s \in Settings, LastSet(calls, Len(calls), s) # {}
      PROVE  /\ last(s) \in 1..Len(calls)
             /\ calls[last(s)].setting = s
             /\ calls[last(s)].value \in Nat
  <2>1. last(s) \in LastSet(calls, Len(calls), s)
    BY <1>2
  <2>2. last(s) \in 1..Len(calls) /\ calls[last(s)].setting = s
    BY <2>1 DEF LastSet
  <2>3. QED
    BY <1>1, <2>2 DEF Calls
<1>3. After(calls, Len(calls), cfg) \in Configs
  <2>1. ASSUME NEW s \in Settings
        PROVE  (IF LastSet(calls, Len(calls), s) = {} THEN cfg[s] ELSE calls[last(s)].value) \in Nat
    BY <1>2, <2>1 DEF Configs
  <2>2. QED
    BY <2>1 DEF After, Configs
<1>4. After(calls, Len(calls), cfg)["delay"] \in MinDelay..MaxDelay
  <2>1. "delay" \in Settings
    BY DEF Settings, TimelockSettings
  <2>2. CASE LastSet(calls, Len(calls), "delay") = {}
    BY <2>1, <2>2 DEF After
  <2>3. CASE LastSet(calls, Len(calls), "delay") # {}
    <3>1. last("delay") \in 1..Len(calls) /\ calls[last("delay")].setting = "delay"
      BY <1>2, <2>1, <2>3
    <3>2. calls[last("delay")].value \in MinDelay..MaxDelay
      BY <3>1 DEF AllAccepted, Acceptable
    <3>3. QED
      BY <2>1, <2>3, <3>2 DEF After
  <2>4. QED
    BY <2>2, <2>3
<1>5. QED
  BY <1>3, <1>4

\* The entries of a list of calls, one by one.
LEMMA EntriesTyped ==
  ASSUME NEW calls \in Seq(Calls), NEW eta \in Nat
  PROVE  /\ Entries(calls, eta) \subseteq [call : Calls, eta : Nat]
         /\ \A q \in Entries(calls, eta) : q.eta = eta /\ \E i \in 1..Len(calls) : q.call = calls[i]
         /\ \A i \in 1..Len(calls) : [call |-> calls[i], eta |-> eta] \in Entries(calls, eta)
<1>1. \A i \in 1..Len(calls) : calls[i] \in Calls
  BY CallsTyped
<1>2. QED
  BY <1>1 DEF Entries

(***************************************************************************)
(* Each step keeps the invariant.                                           *)
(***************************************************************************)

\* What is queued now was not performed before: its eta is ahead.
LEMMA QueueKeepsIInv ==
  ASSUME TimelockIInv, NEW caller, NEW calls \in Seq(Calls), NEW eta \in Nat,
         QueueTransactions(caller, calls, eta)
  PROVE  TimelockIInv'
<1> USE DEF TimelockIInv
<1> DEFINE new == {[call |-> calls[i], eta |-> eta, at |-> timestamp] : i \in 1..Len(calls)}
<1>1. /\ queued' = queued \cup Entries(calls, eta)
      /\ announced' = announced \cup new
      /\ eta >= timestamp + config["delay"]
      /\ UNCHANGED <<timestamp, admin, config, performed>>
  BY DEF QueueTransactions
<1>2. /\ Entries(calls, eta) \subseteq [call : Calls, eta : Nat]
      /\ \A q \in Entries(calls, eta) : q.eta = eta /\ \E i \in 1..Len(calls) : q.call = calls[i]
  BY EntriesTyped
<1>3. timestamp \in Nat /\ eta >= timestamp + MinDelay /\ eta > timestamp
  BY <1>1, LimitsAssumption DEF TimelockTypeOK
<1>4. TimelockTypeOK'
  <2>1. new \subseteq [call : Calls, eta : Nat, at : Nat]
    BY <1>3, CallsTyped
  <2>2. QED
    BY <1>1, <1>2, <2>1 DEF TimelockTypeOK
<1>5. QueuedAnnounced'
  <2>1. ASSUME NEW q \in Entries(calls, eta)
        PROVE  \E a \in new : a.call = q.call /\ a.eta = q.eta
    <3>1. PICK i \in 1..Len(calls) : q.call = calls[i] /\ q.eta = eta
      BY <1>2
    <3> DEFINE a == [call |-> calls[i], eta |-> eta, at |-> timestamp]
    <3>2. a \in new
      OBVIOUS
    <3>3. a.call = q.call /\ a.eta = q.eta
      BY <3>1
    <3>4. QED
      BY <3>2, <3>3
  <2>2. QED
    BY <1>1, <2>1 DEF QueuedAnnounced
<1>6. NoticeGiven'
  <2>1. \A a \in new : a.eta >= a.at + MinDelay
    BY <1>3
  <2>2. QED
    BY <1>1, <2>1 DEF NoticeGiven
<1>7. PerformedAnnounced'
  BY <1>1 DEF PerformedAnnounced
<1>8. PerformedInTime'
  BY <1>1 DEF PerformedInTime
<1>9. PerformedNotQueued'
  <2>1. ASSUME NEW i \in 1..Len(performed), NEW q \in Entries(calls, eta)
        PROVE  q.eta # performed[i].eta
    <3>1. performed[i] \in [call : Calls, eta : Nat, at : Nat]
      BY ElementOfSeq DEF TimelockTypeOK
    <3>2. performed[i].eta <= timestamp
      BY <1>3, <3>1 DEF PerformedInTime
    <3>3. QED
      BY <1>2, <1>3, <3>1, <3>2
  <2>2. QED
    BY <1>1, <2>1 DEF PerformedNotQueued
<1>10. PerformedOnce'
  BY <1>1 DEF PerformedOnce
<1>11. QED
  BY <1>4, <1>5, <1>6, <1>7, <1>8, <1>9, <1>10

LEMMA CancelKeepsIInv ==
  ASSUME TimelockIInv, NEW caller, NEW calls, NEW eta,
         CancelTransactions(caller, calls, eta)
  PROVE  TimelockIInv'
  BY DEF TimelockIInv, CancelTransactions, TimelockTypeOK, QueuedAnnounced, NoticeGiven,
     PerformedAnnounced, PerformedInTime, PerformedNotQueued, PerformedOnce

LEMMA AcceptAdminKeepsIInv ==
  ASSUME TimelockIInv, NEW caller \in Admins, AcceptAdmin(caller)
  PROVE  TimelockIInv'
<1>1. config' \in Configs /\ config'["delay"] \in MinDelay..MaxDelay
  BY DEF TimelockIInv, TimelockTypeOK, AcceptAdmin, Configs, Settings, TimelockSettings, Nobody
<1>2. QED
  BY <1>1 DEF TimelockIInv, AcceptAdmin, TimelockTypeOK, QueuedAnnounced, NoticeGiven,
     PerformedAnnounced, PerformedInTime, PerformedNotQueued, PerformedOnce

LEMMA TimePassesKeepsIInv ==
  ASSUME TimelockIInv, TimePasses
  PROVE  TimelockIInv'
<1>1. timestamp \in Nat /\ timestamp' \in Nat /\ timestamp <= timestamp'
  BY TimelockAssumption DEF TimelockIInv, TimelockTypeOK, TimePasses
<1>2. PerformedInTime'
  <2>1. \A i \in 1..Len(performed) : performed[i] \in [call : Calls, eta : Nat, at : Nat]
    BY ElementOfSeq DEF TimelockIInv, TimelockTypeOK
  <2>2. QED
    BY <1>1, <2>1 DEF TimelockIInv, TimePasses, PerformedInTime
<1>3. QED
  BY <1>1, <1>2 DEF TimelockIInv, TimePasses, TimelockTypeOK, QueuedAnnounced, NoticeGiven,
     PerformedAnnounced, PerformedNotQueued, PerformedOnce

\* The calls that are performed leave the queue, and were not performed before.
LEMMA ExecuteKeepsIInv ==
  ASSUME TimelockIInv, NEW caller, NEW calls \in Seq(Calls), NEW eta \in Nat,
         ExecuteTransactions(caller, calls, eta)
  PROVE  TimelockIInv'
<1> USE DEF TimelockIInv
<1> DEFINE Records == [call : Calls, eta : Nat, at : Nat]
           n == Len(performed)
           new == [i \in 1..Len(calls) |-> [call |-> calls[i], eta |-> eta, at |-> timestamp]]
<1>1. /\ Distinct(calls) /\ Entries(calls, eta) \subseteq queued
      /\ eta <= timestamp
      /\ AllAccepted(calls, config)
      /\ queued' = queued \ Entries(calls, eta)
      /\ config' = After(calls, Len(calls), config)
      /\ performed' = performed \o new
      /\ UNCHANGED <<timestamp, admin, announced>>
  BY TimelockAssumption DEF ExecuteTransactions, TimelockTypeOK
<1>2. /\ Len(calls) \in Nat
      /\ \A i \in 1..Len(calls) : calls[i] \in Calls
  BY CallsTyped
<1>3. \A i \in 1..Len(calls) : [call |-> calls[i], eta |-> eta] \in Entries(calls, eta)
  BY EntriesTyped
<1>4. timestamp \in Nat /\ performed \in Seq(Records) /\ n \in Nat
  BY DEF TimelockTypeOK
<1>5. new \in Seq(Records) /\ Len(new) = Len(calls)
  BY <1>2, <1>4
<1>6. /\ performed' \in Seq(Records)
      /\ Len(performed') = n + Len(calls)
      /\ \A i \in 1..n : performed'[i] = performed[i]
      /\ \A i \in 1..Len(calls) :
            performed'[n + i] = [call |-> calls[i], eta |-> eta, at |-> timestamp]
  <2>1. /\ performed' \in Seq(Records)
        /\ Len(performed') = n + Len(calls)
        /\ \A i \in 1..(n + Len(calls)) :
              performed'[i] = IF i <= n THEN performed[i] ELSE new[i - n]
    BY <1>1, <1>4, <1>5, ConcatProperties
  <2>2. \A i \in 1..n : i \in 1..(n + Len(calls)) /\ i <= n
    BY <1>2, <1>4
  <2>3. ASSUME NEW i \in 1..Len(calls)
        PROVE  performed'[n + i] = [call |-> calls[i], eta |-> eta, at |-> timestamp]
    <3>1. n + i \in 1..(n + Len(calls)) /\ ~(n + i <= n) /\ (n + i) - n = i
      BY <1>2, <1>4
    <3>2. performed'[n + i] = new[i]
      BY <2>1, <3>1
    <3>3. QED
      BY <3>2
  <2>4. QED
    BY <2>1, <2>2, <2>3
<1> HIDE DEF new, Records, n
\* Every record of performed' is an old one or one of this step.
<1>7. ASSUME NEW i \in 1..Len(performed')
      PROVE  \/ i \in 1..n /\ performed'[i] = performed[i]
             \/ \E k \in 1..Len(calls) :
                   /\ i = n + k
                   /\ performed'[i] = [call |-> calls[k], eta |-> eta, at |-> timestamp]
  <2>1. CASE i <= n
    BY <2>1, <1>4, <1>6
  <2>2. CASE i > n
    <3>1. i - n \in 1..Len(calls) /\ i = n + (i - n)
      BY <2>2, <1>2, <1>4, <1>6
    <3>2. QED
      BY <3>1, <1>6
  <2>3. QED
    BY <2>1, <2>2, <1>2, <1>4, <1>6
\* A call of this step was not performed before.
<1>8. ASSUME NEW i \in 1..n, NEW k \in 1..Len(calls)
      PROVE  ~(performed[i].call = calls[k] /\ performed[i].eta = eta)
  BY <1>1, <1>3 DEF PerformedNotQueued, n
<1>9. TimelockTypeOK'
  <2>1. config' \in Configs /\ config'["delay"] \in MinDelay..MaxDelay
    BY <1>1, AfterTyped DEF TimelockTypeOK
  <2>2. QED
    BY <2>1, <1>1, <1>6 DEF TimelockTypeOK, Records
<1>10. QueuedAnnounced' /\ NoticeGiven'
  BY <1>1 DEF QueuedAnnounced, NoticeGiven
<1>11. PerformedAnnounced'
  <2>1. ASSUME NEW k \in 1..Len(calls)
        PROVE  \E a \in announced : a.call = calls[k] /\ a.eta = eta
    BY <1>1, <1>3 DEF QueuedAnnounced
  <2>2. ASSUME NEW i \in 1..Len(performed')
        PROVE  \E a \in announced : a.call = performed'[i].call /\ a.eta = performed'[i].eta
    <3>1. CASE i \in 1..n /\ performed'[i] = performed[i]
      BY <3>1 DEF PerformedAnnounced, n
    <3>2. CASE \E k \in 1..Len(calls) :
                 performed'[i] = [call |-> calls[k], eta |-> eta, at |-> timestamp]
      BY <2>1, <3>2
    <3>3. QED
      BY <1>7, <3>1, <3>2
  <2>3. QED
    BY <1>1, <2>2 DEF PerformedAnnounced
<1>12. PerformedInTime'
  <2>1. ASSUME NEW i \in 1..Len(performed')
        PROVE  performed'[i].eta <= performed'[i].at /\ performed'[i].at <= timestamp
    <3>1. CASE i \in 1..n /\ performed'[i] = performed[i]
      BY <3>1 DEF PerformedInTime, n
    <3>2. CASE \E k \in 1..Len(calls) :
                 performed'[i] = [call |-> calls[k], eta |-> eta, at |-> timestamp]
      BY <1>1, <1>4, <3>2
    <3>3. QED
      BY <1>7, <3>1, <3>2
  <2>2. QED
    BY <1>1, <2>1 DEF PerformedInTime
<1>13. PerformedNotQueued'
  <2>1. ASSUME NEW i \in 1..Len(performed'), NEW q \in queued',
               q.call = performed'[i].call, q.eta = performed'[i].eta
        PROVE  FALSE
    <3>1. q \in queued /\ q \notin Entries(calls, eta)
      BY <1>1
    <3>2. q = [call |-> q.call, eta |-> q.eta]
      BY <3>1 DEF TimelockTypeOK
    <3>3. CASE i \in 1..n /\ performed'[i] = performed[i]
      BY <3>1, <3>3, <2>1 DEF PerformedNotQueued, n
    <3>4. CASE \E k \in 1..Len(calls) :
                 performed'[i] = [call |-> calls[k], eta |-> eta, at |-> timestamp]
      BY <1>3, <2>1, <3>1, <3>2, <3>4
    <3>5. QED
      BY <1>7, <3>3, <3>4
  <2>2. QED
    BY <2>1 DEF PerformedNotQueued
<1>14. PerformedOnce'
  <2>1. ASSUME NEW i \in 1..Len(performed'), NEW j \in 1..Len(performed'),
               performed'[i].call = performed'[j].call,
               performed'[i].eta = performed'[j].eta
        PROVE  i = j
    <3>1. CASE i \in 1..n /\ j \in 1..n
      BY <1>6, <2>1, <3>1 DEF PerformedOnce, n
    <3>2. CASE i \in 1..n /\ j \notin 1..n
      <4>1. PICK k \in 1..Len(calls) : performed'[j] = [call |-> calls[k], eta |-> eta, at |-> timestamp]
        BY <1>7, <3>2
      <4>2. QED
        BY <4>1, <1>6, <1>8, <2>1, <3>2
    <3>3. CASE i \notin 1..n /\ j \in 1..n
      <4>1. PICK k \in 1..Len(calls) : performed'[i] = [call |-> calls[k], eta |-> eta, at |-> timestamp]
        BY <1>7, <3>3
      <4>2. QED
        BY <4>1, <1>6, <1>8, <2>1, <3>3
    <3>4. CASE i \notin 1..n /\ j \notin 1..n
      <4>1. PICK k \in 1..Len(calls) :
               i = n + k /\ performed'[i] = [call |-> calls[k], eta |-> eta, at |-> timestamp]
        BY <1>7, <3>4
      <4>2. PICK l \in 1..Len(calls) :
               j = n + l /\ performed'[j] = [call |-> calls[l], eta |-> eta, at |-> timestamp]
        BY <1>7, <3>4
      <4>3. k = l
        BY <4>1, <4>2, <1>1, <2>1 DEF Distinct
      <4>4. QED
        BY <4>1, <4>2, <4>3
    <3>5. QED
      BY <3>1, <3>2, <3>3, <3>4
  <2>2. QED
    BY <2>1 DEF PerformedOnce
<1>15. QED
  BY <1>9, <1>10, <1>11, <1>12, <1>13, <1>14

(***************************************************************************)
(* The theorems.                                                            *)
(***************************************************************************)

LEMMA TimelockStepKeepsIInv ==
  TimelockIInv /\ [AnyTimelockStep]_timelockVars => TimelockIInv'
<1> SUFFICES ASSUME TimelockIInv, [AnyTimelockStep]_timelockVars
             PROVE  TimelockIInv'
  OBVIOUS
<1>1. CASE \E caller \in Admins, calls \in Seq(Calls), eta \in Nat : QueueTransactions(caller, calls, eta)
  BY <1>1, QueueKeepsIInv
<1>2. CASE \E caller \in Admins, calls \in Seq(Calls), eta \in Nat : CancelTransactions(caller, calls, eta)
  BY <1>2, CancelKeepsIInv
<1>3. CASE \E caller \in Admins, calls \in Seq(Calls), eta \in Nat : ExecuteTransactions(caller, calls, eta)
  BY <1>3, ExecuteKeepsIInv
<1>4. CASE \E caller \in Admins : AcceptAdmin(caller)
  BY <1>4, AcceptAdminKeepsIInv
<1>5. CASE TimePasses
  BY <1>5, TimePassesKeepsIInv
<1>6. CASE UNCHANGED timelockVars
  BY <1>6 DEF timelockVars, TimelockIInv, TimelockTypeOK, QueuedAnnounced, NoticeGiven,
     PerformedAnnounced, PerformedInTime, PerformedNotQueued, PerformedOnce
<1>7. QED
  BY <1>1, <1>2, <1>3, <1>4, <1>5, <1>6 DEF AnyTimelockStep

LEMMA TimelockInitIInv == TimelockInit => TimelockIInv
<1> SUFFICES ASSUME TimelockInit PROVE TimelockIInv
  OBVIOUS
<1>1. Len(performed) = 0 /\ performed \in Seq([call : Calls, eta : Nat, at : Nat])
  BY DEF TimelockInit
<1>2. QED
  BY <1>1, TimelockAssumption DEF TimelockInit, TimelockIInv, TimelockTypeOK, Admins,
     QueuedAnnounced, NoticeGiven, PerformedAnnounced, PerformedInTime, PerformedNotQueued,
     PerformedOnce

LEMMA InvariantGivesNotice == TimelockIInv => MinimumNotice
<1> SUFFICES ASSUME TimelockIInv, NEW i \in 1..Len(performed)
             PROVE  LET announcements == {a \in announced : a.call = performed[i].call
                                                             /\ a.eta = performed[i].eta}
                    IN  /\ announcements # {}
                        /\ \A a \in announcements : performed[i].at >= a.at + MinDelay
  BY DEF MinimumNotice
<1>1. performed[i] \in [call : Calls, eta : Nat, at : Nat]
  BY ElementOfSeq DEF TimelockIInv, TimelockTypeOK
<1>2. performed[i].eta <= performed[i].at
  BY DEF TimelockIInv, PerformedInTime
<1>3. \A a \in announced : a.at \in Nat /\ a.eta \in Nat /\ a.eta >= a.at + MinDelay
  BY DEF TimelockIInv, TimelockTypeOK, NoticeGiven
<1>4. \E a \in announced : a.call = performed[i].call /\ a.eta = performed[i].eta
  BY DEF TimelockIInv, PerformedAnnounced
<1>5. ASSUME NEW a \in announced, a.eta = performed[i].eta
      PROVE  performed[i].at >= a.at + MinDelay
  BY <1>1, <1>2, <1>3, <1>5, LimitsAssumption
<1>6. QED
  BY <1>4, <1>5

LEMMA TimelockInvariant == TimelockSpec => []TimelockIInv
<1>1. [TimelockNext]_timelockVars => [AnyTimelockStep]_timelockVars
  BY TimelockAssumption DEF TimelockNext, AnyTimelockStep
<1>2. QED
  BY <1>1, TimelockInitIInv, TimelockStepKeepsIInv, PTL DEF TimelockSpec

\* The timelock's settings keep their types, and the delay its limits, whatever
\* the admin's calls set.
THEOREM TimelockTyped == TimelockSpec => []TimelockTypeOK
<1>1. TimelockIInv => TimelockTypeOK
  BY DEF TimelockIInv
<1>2. QED
  BY <1>1, TimelockInvariant, PTL

\* No call is executed twice for one eta.
THEOREM TimelockPerformsOnce == TimelockSpec => []PerformedOnce
<1>1. TimelockIInv => PerformedOnce
  BY DEF TimelockIInv
<1>2. QED
  BY <1>1, TimelockInvariant, PTL

\* Nothing is executed that was not announced MINIMUM_DELAY before.
THEOREM TimelockGivesNotice == TimelockSpec => []MinimumNotice
  BY InvariantGivesNotice, TimelockInvariant, PTL

(***************************************************************************)
(* The governor.                                                            *)
(***************************************************************************)

\* The proposals made so far: their calls, and the order of vote, queueing and
\* execution.
ProposalsInOrder ==
  \A id \in Created :
     /\ proposals[id].proposer \in Voters
     /\ proposals[id].calls \in CallLists
     /\ proposals[id].startBlock < proposals[id].endBlock
     /\ proposals[id].eta # 0 => proposals[id].endBlock < block
     /\ proposals[id].executed => proposals[id].eta # 0

\* latestProposalIds is the last proposal of its proposer; the others are over.
LatestIsLast ==
  /\ \A v \in Voters : latestProposalIds[v] < proposalCount
  /\ \A id \in Created : \A v \in Voters :
        proposals[id].proposer = v =>
          /\ id <= latestProposalIds[v]
          /\ id < latestProposalIds[v] =>
               proposals[id].canceled \/ proposals[id].endBlock < block

PeriodInLimits == config["votingPeriod"] \in MinVotingPeriod..MaxVotingPeriod

DelegateIInv ==
  /\ TypeOK
  /\ TimelockIInv
  /\ ProposalsInOrder
  /\ LatestIsLast
  /\ PeriodInLimits
  /\ QueuedCallsOwned

(***************************************************************************)
(* What the invariant says about one proposal, and about prior votes.       *)
(***************************************************************************)

LEMMA CreatedTyped ==
  ASSUME TypeOK
  PROVE  /\ proposalCount \in Nat
         /\ Created \subseteq Ids
         /\ \A id \in Created : id \in Nat /\ id # 0 /\ id < proposalCount
         /\ \A id \in Ids : proposals[id] \in Proposal
  BY DelegateAssumption DEF TypeOK, Created, Ids

LEMMA ProposalTyped ==
  ASSUME TypeOK, NEW id \in Ids
  PROVE  /\ proposals[id] \in Proposal
         /\ proposals[id].calls \in Seq(Calls)
         /\ proposals[id].eta \in Nat
         /\ proposals[id].startBlock \in Nat
         /\ proposals[id].endBlock \in Nat
         /\ proposals[id].forVotes \in Nat
         /\ proposals[id].againstVotes \in Nat
         /\ proposals[id].abstainVotes \in Nat
         /\ proposals[id].canceled \in BOOLEAN
         /\ proposals[id].executed \in BOOLEAN
  BY DEF TypeOK, Proposal

LEMMA ConfigTyped ==
  ASSUME TypeOK, NEW s \in Settings
  PROVE  config[s] \in Nat
  BY DEF TypeOK, TimelockTypeOK, Configs

\* The votes held at the end of an earlier block.
LEMMA PriorVotesTyped ==
  ASSUME TypeOK, NEW v \in Voters, NEW b \in Nat, b < block
  PROVE  PriorVotes(v, b) \in Nat
<1>1. block \in Nat /\ past \in [1..(block - 1) -> Distributions]
  BY MaxBlockAssumption DEF TypeOK, LedgerTypeOK
<1>2. ASSUME NEW t \in Tokens
      PROVE  PriorVotesOf(t, v, b) \in Nat
  <2>1. CASE b = 0
    BY <2>1 DEF PriorVotesOf
  <2>2. CASE b # 0
    <3>1. b \in 1..(block - 1)
      BY <1>1, <2>2
    <3>2. past[b] \in [Tokens -> [Voters -> 0..Supply]]
      BY <1>1, <3>1 DEF Distributions
    <3>3. past[b][t][v] \in 0..Supply
      BY <3>2
    <3>4. QED
      BY <2>2, <3>3, SupplyAssumption DEF PriorVotesOf
  <2>3. QED
    BY <2>1, <2>2
<1>3. PriorVotesOf("PACT", v, b) \in Nat /\ PriorVotesOf("SPACT", v, b) \in Nat
  BY <1>2, DelegateAssumption
<1>4. QED
  BY <1>3 DEF PriorVotes

(***************************************************************************)
(* The steps of the governor as steps of the timelock.                      *)
(***************************************************************************)

LEMMA StepIsTimelockStep ==
  ASSUME TypeOK, [Next]_vars
  PROVE  [AnyTimelockStep]_timelockVars
<1>1. ASSUME NEW id \in Created
      PROVE  /\ proposals[id].calls \in Seq(Calls)
             /\ proposals[id].eta \in Nat
             /\ timestamp + config["delay"] \in Nat
  <2>1. timestamp \in Nat /\ config["delay"] \in Nat
    BY ConfigTyped DEF TypeOK, TimelockTypeOK, Settings, TimelockSettings
  <2>2. QED
    BY <2>1, CreatedTyped, ProposalTyped
<1>2. TheDelegate \in Admins /\ Successor \in Admins
  BY DEF Admins
<1>3. ASSUME NEW v \in Voters, NEW calls \in CallLists, Propose(v, calls)
      PROVE  UNCHANGED timelockVars
  BY <1>3 DEF Propose
<1>4. ASSUME NEW v \in Voters, NEW id \in Created, NEW s \in {Against, For, Abstain},
             CastVote(v, id, s)
      PROVE  UNCHANGED timelockVars
  BY <1>4 DEF CastVote
<1>5. ASSUME NEW id \in Created, Queue(id)
      PROVE  AnyTimelockStep
  BY <1>1, <1>2, <1>5 DEF Queue, AnyTimelockStep
<1>6. ASSUME NEW id \in Created, Execute(id)
      PROVE  AnyTimelockStep
  BY <1>1, <1>2, <1>6 DEF Execute, AnyTimelockStep
<1>7. ASSUME NEW v \in Voters, NEW id \in Created, Cancel(v, id)
      PROVE  AnyTimelockStep
  BY <1>1, <1>2, <1>7 DEF Cancel, AnyTimelockStep
<1>8. CASE MoveVotes
  BY <1>8 DEF MoveVotes
<1>9. CASE ProduceBlock
  BY <1>9 DEF ProduceBlock, AnyTimelockStep
<1>10. CASE HandOverTimelock
  BY <1>2, <1>10 DEF HandOverTimelock, AnyTimelockStep
<1>11. ASSUME NEW calls \in CallLists, NEW eta \in Etas, SuccessorUsesTimelock(calls, eta)
       PROVE  AnyTimelockStep
  BY <1>2, <1>11, TimelockAssumption DEF SuccessorUsesTimelock, AnyTimelockStep
<1>12. CASE UNCHANGED vars
  BY <1>12 DEF vars
<1>13. QED
  BY <1>3, <1>4, <1>5, <1>6, <1>7, <1>8, <1>9, <1>10, <1>11, <1>12 DEF Next

(***************************************************************************)
(* What each operation changes of the proposals.                            *)
(***************************************************************************)

\* The fields on which the invariants below depend.
SameBut(id, field) ==
  \A p \in Ids :
     /\ proposals'[p].proposer = proposals[p].proposer
     /\ proposals'[p].calls = proposals[p].calls
     /\ proposals'[p].startBlock = proposals[p].startBlock
     /\ proposals'[p].endBlock = proposals[p].endBlock
     /\ (p = id /\ field = "eta") \/ proposals'[p].eta = proposals[p].eta
     /\ (p = id /\ field = "canceled") \/ proposals'[p].canceled = proposals[p].canceled
     /\ (p = id /\ field = "executed") \/ proposals'[p].executed = proposals[p].executed

LEMMA CastVoteEffect ==
  ASSUME TypeOK, NEW v \in Voters, NEW id \in Created, NEW s \in {Against, For, Abstain},
         CastVote(v, id, s)
  PROVE  /\ SameBut(id, "votes")
         /\ proposals' \in [Ids -> Proposal]
         /\ receipts' \in [Ids -> [Voters -> Receipt]]
<1> DEFINE n == PriorVotes(v, proposals[id].startBlock)
           p == proposals[id]
           against == IF s = Against THEN p.againstVotes + n ELSE p.againstVotes
           for == IF s = For THEN p.forVotes + n ELSE p.forVotes
           abstain == IF s = Abstain THEN p.abstainVotes + n ELSE p.abstainVotes
           q == [p EXCEPT !.againstVotes = against, !.forVotes = for, !.abstainVotes = abstain]
<1>1. id \in Ids /\ p \in Proposal /\ p.startBlock \in Nat
  BY CreatedTyped, ProposalTyped
<1>2. p.startBlock < block
  <2>1. ~(block <= p.startBlock)
    BY DEF CastVote, State
  <2>2. QED
    BY <1>1, <2>1 DEF TypeOK, LedgerTypeOK
<1>3. n \in Nat
  <2>1. PICK b \in Nat : b = p.startBlock
    BY <1>1
  <2>2. PriorVotes(v, b) \in Nat
    BY <1>2, <2>1, PriorVotesTyped
  <2>3. QED
    BY <2>1, <2>2
<1> HIDE DEF n
<1>4. /\ proposals' = [proposals EXCEPT ![id] = q]
      /\ receipts' = [receipts EXCEPT ![id][v] = [hasVoted |-> TRUE, support |-> s, votes |-> n]]
  BY DEF CastVote, n
<1>5. q \in Proposal
  <2>0. p.againstVotes \in Nat /\ p.forVotes \in Nat /\ p.abstainVotes \in Nat
    BY <1>1, ProposalTyped
  <2>1. against \in Nat /\ for \in Nat /\ abstain \in Nat
    BY <1>3, <2>0
  <2> HIDE DEF against, for, abstain
  <2>2. QED
    BY <1>1, <2>1 DEF Proposal
<1>6. /\ q.proposer = p.proposer /\ q.calls = p.calls /\ q.startBlock = p.startBlock
      /\ q.endBlock = p.endBlock /\ q.eta = p.eta /\ q.canceled = p.canceled
      /\ q.executed = p.executed
  BY <1>1 DEF Proposal
<1> HIDE DEF q
<1>7. proposals \in [Ids -> Proposal] /\ receipts \in [Ids -> [Voters -> Receipt]]
  BY DEF TypeOK
<1>8. SameBut(id, "votes") /\ proposals' \in [Ids -> Proposal]
  BY <1>1, <1>4, <1>5, <1>6, <1>7 DEF SameBut
<1>9. [hasVoted |-> TRUE, support |-> s, votes |-> n] \in Receipt
  BY <1>3 DEF Receipt
<1>10. receipts' \in [Ids -> [Voters -> Receipt]]
  BY <1>1, <1>4, <1>7, <1>9
<1>11. QED
  BY <1>8, <1>10

LEMMA QueueEffect ==
  ASSUME TypeOK, NEW id \in Created, Queue(id)
  PROVE  /\ SameBut(id, "eta")
         /\ proposals'[id].eta = timestamp + config["delay"]
         /\ proposals' \in [Ids -> Proposal]
<1> DEFINE p == proposals[id]
           eta == timestamp + config["delay"]
           q == [p EXCEPT !.eta = eta]
<1>1. id \in Ids /\ p \in Proposal /\ proposals \in [Ids -> Proposal]
  BY CreatedTyped DEF TypeOK
<1>2. eta \in Nat
  BY ConfigTyped DEF TypeOK, TimelockTypeOK, Settings, TimelockSettings
<1> HIDE DEF eta
<1>3. proposals' = [proposals EXCEPT ![id] = q]
  BY DEF Queue, eta
<1>4. /\ q \in Proposal
      /\ q.proposer = p.proposer /\ q.calls = p.calls /\ q.startBlock = p.startBlock
      /\ q.endBlock = p.endBlock /\ q.eta = eta /\ q.canceled = p.canceled
      /\ q.executed = p.executed
  BY <1>1, <1>2 DEF Proposal
<1> HIDE DEF q
<1>5. QED
  BY <1>1, <1>3, <1>4 DEF SameBut, eta

LEMMA ExecuteEffect ==
  ASSUME TypeOK, NEW id \in Created, Execute(id)
  PROVE  /\ SameBut(id, "executed")
         /\ proposals'[id].executed
         /\ proposals' \in [Ids -> Proposal]
<1> DEFINE p == proposals[id]
           q == [p EXCEPT !.executed = TRUE]
<1>1. id \in Ids /\ p \in Proposal /\ proposals \in [Ids -> Proposal]
  BY CreatedTyped DEF TypeOK
<1>2. proposals' = [proposals EXCEPT ![id] = q]
  BY DEF Execute
<1>3. /\ q \in Proposal
      /\ q.proposer = p.proposer /\ q.calls = p.calls /\ q.startBlock = p.startBlock
      /\ q.endBlock = p.endBlock /\ q.eta = p.eta /\ q.canceled = p.canceled
      /\ q.executed = TRUE
  BY <1>1 DEF Proposal
<1> HIDE DEF q
<1>4. QED
  BY <1>1, <1>2, <1>3 DEF SameBut

LEMMA CancelEffect ==
  ASSUME TypeOK, NEW v \in Voters, NEW id \in Created, Cancel(v, id)
  PROVE  /\ SameBut(id, "canceled")
         /\ proposals'[id].canceled
         /\ proposals' \in [Ids -> Proposal]
<1> DEFINE p == proposals[id]
           q == [p EXCEPT !.canceled = TRUE]
<1>1. id \in Ids /\ p \in Proposal /\ proposals \in [Ids -> Proposal]
  BY CreatedTyped DEF TypeOK
<1>2. proposals' = [proposals EXCEPT ![id] = q]
  BY DEF Cancel
<1>3. /\ q \in Proposal
      /\ q.proposer = p.proposer /\ q.calls = p.calls /\ q.startBlock = p.startBlock
      /\ q.endBlock = p.endBlock /\ q.eta = p.eta /\ q.executed = p.executed
      /\ q.canceled = TRUE
  BY <1>1 DEF Proposal
<1> HIDE DEF q
<1>4. QED
  BY <1>1, <1>2, <1>3 DEF SameBut

LEMMA ProposeEffect ==
  ASSUME TypeOK, PeriodInLimits, NEW v \in Voters, NEW calls \in CallLists, Propose(v, calls)
  PROVE  /\ proposalCount \in Ids
         /\ proposals' \in [Ids -> Proposal]
         /\ \A p \in Ids : p # proposalCount => proposals'[p] = proposals[p]
         /\ proposals'[proposalCount].proposer = v
         /\ proposals'[proposalCount].calls = calls
         /\ proposals'[proposalCount].startBlock < proposals'[proposalCount].endBlock
         /\ proposals'[proposalCount].eta = 0
         /\ proposals'[proposalCount].executed = FALSE
<1> DEFINE startBlock == block + config["votingDelay"]
           endBlock == startBlock + config["votingPeriod"]
           q == NewProposal(v, calls, startBlock, endBlock)
<1>1. proposalCount \in Ids /\ proposals \in [Ids -> Proposal]
  BY DEF Propose, TypeOK
<1>2. calls \in Seq(Calls)
  BY TimelockAssumption
<1>3. startBlock \in Nat /\ endBlock \in Nat /\ startBlock < endBlock
  <2>1. block \in Nat /\ config["votingDelay"] \in Nat
    BY ConfigTyped DEF TypeOK, LedgerTypeOK, Settings, DelegateSettings
  <2>2. config["votingPeriod"] \in Nat \ {0}
    BY LimitsAssumption DEF PeriodInLimits
  <2>3. QED
    BY <2>1, <2>2
<1>4. proposals' = [proposals EXCEPT ![proposalCount] = q]
  BY DEF Propose
<1> HIDE DEF startBlock, endBlock
<1>5. /\ q \in Proposal /\ q.proposer = v /\ q.calls = calls
      /\ q.startBlock = startBlock /\ q.endBlock = endBlock
      /\ q.eta = 0 /\ q.executed = FALSE
  BY <1>2, <1>3 DEF NewProposal, Proposal
<1> HIDE DEF q
<1>6. QED
  BY <1>1, <1>3, <1>4, <1>5

(***************************************************************************)
(* The steps at a glance: an operation of the governor, or a step that      *)
(* leaves its proposals alone.                                              *)
(***************************************************************************)

Operation ==
  \/ \E v \in Voters, calls \in CallLists : Propose(v, calls)
  \/ \E v \in Voters, id \in Created, s \in {Against, For, Abstain} : CastVote(v, id, s)
  \/ \E id \in Created : Queue(id)
  \/ \E id \in Created : Execute(id)
  \/ \E v \in Voters, id \in Created : Cancel(v, id)

LEMMA StepCases ==
  ASSUME TypeOK, [Next]_vars
  PROVE  /\ Operation \/ UNCHANGED delegateVars
         /\ Operation => UNCHANGED ledgerVars
         /\ block \in Nat /\ block' \in Nat /\ block <= block'
         /\ LedgerTypeOK'
<1>o. Operation => UNCHANGED ledgerVars
  <2>1. \A v \in Voters, calls \in CallLists : Propose(v, calls) => UNCHANGED ledgerVars
    BY DEF Propose
  <2>2. \A v \in Voters, id \in Created, s \in {Against, For, Abstain} :
          CastVote(v, id, s) => UNCHANGED ledgerVars
    BY DEF CastVote
  <2>3. \A id \in Created : Queue(id) \/ Execute(id) => UNCHANGED ledgerVars
    BY DEF Queue, Execute
  <2>4. \A v \in Voters, id \in Created : Cancel(v, id) => UNCHANGED ledgerVars
    BY DEF Cancel
  <2>5. QED
    BY <2>1, <2>2, <2>3, <2>4, Zenon DEF Operation
<1>1. CASE Operation
  <2>1. UNCHANGED ledgerVars
    BY <1>1, <1>o
  <2>2. QED
    BY <1>1, <2>1 DEF ledgerVars, TypeOK, LedgerTypeOK
<1>2. CASE MoveVotes
  <2>1. votes' \in Distributions /\ UNCHANGED <<block, past, delegateVars>>
    BY <1>2 DEF MoveVotes, ChangeVotes, Affordable
  <2>2. QED
    BY <2>1, <1>o DEF TypeOK, LedgerTypeOK
<1>3. CASE ProduceBlock
  <2>1. block \in Nat /\ block' = block + 1 /\ block' \in 1..MaxBlock
    BY <1>3, MaxBlockAssumption DEF ProduceBlock, NextBlock, TypeOK, LedgerTypeOK
  <2>2. past' \in [1..(block' - 1) -> Distributions]
    <3>1. past' = [b \in 1..block |-> IF b = block THEN votes ELSE past[b]]
      BY <1>3 DEF ProduceBlock, NextBlock
    <3>2. \A b \in 1..block : b # block => past[b] \in Distributions
      BY <2>1 DEF TypeOK, LedgerTypeOK
    <3>3. votes \in Distributions /\ block' - 1 = block
      BY <2>1 DEF TypeOK, LedgerTypeOK
    <3> HIDE DEF Distributions
    <3>4. QED
      BY <3>1, <3>2, <3>3
  <2>3. QED
    BY <1>3, <1>o, <2>1, <2>2 DEF ProduceBlock, NextBlock, TypeOK, LedgerTypeOK
<1>4. CASE HandOverTimelock
  BY <1>4, <1>o DEF HandOverTimelock, TypeOK, LedgerTypeOK, ledgerVars
<1>5. ASSUME NEW calls \in CallLists, NEW eta \in Etas, SuccessorUsesTimelock(calls, eta)
      PROVE  UNCHANGED <<ledgerVars, delegateVars>>
  BY <1>5 DEF SuccessorUsesTimelock
<1>6. CASE UNCHANGED <<ledgerVars, delegateVars>>
  BY <1>6, <1>o DEF TypeOK, LedgerTypeOK, ledgerVars
<1>7. UNCHANGED vars => UNCHANGED <<ledgerVars, delegateVars>>
  BY DEF vars
<1>8. QED
  BY <1>o, <1>1, <1>2, <1>3, <1>4, <1>5, <1>6, <1>7
     DEF Next, Operation, MoveVotes, ProduceBlock, HandOverTimelock

LEMMA StepKeepsType ==
  ASSUME TypeOK, TimelockIInv, PeriodInLimits, [Next]_vars
  PROVE  TypeOK'
<1>1. TimelockTypeOK'
  BY StepIsTimelockStep, TimelockStepKeepsIInv DEF TimelockIInv
<1>2. LedgerTypeOK'
  BY StepCases
<1>3. ASSUME NEW v \in Voters, NEW calls \in CallLists, Propose(v, calls)
      PROVE  TypeOK'
  <2>1. proposalCount' \in 1..(MaxProposals + 1) /\ latestProposalIds' \in [Voters -> Ids]
    BY <1>3, ProposeEffect, DelegateAssumption DEF Propose, TypeOK, Ids
  <2>2. receipts' \in [Ids -> [Voters -> Receipt]] /\ proposals' \in [Ids -> Proposal]
    BY <1>3, ProposeEffect DEF Propose, TypeOK
  <2>3. QED
    BY <1>1, <1>2, <2>1, <2>2 DEF TypeOK
<1>4. ASSUME NEW v \in Voters, NEW id \in Created, NEW s \in {Against, For, Abstain},
             CastVote(v, id, s)
      PROVE  TypeOK'
  <2>1. /\ receipts' \in [Ids -> [Voters -> Receipt]]
        /\ proposals' \in [Ids -> Proposal]
    BY <1>4, CastVoteEffect
  <2>2. UNCHANGED <<proposalCount, latestProposalIds>>
    BY <1>4 DEF CastVote
  <2>3. QED
    BY <1>1, <1>2, <2>1, <2>2 DEF TypeOK
<1>5. ASSUME NEW id \in Created, Queue(id)
      PROVE  TypeOK'
  BY <1>1, <1>2, <1>5, QueueEffect DEF Queue, TypeOK
<1>6. ASSUME NEW id \in Created, Execute(id)
      PROVE  TypeOK'
  BY <1>1, <1>2, <1>6, ExecuteEffect DEF Execute, TypeOK
<1>7. ASSUME NEW v \in Voters, NEW id \in Created, Cancel(v, id)
      PROVE  TypeOK'
  BY <1>1, <1>2, <1>7, CancelEffect DEF Cancel, TypeOK
<1>8. CASE UNCHANGED delegateVars
  BY <1>1, <1>2, <1>8 DEF delegateVars, TypeOK
<1>9. QED
  BY <1>3, <1>4, <1>5, <1>6, <1>7, <1>8, StepCases DEF Operation

(***************************************************************************)
(* What a state says of its proposal.                                       *)
(***************************************************************************)

LEMMA StateFacts ==
  ASSUME TypeOK, NEW id \in Ids
  PROVE  /\ State(id) \in {"Succeeded", "Queued"} =>
              /\ ~proposals[id].canceled
              /\ proposals[id].endBlock < block
              /\ proposals[id].forVotes > proposals[id].againstVotes
              /\ proposals[id].forVotes >= config["quorumVotes"]
         /\ State(id) = "Succeeded" <=>
              /\ State(id) \in {"Succeeded", "Queued"}
              /\ proposals[id].eta = 0
         /\ State(id) = "Queued" => ~proposals[id].executed
         /\ ~Live(id) => proposals[id].canceled \/ proposals[id].endBlock < block
         /\ Live(id) => ~proposals[id].canceled
         /\ Live(id) /\ proposals[id].startBlock < proposals[id].endBlock =>
              ~(proposals[id].endBlock < block)
<1>1. /\ block \in Nat
      /\ proposals[id].startBlock \in Nat /\ proposals[id].endBlock \in Nat
      /\ proposals[id].forVotes \in Nat /\ proposals[id].againstVotes \in Nat
      /\ config["quorumVotes"] \in Nat
      /\ proposals[id].canceled \in BOOLEAN /\ proposals[id].executed \in BOOLEAN
  BY ProposalTyped, ConfigTyped DEF TypeOK, LedgerTypeOK, Settings, DelegateSettings
<1> DEFINE p == proposals[id]
           quorum == config["quorumVotes"]
<1>2. State(id) = IF p.canceled THEN "Canceled"
                  ELSE IF block <= p.startBlock THEN "Pending"
                  ELSE IF block <= p.endBlock THEN "Active"
                  ELSE IF p.forVotes <= p.againstVotes \/ p.forVotes < quorum THEN "Defeated"
                  ELSE IF p.eta = 0 THEN "Succeeded"
                  ELSE IF p.executed THEN "Executed"
                  ELSE IF timestamp >= p.eta + GracePeriod THEN "Expired"
                  ELSE "Queued"
  BY DEF State, Defeated
<1>3. QED
  BY <1>1, <1>2 DEF Live

(***************************************************************************)
(* Each part of the invariant is kept.                                      *)
(***************************************************************************)

\* What changes a setting is an accepted call for it.
LEMMA ChangedByCall ==
  ASSUME NEW calls \in Seq(Calls), NEW cfg, AllAccepted(calls, cfg),
         NEW s \in Settings, After(calls, Len(calls), cfg)[s] # cfg[s]
  PROVE  \E i \in 1..Len(calls) :
           /\ calls[i] = [setting |-> s, value |-> After(calls, Len(calls), cfg)[s]]
           /\ Acceptable(calls[i], After(calls, i - 1, cfg))
<1> DEFINE last == CHOOSE i \in LastSet(calls, Len(calls), s) : TRUE
<1>1. LastSet(calls, Len(calls), s) # {}
  BY DEF After
<1>2. last \in LastSet(calls, Len(calls), s)
  BY <1>1
<1>3. last \in 1..Len(calls) /\ calls[last].setting = s
  BY <1>2 DEF LastSet
<1>4. After(calls, Len(calls), cfg)[s] = calls[last].value
  BY <1>1 DEF After
<1> HIDE DEF last
<1>5. calls[last] \in Calls
  BY <1>3, CallsTyped
<1>6. calls[last] = [setting |-> s, value |-> After(calls, Len(calls), cfg)[s]]
  BY <1>3, <1>4, <1>5 DEF Calls
<1>7. QED
  BY <1>3, <1>6 DEF AllAccepted

LEMMA StepKeepsPeriod ==
  ASSUME TypeOK, TimelockIInv, PeriodInLimits, [Next]_vars
  PROVE  PeriodInLimits'
<1>0. "votingPeriod" \in Settings /\ "votingPeriod" # "pendingAdmin"
  BY DEF Settings, DelegateSettings
<1>1. ASSUME NEW caller \in Admins, NEW calls \in Seq(Calls), NEW eta \in Nat,
             ExecuteTransactions(caller, calls, eta)
      PROVE  PeriodInLimits'
  <2>1. AllAccepted(calls, config) /\ config' = After(calls, Len(calls), config)
    BY <1>1 DEF ExecuteTransactions
  <2>2. CASE config'["votingPeriod"] = config["votingPeriod"]
    BY <2>2 DEF PeriodInLimits
  <2>3. CASE config'["votingPeriod"] # config["votingPeriod"]
    <3>1. PICK i \in 1..Len(calls) :
             /\ calls[i] = [setting |-> "votingPeriod", value |-> config'["votingPeriod"]]
             /\ Acceptable(calls[i], After(calls, i - 1, config))
      BY <1>0, <2>1, <2>3, ChangedByCall
    <3>2. calls[i].setting = "votingPeriod" /\ calls[i].value = config'["votingPeriod"]
      BY <3>1
    <3>3. QED
      BY <3>1, <3>2 DEF Acceptable, PeriodInLimits
  <2>4. QED
    BY <2>2, <2>3
<1>2. ASSUME NEW caller \in Admins, AcceptAdmin(caller)
      PROVE  PeriodInLimits'
  <2>1. config'["votingPeriod"] = config["votingPeriod"]
    BY <1>0, <1>2 DEF AcceptAdmin, TypeOK, TimelockTypeOK, Configs
  <2>2. QED
    BY <2>1 DEF PeriodInLimits
<1>3. config' = config => PeriodInLimits'
  BY DEF PeriodInLimits
<1>4. QED
  BY <1>1, <1>2, <1>3, StepIsTimelockStep
     DEF AnyTimelockStep, QueueTransactions, CancelTransactions, TimePasses, timelockVars

LEMMA StepKeepsOrder ==
  ASSUME DelegateIInv, [Next]_vars
  PROVE  ProposalsInOrder'
<1> USE DEF DelegateIInv
<1>t. /\ Created \subseteq Ids
      /\ block \in Nat /\ block' \in Nat /\ block <= block'
      /\ \A id \in Ids : proposals[id].endBlock \in Nat
  BY CreatedTyped, StepCases, ProposalTyped
\* An operation on the proposal id that keeps the order keeps that of all.
<1>s. ASSUME NEW id \in Created, NEW field, SameBut(id, field), UNCHANGED proposalCount,
             proposals'[id].eta # 0 => proposals[id].endBlock < block,
             proposals'[id].executed => proposals'[id].eta # 0
      PROVE  ProposalsInOrder'
  <2>1. Created' = Created
    BY <1>s DEF Created
  <2>2. ASSUME NEW p \in Created
        PROVE  /\ proposals'[p].proposer \in Voters
               /\ proposals'[p].calls \in CallLists
               /\ proposals'[p].startBlock < proposals'[p].endBlock
               /\ proposals'[p].eta # 0 => proposals'[p].endBlock < block'
               /\ proposals'[p].executed => proposals'[p].eta # 0
    BY <1>s, <1>t DEF SameBut, ProposalsInOrder
  <2>3. QED
    BY <2>1, <2>2 DEF ProposalsInOrder
<1>1. ASSUME NEW v \in Voters, NEW calls \in CallLists, Propose(v, calls)
      PROVE  ProposalsInOrder'
  <2>1. Created' = Created \cup {proposalCount} /\ proposalCount \notin Created
    BY <1>1, CreatedTyped, ProposeEffect DEF Propose, Created, TypeOK
  <2>2. \A p \in Created : proposals'[p] = proposals[p]
    BY <1>1, <1>t, <2>1, ProposeEffect
  <2> DEFINE InOrder(p) ==
               /\ proposals'[p].proposer \in Voters
               /\ proposals'[p].calls \in CallLists
               /\ proposals'[p].startBlock < proposals'[p].endBlock
               /\ proposals'[p].eta # 0 => proposals'[p].endBlock < block'
               /\ proposals'[p].executed => proposals'[p].eta # 0
  <2>3. \A p \in Created : InOrder(p)
    BY <1>t, <2>2 DEF ProposalsInOrder
  <2>4. InOrder(proposalCount)
    BY <1>1, ProposeEffect
  <2> HIDE DEF InOrder
  <2>5. \A p \in Created' : InOrder(p)
    BY <2>1, <2>3, <2>4
  <2>6. QED
    BY <2>5 DEF ProposalsInOrder, InOrder
<1>2. ASSUME NEW v \in Voters, NEW id \in Created, NEW s \in {Against, For, Abstain},
             CastVote(v, id, s)
      PROVE  ProposalsInOrder'
  <2>1. SameBut(id, "votes") /\ UNCHANGED proposalCount
    BY <1>2, CastVoteEffect DEF CastVote
  <2>2. proposals'[id].eta = proposals[id].eta /\ proposals'[id].executed = proposals[id].executed
    BY <1>t, <2>1 DEF SameBut
  <2>3. QED
    BY <1>s, <2>1, <2>2 DEF ProposalsInOrder
<1>3. ASSUME NEW id \in Created, Queue(id)
      PROVE  ProposalsInOrder'
  <2>1. proposals[id].endBlock < block /\ proposals[id].eta = 0
    BY <1>3, <1>t, StateFacts DEF Queue
  <2>2. ~proposals[id].executed /\ proposals'[id].executed = proposals[id].executed
    BY <1>3, <1>t, <2>1, QueueEffect DEF SameBut, ProposalsInOrder
  <2>3. QED
    BY <1>3, <1>s, <2>1, <2>2, QueueEffect DEF Queue
<1>4. ASSUME NEW id \in Created, Execute(id)
      PROVE  ProposalsInOrder'
  <2>1. proposals[id].eta # 0 /\ proposals[id].endBlock < block
    BY <1>4, <1>t, StateFacts DEF Execute
  <2>2. proposals'[id].eta = proposals[id].eta
    BY <1>4, <1>t, ExecuteEffect DEF SameBut
  <2>3. QED
    BY <1>4, <1>s, <2>1, <2>2, ExecuteEffect DEF Execute
<1>5. ASSUME NEW v \in Voters, NEW id \in Created, Cancel(v, id)
      PROVE  ProposalsInOrder'
  <2>1. SameBut(id, "canceled") /\ UNCHANGED proposalCount
    BY <1>5, CancelEffect DEF Cancel
  <2>2. proposals'[id].eta = proposals[id].eta /\ proposals'[id].executed = proposals[id].executed
    BY <1>t, <2>1 DEF SameBut
  <2>3. QED
    BY <1>s, <2>1, <2>2 DEF ProposalsInOrder
<1>6. CASE UNCHANGED delegateVars
  BY <1>6, <1>t DEF delegateVars, ProposalsInOrder, Created
<1>7. QED
  BY <1>1, <1>2, <1>3, <1>4, <1>5, <1>6, StepCases DEF Operation

LEMMA StepKeepsLatest ==
  ASSUME DelegateIInv, [Next]_vars
  PROVE  LatestIsLast'
<1> USE DEF DelegateIInv
<1>t. /\ Created \subseteq Ids
      /\ block \in Nat /\ block' \in Nat /\ block <= block'
      /\ \A id \in Ids : proposals[id].endBlock \in Nat
      /\ proposalCount \in Nat
      /\ latestProposalIds \in [Voters -> Ids] /\ Ids \subseteq Nat
  BY CreatedTyped, StepCases, ProposalTyped DEF TypeOK, Ids
\* A step that keeps the proposers and the end blocks, and revives nothing.
<1>s. ASSUME UNCHANGED <<proposalCount, latestProposalIds>>,
             \A p \in Created :
                /\ proposals'[p].proposer = proposals[p].proposer
                /\ proposals'[p].endBlock = proposals[p].endBlock
                /\ proposals[p].canceled => proposals'[p].canceled
      PROVE  LatestIsLast'
  <2>1. Created' = Created
    BY <1>s DEF Created
  <2>2. ASSUME NEW id \in Created, NEW v \in Voters, proposals'[id].proposer = v
        PROVE  /\ id <= latestProposalIds'[v]
               /\ id < latestProposalIds'[v] =>
                    proposals'[id].canceled \/ proposals'[id].endBlock < block'
    <3>1. /\ id <= latestProposalIds[v]
          /\ id < latestProposalIds[v] =>
               proposals[id].canceled \/ proposals[id].endBlock < block
      BY <1>s, <2>2 DEF LatestIsLast
    <3>2. proposals[id].endBlock \in Nat
      BY <1>t
    <3>3. QED
      BY <1>s, <1>t, <3>1, <3>2
  <2>3. \A v \in Voters : latestProposalIds'[v] < proposalCount'
    BY <1>s DEF LatestIsLast
  <2>4. QED
    BY <2>1, <2>2, <2>3 DEF LatestIsLast
<1>1. ASSUME NEW v \in Voters, NEW calls \in CallLists, Propose(v, calls)
      PROVE  LatestIsLast'
  <2> DEFINE latest == latestProposalIds[v]
  <2>1. Created' = Created \cup {proposalCount} /\ proposalCount \notin Created
    BY <1>1, CreatedTyped, ProposeEffect DEF Propose, Created, TypeOK
  <2>2. /\ \A p \in Created : proposals'[p] = proposals[p]
        /\ proposals'[proposalCount].proposer = v
    BY <1>1, <1>t, <2>1, ProposeEffect
  <2>3. /\ proposalCount' = proposalCount + 1
        /\ latestProposalIds' = [latestProposalIds EXCEPT ![v] = proposalCount]
        /\ latest # 0 => ~Live(latest)
    BY <1>1 DEF Propose, Live
  <2>4. ASSUME NEW w \in Voters
        PROVE  latestProposalIds'[w] < proposalCount'
    <3>1. latestProposalIds'[w] = proposalCount \/ latestProposalIds'[w] = latestProposalIds[w]
      BY <1>t, <2>3
    <3>2. latestProposalIds[w] \in Nat /\ latestProposalIds[w] < proposalCount
      BY <1>t DEF LatestIsLast
    <3>3. QED
      BY <1>t, <2>3, <3>1, <3>2
  \* Every earlier proposal of the proposer is over.
  <2>5. ASSUME NEW id \in Created, proposals[id].proposer = v
        PROVE  proposals[id].canceled \/ proposals[id].endBlock < block
    <3>1. id <= latest /\ latest # 0 /\ latest \in Ids /\ id \in Nat /\ latest \in Nat
      <4>1. id <= latest
        BY <2>5 DEF LatestIsLast
      <4>2. latest \in Ids /\ latest \in Nat /\ id \in Nat /\ id # 0
        BY <1>t, CreatedTyped
      <4>3. QED
        BY <4>1, <4>2
    <3>2. CASE id < latest
      BY <2>5, <3>2 DEF LatestIsLast
    <3>3. CASE id = latest
      BY <2>3, <3>1, <3>3, StateFacts
    <3> HIDE DEF latest
    <3>4. QED
      BY <3>1, <3>2, <3>3
  <2> DEFINE Last(id, w) ==
               /\ id <= latestProposalIds'[w]
               /\ id < latestProposalIds'[w] =>
                    proposals'[id].canceled \/ proposals'[id].endBlock < block'
  <2>6. ASSUME NEW id \in Created, NEW w \in Voters, proposals'[id].proposer = w
        PROVE  Last(id, w)
    <3>1. CASE w = v
      <4>1. latestProposalIds'[w] = proposalCount /\ id < proposalCount
        BY <1>t, <2>3, <3>1, CreatedTyped
      <4>2. proposals[id].canceled \/ proposals[id].endBlock < block
        BY <2>2, <2>5, <2>6, <3>1
      <4>3. QED
        BY <1>t, <2>2, <4>1, <4>2
    <3>2. CASE w # v
      <4>1. latestProposalIds'[w] = latestProposalIds[w]
        BY <1>t, <2>3, <3>2
      <4>2. QED
        BY <1>t, <2>2, <2>6, <4>1 DEF LatestIsLast
    <3>3. QED
      BY <3>1, <3>2
  <2>7. ASSUME NEW w \in Voters, proposals'[proposalCount].proposer = w
        PROVE  Last(proposalCount, w)
    BY <1>t, <2>2, <2>3, <2>7
  <2> HIDE DEF Last
  <2>8. \A id \in Created' : \A w \in Voters : proposals'[id].proposer = w => Last(id, w)
    BY <2>1, <2>6, <2>7
  <2>9. QED
    BY <2>4, <2>8 DEF LatestIsLast, Last
<1>2. ASSUME NEW v \in Voters, NEW id \in Created, NEW s \in {Against, For, Abstain},
             CastVote(v, id, s)
      PROVE  LatestIsLast'
  <2>1. SameBut(id, "votes") /\ UNCHANGED <<proposalCount, latestProposalIds>>
    BY <1>2, CastVoteEffect DEF CastVote
  <2>2. QED
    BY <1>s, <1>t, <2>1 DEF SameBut
<1>3. ASSUME NEW id \in Created, Queue(id)
      PROVE  LatestIsLast'
  BY <1>3, <1>s, <1>t, QueueEffect DEF Queue, SameBut
<1>4. ASSUME NEW id \in Created, Execute(id)
      PROVE  LatestIsLast'
  BY <1>4, <1>s, <1>t, ExecuteEffect DEF Execute, SameBut
<1>5. ASSUME NEW v \in Voters, NEW id \in Created, Cancel(v, id)
      PROVE  LatestIsLast'
  BY <1>5, <1>s, <1>t, CancelEffect DEF Cancel, SameBut
<1>6. CASE UNCHANGED delegateVars
  BY <1>6, <1>s DEF delegateVars
<1>7. QED
  BY <1>1, <1>2, <1>3, <1>4, <1>5, <1>6, StepCases DEF Operation

\* A queued call belongs to the proposal id.
Owns(id, q) ==
  /\ proposals[id].eta = q.eta
  /\ q.call \in {proposals[id].calls[i] : i \in 1..Len(proposals[id].calls)}
  /\ ~proposals[id].canceled /\ ~proposals[id].executed

LEMMA StepKeepsOwned ==
  ASSUME DelegateIInv, [Next]_vars
  PROVE  QueuedCallsOwned'
<1> USE DEF DelegateIInv
<1> SUFFICES ASSUME admin' = TheDelegate, NEW q \in queued'
             PROVE  \E id \in Created' : Owns(id, q)'
  BY DEF QueuedCallsOwned, Owns
<1>t. Created \subseteq Ids /\ proposalCount \in Nat
  BY CreatedTyped
<1>a. ASSUME q \in queued, admin = TheDelegate
      PROVE  /\ q = [call |-> q.call, eta |-> q.eta]
             /\ q.eta \in Nat /\ q.eta # 0
             /\ \E id \in Created : Owns(id, q)
  <2>1. q \in [call : Calls, eta : Nat]
    BY <1>a DEF TimelockIInv, TimelockTypeOK
  <2>2. PICK a \in announced : a.call = q.call /\ a.eta = q.eta
    BY <1>a DEF TimelockIInv, QueuedAnnounced
  <2>3. a.at \in Nat /\ a.eta >= a.at + MinDelay
    BY DEF TimelockIInv, TimelockTypeOK, NoticeGiven
  <2>4. q.eta # 0
    BY <2>1, <2>2, <2>3, LimitsAssumption
  <2>5. QED
    BY <1>a, <2>1, <2>4 DEF QueuedCallsOwned, Owns
\* An owner that the step leaves alone still owns the call.
<1>s. ASSUME NEW p \in Created, Owns(p, q), NEW id, NEW field, SameBut(id, field),
             p # id \/ field = "votes", Created' = Created
      PROVE  \E p1 \in Created' : Owns(p1, q)'
  <2>1. /\ proposals'[p].eta = proposals[p].eta
        /\ proposals'[p].calls = proposals[p].calls
        /\ proposals'[p].canceled = proposals[p].canceled
        /\ proposals'[p].executed = proposals[p].executed
    BY <1>s, <1>t DEF SameBut
  <2>2. Owns(p, q)'
    BY <1>s, <2>1 DEF Owns
  <2>3. QED
    BY <1>s, <2>2
<1>1. ASSUME NEW v \in Voters, NEW calls \in CallLists, Propose(v, calls)
      PROVE  \E id \in Created' : Owns(id, q)'
  <2>1. /\ queued' = queued /\ admin' = admin
        /\ proposalCount' = proposalCount + 1
    BY <1>1 DEF Propose, timelockVars
  <2>2. PICK p \in Created : Owns(p, q)
    BY <1>a, <2>1
  <2>3. p \in Created' /\ p # proposalCount
    BY <1>t, <2>1 DEF Created
  <2>4. proposals'[p] = proposals[p]
    BY <1>1, <1>t, <2>3, ProposeEffect
  <2>5. Owns(p, q)'
    BY <2>2, <2>4 DEF Owns
  <2>6. QED
    BY <2>3, <2>5
<1>2. ASSUME NEW v \in Voters, NEW id \in Created, NEW s \in {Against, For, Abstain},
             CastVote(v, id, s)
      PROVE  \E p \in Created' : Owns(p, q)'
  <2>1. queued' = queued /\ admin' = admin /\ Created' = Created
    BY <1>2 DEF CastVote, timelockVars, Created
  <2>2. PICK p \in Created : Owns(p, q)
    BY <1>a, <2>1
  <2>3. SameBut(id, "votes")
    BY <1>2, CastVoteEffect
  <2>4. QED
    BY <1>s, <2>1, <2>2, <2>3
<1>3. ASSUME NEW id \in Created, Queue(id)
      PROVE  \E p \in Created' : Owns(p, q)'
  <2> DEFINE calls == proposals[id].calls
             eta == timestamp + config["delay"]
  <2>1. /\ queued' = queued \cup Entries(calls, eta) /\ admin' = admin
        /\ Created' = Created
    BY <1>3 DEF Queue, QueueTransactions, Created
  <2>2. SameBut(id, "eta") /\ proposals'[id].eta = eta
    BY <1>3, QueueEffect
  <2>3. proposals[id].eta = 0 /\ ~proposals[id].canceled /\ ~proposals[id].executed
    BY <1>3, <1>t, StateFacts DEF Queue, ProposalsInOrder
  <2> HIDE DEF eta
  <2>4. CASE q \in queued
    <3>1. PICK p \in Created : Owns(p, q)
      BY <1>a, <2>1, <2>4
    <3>2. p # id
      BY <1>a, <2>1, <2>3, <2>4, <3>1 DEF Owns
    <3>3. QED
      BY <1>s, <2>1, <2>2, <3>1, <3>2
  <2>5. CASE q \in Entries(calls, eta)
    <3>1. q.eta = eta /\ q.call \in {calls[i] : i \in 1..Len(calls)}
      BY <2>5 DEF Entries
    <3>2. /\ proposals'[id].calls = calls
          /\ ~proposals'[id].canceled /\ ~proposals'[id].executed
      BY <1>t, <2>2, <2>3 DEF SameBut
    <3>3. Owns(id, q)'
      BY <2>2, <3>1, <3>2 DEF Owns
    <3>4. QED
      BY <2>1, <3>3
  <2>6. QED
    BY <2>1, <2>4, <2>5
\* A call that a proposal owns is among those it takes from the queue.
<1>r. ASSUME NEW id \in Created, Owns(id, q), q \in queued, admin = TheDelegate
      PROVE  q \in Entries(proposals[id].calls, proposals[id].eta)
  BY <1>a, <1>r DEF Owns, Entries
<1>4. ASSUME NEW id \in Created, Execute(id)
      PROVE  \E p \in Created' : Owns(p, q)'
  <2>1. /\ queued' = queued \ Entries(proposals[id].calls, proposals[id].eta)
        /\ admin' = admin /\ Created' = Created
    BY <1>4 DEF Execute, ExecuteTransactions, Created
  <2>2. PICK p \in Created : Owns(p, q)
    BY <1>a, <2>1
  <2>3. p # id
    BY <1>r, <2>1, <2>2
  <2>4. QED
    BY <1>4, <1>s, <2>1, <2>2, <2>3, ExecuteEffect
<1>5. ASSUME NEW v \in Voters, NEW id \in Created, Cancel(v, id)
      PROVE  \E p \in Created' : Owns(p, q)'
  <2>1. /\ queued' = queued \ Entries(proposals[id].calls, proposals[id].eta)
        /\ admin' = admin /\ Created' = Created
    BY <1>5 DEF Cancel, CancelTransactions, Created
  <2>2. PICK p \in Created : Owns(p, q)
    BY <1>a, <2>1
  <2>3. p # id
    BY <1>r, <2>1, <2>2
  <2>4. QED
    BY <1>5, <1>s, <2>1, <2>2, <2>3, CancelEffect
\* The other steps leave the queue alone, or follow a handover.
<1>6. CASE UNCHANGED delegateVars /\ queued' = queued /\ admin' = admin
  <2>1. PICK p \in Created : Owns(p, q)
    BY <1>6, <1>a
  <2>2. Created' = Created /\ proposals' = proposals
    BY <1>6 DEF delegateVars, Created
  <2>3. Owns(p, q)'
    BY <2>1, <2>2 DEF Owns
  <2>4. QED
    BY <2>2, <2>3
<1>7. CASE HandOverTimelock
  BY <1>7 DEF HandOverTimelock, AcceptAdmin, Successor, TheDelegate
<1>8. ASSUME NEW calls \in CallLists, NEW eta \in Etas, SuccessorUsesTimelock(calls, eta)
      PROVE  FALSE
  BY <1>8 DEF SuccessorUsesTimelock, QueueTransactions, CancelTransactions,
     ExecuteTransactions, Successor, TheDelegate
<1>9. QED
  BY <1>1, <1>2, <1>3, <1>4, <1>5, <1>6, <1>7, <1>8
     DEF Next, MoveVotes, ProduceBlock, TimePasses, vars, timelockVars

(***************************************************************************)
(* The invariant.                                                           *)
(***************************************************************************)

LEMMA InitIInv == Init => DelegateIInv
<1> SUFFICES ASSUME Init PROVE DelegateIInv
  OBVIOUS
<1>1. Created = {} /\ proposalCount \in 1..(MaxProposals + 1) /\ 0 \in Ids
  BY DelegateAssumption DEF Init, Created, Ids
<1>2. TimelockIInv
  BY TimelockInitIInv DEF Init
<1>3. LedgerTypeOK
  <2>1. past \in [1..(block - 1) -> Distributions]
    BY DEF Init, LedgerInit
  <2>2. QED
    BY <2>1, MaxBlockAssumption DEF Init, LedgerInit, LedgerTypeOK, Affordable
<1>4. \A p \in Ids :
        [NewProposal(Creator, << >>, 0, 0) EXCEPT !.canceled = (p = 0)] \in Proposal
  <2>1. << >> \in Seq(Calls)
    OBVIOUS
  <2>2. NewProposal(Creator, << >>, 0, 0) \in Proposal
    BY <2>1 DEF NewProposal, Proposal
  <2>3. QED
    BY <2>2 DEF Proposal
<1>5. NoReceipt \in Receipt
  BY DEF NoReceipt, Receipt
<1>6. TypeOK
  BY <1>1, <1>2, <1>3, <1>4, <1>5 DEF Init, TypeOK, TimelockIInv
<1>7. ProposalsInOrder /\ LatestIsLast
  BY <1>1 DEF Init, ProposalsInOrder, LatestIsLast
<1>8. PeriodInLimits /\ QueuedCallsOwned
  BY DelegateAssumption DEF Init, TimelockInit, PeriodInLimits, QueuedCallsOwned
<1>9. QED
  BY <1>2, <1>6, <1>7, <1>8 DEF DelegateIInv

LEMMA StepKeepsIInv == DelegateIInv /\ [Next]_vars => DelegateIInv'
<1> SUFFICES ASSUME DelegateIInv, [Next]_vars
             PROVE  DelegateIInv'
  OBVIOUS
<1>1. TypeOK /\ TimelockIInv /\ PeriodInLimits
  BY DEF DelegateIInv
<1>2. TimelockIInv'
  BY <1>1, StepIsTimelockStep, TimelockStepKeepsIInv
<1>3. TypeOK' /\ PeriodInLimits'
  BY <1>1, StepKeepsType, StepKeepsPeriod
<1>4. ProposalsInOrder' /\ LatestIsLast' /\ QueuedCallsOwned'
  BY StepKeepsOrder, StepKeepsLatest, StepKeepsOwned
<1>5. QED
  BY <1>2, <1>3, <1>4 DEF DelegateIInv

LEMMA DelegateInvariant == Spec => []DelegateIInv
  BY InitIInv, StepKeepsIInv, PTL DEF Spec

(***************************************************************************)
(* The theorems.                                                            *)
(***************************************************************************)

\* The governor's state keeps its types: no tally and no clock leaves Nat.
THEOREM DelegateTyped == Spec => []TypeOK
<1>1. DelegateIInv => TypeOK
  BY DEF DelegateIInv
<1>2. QED
  BY <1>1, DelegateInvariant, PTL

\* A proposer never has two proposals that are pending or active.
THEOREM OneLive == Spec => []OneLiveProposal
<1>1. DelegateIInv => OneLiveProposal
  <2> SUFFICES ASSUME DelegateIInv, NEW p \in Created, NEW q \in Created, p # q,
                      proposals[p].proposer = proposals[q].proposer, Live(p), Live(q)
               PROVE  FALSE
    BY DEF OneLiveProposal
  <2> DEFINE latest == latestProposalIds[proposals[p].proposer]
  <2>1. TypeOK /\ p \in Ids /\ q \in Ids /\ p \in Nat /\ q \in Nat
    BY CreatedTyped DEF DelegateIInv
  <2>2. /\ proposals[p].proposer \in Voters /\ latest \in Nat
        /\ p <= latest /\ q <= latest
    BY DEF DelegateIInv, ProposalsInOrder, LatestIsLast, TypeOK, Ids
  \* The one that is not the latest is over.
  <2>3. ASSUME NEW id \in {p, q}, id # latest
        PROVE  FALSE
    <3>1. id < latest
      <4> HIDE DEF latest
      <4>1. QED
        BY <2>1, <2>2, <2>3
    <3>2. proposals[id].canceled \/ proposals[id].endBlock < block
      BY <2>2, <3>1 DEF DelegateIInv, LatestIsLast
    <3>3. proposals[id].startBlock < proposals[id].endBlock
      BY DEF DelegateIInv, ProposalsInOrder
    <3>4. QED
      BY <2>1, <3>2, <3>3, StateFacts
  <2>4. QED
    BY <2>3
<1>2. QED
  BY <1>1, DelegateInvariant, PTL

\* What the timelock holds was queued by a proposal that is still to be executed.
THEOREM QueuedOwned == Spec => []QueuedCallsOwned
<1>1. DelegateIInv => QueuedCallsOwned
  BY DEF DelegateIInv
<1>2. QED
  BY <1>1, DelegateInvariant, PTL

\* The governor, its successor and the timelock together execute no call twice
\* for one eta, and none without the notice.
THEOREM GovernorPerformsOnce == Spec => []PerformedOnce
<1>1. DelegateIInv => PerformedOnce
  BY DEF DelegateIInv, TimelockIInv
<1>2. QED
  BY <1>1, DelegateInvariant, PTL

THEOREM GovernorGivesNotice == Spec => []MinimumNotice
<1>1. DelegateIInv => MinimumNotice
  BY InvariantGivesNotice DEF DelegateIInv
<1>2. QED
  BY <1>1, DelegateInvariant, PTL

\* What an executed proposal was: approved, and announced in time.
LEMMA ExecutedIsApproved ==
  ASSUME DelegateIInv, NEW id \in Created, Execute(id)
  PROVE  ~proposals[id].executed /\ proposals'[id].executed /\ Approved(proposals[id])
<1> DEFINE p == proposals[id]
<1>1. TypeOK /\ id \in Ids
  BY CreatedTyped DEF DelegateIInv
<1>2. /\ State(id) = "Queued"
      /\ Entries(p.calls, p.eta) \subseteq queued /\ timestamp >= p.eta
  BY DEF Execute, ExecuteTransactions
<1>3. ~p.executed /\ p.endBlock < block /\ p.forVotes > p.againstVotes
      /\ p.forVotes >= config["quorumVotes"]
  BY <1>1, <1>2, StateFacts
<1>4. /\ block \in Nat /\ p.endBlock \in Nat /\ p.eta \in Nat /\ timestamp \in Nat
      /\ p.calls \in Seq(Calls)
  BY <1>1, ProposalTyped DEF TypeOK, LedgerTypeOK, TimelockTypeOK
<1>5. ASSUME NEW i \in 1..Len(p.calls)
      PROVE  \E a \in announced :
               a.call = p.calls[i] /\ a.eta = p.eta /\ timestamp >= a.at + MinDelay
  <2>1. [call |-> p.calls[i], eta |-> p.eta] \in queued
    BY <1>2, <1>4, EntriesTyped
  <2>2. PICK a \in announced : a.call = p.calls[i] /\ a.eta = p.eta
    BY <2>1 DEF DelegateIInv, TimelockIInv, QueuedAnnounced
  <2>3. a.at \in Nat /\ a.eta >= a.at + MinDelay
    BY DEF DelegateIInv, TimelockIInv, TimelockTypeOK, NoticeGiven
  <2>4. timestamp >= a.at + MinDelay
    BY <1>2, <1>4, <2>2, <2>3, LimitsAssumption
  <2>5. QED
    BY <2>2, <2>4
<1>6. proposals'[id].executed
  BY <1>1, ExecuteEffect
<1>7. QED
  BY <1>3, <1>4, <1>5, <1>6 DEF Approved

\* The settings change only by executing an approved proposal, to the values
\* it proposed.
THEOREM SettingsByProposal == Spec => SettingsChangeByProposal
<1> DEFINE Change ==
      \A s \in Settings \ {"pendingAdmin"} : admin = TheDelegate /\ config'[s] # config[s] =>
       \E id \in Created :
          /\ ~proposals[id].executed /\ proposals'[id].executed
          /\ Approved(proposals[id])
          /\ \E i \in 1..Len(proposals[id].calls) :
                proposals[id].calls[i] = [setting |-> s, value |-> config'[s]]
<1>1. DelegateIInv /\ [Next]_vars => [Change]_vars
  <2> SUFFICES ASSUME DelegateIInv, [Next]_vars, NEW s \in Settings \ {"pendingAdmin"},
                      admin = TheDelegate, config'[s] # config[s]
               PROVE  \E id \in Created :
                        /\ ~proposals[id].executed /\ proposals'[id].executed
                        /\ Approved(proposals[id])
                        /\ \E i \in 1..Len(proposals[id].calls) :
                              proposals[id].calls[i] = [setting |-> s, value |-> config'[s]]
    OBVIOUS
  <2>1. PICK id \in Created : Execute(id)
    <3>1. ~(UNCHANGED config)
      OBVIOUS
    <3>2. ~HandOverTimelock
      BY DEF HandOverTimelock, AcceptAdmin, DelegateIInv, TypeOK, TimelockTypeOK, Configs
    <3>3. ASSUME NEW calls \in CallLists, NEW eta \in Etas, SuccessorUsesTimelock(calls, eta)
          PROVE  FALSE
      BY <3>3 DEF SuccessorUsesTimelock, QueueTransactions, CancelTransactions,
         ExecuteTransactions, Successor, TheDelegate
    <3>4. ASSUME NEW v \in Voters, NEW calls \in CallLists, Propose(v, calls)
          PROVE  FALSE
      BY <3>1, <3>4 DEF Propose, timelockVars
    <3>5. ASSUME NEW v \in Voters, NEW p \in Created, NEW support \in {Against, For, Abstain},
                 CastVote(v, p, support)
          PROVE  FALSE
      BY <3>1, <3>5 DEF CastVote, timelockVars
    <3>6. ASSUME NEW p \in Created, Queue(p)
          PROVE  FALSE
      BY <3>1, <3>6 DEF Queue, QueueTransactions
    <3>7. ASSUME NEW v \in Voters, NEW p \in Created, Cancel(v, p)
          PROVE  FALSE
      BY <3>1, <3>7 DEF Cancel, CancelTransactions
    <3>8. ~MoveVotes /\ ~ProduceBlock /\ ~(UNCHANGED vars)
      BY <3>1 DEF MoveVotes, ProduceBlock, TimePasses, vars, timelockVars
    <3>9. QED
      BY <3>2, <3>3, <3>4, <3>5, <3>6, <3>7, <3>8 DEF Next
  <2>2. ~proposals[id].executed /\ proposals'[id].executed /\ Approved(proposals[id])
    BY <2>1, ExecutedIsApproved
  <2> DEFINE calls == proposals[id].calls
  <2>3. calls \in Seq(Calls)
    BY CreatedTyped, ProposalTyped DEF DelegateIInv
  <2>4. AllAccepted(calls, config) /\ config' = After(calls, Len(calls), config)
    BY <2>1 DEF Execute, ExecuteTransactions
  <2> HIDE DEF calls
  <2>5. \E i \in 1..Len(calls) : calls[i] = [setting |-> s, value |-> config'[s]]
    BY <2>3, <2>4, ChangedByCall
  <2>6. QED
    BY <2>2, <2>5 DEF calls
<1>2. Spec => [][Change]_vars
  BY <1>1, DelegateInvariant, PTL DEF Spec
<1>3. QED
  BY <1>2 DEF SettingsChangeByProposal

(***************************************************************************)
(* The governor implements the admin of the timelock.                       *)
(***************************************************************************)

\* The bounds of the clock, under which Etas is large enough.
InTime == timestamp <= MaxTime /\ \A id \in Ids : proposals[id].eta <= MaxTime + MaxDelay

LEMMA DelayTyped ==
  ASSUME TypeOK
  PROVE  timestamp \in Nat /\ config["delay"] \in Nat /\ config["delay"] <= MaxDelay
  BY LimitsAssumption DEF TypeOK, TimelockTypeOK

LEMMA StepKeepsInTime ==
  ASSUME TypeOK, PeriodInLimits, InTime, [Next]_vars
  PROVE  InTime'
<1> USE DEF InTime
<1>t. MaxDelay \in Nat /\ MaxTime \in Nat /\ Created \subseteq Ids
  BY LimitsAssumption, TimelockAssumption, CreatedTyped
<1>1. timestamp' <= MaxTime
  BY StepIsTimelockStep DEF AnyTimelockStep, QueueTransactions, CancelTransactions,
     ExecuteTransactions, AcceptAdmin, TimePasses, timelockVars
<1>2. ASSUME NEW v \in Voters, NEW calls \in CallLists, Propose(v, calls)
      PROVE  InTime'
  <2>1. \A p \in Ids : proposals'[p].eta = proposals[p].eta \/ proposals'[p].eta = 0
    BY <1>2, ProposeEffect
  <2>2. 0 <= MaxTime + MaxDelay
    BY <1>t
  <2>3. QED
    BY <1>1, <2>1, <2>2
<1>3. ASSUME NEW id, NEW field, SameBut(id, field), field # "eta"
      PROVE  InTime'
  BY <1>1, <1>3 DEF SameBut
<1>4. ASSUME NEW id \in Created, Queue(id)
      PROVE  InTime'
  <2>1. proposals'[id].eta <= MaxTime + MaxDelay
    BY <1>4, <1>t, DelayTyped, QueueEffect
  <2>2. QED
    BY <1>1, <1>4, <2>1, QueueEffect DEF SameBut
<1>5. CASE UNCHANGED delegateVars
  BY <1>1, <1>5 DEF delegateVars
<1>6. ASSUME NEW v \in Voters, NEW id \in Created, NEW s \in {Against, For, Abstain},
             CastVote(v, id, s)
      PROVE  InTime'
  BY <1>3, <1>6, CastVoteEffect
<1>7. ASSUME NEW id \in Created, Execute(id)
      PROVE  InTime'
  BY <1>3, <1>7, ExecuteEffect
<1>8. ASSUME NEW v \in Voters, NEW id \in Created, Cancel(v, id)
      PROVE  InTime'
  BY <1>3, <1>8, CancelEffect
<1>9. QED
  BY <1>2, <1>4, <1>5, <1>6, <1>7, <1>8, StepCases DEF Operation

\* To its timelock, the governor is an admin that queues, cancels and executes
\* lists of calls: every step of the whole is a step of the timelock alone.
THEOREM GovernorImplementsTimelock ==
  ASSUME 0..(MaxTime + MaxDelay) \subseteq Etas, MaxTime >= 1
  PROVE  Spec => ImplementsTimelock
<1>1. Init => TimelockInit /\ InTime
  <2> SUFFICES ASSUME Init PROVE InTime
    BY DEF Init
  <2>1. timestamp = 1
    BY DEF Init, TimelockInit
  <2>2. \A id \in Ids : proposals[id].eta = 0
    BY DEF Init, NewProposal
  <2>3. QED
    BY <2>1, <2>2, LimitsAssumption, TimelockAssumption DEF InTime
<1>2. DelegateIInv /\ InTime /\ [Next]_vars => InTime'
  BY StepKeepsInTime DEF DelegateIInv
<1>3. DelegateIInv /\ InTime /\ [Next]_vars => [TimelockNext]_timelockVars
  <2> SUFFICES ASSUME DelegateIInv, InTime, [Next]_vars
               PROVE  [TimelockNext]_timelockVars
    OBVIOUS
  <2>1. ASSUME NEW id \in Created
        PROVE  /\ proposals[id].calls \in CallLists
               /\ proposals[id].eta \in Etas
               /\ timestamp + config["delay"] \in Etas
    <3>1. TypeOK /\ id \in Ids /\ MaxDelay \in Nat /\ MaxTime \in Nat
      BY CreatedTyped, LimitsAssumption, TimelockAssumption DEF DelegateIInv
    <3>2. proposals[id].eta \in 0..(MaxTime + MaxDelay)
      BY <3>1, ProposalTyped DEF InTime
    <3>3. timestamp + config["delay"] \in 0..(MaxTime + MaxDelay)
      BY <3>1, DelayTyped DEF InTime
    <3>4. QED
      BY <3>2, <3>3 DEF DelegateIInv, ProposalsInOrder
  <2>2. TheDelegate \in Admins /\ Successor \in Admins
    BY DEF Admins
  <2>3. ASSUME NEW id \in Created, Queue(id)
        PROVE  TimelockNext
    BY <2>1, <2>2, <2>3 DEF Queue, TimelockNext
  <2>4. ASSUME NEW id \in Created, Execute(id)
        PROVE  TimelockNext
    BY <2>1, <2>2, <2>4 DEF Execute, TimelockNext
  <2>5. ASSUME NEW v \in Voters, NEW id \in Created, Cancel(v, id)
        PROVE  TimelockNext
    BY <2>1, <2>2, <2>5 DEF Cancel, TimelockNext
  <2>6. ASSUME NEW calls \in CallLists, NEW eta \in Etas, SuccessorUsesTimelock(calls, eta)
        PROVE  TimelockNext
    BY <2>2, <2>6 DEF SuccessorUsesTimelock, TimelockNext
  <2>7. HandOverTimelock \/ ProduceBlock => TimelockNext
    BY <2>2 DEF HandOverTimelock, ProduceBlock, TimelockNext
  <2>8. ASSUME NEW v \in Voters, NEW calls \in CallLists, Propose(v, calls)
        PROVE  UNCHANGED timelockVars
    BY <2>8 DEF Propose
  <2>9. ASSUME NEW v \in Voters, NEW id \in Created, NEW s \in {Against, For, Abstain},
               CastVote(v, id, s)
        PROVE  UNCHANGED timelockVars
    BY <2>9 DEF CastVote
  <2>10. MoveVotes \/ UNCHANGED vars => UNCHANGED timelockVars
    BY DEF MoveVotes, vars
  <2>11. QED
    BY <2>3, <2>4, <2>5, <2>6, <2>7, <2>8, <2>9, <2>10 DEF Next
<1>4. QED
  BY <1>1, <1>2, <1>3, DelegateInvariant, PTL DEF Spec, TimelockSpec, ImplementsTimelock

(***************************************************************************)
(* Tallies.                                                                 *)
(*                                                                          *)
(* A tally adds up the receipts of those who chose it; the three of them    *)
(* add up those of everybody who has voted.  Each receipt is backed by the  *)
(* votes its voter held at the end of the start block, in both tokens, and  *)
(* the ledger bounds what all accounts held then: that is why a proposal    *)
(* never counts more than the supply, though the release token may change   *)
(* between two votes.                                                       *)
(***************************************************************************)

Supports == {Against, For, Abstain}

\* Of the receipts r of one proposal: the votes of each voter, who chose what, and what they add up to.
Weights(r) == [v \in Voters |-> r[v].votes]
Choosers(r, s) == {v \in Voters : r[v].hasVoted /\ r[v].support = s}
Tally(r, s) == SumFunctionOnSet(Weights(r), Choosers(r, s))
TallyIn(p, s) ==
  CASE s = Against -> p.againstVotes
    [] s = For -> p.forVotes
    [] s = Abstain -> p.abstainVotes

Tallied(p, r) == \A s \in Supports : TallyIn(p, s) = Tally(r, s)

\* A receipt is of a proposal whose vote has started, for no more than its voter held.
ReceiptsBacked ==
  \A id \in Ids, v \in Voters : receipts[id][v].hasVoted =>
     /\ id \in Created
     /\ proposals[id].startBlock \in 1..(block - 1)
     /\ receipts[id][v].votes <= past[proposals[id].startBlock]["PACT"][v]
                                   + past[proposals[id].startBlock]["SPACT"][v]

VotesWithinSupply ==
  /\ votes \in Affordable
  /\ \A b \in 1..(block - 1) : past[b] \in Affordable

TalliesIInv ==
  /\ VotesWithinSupply
  /\ \A id \in Created : proposals[id].startBlock # 0
  /\ ReceiptsBacked
  /\ \A id \in Ids : Tallied(proposals[id], receipts[id])

LEMMA VotersFinite == IsFiniteSet(Voters)
  BY DelegateAssumption

LEMMA SupportsDistinct == /\ Supports = {Against, For, Abstain}
                          /\ Against # For /\ Against # Abstain /\ For # Abstain
  BY DEF Supports, Against, For, Abstain

LEMMA TallyOfIsTally ==
  ASSUME NEW id, NEW s, receipts[id] \in [Voters -> Receipt]
  PROVE  TallyOf(id, s) = Tally(receipts[id], s)
<1> DEFINE r == receipts[id]
           C == Choosers(r, s)
           f == [v \in C |-> r[v].votes]
<1>1. TallyOf(id, s) = SumFunctionOnSet(f, C)
  BY DEF TallyOf, Choosers, SumFunction
<1>2. IsFiniteSet(C) /\ C \subseteq Voters
  BY VotersFinite, FS_Subset DEF Choosers
<1>3. \A v \in C : Weights(r)[v] \in Int /\ f[v] = Weights(r)[v]
  BY <1>2 DEF Weights, Receipt
<1> HIDE DEF f, C
<1>4. SumFunctionOnSet(f, C) = SumFunctionOnSet(Weights(r), C)
  BY <1>2, <1>3, SumSame
<1>5. QED
  BY <1>1, <1>4 DEF Tally, C

\* One vote more.
LEMMA VoteTallied ==
  ASSUME NEW r \in [Voters -> Receipt], NEW v \in Voters, ~r[v].hasVoted,
         NEW s \in Supports, NEW n \in Nat,
         NEW r2, r2 = [r EXCEPT ![v] = [hasVoted |-> TRUE, support |-> s, votes |-> n]]
  PROVE  \A x \in Supports : Tally(r2, x) = IF x = s THEN Tally(r, x) + n ELSE Tally(r, x)
<1> TAKE x \in Supports
<1> DEFINE W == Weights(r)
           W2 == Weights(r2)
           C == Choosers(r, x)
<1>0. /\ r2[v] = [hasVoted |-> TRUE, support |-> s, votes |-> n]
      /\ \A w \in Voters : w # v => r2[w] = r[w]
      /\ r2 \in [Voters -> Receipt]
  BY DEF Receipt, Supports
<1>1. /\ \A w \in Voters : W[w] \in Nat /\ W2[w] \in Nat
      /\ \A w \in Voters : w # v => W2[w] = W[w]
      /\ W2[v] = n
  BY <1>0 DEF Weights, Receipt
<1>2. IsFiniteSet(C) /\ C \subseteq Voters /\ v \notin C
  BY VotersFinite, FS_Subset DEF Choosers
<1>3. Choosers(r2, x) = IF x = s THEN C \cup {v} ELSE C
  BY <1>0 DEF Choosers
<1>t. Tally(r, x) = SumFunctionOnSet(W, C) /\ Tally(r2, x) = SumFunctionOnSet(W2, Choosers(r2, x))
  BY DEF Tally
<1> HIDE DEF W, W2, C
<1>4. SumFunctionOnSet(W2, C) = SumFunctionOnSet(W, C)
  <2>1. \A w \in C : W[w] \in Int /\ W2[w] = W[w]
    BY <1>1, <1>2
  <2>2. QED
    BY <1>2, <2>1, SumSame
<1>5. SumFunctionOnSet(W2, C \cup {v}) = n + SumFunctionOnSet(W2, C)
  <2>1. \A w \in C \cup {v} : W2[w] \in Int
    BY <1>1, <1>2
  <2>2. QED
    BY <1>1, <1>2, <2>1, SumAdd
<1>6. SumFunctionOnSet(W, C) \in Int
  <2>1. \A w \in C : W[w] \in Int
    BY <1>1, <1>2
  <2>2. QED
    BY <1>2, <2>1, SumInt
<1>7. QED
  BY <1>t, <1>3, <1>4, <1>5, <1>6

\* What the three tallies add up to is within what was held, and that within the supply.
LEMMA TalliesWithinSupply ==
  ASSUME NEW r \in [Voters -> Receipt], NEW d \in Affordable,
         \A v \in Voters : r[v].hasVoted => r[v].votes <= d["PACT"][v] + d["SPACT"][v]
  PROVE  Tally(r, Against) + Tally(r, For) + Tally(r, Abstain) <= Supply
<1> DEFINE A == Choosers(r, Against)
           F == Choosers(r, For)
           B == Choosers(r, Abstain)
           held == [v \in Voters |-> d["PACT"][v] + d["SPACT"][v]]
           sums == [t \in Tokens |-> SumFunction(d[t])]
           W == Weights(r)
<1>0. /\ Tokens = {"PACT", "SPACT"} /\ Supply \in Nat /\ IsFiniteSet(Voters)
      /\ d["PACT"] \in [Voters -> 0..Supply] /\ d["SPACT"] \in [Voters -> 0..Supply]
  BY DelegateAssumption, SupplyAssumption DEF Affordable, Distributions
<1>1. /\ \A v \in Voters : W[v] \in Nat
      /\ \A v \in Voters : held[v] \in Nat
      /\ \A v \in A \cup F \cup B : W[v] <= held[v]
  BY <1>0 DEF Weights, Receipt, Choosers
<1>2. /\ A \subseteq Voters /\ F \subseteq Voters /\ B \subseteq Voters
      /\ A \cap F = {} /\ (A \cup F) \cap B = {}
  BY SupportsDistinct DEF Choosers
<1>3. IsFiniteSet(A) /\ IsFiniteSet(F) /\ IsFiniteSet(B) /\ IsFiniteSet(A \cup F)
      /\ IsFiniteSet(A \cup F \cup B)
  <2>1. A \cup F \subseteq Voters /\ A \cup F \cup B \subseteq Voters
    BY <1>2
  <2> HIDE DEF A, F, B
  <2>2. QED
    BY <1>0, <1>2, <2>1, FS_Subset
<1>t. /\ Tally(r, Against) = SumFunctionOnSet(W, A)
      /\ Tally(r, For) = SumFunctionOnSet(W, F)
      /\ Tally(r, Abstain) = SumFunctionOnSet(W, B)
  BY DEF Tally
<1>h. SumFunctionOnSet(held, Voters) <= Supply
  <2>1. /\ sums["PACT"] = SumFunctionOnSet(d["PACT"], Voters)
        /\ sums["SPACT"] = SumFunctionOnSet(d["SPACT"], Voters)
    BY <1>0 DEF SumFunction
  <2>2. \A v \in Voters : /\ d["PACT"][v] \in Int /\ d["SPACT"][v] \in Int
                          /\ held[v] = d["PACT"][v] + d["SPACT"][v]
    BY <1>0
  <2>3. SumFunctionOnSet(held, Voters)
          = SumFunctionOnSet(d["PACT"], Voters) + SumFunctionOnSet(d["SPACT"], Voters)
    <3> HIDE DEF held
    <3>1. QED
      BY <1>0, <2>2, SumPlus
  <2>4. SumFunctionOnSet(d["PACT"], Voters) \in Int /\ SumFunctionOnSet(d["SPACT"], Voters) \in Int
    BY <1>0, <2>2, SumInt
  <2>5. SumFunctionOnSet(sums, {"PACT", "SPACT"}) = sums["PACT"] + sums["SPACT"]
    <3>1. sums["PACT"] \in Int /\ sums["SPACT"] \in Int /\ "PACT" # "SPACT"
      BY <2>1, <2>4
    <3> HIDE DEF sums
    <3>2. QED
      BY <3>1, SumPair
  <2>6. Total(d) = SumFunctionOnSet(sums, {"PACT", "SPACT"})
    BY <1>0 DEF Total, SumFunction
  <2>7. Total(d) <= Supply
    BY DEF Affordable
  <2>8. QED
    BY <2>1, <2>3, <2>5, <2>6, <2>7
<1> HIDE DEF A, F, B, held, sums, W
<1>4. /\ SumFunctionOnSet(W, A \cup F) = SumFunctionOnSet(W, A) + SumFunctionOnSet(W, F)
      /\ SumFunctionOnSet(W, A \cup F \cup B)
           = SumFunctionOnSet(W, A \cup F) + SumFunctionOnSet(W, B)
  <2>1. \A v \in A \cup F : W[v] \in Int
    BY <1>1, <1>2
  <2>2. \A v \in (A \cup F) \cup B : W[v] \in Int
    BY <1>1, <1>2
  <2>3. SumFunctionOnSet(W, A \cup F) = SumFunctionOnSet(W, A) + SumFunctionOnSet(W, F)
    BY <1>2, <1>3, <2>1, SumUnion
  <2>4. SumFunctionOnSet(W, (A \cup F) \cup B)
          = SumFunctionOnSet(W, A \cup F) + SumFunctionOnSet(W, B)
    BY <1>2, <1>3, <2>2, SumUnion
  <2>5. QED
    BY <2>3, <2>4
<1>5. SumFunctionOnSet(W, A \cup F \cup B) <= SumFunctionOnSet(held, A \cup F \cup B)
  <2>1. \A v \in A \cup F \cup B : W[v] \in Nat /\ held[v] \in Nat /\ W[v] <= held[v]
    BY <1>1, <1>2
  <2>2. QED
    BY <1>3, <2>1, SumLarger
<1>6. SumFunctionOnSet(held, A \cup F \cup B) <= SumFunctionOnSet(held, Voters)
  <2>1. A \cup F \cup B \in SUBSET Voters
    BY <1>2
  <2>2. QED
    BY <1>0, <1>1, <2>1, SumPart
<1>7. /\ SumFunctionOnSet(W, A) \in Int /\ SumFunctionOnSet(W, F) \in Int /\ SumFunctionOnSet(W, B) \in Int
      /\ SumFunctionOnSet(held, A \cup F \cup B) \in Int
      /\ SumFunctionOnSet(held, Voters) \in Int
  <2>1. \A v \in A \cup F \cup B : W[v] \in Int /\ held[v] \in Int
    BY <1>1, <1>2
  <2>2. \A v \in Voters : held[v] \in Int
    BY <1>1
  <2>3. (\A v \in A : W[v] \in Int) /\ (\A v \in F : W[v] \in Int) /\ (\A v \in B : W[v] \in Int)
    BY <2>1
  <2>4. \A v \in A \cup F \cup B : held[v] \in Int
    BY <2>1
  <2>5. SumFunctionOnSet(W, A) \in Int /\ SumFunctionOnSet(W, F) \in Int /\ SumFunctionOnSet(W, B) \in Int
    BY <1>3, <2>3, SumInt
  <2>6. SumFunctionOnSet(held, A \cup F \cup B) \in Int
    BY <1>3, <2>4, SumInt
  <2>7. SumFunctionOnSet(held, Voters) \in Int
    BY <1>0, <2>2, SumInt
  <2>8. QED
    BY <2>5, <2>6, <2>7
<1>8. QED
  BY <1>0, <1>t, <1>h, <1>4, <1>5, <1>6, <1>7

LEMMA EarlierBlocks ==
  ASSUME NEW m \in Nat, NEW n \in Nat, m <= n
  PROVE  \A b \in 1..(m - 1) : b \in 1..(n - 1)
  OBVIOUS

\* The votes of earlier blocks are final, and within the supply.
LEMMA LedgerGrows ==
  ASSUME TypeOK, VotesWithinSupply, [Next]_vars
  PROVE  /\ VotesWithinSupply'
         /\ \A b \in 1..(block - 1) : past'[b] = past[b]
         /\ block \in Nat /\ block' \in Nat /\ block <= block'
<1>0. block \in Nat /\ block' \in Nat /\ block <= block'
  BY StepCases
<1>1. CASE UNCHANGED ledgerVars
  BY <1>0, <1>1 DEF ledgerVars, VotesWithinSupply
<1>2. CASE MoveVotes
  <2>1. votes' \in Affordable /\ block' = block /\ past' = past
    BY <1>2 DEF MoveVotes, ChangeVotes, Affordable
  <2>2. QED
    BY <1>0, <2>1 DEF VotesWithinSupply
<1>3. CASE ProduceBlock
  <2>1. /\ block' = block + 1 /\ votes' = votes
        /\ past' = [b \in 1..block |-> IF b = block THEN votes ELSE past[b]]
    BY <1>3 DEF ProduceBlock, NextBlock
  <2>2. \A b \in 1..(block' - 1) : past'[b] = IF b = block THEN votes ELSE past[b]
    BY <1>0, <2>1
  <2>3. \A b \in 1..(block' - 1) : b = block \/ b \in 1..(block - 1)
    BY <1>0, <2>1
  <2>4. \A b \in 1..(block - 1) : b \in 1..(block' - 1) /\ b # block
    BY <1>0, <2>1
  <2>5. (\A b \in 1..(block' - 1) : past'[b] \in Affordable) /\ votes' \in Affordable
    BY <2>1, <2>2, <2>3 DEF VotesWithinSupply
  <2>6. \A b \in 1..(block - 1) : past'[b] = past[b]
    BY <2>2, <2>4
  <2>7. VotesWithinSupply'
    BY <2>5 DEF VotesWithinSupply, Affordable, Distributions, Total
  <2>8. QED
    BY <1>0, <2>6, <2>7
<1>4. MoveVotes \/ ProduceBlock \/ UNCHANGED ledgerVars
  <2>1. Operation => UNCHANGED ledgerVars
    BY StepCases
  <2>2. QED
    BY <2>1 DEF Next, Operation, HandOverTimelock, SuccessorUsesTimelock, vars
<1>5. QED
  BY <1>1, <1>2, <1>3, <1>4

\* What the tallies depend on.
SameVotes ==
  /\ UNCHANGED <<proposalCount, receipts>>
  /\ \A id \in Ids :
       /\ proposals'[id].startBlock = proposals[id].startBlock
       /\ proposals'[id].forVotes = proposals[id].forVotes
       /\ proposals'[id].againstVotes = proposals[id].againstVotes
       /\ proposals'[id].abstainVotes = proposals[id].abstainVotes

LEMMA MostKeepVotes ==
  ASSUME TypeOK, NEW id \in Created,
         Queue(id) \/ Execute(id) \/ (\E v \in Voters : Cancel(v, id))
  PROVE  SameVotes
<1>1. id \in Ids /\ proposals \in [Ids -> Proposal]
  BY CreatedTyped DEF TypeOK
<1>2. UNCHANGED <<proposalCount, receipts>>
  BY DEF Queue, Execute, Cancel
<1>3. \/ \E e : proposals' = [proposals EXCEPT ![id].eta = e]
      \/ proposals' = [proposals EXCEPT ![id].executed = TRUE]
      \/ proposals' = [proposals EXCEPT ![id].canceled = TRUE]
  BY DEF Queue, Execute, Cancel
<1>4. ASSUME NEW e, proposals' = [proposals EXCEPT ![id].eta = e]
      PROVE  SameVotes
  BY <1>1, <1>2, <1>4 DEF SameVotes, Proposal
<1>5. CASE proposals' = [proposals EXCEPT ![id].executed = TRUE]
  BY <1>1, <1>2, <1>5 DEF SameVotes, Proposal
<1>6. CASE proposals' = [proposals EXCEPT ![id].canceled = TRUE]
  BY <1>1, <1>2, <1>6 DEF SameVotes, Proposal
<1>7. QED
  BY <1>3, <1>4, <1>5, <1>6

LEMMA TalliesFollow ==
  ASSUME TypeOK, TalliesIInv, [Next]_vars, SameVotes
  PROVE  TalliesIInv'
<1>1. /\ VotesWithinSupply'
      /\ \A b \in 1..(block - 1) : past'[b] = past[b]
      /\ block \in Nat /\ block' \in Nat /\ block <= block'
  BY LedgerGrows DEF TalliesIInv
<1>2. Created' = Created /\ Created \subseteq Ids /\ receipts' = receipts
  BY CreatedTyped DEF SameVotes, Created
<1>3. \A id \in Created' : proposals'[id].startBlock # 0
  BY <1>2 DEF SameVotes, TalliesIInv
<1>4. ReceiptsBacked'
  <2> SUFFICES ASSUME NEW id \in Ids, NEW v \in Voters, receipts[id][v].hasVoted
      PROVE /\ id \in Created'
            /\ proposals'[id].startBlock \in 1..(block' - 1)
            /\ receipts[id][v].votes <= past'[proposals'[id].startBlock]["PACT"][v]
                                           + past'[proposals'[id].startBlock]["SPACT"][v]
    BY <1>2 DEF ReceiptsBacked
  <2>1. /\ id \in Created
        /\ proposals[id].startBlock \in 1..(block - 1)
        /\ receipts[id][v].votes <= past[proposals[id].startBlock]["PACT"][v]
                                       + past[proposals[id].startBlock]["SPACT"][v]
    BY DEF TalliesIInv, ReceiptsBacked
  <2>2. proposals'[id].startBlock = proposals[id].startBlock
    BY DEF SameVotes
  <2>0. block \in Nat /\ block' \in Nat /\ block <= block'
    BY <1>1
  <2>3. \A b \in 1..(block - 1) : b \in 1..(block' - 1)
    BY <2>0, EarlierBlocks
  <2>4. QED
    BY <1>1, <1>2, <2>1, <2>2, <2>3
<1>5. \A id \in Ids : Tallied(proposals'[id], receipts'[id])
  BY <1>2 DEF TalliesIInv, Tallied, TallyIn, SameVotes
<1>6. QED
  BY <1>1, <1>3, <1>4, <1>5 DEF TalliesIInv, Tallied, Tally, TallyIn, Weights, Choosers

LEMMA ProposeTallied ==
  ASSUME TypeOK, PeriodInLimits, TalliesIInv, TypeOK', [Next]_vars,
         NEW v \in Voters, NEW calls \in CallLists, Propose(v, calls)
  PROVE  TalliesIInv'
<1> DEFINE startBlock == block + config["votingDelay"]
           q == NewProposal(v, calls, startBlock, startBlock + config["votingPeriod"])
           new == proposalCount
<1>1. /\ VotesWithinSupply'
      /\ \A b \in 1..(block - 1) : past'[b] = past[b]
      /\ block \in Nat /\ block' = block
  BY LedgerGrows DEF TalliesIInv, Propose, ledgerVars
<1>2. /\ new \in Ids /\ new \notin Created /\ Created' = Created \cup {new}
      /\ receipts' = receipts /\ Created \subseteq Ids
  BY CreatedTyped DEF Propose, Created, TypeOK
<1>3. /\ proposals'[new] = q
      /\ \A id \in Ids : id # new => proposals'[id] = proposals[id]
  BY <1>2 DEF Propose, TypeOK
<1>4. /\ q.startBlock # 0
      /\ q.againstVotes = 0 /\ q.forVotes = 0 /\ q.abstainVotes = 0
  <2>1. config["votingDelay"] \in Nat /\ block # 0
    BY <1>1, ConfigTyped DEF TypeOK, LedgerTypeOK, Settings, DelegateSettings
  <2>2. startBlock # 0
    BY <1>1, <2>1
  <2>3. QED
    BY <2>2 DEF NewProposal
<1> HIDE DEF q
<1>5. \A id \in Created' : proposals'[id].startBlock # 0
  BY <1>2, <1>3, <1>4 DEF TalliesIInv
<1>6. \A w \in Voters : ~receipts[new][w].hasVoted
  BY <1>2 DEF TalliesIInv, ReceiptsBacked
<1>7. ReceiptsBacked'
  <2> SUFFICES ASSUME NEW id \in Ids, NEW w \in Voters, receipts[id][w].hasVoted
      PROVE /\ id \in Created'
            /\ proposals'[id].startBlock \in 1..(block' - 1)
            /\ receipts[id][w].votes <= past'[proposals'[id].startBlock]["PACT"][w]
                                           + past'[proposals'[id].startBlock]["SPACT"][w]
    BY <1>2 DEF ReceiptsBacked
  <2>1. /\ id \in Created
        /\ proposals[id].startBlock \in 1..(block - 1)
        /\ receipts[id][w].votes <= past[proposals[id].startBlock]["PACT"][w]
                                       + past[proposals[id].startBlock]["SPACT"][w]
    BY DEF TalliesIInv, ReceiptsBacked
  <2>2. proposals'[id] = proposals[id]
    BY <1>2, <1>3, <2>1
  <2>3. QED
    BY <1>1, <1>2, <2>1, <2>2
<1>8. \A id \in Ids : Tallied(proposals'[id], receipts'[id])
  <2> TAKE id \in Ids
  <2>1. CASE id # new
    BY <1>2, <1>3, <2>1 DEF TalliesIInv
  <2>2. CASE id = new
    <3>1. \A s \in Supports : Choosers(receipts[new], s) = {}
      BY <1>6 DEF Choosers
    <3>2. \A s \in Supports : Tally(receipts[new], s) = 0
      BY <3>1, SumEmpty DEF Tally
    <3>3. \A s \in Supports : TallyIn(q, s) = 0
      BY <1>4, SupportsDistinct DEF TallyIn
    <3>4. QED
      BY <1>2, <1>3, <2>2, <3>2, <3>3 DEF Tallied
  <2>3. QED
    BY <2>1, <2>2
<1>9. QED
  BY <1>1, <1>5, <1>7, <1>8 DEF TalliesIInv, Tallied, Tally, TallyIn, Weights, Choosers

LEMMA CastVoteTallied ==
  ASSUME TypeOK, TalliesIInv, TypeOK', [Next]_vars,
         NEW v \in Voters, NEW id \in Created, NEW s \in {Against, For, Abstain},
         CastVote(v, id, s)
  PROVE  TalliesIInv'
<1> DEFINE p == proposals[id]
           r == receipts[id]
           n == PriorVotes(v, p.startBlock)
           day == past[p.startBlock]
<1>1. /\ VotesWithinSupply'
      /\ \A b \in 1..(block - 1) : past'[b] = past[b]
      /\ block \in Nat /\ block' = block
  BY LedgerGrows DEF TalliesIInv, CastVote, ledgerVars
<1>2. /\ id \in Ids /\ Created' = Created /\ Created \subseteq Ids
      /\ p \in Proposal /\ r \in [Voters -> Receipt]
  BY CreatedTyped DEF CastVote, Created, TypeOK
<1>3. p.startBlock \in 1..(block - 1)
  <2>1. ~(block <= p.startBlock)
    BY DEF CastVote, State
  <2>2. p.startBlock \in Nat /\ p.startBlock # 0
    BY <1>2, ProposalTyped DEF TalliesIInv
  <2>3. QED
    BY <1>1, <2>1, <2>2
<1>4. n \in Nat /\ n <= day["PACT"][v] + day["SPACT"][v]
  <2>1. day \in [Tokens -> [Voters -> 0..Supply]]
    BY <1>3 DEF TypeOK, LedgerTypeOK, Distributions
  <2>2. day["PACT"][v] \in Nat /\ day["SPACT"][v] \in Nat
    <3>1. "PACT" \in Tokens /\ "SPACT" \in Tokens
      BY DelegateAssumption
    <3>2. day["PACT"][v] \in 0..Supply /\ day["SPACT"][v] \in 0..Supply
      BY <2>1, <3>1
    <3>3. QED
      BY <3>2, SupplyAssumption
  <2>3. /\ PriorVotesOf("PACT", v, p.startBlock) = day["PACT"][v]
        /\ PriorVotesOf("SPACT", v, p.startBlock) = day["SPACT"][v]
    BY <1>3 DEF PriorVotesOf
  <2>4. n = day["PACT"][v] \/ n = day["PACT"][v] + day["SPACT"][v]
    BY <2>2, <2>3 DEF PriorVotes
  <2>5. QED
    BY <2>2, <2>4
<1> HIDE DEF n, day
<1>5. /\ ~r[v].hasVoted
      /\ \A x \in Ids : x # id => proposals'[x] = proposals[x] /\ receipts'[x] = receipts[x]
      /\ receipts'[id] = [r EXCEPT ![v] = [hasVoted |-> TRUE, support |-> s, votes |-> n]]
  BY <1>2 DEF CastVote, n, TypeOK
<1>6. /\ proposals'[id].startBlock = p.startBlock
      /\ proposals'[id].againstVotes = IF s = Against THEN p.againstVotes + n ELSE p.againstVotes
      /\ proposals'[id].forVotes = IF s = For THEN p.forVotes + n ELSE p.forVotes
      /\ proposals'[id].abstainVotes = IF s = Abstain THEN p.abstainVotes + n ELSE p.abstainVotes
  <2> DEFINE against == IF s = Against THEN p.againstVotes + n ELSE p.againstVotes
             for == IF s = For THEN p.forVotes + n ELSE p.forVotes
             abstain == IF s = Abstain THEN p.abstainVotes + n ELSE p.abstainVotes
  <2>1. proposals' = [proposals EXCEPT ![id] =
          [p EXCEPT !.againstVotes = against, !.forVotes = for, !.abstainVotes = abstain]]
    BY DEF CastVote, n
  <2> HIDE DEF against, for, abstain
  <2>2. /\ proposals'[id].startBlock = p.startBlock
        /\ proposals'[id].againstVotes = against
        /\ proposals'[id].forVotes = for
        /\ proposals'[id].abstainVotes = abstain
    BY <1>2, <2>1 DEF Proposal, TypeOK
  <2>3. QED
    BY <2>2 DEF against, for, abstain
<1>7. /\ receipts'[id][v] = [hasVoted |-> TRUE, support |-> s, votes |-> n]
      /\ \A w \in Voters : w # v => receipts'[id][w] = r[w]
  BY <1>2, <1>5
<1>8. \A x \in Created' : proposals'[x].startBlock # 0
  BY <1>2, <1>5, <1>6 DEF TalliesIInv
<1>9. ReceiptsBacked'
  <2> SUFFICES ASSUME NEW x \in Ids, NEW w \in Voters, receipts'[x][w].hasVoted
      PROVE /\ x \in Created'
            /\ proposals'[x].startBlock \in 1..(block' - 1)
            /\ receipts'[x][w].votes <= past'[proposals'[x].startBlock]["PACT"][w]
                                           + past'[proposals'[x].startBlock]["SPACT"][w]
    BY DEF ReceiptsBacked
  <2>1. proposals'[x].startBlock = proposals[x].startBlock
    BY <1>5, <1>6
  <2>2. CASE x = id /\ w = v
    <3>1. past'[p.startBlock] = day
      BY <1>1, <1>3 DEF day
    <3>2. receipts'[x][w].votes = n
      BY <1>7, <2>2
    <3>3. QED
      BY <1>1, <1>2, <1>3, <1>4, <2>1, <2>2, <3>1, <3>2
  <2>3. CASE ~(x = id /\ w = v)
    <3>1. receipts'[x][w] = receipts[x][w]
      BY <1>5, <1>7, <2>3
    <3>2. /\ x \in Created
          /\ proposals[x].startBlock \in 1..(block - 1)
          /\ receipts[x][w].votes <= past[proposals[x].startBlock]["PACT"][w]
                                         + past[proposals[x].startBlock]["SPACT"][w]
      BY <3>1 DEF TalliesIInv, ReceiptsBacked
    <3>3. QED
      BY <1>1, <1>2, <2>1, <3>1, <3>2
  <2>4. QED
    BY <2>2, <2>3
<1>10. \A x \in Ids : Tallied(proposals'[x], receipts'[x])
  <2> TAKE x \in Ids
  <2>1. CASE x # id
    BY <1>5, <2>1 DEF TalliesIInv
  <2>2. CASE x = id
    <3>1. \A c \in Supports : Tally(receipts'[id], c) = IF c = s THEN Tally(r, c) + n ELSE Tally(r, c)
      BY <1>2, <1>4, <1>5, VoteTallied DEF Supports
    <3>2. \A c \in Supports : TallyIn(p, c) = Tally(r, c)
      BY <1>2 DEF TalliesIInv, Tallied
    <3>3. \A c \in Supports :
            TallyIn(proposals'[id], c) = IF c = s THEN TallyIn(p, c) + n ELSE TallyIn(p, c)
      BY <1>6, SupportsDistinct DEF TallyIn
    <3>4. QED
      BY <2>2, <3>1, <3>2, <3>3 DEF Tallied
  <2>3. QED
    BY <2>1, <2>2
<1>11. QED
  BY <1>1, <1>8, <1>9, <1>10 DEF TalliesIInv, Tallied, Tally, TallyIn, Weights, Choosers

LEMMA InitTallied == Init => TalliesIInv
<1> SUFFICES ASSUME Init PROVE TalliesIInv
  OBVIOUS
<1>1. Created = {}
  BY DEF Init, Created
<1>2. VotesWithinSupply
  BY DEF Init, LedgerInit, VotesWithinSupply
<1>3. \A id \in Ids : /\ proposals[id].againstVotes = 0 /\ proposals[id].forVotes = 0
                       /\ proposals[id].abstainVotes = 0
                       /\ \A v \in Voters : ~receipts[id][v].hasVoted
  BY DEF Init, NewProposal, NoReceipt
<1>4. \A id \in Ids : Tallied(proposals[id], receipts[id])
  <2> TAKE id \in Ids
  <2>1. \A s \in Supports : Tally(receipts[id], s) = 0
    <3>1. \A s \in Supports : Choosers(receipts[id], s) = {}
      BY <1>3 DEF Choosers
    <3>2. QED
      BY <3>1, SumEmpty DEF Tally
  <2>2. QED
    BY <1>3, <2>1, SupportsDistinct DEF Tallied, TallyIn
<1>5. QED
  BY <1>1, <1>2, <1>3, <1>4 DEF TalliesIInv, ReceiptsBacked

LEMMA StepKeepsTallies == DelegateIInv /\ TalliesIInv /\ [Next]_vars => TalliesIInv'
<1> SUFFICES ASSUME DelegateIInv, TalliesIInv, [Next]_vars
             PROVE  TalliesIInv'
  OBVIOUS
<1>1. TypeOK /\ PeriodInLimits /\ TypeOK'
  BY StepKeepsIInv DEF DelegateIInv
<1>2. ASSUME NEW v \in Voters, NEW calls \in CallLists, Propose(v, calls)
      PROVE  TalliesIInv'
  BY <1>1, <1>2, ProposeTallied
<1>3. ASSUME NEW v \in Voters, NEW id \in Created, NEW s \in {Against, For, Abstain},
             CastVote(v, id, s)
      PROVE  TalliesIInv'
  BY <1>1, <1>3, CastVoteTallied
<1>4. ASSUME NEW id \in Created, Queue(id) \/ Execute(id) \/ (\E v \in Voters : Cancel(v, id))
      PROVE  TalliesIInv'
  BY <1>1, <1>4, MostKeepVotes, TalliesFollow
<1>5. CASE UNCHANGED delegateVars
  <2>1. SameVotes
    BY <1>5 DEF delegateVars, SameVotes
  <2>2. QED
    BY <1>1, <2>1, TalliesFollow
<1>6. QED
  BY <1>1, <1>2, <1>3, <1>4, <1>5, StepCases DEF Operation

\* No PACT votes twice: the tallies are the receipts added up and never exceed the supply,
\* however votes move between accounts and tokens, and whatever token counts
\* (castVoteInternal, getPriorVotes).
THEOREM TalliesAreReceipts == Spec => []TalliesMatchReceipts
<1>1. TypeOK /\ TalliesIInv => TalliesMatchReceipts
  <2> SUFFICES ASSUME TypeOK, TalliesIInv, NEW id \in Ids
      PROVE  /\ proposals[id].againstVotes = TallyOf(id, Against)
             /\ proposals[id].forVotes = TallyOf(id, For)
             /\ proposals[id].abstainVotes = TallyOf(id, Abstain)
             /\ proposals[id].againstVotes + proposals[id].forVotes
                  + proposals[id].abstainVotes <= Supply
    BY DEF TalliesMatchReceipts
  <2> DEFINE r == receipts[id]
  <2>1. r \in [Voters -> Receipt]
    BY DEF TypeOK
  <2>2. /\ proposals[id].againstVotes = Tally(r, Against)
        /\ proposals[id].forVotes = Tally(r, For)
        /\ proposals[id].abstainVotes = Tally(r, Abstain)
    BY SupportsDistinct DEF TalliesIInv, Tallied, TallyIn
  <2>3. \A s : TallyOf(id, s) = Tally(r, s)
    BY <2>1, TallyOfIsTally
  <2>4. Tally(r, Against) + Tally(r, For) + Tally(r, Abstain) <= Supply
    <3>1. CASE \A v \in Voters : ~r[v].hasVoted
      <4>1. \A s : Choosers(r, s) = {}
        BY <3>1 DEF Choosers
      <4>2. \A s : Tally(r, s) = 0
        BY <4>1, SumEmpty DEF Tally
      <4>3. QED
        BY <4>2, SupplyAssumption
    <3>2. ASSUME NEW v \in Voters, r[v].hasVoted
          PROVE  Tally(r, Against) + Tally(r, For) + Tally(r, Abstain) <= Supply
      <4> DEFINE d == past[proposals[id].startBlock]
      <4>1. proposals[id].startBlock \in 1..(block - 1)
        BY <3>2 DEF TalliesIInv, ReceiptsBacked
      <4>2. d \in Affordable
        BY <4>1 DEF TalliesIInv, VotesWithinSupply
      <4>3. \A w \in Voters : r[w].hasVoted => r[w].votes <= d["PACT"][w] + d["SPACT"][w]
        BY DEF TalliesIInv, ReceiptsBacked
      <4> HIDE DEF d, r
      <4>4. QED
        BY <2>1, <4>2, <4>3, TalliesWithinSupply
    <3>3. QED
      BY <3>1, <3>2
  <2>5. QED
    BY <2>2, <2>3, <2>4
<1>2. DelegateIInv => TypeOK
  BY DEF DelegateIInv
<1>3. QED
  BY <1>1, <1>2, InitTallied, StepKeepsTallies, DelegateInvariant, PTL DEF Spec

(***************************************************************************)
(* The life of a proposal.                                                  *)
(***************************************************************************)

\* state() of a proposal p in block b at time t under a quorum.
StateIn(p, b, t, quorum) ==
  IF p.canceled THEN "Canceled"
  ELSE IF b <= p.startBlock THEN "Pending"
  ELSE IF b <= p.endBlock THEN "Active"
  ELSE IF p.forVotes <= p.againstVotes \/ p.forVotes < quorum THEN "Defeated"
  ELSE IF p.eta = 0 THEN "Succeeded"
  ELSE IF p.executed THEN "Executed"
  ELSE IF t >= p.eta + GracePeriod THEN "Expired"
  ELSE "Queued"

Forward(s, t) == t \in {s} \cup Successors(s)

\* What a quorum that changes from q to q2 may do besides.
Rejudged(s, t, q, q2) ==
  \/ q2 > q /\ s \in Passed /\ t = "Defeated"
  \/ q2 < q /\ s = "Defeated" /\ t \in Passed

LEMMA StateIsIn ==
  ASSUME NEW id
  PROVE  State(id) = StateIn(proposals[id], block, timestamp, config["quorumVotes"])
  BY DEF State, StateIn, Defeated

\* Blocks and time lead no state back.
LEMMA ClockMovesForward ==
  ASSUME NEW p \in Proposal, NEW b \in Nat, NEW b2 \in Nat, b2 = b \/ b2 = b + 1,
         NEW t \in Nat, NEW t2 \in Nat, t <= t2, NEW quorum \in Nat,
         p.startBlock < p.endBlock,
         p.eta # 0 => p.endBlock < b
  PROVE  Forward(StateIn(p, b, t, quorum), StateIn(p, b2, t2, quorum))
<1>1. /\ p.startBlock \in Nat /\ p.endBlock \in Nat /\ p.eta \in Nat
      /\ p.forVotes \in Nat /\ p.againstVotes \in Nat
      /\ p.canceled \in BOOLEAN /\ p.executed \in BOOLEAN /\ GracePeriod \in Nat
  BY TimelockAssumption DEF Proposal
<1>2. QED
  BY <1>1 DEF StateIn, Forward, Successors

\* Another quorum only passes another judgement on a vote that is over.
LEMMA QuorumRejudges ==
  ASSUME NEW p \in Proposal, NEW b, NEW t, NEW q \in Nat, NEW q2 \in Nat
  PROVE  \/ StateIn(p, b, t, q2) = StateIn(p, b, t, q)
         \/ Rejudged(StateIn(p, b, t, q), StateIn(p, b, t, q2), q, q2)
<1>1. p.forVotes \in Nat
  BY DEF Proposal
<1>2. QED
  BY <1>1 DEF StateIn, Rejudged, Passed

LEMMA LifecycleStep ==
  ASSUME DelegateIInv, DelegateIInv', [Next]_vars, NEW id \in Created
  PROVE  \/ Forward(State(id), State(id)')
         \/ Rejudged(State(id), State(id)', config["quorumVotes"], config'["quorumVotes"])
<1> DEFINE p == proposals[id]
           p2 == proposals'[id]
           q == config["quorumVotes"]
           q2 == config'["quorumVotes"]
<1>0. /\ TypeOK /\ TypeOK' /\ Created \subseteq Ids /\ id \in Ids
      /\ p \in Proposal /\ p2 \in Proposal
      /\ block \in Nat /\ block' \in Nat /\ timestamp \in Nat /\ timestamp' \in Nat
      /\ q \in Nat /\ q2 \in Nat
      /\ p.startBlock < p.endBlock
      /\ p.eta # 0 => p.endBlock < block
      /\ p.executed => p.eta # 0
      /\ id # proposalCount
  <2>1. TypeOK /\ TypeOK' /\ ProposalsInOrder
    BY DEF DelegateIInv
  <2>2. Created \subseteq Ids /\ id \in Ids /\ id # proposalCount /\ p \in Proposal
    BY <2>1, CreatedTyped
  <2>3. block \in Nat /\ block' \in Nat
    BY <2>1, StepCases
  <2>4. timestamp \in Nat /\ timestamp' \in Nat /\ p2 \in Proposal
    BY <2>1, <2>2 DEF TypeOK, TimelockTypeOK
  <2>5. q \in Nat /\ q2 \in Nat
    <3>1. "quorumVotes" \in Settings
      BY DEF Settings, DelegateSettings
    <3>2. config \in [Settings -> Nat] /\ config' \in [Settings -> Nat]
      BY <2>1 DEF TypeOK, TimelockTypeOK, Configs
    <3>. QED  BY <3>1, <3>2
  <2>6. /\ p.startBlock < p.endBlock
        /\ p.eta # 0 => p.endBlock < block
        /\ p.executed => p.eta # 0
    BY <2>1 DEF ProposalsInOrder
  <2>7. QED
    BY <2>1, <2>2, <2>3, <2>4, <2>5, <2>6
<1>1. /\ State(id) = StateIn(p, block, timestamp, q)
      /\ State(id)' = StateIn(p2, block', timestamp', q2)
  BY StateIsIn DEF State, StateIn, Defeated
<1>2. ASSUME p2 = p, q2 = q, block' = block \/ block' = block + 1, timestamp <= timestamp'
      PROVE  Forward(State(id), State(id)')
  BY <1>0, <1>1, <1>2, ClockMovesForward
<1>3. ASSUME NEW v \in Voters, NEW calls \in CallLists, Propose(v, calls)
      PROVE  Forward(State(id), State(id)')
  <2>1. p2 = p /\ q2 = q /\ block' = block /\ timestamp' = timestamp
    BY <1>0, <1>3 DEF Propose, TypeOK, ledgerVars, timelockVars
  <2>2. QED
    BY <1>0, <1>2, <2>1
<1>4. ASSUME NEW v \in Voters, NEW x \in Created, NEW s \in {Against, For, Abstain},
             CastVote(v, x, s)
      PROVE  Forward(State(id), State(id)')
  <2>1. block' = block /\ timestamp' = timestamp /\ q2 = q
    BY <1>4 DEF CastVote, ledgerVars, timelockVars
  <2>2. x # id => p2 = p
    BY <1>0, <1>4 DEF CastVote, TypeOK
  <2>3. CASE x = id
    <3>1. p2.startBlock = p.startBlock /\ p2.endBlock = p.endBlock /\ p2.canceled = p.canceled
      BY <1>0, <1>4, <2>3, CastVoteEffect DEF SameBut
    <3>2. StateIn(p, block, timestamp, q) = "Active"
      BY <1>1, <1>4, <2>3 DEF CastVote
    <3>3. StateIn(p2, block, timestamp, q) = "Active"
      BY <3>1, <3>2 DEF StateIn
    <3>4. QED
      BY <1>1, <2>1, <3>2, <3>3 DEF Forward
  <2>4. QED
    BY <1>0, <1>2, <2>1, <2>2, <2>3
<1>5. ASSUME NEW x \in Created, Queue(x)
      PROVE  Forward(State(id), State(id)')
  <2>1. block' = block /\ timestamp' = timestamp /\ q2 = q
    BY <1>5 DEF Queue, QueueTransactions, ledgerVars
  <2>2. x # id => p2 = p
    BY <1>0, <1>5 DEF Queue, TypeOK
  <2>3. CASE x = id
    <3>1. /\ p2 = [p EXCEPT !.eta = timestamp + config["delay"]]
          /\ StateIn(p, block, timestamp, q) = "Succeeded"
      BY <1>0, <1>1, <1>5, <2>3 DEF Queue, TypeOK
    <3>2. config["delay"] \in Nat /\ config["delay"] # 0 /\ GracePeriod \in Nat
      BY LimitsAssumption, TimelockAssumption DEF DelegateIInv, TimelockIInv, TimelockTypeOK
    <3>3. StateIn(p2, block, timestamp, q) = "Queued"
      <4>1. /\ p2.startBlock = p.startBlock /\ p2.endBlock = p.endBlock
            /\ p2.forVotes = p.forVotes /\ p2.againstVotes = p.againstVotes
            /\ p2.canceled = p.canceled /\ p2.executed = p.executed
            /\ p2.eta = timestamp + config["delay"]
        BY <1>0, <3>1 DEF Proposal
      <4>2. p.eta = 0 /\ ~p.executed /\ p2.eta # 0
        BY <1>0, <3>1, <3>2, <4>1 DEF StateIn
      <4>3. ~(timestamp >= p2.eta + GracePeriod)
        BY <1>0, <3>2, <4>1
      <4>4. QED
        BY <3>1, <4>1, <4>2, <4>3 DEF StateIn
    <3>4. QED
      BY <1>1, <2>1, <3>1, <3>3 DEF Forward, Successors
  <2>4. QED
    BY <1>0, <1>2, <2>1, <2>2, <2>3
<1>6. ASSUME NEW x \in Created, Execute(x)
      PROVE  Forward(State(id), State(id)') \/ Rejudged(State(id), State(id)', q, q2)
  <2>1. block' = block /\ timestamp' = timestamp
    BY <1>6 DEF Execute, ExecuteTransactions, ledgerVars
  <2>2. x # id => p2 = p
    BY <1>0, <1>6 DEF Execute, TypeOK
  <2>3. CASE x = id
    <3>1. p2 = [p EXCEPT !.executed = TRUE] /\ StateIn(p, block, timestamp, q) = "Queued"
      BY <1>0, <1>1, <1>6, <2>3 DEF Execute, TypeOK
    <3>2. /\ p2.startBlock = p.startBlock /\ p2.endBlock = p.endBlock
          /\ p2.forVotes = p.forVotes /\ p2.againstVotes = p.againstVotes
          /\ p2.canceled = p.canceled /\ p2.executed /\ p2.eta = p.eta
      BY <1>0, <3>1 DEF Proposal
    <3>3. StateIn(p2, block, timestamp, q) = "Executed"
      BY <3>1, <3>2 DEF StateIn
    <3>4. \/ StateIn(p2, block, timestamp, q2) = "Executed"
          \/ q2 > q /\ StateIn(p2, block, timestamp, q2) = "Defeated"
      BY <1>0, <3>3, QuorumRejudges DEF Rejudged
    <3>5. QED
      BY <1>1, <2>1, <3>1, <3>4 DEF Forward, Successors, Rejudged, Passed
  <2>4. CASE x # id
    BY <1>0, <1>1, <2>1, <2>2, <2>4, QuorumRejudges DEF Forward
  <2>5. QED
    BY <2>3, <2>4
<1>7. ASSUME NEW v \in Voters, NEW x \in Created, Cancel(v, x)
      PROVE  Forward(State(id), State(id)')
  <2>1. block' = block /\ timestamp' = timestamp /\ q2 = q
    BY <1>7 DEF Cancel, CancelTransactions, ledgerVars
  <2>2. x # id => p2 = p
    BY <1>0, <1>7 DEF Cancel, TypeOK
  <2>3. CASE x = id
    <3>1. p2 = [p EXCEPT !.canceled = TRUE] /\ State(id) # "Executed"
      BY <1>0, <1>7, <2>3 DEF Cancel, TypeOK
    <3>2. State(id)' = "Canceled"
      BY <1>0, <1>1, <3>1 DEF StateIn, Proposal
    <3>3. State(id) \in {"Canceled", "Pending", "Active", "Defeated", "Succeeded", "Expired", "Queued"}
      BY <1>1, <3>1 DEF StateIn
    <3>4. QED
      BY <3>2, <3>3 DEF Forward, Successors
  <2>4. QED
    BY <1>0, <1>2, <2>1, <2>2, <2>3
<1>8. CASE ProduceBlock
  <2>1. p2 = p /\ block' = block + 1 /\ q2 = q
    BY <1>8 DEF ProduceBlock, NextBlock, TimePasses, delegateVars
  <2>2. timestamp <= timestamp'
    <3>1. PICK dt \in TimeSteps : timestamp' = timestamp + dt
      BY <1>8 DEF ProduceBlock, TimePasses
    <3>2. dt \in Nat
      BY TimelockAssumption
    <3>3. QED
      BY <1>0, <3>1, <3>2
  <2>3. QED
    BY <1>2, <2>1, <2>2
<1>9. ASSUME UNCHANGED <<timestamp, block, delegateVars>>
      PROVE  Forward(State(id), State(id)') \/ Rejudged(State(id), State(id)', q, q2)
  <2>1. p2 = p
    BY <1>9 DEF delegateVars
  <2>2. QED
    BY <1>0, <1>1, <1>9, <2>1, QuorumRejudges DEF Forward
<1>10. MoveVotes => UNCHANGED <<timestamp, block, delegateVars>>
  BY DEF MoveVotes, ChangeVotes, timelockVars
<1>11. HandOverTimelock => UNCHANGED <<timestamp, block, delegateVars>>
  BY DEF HandOverTimelock, AcceptAdmin, ledgerVars
<1>12. (\E calls \in CallLists, eta \in Etas : SuccessorUsesTimelock(calls, eta))
          => UNCHANGED <<timestamp, block, delegateVars>>
  BY DEF SuccessorUsesTimelock, QueueTransactions, CancelTransactions, ExecuteTransactions, ledgerVars
<1>13. UNCHANGED vars => UNCHANGED <<timestamp, block, delegateVars>>
  BY DEF vars, ledgerVars, timelockVars
<1>14. QED
  BY <1>3, <1>4, <1>5, <1>6, <1>7, <1>8, <1>9, <1>10, <1>11, <1>12, <1>13 DEF Next

\* No call and no clock leads a proposal back, and Executed and Canceled are final, but for a
\* change of the quorum, which defeats what had passed or passes what was defeated (state).
THEOREM ProposalsMoveForward == Spec => LifecycleForward
<1>1. DelegateIInv /\ [Next]_vars =>
        [\A id \in Created : MovesForward(id) \/ Reassessed(id)]_vars
  BY StepKeepsIInv, LifecycleStep DEF MovesForward, Forward, Reassessed, Rejudged
<1>2. QED
  BY <1>1, DelegateInvariant, PTL DEF LifecycleForward, Spec

=============================================================================
