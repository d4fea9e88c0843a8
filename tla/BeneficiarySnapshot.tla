-------------------------- MODULE BeneficiarySnapshot --------------------------
(***************************************************************************)
(* The scripts that list all communities (script/community/getCommunities.ts) *)
(* and collect their beneficiaries (getBeneficiaries.ts) while the chain moves *)
(* on.                                                                       *)
(*                                                                           *)
(* The second asks every community for the length of its list, all at once, then for  *)
(* the state of everybody on the lists, ChunkSize people at a time.  Answers   *)
(* come in any order and each tells the state of the chain at its own moment.  *)
(* The chain is what the script sees of it: the lists, which nobody ever       *)
(* leaves, and the states of beneficiaries.                                   *)
(***************************************************************************)
EXTENDS Integers, Sequences, FiniteSets, SequencesExt

CONSTANTS
  People,
  Communities,
  InitialCommunities,  \* the list of communities to begin with
  InitialLists,  \* the beneficiaries the communities begin with
  ChunkSize,     \* how many beneficiaries are asked for at a time
  MaxRuns,       \* bound of the model: how often the script is run
  MaxChanges     \* bound of the model: changes of the chain while the script runs

\* A list names nobody twice, and a community nobody has added yet has no list.
ASSUME SnapshotAssumption ==
  /\ IsFiniteSet(People) /\ IsFiniteSet(Communities)
  /\ InitialCommunities \in Seq(Communities) /\ IsInjective(InitialCommunities)
  /\ InitialLists \in [Communities -> Seq(People)]
  /\ \A c \in Communities : /\ IsInjective(InitialLists[c])
                            /\ c \notin Range(InitialCommunities) => InitialLists[c] = << >>
  /\ ChunkSize \in Nat \ {0} /\ MaxRuns \in Nat /\ MaxChanges \in Nat

VARIABLES
  communityList,    \* CommunityAdmin's list of communities
  beneficiaryList,  \* the list of each community
  state,            \* the state of each person in each community
  changes,          \* how often the chain has changed
  script,           \* the script: its phase, the answers it waits for, what it has found
  steady,           \* listed and valid in a community ever since the script started
  seen              \* valid in a community at some moment since the script started

chainVars == <<communityList, beneficiaryList, state, changes>>
snapshotVars == <<chainVars, script, steady, seen>>

(***************************************************************************)
(* The chain.                                                               *)
(***************************************************************************)
Enlisted(c) == IF c \in Range(communityList) THEN Range(beneficiaryList[c]) ELSE {}
ValidNow == {s \in Communities \X People : s[2] \in Enlisted(s[1]) /\ state[s[1]][s[2]] = "Valid"}

Changed ==
  /\ changes < MaxChanges /\ changes' = changes + 1
  /\ steady' = steady \cap ValidNow'
  /\ seen' = seen \cup ValidNow'
  /\ script' = script

\* addBeneficiary and its variants, for a person the community does not know.
Join(c, p) ==
  /\ c \in Range(communityList) /\ state[c][p] = "NONE"
  /\ state' = [state EXCEPT ![c][p] = "Valid"]
  /\ beneficiaryList' = [beneficiaryList EXCEPT ![c] = Append(@, p)]
  /\ communityList' = communityList
  /\ Changed

\* Locking, unlocking and removing: the list stays as it is.
ChangeState(c, p, from, to) ==
  /\ <<from, to>> \in {<<"Valid", "Locked">>, <<"Locked", "Valid">>, <<"Valid", "Removed">>,
                       <<"Locked", "Removed">>}
  /\ state[c][p] = from
  /\ state' = [state EXCEPT ![c][p] = to]
  /\ UNCHANGED <<communityList, beneficiaryList>>
  /\ Changed

\* Changing an address: the new one takes the state of the old one, and is not put on the list.
ChangeAddress(c, old, new) ==
  /\ old # new /\ state[c][old] \notin {"NONE", "AddressChanged"} /\ state[c][new] # "AddressChanged"
  /\ state' = [state EXCEPT ![c][old] = "AddressChanged",
                            ![c][new] = IF @ = "NONE" THEN state[c][old] ELSE @]
  /\ UNCHANGED <<communityList, beneficiaryList>>
  /\ Changed

AddCommunity(c) ==
  /\ c \notin Range(communityList)
  /\ communityList' = Append(communityList, c)
  /\ UNCHANGED <<beneficiaryList, state>>
  /\ Changed

(***************************************************************************)
(* The script.                                                              *)
(***************************************************************************)
NotStarted ==
  [phase |-> "idle", runs |-> 0, waiting |-> {}, lengths |-> << >>, todo |-> << >>, found |-> << >>]

Idle == script.phase \in {"idle", "listed", "written", "failed"}

\* getCommunities.ts: the length of the list, then all addresses at once, put down
\* as they come.
StartListing ==
  /\ Idle /\ script.runs < MaxRuns
  /\ script' = [NotStarted EXCEPT !.phase = "listing", !.runs = script.runs + 1, !.waiting = DOMAIN communityList]
  /\ steady' = {} /\ seen' = {}
  /\ UNCHANGED chainVars

GetCommunity(i) ==
  /\ script.phase = "listing" /\ i \in script.waiting
  /\ script' = [script EXCEPT !.waiting = @ \ {i}, !.found = Append(@, communityList[i])]
  /\ UNCHANGED <<chainVars, steady, seen>>

CommunitiesListed ==
  /\ script.phase = "listing" /\ script.waiting = {}
  /\ script' = [script EXCEPT !.phase = "listed"]
  /\ UNCHANGED <<chainVars, steady, seen>>

\* getBeneficiaries.ts: the length of the list, then one question for each community.
Start ==
  /\ Idle /\ script.runs < MaxRuns
  /\ script' = [NotStarted EXCEPT !.phase = "communities", !.runs = script.runs + 1, !.waiting = DOMAIN communityList,
                                  !.lengths = [i \in DOMAIN communityList |-> 0]]
  /\ steady' = ValidNow /\ seen' = ValidNow
  /\ UNCHANGED chainVars

\* parseCommunity
ParseCommunity(i) ==
  /\ script.phase = "communities" /\ i \in script.waiting
  /\ script' = [script EXCEPT !.waiting = @ \ {i}, !.lengths[i] = Len(beneficiaryList[communityList[i]])]
  /\ UNCHANGED <<chainVars, steady, seen>>

\* Everybody to ask for, community by community.
Questions(lengths) ==
  FlattenSeq([i \in DOMAIN lengths |-> [k \in 1..lengths[i] |-> <<communityList[i], k>>]])

CommunitiesParsed ==
  /\ script.phase = "communities" /\ script.waiting = {}
  /\ script' = [script EXCEPT !.phase = "beneficiaries", !.todo = Questions(script.lengths)]
  /\ UNCHANGED <<chainVars, steady, seen>>

\* getBeneficiaries: the next chunk, once the one before has been answered.
AskChunk ==
  LET n == IF ChunkSize < Len(script.todo) THEN ChunkSize ELSE Len(script.todo)
  IN /\ script.phase = "beneficiaries" /\ script.waiting = {} /\ n > 0
     /\ script' = [script EXCEPT !.waiting = Range(SubSeq(script.todo, 1, n)),
                                 !.todo = SubSeq(@, n + 1, Len(@))]
     /\ UNCHANGED <<chainVars, steady, seen>>

\* getCommunityBeneficiary: who is valid at the moment of the answer is taken.
Answer(c, k) ==
  LET p == beneficiaryList[c][k]
  IN /\ script.phase = "beneficiaries" /\ <<c, k>> \in script.waiting
     /\ script' = [script EXCEPT !.waiting = @ \ {<<c, k>>},
                                 !.found = IF state[c][p] = "Valid" THEN Append(@, p) ELSE @]
     /\ UNCHANGED <<chainVars, steady, seen>>

\* Mutant: the file is written without waiting for the last, incomplete chunk.
WriteEarly ==
  /\ script.phase = "beneficiaries" /\ script.todo = << >>
  /\ script' = [script EXCEPT !.phase = "written", !.waiting = {}]
  /\ UNCHANGED <<chainVars, steady, seen>>

Write ==
  /\ script.phase = "beneficiaries" /\ script.todo = << >> /\ script.waiting = {}
  /\ script' = [script EXCEPT !.phase = "written"]
  /\ UNCHANGED <<chainVars, steady, seen>>

\* A question that fails ends the script, with nothing written.
Fail ==
  /\ ~Idle /\ script.waiting # {}
  /\ script' = [NotStarted EXCEPT !.phase = "failed", !.runs = script.runs]
  /\ UNCHANGED <<chainVars, steady, seen>>

SnapshotInit ==
  /\ communityList = InitialCommunities
  /\ beneficiaryList = InitialLists
  /\ state = [c \in Communities |-> [p \in People |->
                IF p \in Range(InitialLists[c]) THEN "Valid" ELSE "NONE"]]
  /\ changes = 0
  /\ script = NotStarted
  /\ steady = {} /\ seen = {}

ChainNext ==
  \/ \E c \in Communities : AddCommunity(c)
  \/ \E c \in Communities, p \in People : Join(c, p)
  \/ \E c \in Communities, p \in People, from, to \in {"Valid", "Locked", "Removed"} : ChangeState(c, p, from, to)
  \/ \E c \in Communities, old, new \in People : ChangeAddress(c, old, new)

ScriptNext ==
  \/ CommunitiesListed \/ CommunitiesParsed \/ AskChunk \/ Write \/ Fail
  \/ \E i \in DOMAIN communityList : GetCommunity(i) \/ ParseCommunity(i)
  \/ \E c \in Communities : \E k \in DOMAIN beneficiaryList[c] : Answer(c, k)

SnapshotNext == StartListing \/ Start \/ ScriptNext \/ ChainNext

SnapshotSpec == SnapshotInit /\ [][SnapshotNext]_snapshotVars

(***************************************************************************)
(* Property.                                                                *)
(***************************************************************************)
IsPrefixInSomeOrder(found, whole) ==
  IsInjective(found) /\ Range(found) = {whole[i] : i \in 1..Len(found)}

\* However the answers interleave with each other and with what happens to the
\* communities meanwhile, the file has everybody who was listed and valid in a
\* community from beginning to end, and nobody who was not valid in one at some
\* moment in between, in no more copies than there are communities to be valid in.
\* A list of communities has each of them once, but for those added meanwhile.
SnapshotTakesTheValid ==
  /\ script.phase = "written" =>
       /\ \A s \in steady : s[2] \in Range(script.found)
       /\ \A p \in Range(script.found) :
            Cardinality({i \in DOMAIN script.found : script.found[i] = p})
              <= Cardinality({s \in seen : s[2] = p})
  /\ script.phase = "listed" => IsPrefixInSomeOrder(script.found, communityList)
=============================================================================
