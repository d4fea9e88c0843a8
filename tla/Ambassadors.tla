------------------------------ MODULE Ambassadors ------------------------------
(***************************************************************************)
(* AmbassadorsImplementation.sol: entities have ambassadors, and ambassadors   *)
(* have communities.  Accounts may be replaced, so that the contract knows     *)
(* entities and ambassadors by indices, from 1 on, and keeps tables from       *)
(* accounts to indices and back.  An index of 0 says that there is none, but    *)
(* most checks compare indices without asking for 0.                          *)
(*                                                                           *)
(* `mishaps` is not in the code: it remembers what was done that the tables     *)
(* do not survive, so that the property can leave it out.                      *)
(***************************************************************************)
EXTENDS Integers, FiniteSets

CONSTANTS
  Accounts,          \* accounts that may become entities and ambassadors
  Owner,             \* the owner of the contract, which is none of them
  NoAccount,         \* the zero address
  Assigned,          \* the communities
  MaxEntities,       \* bound of the model: entities that are ever added
  MaxAmbassadors     \* bound of the model: ambassadors that are ever added

ASSUME AmbassadorsAssumption ==
  /\ Owner \notin Accounts /\ NoAccount \notin Accounts \cup {Owner}
  /\ MaxEntities \in Nat /\ MaxAmbassadors \in Nat

VARIABLES
  entityIndex, ambassadorIndex,             \* the next indices
  entityByAddress, entityByIndex,
  ambassadorByAddress, ambassadorByIndex,
  ambassadorToEntity,                       \* the entity of each ambassador
  entityAmbassadors,                        \* how many ambassadors each entity has
  communityToAmbassador,
  ambassadorCommunities,
  mishaps

entityVars == <<entityIndex, entityByAddress, entityByIndex>>
ambassadorVars == <<ambassadorIndex, ambassadorByAddress, ambassadorByIndex>>
memberVars == <<ambassadorToEntity, entityAmbassadors>>
communityVars == <<communityToAmbassador, ambassadorCommunities>>
ambassadorsVars == <<entityVars, ambassadorVars, memberVars, communityVars, mishaps>>

Everyone == Accounts \cup {Owner, NoAccount}
EntityIndices == 0..MaxEntities
AmbassadorIndices == 0..MaxAmbassadors

AmbassadorsInit ==
  /\ entityIndex = 1 /\ ambassadorIndex = 1
  /\ entityByAddress = [a \in Everyone |-> 0]
  /\ entityByIndex = [e \in EntityIndices |-> NoAccount]
  /\ ambassadorByAddress = [a \in Everyone |-> 0]
  /\ ambassadorByIndex = [i \in AmbassadorIndices |-> NoAccount]
  /\ ambassadorToEntity = [i \in AmbassadorIndices |-> 0]
  /\ entityAmbassadors = [e \in EntityIndices |-> 0]
  /\ communityToAmbassador = [c \in Assigned |-> 0]
  /\ ambassadorCommunities = [i \in AmbassadorIndices |-> {}]
  /\ mishaps = {}

IsEntity(a) == entityByAddress[a] # 0
IsAmbassador(a) == ambassadorByAddress[a] # 0
IsAmbassadorOf(a, c) == ambassadorByAddress[a] = communityToAmbassador[c]
IsAmbassadorAt(a, e) == ambassadorToEntity[ambassadorByAddress[a]] = entityByAddress[e]

(***************************************************************************)
(* Entities.                                                                *)
(***************************************************************************)
AddEntity(e) ==
  /\ ~IsEntity(e) /\ entityIndex <= MaxEntities
  /\ entityByAddress' = [entityByAddress EXCEPT ![e] = entityIndex]
  /\ entityByIndex' = [entityByIndex EXCEPT ![entityIndex] = e]
  /\ entityIndex' = entityIndex + 1
  /\ UNCHANGED <<ambassadorVars, memberVars, communityVars, mishaps>>

Dismiss(e) ==
  /\ entityByIndex' = [entityByIndex EXCEPT ![entityByAddress[e]] = NoAccount]
  /\ entityByAddress' = [entityByAddress EXCEPT ![e] = 0]
  /\ UNCHANGED <<entityIndex, ambassadorVars, memberVars, communityVars, mishaps>>

\* Mutant: an entity may go while it has ambassadors.
RemoveAnyEntity(e) == IsEntity(e) /\ Dismiss(e)
RemoveEntity(e) == IsEntity(e) /\ entityAmbassadors[entityByAddress[e]] = 0 /\ Dismiss(e)

\* By the entity or the owner.  The new account may be an entity, or the old account:
\* then an index is left that no account leads to.
ReplaceEntityAccount(e, new) ==
  LET lost == IF new = e THEN entityByAddress[e] ELSE entityByAddress[new]
  IN /\ IsEntity(e)
     /\ entityByIndex' = [entityByIndex EXCEPT ![entityByAddress[e]] = new]
     /\ entityByAddress' = [entityByAddress EXCEPT ![new] = entityByAddress[e], ![e] = 0]
     /\ mishaps' = IF lost = 0 THEN mishaps ELSE mishaps \cup {<<"entity", lost>>}
     /\ UNCHANGED <<entityIndex, ambassadorVars, memberVars, communityVars>>

(***************************************************************************)
(* Ambassadors.                                                             *)
(***************************************************************************)
AddAmbassador(sender, a) ==
  /\ IsEntity(sender) /\ ~IsAmbassador(a) /\ ambassadorIndex <= MaxAmbassadors
  /\ ambassadorByAddress' = [ambassadorByAddress EXCEPT ![a] = ambassadorIndex]
  /\ ambassadorByIndex' = [ambassadorByIndex EXCEPT ![ambassadorIndex] = a]
  /\ ambassadorToEntity' = [ambassadorToEntity EXCEPT ![ambassadorIndex] = entityByAddress[sender]]
  /\ entityAmbassadors' = [entityAmbassadors EXCEPT ![entityByAddress[sender]] = @ + 1]
  /\ ambassadorIndex' = ambassadorIndex + 1
  /\ UNCHANGED <<entityVars, communityVars, mishaps>>

\* The other tables keep the index.  Somebody who is no ambassador has the index 0,
\* which may be at an entity, too.
RemoveAmbassador(sender, a) ==
  /\ IsEntity(sender) /\ IsAmbassadorAt(a, sender)
  /\ ambassadorCommunities[ambassadorByAddress[a]] = {}
  /\ entityAmbassadors[entityByAddress[sender]] > 0
  /\ entityAmbassadors' = [entityAmbassadors EXCEPT ![entityByAddress[sender]] = @ - 1]
  /\ ambassadorByAddress' = [ambassadorByAddress EXCEPT ![a] = 0]
  /\ mishaps' = IF IsAmbassador(a) THEN mishaps ELSE mishaps \cup {<<"nobody removed">>}
  /\ UNCHANGED <<entityVars, ambassadorIndex, ambassadorByIndex, ambassadorToEntity, communityVars>>

\* _replaceAmbassadorAccountInternal
ReplacedAmbassador(old, new) ==
  /\ ambassadorByIndex' = [ambassadorByIndex EXCEPT ![ambassadorByAddress[old]] = new]
  /\ ambassadorByAddress' = [ambassadorByAddress EXCEPT ![new] = ambassadorByAddress[old], ![old] = 0]
  /\ UNCHANGED <<entityVars, ambassadorIndex, memberVars, communityVars, mishaps>>

\* replaceAmbassadorAccount, by the ambassador or the owner, or replaceAmbassador, by
\* the entity or the owner: the latter does not ask whether there is an ambassador.
ReplaceAmbassador(sender, old, new) ==
  /\ \/ sender = old /\ IsAmbassador(old)
     \/ sender = Owner
     \/ IsAmbassadorAt(old, sender)
  /\ ~IsAmbassador(new)
  /\ ReplacedAmbassador(old, new)

\* With or without communities.  The other entity may be none.
TransferAmbassador(sender, a, to) ==
  LET i == ambassadorByAddress[a]
      from == ambassadorToEntity[i]
  IN /\ sender = Owner \/ (IsEntity(sender) /\ IsAmbassadorAt(a, sender))
     /\ entityAmbassadors[from] > 0
     /\ ambassadorToEntity' = [ambassadorToEntity EXCEPT ![i] = entityByAddress[to]]
     /\ entityAmbassadors' =
          [[entityAmbassadors EXCEPT ![from] = @ - 1] EXCEPT ![entityByAddress[to]] = @ + 1]
     /\ UNCHANGED <<entityVars, ambassadorVars, communityVars, mishaps>>

(***************************************************************************)
(* Communities.                                                             *)
(***************************************************************************)
TransferCommunityToAmbassador(sender, to, c) ==
  LET from == ambassadorByIndex[communityToAmbassador[c]]
  IN /\ IsEntity(sender) \/ sender = Owner
     /\ IsAmbassadorOf(from, c) /\ ~IsAmbassadorOf(to, c)
     /\ sender = Owner \/ (IsAmbassadorAt(from, sender) /\ IsAmbassadorAt(to, sender))
     /\ communityToAmbassador' = [communityToAmbassador EXCEPT ![c] = ambassadorByAddress[to]]
     /\ ambassadorCommunities' =
          [[ambassadorCommunities EXCEPT ![ambassadorByAddress[from]] = @ \ {c}]
             EXCEPT ![ambassadorByAddress[to]] = @ \cup {c}]
     /\ UNCHANGED <<entityVars, ambassadorVars, memberVars, mishaps>>

\* By the administration of communities, for a community it adds or any other: the
\* ambassador it had keeps it in the set.
SetCommunityToAmbassador(a, c) ==
  /\ IsAmbassador(a) /\ ~IsAmbassadorOf(a, c)
  /\ communityToAmbassador' = [communityToAmbassador EXCEPT ![c] = ambassadorByAddress[a]]
  /\ ambassadorCommunities' = [ambassadorCommunities EXCEPT ![ambassadorByAddress[a]] = @ \cup {c}]
  /\ mishaps' = IF communityToAmbassador[c] = 0 THEN mishaps ELSE mishaps \cup {<<"community", c>>}
  /\ UNCHANGED <<entityVars, ambassadorVars, memberVars>>

RemoveCommunityOfAmbassador(c) ==
  LET a == ambassadorByIndex[communityToAmbassador[c]]
  IN /\ IsAmbassadorOf(a, c)
     /\ communityToAmbassador' = [communityToAmbassador EXCEPT ![c] = 0]
     /\ ambassadorCommunities' = [ambassadorCommunities EXCEPT ![ambassadorByAddress[a]] = @ \ {c}]
     /\ UNCHANGED <<entityVars, ambassadorVars, memberVars, mishaps>>

AmbassadorsNext ==
  \/ \E e \in Accounts : AddEntity(e) \/ RemoveEntity(e)
  \/ \E e, new \in Accounts : ReplaceEntityAccount(e, new)
  \/ \E sender, a \in Accounts : AddAmbassador(sender, a) \/ RemoveAmbassador(sender, a)
  \/ \E sender \in Accounts \cup {Owner}, old, new \in Accounts : ReplaceAmbassador(sender, old, new)
  \/ \E sender \in Accounts \cup {Owner}, a, to \in Accounts : TransferAmbassador(sender, a, to)
  \/ \E sender \in Accounts \cup {Owner}, to \in Accounts, c \in Assigned :
       TransferCommunityToAmbassador(sender, to, c)
  \/ \E a \in Accounts, c \in Assigned : SetCommunityToAmbassador(a, c)
  \/ \E c \in Assigned : RemoveCommunityOfAmbassador(c)

AmbassadorsSpec == AmbassadorsInit /\ [][AmbassadorsNext]_ambassadorsVars

(***************************************************************************)
(* Property.                                                                *)
(***************************************************************************)
Appointed(i) == i # 0 /\ ambassadorByAddress[ambassadorByIndex[i]] = i
AmbassadorsAt(e) == {i \in AmbassadorIndices : (i = 0 \/ Appointed(i)) /\ ambassadorToEntity[i] = e}
Nobody == <<"nobody removed">> \in mishaps

CommunitiesAppointed ==
  \A c \in Assigned : LET i == communityToAmbassador[c] IN
    i # 0 => Appointed(i) /\ c \in ambassadorCommunities[i]
CommunitiesListed ==
  \A i \in AmbassadorIndices \ {0} : \A c \in ambassadorCommunities[i] :
    communityToAmbassador[c] = i \/ <<"community", c>> \in mishaps
AmbassadorsCounted ==
  \A e \in EntityIndices \ {0} : entityAmbassadors[e] = Cardinality(AmbassadorsAt(e)) \/ Nobody
EntitiesExist ==
  \A i \in AmbassadorIndices : LET e == ambassadorToEntity[i] IN
    Appointed(i) /\ e # 0 =>
      entityByAddress[entityByIndex[e]] = e \/ <<"entity", e>> \in mishaps \/ Nobody

\* However accounts are replaced, and ambassadors and communities moved about: a
\* community's ambassador exists and has the community among its own, and nobody else
\* has, unless the administration gave a community away that had an ambassador; an
\* entity's number of ambassadors counts them (so that the entity can be removed once
\* they are gone), unless an entity removed somebody who was none; and the entity of an
\* ambassador exists, unless its account was replaced by the account of another.
TablesAgree == CommunitiesAppointed /\ CommunitiesListed /\ AmbassadorsCounted /\ EntitiesExist
=============================================================================
