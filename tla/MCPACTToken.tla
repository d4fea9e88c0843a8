----------------------------- MODULE MCPACTToken -----------------------------
(***************************************************************************)
(* Instances of PACTToken and of PriorVotesSearch for TLC: a behaviour is one *)
(* of the token, or one search in some history of checkpoints.               *)
(***************************************************************************)
EXTENDS PACTToken, PriorVotesSearch, FiniteSets, SequencesExt

CONSTANTS alice, bob, pactToken, MaxFrom

VARIABLE program

(***************************************************************************)
(* Histories: every increasing sequence of checkpoints from 1..MaxFrom.      *)
(***************************************************************************)
MCBlocks == 0..(MaxFrom + 1)

\* Votes differ from block to block, so that a wrong index shows; the block
\* MaxFrom leaves the account without votes.
HistoryOf(blocks) ==
  LET sorted == SetToSortSeq(blocks, <)
  IN  [i \in 1..Len(sorted) |-> [fromBlock |-> sorted[i], votes |-> sorted[i] % MaxFrom]]

MCHistories == {HistoryOf(S) : S \in SUBSET (1..MaxFrom)}

(***************************************************************************)
(* Messages.                                                                *)
(***************************************************************************)

\* Alice has signed a delegation and a permit with the same nonce, and a
\* later revocation of the delegation.  The permit expires early.
MCMessages ==
  { [kind |-> "delegate", signer |-> alice, to |-> bob, value |-> 0, nonce |-> 0, deadline |-> 2],
    [kind |-> "permit", signer |-> alice, to |-> bob, value |-> 1, nonce |-> 0, deadline |-> 1],
    [kind |-> "delegate", signer |-> alice, to |-> ZeroAddress, value |-> 0, nonce |-> 1, deadline |-> 2] }

\* Bound of the instance: allowances and messages are used in the first two
\* blocks only; the later blocks are for transfers and delegations.
Quiet == allowances = [a \in Accounts |-> [s \in Spenders |-> 0]] /\ \A m \in Messages : applied[m] = 0
EarlyMessages == block <= 2 \/ Quiet

(***************************************************************************)
(* Either program.                                                          *)
(***************************************************************************)
NoSearch ==
  cps = << >> /\ blockNumber = 0 /\ pc = "done" /\ lower = 1 /\ upper = 1 /\ result = 0

MCInit ==
  /\ Init
  /\ \/ program = "token" /\ NoSearch
     \/ program = "search" /\ SearchInit

MCNext ==
  /\ program' = program
  /\ \/ program = "token" /\ Next /\ UNCHANGED searchVars
     \/ program = "search" /\ SearchNext /\ UNCHANGED vars

MCSpec ==
  /\ MCInit /\ [][MCNext]_<<program, vars, searchVars>>
  /\ WF_searchVars(program = "search" /\ SearchNext /\ UNCHANGED <<program, vars>>)
=============================================================================
