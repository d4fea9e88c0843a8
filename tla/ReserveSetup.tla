------------------------------ MODULE ReserveSetup ------------------------------
(***************************************************************************)
(* The helpers that set up the reserves of the Moola lending pool:             *)
(* init-helpers.ts and oracles-helpers.ts.  An operator runs one helper after  *)
(* another; each computes what it is going to send and then sends it, one      *)
(* transaction after the other.  A run may stop between any two, because a     *)
(* transaction reverts, the connection is lost or the process is killed, and   *)
(* the operator runs it, or another helper, again.                            *)
(*                                                                           *)
(* The pool's contracts and deployed-contracts.json outlive the runs.  The     *)
(* contracts are Aave's and not in the repository: they are what the helpers   *)
(* rely on.                                                                  *)
(***************************************************************************)
EXTENDS Integers, Sequences, SequencesExt, FiniteSets

CONSTANTS
  Markets,       \* the markets by name: [symbols, config], the assets in the order of
                 \* the configuration and what it says of each
  InitChunks,    \* reserves initialized by one transaction: 4
  EnableChunks,  \* reserves configured, or rates set, by one transaction: 20
  MaxHelperRuns  \* bound of the model: how often a helper is run

ASSUME ReserveSetupAssumption ==
  /\ \A name \in DOMAIN Markets : LET m == Markets[name] IN
       /\ m.symbols \in Seq(DOMAIN m.config) /\ IsInjective(m.symbols)
       /\ DOMAIN m.config = ToSet(m.symbols) /\ "pool" \notin DOMAIN m.config
       /\ \A s \in DOMAIN m.config :
            /\ m.config[s].aTokenImpl \in {"AToken", "DelegationAwareAToken"}
            /\ m.config[s].strategy # "stableDebtTokenImpl"
  /\ InitChunks \in Nat \ {0} /\ EnableChunks \in Nat \ {0} /\ MaxHelperRuns \in Nat

VARIABLES
  market,       \* the name of the market that is set up: it stays as it is
  db,           \* deployed-contracts.json: addresses by the names the helpers look up
  reserves,     \* initialized reserves: the implementations and the strategy of each
  configured,   \* assets configured in the pool
  poolAdmin,    \* who may initialize and configure reserves
  oracleOwner,  \* who owns the lending rate oracle
  rates,        \* assets with an initial borrow rate in the oracle
  running,      \* the helper that runs and the transactions it has yet to send
  outcome,      \* how the last run of each helper that had something to send ended
  helperRuns    \* how many runs there were

reserveVars ==
  <<market, db, reserves, configured, poolAdmin, oracleOwner, rates, running, outcome, helperRuns>>

Symbols == Markets[market].symbols
ReservesConfig == Markets[market].config

Admin == "admin"      \* the operator's account
Helper == "helper"    \* the contracts the roles are lent to
Helpers == {"initReserves", "initTokenReserves", "configureReserves", "setMarketRates"}
NoHelper == [helper |-> "none", steps |-> << >>]

\* The reserves of the Moola market: all are collateral, and two strategies serve five.
MoolaSymbols == <<"CELO", "CUSD", "CEUR", "CREAL", "MOO">>
MoolaReserves ==
  [s \in ToSet(MoolaSymbols) |->
    [baseLTV    |-> CASE s = "CELO" -> 8000 [] s = "MOO" -> 5000 [] OTHER -> 7500,
     threshold  |-> CASE s = "CELO" -> 8250 [] s = "MOO" -> 6500 [] OTHER -> 8000,
     aTokenImpl |-> "AToken",
     strategy   |-> IF s \in {"CELO", "MOO"} THEN "rateStrategyWETH" ELSE "rateStrategyStableTwo"]]
MoolaMarket == [symbols |-> MoolaSymbols, config |-> MoolaReserves]

(***************************************************************************)
(* What the helpers compute.                                                *)
(***************************************************************************)

\* The elements of s that are in S.
Kept(s, S) ==
  LET kept[n \in 0..Len(s)] ==
        IF n = 0 THEN << >> ELSE IF s[n] \in S THEN Append(kept[n - 1], s[n]) ELSE kept[n - 1]
  IN kept[Len(s)]

\* Pieces of the given size, the last one shorter.
Chunk(s, size) ==
  [k \in 1..((Len(s) + size - 1) \div size) |->
     SubSeq(s, (k - 1) * size + 1, IF k * size < Len(s) THEN k * size ELSE Len(s))]

Calls(name, arguments) == [i \in DOMAIN arguments |-> [call |-> name, arg |-> arguments[i]]]

\* An address is known by what it is, whom it was made for and the run that made it.
\* What initReservesByHelper deploys is for all assets, and its strategies are told the
\* pool's address provider.
ForPool(what, run) == [what |-> what, for |-> "pool", run |-> run]

\* What initTokenReservesByHelper deploys is for one asset; a strategy is told the asset
\* where the address provider belongs, and nothing of it can be looked up in db.
ForAsset(what, symbol, run) == [what |-> what, for |-> symbol, run |-> run]

\* Mutant: db is not asked.
OwnAddress(id, otherwise) == otherwise

\* getAddressById, with what is deployed when there is no address.
AddressById(id, otherwise) == IF id \in DOMAIN db THEN db[id] ELSE otherwise

ATokenId(symbol) ==
  IF ReservesConfig[symbol].aTokenImpl = "AToken" THEN "aTokenImpl" ELSE "delegationAwareATokenImpl"

\* What initReservesByHelper deploys and writes to db: an aToken, another one if some
\* asset is aware of delegation, and each strategy once, by its name.  It deploys two
\* debt tokens before them, which it does not write.
ToDeploy ==
  LET strategy(i) == ReservesConfig[Symbols[i]].strategy
      first == Kept([i \in DOMAIN Symbols |-> i],
                    {i \in DOMAIN Symbols : \A j \in 1..(i - 1) : strategy(j) # strategy(i)})
  IN <<"aTokenImpl">>
     \o (IF \E s \in ToSet(Symbols) : ATokenId(s) = "delegationAwareATokenImpl"
         THEN <<"delegationAwareATokenImpl">> ELSE << >>)
     \o [k \in DOMAIN first |-> strategy(first[k])]

\* All reserves, whether they are initialized or not, with what this run deploys.
InitReservesByHelper(run) ==
  LET input(s) == [symbol |-> s, aToken |-> ForPool(ATokenId(s), run),
                   stableDebt |-> ForPool("stableDebtTokenImpl", run),
                   strategy |-> ForPool(ReservesConfig[s].strategy, run)]
  IN Calls("deploy", ToDeploy)
     \o Calls("batchInitReserve", Chunk([i \in DOMAIN Symbols |-> input(Symbols[i])], InitChunks))

\* The reserves that are not initialized, with what db has, or with what this run deploys
\* for each of them.  (What it deploys is lost with the run, so it is not a step.)
Uninitialized == Kept(Symbols, ToSet(Symbols) \ DOMAIN reserves)
InitTokenReservesByHelper(run) ==
  LET found(id, s) == AddressById(id, ForAsset(id, s, run))
      input(s) == [symbol |-> s, aToken |-> found(ATokenId(s), s),
                   stableDebt |-> found("stableDebtTokenImpl", s),
                   strategy |-> found(ReservesConfig[s].strategy, s)]
  IN Calls("batchInitReserve",
           Chunk([i \in DOMAIN Uninitialized |-> input(Uninitialized[i])], InitChunks))

\* The assets that are meant to be configured and are not collateral: one with a
\* threshold of 0 never is.
LeftToConfigure ==
  Kept(Symbols, {s \in ToSet(Symbols) : /\ ReservesConfig[s].baseLTV # -1
                                        /\ s \notin configured \/ ReservesConfig[s].threshold = 0})

\* Mutant: the role stays with the contract.
ConfigureAndKeep ==
  IF LeftToConfigure = << >> THEN << >>
  ELSE Calls("setPoolAdmin", <<Helper>>)
       \o Calls("configureReserves", Chunk(LeftToConfigure, EnableChunks))

\* The role is lent to a contract while there is something to configure.
ConfigureReservesByHelper ==
  IF LeftToConfigure = << >> THEN << >>
  ELSE Calls("setPoolAdmin", <<Helper>>)
       \o Calls("configureReserves", Chunk(LeftToConfigure, EnableChunks))
       \o Calls("setPoolAdmin", <<Admin>>)

SetInitialMarketRatesByHelper ==
  Calls("transferOwnership", <<Helper>>)
  \o Calls("setOracleBorrowRates", Chunk(Symbols, EnableChunks))
  \o Calls("setOracleOwnership", <<Admin>>)

StepsOf(helper, run) ==
  CASE helper = "initReserves"      -> InitReservesByHelper(run)
    [] helper = "initTokenReserves" -> InitTokenReservesByHelper(run)
    [] helper = "configureReserves" -> ConfigureReservesByHelper
    [] helper = "setMarketRates"    -> SetInitialMarketRatesByHelper

(***************************************************************************)
(* The runs.                                                                *)
(***************************************************************************)
ReserveSetupInit ==
  /\ market \in DOMAIN Markets
  /\ db = << >> /\ reserves = << >> /\ configured = {} /\ rates = {}
  /\ poolAdmin = Admin /\ oracleOwner = Admin
  /\ running = NoHelper
  /\ outcome = [h \in Helpers |-> "none"]
  /\ helperRuns = 0

EndRun(how) ==
  /\ running' = NoHelper
  /\ outcome' = [outcome EXCEPT ![running.helper] = how]

\* A run that finds nothing to send is over with that.
RunHelper(h) ==
  LET steps == StepsOf(h, helperRuns + 1) IN
  /\ running = NoHelper /\ helperRuns < MaxHelperRuns
  /\ running' = IF steps = << >> THEN NoHelper ELSE [helper |-> h, steps |-> steps]
  /\ helperRuns' = helperRuns + 1
  /\ UNCHANGED <<market, db, reserves, configured, poolAdmin, oracleOwner, rates, outcome>>

Step == Head(running.steps)
Sending == running.steps # << >>
SymbolsOf(inputs) == {i.symbol : i \in ToSet(inputs)}

\* What the contracts accept: who has the role, and that a reserve is initialized once.
\* The operator owns the address provider and may always name the pool admin.
HasRole ==
  /\ Step.call = "batchInitReserve" => poolAdmin = Admin
  /\ Step.call = "configureReserves" => poolAdmin = Helper
  /\ Step.call = "transferOwnership" => oracleOwner = Admin
  /\ Step.call \in {"setOracleBorrowRates", "setOracleOwnership"} => oracleOwner = Helper
NotInitialized == Step.call = "batchInitReserve" => SymbolsOf(Step.arg) \cap DOMAIN reserves = {}
TxAccepted == HasRole /\ NotInitialized

Transact(call) ==
  /\ Sending /\ Step.call = call /\ TxAccepted
  /\ running' = [running EXCEPT !.steps = Tail(@)]
  /\ UNCHANGED <<outcome, helperRuns>>

\* registerContractInJsonDb and rawInsertContractAddressInDb: an earlier address goes.
Deploy ==
  /\ Transact("deploy")
  /\ db' = [id \in DOMAIN db \cup {Step.arg} |->
              IF id = Step.arg THEN ForPool(id, helperRuns) ELSE db[id]]
  /\ UNCHANGED <<market, reserves, configured, poolAdmin, oracleOwner, rates>>

\* All reserves of the chunk, or none.
BatchInitReserve ==
  /\ Transact("batchInitReserve")
  /\ reserves' = [s \in DOMAIN reserves \cup SymbolsOf(Step.arg) |->
                    IF s \in DOMAIN reserves THEN reserves[s]
                    ELSE CHOOSE i \in ToSet(Step.arg) : i.symbol = s]
  /\ UNCHANGED <<market, db, configured, poolAdmin, oracleOwner, rates>>

SetPoolAdmin ==
  /\ Transact("setPoolAdmin")
  /\ poolAdmin' = Step.arg
  /\ UNCHANGED <<market, db, reserves, configured, oracleOwner, rates>>

ConfigureReserves ==
  /\ Transact("configureReserves")
  /\ configured' = configured \cup ToSet(Step.arg)
  /\ UNCHANGED <<market, db, reserves, poolAdmin, oracleOwner, rates>>

SetOracleBorrowRates ==
  /\ Transact("setOracleBorrowRates")
  /\ rates' = rates \cup ToSet(Step.arg)
  /\ UNCHANGED <<market, db, reserves, configured, poolAdmin, oracleOwner>>

\* The owner gives the oracle to the helper's contract, which gives it back.
MoveOracle ==
  /\ \/ Transact("transferOwnership")
     \/ Transact("setOracleOwnership")
  /\ oracleOwner' = Step.arg
  /\ UNCHANGED <<market, db, reserves, configured, poolAdmin, rates>>

Unmoved == UNCHANGED <<market, db, reserves, configured, poolAdmin, oracleOwner, rates, helperRuns>>

Finish == running # NoHelper /\ ~Sending /\ EndRun("done") /\ Unmoved
Revert == Sending /\ ~TxAccepted /\ EndRun(IF HasRole THEN "reverted" ELSE "refused") /\ Unmoved
Interrupt == Sending /\ EndRun("cut") /\ Unmoved

ReserveSetupNext ==
  \/ \E h \in Helpers : RunHelper(h)
  \/ Deploy \/ BatchInitReserve \/ SetPoolAdmin \/ ConfigureReserves
  \/ SetOracleBorrowRates \/ MoveOracle
  \/ Finish \/ Revert \/ Interrupt

ReserveSetupSpec == ReserveSetupInit /\ [][ReserveSetupNext]_reserveVars

(***************************************************************************)
(* Properties.                                                              *)
(***************************************************************************)

\* Between runs, the contracts that the roles are lent to hold one only if the last run
\* that lent it, or tried to, was stopped: the oracle until somebody else helps, as every
\* later run is refused; the pool until a run has something to configure, so for good if
\* all was configured when the run stopped, for then the next ones send nothing.
HandedBack ==
  running = NoHelper =>
    /\ oracleOwner = Helper => outcome["setMarketRates"] \in {"cut", "refused"}
    /\ poolAdmin = Helper => outcome["configureReserves"] = "cut"

\* Whatever ran before, and wherever it stopped, a reserve has the aToken and the strategy
\* its configuration names.  One of its own, which for a strategy means the wrong address
\* provider, it has only if db had none when it was initialized.  Not more than one run of
\* initReservesByHelper initializes reserves; initTokenReservesByHelper takes up where any
\* run stopped, and never fails for a reserve that is initialized.  And a run that is not
\* stopped leaves none of the assets out, the last chunk included.
ReservesAsConfigured ==
  /\ \A s \in DOMAIN reserves :
       LET named == [aToken |-> ATokenId(s), strategy |-> ReservesConfig[s].strategy]
       IN \A part \in DOMAIN named :
            LET address == reserves[s][part] IN
            /\ address.what = named[part]
            /\ \/ address.for = "pool"
               \/ address.for = s /\ (named[part] \notin DOMAIN db \/ db[named[part]].run > address.run)
  /\ Cardinality({reserves[s].stableDebt : s \in {t \in DOMAIN reserves : reserves[t].stableDebt.for = "pool"}}) <= 1
  /\ outcome["initTokenReserves"] # "reverted"
  /\ \A h \in {"initReserves", "initTokenReserves"} : outcome[h] = "done" => DOMAIN reserves = ToSet(Symbols)
  /\ outcome["configureReserves"] = "done" =>
       configured = {s \in ToSet(Symbols) : ReservesConfig[s].baseLTV # -1}
  /\ outcome["setMarketRates"] = "done" => rates = ToSet(Symbols)
=============================================================================
