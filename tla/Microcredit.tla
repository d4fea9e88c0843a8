------------------------------ MODULE Microcredit ------------------------------
(***************************************************************************)
(* Microcredit (contracts/microcredit/MicrocreditImplementation.sol) with one  *)
(* token, cUSD: managers lend up to their limits, borrowers claim, repay with    *)
(* daily interest and move to other wallets, the owner mends what went wrong.    *)
(*                                                                           *)
(* Calls on several loans are the calls on one of them in turn.  Borrowers have  *)
(* whatever cUSD they pay.                                                     *)
(***************************************************************************)
EXTENDS Integers, Sequences, FiniteSets, Functions

CONSTANTS
  Wallets, Managers,
  None,             \* no address
  InitialPool,      \* cUSD of the contract
  Limits,           \* bound of the model: what managers may lend
  LoanAmounts,      \* bound of the model
  Interests,        \* bound of the model: percent a day
  RepaymentAmounts, \* bound of the model
  Corrections,      \* bound of the model: the debts editLoan sets
  Day,              \* moments of a day
  MaxTime,          \* bound of the model: the last moment
  MaxLoans,         \* bound of the model: loans of a user
  MaxTransactions   \* bound of the model: how many calls there are

ASSUME MicrocreditAssumption ==
  /\ None \notin Wallets \cup Managers
  /\ InitialPool \in Nat /\ Day \in Nat \ {0} /\ MaxTime \in Nat /\ MaxLoans \in Nat \ {0}
  /\ MaxTransactions \in Nat
  /\ \A set \in {Limits, LoanAmounts, Interests, RepaymentAmounts, Corrections} : set \subseteq Nat

VARIABLES
  managers,        \* whether they are listed, lentAmountLimit, lentAmount
  walletMetadata,  \* userId and movedTo of each wallet
  loans,           \* the loans of each user, by userId
  pool,            \* cUSD of the contract
  revenue,         \* cUSD sent to the revenue address
  donationMiner,   \* None, or whether DonationMiner accepts virtual donations from here
  time,
  rewarded,        \* history: the users and the loans whose end was rewarded
  transactions,    \* how many calls there have been
  canceled,        \* history: the loans that were canceled, by userId and loanId
  mended           \* history: what was set right by hand: loans, and managers of loans

history == <<canceled, mended>>
microcreditVars ==
  <<managers, walletMetadata, loans, pool, revenue, donationMiner, time, rewarded, transactions, history>>

usersLength == Len(loans)
UserOf(wallet) == walletMetadata[wallet].userId

MicrocreditInit ==
  /\ managers = [m \in Managers |-> [listed |-> FALSE, lentAmountLimit |-> 0, lentAmount |-> 0]]
  /\ walletMetadata = [w \in Wallets |-> [userId |-> 0, movedTo |-> None]]
  /\ loans = << >>
  /\ pool = InitialPool /\ revenue = 0
  /\ donationMiner = None
  /\ time = 1
  /\ rewarded = {}
  /\ transactions = 0
  /\ canceled = {} /\ mended = {}

(***************************************************************************)
(* Managers.                                                                *)
(***************************************************************************)
\* addManagers: for one that is listed already, a new limit.
AddManager(m, limit) ==
  /\ managers' = [managers EXCEPT ![m].listed = TRUE, ![m].lentAmountLimit = limit]
  /\ UNCHANGED <<walletMetadata, loans, pool, revenue, donationMiner, time, rewarded, history>>

RemoveManager(m) ==
  /\ managers[m].lentAmount = 0
  /\ managers' = [managers EXCEPT ![m].listed = FALSE, ![m].lentAmountLimit = 0]
  /\ UNCHANGED <<walletMetadata, loans, pool, revenue, donationMiner, time, rewarded, history>>

(***************************************************************************)
(* Loans, by the managers.                                                  *)
(***************************************************************************)
Canceled(loan) == loan.claimDeadline = 0
Ended(loan) == (loan.startDate > 0 /\ loan.lastComputedDebt = 0) \/ Canceled(loan)

\* _checkUserLoan: loans are counted from 0, by the wallet the user is at.
LoanExists(wallet, loanId) ==
  /\ UserOf(wallet) > 0 /\ walletMetadata[wallet].movedTo = None
  /\ loanId < Len(loans[UserOf(wallet)])
LoanOf(wallet, loanId) == loans[UserOf(wallet)][loanId + 1]
SetLoan(wallet, loanId, loan) == loans' = [loans EXCEPT ![UserOf(wallet)][loanId + 1] = loan]

\* Mutant: a wallet whose loan was never claimed may have another.
MayBorrowUnclaimed(wallet) ==
  UserOf(wallet) > 0 => \A loan \in Range(loans[UserOf(wallet)]) : Ended(loan) \/ loan.startDate = 0

MayBorrow(wallet) ==
  /\ walletMetadata[wallet].movedTo = None
  /\ UserOf(wallet) > 0 /\ loans[UserOf(wallet)] # << >> =>
       Ended(loans[UserOf(wallet)][Len(loans[UserOf(wallet)])])

NewLoan(m, amount, interest, deadline) ==
  [amountBorrowed |-> amount, dailyInterest |-> interest, claimDeadline |-> deadline, startDate |-> 0,
   lastComputedDebt |-> 0, lastComputedDate |-> 0, amountRepayed |-> 0, managerAddress |-> m]

\* addLoan; a wallet without a user gets one.
AddLoan(m, wallet, amount, interest, deadline) ==
  LET loan == NewLoan(m, amount, interest, deadline)
      user == UserOf(wallet)
  IN /\ managers[m].listed
     /\ deadline > time
     /\ MayBorrow(wallet)
     /\ managers[m].lentAmount + amount <= managers[m].lentAmountLimit
     /\ user > 0 => Len(loans[user]) < MaxLoans
     /\ managers' = [managers EXCEPT ![m].lentAmount = @ + amount]
     /\ IF user = 0
        THEN /\ walletMetadata' = [walletMetadata EXCEPT ![wallet].userId = usersLength + 1]
             /\ loans' = Append(loans, <<loan>>)
        ELSE /\ loans' = [loans EXCEPT ![user] = Append(@, loan)]
             /\ UNCHANGED walletMetadata
     /\ UNCHANGED <<pool, revenue, donationMiner, time, rewarded, history>>

\* editLoanClaimDeadlines, which brings a canceled loan back.
EditLoanClaimDeadline(wallet, loanId, deadline) ==
  /\ \E m \in Managers : managers[m].listed
  /\ LoanExists(wallet, loanId)
  /\ LoanOf(wallet, loanId).startDate = 0 /\ deadline > time
  /\ SetLoan(wallet, loanId, [LoanOf(wallet, loanId) EXCEPT !.claimDeadline = deadline])
  /\ mended' = IF ~Canceled(LoanOf(wallet, loanId)) THEN mended
               ELSE mended \cup {LoanOf(wallet, loanId).managerAddress, <<UserOf(wallet), loanId>>}
  /\ UNCHANGED <<managers, walletMetadata, pool, revenue, donationMiner, time, rewarded, canceled>>

CancelLoan(wallet, loanId) ==
  LET loan == LoanOf(wallet, loanId)
  IN /\ \E m \in Managers : managers[m].listed
     /\ LoanExists(wallet, loanId)
     /\ loan.startDate = 0 /\ ~Canceled(loan)
     /\ managers[loan.managerAddress].lentAmount >= loan.amountBorrowed
     /\ SetLoan(wallet, loanId, [loan EXCEPT !.claimDeadline = 0])
     /\ managers' = [managers EXCEPT ![loan.managerAddress].lentAmount = @ - loan.amountBorrowed]
     /\ canceled' = canceled \cup {<<UserOf(wallet), loanId>>}
     /\ UNCHANGED <<walletMetadata, pool, revenue, donationMiner, time, rewarded, mended>>

\* The new wallet is one of somebody's: the zero address, which the code takes as well and
\* which leaves the old wallet in use, is left out.
ChangeUserAddress(old, new) ==
  /\ \E m \in Managers : managers[m].listed
  /\ UserOf(old) > 0 /\ walletMetadata[old].movedTo = None
  /\ UserOf(new) = 0
  /\ walletMetadata' = [walletMetadata EXCEPT ![old].movedTo = new, ![new].userId = UserOf(old)]
  /\ UNCHANGED <<managers, loans, pool, revenue, donationMiner, time, rewarded, history>>

(***************************************************************************)
(* Loans, by the borrowers.                                                 *)
(***************************************************************************)
WithInterest(debt, interest) == (debt * (100 + interest)) \div 100

ClaimLoan(wallet, loanId) ==
  LET loan == LoanOf(wallet, loanId)
  IN /\ LoanExists(wallet, loanId)
     /\ loan.startDate = 0 /\ ~Canceled(loan) /\ loan.claimDeadline >= time
     /\ pool >= loan.amountBorrowed
     /\ pool' = pool - loan.amountBorrowed
     /\ SetLoan(wallet, loanId,
          [loan EXCEPT !.startDate = time, !.lastComputedDate = time,
                       !.lastComputedDebt = WithInterest(loan.amountBorrowed, loan.dailyInterest)])
     /\ UNCHANGED <<managers, walletMetadata, revenue, donationMiner, time, rewarded, history>>

DaysSince(loan) == (time - loan.lastComputedDate) \div Day

\* _calculateCurrentDebt
CurrentDebt(loan) ==
  LET after[n \in 0..DaysSince(loan)] ==
        IF n = 0 THEN loan.lastComputedDebt ELSE WithInterest(after[n - 1], loan.dailyInterest)
  IN after[DaysSince(loan)]

Smaller(a, b) == IF a < b THEN a ELSE b
Excess(a, b) == IF a > b THEN a - b ELSE 0

\* Mutant: all of a repayment that exceeds the principal counts for the manager.
PrincipalPartWhole(loan, amount) == IF loan.amountRepayed >= loan.amountBorrowed THEN 0 ELSE amount

\* What of a repayment goes to the contract: as long as there is principal to pay back.
PrincipalPart(loan, amount) == Smaller(amount, Excess(loan.amountBorrowed, loan.amountRepayed))

\* The last repayment is rewarded, if there is a DonationMiner and it accepts that.
Rewarded(wallet, loanId, repaid) ==
  IF repaid.lastComputedDebt > 0 THEN UNCHANGED rewarded
  ELSE /\ repaid.amountRepayed >= repaid.amountBorrowed
       /\ donationMiner # "refuses"
       /\ rewarded' = IF donationMiner = None THEN rewarded ELSE rewarded \cup {<<UserOf(wallet), loanId>>}

RepayLoan(wallet, loanId, repayment) ==
  LET loan == LoanOf(wallet, loanId)
      amount == Smaller(repayment, CurrentDebt(loan))
      principal == PrincipalPart(loan, amount)
      repaid == [loan EXCEPT !.lastComputedDebt = CurrentDebt(loan) - amount,
                             !.amountRepayed = @ + amount,
                             !.lastComputedDate = @ + DaysSince(loan) * Day]
  IN /\ repayment > 0
     /\ LoanExists(wallet, loanId)
     /\ loan.startDate > 0 /\ loan.lastComputedDebt > 0
     /\ pool' = pool + principal
     /\ revenue' = revenue + amount - principal
     /\ managers' = [managers EXCEPT ![loan.managerAddress].lentAmount = Excess(@, principal)]
     /\ SetLoan(wallet, loanId, repaid)
     /\ Rewarded(wallet, loanId, repaid)
     /\ UNCHANGED <<walletMetadata, donationMiner, time, history>>

(***************************************************************************)
(* The owner.                                                               *)
(***************************************************************************)
Correction(marks) == mended' = mended \cup marks /\ canceled' = canceled

\* setManagers: the loan goes to another manager, what the two have lent stays.
SetManager(wallet, loanId, m) ==
  LET loan == LoanOf(wallet, loanId)
  IN /\ UserOf(wallet) > 0 /\ loanId < Len(loans[UserOf(wallet)]) /\ loan.managerAddress # m
     /\ SetLoan(wallet, loanId, [loan EXCEPT !.managerAddress = m])
     /\ Correction({loan.managerAddress, m})
     /\ UNCHANGED <<managers, walletMetadata, pool, revenue, donationMiner, time, rewarded>>

\* editLoan, which compares lastComputedDate with what the owner has seen.
EditLoan(wallet, loanId, interest, debt, date) ==
  LET loan == LoanOf(wallet, loanId)
  IN /\ LoanExists(wallet, loanId)
     /\ loan.startDate > 0 /\ date \in loan.startDate..time
     /\ SetLoan(wallet, loanId, [loan EXCEPT !.dailyInterest = interest, !.lastComputedDebt = debt,
                                             !.lastComputedDate = date])
     /\ Correction({<<UserOf(wallet), loanId>>})
     /\ UNCHANGED <<managers, walletMetadata, pool, revenue, donationMiner, time, rewarded>>

UpdateDonationMiner(miner) ==
  /\ miner # donationMiner /\ donationMiner' = miner
  /\ UNCHANGED <<managers, walletMetadata, loans, pool, revenue, time, rewarded, history>>

TimePasses ==
  /\ time < MaxTime
  /\ time' = time + 1
  /\ UNCHANGED <<managers, walletMetadata, loans, pool, revenue, donationMiner, rewarded, transactions, history>>

LoanIds == 0..(MaxLoans - 1)
Deadlines == {time + 1}

Transaction ==
  \/ \E m \in Managers, limit \in Limits : AddManager(m, limit)
  \/ \E m \in Managers : RemoveManager(m)
  \/ \E m \in Managers, w \in Wallets, a \in LoanAmounts, i \in Interests, d \in Deadlines : AddLoan(m, w, a, i, d)
  \/ \E w \in Wallets, l \in LoanIds, d \in Deadlines : EditLoanClaimDeadline(w, l, d)
  \/ \E w \in Wallets, l \in LoanIds : CancelLoan(w, l) \/ ClaimLoan(w, l)
  \/ \E old, new \in Wallets : ChangeUserAddress(old, new)
  \/ \E w \in Wallets, l \in LoanIds, a \in RepaymentAmounts : RepayLoan(w, l, a)
  \/ \E w \in Wallets, l \in LoanIds, m \in Managers : SetManager(w, l, m)
  \/ \E w \in Wallets, l \in LoanIds, i \in Interests, debt \in Corrections, date \in 1..time : EditLoan(w, l, i, debt, date)
  \/ \E miner \in {None, "accepts", "refuses"} : UpdateDonationMiner(miner)

MicrocreditNext ==
  \/ transactions < MaxTransactions /\ transactions' = transactions + 1 /\ Transaction
  \/ TimePasses

MicrocreditSpec == MicrocreditInit /\ [][MicrocreditNext]_microcreditVars

(***************************************************************************)
(* Properties.                                                              *)
(***************************************************************************)
AllLoans == {id \in (1..usersLength) \X LoanIds : id[2] < Len(loans[id[1]])}
The(id) == loans[id[1]][id[2] + 1]
SumOver(ids, Amount(_)) == SumFunction([id \in ids |-> Amount(The(id))])

Unpaid(loan) == IF Canceled(loan) THEN 0 ELSE Excess(loan.amountBorrowed, loan.amountRepayed)
Lent(loan) == IF loan.startDate = 0 THEN 0 ELSE Excess(loan.amountBorrowed, loan.amountRepayed)
Gained(loan) == Excess(loan.amountRepayed, loan.amountBorrowed)

\* What a manager has lent is the principal that is out or promised, through partial
\* repayments, cancellations and moves, unless a loan of the manager was given to another
\* or brought back after it had been canceled; and the principal, and no interest,
\* comes back to the contract.  A borrower can always finish a loan: the debt never falls
\* below the principal that is left, or else the reward of the last repayment would be
\* negative and the repayment fail for ever.
BooksFollowLoans ==
  /\ \A m \in Managers \ mended :
       managers[m].lentAmount = SumOver({id \in AllLoans : The(id).managerAddress = m}, Unpaid)
  /\ pool + SumOver(AllLoans, Lent) = InitialPool
  /\ revenue = SumOver(AllLoans, Gained)
  /\ \A id \in AllLoans \ mended :
       The(id).lastComputedDebt > 0 =>
         The(id).amountRepayed + The(id).lastComputedDebt >= The(id).amountBorrowed

\* However users move, each is at one wallet and has one loan at a time, unless one of
\* the user's loans was brought back or its debt was set by hand.
AtOneWallet(u) ==
  \E w \in Wallets : \A v \in Wallets : (UserOf(v) = u /\ walletMetadata[v].movedTo = None) <=> v = w
OneLoan(u) ==
  \A i, j \in DOMAIN loans[u] : ~Ended(loans[u][i]) /\ ~Ended(loans[u][j]) => i = j
OneLoanAtATime ==
  \A u \in DOMAIN loans :
    /\ AtOneWallet(u)
    /\ (\A i \in DOMAIN loans[u] : <<u, i - 1>> \notin mended) => OneLoan(u)

\* A comment of _cancelLoan: the deadline becomes 0 to prevent claiming.
CanceledNeverClaimed == \A id \in canceled : The(id).startDate = 0
=============================================================================
