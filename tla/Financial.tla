----------------------------- MODULE Financial -----------------------------
(***************************************************************************)
(* The money of payments: how an amount is split into charge, payout and   *)
(* platform fee, and the journals that funding, completion and refund      *)
(* write to ledger_entries. Amounts are integers, in cents, as they are in *)
(* calculatePaymentBreakdown; up to the limit of moneyToCents the doubles  *)
(* that carry them to NUMERIC(18,2) hold every cent exactly.               *)
(*                                                                         *)
(* Which request may post which journal, and how often, is the matter of   *)
(* PaymentLifecycle; here each posting is one transaction, which commits   *)
(* if the journal passes assertBalanced and the table's row constraint.    *)
(***************************************************************************)
EXTENDS Integers

CONSTANTS
    Payments,  \* payments, one for each job
    MaxCents   \* the largest amount moneyToCents takes

ASSUME FinancialAssumption == MaxCents \in Nat

VARIABLES
    status,     \* "NONE" until funded, then how the payment ended
    breakdown,  \* the amounts on the payments row
    balance,    \* debits minus credits of the payment's ledger rows, per account
    refused     \* postings that threw and were rolled back, and why

vars == <<status, breakdown, balance, refused>>

-----------------------------------------------------------------------------
Kinds    == {"JOB", "MISSION"}
Accounts == {"PLATFORM_CASH", "ESCROW_LIABILITY", "USER_PAYABLE", "PLATFORM_FEE_REVENUE"}
Amounts  == 1..MaxCents
Statuses == {"NONE", "FUNDED", "RELEASED", "REFUNDED"}
Breakdowns == [base : Int, platformFee : Int, charge : Int, payout : Int]

NoBreakdown == [base |-> 0, platformFee |-> 0, charge |-> 0, payout |-> 0]

-----------------------------------------------------------------------------
(* The split.                                                              *)

EmployerFeeRate(kind) == IF kind = "MISSION" THEN 10 ELSE 30
WorkerFeeRate(kind)   == IF kind = "MISSION" THEN 10 ELSE 0

FeeRoundedUp(cents, rate) == (cents * rate + 99) \div 100 \* a slip
\* Math.round(cents * rate / 100): halves go up.
Fee(cents, rate) == (cents * rate + 50) \div 100

JointFee(kind, cents) == \* a slip: the two fees are added before rounding
    Fee(cents, EmployerFeeRate(kind) + WorkerFeeRate(kind))
PlatformFee(kind, cents) == Fee(cents, EmployerFeeRate(kind)) + Fee(cents, WorkerFeeRate(kind))

Breakdown(kind, cents) ==
    [base        |-> cents,
     platformFee |-> PlatformFee(kind, cents),
     charge      |-> cents + Fee(cents, EmployerFeeRate(kind)),
     payout      |-> cents - Fee(cents, WorkerFeeRate(kind))]

-----------------------------------------------------------------------------
(* A journal maps the accounts it has an entry for to that entry.          *)

DebitOf(cents)  == [debit |-> cents, credit |-> 0]
CreditOf(cents) == [debit |-> 0, credit |-> cents]

FundingJournal(b) ==
    [a \in {"PLATFORM_CASH", "ESCROW_LIABILITY", "PLATFORM_FEE_REVENUE"} |->
        CASE a = "PLATFORM_CASH"        -> DebitOf(b.charge)
          [] a = "ESCROW_LIABILITY"     -> CreditOf(b.payout)
          [] a = "PLATFORM_FEE_REVENUE" -> CreditOf(b.platformFee)]

ReleaseJournal(b) ==
    [a \in {"ESCROW_LIABILITY", "USER_PAYABLE"} |->
        IF a = "ESCROW_LIABILITY" THEN DebitOf(b.payout) ELSE CreditOf(b.payout)]

PayoutOfCharge(b) == \* a slip: the employer's amount is paid out
    [a \in {"USER_PAYABLE", "PLATFORM_CASH"} |->
        IF a = "USER_PAYABLE" THEN DebitOf(b.charge) ELSE CreditOf(b.charge)]
PayoutJournal(b) ==
    [a \in {"USER_PAYABLE", "PLATFORM_CASH"} |->
        IF a = "USER_PAYABLE" THEN DebitOf(b.payout) ELSE CreditOf(b.payout)]

RefundJournal(b) ==
    [a \in {"PLATFORM_CASH", "ESCROW_LIABILITY", "PLATFORM_FEE_REVENUE"} |->
        CASE a = "PLATFORM_CASH"        -> CreditOf(b.charge)
          [] a = "ESCROW_LIABILITY"     -> DebitOf(b.payout)
          [] a = "PLATFORM_FEE_REVENUE" -> DebitOf(b.platformFee)]

Entry(journal, a) == IF a \in DOMAIN journal THEN journal[a] ELSE DebitOf(0)

\* assertBalanced, and the deferred trigger ledger_journal_balance_deferred.
Balanced(journal) ==
    Entry(journal, "PLATFORM_CASH").debit + Entry(journal, "ESCROW_LIABILITY").debit
        + Entry(journal, "USER_PAYABLE").debit + Entry(journal, "PLATFORM_FEE_REVENUE").debit
    = Entry(journal, "PLATFORM_CASH").credit + Entry(journal, "ESCROW_LIABILITY").credit
        + Entry(journal, "USER_PAYABLE").credit + Entry(journal, "PLATFORM_FEE_REVENUE").credit

\* The check constraint of ledger_entries: one side positive, the other zero.
RowsAccepted(journal) ==
    \A a \in DOMAIN journal : \/ journal[a].debit = 0 /\ journal[a].credit > 0
                              \/ journal[a].credit = 0 /\ journal[a].debit > 0

Postable(journal) == Balanced(journal) /\ RowsAccepted(journal)

AfterOwn(books, journal) == \* a slip: the accounts the journal does not name are lost
    [a \in DOMAIN journal |-> books[a] + journal[a].debit - journal[a].credit]
After(books, journal) ==
    [a \in Accounts |-> books[a] + Entry(journal, a).debit - Entry(journal, a).credit]

-----------------------------------------------------------------------------
Init ==
    /\ status = [p \in Payments |-> "NONE"]
    /\ breakdown = [p \in Payments |-> NoBreakdown]
    /\ balance = [p \in Payments |-> [a \in Accounts |-> 0]]
    /\ refused = [p \in Payments |-> {}]

Commit(p, to, b, books) ==
    /\ status' = [status EXCEPT ![p] = to]
    /\ breakdown' = [breakdown EXCEPT ![p] = b]
    /\ balance' = [balance EXCEPT ![p] = books]
    /\ UNCHANGED refused

\* The exception rolls the whole transaction back.
Refuse(p, posting, isBalanced) ==
    /\ refused' = [refused EXCEPT ![p] = @ \cup {[posting |-> posting, balanced |-> isBalanced]}]
    /\ UNCHANGED <<status, breakdown, balance>>

\* fundJobAtomic inserts the payments row and the funding journal.
Fund(p, kind, cents) ==
    LET b == Breakdown(kind, cents)
        j == FundingJournal(b)
    IN  /\ status[p] = "NONE"
        /\ IF Postable(j) THEN Commit(p, "FUNDED", b, After(balance[p], j))
                          ELSE Refuse(p, "FUND", Balanced(j))

\* A worker or a webhook completes the release, with the amounts on the row.
Release(p) ==
    LET b == breakdown[p]
        release == ReleaseJournal(b)
        payout  == PayoutJournal(b)
    IN  /\ status[p] = "FUNDED"
        /\ IF Postable(release) /\ Postable(payout)
           THEN Commit(p, "RELEASED", b, After(After(balance[p], release), payout))
           ELSE Refuse(p, "RELEASE", Balanced(release) /\ Balanced(payout))

\* So they complete a refund.
Refund(p) ==
    LET b == breakdown[p]
        j == RefundJournal(b)
    IN  /\ status[p] = "FUNDED"
        /\ IF Postable(j) THEN Commit(p, "REFUNDED", b, After(balance[p], j))
                          ELSE Refuse(p, "REFUND", Balanced(j))

Next ==
    \E p \in Payments :
        \/ \E kind \in Kinds, cents \in Amounts : Fund(p, kind, cents)
        \/ Release(p)
        \/ Refund(p)

Spec == Init /\ [][Next]_vars

-----------------------------------------------------------------------------
Refusals == [posting : {"FUND", "RELEASE", "REFUND"}, balanced : BOOLEAN]

TypeOK ==
    /\ status \in [Payments -> Statuses]
    /\ breakdown \in [Payments -> Breakdowns]
    /\ balance \in [Payments -> [Accounts -> Int]]
    /\ refused \in [Payments -> SUBSET Refusals]

\* What the books of a payment say is what its status says, to the cent: money
\* in escrow is owed to the worker and the platform, a completed payment leaves
\* the platform its fee and nothing else open, a refund undoes the funding
\* (financial.js:64-100).
Stand(books, cash, escrow, fee) ==
    /\ books["PLATFORM_CASH"] = cash
    /\ books["ESCROW_LIABILITY"] = escrow
    /\ books["USER_PAYABLE"] = 0
    /\ books["PLATFORM_FEE_REVENUE"] = fee
BooksFollowStatus ==
    \A p \in Payments :
        LET b == breakdown[p] IN
        /\ status[p] \in {"NONE", "REFUNDED"} => Stand(balance[p], 0, 0, 0)
        /\ status[p] = "FUNDED"   => Stand(balance[p], b.charge, -b.payout, -b.platformFee)
        /\ status[p] = "RELEASED" => Stand(balance[p], b.platformFee, 0, -b.platformFee)

\* No amount and no rounding ever lets assertBalanced throw, and once a payment
\* is funded the ledger takes the journals that end it: money is never stuck
\* because a row or a sum is refused (financial.js:57-62, db/schema.js:105).
OnlyFundingRefused ==
    \A p \in Payments : refused[p] \subseteq {[posting |-> "FUND", balanced |-> TRUE]}

\* Fees take from the worker and add for the employer, never the other way
\* round or everything (financial.js:26-35).
FeesBounded ==
    \A p \in Payments :
        LET b == breakdown[p] IN
        status[p] # "NONE" => /\ 0 < b.payout /\ b.payout <= b.base /\ b.base <= b.charge
                              /\ b.platformFee = b.charge - b.payout
                              /\ 2 * b.platformFee < b.charge

-----------------------------------------------------------------------------
(* A statement of the repository that this code breaks.                    *)

\* policies/validation.js:42: an amount of money is a positive amount with at
\* most two decimal places, so that every job with one can be funded.
EveryAmountFunds == \A p \in Payments : refused[p] = {}
=============================================================================
