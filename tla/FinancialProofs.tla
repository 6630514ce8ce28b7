--------------------------- MODULE FinancialProofs ---------------------------
(* Proofs about Financial for every amount and any number of payments.      *)
EXTENDS Financial, TLAPS

-----------------------------------------------------------------------------
(* Arithmetic of the split.                                                 *)

\* A fee is the nearest whole cent, halves upwards.
LEMMA FeeIsNearest ==
    ASSUME NEW cents \in Nat, NEW rate \in Nat
    PROVE  /\ Fee(cents, rate) \in Int
           /\ 100 * Fee(cents, rate) <= cents * rate + 50
           /\ cents * rate + 50 < 100 * Fee(cents, rate) + 100
<1>1. cents * rate \in Nat
    OBVIOUS
<1>2. \A n \in Nat : n \div 100 \in Int /\ 100 * (n \div 100) <= n /\ n < 100 * (n \div 100) + 100
    OBVIOUS
<1>3. cents * rate + 50 \in Nat
    BY <1>1
<1> QED
    BY <1>1, <1>2, <1>3 DEF Fee

\* What a funded payment's amounts satisfy, whatever the rates and the rounding.
Sound(b) ==
    /\ b \in Breakdowns
    /\ 0 < b.payout /\ b.payout <= b.base /\ b.base <= b.charge
    /\ b.platformFee = b.charge - b.payout
    /\ 0 <= b.platformFee /\ 2 * b.platformFee < b.charge

\* Every split of a valid amount is sound.
LEMMA BreakdownSound ==
    ASSUME NEW kind \in Kinds, NEW cents \in Amounts
    PROVE  Sound(Breakdown(kind, cents))
<1>1. cents \in Nat /\ cents >= 1
    BY FinancialAssumption DEF FinancialAssumption, Amounts
<1> DEFINE e == Fee(cents, EmployerFeeRate(kind))
           w == Fee(cents, WorkerFeeRate(kind))
<1>2. CASE kind = "MISSION"
  <2>1. EmployerFeeRate(kind) = 10 /\ WorkerFeeRate(kind) = 10
    BY <1>2 DEF EmployerFeeRate, WorkerFeeRate
  <2>2. e = w /\ w \in Int /\ 100 * w <= cents * 10 + 50 /\ cents * 10 + 50 < 100 * w + 100
    BY <1>1, <2>1, FeeIsNearest
  <2>3. 0 <= w /\ w < cents /\ 4 * w < cents + w
    BY <1>1, <2>2
  <2> QED
    BY <1>1, <2>2, <2>3 DEF Breakdown, PlatformFee, Sound, Breakdowns
<1>3. CASE kind = "JOB"
  <2>1. EmployerFeeRate(kind) = 30 /\ WorkerFeeRate(kind) = 0
    BY <1>3 DEF EmployerFeeRate, WorkerFeeRate
  <2>2. w = 0
    <3>1. w = Fee(cents, 0) /\ cents * 0 = 0
      BY <1>1, <2>1
    <3>2. w \in Int /\ 100 * w <= 50 /\ 50 < 100 * w + 100
      BY <1>1, <3>1, FeeIsNearest
    <3> QED
      BY <3>2
  <2>3. e \in Int /\ 100 * e <= cents * 30 + 50 /\ cents * 30 + 50 < 100 * e + 100
    BY <1>1, <2>1, FeeIsNearest
  <2>4. 0 <= e /\ e < cents
    BY <1>1, <2>3
  <2> QED
    BY <1>1, <2>2, <2>3, <2>4 DEF Breakdown, PlatformFee, Sound, Breakdowns
<1> QED
    BY <1>2, <1>3 DEF Kinds

-----------------------------------------------------------------------------
(* Journals of sound amounts.                                               *)

\* The two sides of an entry.
LEMMA Sides == \A c : /\ DebitOf(c).debit = c /\ DebitOf(c).credit = 0
                      /\ CreditOf(c).debit = 0 /\ CreditOf(c).credit = c
    BY DEF DebitOf, CreditOf

\* The entries each journal has.
LEMMA JournalEntries ==
    ASSUME NEW b
    PROVE  /\ /\ DOMAIN FundingJournal(b) = {"PLATFORM_CASH", "ESCROW_LIABILITY", "PLATFORM_FEE_REVENUE"}
              /\ FundingJournal(b)["PLATFORM_CASH"] = DebitOf(b.charge)
              /\ FundingJournal(b)["ESCROW_LIABILITY"] = CreditOf(b.payout)
              /\ FundingJournal(b)["PLATFORM_FEE_REVENUE"] = CreditOf(b.platformFee)
           /\ /\ DOMAIN ReleaseJournal(b) = {"ESCROW_LIABILITY", "USER_PAYABLE"}
              /\ ReleaseJournal(b)["ESCROW_LIABILITY"] = DebitOf(b.payout)
              /\ ReleaseJournal(b)["USER_PAYABLE"] = CreditOf(b.payout)
           /\ /\ DOMAIN PayoutJournal(b) = {"USER_PAYABLE", "PLATFORM_CASH"}
              /\ PayoutJournal(b)["USER_PAYABLE"] = DebitOf(b.payout)
              /\ PayoutJournal(b)["PLATFORM_CASH"] = CreditOf(b.payout)
           /\ /\ DOMAIN RefundJournal(b) = {"PLATFORM_CASH", "ESCROW_LIABILITY", "PLATFORM_FEE_REVENUE"}
              /\ RefundJournal(b)["PLATFORM_CASH"] = CreditOf(b.charge)
              /\ RefundJournal(b)["ESCROW_LIABILITY"] = DebitOf(b.payout)
              /\ RefundJournal(b)["PLATFORM_FEE_REVENUE"] = DebitOf(b.platformFee)
<1>1. /\ DOMAIN FundingJournal(b) = {"PLATFORM_CASH", "ESCROW_LIABILITY", "PLATFORM_FEE_REVENUE"}
      /\ FundingJournal(b)["PLATFORM_CASH"] = DebitOf(b.charge)
      /\ FundingJournal(b)["ESCROW_LIABILITY"] = CreditOf(b.payout)
      /\ FundingJournal(b)["PLATFORM_FEE_REVENUE"] = CreditOf(b.platformFee)
    BY DEF FundingJournal
<1>2. /\ DOMAIN ReleaseJournal(b) = {"ESCROW_LIABILITY", "USER_PAYABLE"}
      /\ ReleaseJournal(b)["ESCROW_LIABILITY"] = DebitOf(b.payout)
      /\ ReleaseJournal(b)["USER_PAYABLE"] = CreditOf(b.payout)
    BY DEF ReleaseJournal
<1>3. /\ DOMAIN PayoutJournal(b) = {"USER_PAYABLE", "PLATFORM_CASH"}
      /\ PayoutJournal(b)["USER_PAYABLE"] = DebitOf(b.payout)
      /\ PayoutJournal(b)["PLATFORM_CASH"] = CreditOf(b.payout)
    BY DEF PayoutJournal
<1>4. /\ DOMAIN RefundJournal(b) = {"PLATFORM_CASH", "ESCROW_LIABILITY", "PLATFORM_FEE_REVENUE"}
      /\ RefundJournal(b)["PLATFORM_CASH"] = CreditOf(b.charge)
      /\ RefundJournal(b)["ESCROW_LIABILITY"] = DebitOf(b.payout)
      /\ RefundJournal(b)["PLATFORM_FEE_REVENUE"] = DebitOf(b.platformFee)
    BY DEF RefundJournal
<1> QED
    BY <1>1, <1>2, <1>3, <1>4

\* What a journal adds to each account.
Nets(journal, cash, escrow, payable, fee) ==
    /\ \A a \in Accounts : Entry(journal, a).debit \in Int /\ Entry(journal, a).credit \in Int
    /\ Entry(journal, "PLATFORM_CASH").debit - Entry(journal, "PLATFORM_CASH").credit = cash
    /\ Entry(journal, "ESCROW_LIABILITY").debit - Entry(journal, "ESCROW_LIABILITY").credit = escrow
    /\ Entry(journal, "USER_PAYABLE").debit - Entry(journal, "USER_PAYABLE").credit = payable
    /\ Entry(journal, "PLATFORM_FEE_REVENUE").debit - Entry(journal, "PLATFORM_FEE_REVENUE").credit = fee

\* Funding takes the charge in and owes payout and fee.
LEMMA FundingNets == ASSUME NEW b, Sound(b) PROVE Nets(FundingJournal(b), b.charge, -b.payout, 0, -b.platformFee)
<1>1. b.charge \in Int /\ b.payout \in Int /\ b.platformFee \in Int
    BY DEF Sound, Breakdowns
<1> DEFINE j == FundingJournal(b)
<1>2. /\ Entry(j, "PLATFORM_CASH") = DebitOf(b.charge)
      /\ Entry(j, "ESCROW_LIABILITY") = CreditOf(b.payout)
      /\ Entry(j, "USER_PAYABLE") = DebitOf(0)
      /\ Entry(j, "PLATFORM_FEE_REVENUE") = CreditOf(b.platformFee)
    BY JournalEntries DEF Entry
<1>3. /\ Entry(j, "PLATFORM_CASH").debit = b.charge /\ Entry(j, "PLATFORM_CASH").credit = 0
      /\ Entry(j, "ESCROW_LIABILITY").debit = 0 /\ Entry(j, "ESCROW_LIABILITY").credit = b.payout
    BY <1>2, Sides
<1>4. /\ Entry(j, "USER_PAYABLE").debit = 0 /\ Entry(j, "USER_PAYABLE").credit = 0
      /\ Entry(j, "PLATFORM_FEE_REVENUE").debit = 0 /\ Entry(j, "PLATFORM_FEE_REVENUE").credit = b.platformFee
    BY <1>2, Sides
<1> HIDE DEF j
<1>5. Nets(j, b.charge, -b.payout, 0, -b.platformFee)
    BY <1>1, <1>3, <1>4 DEF Nets, Accounts
<1> QED
    BY <1>5 DEF j

\* Release moves the payout from escrow to the worker.
LEMMA ReleaseNets == ASSUME NEW b, Sound(b) PROVE Nets(ReleaseJournal(b), 0, b.payout, -b.payout, 0)
<1>1. b.charge \in Int /\ b.payout \in Int /\ b.platformFee \in Int
    BY DEF Sound, Breakdowns
<1> DEFINE j == ReleaseJournal(b)
<1>2. /\ Entry(j, "PLATFORM_CASH") = DebitOf(0)
      /\ Entry(j, "ESCROW_LIABILITY") = DebitOf(b.payout)
      /\ Entry(j, "USER_PAYABLE") = CreditOf(b.payout)
      /\ Entry(j, "PLATFORM_FEE_REVENUE") = DebitOf(0)
    BY JournalEntries DEF Entry
<1>3. /\ Entry(j, "PLATFORM_CASH").debit = 0 /\ Entry(j, "PLATFORM_CASH").credit = 0
      /\ Entry(j, "ESCROW_LIABILITY").debit = b.payout /\ Entry(j, "ESCROW_LIABILITY").credit = 0
    BY <1>2, Sides
<1>4. /\ Entry(j, "USER_PAYABLE").debit = 0 /\ Entry(j, "USER_PAYABLE").credit = b.payout
      /\ Entry(j, "PLATFORM_FEE_REVENUE").debit = 0 /\ Entry(j, "PLATFORM_FEE_REVENUE").credit = 0
    BY <1>2, Sides
<1> HIDE DEF j
<1>5. Nets(j, 0, b.payout, -b.payout, 0)
    BY <1>1, <1>3, <1>4 DEF Nets, Accounts
<1> QED
    BY <1>5 DEF j

\* Payout pays the worker in cash.
LEMMA PayoutNets == ASSUME NEW b, Sound(b) PROVE Nets(PayoutJournal(b), -b.payout, 0, b.payout, 0)
<1>1. b.charge \in Int /\ b.payout \in Int /\ b.platformFee \in Int
    BY DEF Sound, Breakdowns
<1> DEFINE j == PayoutJournal(b)
<1>2. /\ Entry(j, "PLATFORM_CASH") = CreditOf(b.payout)
      /\ Entry(j, "ESCROW_LIABILITY") = DebitOf(0)
      /\ Entry(j, "USER_PAYABLE") = DebitOf(b.payout)
      /\ Entry(j, "PLATFORM_FEE_REVENUE") = DebitOf(0)
    BY JournalEntries DEF Entry
<1>3. /\ Entry(j, "PLATFORM_CASH").debit = 0 /\ Entry(j, "PLATFORM_CASH").credit = b.payout
      /\ Entry(j, "ESCROW_LIABILITY").debit = 0 /\ Entry(j, "ESCROW_LIABILITY").credit = 0
    BY <1>2, Sides
<1>4. /\ Entry(j, "USER_PAYABLE").debit = b.payout /\ Entry(j, "USER_PAYABLE").credit = 0
      /\ Entry(j, "PLATFORM_FEE_REVENUE").debit = 0 /\ Entry(j, "PLATFORM_FEE_REVENUE").credit = 0
    BY <1>2, Sides
<1> HIDE DEF j
<1>5. Nets(j, -b.payout, 0, b.payout, 0)
    BY <1>1, <1>3, <1>4 DEF Nets, Accounts
<1> QED
    BY <1>5 DEF j

\* Refund is funding turned round.
LEMMA RefundNets == ASSUME NEW b, Sound(b) PROVE Nets(RefundJournal(b), -b.charge, b.payout, 0, b.platformFee)
<1>1. b.charge \in Int /\ b.payout \in Int /\ b.platformFee \in Int
    BY DEF Sound, Breakdowns
<1> DEFINE j == RefundJournal(b)
<1>2. /\ Entry(j, "PLATFORM_CASH") = CreditOf(b.charge)
      /\ Entry(j, "ESCROW_LIABILITY") = DebitOf(b.payout)
      /\ Entry(j, "USER_PAYABLE") = DebitOf(0)
      /\ Entry(j, "PLATFORM_FEE_REVENUE") = DebitOf(b.platformFee)
    BY JournalEntries DEF Entry
<1>3. /\ Entry(j, "PLATFORM_CASH").debit = 0 /\ Entry(j, "PLATFORM_CASH").credit = b.charge
      /\ Entry(j, "ESCROW_LIABILITY").debit = b.payout /\ Entry(j, "ESCROW_LIABILITY").credit = 0
    BY <1>2, Sides
<1>4. /\ Entry(j, "USER_PAYABLE").debit = 0 /\ Entry(j, "USER_PAYABLE").credit = 0
      /\ Entry(j, "PLATFORM_FEE_REVENUE").debit = b.platformFee /\ Entry(j, "PLATFORM_FEE_REVENUE").credit = 0
    BY <1>2, Sides
<1> HIDE DEF j
<1>5. Nets(j, -b.charge, b.payout, 0, b.platformFee)
    BY <1>1, <1>3, <1>4 DEF Nets, Accounts
<1> QED
    BY <1>5 DEF j

\* A journal whose nets cancel is balanced.
LEMMA NetsBalance ==
    ASSUME NEW j, NEW cash \in Int, NEW escrow \in Int, NEW payable \in Int, NEW fee \in Int,
           Nets(j, cash, escrow, payable, fee), cash + escrow + payable + fee = 0
    PROVE  Balanced(j)
<1>1. /\ Entry(j, "PLATFORM_CASH").debit \in Int /\ Entry(j, "PLATFORM_CASH").credit \in Int
      /\ Entry(j, "ESCROW_LIABILITY").debit \in Int /\ Entry(j, "ESCROW_LIABILITY").credit \in Int
      /\ Entry(j, "USER_PAYABLE").debit \in Int /\ Entry(j, "USER_PAYABLE").credit \in Int
      /\ Entry(j, "PLATFORM_FEE_REVENUE").debit \in Int /\ Entry(j, "PLATFORM_FEE_REVENUE").credit \in Int
    BY DEF Nets, Accounts
<1> QED
    BY <1>1 DEF Nets, Balanced

\* No rounding unbalances a journal, for any amount.
LEMMA JournalsBalance ==
    ASSUME NEW b, Sound(b)
    PROVE  /\ Balanced(FundingJournal(b)) /\ Balanced(ReleaseJournal(b))
           /\ Balanced(PayoutJournal(b)) /\ Balanced(RefundJournal(b))
<1>1. /\ b.charge \in Int /\ b.payout \in Int /\ b.platformFee \in Int
      /\ -b.charge \in Int /\ -b.payout \in Int /\ -b.platformFee \in Int
      /\ b.charge + (-b.payout) + 0 + (-b.platformFee) = 0
      /\ (-b.charge) + b.payout + 0 + b.platformFee = 0
      /\ 0 + b.payout + (-b.payout) + 0 = 0
      /\ (-b.payout) + 0 + b.payout + 0 = 0
  <2>1. /\ b.charge \in Int /\ b.payout \in Int /\ b.platformFee \in Int
        /\ b.platformFee = b.charge - b.payout
    BY DEF Sound, Breakdowns
  <2>2. ASSUME NEW charge \in Int, NEW payout \in Int, NEW fee \in Int, fee = charge - payout
        PROVE  /\ -charge \in Int /\ -payout \in Int /\ -fee \in Int
               /\ charge + (-payout) + 0 + (-fee) = 0 /\ (-charge) + payout + 0 + fee = 0
               /\ 0 + payout + (-payout) + 0 = 0 /\ (-payout) + 0 + payout + 0 = 0
    BY <2>2
  <2> QED
    BY <2>1, <2>2, ZenonT(60)
<1>2. Nets(FundingJournal(b), b.charge, -b.payout, 0, -b.platformFee) /\ 0 \in Int
    BY FundingNets
<1>3. Balanced(FundingJournal(b))
    BY <1>1, <1>2, NetsBalance
<1>4. Balanced(ReleaseJournal(b))
    BY <1>1, ReleaseNets, NetsBalance
<1>5. Balanced(PayoutJournal(b))
    BY <1>1, PayoutNets, NetsBalance
<1>6. Nets(RefundJournal(b), -b.charge, b.payout, 0, b.platformFee) /\ 0 \in Int
    BY RefundNets
<1>7. Balanced(RefundJournal(b))
    BY <1>1, <1>6, NetsBalance
<1> QED
    BY <1>3, <1>4, <1>5, <1>7

\* Only a platform fee of zero makes an entry that the table refuses, and only
\* in the journals of funding and refund.
LEMMA JournalRows ==
    ASSUME NEW b, Sound(b)
    PROVE  /\ RowsAccepted(FundingJournal(b)) <=> b.platformFee # 0
           /\ RowsAccepted(ReleaseJournal(b)) /\ RowsAccepted(PayoutJournal(b))
           /\ RowsAccepted(RefundJournal(b)) <=> b.platformFee # 0
<1>1. /\ b.charge \in Int /\ b.payout \in Int /\ b.platformFee \in Int
      /\ b.charge > 0 /\ b.payout > 0 /\ b.platformFee >= 0
    BY DEF Sound, Breakdowns
<1> DEFINE f == FundingJournal(b)
           r == ReleaseJournal(b)
           o == PayoutJournal(b)
           u == RefundJournal(b)
<1>2. /\ DOMAIN f = {"PLATFORM_CASH", "ESCROW_LIABILITY", "PLATFORM_FEE_REVENUE"}
      /\ f["PLATFORM_CASH"] = DebitOf(b.charge) /\ f["ESCROW_LIABILITY"] = CreditOf(b.payout)
      /\ f["PLATFORM_FEE_REVENUE"] = CreditOf(b.platformFee)
    BY JournalEntries
<1>3. /\ DOMAIN r = {"ESCROW_LIABILITY", "USER_PAYABLE"}
      /\ r["ESCROW_LIABILITY"] = DebitOf(b.payout) /\ r["USER_PAYABLE"] = CreditOf(b.payout)
    BY JournalEntries
<1>4. /\ DOMAIN o = {"USER_PAYABLE", "PLATFORM_CASH"}
      /\ o["USER_PAYABLE"] = DebitOf(b.payout) /\ o["PLATFORM_CASH"] = CreditOf(b.payout)
    BY JournalEntries
<1>5. /\ DOMAIN u = {"PLATFORM_CASH", "ESCROW_LIABILITY", "PLATFORM_FEE_REVENUE"}
      /\ u["PLATFORM_CASH"] = CreditOf(b.charge) /\ u["ESCROW_LIABILITY"] = DebitOf(b.payout)
      /\ u["PLATFORM_FEE_REVENUE"] = DebitOf(b.platformFee)
    BY JournalEntries
<1> HIDE DEF f, r, o, u
<1>6. RowsAccepted(f) <=> b.platformFee # 0
  <2>1. /\ f["PLATFORM_CASH"].debit = b.charge /\ f["PLATFORM_CASH"].credit = 0
        /\ f["ESCROW_LIABILITY"].debit = 0 /\ f["ESCROW_LIABILITY"].credit = b.payout
        /\ f["PLATFORM_FEE_REVENUE"].debit = 0 /\ f["PLATFORM_FEE_REVENUE"].credit = b.platformFee
    BY <1>2, Sides
  <2> QED
    BY <1>1, <1>2, <2>1 DEF RowsAccepted
<1>7. RowsAccepted(r) /\ RowsAccepted(o)
  <2>1. /\ r["ESCROW_LIABILITY"].debit = b.payout /\ r["ESCROW_LIABILITY"].credit = 0
        /\ r["USER_PAYABLE"].debit = 0 /\ r["USER_PAYABLE"].credit = b.payout
    BY <1>3, Sides
  <2>2. /\ o["USER_PAYABLE"].debit = b.payout /\ o["USER_PAYABLE"].credit = 0
        /\ o["PLATFORM_CASH"].debit = 0 /\ o["PLATFORM_CASH"].credit = b.payout
    BY <1>4, Sides
  <2> QED
    BY <1>1, <1>3, <1>4, <2>1, <2>2 DEF RowsAccepted
<1>8. RowsAccepted(u) <=> b.platformFee # 0
  <2>1. /\ u["PLATFORM_CASH"].debit = 0 /\ u["PLATFORM_CASH"].credit = b.charge
        /\ u["ESCROW_LIABILITY"].debit = b.payout /\ u["ESCROW_LIABILITY"].credit = 0
        /\ u["PLATFORM_FEE_REVENUE"].debit = b.platformFee /\ u["PLATFORM_FEE_REVENUE"].credit = 0
    BY <1>5, Sides
  <2> QED
    BY <1>1, <1>5, <2>1 DEF RowsAccepted
<1> QED
    BY <1>6, <1>7, <1>8 DEF f, r, o, u

\* Posting a journal, account by account.
LEMMA AfterIs ==
    ASSUME NEW books, NEW j, NEW cash \in Int, NEW escrow \in Int, NEW payable \in Int, NEW fee \in Int,
           books["PLATFORM_CASH"] \in Int, books["ESCROW_LIABILITY"] \in Int,
           books["USER_PAYABLE"] \in Int, books["PLATFORM_FEE_REVENUE"] \in Int,
           Nets(j, cash, escrow, payable, fee)
    PROVE  /\ After(books, j)["PLATFORM_CASH"] = books["PLATFORM_CASH"] + cash
           /\ After(books, j)["ESCROW_LIABILITY"] = books["ESCROW_LIABILITY"] + escrow
           /\ After(books, j)["USER_PAYABLE"] = books["USER_PAYABLE"] + payable
           /\ After(books, j)["PLATFORM_FEE_REVENUE"] = books["PLATFORM_FEE_REVENUE"] + fee
<1>1. \A a \in Accounts : After(books, j)[a] = books[a] + Entry(j, a).debit - Entry(j, a).credit
    BY DEF After
<1>2. \A a \in Accounts : /\ Entry(j, a).debit \in Int /\ Entry(j, a).credit \in Int
    BY DEF Nets
<1>3. \A a \in Accounts : books[a] \in Int
    BY DEF Accounts
<1>4. \A a \in Accounts : After(books, j)[a] = books[a] + (Entry(j, a).debit - Entry(j, a).credit)
    BY <1>1, <1>2, <1>3
<1>5. /\ "PLATFORM_CASH" \in Accounts /\ "ESCROW_LIABILITY" \in Accounts
      /\ "USER_PAYABLE" \in Accounts /\ "PLATFORM_FEE_REVENUE" \in Accounts
    BY DEF Accounts
<1> QED
    BY <1>4, <1>5 DEF Nets

\* What each posting makes of the books it finds.
LEMMA FundBooks ==
    ASSUME NEW b, Sound(b), NEW books, Stand(books, 0, 0, 0)
    PROVE  Stand(After(books, FundingJournal(b)), b.charge, -b.payout, -b.platformFee)
<1>1. b.charge \in Int /\ b.payout \in Int /\ b.platformFee \in Int /\ -b.payout \in Int /\ -b.platformFee \in Int
    BY DEF Sound, Breakdowns
<1>2. Nets(FundingJournal(b), b.charge, -b.payout, 0, -b.platformFee)
    BY FundingNets
<1>3. /\ books["PLATFORM_CASH"] = 0 /\ books["ESCROW_LIABILITY"] = 0
      /\ books["USER_PAYABLE"] = 0 /\ books["PLATFORM_FEE_REVENUE"] = 0
    BY DEF Stand
<1>4. /\ After(books, FundingJournal(b))["PLATFORM_CASH"] = 0 + b.charge
      /\ After(books, FundingJournal(b))["ESCROW_LIABILITY"] = 0 + (-b.payout)
      /\ After(books, FundingJournal(b))["USER_PAYABLE"] = 0 + 0
      /\ After(books, FundingJournal(b))["PLATFORM_FEE_REVENUE"] = 0 + (-b.platformFee)
    BY <1>1, <1>2, <1>3, AfterIs
<1> QED
    BY <1>1, <1>4 DEF Stand

\* A refund undoes the funding.
LEMMA RefundBooks ==
    ASSUME NEW b, Sound(b), NEW books, Stand(books, b.charge, -b.payout, -b.platformFee)
    PROVE  Stand(After(books, RefundJournal(b)), 0, 0, 0)
<1>1. b.charge \in Int /\ b.payout \in Int /\ b.platformFee \in Int
    BY DEF Sound, Breakdowns
<1> DEFINE j == RefundJournal(b)
<1>2. PICK cash \in Int, escrow \in Int, fee \in Int :
        /\ cash = -b.charge /\ escrow = b.payout /\ fee = b.platformFee
        /\ Nets(j, cash, escrow, 0, fee)
    BY <1>1, RefundNets
<1>3. /\ books["PLATFORM_CASH"] = b.charge /\ books["ESCROW_LIABILITY"] = -b.payout
      /\ books["USER_PAYABLE"] = 0 /\ books["PLATFORM_FEE_REVENUE"] = -b.platformFee
    BY DEF Stand
<1> HIDE DEF j
<1>4. /\ books["PLATFORM_CASH"] \in Int /\ books["ESCROW_LIABILITY"] \in Int
      /\ books["USER_PAYABLE"] \in Int /\ books["PLATFORM_FEE_REVENUE"] \in Int
    BY <1>1, <1>3
<1>5. /\ After(books, j)["PLATFORM_CASH"] = books["PLATFORM_CASH"] + cash
      /\ After(books, j)["ESCROW_LIABILITY"] = books["ESCROW_LIABILITY"] + escrow
      /\ After(books, j)["USER_PAYABLE"] = books["USER_PAYABLE"] + 0
      /\ After(books, j)["PLATFORM_FEE_REVENUE"] = books["PLATFORM_FEE_REVENUE"] + fee
    BY <1>2, <1>4, AfterIs
<1>6. Stand(After(books, j), 0, 0, 0)
  <2>1. \A x \in Int : x + (-x) = 0 /\ (-x) + x = 0
    OBVIOUS
  <2>2. After(books, j)["PLATFORM_CASH"] = b.charge + (-b.charge)
    BY <1>2, <1>3, <1>5
  <2>3. After(books, j)["ESCROW_LIABILITY"] = (-b.payout) + b.payout
    BY <1>2, <1>3, <1>5
  <2>4. After(books, j)["USER_PAYABLE"] = 0 + 0
    BY <1>3, <1>5
  <2>5. After(books, j)["PLATFORM_FEE_REVENUE"] = (-b.platformFee) + b.platformFee
    BY <1>2, <1>3, <1>5
  <2> QED
    BY <1>1, <2>1, <2>2, <2>3, <2>4, <2>5 DEF Stand
<1> QED
    BY <1>6 DEF j

\* Release and payout leave the platform its fee.
LEMMA ReleaseBooks ==
    ASSUME NEW b, Sound(b), NEW books, Stand(books, b.charge, -b.payout, -b.platformFee)
    PROVE  Stand(After(After(books, ReleaseJournal(b)), PayoutJournal(b)), b.platformFee, 0, -b.platformFee)
<1>1. b.charge \in Int /\ b.payout \in Int /\ b.platformFee \in Int /\ -b.payout \in Int
        /\ -b.platformFee \in Int /\ b.charge + (-b.payout) = b.platformFee
    BY DEF Sound, Breakdowns
<1>2. Nets(ReleaseJournal(b), 0, b.payout, -b.payout, 0) /\ Nets(PayoutJournal(b), -b.payout, 0, b.payout, 0)
    BY ReleaseNets, PayoutNets
<1>3. /\ books["PLATFORM_CASH"] = b.charge /\ books["ESCROW_LIABILITY"] = -b.payout
      /\ books["USER_PAYABLE"] = 0 /\ books["PLATFORM_FEE_REVENUE"] = -b.platformFee
    BY DEF Stand
<1> DEFINE released == After(books, ReleaseJournal(b))
<1>4. /\ released["PLATFORM_CASH"] = b.charge + 0 /\ released["ESCROW_LIABILITY"] = -b.payout + b.payout
      /\ released["USER_PAYABLE"] = 0 + (-b.payout) /\ released["PLATFORM_FEE_REVENUE"] = -b.platformFee + 0
    BY <1>1, <1>2, <1>3, AfterIs
<1>5. /\ released["PLATFORM_CASH"] = b.charge /\ released["ESCROW_LIABILITY"] = 0
      /\ released["USER_PAYABLE"] = -b.payout /\ released["PLATFORM_FEE_REVENUE"] = -b.platformFee
    BY <1>1, <1>4
<1> HIDE DEF released
<1>6. /\ After(released, PayoutJournal(b))["PLATFORM_CASH"] = b.charge + (-b.payout)
      /\ After(released, PayoutJournal(b))["ESCROW_LIABILITY"] = 0 + 0
      /\ After(released, PayoutJournal(b))["USER_PAYABLE"] = -b.payout + b.payout
      /\ After(released, PayoutJournal(b))["PLATFORM_FEE_REVENUE"] = -b.platformFee + 0
    BY <1>1, <1>2, <1>5, AfterIs, SMTT(30)
<1>7. Stand(After(released, PayoutJournal(b)), b.platformFee, 0, -b.platformFee)
    BY <1>1, <1>6 DEF Stand
<1> QED
    BY <1>7 DEF released

-----------------------------------------------------------------------------
(* The inductive invariant.                                                 *)

\* The row of a funded payment holds a split that the ledger can take back.
FundedIsSound ==
    \A p \in Payments :
        status[p] # "NONE" => Sound(breakdown[p]) /\ breakdown[p].platformFee # 0

FinInv == TypeOK /\ FundedIsSound /\ BooksFollowStatus /\ OnlyFundingRefused

\* What is said of one payment by the parts of FinInv that speak of its books.
Settled(to, b, books) ==
    /\ to \in {"NONE", "REFUNDED"} => Stand(books, 0, 0, 0)
    /\ to = "FUNDED"   => Stand(books, b.charge, -b.payout, -b.platformFee)
    /\ to = "RELEASED" => Stand(books, b.platformFee, 0, -b.platformFee)

\* A posting that commits keeps the invariant if the row and the books it
\* leaves fit the status it gives.
LEMMA CommitKeeps ==
    ASSUME FinInv, NEW p \in Payments, NEW to \in Statuses, to # "NONE", NEW b, Sound(b),
           b.platformFee # 0, NEW books \in [Accounts -> Int], Settled(to, b, books),
           Commit(p, to, b, books)
    PROVE  FinInv'
<1>1. /\ status' = [status EXCEPT ![p] = to] /\ breakdown' = [breakdown EXCEPT ![p] = b]
      /\ balance' = [balance EXCEPT ![p] = books] /\ refused' = refused
    BY DEF Commit
<1>2. TypeOK /\ b \in Breakdowns
    BY DEF FinInv, Sound
<1>3. /\ status'[p] = to /\ breakdown'[p] = b /\ balance'[p] = books
      /\ \A q \in Payments : q # p => /\ status'[q] = status[q] /\ breakdown'[q] = breakdown[q]
                                      /\ balance'[q] = balance[q]
    BY <1>1, <1>2 DEF TypeOK
<1>4. TypeOK'
    BY <1>1, <1>2 DEF TypeOK
<1>5. FundedIsSound'
  <2> SUFFICES ASSUME NEW q \in Payments, status'[q] # "NONE"
               PROVE  Sound(breakdown'[q]) /\ breakdown'[q].platformFee # 0
    BY DEF FundedIsSound, Sound
  <2> QED
    BY <1>3 DEF FinInv, FundedIsSound
<1>6. BooksFollowStatus'
  <2> SUFFICES ASSUME NEW q \in Payments
               PROVE  Settled(status'[q], breakdown'[q], balance'[q])
    BY DEF BooksFollowStatus, Settled, Stand
  <2>1. CASE q = p
    BY <1>3, <2>1
  <2>2. CASE q # p
    <3>1. Settled(status[q], breakdown[q], balance[q])
      BY DEF FinInv, BooksFollowStatus, Settled
    <3> QED
      BY <1>3, <2>2, <3>1
  <2> QED
    BY <2>1, <2>2
<1>7. OnlyFundingRefused'
    BY <1>1 DEF FinInv, OnlyFundingRefused
<1> QED
    BY <1>4, <1>5, <1>6, <1>7 DEF FinInv

\* A funding journal that balances and is refused for a row keeps it too.
LEMMA RefuseKeeps ==
    ASSUME FinInv, NEW p \in Payments, Refuse(p, "FUND", TRUE)
    PROVE  FinInv'
<1>1. /\ refused' = [refused EXCEPT ![p] = @ \cup {[posting |-> "FUND", balanced |-> TRUE]}]
      /\ status' = status /\ breakdown' = breakdown /\ balance' = balance
    BY DEF Refuse
<1>2. [posting |-> "FUND", balanced |-> TRUE] \in Refusals
    BY DEF Refusals
<1>3. TypeOK'
  <2>1. TypeOK
    BY DEF FinInv
  <2>2. refused' \in [Payments -> SUBSET Refusals]
    BY <1>1, <1>2, <2>1 DEF TypeOK
  <2> QED
    BY <1>1, <2>1, <2>2 DEF TypeOK
<1>4. OnlyFundingRefused'
  <2>1. \A q \in Payments : \/ refused'[q] = refused[q]
                            \/ refused'[q] = refused[q] \cup {[posting |-> "FUND", balanced |-> TRUE]}
    BY <1>1 DEF FinInv, TypeOK
  <2> QED
    BY <2>1 DEF FinInv, OnlyFundingRefused
<1>5. FundedIsSound' /\ BooksFollowStatus'
    BY <1>1 DEF FinInv, FundedIsSound, BooksFollowStatus, Sound, Stand
<1> QED
    BY <1>3, <1>4, <1>5 DEF FinInv

\* Posting to typed books leaves typed books.
LEMMA AfterTyped ==
    ASSUME NEW books \in [Accounts -> Int], NEW j, NEW cash \in Int, NEW escrow \in Int,
           NEW payable \in Int, NEW fee \in Int, Nets(j, cash, escrow, payable, fee)
    PROVE  After(books, j) \in [Accounts -> Int]
<1>1. \A a \in Accounts : Entry(j, a).debit \in Int /\ Entry(j, a).credit \in Int
    BY DEF Nets
<1>2. \A a \in Accounts : books[a] + Entry(j, a).debit - Entry(j, a).credit \in Int
    BY <1>1
<1> QED
    BY <1>2 DEF After

\* The initial state satisfies the invariant.
LEMMA FinInvInit == Init => FinInv
<1> SUFFICES ASSUME Init
             PROVE  FinInv
    OBVIOUS
<1>1. NoBreakdown \in Breakdowns
    BY DEF NoBreakdown, Breakdowns
<1>2. TypeOK
    BY <1>1 DEF Init, TypeOK, Statuses
<1>3. FundedIsSound
    BY DEF Init, FundedIsSound
<1>4. BooksFollowStatus
    BY DEF Init, BooksFollowStatus, Stand, Accounts
<1>5. OnlyFundingRefused
    BY DEF Init, OnlyFundingRefused
<1> QED
    BY <1>2, <1>3, <1>4, <1>5 DEF FinInv

\* Funding keeps the invariant: the journal balances, and if a row of it is
\* refused nothing is left behind.
LEMMA FundKeeps ==
    ASSUME FinInv, NEW p \in Payments, NEW kind \in Kinds, NEW cents \in Amounts, Fund(p, kind, cents)
    PROVE  FinInv'
<1>1. PICK b : b = Breakdown(kind, cents)
    OBVIOUS
<1>2. Sound(b)
    BY <1>1, BreakdownSound
<1> DEFINE j == FundingJournal(b)
           books == After(balance[p], j)
<1>3. Balanced(j) /\ (RowsAccepted(j) <=> b.platformFee # 0)
    BY <1>2, JournalsBalance, JournalRows
<1>4. CASE RowsAccepted(j)
  <2>1. status[p] = "NONE" /\ Commit(p, "FUNDED", b, books)
    BY <1>1, <1>3, <1>4 DEF Fund, Postable
  <2>2. balance[p] \in [Accounts -> Int] /\ Stand(balance[p], 0, 0, 0)
    BY <2>1 DEF FinInv, TypeOK, BooksFollowStatus
  <2>3. /\ b.charge \in Int /\ -b.payout \in Int /\ -b.platformFee \in Int
        /\ Nets(j, b.charge, -b.payout, 0, -b.platformFee)
    BY <1>2, FundingNets DEF Sound, Breakdowns
  <2>4. books \in [Accounts -> Int]
    BY <2>2, <2>3, AfterTyped
  <2>5. Stand(books, b.charge, -b.payout, -b.platformFee)
    BY <1>2, <2>2, FundBooks
  <2>6. Settled("FUNDED", b, books) /\ "FUNDED" \in Statuses
    BY <2>5 DEF Settled, Statuses
  <2> HIDE DEF books
  <2> QED
    BY <1>2, <1>3, <1>4, <2>1, <2>4, <2>6, CommitKeeps
<1>5. CASE ~RowsAccepted(j)
  <2>1. Refuse(p, "FUND", TRUE)
    BY <1>1, <1>3, <1>5 DEF Fund, Postable, Balanced
  <2> QED
    BY <2>1, RefuseKeeps
<1> QED
    BY <1>4, <1>5

\* So does completing a release: both journals balance, their rows are
\* accepted, and what they leave is the platform's fee.
LEMMA ReleaseKeeps ==
    ASSUME FinInv, NEW p \in Payments, Release(p)
    PROVE  FinInv'
<1>1. PICK b : b = breakdown[p]
    OBVIOUS
<1>2. status[p] = "FUNDED" /\ Sound(b) /\ b.platformFee # 0
    BY <1>1 DEF Release, FinInv, FundedIsSound
<1> DEFINE released == After(balance[p], ReleaseJournal(b))
           books == After(released, PayoutJournal(b))
<1>3. Postable(ReleaseJournal(b)) /\ Postable(PayoutJournal(b))
    BY <1>2, JournalsBalance, JournalRows DEF Postable
<1>4. Commit(p, "RELEASED", b, books)
    BY <1>1, <1>3 DEF Release
<1>5. balance[p] \in [Accounts -> Int] /\ Stand(balance[p], b.charge, -b.payout, -b.platformFee)
    BY <1>1, <1>2 DEF FinInv, TypeOK, BooksFollowStatus
<1>6. b.payout \in Int /\ -b.payout \in Int
    BY <1>2 DEF Sound, Breakdowns
<1>7. Nets(ReleaseJournal(b), 0, b.payout, -b.payout, 0) /\ Nets(PayoutJournal(b), -b.payout, 0, b.payout, 0)
    BY <1>2, ReleaseNets, PayoutNets
<1>8. released \in [Accounts -> Int]
    BY <1>5, <1>6, <1>7, AfterTyped
<1>9. Stand(books, b.platformFee, 0, -b.platformFee)
    BY <1>2, <1>5, ReleaseBooks
<1> HIDE DEF released
<1>10. books \in [Accounts -> Int]
    BY <1>6, <1>7, <1>8, AfterTyped
<1>11. Settled("RELEASED", b, books) /\ "RELEASED" \in Statuses
    BY <1>9 DEF Settled, Statuses
<1> HIDE DEF books
<1> QED
    BY <1>2, <1>4, <1>10, <1>11, CommitKeeps

\* And completing a refund, which is accepted because funding was.
LEMMA RefundKeeps ==
    ASSUME FinInv, NEW p \in Payments, Refund(p)
    PROVE  FinInv'
<1>1. PICK b : b = breakdown[p]
    OBVIOUS
<1>2. status[p] = "FUNDED" /\ Sound(b) /\ b.platformFee # 0
    BY <1>1 DEF Refund, FinInv, FundedIsSound
<1> DEFINE j == RefundJournal(b)
           books == After(balance[p], j)
<1>3. Postable(j)
    BY <1>2, JournalsBalance, JournalRows DEF Postable
<1>4. Commit(p, "REFUNDED", b, books)
    BY <1>1, <1>3 DEF Refund
<1>5. balance[p] \in [Accounts -> Int] /\ Stand(balance[p], b.charge, -b.payout, -b.platformFee)
    BY <1>1, <1>2 DEF FinInv, TypeOK, BooksFollowStatus
<1>6. /\ -b.charge \in Int /\ b.payout \in Int /\ b.platformFee \in Int
      /\ Nets(j, -b.charge, b.payout, 0, b.platformFee)
    BY <1>2, RefundNets DEF Sound, Breakdowns
<1>7. books \in [Accounts -> Int]
    BY <1>5, <1>6, AfterTyped
<1>8. Stand(books, 0, 0, 0)
    BY <1>2, <1>5, RefundBooks
<1>9. Settled("REFUNDED", b, books) /\ "REFUNDED" \in Statuses
    BY <1>8 DEF Settled, Statuses
<1> HIDE DEF books
<1> QED
    BY <1>2, <1>4, <1>7, <1>9, CommitKeeps

\* Every step keeps the invariant.
LEMMA FinInvStep == FinInv /\ [Next]_vars => FinInv'
<1> SUFFICES ASSUME FinInv, [Next]_vars
             PROVE  FinInv'
    OBVIOUS
<1>1. CASE Next
  <2> SUFFICES ASSUME NEW p \in Payments,
                      \/ \E kind \in Kinds, cents \in Amounts : Fund(p, kind, cents)
                      \/ Release(p)
                      \/ Refund(p)
               PROVE  FinInv'
    BY <1>1 DEF Next
  <2>1. CASE \E kind \in Kinds, cents \in Amounts : Fund(p, kind, cents)
    BY <2>1, FundKeeps
  <2>2. CASE Release(p)
    BY <2>2, ReleaseKeeps
  <2>3. CASE Refund(p)
    BY <2>3, RefundKeeps
  <2> QED
    BY <2>1, <2>2, <2>3
<1>2. CASE UNCHANGED vars
    BY <1>2 DEF vars, FinInv, TypeOK, FundedIsSound, BooksFollowStatus, OnlyFundingRefused, Sound, Stand
<1> QED
    BY <1>1, <1>2

-----------------------------------------------------------------------------
(* The theorems.                                                            *)

\* FinInv holds in every reachable state, for every bound on the amounts.
THEOREM FinancialInvariant == Spec => []FinInv
<1> QED
    BY FinInvInit, FinInvStep, PTL DEF Spec

\* Every reachable state is well typed.
THEOREM FinancialTypeCorrect == Spec => []TypeOK
<1>1. FinInv => TypeOK
    BY DEF FinInv
<1> QED
    BY <1>1, FinancialInvariant, PTL

\* The books of a payment say to the cent what its status says: the fees and
\* their rounding lose and create no money.
THEOREM BooksExact == Spec => []BooksFollowStatus
<1>1. FinInv => BooksFollowStatus
    BY DEF FinInv
<1> QED
    BY <1>1, FinancialInvariant, PTL

\* assertBalanced never throws, and the ledger never refuses the journal that
\* ends a funded payment.
THEOREM NothingStuck == Spec => []OnlyFundingRefused
<1>1. FinInv => OnlyFundingRefused
    BY DEF FinInv
<1> QED
    BY <1>1, FinancialInvariant, PTL

\* The fees of a funded payment leave the worker something, cost the employer
\* no less than the base, and stay below half of the charge.
THEOREM FeesSound == Spec => []FeesBounded
<1>1. FinInv => FeesBounded
    BY DEF FinInv, FundedIsSound, FeesBounded, Sound
<1> QED
    BY <1>1, FinancialInvariant, PTL
=============================================================================
