------------------------------- MODULE Escrow -------------------------------
(***************************************************************************)
(* What the payment aggregate promises its two parties, without outbox,    *)
(* workers, leases or webhooks: the owner's money is put in escrow once;   *)
(* it leaves once, to the provider of the work after the owner accepted    *)
(* the delivery, or back to the owner before that; each of these is posted *)
(* to the books exactly once.                                              *)
(***************************************************************************)
EXTENDS Integers

VARIABLES
    stage,  \* where the money is, and what has been decided about it
    books   \* how many times each journal was posted

Stages   == {"UNFUNDED", "ESCROW", "RETURNING", "RETURNED", "ACCEPTED", "PAID"}
Postings == {"FUND", "RELEASE", "PAYOUT", "REFUND"}

Post(journals) == books' = [j \in Postings |-> books[j] + (IF j \in journals THEN 1 ELSE 0)]
Step(from, to) == stage = from /\ stage' = to

Init == stage = "UNFUNDED" /\ books = [j \in Postings |-> 0]

Deposit        == Step("UNFUNDED", "ESCROW") /\ Post({"FUND"})
AskBack        == Step("ESCROW", "RETURNING") /\ UNCHANGED books
ReturnFailed   == Step("RETURNING", "ESCROW") /\ UNCHANGED books
ReturnToOwner  == Step("RETURNING", "RETURNED") /\ Post({"REFUND"})
AcceptWork     == Step("ESCROW", "ACCEPTED") /\ UNCHANGED books
PayOut         == Step("ACCEPTED", "PAID") /\ Post({"RELEASE", "PAYOUT"})

Next == Deposit \/ AskBack \/ ReturnFailed \/ ReturnToOwner \/ AcceptWork \/ PayOut

Spec == Init /\ [][Next]_<<stage, books>>
=============================================================================
