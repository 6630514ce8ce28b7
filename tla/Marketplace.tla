---------------------------- MODULE Marketplace ----------------------------
(***************************************************************************)
(* How one job of kind JOB gets its provider: offers of providers,         *)
(* applications of candidates, the owner who accepts, hires and funds, the *)
(* administrator who sorts applications and moderates the job.             *)
(*                                                                         *)
(* A route reads without locks and then calls one transaction, so each     *)
(* request that decides on what it read is two or three actions here.      *)
(* What happens to the money after funding is module PaymentLifecycle;     *)
(* here it ends refunded or paid, and FUNDED stands for every status from  *)
(* FUNDED to COMPLETED, which all operations below treat alike.            *)
(***************************************************************************)
EXTENDS Integers, FiniteSets

CONSTANTS
    Providers,       \* users who make offers or apply
    Nobody,          \* provider_id IS NULL
    Funders,         \* concurrent fund requests of the owner
    MaxOffers,       \* bound: rows of offers for this job
    MaxApplications  \* bound: rows of job_applications for this job

ASSUME MarketAssumption ==
    /\ Nobody \notin Providers
    /\ MaxOffers \in Nat
    /\ MaxApplications \in Nat

VARIABLES
    job,          \* jobs.status
    provider,     \* jobs.provider_id
    offer,        \* offers rows in order of created_at
    application,  \* job_applications rows in order of created_at
    payment,      \* "NONE", "OPEN" until it ends "REFUNDED" or "PAID"
    payee,        \* payments.payee_id
    offering,     \* providers whose offer request has seen the job PUBLISHED
    applying,     \* candidates whose application request has
    request       \* what each fund request has read and chosen so far

jobVars   == <<job, provider>>
moneyVars == <<payment, payee>>
vars == <<job, provider, offer, application, payment, payee, offering, applying, request>>

-----------------------------------------------------------------------------
MarketStatuses == {"DRAFT", "PUBLISHED", "ASSIGNED", "FUNDED", "SETTLED", "CANCELLED"}
OfferStatuses  == {"NONE", "PENDING", "ACCEPTED", "REJECTED"}
ApplicationStatuses == {"NONE", "PENDING", "SHORTLISTED", "FORWARDED", "INTERVIEW", "OFFERED",
                        "ACCEPTED", "REJECTED", "WITHDRAWN"}
People         == Providers \cup {Nobody}
OfferIds       == 1..MaxOffers
ApplicationIds == 1..MaxApplications

OfferRows       == [status : OfferStatuses, by : People]
ApplicationRows == [status : ApplicationStatuses, by : People]
FundRequests    == [pc : {"idle", "read", "chosen"}, payee : People, offer : 0..MaxOffers]

NoRow     == [status |-> "NONE", by |-> Nobody]
NoRequest == [pc |-> "idle", payee |-> Nobody, offer |-> 0]

Init ==
    /\ job = "DRAFT"
    /\ provider = Nobody
    /\ offer = [o \in OfferIds |-> NoRow]
    /\ application = [a \in ApplicationIds |-> NoRow]
    /\ payment = "NONE"
    /\ payee = Nobody
    /\ offering = {}
    /\ applying = {}
    /\ request = [f \in Funders |-> NoRequest]

-----------------------------------------------------------------------------
(* The job itself.                                                         *)

Publish ==
    /\ job = "DRAFT"
    /\ job' = "PUBLISHED"
    /\ UNCHANGED <<provider, offer, application, moneyVars, offering, applying, request>>

\* moderateJob: provider_id stays as it is.
ModerateJob(to) ==
    /\ job \notin {"ASSIGNED", "FUNDED"}
    /\ job' = to
    /\ UNCHANGED <<provider, offer, application, moneyVars, offering, applying, request>>

\* External to this module: how the payment ends.
RefundCompleted ==
    /\ payment = "OPEN"
    /\ payment' = "REFUNDED"
    /\ job' = IF provider = Nobody THEN "PUBLISHED" ELSE "ASSIGNED"
    /\ UNCHANGED <<provider, offer, application, payee, offering, applying, request>>

ReleaseCompleted ==
    /\ payment = "OPEN"
    /\ payment' = "PAID"
    /\ job' = "SETTLED"
    /\ UNCHANGED <<provider, offer, application, payee, offering, applying, request>>

-----------------------------------------------------------------------------
(* Offers and applications: a check on what was read, then an insert that  *)
(* only a partial unique index guards.                                     *)

IsNext(rows, i) == rows[i] = NoRow /\ \A j \in DOMAIN rows : j < i => rows[j] # NoRow
Pending(rows, p) == \E i \in DOMAIN rows : rows[i] = [status |-> "PENDING", by |-> p]

OfferCheck(p) ==
    /\ job = "PUBLISHED"
    /\ ~ Pending(offer, p)
    /\ offering' = offering \cup {p}
    /\ UNCHANGED <<jobVars, offer, application, moneyVars, applying, request>>

\* insertOffer: a duplicate is refused by offers_pending_provider_uq.
InsertOffer(p, o) ==
    /\ p \in offering
    /\ offering' = offering \ {p}
    /\ IsNext(offer, o)
    /\ offer' = IF Pending(offer, p) THEN offer
                ELSE [offer EXCEPT ![o] = [status |-> "PENDING", by |-> p]]
    /\ UNCHANGED <<jobVars, application, moneyVars, applying, request>>

ApplicationCheck(p) ==
    /\ job = "PUBLISHED"
    /\ ~ Pending(application, p)
    /\ applying' = applying \cup {p}
    /\ UNCHANGED <<jobVars, offer, application, moneyVars, offering, request>>

\* insertJobApplication: job_applications_pending_uq looks at PENDING rows.
InsertApplication(p, a) ==
    /\ p \in applying
    /\ applying' = applying \ {p}
    /\ IsNext(application, a)
    /\ application' = IF Pending(application, p) THEN application
                      ELSE [application EXCEPT ![a] = [status |-> "PENDING", by |-> p]]
    /\ UNCHANGED <<jobVars, offer, moneyVars, offering, request>>

-----------------------------------------------------------------------------
(* Applications move by single guarded updates of their row.               *)

Selected == "SELECTED" \* a slip: the name the status had before
Forwarded == "FORWARDED"

MoveApplication(a, from, to) ==
    /\ application[a].status \in from
    /\ application' = [application EXCEPT ![a].status = to]
    /\ UNCHANGED <<offer, moneyVars, offering, applying, request>>

AdminShortlist(a) == MoveApplication(a, {"PENDING"}, "SHORTLISTED") /\ UNCHANGED jobVars
AdminForward(a)   == MoveApplication(a, {"PENDING", "SHORTLISTED"}, Forwarded) /\ UNCHANGED jobVars
AdminReject(a)    == MoveApplication(a, {"PENDING", "SHORTLISTED"}, "REJECTED") /\ UNCHANGED jobVars
Interview(a)      == MoveApplication(a, {Forwarded}, "INTERVIEW") /\ UNCHANGED jobVars
MakeOffer(a)      == MoveApplication(a, {"INTERVIEW"}, "OFFERED") /\ UNCHANGED jobVars

Withdraw(a) ==
    /\ MoveApplication(a, {"PENDING", "SHORTLISTED", Forwarded, "INTERVIEW"}, "WITHDRAWN")
    /\ UNCHANGED jobVars

HirableFunded == {"PUBLISHED", "ASSIGNED", "FUNDED"} \* a slip: no look at the money
Hirable == {"PUBLISHED", "ASSIGNED"}

NeverHired(a) == FALSE \* a slip: only the application's own row is looked at
AlreadyHired(a) == \E b \in ApplicationIds \ {a} : application[b].status = "ACCEPTED"

\* transitionEmployerApplication to ACCEPTED, under the job's row lock.
Hire(a) ==
    /\ MoveApplication(a, {"OFFERED"}, "ACCEPTED")
    /\ ~ AlreadyHired(a)
    /\ job \in Hirable
    /\ job' = "ASSIGNED"
    /\ provider' = application[a].by

-----------------------------------------------------------------------------
(* The owner accepts an offer, or funds and accepts with it.               *)

\* Accepting one offer rejects the pending rest.
OfferLeftPending(o) == offer \* a slip: the chosen offer is not closed
AllOthersRejected(o) == \* a slip: the update forgets AND status='PENDING'
    [q \in OfferIds |-> IF q = o THEN [offer[q] EXCEPT !.status = "ACCEPTED"]
                        ELSE IF offer[q] # NoRow THEN [offer[q] EXCEPT !.status = "REJECTED"]
                        ELSE offer[q]]
OffersAfterAccepting(o) ==
    [q \in OfferIds |-> IF q = o THEN [offer[q] EXCEPT !.status = "ACCEPTED"]
                        ELSE IF offer[q].status = "PENDING" THEN [offer[q] EXCEPT !.status = "REJECTED"]
                        ELSE offer[q]]

\* acceptOffer: checks job and offer again under their locks.
AcceptOffer(o) ==
    /\ job = "PUBLISHED"
    /\ offer[o].status = "PENDING"
    /\ offer' = OffersAfterAccepting(o)
    /\ job' = "ASSIGNED"
    /\ provider' = offer[o].by
    /\ UNCHANGED <<application, moneyVars, offering, applying, request>>

\* The fund route reads job and payment; an assigned provider is the payee.
FundRead(f) ==
    /\ request[f].pc = "idle"
    /\ job \in {"PUBLISHED", "ASSIGNED"}
    /\ payment = "NONE"
    /\ request' = [request EXCEPT ![f] =
                     [pc |-> IF provider = Nobody THEN "read" ELSE "chosen",
                      payee |-> provider, offer |-> 0]]
    /\ UNCHANGED <<jobVars, offer, application, moneyVars, offering, applying>>

\* Without one it lists the offers and takes the cheapest pending one, any of
\* them here, or gives up with PROVIDER_REQUIRED.
FundChoose(f) ==
    /\ request[f].pc = "read"
    /\ \/ \E o \in OfferIds :
            /\ offer[o].status = "PENDING"
            /\ request' = [request EXCEPT ![f] =
                             [pc |-> "chosen", payee |-> offer[o].by, offer |-> o]]
       \/ /\ \A o \in OfferIds : offer[o].status # "PENDING"
          /\ request' = [request EXCEPT ![f] = NoRequest]
    /\ UNCHANGED <<jobVars, offer, application, moneyVars, offering, applying>>

Fundable(f) ==
    /\ payment = "NONE"
    /\ job \in {"PUBLISHED", "ASSIGNED", "FUNDED"}
    /\ request[f].offer # 0 => offer[request[f].offer].status = "PENDING"

ProviderLeft(p) == provider \* a slip: provider_id is not written
ProviderAfterFunding(p) == IF provider = Nobody THEN p ELSE provider \* COALESCE

\* fundJobAtomic: the offer is checked again, who the provider is by now is not.
FundCommit(f) ==
    /\ request[f].pc = "chosen"
    /\ Fundable(f)
    /\ offer' = IF request[f].offer = 0 THEN offer ELSE OffersAfterAccepting(request[f].offer)
    /\ payment' = "OPEN"
    /\ payee' = request[f].payee
    /\ job' = "FUNDED"
    /\ provider' = ProviderAfterFunding(request[f].payee)
    /\ request' = [request EXCEPT ![f] = NoRequest]
    /\ UNCHANGED <<application, offering, applying>>

\* It throws, or answers with the payment another request created.
FundRefused(f) ==
    /\ request[f].pc = "chosen"
    /\ ~ Fundable(f)
    /\ request' = [request EXCEPT ![f] = NoRequest]
    /\ UNCHANGED <<jobVars, offer, application, moneyVars, offering, applying>>

-----------------------------------------------------------------------------
Candidates ==
    \/ \E p \in Providers : OfferCheck(p) \/ ApplicationCheck(p)
    \/ \E p \in Providers, o \in OfferIds : InsertOffer(p, o)
    \/ \E p \in Providers, a \in ApplicationIds : InsertApplication(p, a)
    \/ \E a \in ApplicationIds : Withdraw(a)

Admin ==
    \/ \E to \in {"DRAFT", "PUBLISHED", "CANCELLED"} : ModerateJob(to)
    \/ \E a \in ApplicationIds : AdminShortlist(a) \/ AdminForward(a) \/ AdminReject(a)

Owner ==
    \/ Publish
    \/ \E a \in ApplicationIds : Interview(a) \/ MakeOffer(a) \/ Hire(a)
    \/ \E o \in OfferIds : AcceptOffer(o)
    \/ \E f \in Funders : FundRead(f) \/ FundChoose(f) \/ FundCommit(f) \/ FundRefused(f)

Next == Candidates \/ Admin \/ Owner \/ RefundCompleted \/ ReleaseCompleted

Spec == Init /\ [][Next]_vars

-----------------------------------------------------------------------------
TypeOK ==
    /\ job \in MarketStatuses
    /\ provider \in People
    /\ offer \in [OfferIds -> OfferRows]
    /\ application \in [ApplicationIds -> ApplicationRows]
    /\ payment \in {"NONE", "OPEN", "REFUNDED", "PAID"}
    /\ payee \in People
    /\ offering \in SUBSET Providers
    /\ applying \in SUBSET Providers
    /\ request \in [Funders -> FundRequests]

\* The owner said yes to this person, by an offer or by an application.
Chosen(p) ==
    \/ \E o \in OfferIds : offer[o] = [status |-> "ACCEPTED", by |-> p]
    \/ \E a \in ApplicationIds : application[a] = [status |-> "ACCEPTED", by |-> p]

\* However requests interleave, at most one candidate is ever hired for a job
\* (applications.js:33-36 counts the others under the job's lock).
OneHire ==
    \A a, b \in ApplicationIds :
        application[a].status = "ACCEPTED" /\ application[b].status = "ACCEPTED" => a = b

\* Money and work go only to somebody the owner accepted: whatever the fund
\* route had read, its payee and the job's provider hold an ACCEPTED offer or
\* application once the payment exists (payment_funding.js:42-52).
PayeeWasChosen ==
    /\ payment # "NONE" => Chosen(payee)
    /\ provider # Nobody => Chosen(provider)

\* A job is taken exactly while somebody is assigned to it, and FUNDED exactly
\* while its payment is open, so that a refund always finds its way back to
\* ASSIGNED (payment_refunds.js:60).
TakenHasProvider ==
    /\ job \in {"ASSIGNED", "FUNDED"} => provider # Nobody
    /\ (job = "FUNDED") = (payment = "OPEN")

\* While money is in escrow neither the provider nor the payee is replaced,
\* whoever is still hiring, accepting or moderating (applications.js:43).
MoneyPinsProvider ==
    [][payment = "OPEN" => UNCHANGED <<provider, payee>>]_<<provider, payee>>

\* A decision on an offer or an application is never taken back, also not by
\* the update that rejects all others (payment_lifecycle.js:60).
Decided(row) == row.status \in {"ACCEPTED", "REJECTED", "WITHDRAWN"}
DecisionsAreFinal ==
    [][/\ \A o \in OfferIds : Decided(offer[o]) => offer'[o] = offer[o]
       /\ \A a \in ApplicationIds : Decided(application[a]) => application'[a] = application[a]
      ]_<<offer, application>>

-----------------------------------------------------------------------------
(* The inductive invariant: what fund requests in flight know stays true.  *)

RequestKnows(f) ==
    /\ request[f].pc = "chosen" => request[f].payee # Nobody
    /\ request[f].pc = "chosen" /\ request[f].offer = 0 => Chosen(request[f].payee)
    /\ request[f].offer # 0 => /\ offer[request[f].offer].status # "NONE"
                               /\ offer[request[f].offer].by = request[f].payee
RequestsKnow == \A f \in Funders : RequestKnows(f)

RowsHaveOwners ==
    /\ \A o \in OfferIds : offer[o].status # "NONE" => offer[o].by # Nobody
    /\ \A a \in ApplicationIds : application[a].status # "NONE" => application[a].by # Nobody

MarketInv ==
    /\ TypeOK
    /\ OneHire
    /\ PayeeWasChosen
    /\ TakenHasProvider
    /\ RequestsKnow
    /\ RowsHaveOwners

-----------------------------------------------------------------------------
(* Statements of the repository that this code breaks.                     *)

\* CHANGELOG.md:82 and applications.js:22: acceptance requests for one job do
\* not overwrite jobs.provider_id in turn.
ProviderKept == [][provider # Nobody => provider' = provider]_provider

\* payment_lifecycle.js:40: a job is not assigned to two different offers.
OneOfferAccepted ==
    payment = "OPEN" =>
        \A o, q \in OfferIds : offer[o].status = "ACCEPTED" /\ offer[q].status = "ACCEPTED" => o = q
=============================================================================
