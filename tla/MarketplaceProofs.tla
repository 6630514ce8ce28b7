-------------------------- MODULE MarketplaceProofs --------------------------
(* Proofs about Marketplace for any number of providers, fund requests,     *)
(* offers and applications.                                                 *)
EXTENDS Marketplace, TLAPS

-----------------------------------------------------------------------------
(* Facts about rows.                                                        *)

\* What the updates write is a row again.
LEMMA RowTypes ==
    /\ NoRow \in OfferRows /\ NoRow \in ApplicationRows /\ NoRequest \in FundRequests
    /\ \A p \in Providers : /\ [status |-> "PENDING", by |-> p] \in OfferRows
                            /\ [status |-> "PENDING", by |-> p] \in ApplicationRows
    /\ \A row \in OfferRows, s \in OfferStatuses : [row EXCEPT !.status = s] \in OfferRows
    /\ \A row \in ApplicationRows, s \in ApplicationStatuses :
            [row EXCEPT !.status = s] \in ApplicationRows
<1>1. NoRow \in OfferRows /\ NoRow \in ApplicationRows
    BY DEF NoRow, OfferRows, ApplicationRows, OfferStatuses, ApplicationStatuses, People
<1>2. NoRequest \in FundRequests
    BY MarketAssumption DEF MarketAssumption, NoRequest, FundRequests, People
<1>3. \A p \in Providers : /\ [status |-> "PENDING", by |-> p] \in OfferRows
                           /\ [status |-> "PENDING", by |-> p] \in ApplicationRows
    BY DEF OfferRows, ApplicationRows, OfferStatuses, ApplicationStatuses, People
<1>4. \A row \in OfferRows, s \in OfferStatuses : [row EXCEPT !.status = s] \in OfferRows
    BY DEF OfferRows
<1>5. \A row \in ApplicationRows, s \in ApplicationStatuses :
            [row EXCEPT !.status = s] \in ApplicationRows
    BY DEF ApplicationRows
<1> QED
    BY <1>1, <1>2, <1>3, <1>4, <1>5

\* Accepting an offer leaves a table of offers, accepts this one, keeps who
\* made each and takes back no earlier decision.
LEMMA Accepting ==
    ASSUME TypeOK, NEW o \in OfferIds, offer[o].status = "PENDING"
    PROVE  LET after == OffersAfterAccepting(o)
           IN  /\ after \in [OfferIds -> OfferRows]
               /\ after[o] = [status |-> "ACCEPTED", by |-> offer[o].by]
               /\ \A q \in OfferIds : /\ after[q].by = offer[q].by
                                      /\ after[q].status = "NONE" <=> offer[q].status = "NONE"
                                      /\ Decided(offer[q]) => after[q] = offer[q]
<1> DEFINE after == OffersAfterAccepting(o)
<1>1. \A q \in OfferIds : offer[q] \in OfferRows
    BY DEF TypeOK
<1>2. \A q \in OfferIds : after[q] = IF q = o THEN [offer[q] EXCEPT !.status = "ACCEPTED"]
                                     ELSE IF offer[q].status = "PENDING"
                                          THEN [offer[q] EXCEPT !.status = "REJECTED"]
                                          ELSE offer[q]
    BY DEF OffersAfterAccepting
<1>3. \A q \in OfferIds : after[q] \in OfferRows
    BY <1>1, <1>2, RowTypes DEF OfferStatuses
<1>4. after = [q \in OfferIds |-> after[q]]
    BY DEF OffersAfterAccepting
<1>5. after \in [OfferIds -> OfferRows]
    BY <1>3, <1>4
<1>6. after[o] = [status |-> "ACCEPTED", by |-> offer[o].by]
    BY <1>1, <1>2 DEF OfferRows
<1>7. \A q \in OfferIds : /\ after[q].by = offer[q].by
                          /\ after[q].status = "NONE" <=> offer[q].status = "NONE"
                          /\ Decided(offer[q]) => after[q] = offer[q]
    BY <1>1, <1>2 DEF OfferRows, Decided
<1> QED
    BY <1>5, <1>6, <1>7

-----------------------------------------------------------------------------
(* Type correctness.                                                        *)

\* The empty marketplace is well typed.
LEMMA TypeInit == Init => TypeOK
    BY RowTypes DEF Init, TypeOK, MarketStatuses, People

\* Every request leaves well-typed rows.
LEMMA TypeStep == TypeOK /\ [Next]_vars => TypeOK'
<1> SUFFICES ASSUME TypeOK, [Next]_vars
             PROVE  TypeOK'
    OBVIOUS
<1> USE DEF jobVars, moneyVars
<1>1. CASE Publish \/ RefundCompleted \/ ReleaseCompleted
              \/ \E to \in {"DRAFT", "PUBLISHED", "CANCELLED"} : ModerateJob(to)
    BY <1>1 DEF TypeOK, MarketStatuses, Publish, RefundCompleted, ReleaseCompleted, ModerateJob
<1>2. ASSUME NEW p \in Providers, OfferCheck(p) \/ ApplicationCheck(p)
      PROVE  TypeOK'
    BY <1>2 DEF TypeOK, OfferCheck, ApplicationCheck
<1>3. ASSUME NEW p \in Providers, NEW o \in OfferIds, InsertOffer(p, o)
      PROVE  TypeOK'
    BY <1>3, RowTypes DEF TypeOK, InsertOffer
<1>4. ASSUME NEW p \in Providers, NEW a \in ApplicationIds, InsertApplication(p, a)
      PROVE  TypeOK'
    BY <1>4, RowTypes DEF TypeOK, InsertApplication
<1>5. ASSUME NEW a \in ApplicationIds, NEW from, NEW to \in ApplicationStatuses,
             MoveApplication(a, from, to)
      PROVE  /\ application' \in [ApplicationIds -> ApplicationRows]
             /\ UNCHANGED <<offer, moneyVars, offering, applying, request>>
    BY <1>5, RowTypes DEF TypeOK, MoveApplication
<1>6. ASSUME NEW a \in ApplicationIds,
             Withdraw(a) \/ AdminShortlist(a) \/ AdminForward(a) \/ AdminReject(a)
                \/ Interview(a) \/ MakeOffer(a)
      PROVE  TypeOK'
    BY <1>5, <1>6 DEF TypeOK, ApplicationStatuses, Forwarded, Withdraw, AdminShortlist, AdminForward,
                      AdminReject, Interview, MakeOffer
<1>7. ASSUME NEW a \in ApplicationIds, Hire(a)
      PROVE  TypeOK'
    BY <1>5, <1>7 DEF TypeOK, MarketStatuses, ApplicationStatuses, Hire, ApplicationRows
<1>8. ASSUME NEW o \in OfferIds, AcceptOffer(o)
      PROVE  TypeOK'
    BY <1>8, Accepting DEF TypeOK, MarketStatuses, AcceptOffer, OfferRows
<1>9. ASSUME NEW f \in Funders, FundRead(f) \/ FundChoose(f) \/ FundRefused(f)
      PROVE  TypeOK'
  <2>1. ASSUME FundRead(f)
        PROVE  request' \in [Funders -> FundRequests]
    <3> DEFINE r == [pc |-> IF provider = Nobody THEN "read" ELSE "chosen",
                     payee |-> provider, offer |-> 0]
    <3>1. r \in FundRequests
      BY MarketAssumption DEF MarketAssumption, TypeOK, FundRequests
    <3>2. request' = [request EXCEPT ![f] = r]
      BY <2>1 DEF FundRead
    <3> QED
      BY <3>1, <3>2 DEF TypeOK
  <2>2. ASSUME NEW o \in OfferIds,
               request' = [request EXCEPT ![f] = [pc |-> "chosen", payee |-> offer[o].by, offer |-> o]]
        PROVE  request' \in [Funders -> FundRequests]
    <3> DEFINE r == [pc |-> "chosen", payee |-> offer[o].by, offer |-> o]
    <3>1. offer[o] \in OfferRows /\ o \in 0..MaxOffers
      BY MarketAssumption DEF MarketAssumption, TypeOK, OfferIds
    <3>2. r \in FundRequests
      BY <3>1 DEF FundRequests, OfferRows
    <3>3. request' = [request EXCEPT ![f] = r]
      BY <2>2
    <3> QED
      BY <3>2, <3>3 DEF TypeOK
  <2>3. ASSUME request' = [request EXCEPT ![f] = NoRequest]
        PROVE  request' \in [Funders -> FundRequests]
    BY <2>3, RowTypes DEF TypeOK
  <2>4. request' \in [Funders -> FundRequests]
    BY <1>9, <2>1, <2>2, <2>3 DEF FundChoose, FundRefused
  <2> QED
    BY <1>9, <2>4 DEF TypeOK, FundRead, FundChoose, FundRefused
<1>10. ASSUME NEW f \in Funders, FundCommit(f)
       PROVE  TypeOK'
  <2>1. request[f] \in FundRequests /\ request' \in [Funders -> FundRequests]
    BY <1>10, RowTypes DEF TypeOK, FundCommit
  <2>2. request[f].offer # 0 => request[f].offer \in OfferIds
    BY <2>1, MarketAssumption DEF MarketAssumption, FundRequests, OfferIds
  <2>3. offer' \in [OfferIds -> OfferRows]
    BY <1>10, <2>2, Accepting DEF TypeOK, FundCommit, Fundable
  <2> QED
    BY <1>10, <2>1, <2>3 DEF TypeOK, MarketStatuses, FundCommit, ProviderAfterFunding, FundRequests
<1>11. CASE UNCHANGED vars
    BY <1>11 DEF TypeOK, vars
<1> QED
    BY <1>1, <1>2, <1>3, <1>4, <1>6, <1>7, <1>8, <1>9, <1>10, <1>11
       DEF Next, Candidates, Admin, Owner

\* Every reachable state of the marketplace is well typed.
THEOREM MarketTypeCorrect == Spec => []TypeOK
<1>1. Init => TypeOK
    BY TypeInit
<1>2. TypeOK /\ [Next]_vars => TypeOK'
    BY TypeStep
<1> QED
    BY <1>1, <1>2, PTL DEF Spec

-----------------------------------------------------------------------------
(* Rows only ever grow: they keep their owner and their decision.           *)

\* What a step may do to one offer, and to one application.
OfferGrows(o) ==
    /\ Decided(offer[o]) => offer'[o] = offer[o]
    /\ offer[o].status # "NONE" => offer'[o].status # "NONE" /\ offer'[o].by = offer[o].by
    /\ offer'[o].status # "NONE" => offer'[o].by # Nobody
ApplicationGrows(a) ==
    /\ Decided(application[a]) => application'[a] = application[a]
    /\ application[a].status # "NONE" => application'[a].by = application[a].by
    /\ application'[a].status # "NONE" => application'[a].by # Nobody

\* Offers grow with every step (inserts go to fresh rows, updates to pending ones).
LEMMA OffersGrow ==
    ASSUME TypeOK, RowsHaveOwners, [Next]_vars, NEW q \in OfferIds
    PROVE  OfferGrows(q)
<1> USE DEF jobVars, moneyVars
<1>1. CASE offer' = offer
    BY <1>1 DEF OfferGrows, RowsHaveOwners
<1>2. ASSUME NEW p \in Providers, NEW o \in OfferIds, InsertOffer(p, o)
      PROVE  OfferGrows(q)
  <2>1. offer[o] = NoRow /\ p # Nobody
    BY <1>2, MarketAssumption DEF MarketAssumption, InsertOffer, IsNext
  <2>2. offer'[q] = offer[q] \/ (q = o /\ offer'[q] = [status |-> "PENDING", by |-> p])
    BY <1>2 DEF InsertOffer, TypeOK
  <2> QED
    BY <2>1, <2>2 DEF OfferGrows, RowsHaveOwners, Decided, NoRow
<1>3. ASSUME NEW o \in OfferIds, offer[o].status = "PENDING", offer' = OffersAfterAccepting(o)
      PROVE  OfferGrows(q)
    BY <1>3, Accepting DEF OfferGrows, RowsHaveOwners
<1>4. ASSUME NEW o \in OfferIds, AcceptOffer(o)
      PROVE  OfferGrows(q)
    BY <1>3, <1>4 DEF AcceptOffer
<1>5. ASSUME NEW f \in Funders, FundCommit(f)
      PROVE  OfferGrows(q)
  <2>1. request[f].offer # 0 => request[f].offer \in OfferIds
    BY MarketAssumption DEF MarketAssumption, TypeOK, FundRequests, OfferIds
  <2> QED
    BY <1>1, <1>3, <1>5, <2>1 DEF FundCommit, Fundable
<1>6. CASE \/ Publish \/ RefundCompleted \/ ReleaseCompleted
           \/ \E to \in {"DRAFT", "PUBLISHED", "CANCELLED"} : ModerateJob(to)
           \/ \E p \in Providers : OfferCheck(p) \/ ApplicationCheck(p)
           \/ \E p \in Providers, a \in ApplicationIds : InsertApplication(p, a)
           \/ \E a \in ApplicationIds :
                 \/ Withdraw(a) \/ AdminShortlist(a) \/ AdminForward(a) \/ AdminReject(a)
                 \/ Interview(a) \/ MakeOffer(a) \/ Hire(a)
           \/ \E f \in Funders : FundRead(f) \/ FundChoose(f) \/ FundRefused(f)
           \/ UNCHANGED vars
  <2>1. offer' = offer
    BY <1>6 DEF vars, Publish, RefundCompleted, ReleaseCompleted, ModerateJob, OfferCheck, ApplicationCheck,
                InsertApplication, MoveApplication, Withdraw, AdminShortlist, AdminForward, AdminReject,
                Interview, MakeOffer, Hire, FundRead, FundChoose, FundRefused
  <2> QED
    BY <1>1, <2>1
<1> QED
    BY <1>2, <1>4, <1>5, <1>6 DEF Next, Candidates, Admin, Owner

\* So do applications.
LEMMA ApplicationsGrow ==
    ASSUME TypeOK, RowsHaveOwners, [Next]_vars, NEW b \in ApplicationIds
    PROVE  ApplicationGrows(b)
<1> USE DEF jobVars, moneyVars
<1>1. CASE application' = application
    BY <1>1 DEF ApplicationGrows, RowsHaveOwners
<1>2. ASSUME NEW p \in Providers, NEW a \in ApplicationIds, InsertApplication(p, a)
      PROVE  ApplicationGrows(b)
  <2>1. application[a] = NoRow /\ p # Nobody
    BY <1>2, MarketAssumption DEF MarketAssumption, InsertApplication, IsNext
  <2>2. application'[b] = application[b] \/ (b = a /\ application'[b] = [status |-> "PENDING", by |-> p])
    BY <1>2 DEF InsertApplication, TypeOK
  <2> QED
    BY <2>1, <2>2 DEF ApplicationGrows, RowsHaveOwners, Decided, NoRow
<1>3. ASSUME NEW a \in ApplicationIds, NEW from, NEW to, MoveApplication(a, from, to),
             from \cap {"NONE", "ACCEPTED", "REJECTED", "WITHDRAWN"} = {}
      PROVE  ApplicationGrows(b)
  <2>1. application[a] \in ApplicationRows /\ application[b] \in ApplicationRows
    BY DEF TypeOK
  <2>2. application'[b] = IF b = a THEN [application[b] EXCEPT !.status = to] ELSE application[b]
    BY <1>3 DEF MoveApplication, TypeOK
  <2>3. [application[b] EXCEPT !.status = to].by = application[b].by
    BY <2>1 DEF ApplicationRows
  <2>4. application[a].status \notin {"NONE", "ACCEPTED", "REJECTED", "WITHDRAWN"}
    BY <1>3 DEF MoveApplication
  <2> QED
    BY <2>2, <2>3, <2>4 DEF ApplicationGrows, RowsHaveOwners, Decided
<1>4. ASSUME NEW a \in ApplicationIds,
             \/ Withdraw(a) \/ AdminShortlist(a) \/ AdminForward(a) \/ AdminReject(a)
             \/ Interview(a) \/ MakeOffer(a) \/ Hire(a)
      PROVE  ApplicationGrows(b)
    BY <1>3, <1>4 DEF Withdraw, AdminShortlist, AdminForward, AdminReject, Interview, MakeOffer, Hire,
                      Forwarded
<1>5. CASE \/ Publish \/ RefundCompleted \/ ReleaseCompleted
           \/ \E to \in {"DRAFT", "PUBLISHED", "CANCELLED"} : ModerateJob(to)
           \/ \E p \in Providers : OfferCheck(p) \/ ApplicationCheck(p)
           \/ \E p \in Providers, o \in OfferIds : InsertOffer(p, o)
           \/ \E o \in OfferIds : AcceptOffer(o)
           \/ \E f \in Funders : FundRead(f) \/ FundChoose(f) \/ FundCommit(f) \/ FundRefused(f)
           \/ UNCHANGED vars
  <2>1. application' = application
    BY <1>5 DEF vars, Publish, RefundCompleted, ReleaseCompleted, ModerateJob, OfferCheck, ApplicationCheck,
                InsertOffer, AcceptOffer, FundRead, FundChoose, FundCommit, FundRefused
  <2> QED
    BY <1>1, <2>1
<1> QED
    BY <1>2, <1>4, <1>5 DEF Next, Candidates, Admin, Owner

\* Who was chosen once stays chosen.
LEMMA ChosenStays ==
    ASSUME TypeOK, RowsHaveOwners, [Next]_vars, NEW p, Chosen(p)
    PROVE  Chosen(p)'
<1>1. ASSUME NEW o \in OfferIds, offer[o] = [status |-> "ACCEPTED", by |-> p]
      PROVE  Chosen(p)'
  <2>1. offer'[o] = offer[o]
    BY <1>1, OffersGrow DEF OfferGrows, Decided
  <2> QED
    BY <1>1, <2>1 DEF Chosen
<1>2. ASSUME NEW a \in ApplicationIds, application[a] = [status |-> "ACCEPTED", by |-> p]
      PROVE  Chosen(p)'
  <2>1. application'[a] = application[a]
    BY <1>2, ApplicationsGrow DEF ApplicationGrows, Decided
  <2> QED
    BY <1>2, <2>1 DEF Chosen
<1> QED
    BY <1>1, <1>2 DEF Chosen

\* Rows keep having owners.
LEMMA OwnersStep == TypeOK /\ RowsHaveOwners /\ [Next]_vars => RowsHaveOwners'
    BY OffersGrow, ApplicationsGrow DEF RowsHaveOwners, OfferGrows, ApplicationGrows

\* The invariant DecisionsStayFinal needs, which knows nothing of jobs or money.
TypedOwners == TypeOK /\ RowsHaveOwners

\* A decision on an offer or an application is never taken back.
THEOREM DecisionsStayFinal == Spec => DecisionsAreFinal
<1>1. Init => TypedOwners
    BY TypeInit DEF Init, TypedOwners, RowsHaveOwners, NoRow
<1>2. TypedOwners /\ [Next]_vars => TypedOwners'
    BY TypeStep, OwnersStep DEF TypedOwners
<1>3. TypedOwners /\ [Next]_vars =>
        [/\ \A o \in OfferIds : Decided(offer[o]) => offer'[o] = offer[o]
         /\ \A a \in ApplicationIds : Decided(application[a]) => application'[a] = application[a]
        ]_<<offer, application>>
    BY OffersGrow, ApplicationsGrow DEF TypedOwners, OfferGrows, ApplicationGrows
<1> QED
    BY <1>1, <1>2, <1>3, PTL DEF Spec, DecisionsAreFinal

-----------------------------------------------------------------------------
(* The inductive invariant, one lemma per part.                             *)

\* Only Hire accepts an application, and it looked at all others.
LEMMA OneHireStep == TypeOK /\ OneHire /\ [Next]_vars => OneHire'
<1> SUFFICES ASSUME TypeOK, OneHire, [Next]_vars
             PROVE  OneHire'
    OBVIOUS
<1> USE DEF jobVars, moneyVars
<1>1. CASE application' = application
    BY <1>1 DEF OneHire
<1>2. ASSUME NEW p \in Providers, NEW a \in ApplicationIds, InsertApplication(p, a)
      PROVE  OneHire'
  <2>1. ASSUME NEW b \in ApplicationIds, application'[b].status = "ACCEPTED"
        PROVE  application[b].status = "ACCEPTED"
    BY <1>2, <2>1 DEF InsertApplication, TypeOK
  <2> QED
    BY <2>1 DEF OneHire
<1>3. ASSUME NEW a \in ApplicationIds, NEW from, NEW to, to # "ACCEPTED", MoveApplication(a, from, to)
      PROVE  OneHire'
  <2>1. ASSUME NEW b \in ApplicationIds, application'[b].status = "ACCEPTED"
        PROVE  application[b].status = "ACCEPTED"
    <3>1. application[a] \in ApplicationRows
      BY DEF TypeOK
    <3>2. application'[b] = IF b = a THEN [application[a] EXCEPT !.status = to] ELSE application[b]
      BY <1>3 DEF MoveApplication, TypeOK
    <3>3. [application[a] EXCEPT !.status = to].status = to
      BY <3>1 DEF ApplicationRows
    <3> QED
      BY <1>3, <2>1, <3>2, <3>3
  <2> QED
    BY <2>1 DEF OneHire
<1>4. ASSUME NEW a \in ApplicationIds,
             Withdraw(a) \/ AdminShortlist(a) \/ AdminForward(a) \/ AdminReject(a)
                \/ Interview(a) \/ MakeOffer(a)
      PROVE  OneHire'
    BY <1>3, <1>4 DEF Withdraw, AdminShortlist, AdminForward, AdminReject, Interview, MakeOffer, Forwarded
<1>5. ASSUME NEW a \in ApplicationIds, Hire(a)
      PROVE  OneHire'
  <2>1. ASSUME NEW b \in ApplicationIds, application'[b].status = "ACCEPTED"
        PROVE  b = a
    BY <1>5, <2>1 DEF Hire, MoveApplication, AlreadyHired, TypeOK
  <2> QED
    BY <2>1 DEF OneHire
<1>6. CASE \/ Publish \/ RefundCompleted \/ ReleaseCompleted
           \/ \E to \in {"DRAFT", "PUBLISHED", "CANCELLED"} : ModerateJob(to)
           \/ \E p \in Providers : OfferCheck(p) \/ ApplicationCheck(p)
           \/ \E p \in Providers, o \in OfferIds : InsertOffer(p, o)
           \/ \E o \in OfferIds : AcceptOffer(o)
           \/ \E f \in Funders : FundRead(f) \/ FundChoose(f) \/ FundCommit(f) \/ FundRefused(f)
           \/ UNCHANGED vars
  <2>1. application' = application
    BY <1>6 DEF vars, Publish, RefundCompleted, ReleaseCompleted, ModerateJob, OfferCheck, ApplicationCheck,
                InsertOffer, AcceptOffer, FundRead, FundChoose, FundCommit, FundRefused
  <2> QED
    BY <1>1, <2>1
<1> QED
    BY <1>2, <1>4, <1>5, <1>6 DEF Next, Candidates, Admin, Owner

\* A hired candidate is chosen.
LEMMA HireChooses ==
    ASSUME TypeOK, NEW a \in ApplicationIds, Hire(a), NEW p, p = application[a].by
    PROVE  Chosen(p)'
<1>1. application[a] \in ApplicationRows
    BY DEF TypeOK
<1>2. application'[a] = [status |-> "ACCEPTED", by |-> p]
    BY <1>1 DEF Hire, MoveApplication, TypeOK, ApplicationRows
<1> QED
    BY <1>2 DEF Chosen

\* So is the maker of an accepted offer.
LEMMA AcceptingChooses ==
    ASSUME TypeOK, NEW o \in OfferIds, offer[o].status = "PENDING", offer' = OffersAfterAccepting(o),
           NEW p, p = offer[o].by
    PROVE  Chosen(p)'
<1>1. offer'[o] = [status |-> "ACCEPTED", by |-> p]
    BY Accepting
<1> QED
    BY <1>1 DEF Chosen

\* A fund request commits with a payee who is chosen by then.
LEMMA FundChooses ==
    ASSUME TypeOK, RequestsKnow, NEW f \in Funders, FundCommit(f), NEW p, p = request[f].payee
    PROVE  Chosen(p)' /\ p # Nobody
<1>1. request[f].pc = "chosen" /\ p # Nobody
    BY DEF FundCommit, RequestsKnow, RequestKnows
<1>2. CASE request[f].offer = 0
  <2>1. Chosen(p)
    BY <1>1, <1>2 DEF RequestsKnow, RequestKnows
  <2>2. offer' = offer /\ application' = application
    BY <1>2 DEF FundCommit
  <2>3. Chosen(p)'
    BY <2>1, <2>2 DEF Chosen
  <2> QED
    BY <1>1, <2>3
<1>3. CASE request[f].offer # 0
  <2>1. request[f].offer \in OfferIds
    BY <1>3, MarketAssumption DEF MarketAssumption, TypeOK, FundRequests, OfferIds
  <2>2. /\ offer[request[f].offer].status = "PENDING"
        /\ offer' = OffersAfterAccepting(request[f].offer)
        /\ offer[request[f].offer].by = p
    BY <1>3 DEF FundCommit, Fundable, RequestsKnow, RequestKnows
  <2>3. Chosen(p)'
    BY <2>1, <2>2, AcceptingChooses
  <2> QED
    BY <1>1, <2>3
<1> QED
    BY <1>2, <1>3

\* Steps that write neither the provider nor the money.
Quiet ==
    \/ \E p \in Providers : OfferCheck(p) \/ ApplicationCheck(p)
    \/ \E p \in Providers, o \in OfferIds : InsertOffer(p, o)
    \/ \E p \in Providers, a \in ApplicationIds : InsertApplication(p, a)
    \/ \E a \in ApplicationIds :
          \/ Withdraw(a) \/ AdminShortlist(a) \/ AdminForward(a) \/ AdminReject(a)
          \/ Interview(a) \/ MakeOffer(a)
    \/ \E f \in Funders : FundRead(f) \/ FundChoose(f) \/ FundRefused(f)
    \/ UNCHANGED vars

\* A quiet step leaves job, provider and money as they are.
LEMMA QuietKeeps == Quiet => UNCHANGED <<job, provider, payment, payee>>
    BY DEF Quiet, vars, jobVars, moneyVars, OfferCheck, ApplicationCheck, InsertOffer, InsertApplication,
           MoveApplication, Withdraw, AdminShortlist, AdminForward, AdminReject, Interview, MakeOffer,
           FundRead, FundChoose, FundRefused

\* Every step is a quiet one or one of these.
LEMMA StepCases ==
    ASSUME [Next]_vars
    PROVE  \/ Quiet \/ Publish \/ RefundCompleted \/ ReleaseCompleted
           \/ \E to \in {"DRAFT", "PUBLISHED", "CANCELLED"} : ModerateJob(to)
           \/ \E a \in ApplicationIds : Hire(a)
           \/ \E o \in OfferIds : AcceptOffer(o)
           \/ \E f \in Funders : FundCommit(f)
    BY DEF Next, Candidates, Admin, Owner, Quiet

\* Who gets money or work was chosen before, or is by this step.
LEMMA PayeeStep ==
    TypeOK /\ PayeeWasChosen /\ RequestsKnow /\ RowsHaveOwners /\ [Next]_vars => PayeeWasChosen'
<1> SUFFICES ASSUME TypeOK, PayeeWasChosen, RequestsKnow, RowsHaveOwners, [Next]_vars
             PROVE  PayeeWasChosen'
    OBVIOUS
<1> SUFFICES ASSUME NEW p
             PROVE  /\ payment' # "NONE" /\ p = payee' => Chosen(p)'
                    /\ provider' # Nobody /\ p = provider' => Chosen(p)'
  <2>1. (payment # "NONE" => Chosen(payee))' <=> \A p : payment' # "NONE" /\ p = payee' => Chosen(p)'
    BY DEF Chosen
  <2>2. (provider # Nobody => Chosen(provider))'
           <=> \A p : provider' # Nobody /\ p = provider' => Chosen(p)'
    BY DEF Chosen
  <2> QED
    BY <2>1, <2>2 DEF PayeeWasChosen
<1>1. payment # "NONE" /\ p = payee => Chosen(p)'
    BY ChosenStays DEF PayeeWasChosen
<1>2. provider # Nobody /\ p = provider => Chosen(p)'
    BY ChosenStays DEF PayeeWasChosen
<1> USE DEF jobVars, moneyVars
<1>3. CASE Quiet
    BY <1>1, <1>2, <1>3, QuietKeeps
<1>4. CASE Publish \/ RefundCompleted \/ ReleaseCompleted
              \/ \E to \in {"DRAFT", "PUBLISHED", "CANCELLED"} : ModerateJob(to)
    BY <1>1, <1>2, <1>4 DEF Publish, RefundCompleted, ReleaseCompleted, ModerateJob
<1>5. ASSUME NEW a \in ApplicationIds, Hire(a)
      PROVE  /\ payment' # "NONE" /\ p = payee' => Chosen(p)'
             /\ provider' # Nobody /\ p = provider' => Chosen(p)'
    BY <1>1, <1>5, HireChooses DEF Hire, MoveApplication
<1>6. ASSUME NEW o \in OfferIds, AcceptOffer(o)
      PROVE  /\ payment' # "NONE" /\ p = payee' => Chosen(p)'
             /\ provider' # Nobody /\ p = provider' => Chosen(p)'
    BY <1>1, <1>6, AcceptingChooses DEF AcceptOffer
<1>7. ASSUME NEW f \in Funders, FundCommit(f)
      PROVE  /\ payment' # "NONE" /\ p = payee' => Chosen(p)'
             /\ provider' # Nobody /\ p = provider' => Chosen(p)'
    BY <1>2, <1>7, FundChooses DEF FundCommit, ProviderAfterFunding
<1> QED
    BY <1>3, <1>4, <1>5, <1>6, <1>7, StepCases

\* A job becomes taken only together with a provider, FUNDED only with a payment.
LEMMA TakenStep ==
    TypeOK /\ TakenHasProvider /\ RequestsKnow /\ RowsHaveOwners /\ [Next]_vars => TakenHasProvider'
<1> SUFFICES ASSUME TypeOK, TakenHasProvider, RequestsKnow, RowsHaveOwners, [Next]_vars
             PROVE  TakenHasProvider'
    OBVIOUS
<1> USE DEF TakenHasProvider, jobVars, moneyVars
<1>1. CASE Quiet
    BY <1>1, QuietKeeps
<1>2. CASE Publish \/ RefundCompleted \/ ReleaseCompleted
              \/ \E to \in {"DRAFT", "PUBLISHED", "CANCELLED"} : ModerateJob(to)
    BY <1>2 DEF Publish, RefundCompleted, ReleaseCompleted, ModerateJob
<1>3. ASSUME NEW a \in ApplicationIds, Hire(a)
      PROVE  TakenHasProvider'
    BY <1>3 DEF Hire, Hirable, MoveApplication, RowsHaveOwners
<1>4. ASSUME NEW o \in OfferIds, AcceptOffer(o)
      PROVE  TakenHasProvider'
    BY <1>4 DEF AcceptOffer, RowsHaveOwners
<1>5. ASSUME NEW f \in Funders, FundCommit(f)
      PROVE  TakenHasProvider'
    BY <1>5, FundChooses DEF FundCommit, ProviderAfterFunding
<1> QED
    BY <1>1, <1>2, <1>3, <1>4, <1>5, StepCases

\* What a request knows about its payee and its offer, every step leaves true.
LEMMA KnownStays ==
    ASSUME TypeOK, RowsHaveOwners, [Next]_vars, NEW f \in Funders, RequestKnows(f),
           request'[f] = request[f]
    PROVE  RequestKnows(f)'
<1>1. request[f].offer # 0 => request[f].offer \in OfferIds
    BY MarketAssumption DEF MarketAssumption, TypeOK, FundRequests, OfferIds
<1>2. request[f].offer # 0 => /\ offer'[request[f].offer].status # "NONE"
                              /\ offer'[request[f].offer].by = request[f].payee
    BY <1>1, OffersGrow DEF OfferGrows, RequestKnows
<1>3. ASSUME request[f].pc = "chosen" /\ request[f].offer = 0, NEW p, p = request[f].payee
      PROVE  Chosen(p)'
    BY <1>3, ChosenStays DEF RequestKnows
<1>4. request[f].pc = "chosen" /\ request[f].offer = 0 => Chosen(request[f].payee)'
    BY <1>3 DEF Chosen
<1> QED
    BY <1>2, <1>4 DEF RequestKnows

\* A request learns only what is true, and the others keep what they know.
LEMMA RequestsStep ==
    TypeOK /\ PayeeWasChosen /\ RequestsKnow /\ RowsHaveOwners /\ [Next]_vars => RequestsKnow'
<1> SUFFICES ASSUME TypeOK, PayeeWasChosen, RequestsKnow, RowsHaveOwners, [Next]_vars, NEW g \in Funders
             PROVE  RequestKnows(g)'
    BY DEF RequestsKnow
<1>1. CASE request'[g] = request[g]
    BY <1>1, KnownStays DEF RequestsKnow
<1>2. CASE request'[g] = NoRequest
    BY <1>2 DEF RequestKnows, NoRequest
<1>3. CASE request' = request
    BY <1>1, <1>3
<1>4. ASSUME NEW f \in Funders, NEW r, request' = [request EXCEPT ![f] = r]
      PROVE  request'[g] = request[g] \/ (g = f /\ request'[g] = r)
    BY <1>4 DEF TypeOK
<1>5. ASSUME NEW f \in Funders, FundRead(f)
      PROVE  RequestKnows(g)'
  <2>1. request'[g] = request[g]
           \/ request'[g] = [pc |-> IF provider = Nobody THEN "read" ELSE "chosen",
                             payee |-> provider, offer |-> 0]
    BY <1>4, <1>5 DEF FundRead
  <2>2. provider # Nobody => Chosen(provider)
    BY DEF PayeeWasChosen
  <2>3. offer' = offer /\ application' = application
    BY <1>5 DEF FundRead
  <2>4. CASE request'[g] = [pc |-> IF provider = Nobody THEN "read" ELSE "chosen",
                            payee |-> provider, offer |-> 0]
    BY <2>2, <2>3, <2>4 DEF RequestKnows, Chosen
  <2> QED
    BY <1>1, <2>1, <2>4
<1>6. ASSUME NEW f \in Funders, FundChoose(f)
      PROVE  RequestKnows(g)'
  <2>1. CASE request' = [request EXCEPT ![f] = NoRequest]
    BY <1>1, <1>2, <1>4, <2>1
  <2>2. ASSUME NEW o \in OfferIds, offer[o].status = "PENDING",
               request'[g] = [pc |-> "chosen", payee |-> offer[o].by, offer |-> o]
        PROVE  RequestKnows(g)'
    <3>1. offer' = offer /\ offer[o].by # Nobody /\ o # 0
      BY <1>6, <2>2 DEF FundChoose, RowsHaveOwners, OfferIds
    <3> QED
      BY <2>2, <3>1 DEF RequestKnows
  <2>3. ASSUME NEW o \in OfferIds, offer[o].status = "PENDING",
               request' = [request EXCEPT ![f] = [pc |-> "chosen", payee |-> offer[o].by, offer |-> o]]
        PROVE  RequestKnows(g)'
    BY <1>1, <1>4, <2>2, <2>3
  <2> QED
    BY <1>6, <2>1, <2>3 DEF FundChoose
<1>7. ASSUME NEW f \in Funders, FundCommit(f) \/ FundRefused(f)
      PROVE  RequestKnows(g)'
    BY <1>1, <1>2, <1>4, <1>7 DEF FundCommit, FundRefused
<1>8. CASE \/ Publish \/ RefundCompleted \/ ReleaseCompleted
           \/ \E to \in {"DRAFT", "PUBLISHED", "CANCELLED"} : ModerateJob(to)
           \/ \E p \in Providers : OfferCheck(p) \/ ApplicationCheck(p)
           \/ \E p \in Providers, o \in OfferIds : InsertOffer(p, o)
           \/ \E p \in Providers, a \in ApplicationIds : InsertApplication(p, a)
           \/ \E a \in ApplicationIds :
                 \/ Withdraw(a) \/ AdminShortlist(a) \/ AdminForward(a) \/ AdminReject(a)
                 \/ Interview(a) \/ MakeOffer(a) \/ Hire(a)
           \/ \E o \in OfferIds : AcceptOffer(o)
           \/ UNCHANGED vars
  <2>1. request' = request
    BY <1>8 DEF vars, Publish, RefundCompleted, ReleaseCompleted, ModerateJob, OfferCheck, ApplicationCheck,
                InsertOffer, InsertApplication, MoveApplication, Withdraw, AdminShortlist, AdminForward,
                AdminReject, Interview, MakeOffer, Hire, AcceptOffer
  <2> QED
    BY <1>3, <2>1
<1> QED
    BY <1>5, <1>6, <1>7, <1>8 DEF Next, Candidates, Admin, Owner

-----------------------------------------------------------------------------
(* The theorems.                                                            *)

\* The invariant holds of an empty marketplace.
LEMMA MarketInit == Init => MarketInv
<1> SUFFICES ASSUME Init
             PROVE  MarketInv
    OBVIOUS
<1>1. TypeOK
    BY TypeInit
<1>2. OneHire /\ PayeeWasChosen /\ TakenHasProvider
    BY DEF Init, OneHire, PayeeWasChosen, TakenHasProvider, NoRow
<1>3. RequestsKnow /\ RowsHaveOwners
    BY DEF Init, RequestsKnow, RequestKnows, RowsHaveOwners, NoRow, NoRequest
<1> QED
    BY <1>1, <1>2, <1>3 DEF MarketInv

\* The marketplace keeps its invariant under every interleaving of requests.
THEOREM MarketInvariant == Spec => []MarketInv
<1>1. MarketInv /\ [Next]_vars => MarketInv'
    BY TypeStep, OneHireStep, PayeeStep, TakenStep, RequestsStep, OwnersStep DEF MarketInv
<1> QED
    BY <1>1, MarketInit, PTL DEF Spec

\* Never two hires for a job, whatever offers, fundings and withdrawals interleave.
THEOREM OneHireHolds == Spec => []OneHire
<1>1. MarketInv => OneHire
    BY DEF MarketInv
<1> QED
    BY <1>1, MarketInvariant, PTL

\* Nobody is paid or set to work whom the owner did not accept.
THEOREM PaidWasChosen == Spec => []PayeeWasChosen
<1>1. MarketInv => PayeeWasChosen
    BY DEF MarketInv
<1> QED
    BY <1>1, MarketInvariant, PTL

\* A taken job has a provider, and it is FUNDED exactly while money is in escrow.
THEOREM TakenJobs == Spec => []TakenHasProvider
<1>1. MarketInv => TakenHasProvider
    BY DEF MarketInv
<1> QED
    BY <1>1, MarketInvariant, PTL

\* No request replaces the provider or the payee while money is in escrow.
THEOREM ProviderPinned == Spec => MoneyPinsProvider
<1>1. MarketInv /\ [Next]_vars => [payment = "OPEN" => UNCHANGED <<provider, payee>>]_<<provider, payee>>
  <2> SUFFICES ASSUME MarketInv, [Next]_vars, payment = "OPEN"
               PROVE  UNCHANGED <<provider, payee>>
      OBVIOUS
  <2>1. job = "FUNDED"
    BY DEF MarketInv, TakenHasProvider
  <2>2. CASE Quiet
    BY <2>2, QuietKeeps
  <2>3. ~ \/ \E a \in ApplicationIds : Hire(a)
          \/ \E o \in OfferIds : AcceptOffer(o)
          \/ \E f \in Funders : FundCommit(f)
    BY <2>1 DEF Hire, Hirable, AcceptOffer, FundCommit, Fundable
  <2>4. CASE Publish \/ RefundCompleted \/ ReleaseCompleted
                \/ \E to \in {"DRAFT", "PUBLISHED", "CANCELLED"} : ModerateJob(to)
    BY <2>4 DEF Publish, RefundCompleted, ReleaseCompleted, ModerateJob, moneyVars, jobVars
  <2> QED
    BY <2>2, <2>3, <2>4, StepCases
<1> QED
    BY <1>1, MarketInvariant, PTL DEF Spec, MoneyPinsProvider
=============================================================================
