----------------------- MODULE PaymentLifecycleProofs -----------------------
(***************************************************************************)
(* Theorems of module PaymentLifecycle, for every number of workers,       *)
(* attempts, refund keys, webhook ids and faults.                          *)
(***************************************************************************)
EXTENDS PaymentLifecycle, TLAPS

-----------------------------------------------------------------------------
(* Rows keep their shape under the operators the transactions are built of. *)

\* The empty rows are rows.
LEMMA EmptyRows == NoEvent \in OutboxRows /\ NoRefund \in RefundRows
BY ConstantsAssumption
   DEF ConstantsAssumption, NoEvent, OutboxRows, EventStatuses, NoRefund, RefundRows, RefundStatuses

\* A first upsert on outbox_events leaves an outbox row.
LEMMA FreshType == \A r \in 0..MaxRefunds : Fresh(r) \in OutboxRows
BY EmptyRows DEF Fresh, OutboxRows, EventStatuses

\* So does an upsert on a row that is there, and a completion.
LEMMA UpsertTypes ==
    ASSUME NEW e \in OutboxRows
    PROVE  /\ Requeued(e) \in OutboxRows
           /\ [Requeued(e) EXCEPT !.attempts = 0] \in OutboxRows
           /\ [e EXCEPT !.status = "DONE"] \in OutboxRows
<1>1. Requeued(e) \in OutboxRows
    BY DEF Requeued, OutboxRows, EventStatuses
<1>2. [Requeued(e) EXCEPT !.attempts = 0] \in OutboxRows
    BY <1>1, ConstantsAssumption DEF ConstantsAssumption, OutboxRows
<1>3. [e EXCEPT !.status = "DONE"] \in OutboxRows
    BY DEF OutboxRows, EventStatuses
<1> QED
    BY <1>1, <1>2, <1>3

\* A claim and a failure leave an outbox row.
LEMMA LeaseTypes ==
    ASSUME NEW w \in Workers, NEW e \in OutboxRows
    PROVE  /\ [e EXCEPT !.status = "PROCESSING",
                        !.attempts = IF @ < MaxAttempts THEN @ + 1 ELSE @,
                        !.lease = w] \in OutboxRows
           /\ \A s \in {"FAILED", "PENDING"} : [e EXCEPT !.status = s, !.lease = Nobody] \in OutboxRows
<1>1. (IF e.attempts < MaxAttempts THEN e.attempts + 1 ELSE e.attempts) \in 0..MaxAttempts
    BY ConstantsAssumption DEF ConstantsAssumption, OutboxRows
<1>2. \A n \in 0..MaxAttempts : [e EXCEPT !.status = "PROCESSING", !.attempts = n, !.lease = w] \in OutboxRows
    BY DEF OutboxRows, EventStatuses
<1>3. \A s \in {"FAILED", "PENDING"} : [e EXCEPT !.status = s, !.lease = Nobody] \in OutboxRows
    BY DEF OutboxRows, EventStatuses
<1> QED
    BY <1>1, <1>2, <1>3

\* The first state, before the job is even published, is well typed.
LEMMA TypeInit == Init => TypeOK
<1> SUFFICES ASSUME Init PROVE TypeOK
    OBVIOUS
<1>1. event \in [EventKinds -> OutboxRows] /\ refund \in [RefundIds -> RefundRows]
    BY EmptyRows DEF Init
<1>2. ledger \in [Journals -> Nat] /\ faults \in 0..MaxFaults
    BY ConstantsAssumption DEF ConstantsAssumption, Init
<1>3. /\ webhookLog \in [WebhookIds -> WebhookTypes \cup {"NONE"}]
      /\ pc \in [Workers -> {"idle", "claimed", "confirmed", "failing"}]
      /\ task \in [Workers -> EventKinds \cup {"NONE"}]
      /\ \A w \in Workers : pc[w] = "idle" <=> task[w] = "NONE"
    BY DEF Init
<1>4. /\ job \in JobStatuses /\ payment \in PaymentStatuses /\ psp \in PspStatuses
      /\ assigned \in BOOLEAN /\ starting \in BOOLEAN /\ settlement \in BOOLEAN
      /\ providerRef \in {"NONE", "PLACEHOLDER", "PSP"}
    BY DEF Init, JobStatuses, PaymentStatuses, PspStatuses
<1> QED
    BY <1>1, <1>2, <1>3, <1>4 DEF TypeOK

\* Every step keeps the rows and the workers' state well typed.
LEMMA TypeStep == TypeOK /\ [Next]_vars => TypeOK'
<1> SUFFICES ASSUME TypeOK, [Next]_vars PROVE TypeOK'
    OBVIOUS
<1> USE DEF jobVars, moneyVars, workerVars
<1>1. CASE Publish \/ AssignProvider \/ StartCheck \/ StartCommit \/ Deliver
    BY <1>1 DEF TypeOK, Publish, AssignProvider, StartCheck, StartCommit, Deliver, JobStatuses
<1>2. CASE AcceptDelivery
    BY <1>2 DEF TypeOK, AcceptDelivery, JobStatuses, PaymentStatuses
<1>3. CASE \E to \in ModeratedTo : ModerateJob(to)
    BY <1>3 DEF TypeOK, ModerateJob, ModeratedTo, JobStatuses
<1>4. CASE FundJob
  <2>1. event' \in [EventKinds -> OutboxRows]
    <3>1. Fresh(0) \in OutboxRows
      BY FreshType, ConstantsAssumption DEF ConstantsAssumption
    <3> QED
      BY <1>4, <3>1 DEF TypeOK, FundJob
  <2>2. ledger' \in [Journals -> Nat]
    BY <1>4 DEF TypeOK, FundJob, Posted
  <2> QED
    BY <1>4, <2>1, <2>2 DEF TypeOK, FundJob, JobStatuses, PaymentStatuses
<1>5. CASE RetryHold
  <2>1. event' \in [EventKinds -> OutboxRows]
    <3>1. Requeued(event["CREATE_HOLD"]) \in OutboxRows
      BY UpsertTypes DEF TypeOK, EventKinds
    <3> QED
      BY <1>5, <3>1 DEF TypeOK, RetryHold
  <2> QED
    BY <1>5, <2>1 DEF TypeOK, RetryHold, PaymentStatuses
<1>6. CASE EnqueuePaymentRelease
  <2>1. event' \in [EventKinds -> OutboxRows]
    <3>1. event["RELEASE"] \in OutboxRows
      BY DEF TypeOK, EventKinds
    <3>2. Fresh(0) \in OutboxRows
      BY FreshType, ConstantsAssumption DEF ConstantsAssumption
    <3>3. [Requeued(event["RELEASE"]) EXCEPT !.attempts = 0] \in OutboxRows
      BY <3>1, UpsertTypes
    <3> DEFINE after == CASE event["RELEASE"].status = "NONE" -> Fresh(0)
                          [] event["RELEASE"].status = "DONE" -> event["RELEASE"]
                          [] OTHER -> [Requeued(event["RELEASE"]) EXCEPT !.attempts = 0]
    <3>4. after \in OutboxRows
      BY <3>1, <3>2, <3>3
    <3>5. event' = [event EXCEPT !["RELEASE"] = after]
      BY <1>6 DEF EnqueuePaymentRelease
    <3> QED
      BY <3>4, <3>5 DEF TypeOK
  <2> QED
    BY <1>6, <2>1 DEF TypeOK, EnqueuePaymentRelease, PaymentStatuses
<1>7. ASSUME NEW key \in RefundKeys \cup {NoKey}, NEW r \in RefundIds, CreateRefund(key, r)
      PROVE  TypeOK'
  <2>1. event' \in [EventKinds -> OutboxRows]
    <3>1. event["REFUND"] \in OutboxRows
      BY DEF TypeOK, EventKinds
    <3>2. Fresh(r) \in OutboxRows
      BY FreshType, ConstantsAssumption DEF ConstantsAssumption, RefundIds
    <3>3. Requeued(event["REFUND"]) \in OutboxRows
      BY <3>1, UpsertTypes
    <3>4. RefundEventAfter(r) \in OutboxRows
      BY <3>1, <3>2, <3>3 DEF RefundEventAfter
    <3> QED
      BY <1>7, <3>4 DEF TypeOK, CreateRefund
  <2>2. refund' \in [RefundIds -> RefundRows]
    BY <1>7 DEF TypeOK, CreateRefund, RefundRows, RefundStatuses
  <2> QED
    BY <1>7, <2>1, <2>2 DEF TypeOK, CreateRefund, PaymentStatuses
<1>8. ASSUME NEW id \in WebhookIds, Webhook(id) PROVE TypeOK'
  <2>1. webhookLog' \in [WebhookIds -> WebhookTypes \cup {"NONE"}]
    BY <1>8 DEF TypeOK, Webhook, HeldWebhook, ReleasedWebhook, RefundedWebhook, RecordWebhook, WebhookTypes
  <2>2. CASE HeldWebhook(id)
    BY <2>1, <2>2 DEF TypeOK, HeldWebhook, RecordWebhook, PaymentStatuses
  <2>3. CASE ReleasedWebhook(id)
    <3>1. ledger' \in [Journals -> Nat]
      BY <2>3 DEF TypeOK, ReleasedWebhook, SettleRelease, Posted
    <3> QED
      BY <2>1, <2>3, <3>1, ZenonT(60) DEF TypeOK, ReleasedWebhook, SettleRelease, RecordWebhook, PaymentStatuses, JobStatuses
  <2>4. CASE RefundedWebhook(id)
    <3>1. ledger' \in [Journals -> Nat]
      BY <2>4 DEF TypeOK, RefundedWebhook, SettleRefund, Posted
    <3>2. refund' \in [RefundIds -> RefundRows]
      BY <2>4 DEF TypeOK, RefundedWebhook, SettleRefund, RefundRows, RefundStatuses
    <3> QED
      BY <2>1, <2>4, <3>1, <3>2
         DEF TypeOK, RefundedWebhook, SettleRefund, RecordWebhook, PaymentStatuses, JobStatuses
  <2> QED
    BY <1>8, <2>2, <2>3, <2>4 DEF Webhook
<1>9. ASSUME NEW w \in Workers, NEW k \in EventKinds, ClaimOutboxEvent(w, k) PROVE TypeOK'
  <2>1. event' \in [EventKinds -> OutboxRows]
    BY <1>9, LeaseTypes DEF TypeOK, ClaimOutboxEvent
  <2>2. faults' \in 0..MaxFaults
    BY <1>9, ConstantsAssumption DEF ConstantsAssumption, TypeOK, ClaimOutboxEvent
  <2> QED
    BY <1>9, <2>1, <2>2 DEF TypeOK, ClaimOutboxEvent, EventKinds
<1>10. ASSUME NEW w \in Workers, CallProvider(w) PROVE TypeOK'
    BY <1>10 DEF TypeOK, CallProvider, PspAfter, PspStatuses, EventKinds
<1>11. ASSUME NEW w \in Workers, Complete(w) PROVE TypeOK'
  <2>1. faults' \in 0..MaxFaults
    BY <1>11, ConstantsAssumption
       DEF ConstantsAssumption, TypeOK, Complete, CompleteCreateHold, CompletePaymentRelease,
           CompletePaymentRefund, CompletionRejected, Acknowledged
  <2>2. \A k \in EventKinds : Done(k) \in [EventKinds -> OutboxRows]
    BY UpsertTypes DEF TypeOK, Done
  <2>3. /\ pc' \in [Workers -> {"idle", "claimed", "confirmed", "failing"}]
        /\ task' \in [Workers -> EventKinds \cup {"NONE"}]
        /\ \A v \in Workers : pc'[v] = "idle" <=> task'[v] = "NONE"
    BY <1>11 DEF TypeOK, Complete, CompleteCreateHold, CompletePaymentRelease,
                 CompletePaymentRefund, CompletionRejected, Acknowledged, EventKinds
  <2>4. CASE CompleteCreateHold(w)
    BY <2>1, <2>2, <2>3, <2>4 DEF TypeOK, CompleteCreateHold, EventKinds, PaymentStatuses
  <2>5. CASE CompletePaymentRelease(w)
    <3>1. ledger' \in [Journals -> Nat]
      BY <2>5 DEF TypeOK, CompletePaymentRelease, SettleRelease, Posted
    <3> QED
      BY <2>1, <2>2, <2>3, <2>5, <3>1
         DEF TypeOK, CompletePaymentRelease, SettleRelease, EventKinds, PaymentStatuses, JobStatuses
  <2>6. CASE CompletePaymentRefund(w)
    <3>1. ledger' \in [Journals -> Nat]
      BY <2>6 DEF TypeOK, CompletePaymentRefund, SettleRefund, Posted
    <3>2. refund' \in [RefundIds -> RefundRows]
      BY <2>6 DEF TypeOK, CompletePaymentRefund, SettleRefund, RefundRows, RefundStatuses
    <3> QED
      BY <2>1, <2>2, <2>3, <2>6, <3>1, <3>2
         DEF TypeOK, CompletePaymentRefund, SettleRefund, EventKinds, PaymentStatuses, JobStatuses
  <2>7. CASE CompletionRejected(w)
    BY <2>1, <2>3, <2>7 DEF TypeOK, CompletionRejected
  <2> QED
    BY <1>11, <2>4, <2>5, <2>6, <2>7 DEF Complete
<1>12. ASSUME NEW w \in Workers, FailOutboxEvent(w) PROVE TypeOK'
  <2>1. task[w] \in EventKinds
    BY <1>12 DEF TypeOK, FailOutboxEvent
  <2>2. event' \in [EventKinds -> OutboxRows]
    BY <1>12, <2>1, LeaseTypes DEF TypeOK, FailOutboxEvent
  <2>3. refund' \in [RefundIds -> RefundRows]
    BY <1>12, ZenonT(60) DEF TypeOK, FailOutboxEvent, RefundAfterFailure, RefundRows, RefundStatuses
  <2>4. payment' \in PaymentStatuses
    BY <1>12 DEF TypeOK, FailOutboxEvent, PaymentAfterFailure, PaymentStatuses
  <2>5. /\ pc' \in [Workers -> {"idle", "claimed", "confirmed", "failing"}]
        /\ task' \in [Workers -> EventKinds \cup {"NONE"}]
        /\ \A v \in Workers : pc'[v] = "idle" <=> task'[v] = "NONE"
    BY <1>12 DEF TypeOK, FailOutboxEvent
  <2> QED
    BY <1>12, <2>2, <2>3, <2>4, <2>5 DEF TypeOK, FailOutboxEvent
<1>13. ASSUME NEW w \in Workers, WorkerCrash(w) PROVE TypeOK'
    BY <1>13, ConstantsAssumption DEF ConstantsAssumption, TypeOK, WorkerCrash, EventKinds
<1>14. CASE UNCHANGED vars
    BY <1>14 DEF TypeOK, vars
<1> QED
    BY <1>1, <1>2, <1>3, <1>4, <1>5, <1>6, <1>7, <1>8, <1>9, <1>10, <1>11, <1>12, <1>13,
       <1>14 DEF Next, Owner, Others, Worker

\* Every state is well typed, however many workers, faults and webhooks.
THEOREM TypeCorrect == Spec => []TypeOK
<1>1. Init => TypeOK
    BY TypeInit
<1>2. TypeOK /\ [Next]_vars => TypeOK'
    BY TypeStep
<1> QED
    BY <1>1, <1>2, PTL DEF Spec
-----------------------------------------------------------------------------
(* The inductive invariant, one lemma per group of actions.                *)

\* The inductive invariant holds before anything has happened.
LEMMA InvInit == Init => IInv
<1> SUFFICES ASSUME Init PROVE IInv
    OBVIOUS
<1>1. TypeOK
    BY TypeInit
<1>2. LedgerMatchesPayment /\ JobMatchesPayment /\ RowsAgree
    BY DEF Init, LedgerMatchesPayment, JobMatchesPayment, RowsAgree, ReleaseStates, Unheld, Journals
<1>3. PendingPaymentHasLiveEvent /\ EventsAgree
    BY DEF Init, PendingPaymentHasLiveEvent, EventsAgree, ReleaseStates, Unheld, NoEvent, EventKinds
<1>4. BooksFollowProvider /\ ConfirmationsAreTrue
    BY DEF Init, BooksFollowProvider, ConfirmationsAreTrue, ReleaseStates
<1>5. OneRefundPaid
    BY DEF Init, OneRefundPaid, RefundsIn, NoRefund
<1> QED
    BY <1>1, <1>2, <1>3, <1>4, <1>5 DEF IInv

\* The routes that move the job alone.
LEMMA JobRoutes ==
    ASSUME IInv,
           \/ Publish \/ AssignProvider \/ StartCheck \/ StartCommit \/ Deliver
           \/ \E to \in ModeratedTo : ModerateJob(to)
    PROVE  /\ LedgerMatchesPayment' /\ JobMatchesPayment' /\ PendingPaymentHasLiveEvent'
           /\ BooksFollowProvider' /\ OneRefundPaid' /\ RowsAgree' /\ EventsAgree'
           /\ ConfirmationsAreTrue'
<1> USE DEF moneyVars, workerVars, Publish, AssignProvider, StartCheck, StartCommit, Deliver,
            ModerateJob
<1>1. UNCHANGED <<moneyVars, event, pc, task, psp>>
    OBVIOUS
<1>2. LedgerMatchesPayment' /\ PendingPaymentHasLiveEvent' /\ OneRefundPaid' /\ EventsAgree'
      /\ ConfirmationsAreTrue'
    BY <1>1 DEF IInv, LedgerMatchesPayment, PendingPaymentHasLiveEvent, Live, OneRefundPaid,
                RefundsIn, EventsAgree, ConfirmationsAreTrue
<1>3. JobMatchesPayment'
    BY DEF IInv, TypeOK, JobStatuses, PaymentStatuses, JobMatchesPayment, RowsAgree, Unheld, ReleaseStates,
           ModeratedTo, JobLocked
<1>4. BooksFollowProvider'
    BY DEF IInv, TypeOK, JobStatuses, PaymentStatuses, BooksFollowProvider, JobMatchesPayment, RowsAgree,
           Unheld, ReleaseStates, ModeratedTo, JobLocked
<1>5. RowsAgree'
    BY DEF IInv, RowsAgree, Unheld
<1> QED
    BY <1>2, <1>3, <1>4, <1>5

\* The owner's requests on the payment.
LEMMA OwnerRequests ==
    ASSUME IInv, Owner
    PROVE  /\ LedgerMatchesPayment' /\ JobMatchesPayment' /\ PendingPaymentHasLiveEvent'
           /\ BooksFollowProvider' /\ OneRefundPaid' /\ RowsAgree' /\ EventsAgree'
           /\ ConfirmationsAreTrue'
<1> USE DEF jobVars, workerVars
<1>1. ConfirmationsAreTrue'
    BY DEF IInv, ConfirmationsAreTrue, Owner, FundJob, RetryHold, AcceptDelivery, EnqueuePaymentRelease,
           CreateRefund
<1>2. LedgerMatchesPayment'
    BY DEF IInv, LedgerMatchesPayment, Owner, FundJob, Posted, Journals, RetryHold, AcceptDelivery,
           EnqueuePaymentRelease, CreateRefund, ReleaseStates, Acceptable, Refundable
<1>3. JobMatchesPayment'
    BY DEF IInv, TypeOK, PaymentStatuses, JobMatchesPayment, Owner, FundJob, RetryHold,
           AcceptDelivery, EnqueuePaymentRelease, CreateRefund, ReleaseStates, Acceptable, Refundable
<1>4. BooksFollowProvider'
    BY DEF IInv, TypeOK, PaymentStatuses, BooksFollowProvider, JobMatchesPayment, RowsAgree, Owner, FundJob,
           RetryHold, AcceptDelivery, EnqueuePaymentRelease, CreateRefund, ReleaseStates, Acceptable,
           Refundable
<1>5. RowsAgree'
    BY DEF IInv, TypeOK, PaymentStatuses, RowsAgree, Unheld, Owner, FundJob,
           RetryHold, AcceptDelivery, EnqueuePaymentRelease, CreateRefund, ReleaseStates, Acceptable,
           Refundable
<1>6. OneRefundPaid'
  <2>1. CASE FundJob \/ RetryHold \/ AcceptDelivery \/ EnqueuePaymentRelease
    BY <2>1 DEF IInv, OneRefundPaid, RefundsIn, FundJob, RetryHold, AcceptDelivery,
           EnqueuePaymentRelease, ReleaseStates, Acceptable
  <2>2. ASSUME NEW key \in RefundKeys \cup {NoKey}, NEW r \in RefundIds, CreateRefund(key, r)
        PROVE  OneRefundPaid'
    <3>1. refund[r].status # "REFUNDED"
      BY <2>2 DEF CreateRefund, RefundRow, NoRefund
    <3>2. RefundsIn("REFUNDED")' = RefundsIn("REFUNDED")
      BY <2>2, <3>1 DEF IInv, TypeOK, CreateRefund, RefundsIn
    <3> QED
      BY <2>2, <3>2 DEF IInv, OneRefundPaid, CreateRefund, Refundable
  <2> QED
    BY <2>1, <2>2 DEF Owner
<1>7. PendingPaymentHasLiveEvent' /\ EventsAgree'
  <2> USE DEF IInv, PendingPaymentHasLiveEvent, EventsAgree, Live, ReleaseStates, Unheld
  <2>1. CASE FundJob
    BY <2>1 DEF TypeOK, FundJob, Fresh, NoEvent, EventKinds, PaymentStatuses
  <2>2. CASE RetryHold
    BY <2>2 DEF TypeOK, RetryHold, Requeued, OutboxRows, EventKinds, PaymentStatuses
  <2>3. CASE AcceptDelivery
    BY <2>3 DEF TypeOK, AcceptDelivery, Acceptable, EventKinds, PaymentStatuses
  <2>4. CASE EnqueuePaymentRelease
    BY <2>4 DEF TypeOK, EnqueuePaymentRelease, Fresh, NoEvent, Requeued, OutboxRows, EventKinds, PaymentStatuses
  <2>5. ASSUME NEW key \in RefundKeys \cup {NoKey}, NEW r \in RefundIds, CreateRefund(key, r)
        PROVE  PendingPaymentHasLiveEvent' /\ EventsAgree'
    BY <2>5 DEF TypeOK, CreateRefund, Refundable, RefundEventAfter, Fresh, NoEvent, Requeued, OutboxRows,
                EventKinds, PaymentStatuses
  <2> QED
    BY <2>1, <2>2, <2>3, <2>4, <2>5 DEF Owner
<1> QED
    BY <1>1, <1>2, <1>3, <1>4, <1>5, <1>6, <1>7

\* Paying one pending refund leaves exactly one paid.
LEMMA OnePaid ==
    ASSUME IInv, payment = "REFUND_PENDING", NEW r \in RefundIds, refund[r].status = "PENDING",
           SettleRefund(r)
    PROVE  OneRefundPaid'
<1>1. RefundsIn("REFUNDED") = {}
    BY DEF IInv, OneRefundPaid
<1>2. RefundsIn("REFUNDED")' = {r}
    BY <1>1 DEF IInv, TypeOK, RefundRows, SettleRefund, RefundsIn
<1> QED
    BY <1>2 DEF OneRefundPaid, SettleRefund

\* The books follow a payout and a refund.
LEMMA Settled ==
    ASSUME IInv
    PROVE  /\ payment \in ReleaseStates /\ SettleRelease => LedgerMatchesPayment'
           /\ \A r : payment = "REFUND_PENDING" /\ SettleRefund(r) /\ UNCHANGED settlement
                     => LedgerMatchesPayment'
<1>1. ASSUME payment \in ReleaseStates, SettleRelease PROVE LedgerMatchesPayment'
  <2>1. ledger' = Posted({"RELEASE", "PAYOUT"}) /\ settlement' = TRUE /\ payment' = "RELEASED"
    BY <1>1 DEF SettleRelease
  <2>2. /\ ledger["FUND"] = 1 /\ ledger["RELEASE"] = 0 /\ ledger["PAYOUT"] = 0
        /\ ledger["REFUND"] = 0
    BY <1>1 DEF IInv, LedgerMatchesPayment, ReleaseStates
  <2>3. /\ ledger'["FUND"] = 1 /\ ledger'["RELEASE"] = 1 /\ ledger'["PAYOUT"] = 1
        /\ ledger'["REFUND"] = 0
    BY <2>1, <2>2 DEF Posted, Journals
  <2> QED
    BY <2>1, <2>3 DEF LedgerMatchesPayment
<1>2. ASSUME NEW r, payment = "REFUND_PENDING", SettleRefund(r), UNCHANGED settlement
      PROVE  LedgerMatchesPayment'
  <2>1. ledger' = Posted({"REFUND"}) /\ settlement' = FALSE /\ payment' = "REFUNDED"
    BY <1>2 DEF SettleRefund, IInv, LedgerMatchesPayment
  <2> QED
    BY <1>2, <2>1 DEF IInv, LedgerMatchesPayment, Posted, Journals
<1> QED
    BY <1>1, <1>2

\* The provider's webhooks.
LEMMA Webhooks ==
    ASSUME IInv, NEW id \in WebhookIds, Webhook(id)
    PROVE  /\ LedgerMatchesPayment' /\ JobMatchesPayment' /\ PendingPaymentHasLiveEvent'
           /\ BooksFollowProvider' /\ OneRefundPaid' /\ RowsAgree' /\ EventsAgree'
           /\ ConfirmationsAreTrue'
<1> USE DEF RecordWebhook, workerVars
<1>1. CASE HeldWebhook(id)
  <2>1. UNCHANGED <<job, assigned, starting, payment, providerRef, refund, ledger, settlement, event,
                    pc, task, psp>>
    BY <1>1 DEF HeldWebhook, ProviderRefMatches, IInv, RowsAgree
  <2> QED
    BY <2>1 DEF IInv, LedgerMatchesPayment, JobMatchesPayment, PendingPaymentHasLiveEvent, Live,
                BooksFollowProvider, OneRefundPaid, RefundsIn, RowsAgree, EventsAgree,
                ConfirmationsAreTrue
<1>2. CASE ReleasedWebhook(id)
  <2>1. LedgerMatchesPayment'
    BY <1>2, Settled DEF ReleasedWebhook, IInv, LedgerMatchesPayment
  <2>2. JobMatchesPayment' /\ BooksFollowProvider' /\ RowsAgree'
    BY <1>2 DEF ReleasedWebhook, SettleRelease, Reportable, IInv, JobMatchesPayment,
                BooksFollowProvider, RowsAgree, Unheld, ReleaseStates
  <2>3. PendingPaymentHasLiveEvent' /\ EventsAgree'
    BY <1>2 DEF ReleasedWebhook, SettleRelease, IInv, PendingPaymentHasLiveEvent, Live, EventsAgree,
                Unheld, ReleaseStates, PaymentStatuses
  <2>4. OneRefundPaid' /\ ConfirmationsAreTrue'
    BY <1>2 DEF ReleasedWebhook, SettleRelease, IInv, OneRefundPaid, RefundsIn, ConfirmationsAreTrue,
                ReleaseStates
  <2> QED
    BY <2>1, <2>2, <2>3, <2>4
<1>3. CASE RefundedWebhook(id)
  <2>1. LedgerMatchesPayment'
    BY <1>3, Settled DEF RefundedWebhook, IInv, LedgerMatchesPayment
  <2>2. JobMatchesPayment' /\ BooksFollowProvider' /\ RowsAgree'
    BY <1>3 DEF RefundedWebhook, SettleRefund, Reportable, IInv, JobMatchesPayment,
                BooksFollowProvider, RowsAgree, Unheld, ReleaseStates
  <2>3. PendingPaymentHasLiveEvent' /\ EventsAgree'
    BY <1>3 DEF RefundedWebhook, SettleRefund, IInv, PendingPaymentHasLiveEvent, Live, EventsAgree,
                Unheld, ReleaseStates, PaymentStatuses
  <2>4. OneRefundPaid'
    <3>1. CASE payment # "REFUND_PENDING"
      BY <1>3, <3>1 DEF RefundedWebhook, IInv, OneRefundPaid, RefundsIn
    <3>2. CASE payment = "REFUND_PENDING"
      <4>1. PICK r \in RefundIds : LatestPending(r) /\ SettleRefund(r)
        BY <1>3, <3>2 DEF RefundedWebhook
      <4> QED
        BY <3>2, <4>1, OnePaid DEF LatestPending, RefundsIn
    <3> QED
      BY <3>1, <3>2
  <2>5. ConfirmationsAreTrue'
    BY <1>3 DEF RefundedWebhook, IInv, ConfirmationsAreTrue
  <2> QED
    BY <2>1, <2>2, <2>3, <2>4, <2>5
<1> QED
    BY <1>1, <1>2, <1>3 DEF Webhook

\* Claims, calls to the provider and lost work.
LEMMA WorkerSteps ==
    ASSUME IInv, NEW w \in Workers,
           \/ \E k \in EventKinds : ClaimOutboxEvent(w, k)
           \/ CallProvider(w) \/ CompletionRejected(w) \/ WorkerCrash(w)
    PROVE  /\ LedgerMatchesPayment' /\ JobMatchesPayment' /\ PendingPaymentHasLiveEvent'
           /\ BooksFollowProvider' /\ OneRefundPaid' /\ RowsAgree' /\ EventsAgree'
           /\ ConfirmationsAreTrue'
<1> USE DEF jobVars, moneyVars
<1>1. UNCHANGED <<jobVars, moneyVars>>
    BY DEF ClaimOutboxEvent, CallProvider, CompletionRejected, WorkerCrash
<1>2. LedgerMatchesPayment' /\ JobMatchesPayment' /\ OneRefundPaid' /\ RowsAgree'
    BY <1>1 DEF IInv, LedgerMatchesPayment, JobMatchesPayment, OneRefundPaid, RefundsIn, RowsAgree
<1>3. PendingPaymentHasLiveEvent' /\ EventsAgree'
  <2>1. CASE UNCHANGED event
    BY <1>1, <2>1 DEF IInv, PendingPaymentHasLiveEvent, EventsAgree, Live
  <2>2. ASSUME NEW k \in EventKinds, ClaimOutboxEvent(w, k)
        PROVE  PendingPaymentHasLiveEvent' /\ EventsAgree'
    <3>1. event[k].status \in {"PENDING", "PROCESSING"}
      BY <2>2 DEF ClaimOutboxEvent, ClaimableFree, Overtakable
    <3>2. /\ event'[k].status = "PROCESSING"
          /\ \A j \in EventKinds : j # k => event'[j] = event[j]
          /\ event'[k].refundId = event[k].refundId
      <4>1. event[k] \in OutboxRows /\ event \in [EventKinds -> OutboxRows]
        BY DEF IInv, TypeOK
      <4>2. event'[k] = [event[k] EXCEPT !.status = "PROCESSING",
                           !.attempts = IF @ < MaxAttempts THEN @ + 1 ELSE @, !.lease = w]
        BY <2>2, <4>1 DEF ClaimOutboxEvent
      <4>3. \A j \in EventKinds : j # k => event'[j] = event[j]
        BY <2>2, <4>1 DEF ClaimOutboxEvent
      <4> QED
        BY <4>1, <4>2, <4>3 DEF OutboxRows
    <3>3. PendingPaymentHasLiveEvent'
      BY <1>1, <3>1, <3>2 DEF IInv, PendingPaymentHasLiveEvent, Live, EventKinds
    <3>4. EventsAgree'
      BY <1>1, <3>1, <3>2 DEF IInv, EventsAgree, EventKinds
    <3> QED
      BY <3>3, <3>4
  <2> QED
    BY <2>1, <2>2 DEF CallProvider, CompletionRejected, WorkerCrash
<1>4. BooksFollowProvider' /\ ConfirmationsAreTrue'
  <2>1. CASE CallProvider(w)
    BY <1>1, <2>1 DEF CallProvider, PspAccepts, PspAfter, EventKinds, IInv, TypeOK, PspStatuses,
                BooksFollowProvider, ConfirmationsAreTrue
  <2>2. CASE ~ CallProvider(w)
    BY <1>1, <2>2, ZenonT(60) DEF ClaimOutboxEvent, CompletionRejected, WorkerCrash, IInv, TypeOK,
                BooksFollowProvider, ConfirmationsAreTrue
  <2> QED
    BY <2>1, <2>2
<1> QED
    BY <1>2, <1>3, <1>4

\* Completing an event marks it DONE and leaves the others alone.
LEMMA DoneEvent ==
    ASSUME TypeOK, NEW k \in EventKinds, event' = Done(k)
    PROVE  /\ event'[k].status = "DONE" /\ event'[k].refundId = event[k].refundId
           /\ \A j \in EventKinds : j # k => event'[j] = event[j]
<1>1. event[k] \in OutboxRows /\ event \in [EventKinds -> OutboxRows]
    BY DEF TypeOK
<1>2. event'[k] = [event[k] EXCEPT !.status = "DONE"] /\ \A j \in EventKinds : j # k => event'[j] = event[j]
    BY <1>1 DEF Done
<1> QED
    BY <1>1, <1>2 DEF OutboxRows

\* A worker that holds its event's lease works on an event that is alive or DONE.
LEMMA LeasedEvent ==
    ASSUME IInv, NEW w \in Workers, pc[w] # "idle", HoldsLease(w)
    PROVE  task[w] \in EventKinds /\ event[task[w]].status \notin {"NONE", "FAILED"}
BY ConstantsAssumption DEF ConstantsAssumption, IInv, TypeOK, EventsAgree, HoldsLease

\* The three completing transactions.
LEMMA Completions ==
    ASSUME IInv, NEW w \in Workers,
           CompleteCreateHold(w) \/ CompletePaymentRelease(w) \/ CompletePaymentRefund(w)
    PROVE  /\ LedgerMatchesPayment' /\ JobMatchesPayment' /\ PendingPaymentHasLiveEvent'
           /\ BooksFollowProvider' /\ OneRefundPaid' /\ RowsAgree' /\ EventsAgree'
           /\ ConfirmationsAreTrue'
<1> USE DEF jobVars
<1>1. /\ pc[w] = "confirmed" /\ HoldsLease(w) /\ task[w] \in EventKinds
      /\ event[task[w]].status \notin {"NONE", "FAILED"} /\ UNCHANGED psp
    BY LeasedEvent DEF CompleteCreateHold, CompletePaymentRelease, CompletePaymentRefund
<1>2. ConfirmationsAreTrue'
    BY DEF IInv, ConfirmationsAreTrue, CompleteCreateHold, CompletePaymentRelease, CompletePaymentRefund,
           Acknowledged, TypeOK
<1>3. CASE CompleteCreateHold(w)
  <2>1. LedgerMatchesPayment' /\ JobMatchesPayment' /\ RowsAgree' /\ BooksFollowProvider' /\ OneRefundPaid'
    BY <1>1, <1>3 DEF CompleteCreateHold, IInv, LedgerMatchesPayment, JobMatchesPayment, RowsAgree, Unheld,
                BooksFollowProvider, ConfirmationsAreTrue, ReleaseStates, OneRefundPaid, RefundsIn
  <2>2. /\ event'["CREATE_HOLD"].status = "DONE"
        /\ event'["REFUND"] = event["REFUND"] /\ event'["RELEASE"] = event["RELEASE"]
    BY <1>3, DoneEvent DEF CompleteCreateHold, IInv, EventKinds
  <2>3. PendingPaymentHasLiveEvent' /\ EventsAgree'
    BY <1>3, <2>2 DEF CompleteCreateHold, IInv, PendingPaymentHasLiveEvent, EventsAgree, Live,
                Unheld, ReleaseStates, EventKinds, PaymentStatuses
  <2> QED
    BY <1>2, <2>1, <2>3
<1>4. CASE CompletePaymentRelease(w)
  <2>1. LedgerMatchesPayment'
    BY <1>4, Settled DEF CompletePaymentRelease, IInv, LedgerMatchesPayment, ReleaseStates
  <2>2. JobMatchesPayment' /\ RowsAgree' /\ BooksFollowProvider' /\ OneRefundPaid'
    BY <1>1, <1>4 DEF CompletePaymentRelease, SettleRelease, IInv, JobMatchesPayment, RowsAgree, Unheld,
                BooksFollowProvider, ConfirmationsAreTrue, ReleaseStates, OneRefundPaid, RefundsIn
  <2>3. /\ event'["RELEASE"].status = "DONE"
        /\ event'["REFUND"] = event["REFUND"] /\ event'["CREATE_HOLD"] = event["CREATE_HOLD"]
    BY <1>4, DoneEvent DEF CompletePaymentRelease, IInv, EventKinds
  <2>4. PendingPaymentHasLiveEvent' /\ EventsAgree'
    BY <1>4, <2>3 DEF CompletePaymentRelease, SettleRelease, IInv, PendingPaymentHasLiveEvent, EventsAgree,
                Live, Unheld, ReleaseStates, EventKinds, PaymentStatuses
  <2> QED
    BY <1>2, <2>1, <2>2, <2>4
<1>5. CASE CompletePaymentRefund(w)
  <2> DEFINE r == event["REFUND"].refundId
  <2>1. /\ r \in RefundIds
        /\ \/ payment = "REFUNDED" /\ UNCHANGED <<payment, refund, job, ledger>>
           \/ payment = "REFUND_PENDING" /\ refund[r].status = "PENDING" /\ SettleRefund(r)
        /\ UNCHANGED <<assigned, starting, providerRef, settlement>>
    BY <1>1, <1>5 DEF CompletePaymentRefund, IInv, EventsAgree
  <2> HIDE DEF r
  <2>2. LedgerMatchesPayment'
    BY <2>1, Settled DEF IInv, LedgerMatchesPayment
  <2>3. psp = "REFUNDED"
    BY <1>1, <1>5 DEF CompletePaymentRefund, IInv, ConfirmationsAreTrue
  <2>4. JobMatchesPayment' /\ RowsAgree' /\ BooksFollowProvider'
    BY <1>1, <2>1, <2>3 DEF SettleRefund, IInv, JobMatchesPayment, RowsAgree, Unheld, BooksFollowProvider,
                ReleaseStates
  <2>5. OneRefundPaid'
    BY <2>1, OnePaid DEF IInv, OneRefundPaid, RefundsIn
  <2>6. /\ event'["REFUND"].status = "DONE" /\ event'["REFUND"].refundId = event["REFUND"].refundId
        /\ event'["RELEASE"] = event["RELEASE"] /\ event'["CREATE_HOLD"] = event["CREATE_HOLD"]
    BY <1>5, DoneEvent DEF CompletePaymentRefund, IInv, EventKinds
  <2>7. PendingPaymentHasLiveEvent' /\ EventsAgree'
    BY <1>1, <1>5, <2>1, <2>6 DEF r, SettleRefund, IInv, PendingPaymentHasLiveEvent, EventsAgree,
                Live, Unheld, ReleaseStates, EventKinds, PaymentStatuses
  <2> QED
    BY <1>2, <2>2, <2>4, <2>5, <2>7
<1> QED
    BY <1>3, <1>4, <1>5

\* A failed attempt, the last one included.
LEMMA Failure ==
    ASSUME IInv, NEW w \in Workers, FailOutboxEvent(w)
    PROVE  /\ LedgerMatchesPayment' /\ JobMatchesPayment' /\ PendingPaymentHasLiveEvent'
           /\ BooksFollowProvider' /\ OneRefundPaid' /\ RowsAgree' /\ EventsAgree'
           /\ ConfirmationsAreTrue'
<1> DEFINE k == task[w]
           gaveUp == MayFail(w) /\ Exhausted(k)
<1>1. k \in EventKinds /\ pc[w] = "failing"
    BY DEF IInv, TypeOK, FailOutboxEvent
<1>2. MayFail(w) => event[k].status \notin {"NONE", "FAILED"}
    BY <1>1, LeasedEvent DEF MayFail
<1>3. ConfirmationsAreTrue'
    BY DEF FailOutboxEvent, IInv, ConfirmationsAreTrue, TypeOK
<1>4. /\ UNCHANGED <<job, assigned, starting, providerRef, ledger, settlement, psp>>
      /\ payment' = IF gaveUp THEN PaymentAfterFailure(k) ELSE payment
      /\ refund' = IF gaveUp THEN RefundAfterFailure(k) ELSE refund
    BY DEF FailOutboxEvent, jobVars
<1>5. /\ MayFail(w) => /\ event'[k].status = IF gaveUp THEN "FAILED" ELSE "PENDING"
                       /\ event'[k].lease = Nobody
                       /\ event'[k].refundId = event[k].refundId
      /\ ~ MayFail(w) => event' = event
      /\ \A j \in EventKinds : j # k => event'[j] = event[j]
  <2>1. event[k] \in OutboxRows /\ event \in [EventKinds -> OutboxRows]
    BY <1>1 DEF IInv, TypeOK
  <2>2. event' = IF MayFail(w)
                 THEN [event EXCEPT ![k] = [event[k] EXCEPT !.status = IF gaveUp THEN "FAILED" ELSE "PENDING",
                                                            !.lease = Nobody]]
                 ELSE event
    BY <2>1, <1>1 DEF FailOutboxEvent
  <2> HIDE DEF k, gaveUp
  <2> QED
    BY <1>1, <2>1, <2>2 DEF OutboxRows
<1>6. LedgerMatchesPayment' /\ JobMatchesPayment' /\ RowsAgree' /\ BooksFollowProvider'
    BY <1>4 DEF PaymentAfterFailure, IInv, LedgerMatchesPayment, JobMatchesPayment, RowsAgree, Unheld,
                BooksFollowProvider, ReleaseStates
<1>7. OneRefundPaid'
  <2>1. RefundsIn("REFUNDED")' = RefundsIn("REFUNDED")
    BY <1>4 DEF RefundAfterFailure, RefundsIn, IInv, TypeOK, RefundRows
  <2>2. payment' = "REFUNDED" <=> payment = "REFUNDED"
    BY <1>4 DEF PaymentAfterFailure
  <2> QED
    BY <2>1, <2>2 DEF IInv, OneRefundPaid
<1>8. PendingPaymentHasLiveEvent'
    BY <1>1, <1>2, <1>4, <1>5 DEF PaymentAfterFailure, IInv, TypeOK, PendingPaymentHasLiveEvent, EventsAgree, Live, Unheld,
                ReleaseStates, EventKinds, PaymentStatuses
<1>9. EventsAgree'
    BY <1>1, <1>2, <1>4, <1>5 DEF PaymentAfterFailure, IInv, TypeOK, EventsAgree, Unheld,
                ReleaseStates, EventKinds, PaymentStatuses
<1> QED
    BY <1>3, <1>6, <1>7, <1>8, <1>9

\* Every step of owner, worker, webhook or fault keeps the inductive invariant.
LEMMA InvStep == IInv /\ [Next]_vars => IInv'
<1> SUFFICES ASSUME IInv, [Next]_vars PROVE IInv'
    OBVIOUS
<1>1. TypeOK'
    BY TypeStep DEF IInv
<1> USE <1>1 DEF IInv
<1>2. CASE UNCHANGED vars
    BY <1>2 DEF vars, LedgerMatchesPayment, JobMatchesPayment, PendingPaymentHasLiveEvent, Live,
                BooksFollowProvider, OneRefundPaid, RefundsIn, RowsAgree, EventsAgree, ConfirmationsAreTrue
<1>3. CASE Owner
    BY <1>3, OwnerRequests
<1>4. CASE Others
    BY <1>4, JobRoutes, Webhooks DEF Others
<1>5. ASSUME NEW w \in Workers, Worker(w) \/ WorkerCrash(w) PROVE IInv'
    BY <1>5, WorkerSteps, Completions, Failure DEF Worker, Complete
<1> QED
    BY <1>2, <1>3, <1>4, <1>5 DEF Next

\* The inductive invariant holds in every reachable state.
THEOREM Invariant == Spec => []IInv
BY InvInit, InvStep, PTL DEF Spec
-----------------------------------------------------------------------------
(* The properties the runs check, for every instance.                      *)

\* The books show the payment, whoever got to post first.
THEOREM LedgerCorrect == Spec => []LedgerMatchesPayment
BY Invariant, PTL DEF IInv

\* Job and payment never contradict each other.
THEOREM JobCorrect == Spec => []JobMatchesPayment
BY Invariant, PTL DEF IInv

\* No payment is stranded without an event that can still be worked on.
THEOREM NoPaymentStranded == Spec => []PendingPaymentHasLiveEvent
BY Invariant, PTL DEF IInv

\* The database never claims more than the provider did.
THEOREM BooksCorrect == Spec => []BooksFollowProvider
BY Invariant, PTL DEF IInv

\* At most one refund request is ever paid.
THEOREM RefundPaidOnce == Spec => []OneRefundPaid
BY Invariant, PTL DEF IInv

\* A payment is given up on only by a failing worker that holds the lease.
LEMMA GivingUp ==
    ASSUME IInv, Next, NEW k \in EventKinds,
           \/ k = "CREATE_HOLD" /\ payment = "HOLD_PENDING" /\ payment' = "HOLD_FAILED"
           \/ k = "RELEASE" /\ payment = "RELEASE_PENDING" /\ payment' = "RELEASE_FAILED"
           \/ k = "REFUND" /\ payment = "REFUND_PENDING" /\ payment' = "HELD"
    PROVE  \E w \in Workers : pc[w] = "failing" /\ task[w] = k /\ HoldsLease(w)
<1> USE DEF jobVars, moneyVars
<1>1. CASE Owner
    BY <1>1 DEF Owner, FundJob, RetryHold, AcceptDelivery, EnqueuePaymentRelease, CreateRefund
<1>2. CASE Others
    BY <1>2 DEF Others, Publish, AssignProvider, StartCheck, StartCommit, Deliver, ModerateJob, Webhook,
                HeldWebhook, ReleasedWebhook, RefundedWebhook, SettleRelease, SettleRefund
<1>3. ASSUME NEW w \in Workers, Worker(w) \/ WorkerCrash(w)
      PROVE  pc[w] = "failing" /\ task[w] = k /\ HoldsLease(w)
  <2>1. FailOutboxEvent(w)
    BY <1>3 DEF Worker, WorkerCrash, ClaimOutboxEvent, CallProvider, Complete, CompleteCreateHold,
                CompletePaymentRelease, CompletePaymentRefund, CompletionRejected, SettleRelease, SettleRefund
  <2>2. MayFail(w) /\ payment' = PaymentAfterFailure(task[w])
    BY <2>1 DEF FailOutboxEvent
  <2> QED
    BY <2>1, <2>2 DEF FailOutboxEvent, MayFail, PaymentAfterFailure
<1> QED
    BY <1>1, <1>2, <1>3 DEF Next

\* No terminal failure overrules a worker that has the provider's yes under
\* the lease: the two would have to be the same worker.
THEOREM ConfirmationsSurvive == Spec => NoConfirmationLost
<1> DEFINE Lost == \/ GivesUp("CREATE_HOLD", "HOLD_PENDING", "HOLD_FAILED")
                  \/ GivesUp("RELEASE", "RELEASE_PENDING", "RELEASE_FAILED")
                  \/ GivesUp("REFUND", "REFUND_PENDING", "HELD")
<1>1. IInv /\ [Next]_vars => [~ Lost]_payment
  <2> SUFFICES ASSUME IInv, [Next]_vars, payment' # payment, Lost PROVE FALSE
    OBVIOUS
  <2>0. Next
    BY DEF vars
  <2>1. PICK k \in EventKinds :
          /\ \/ k = "CREATE_HOLD" /\ payment = "HOLD_PENDING" /\ payment' = "HOLD_FAILED"
             \/ k = "RELEASE" /\ payment = "RELEASE_PENDING" /\ payment' = "RELEASE_FAILED"
             \/ k = "REFUND" /\ payment = "REFUND_PENDING" /\ payment' = "HELD"
          /\ ConfirmedUnderLease(k)
    BY DEF GivesUp, EventKinds
  <2>2. PICK w \in Workers : pc[w] = "failing" /\ task[w] = k /\ HoldsLease(w)
    BY <2>0, <2>1, GivingUp
  <2>3. PICK v \in Workers : pc[v] = "confirmed" /\ task[v] = k /\ HoldsLease(v)
    BY <2>1 DEF ConfirmedUnderLease
  <2> QED
    BY <2>2, <2>3 DEF HoldsLease
<1> QED
    BY <1>1, Invariant, PTL DEF Spec, NoConfirmationLost

\* Workers, leases, webhooks, retries and faults together implement an escrow
\* that pays or returns the money once and posts each movement once.
THEOREM LifecycleIsEscrow == Spec => ImplementsEscrow
<1>1. Init => E!Init
    BY DEF Init, E!Init, EscrowStage, Journals, E!Postings
<1>2. IInv /\ [Next]_vars => [E!Next]_<<EscrowStage, ledger>>
  <2> SUFFICES ASSUME IInv, [Next]_vars PROVE [E!Next]_<<EscrowStage, ledger>>
    OBVIOUS
  <2> USE DEF jobVars, moneyVars, workerVars
  <2>1. CASE UNCHANGED <<payment, ledger>>
    BY <2>1 DEF EscrowStage
  <2>2. ASSUME payment \in ReleaseStates, SettleRelease PROVE E!PayOut
    BY <2>2 DEF SettleRelease, ReleaseStates, EscrowStage, E!PayOut, E!Step, E!Post, Posted, Journals, E!Postings
  <2>3. ASSUME NEW r, payment = "REFUND_PENDING", SettleRefund(r) PROVE E!ReturnToOwner
    BY <2>3 DEF SettleRefund, EscrowStage, E!ReturnToOwner, E!Step, E!Post, Posted, Journals, E!Postings
  <2>4. CASE FundJob
    <3>1. E!Deposit
      BY <2>4 DEF FundJob, EscrowStage, E!Deposit, E!Step, E!Post, Posted, Journals, E!Postings
    <3> QED
      BY <3>1 DEF E!Next
  <2>5. CASE RetryHold \/ EnqueuePaymentRelease
    BY <2>5 DEF RetryHold, EnqueuePaymentRelease, ReleaseStates, EscrowStage
  <2>6. CASE AcceptDelivery
    <3>1. E!AcceptWork
      BY <2>6 DEF AcceptDelivery, Acceptable, EscrowStage, E!AcceptWork, E!Step
    <3> QED
      BY <3>1 DEF E!Next
  <2>7. CASE \E key \in RefundKeys \cup {NoKey}, r \in RefundIds : CreateRefund(key, r)
    <3>1. E!AskBack
      BY <2>7 DEF CreateRefund, Refundable, EscrowStage, E!AskBack, E!Step
    <3> QED
      BY <3>1 DEF E!Next
  <2>8. CASE Others
    <3>1. \/ UNCHANGED <<payment, ledger>>
          \/ payment \in ReleaseStates /\ SettleRelease
          \/ \E r \in RefundIds : payment = "REFUND_PENDING" /\ SettleRefund(r)
      BY <2>8 DEF Others, Publish, AssignProvider, StartCheck, StartCommit, Deliver, ModerateJob, Webhook,
                  HeldWebhook, ReleasedWebhook, RefundedWebhook, RecordWebhook, ProviderRefMatches,
                  IInv, RowsAgree
    <3> QED
      BY <3>1, <2>1, <2>2, <2>3 DEF E!Next
  <2>9. ASSUME NEW w \in Workers, Worker(w) \/ WorkerCrash(w)
        PROVE  [E!Next]_<<EscrowStage, ledger>>
    <3>1. CASE FailOutboxEvent(w)
      <4>1. UNCHANGED ledger /\ (payment' = payment \/ payment' = PaymentAfterFailure(task[w]))
        BY <3>1 DEF FailOutboxEvent
      <4>2. UNCHANGED <<EscrowStage, ledger>> \/ E!ReturnFailed
        BY <4>1 DEF PaymentAfterFailure, EscrowStage, E!ReturnFailed, E!Step
      <4> QED
        BY <4>2 DEF E!Next
    <3>2. CASE CompleteCreateHold(w)
      BY <3>2 DEF CompleteCreateHold, EscrowStage
    <3>3. CASE CompletePaymentRelease(w)
      <4>1. UNCHANGED <<payment, ledger>> \/ (payment \in ReleaseStates /\ SettleRelease)
        BY <3>3 DEF CompletePaymentRelease, ReleaseStates
      <4> QED
        BY <4>1, <2>1, <2>2 DEF E!Next
    <3>4. CASE CompletePaymentRefund(w)
      <4>1. \/ UNCHANGED <<payment, ledger>>
            \/ payment = "REFUND_PENDING" /\ SettleRefund(event["REFUND"].refundId)
        BY <3>4 DEF CompletePaymentRefund
      <4> QED
        BY <4>1, <2>1, <2>3 DEF E!Next
    <3> QED
      BY <2>9, <3>1, <3>2, <3>3, <3>4, <2>1
         DEF Worker, Complete, WorkerCrash, ClaimOutboxEvent, CallProvider, CompletionRejected
  <2> QED
    BY <2>1, <2>4, <2>5, <2>6, <2>7, <2>8, <2>9 DEF vars, Next, Owner
<1> QED
    BY <1>1, <1>2, Invariant, PTL DEF Spec, ImplementsEscrow, E!Spec
=============================================================================
