-------------------------- MODULE PaymentLifecycle --------------------------
(***************************************************************************)
(* The life of one job and of the payment that funds it, as the PostgreSQL *)
(* adapters of backend/src run it: the rows of jobs, payments, refunds,    *)
(* ledger_entries, settlements, outbox_events and payment_webhook_events   *)
(* of one aggregate, the outbox workers that carry the payment to the      *)
(* provider (PSP) and back, and the provider's own webhooks.               *)
(*                                                                         *)
(* Every action is one committed transaction (withSqlTransaction locks the *)
(* rows it decides on before it reads them) or one step outside of any     *)
(* transaction: a route's unlocked read, a call to the provider, a crash.  *)
(* Rows of other jobs are independent of these, except that workers serve  *)
(* all of them; which provider or offer is chosen belongs to the           *)
(* marketplace and is left out here.                                       *)
(***************************************************************************)
EXTENDS Integers, FiniteSets

CONSTANTS
    Workers,      \* executors of processOne: loop workers and request handlers
    MaxAttempts,  \* config.outboxMaxAttempts
    RefundKeys,   \* idempotency keys the owner sends with refund requests
    NoKey,        \* a refund request without an idempotency key
    MaxRefunds,   \* bound: rows of refunds for this payment
    WebhookIds,   \* event ids the provider signs its webhooks with
    MaxFaults,    \* bound: crashes, overtaken leases and failed commits
    Nobody        \* lease_token IS NULL

ASSUME ConstantsAssumption ==
    /\ MaxAttempts \in Nat \ {0}
    /\ MaxRefunds \in Nat
    /\ MaxFaults \in Nat
    /\ Nobody \notin Workers
    /\ NoKey \notin RefundKeys

VARIABLES
    job,          \* jobs.status
    assigned,     \* jobs.provider_id IS NOT NULL
    starting,     \* a start request has read payment HELD and not yet committed
    payment,      \* payments.status, "NONE" before the row exists
    providerRef,  \* payments.provider_ref: the placeholder or the provider's
    refund,       \* refunds rows of the payment, in order of created_at
    ledger,       \* how many times each journal was posted to ledger_entries
    settlement,   \* settlements has the payment's row
    event,        \* outbox_events rows of the payment, one per dedupe_key
    webhookLog,   \* payment_webhook_events: the type recorded under each id
    pc,           \* where each worker is in processOutboxEvent
    task,         \* the event kind each worker has claimed
    psp,          \* external: what the provider did with the money
    faults        \* faults that have happened so far

jobVars     == <<job, assigned, starting>>
moneyVars   == <<payment, providerRef, refund, ledger, settlement>>
workerVars  == <<pc, task>>
vars == <<job, assigned, starting, payment, providerRef, refund, ledger,
          settlement, event, webhookLog, pc, task, psp, faults>>

-----------------------------------------------------------------------------
JobStatuses == {"DRAFT", "PUBLISHED", "ASSIGNED", "FUNDED", "IN_PROGRESS",
                "DELIVERED", "COMPLETED", "SETTLED", "CANCELLED"}
PaymentStatuses == {"NONE", "HOLD_PENDING", "HOLD_FAILED", "HELD",
                    "RELEASE_PENDING", "RELEASE_FAILED", "RELEASED",
                    "REFUND_PENDING", "REFUNDED"}
EventKinds    == {"CREATE_HOLD", "REFUND", "RELEASE"}
EventStatuses == {"NONE", "PENDING", "PROCESSING", "DONE", "FAILED"}
RefundStatuses == {"NONE", "PENDING", "REFUNDED", "FAILED"}
Journals      == {"FUND", "RELEASE", "PAYOUT", "REFUND"}
WebhookTypes  == {"PAYMENT_HELD", "PAYMENT_RELEASED", "PAYMENT_REFUNDED"}
PspStatuses   == {"NONE", "HELD", "RELEASED", "REFUNDED"}
RefundIds     == 1..MaxRefunds

Settleable == {"RELEASE_PENDING", "RELEASE_FAILED", "RELEASED"} \* a slip: settles again
ReleaseStates == {"RELEASE_PENDING", "RELEASE_FAILED"}

OutboxRows == [status : EventStatuses, attempts : 0..MaxAttempts,
               lease : Workers \cup {Nobody}, refundId : 0..MaxRefunds]
RefundRows == [status : RefundStatuses, key : RefundKeys \cup {NoKey}]

NoEvent  == [status |-> "NONE", attempts |-> 0, lease |-> Nobody, refundId |-> 0]
NoRefund == [status |-> "NONE", key |-> NoKey]

\* An event that some worker can still claim or is working on.
Live(k) == event[k].status \in {"PENDING", "PROCESSING"}

\* The refunds rows in a given status.
RefundsIn(status) == {r \in RefundIds : refund[r].status = status}

Init ==
    /\ job = "DRAFT"
    /\ assigned = FALSE
    /\ starting = FALSE
    /\ payment = "NONE"
    /\ providerRef = "NONE"
    /\ refund = [r \in RefundIds |-> NoRefund]
    /\ ledger = [j \in Journals |-> 0]
    /\ settlement = FALSE
    /\ event = [k \in EventKinds |-> NoEvent]
    /\ webhookLog = [i \in WebhookIds |-> "NONE"]
    /\ pc = [w \in Workers |-> "idle"]
    /\ task = [w \in Workers |-> "NONE"]
    /\ psp = "NONE"
    /\ faults = 0

-----------------------------------------------------------------------------
(* Job routes.                                                             *)

Publish ==
    /\ job = "DRAFT"
    /\ job' = "PUBLISHED"
    /\ UNCHANGED <<assigned, starting, moneyVars, event, webhookLog, workerVars,
                   psp, faults>>

\* acceptOffer or an accepted application: either one assigns a provider.
AssignProvider ==
    /\ job \in {"PUBLISHED", "ASSIGNED"}
    /\ job' = "ASSIGNED"
    /\ assigned' = TRUE
    /\ UNCHANGED <<starting, moneyVars, event, webhookLog, workerVars, psp, faults>>

\* The start route reads the payment outside of the transaction that moves the job.
StartCheck ==
    /\ job = "FUNDED"
    /\ payment = "HELD"
    /\ starting' = TRUE
    /\ UNCHANGED <<job, assigned, moneyVars, event, webhookLog, workerVars, psp,
                   faults>>

StartCommit ==
    /\ starting
    /\ starting' = FALSE
    /\ job' = IF job = "FUNDED" THEN "IN_PROGRESS" ELSE job
    /\ UNCHANGED <<assigned, moneyVars, event, webhookLog, workerVars, psp, faults>>

Deliver ==
    /\ job = "IN_PROGRESS"
    /\ job' = "DELIVERED"
    /\ UNCHANGED <<assigned, starting, moneyVars, event, webhookLog, workerVars,
                   psp, faults>>

\* The payment states in which the owner may accept the delivered work.
AcceptableLate == {"HELD", "REFUND_PENDING"} \* a slip: HELD was read before a refund began
Acceptable == {"HELD"}

\* transitionJobWithPayment: job and payment move under both row locks.
AcceptDelivery ==
    /\ job = "DELIVERED"
    /\ payment \in Acceptable
    /\ job' = "COMPLETED"
    /\ payment' = "RELEASE_PENDING"
    /\ UNCHANGED <<assigned, starting, providerRef, refund, ledger, settlement,
                   event, webhookLog, workerVars, psp, faults>>

ModeratedTo == {"DRAFT", "PUBLISHED", "CANCELLED"}
JobLockedLate == {"COMPLETED", "IN_PROGRESS", "DELIVERED"} \* a slip: FUNDED left out
JobLocked == {"COMPLETED", "ASSIGNED", "FUNDED", "IN_PROGRESS", "DELIVERED"}

ModerateJob(to) ==
    /\ job \notin JobLocked
    /\ job' = to
    /\ UNCHANGED <<assigned, starting, moneyVars, event, webhookLog, workerVars,
                   psp, faults>>

-----------------------------------------------------------------------------
(* Payment routes: the owner funds, refunds and releases.                  *)

\* The outbox row an upsert on dedupe_key leaves: a fresh row, or the old one
\* queued again. What else the upsert resets differs per operation.
Fresh(refundId) == [NoEvent EXCEPT !.status = "PENDING", !.refundId = refundId]
LeftAlone(e) == e \* a slip: ON CONFLICT DO NOTHING
Requeued(e) == [e EXCEPT !.status = "PENDING"]

Posted(journals) == [j \in Journals |-> ledger[j] + (IF j \in journals THEN 1 ELSE 0)]

\* fundJobAtomic without a payments row: everything is created at once.
FundJob ==
    /\ job \in {"PUBLISHED", "ASSIGNED", "FUNDED"}
    /\ payment = "NONE"
    /\ payment' = "HOLD_PENDING"
    /\ providerRef' = "PLACEHOLDER"
    /\ job' = "FUNDED"
    /\ assigned' = TRUE
    /\ ledger' = Posted({"FUND"})
    /\ event' = [event EXCEPT !["CREATE_HOLD"] = Fresh(0)]
    /\ UNCHANGED <<starting, refund, settlement, webhookLog, workerVars, psp, faults>>

\* fundJobAtomic on a failed hold: same row, same event, attempts kept.
RetryHold ==
    /\ job \in {"PUBLISHED", "ASSIGNED", "FUNDED"}
    /\ payment = "HOLD_FAILED"
    /\ payment' = "HOLD_PENDING"
    /\ event' = [event EXCEPT !["CREATE_HOLD"] = Requeued(@)]
    /\ UNCHANGED <<jobVars, providerRef, refund, ledger, settlement, webhookLog,
                   workerVars, psp, faults>>

\* The refunds row a request with this key works on: the row the key already
\* names, or the next new one. A row that is not FAILED is answered as it is.
RefundRow(key, r) ==
    IF key # NoKey /\ \E q \in RefundIds : refund[q].status # "NONE" /\ refund[q].key = key
    THEN refund[r].key = key /\ refund[r].status = "FAILED"
    ELSE /\ refund[r] = NoRefund
         /\ \A q \in RefundIds : q < r => refund[q] # NoRefund

\* A DONE refund event stays DONE; any other is queued again, payload and
\* attempts as they were.
RefundEventAfter(r) ==
    LET e == event["REFUND"]
    IN  CASE e.status = "NONE" -> Fresh(r)
          [] e.status = "DONE" -> e
          [] OTHER -> Requeued(e)

RefundableAgain == {"HELD", "REFUNDED"} \* a slip: a second request refunds again
Refundable == {"HELD"}

\* createRefundAtomic: the job's own status is not looked at.
CreateRefund(key, r) ==
    /\ payment \in Refundable
    /\ RefundRow(key, r)
    /\ refund' = [refund EXCEPT ![r] = [status |-> "PENDING", key |-> key]]
    /\ payment' = "REFUND_PENDING"
    /\ event' = [event EXCEPT !["REFUND"] = RefundEventAfter(r)]
    /\ UNCHANGED <<jobVars, providerRef, ledger, settlement, webhookLog,
                   workerVars, psp, faults>>

\* enqueuePaymentRelease: the upsert also resets attempts, but not the lease.
EnqueuePaymentRelease ==
    /\ job = "COMPLETED"
    /\ payment \in ReleaseStates
    /\ payment' = "RELEASE_PENDING"
    /\ event' = [event EXCEPT !["RELEASE"] =
                   CASE @.status = "NONE" -> Fresh(0)
                     [] @.status = "DONE" -> @
                     [] OTHER -> [Requeued(@) EXCEPT !.attempts = 0]]
    /\ UNCHANGED <<jobVars, providerRef, refund, ledger, settlement, webhookLog,
                   workerVars, psp, faults>>

-----------------------------------------------------------------------------
(* Outbox workers: claim, call the provider, complete or fail.             *)

Working(w, k) == pc[w] # "idle" /\ task[w] = k
HoldsLease(w) == event[task[w]].lease = w

\* A lease runs out 60 s after the claim. It surely does when nobody works
\* under it any more; overtaking a worker that is only slow is a fault.
ClaimablePending(k) == event[k].status = "PENDING" \* a slip: lost leases are not picked up
ClaimableFree(k) ==
    \/ event[k].status = "PENDING"
    \/ event[k].status = "PROCESSING" /\ \A w \in Workers : ~ (Working(w, k) /\ HoldsLease(w))
Overtakable(k) == event[k].status = "PROCESSING" /\ ~ ClaimableFree(k)

\* claimOutboxEvent. attempts saturates: only attempts >= MaxAttempts is read.
ClaimOutboxEvent(w, k) ==
    /\ pc[w] = "idle"
    /\ \/ ClaimableFree(k) /\ UNCHANGED faults
       \/ Overtakable(k) /\ faults < MaxFaults /\ faults' = faults + 1
    /\ event' = [event EXCEPT ![k].status = "PROCESSING",
                              ![k].attempts = IF @ < MaxAttempts THEN @ + 1 ELSE @,
                              ![k].lease = w]
    /\ pc' = [pc EXCEPT ![w] = "claimed"]
    /\ task' = [task EXCEPT ![w] = k]
    /\ UNCHANGED <<jobVars, moneyVars, webhookLog, psp>>

\* External: an idempotent provider that holds, then pays out or returns, and
\* answers a repeated request like the first.
Unchecked(k) == TRUE \* a slip: the answer's status is not looked at
PspAccepts(k) ==
    CASE k = "CREATE_HOLD" -> TRUE
      [] k = "RELEASE" -> psp \in {"HELD", "RELEASED"}
      [] k = "REFUND" -> psp \in {"HELD", "REFUNDED"}
PspAfter(k) ==
    CASE k = "CREATE_HOLD" -> IF psp = "NONE" THEN "HELD" ELSE psp
      [] k = "RELEASE" -> "RELEASED"
      [] k = "REFUND" -> "REFUNDED"

\* The call answers as the handler requires, fails, or is carried out while
\* its answer is lost or late.
CallProvider(w) ==
    /\ pc[w] = "claimed"
    /\ \/ /\ PspAccepts(task[w])
          /\ psp' = PspAfter(task[w])
          /\ \E answer \in {"confirmed", "failing"} : pc' = [pc EXCEPT ![w] = answer]
       \/ /\ pc' = [pc EXCEPT ![w] = "failing"]
          /\ UNCHANGED psp
    /\ UNCHANGED <<jobVars, moneyVars, event, webhookLog, task, faults>>

\* The completing transaction committed: the worker learns it, or the
\* connection dies first and the handler treats the event as failed.
Acknowledged(w) ==
    \/ /\ pc' = [pc EXCEPT ![w] = "idle"]
       /\ task' = [task EXCEPT ![w] = "NONE"]
       /\ UNCHANGED faults
    \/ /\ faults < MaxFaults
       /\ faults' = faults + 1
       /\ pc' = [pc EXCEPT ![w] = "failing"]
       /\ UNCHANGED task
Done(k) == [event EXCEPT ![k].status = "DONE"]

CompleteCreateHold(w) ==
    /\ pc[w] = "confirmed" /\ task[w] = "CREATE_HOLD" /\ HoldsLease(w)
    /\ \/ payment = "HELD" /\ providerRef = "PSP" /\ UNCHANGED <<payment, providerRef>>
       \/ payment = "HOLD_PENDING" /\ payment' = "HELD" /\ providerRef' = "PSP"
    /\ event' = Done("CREATE_HOLD")
    /\ Acknowledged(w)
    /\ UNCHANGED <<jobVars, refund, ledger, settlement, webhookLog, psp>>

\* Money leaves escrow for the provider: payment, job, both journals and the
\* settlement row in one transaction (worker and webhook share the writes).
SettleRelease ==
    /\ payment' = "RELEASED"
    /\ job' = "SETTLED"
    /\ ledger' = Posted({"RELEASE", "PAYOUT"})
    /\ settlement' = TRUE

CompletePaymentRelease(w) ==
    /\ pc[w] = "confirmed" /\ task[w] = "RELEASE" /\ HoldsLease(w)
    /\ \/ payment = "RELEASED" /\ UNCHANGED <<payment, job, ledger, settlement>>
       \/ payment = "RELEASE_PENDING" /\ SettleRelease
    /\ event' = Done("RELEASE")
    /\ Acknowledged(w)
    /\ UNCHANGED <<assigned, starting, providerRef, refund, webhookLog, psp>>

\* Money returns to the owner and the job to its provider, or to the market
\* when there is none (worker and webhook share the writes).
SettleRefund(r) ==
    /\ payment' = "REFUNDED"
    /\ refund' = [refund EXCEPT ![r].status = "REFUNDED"]
    /\ job' = IF assigned THEN "ASSIGNED" ELSE "PUBLISHED"
    /\ ledger' = Posted({"REFUND"})

\* The refunds row is the one named by the event's payload.
CompletePaymentRefund(w) ==
    LET r == event["REFUND"].refundId
    IN  /\ pc[w] = "confirmed" /\ task[w] = "REFUND" /\ HoldsLease(w)
        /\ \/ /\ payment = "REFUNDED" /\ refund[r].status = "REFUNDED"
              /\ UNCHANGED <<payment, refund, job, ledger>>
           \/ /\ payment = "REFUND_PENDING" /\ refund[r].status = "PENDING"
              /\ SettleRefund(r)
        /\ event' = Done("REFUND")
        /\ Acknowledged(w)
        /\ UNCHANGED <<assigned, starting, providerRef, settlement, webhookLog, psp>>

\* What makes a completing transaction refuse: a lease that is no longer the
\* worker's, or rows that are not where this event expects them.
Refused(w) ==
    \/ ~ HoldsLease(w)
    \/ task[w] = "CREATE_HOLD" /\ ~ (payment = "HELD" /\ providerRef = "PSP")
                               /\ payment # "HOLD_PENDING"
    \/ task[w] = "RELEASE" /\ payment \notin {"RELEASED", "RELEASE_PENDING"}
    \/ /\ task[w] = "REFUND"
       /\ LET status == refund[event["REFUND"].refundId].status
          IN  <<payment, status>> \notin {<<"REFUNDED", "REFUNDED">>,
                                          <<"REFUND_PENDING", "PENDING">>}

\* The handler turns a refusal into an exception; so does the database when it
\* rolls the transaction back (deadlock victim, connection lost before COMMIT).
CompletionRejected(w) ==
    /\ pc[w] = "confirmed"
    /\ \/ Refused(w) /\ UNCHANGED faults
       \/ ~ Refused(w) /\ faults < MaxFaults /\ faults' = faults + 1
    /\ pc' = [pc EXCEPT ![w] = "failing"]
    /\ UNCHANGED <<jobVars, moneyVars, event, webhookLog, task, psp>>

NeverExhausted(k) == FALSE \* a slip: attempts are not counted
Exhausted(k) == event[k].attempts >= MaxAttempts

\* A slip: one FAILED for all, which payments.status does not know.
PaymentFailed(k) == IF payment \in {"HOLD_PENDING", "RELEASE_PENDING"} THEN "FAILED" ELSE payment
\* What the terminal failure of an event does to the rows it was working for.
PaymentAfterFailure(k) ==
    CASE k = "CREATE_HOLD" /\ payment = "HOLD_PENDING"    -> "HOLD_FAILED"
      [] k = "RELEASE"     /\ payment = "RELEASE_PENDING" -> "RELEASE_FAILED"
      [] k = "REFUND"      /\ payment = "REFUND_PENDING"  -> "HELD"
      [] OTHER -> payment
RefundAfterFailure(k) ==
    LET r == event["REFUND"].refundId
    IN  IF k = "REFUND" /\ refund[r].status = "PENDING"
        THEN [refund EXCEPT ![r].status = "FAILED"]
        ELSE refund

\* Whether a failing worker may still touch the event.
MayAlwaysFail(w) == TRUE \* a slip: the token is not compared
MayFail(w) == HoldsLease(w)

\* failOutboxEvent: back in the queue for another attempt, or given up on.
FailOutboxEvent(w) ==
    LET k == task[w]
        gaveUp == MayFail(w) /\ Exhausted(k)
    IN  /\ pc[w] = "failing"
        /\ event' = IF MayFail(w)
                    THEN [event EXCEPT ![k].status = IF gaveUp THEN "FAILED" ELSE "PENDING",
                                       ![k].lease = Nobody]
                    ELSE event
        /\ payment' = IF gaveUp THEN PaymentAfterFailure(k) ELSE payment
        /\ refund' = IF gaveUp THEN RefundAfterFailure(k) ELSE refund
        /\ pc' = [pc EXCEPT ![w] = "idle"]
        /\ task' = [task EXCEPT ![w] = "NONE"]
        /\ UNCHANGED <<jobVars, providerRef, ledger, settlement, webhookLog, psp, faults>>

\* The process dies, or failOutboxEvent itself cannot reach the database.
WorkerCrash(w) ==
    /\ pc[w] # "idle"
    /\ faults < MaxFaults
    /\ faults' = faults + 1
    /\ pc' = [pc EXCEPT ![w] = "idle"]
    /\ task' = [task EXCEPT ![w] = "NONE"]
    /\ UNCHANGED <<jobVars, moneyVars, event, webhookLog, psp>>

-----------------------------------------------------------------------------
(* Provider webhooks.                                                      *)

\* External: the provider reports what it did, under its own reference, as
\* often and as late as it likes.
Reportable(type) ==
    CASE type = "PAYMENT_HELD"     -> psp # "NONE"
      [] type = "PAYMENT_RELEASED" -> psp = "RELEASED"
      [] type = "PAYMENT_REFUNDED" -> psp = "REFUNDED"

ProviderRefMatches(type) == type = "PAYMENT_REFUNDED" \/ providerRef = "PSP"

LatestPending(r) == r \in RefundsIn("PENDING") /\ \A q \in RefundsIn("PENDING") : q <= r

\* applyPaymentWebhookAtomic on a new event id. A rejected webhook (reference
\* mismatch, refund without a pending row) rolls back and records nothing; an
\* event the payment is not waiting for is recorded without any effect.
RecordWebhook(id, type) ==
    /\ Reportable(type)
    /\ ProviderRefMatches(type)
    /\ webhookLog[id] = "NONE"
    /\ webhookLog' = [webhookLog EXCEPT ![id] = type]
    /\ UNCHANGED <<assigned, starting, providerRef, event, workerVars, psp, faults>>

HeldWebhook(id) ==
    /\ RecordWebhook(id, "PAYMENT_HELD")
    /\ payment' = IF payment = "HOLD_PENDING" THEN "HELD" ELSE payment
    /\ UNCHANGED <<job, refund, ledger, settlement>>

ReleasedWebhook(id) ==
    /\ RecordWebhook(id, "PAYMENT_RELEASED")
    /\ \/ payment \in ReleaseStates /\ SettleRelease
       \/ payment \notin ReleaseStates /\ UNCHANGED <<payment, job, ledger, settlement>>
    /\ UNCHANGED refund

RefundedWebhook(id) ==
    /\ RecordWebhook(id, "PAYMENT_REFUNDED")
    /\ \/ /\ payment = "REFUND_PENDING"
          /\ \E r \in RefundIds : LatestPending(r) /\ SettleRefund(r)
       \/ payment # "REFUND_PENDING" /\ UNCHANGED <<payment, job, ledger, refund>>
    /\ UNCHANGED settlement

Webhook(id) == HeldWebhook(id) \/ ReleasedWebhook(id) \/ RefundedWebhook(id)

-----------------------------------------------------------------------------
Owner == \/ FundJob \/ RetryHold \/ AcceptDelivery \/ EnqueuePaymentRelease
         \/ \E key \in RefundKeys \cup {NoKey}, r \in RefundIds : CreateRefund(key, r)

Others == \/ Publish \/ AssignProvider \/ StartCheck \/ StartCommit \/ Deliver
          \/ \E to \in ModeratedTo : ModerateJob(to)
          \/ \E id \in WebhookIds : Webhook(id)

Complete(w) == \/ CompleteCreateHold(w) \/ CompletePaymentRelease(w)
               \/ CompletePaymentRefund(w) \/ CompletionRejected(w)

Worker(w) == \/ \E k \in EventKinds : ClaimOutboxEvent(w, k)
             \/ CallProvider(w) \/ Complete(w) \/ FailOutboxEvent(w)

Next == Owner \/ Others \/ \E w \in Workers : Worker(w) \/ WorkerCrash(w)

Spec == Init /\ [][Next]_vars

\* The worker loops keep polling, and a handler that has claimed an event runs
\* to its end unless its process dies. Owners, providers of work and the
\* provider's webhooks owe nothing.
Fairness ==
    /\ \A k \in EventKinds : WF_vars(\E w \in Workers : ClaimOutboxEvent(w, k))
    /\ \A w \in Workers : WF_vars(CallProvider(w) \/ Complete(w) \/ FailOutboxEvent(w))

FairSpec == Spec /\ Fairness

-----------------------------------------------------------------------------
TypeOK ==
    /\ job \in JobStatuses
    /\ assigned \in BOOLEAN
    /\ starting \in BOOLEAN
    /\ payment \in PaymentStatuses
    /\ providerRef \in {"NONE", "PLACEHOLDER", "PSP"}
    /\ refund \in [RefundIds -> RefundRows]
    /\ ledger \in [Journals -> Nat]
    /\ settlement \in BOOLEAN
    /\ event \in [EventKinds -> OutboxRows]
    /\ webhookLog \in [WebhookIds -> WebhookTypes \cup {"NONE"}]
    /\ pc \in [Workers -> {"idle", "claimed", "confirmed", "failing"}]
    /\ task \in [Workers -> EventKinds \cup {"NONE"}]
    /\ psp \in PspStatuses
    /\ faults \in 0..MaxFaults
    /\ \A w \in Workers : pc[w] = "idle" <=> task[w] = "NONE"

\* The books show the payment and nothing else: it was funded once, and what
\* happened next was posted once or not at all, whichever of a worker, an
\* overtaken worker and a webhook got there first (outbox.js:84-109,
\* payment_refunds.js:47-66, payment_webhooks.js:48-84).
LedgerMatchesPayment ==
    /\ ledger["FUND"] = IF payment = "NONE" THEN 0 ELSE 1
    /\ ledger["RELEASE"] = IF payment = "RELEASED" THEN 1 ELSE 0
    /\ ledger["PAYOUT"] = IF payment = "RELEASED" THEN 1 ELSE 0
    /\ ledger["REFUND"] = IF payment = "REFUNDED" THEN 1 ELSE 0
    /\ settlement = (payment = "RELEASED")

\* Job and payment move apart in separate requests but never contradict each
\* other: work goes on only while money is held for it, a job is completed
\* only with its release under way and settled only when it was paid, and no
\* job leaves an unfinished payment behind.
JobMatchesPayment ==
    /\ job = "FUNDED" => payment \in {"HOLD_PENDING", "HOLD_FAILED", "HELD", "REFUND_PENDING"}
    /\ job \in {"IN_PROGRESS", "DELIVERED"} => payment \in {"HELD", "REFUND_PENDING"}
    /\ job = "COMPLETED" => payment \in ReleaseStates
    /\ job = "SETTLED" => payment = "RELEASED"
    /\ payment \in {"HOLD_PENDING", "HOLD_FAILED"} => job = "FUNDED"
    /\ payment \in {"HELD", "REFUND_PENDING"} => job \in {"FUNDED", "IN_PROGRESS", "DELIVERED"}
    /\ payment \in ReleaseStates => job = "COMPLETED"

\* No payment is stranded: one that waits for the provider has an outbox event
\* that some worker can still claim, and one that failed terminally has its
\* event FAILED, so that a retry's upsert queues it again instead of meeting
\* a DONE row it would leave alone.
PendingPaymentHasLiveEvent ==
    /\ payment = "HOLD_PENDING" => Live("CREATE_HOLD")
    /\ payment = "REFUND_PENDING" => Live("REFUND")
    /\ payment = "RELEASE_PENDING" => event["RELEASE"].status # "FAILED"
    /\ payment = "HOLD_FAILED" => event["CREATE_HOLD"].status = "FAILED"
    /\ payment = "RELEASE_FAILED" => event["RELEASE"].status = "FAILED"
    /\ payment = "HELD" => event["REFUND"].status \in {"NONE", "FAILED"}
    /\ payment \in ReleaseStates => event["RELEASE"].status # "DONE"

\* The database never claims more than the provider did: money is shown held,
\* paid out or returned only after the provider confirmed exactly that, in
\* spite of lost answers, retries and overtaken workers.
BooksFollowProvider ==
    /\ payment = "RELEASED" => psp = "RELEASED"
    /\ payment = "REFUNDED" => psp = "REFUNDED"
    /\ payment \in {"HELD", "REFUND_PENDING"} \cup ReleaseStates => psp # "NONE"
    /\ job \in {"IN_PROGRESS", "DELIVERED", "COMPLETED"} => providerRef = "PSP"

\* At most one of the owner's refund requests is ever paid, and one is exactly
\* when the payment is REFUNDED.
OneRefundPaid ==
    /\ \A r, q \in RefundsIn("REFUNDED") : r = q
    /\ (payment = "REFUNDED") = (RefundsIn("REFUNDED") # {})

\* No confirmation is thrown away: an event's terminal failure never hits a
\* payment while the worker that holds the event's lease already has the
\* provider's yes in hand (lease checks of outbox.js:10,88,124 and
\* payment_refunds.js:51).
ConfirmedUnderLease(k) ==
    \E w \in Workers : pc[w] = "confirmed" /\ task[w] = k /\ HoldsLease(w)
GivesUp(k, from, to) == payment = from /\ payment' = to /\ ConfirmedUnderLease(k)
NoConfirmationLost ==
    [][~ \/ GivesUp("CREATE_HOLD", "HOLD_PENDING", "HOLD_FAILED")
         \/ GivesUp("RELEASE", "RELEASE_PENDING", "RELEASE_FAILED")
         \/ GivesUp("REFUND", "REFUND_PENDING", "HELD")]_payment

\* The aggregate is an escrow: see module Escrow.
EscrowStage ==
    CASE payment = "NONE" -> "UNFUNDED"
      [] payment \in {"HOLD_PENDING", "HOLD_FAILED", "HELD"} -> "ESCROW"
      [] payment = "REFUND_PENDING" -> "RETURNING"
      [] payment = "REFUNDED" -> "RETURNED"
      [] payment \in {"RELEASE_PENDING", "RELEASE_FAILED"} -> "ACCEPTED"
      [] payment = "RELEASED" -> "PAID"

E == INSTANCE Escrow WITH stage <- EscrowStage, books <- ledger

\* Every step of workers, owners, webhooks and faults is a step of the escrow
\* or invisible to it.
ImplementsEscrow == E!Spec

\* Under the workers' fairness a hold and a refund are resolved one way or the
\* other, and no event stays in a dead worker's hands.
HoldResolves   == payment = "HOLD_PENDING" ~> payment # "HOLD_PENDING"
RefundResolves == payment = "REFUND_PENDING" ~> payment # "REFUND_PENDING"
LeasesComeBack == \A k \in EventKinds :
                    event[k].status = "PROCESSING" ~> event[k].status # "PROCESSING"

\* A release that was asked for is resolved too, unless the owner keeps asking:
\* every request resets the event's attempts (outbox.js:46).
ReleaseResolves ==
    \/ []<><<EnqueuePaymentRelease>>_vars
    \/ (payment = "RELEASE_PENDING" /\ Live("RELEASE")) ~> (payment # "RELEASE_PENDING")

\* Money that was asked back or asked out of escrow arrives, or the attempt is
\* given up and the payment can be retried (completions and failOutboxEvent).
EndsResolve == RefundResolves /\ ReleaseResolves

-----------------------------------------------------------------------------
(* The inductive invariant behind the safety properties: what else is true *)
(* of the rows and of the workers' knowledge whenever they are.            *)

Unheld == {"NONE", "HOLD_PENDING", "HOLD_FAILED"}

\* A start request that has read HELD still finds the money held, paid out or
\* sent back, never on its way in; a funded job has a provider; and the
\* provider's reference is on the row from the first confirmation on.
RowsAgree ==
    /\ starting => payment \notin Unheld
    /\ payment # "NONE" => assigned
    /\ payment = "NONE" <=> providerRef = "NONE"
    /\ payment \in {"HOLD_PENDING", "HOLD_FAILED"} <=> providerRef = "PLACEHOLDER"

\* Which events exist at all, and that one waiting for a retry has no lease
\* and a refund event names a refunds row.
EventsAgree ==
    /\ payment \in Unheld => event["REFUND"].status = "NONE"
    /\ payment \in ReleaseStates \cup {"RELEASED"} => event["REFUND"].status \in {"NONE", "FAILED"}
    /\ payment \in PaymentStatuses \ (ReleaseStates \cup {"RELEASED"})
          => event["RELEASE"].status = "NONE"
    /\ \A k \in EventKinds : event[k].status \in {"NONE", "FAILED"} => event[k].lease = Nobody
    /\ event["REFUND"].status # "NONE" => event["REFUND"].refundId \in RefundIds

\* A worker reports as confirmed only what the provider did.
ConfirmationsAreTrue ==
    \A w \in Workers : pc[w] = "confirmed" =>
        /\ psp # "NONE"
        /\ task[w] = "RELEASE" => psp = "RELEASED"
        /\ task[w] = "REFUND" => psp = "REFUNDED"

IInv ==
    /\ TypeOK
    /\ LedgerMatchesPayment
    /\ JobMatchesPayment
    /\ PendingPaymentHasLiveEvent
    /\ BooksFollowProvider
    /\ OneRefundPaid
    /\ RowsAgree
    /\ EventsAgree
    /\ ConfirmationsAreTrue

-----------------------------------------------------------------------------
(* Statements of the repository's tests and tables that this code breaks.  *)

\* tests/refund-idempotency-retry-contract.test.mjs:8: after a terminal failure
\* a refund request can be made again and is not answered as a dead operation.
\* A row left PENDING while the payment is HELD is such an operation: its key
\* is answered with the row and nothing is queued (payment_refunds.js:25).
NoDeadRefund == payment = "HELD" => RefundsIn("PENDING") = {}

\* tests/property-workflow.test.mjs:40: SETTLED is terminal.
SettledIsTerminal == [][job = "SETTLED" => job' = "SETTLED"]_job

\* domain/job_state.js:8: work in progress can only be delivered.
WorkInProgressIsDelivered == [][job = "IN_PROGRESS" => job' = "DELIVERED"]_job

\* tests/payment-e2e-phase4.test.mjs:93: the provider's report of a hold that
\* it carried out is taken, also when it overtakes the worker's confirmation.
HeldReportTaken == psp # "NONE" => ProviderRefMatches("PAYMENT_HELD")
=============================================================================
