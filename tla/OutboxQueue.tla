---------------------------- MODULE OutboxQueue ----------------------------
(* The one outbox queue that payments and notifications share, in time:     *)
(* claimOutboxEvent takes the oldest row that is PENDING or whose lease ran *)
(* out, every worker polls once per outboxPollMs, and a notification that   *)
(* was delivered keeps its lease instead of being marked DONE.  A step is   *)
(* one poll of all workers; a claimed event is handled within it.           *)
(* What a claim does with a payment is PaymentLifecycle's subject.          *)
EXTENDS Integers, FiniteSets

CONSTANTS Workers,          \* config.outboxWorkerConcurrency
          Lease,            \* config.outboxLeaseSeconds, in polls
          MaxEvents,        \* bound: rows of outbox_events
          MaxNotifications  \* bound: NOTIFICATION_DISPATCH rows among them

QueueAssumption ==
  /\ Workers \in Nat \ {0} /\ Lease \in Nat \ {0}
  /\ MaxEvents \in Nat /\ MaxNotifications \in Nat

VARIABLE queue  \* outbox_events in the order of created_at

Kinds == {"PAYMENT", "NOTIFICATION"}
Ids == 1..MaxEvents
NoEvent == [kind |-> "PAYMENT", status |-> "NONE", age |-> 0]
Of(kind, status) == {e \in Ids : queue[e].kind = kind /\ queue[e].status \in status}

Init == queue = [e \in Ids |-> NoEvent]

(* queueNotification and the payment routes insert PENDING rows.            *)
Enqueue(kind) ==
  /\ kind = "NOTIFICATION" => Cardinality(Of(kind, {"PENDING", "PROCESSING"})) < MaxNotifications
  /\ \E e \in Ids :
       /\ queue[e].status = "NONE" /\ \A f \in 1..(e - 1) : queue[f].status # "NONE"
       /\ queue' = [queue EXCEPT ![e] = [kind |-> kind, status |-> "PENDING", age |-> 0]]

LeaseIgnored(e) == \* a slip: locked_at is not compared
  queue[e].status \in {"PENDING", "PROCESSING"}
Claimable(e) == queue[e].status = "PENDING" \/ (queue[e].status = "PROCESSING" /\ queue[e].age >= Lease)

(* The rows the workers' claims of one poll return, oldest first.           *)
ClaimedNewest == \* a slip: ORDER BY created_at DESC
  {e \in Ids : Claimable(e) /\ Cardinality({f \in (e + 1)..MaxEvents : Claimable(f)}) < Workers}
Claimed == {e \in Ids : Claimable(e) /\ Cardinality({f \in 1..(e - 1) : Claimable(f)}) < Workers}

(* What processOutboxEvent leaves behind: completions mark payments DONE,   *)
(* a delivered notification stays PROCESSING under its fresh lease.         *)
HandledAlike(row) == \* a slip: a completed payment is not marked DONE
  [row EXCEPT !.status = "PROCESSING", !.age = 0]
Handled(row) == IF row.kind = "PAYMENT" THEN [row EXCEPT !.status = "DONE", !.age = 0]
                                        ELSE [row EXCEPT !.status = "PROCESSING", !.age = 0]
Older(row) == IF row.status = "PROCESSING" /\ row.age < Lease THEN [row EXCEPT !.age = @ + 1] ELSE row

Poll ==
  /\ queue' = [e \in Ids |-> IF e \in Claimed THEN Handled(queue[e]) ELSE Older(queue[e])]

Next == (\E kind \in Kinds : Enqueue(kind)) \/ Poll

(* The worker loops go on for ever; each waits outboxPollMs between claims. *)
Spec == Init /\ [][Next]_queue /\ WF_queue(Poll)

-----------------------------------------------------------------------------
(* Every row keeps its type, payments are never left under a lease, and     *)
(* rows fill the table in order.                                            *)
TypeOK ==
  /\ queue \in [Ids -> [kind : Kinds, status : {"NONE", "PENDING", "PROCESSING", "DONE"},
                        age : 0..Lease]]
  /\ Of("PAYMENT", {"PROCESSING"}) = {}

(* SAGA-CQRS.md: a job never sits FUNDED with money that was never held.    *)
(* A payment's event is claimed in the end, whatever is queued before it.   *)
PaymentServed == \A e \in Ids :
  (queue[e].kind = "PAYMENT" /\ queue[e].status = "PENDING") ~> (queue[e].status = "DONE")

(* A payment is overtaken only by events that were queued before it: in     *)
(* every poll that leaves it PENDING the workers were busy with older rows. *)
OvertakenByOlder == \A e \in Ids :
  (queue[e].status = "PENDING" /\ queue'[e].status = "PENDING" /\ Poll)
    => Cardinality({f \in 1..(e - 1) : queue'[f].status # queue[f].status
                                        \/ queue'[f].age < queue[f].age}) = Workers
OldestFirst == [][OvertakenByOlder]_queue

-----------------------------------------------------------------------------
(* A statement of the repository that this code breaks (README, section 4). *)

(* tools/staging-notification-delivery.mjs: the outbox drains.  A queued    *)
(* notification leaves the queue once it was delivered.                     *)
DispatchEnds == \A e \in Ids :
  (queue[e].kind = "NOTIFICATION" /\ queue[e].status = "PENDING") ~> (queue[e].status = "DONE")
=============================================================================
