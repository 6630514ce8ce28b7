----------------------------- MODULE Deliveries -----------------------------
(* What an outbox worker does: the calls to the payment provider for a       *)
(* claimed event (ProviderCall), and the order in which all workers claim    *)
(* events from the queue that payments and notifications share               *)
(* (OutboxQueue).  The two share no state: a behaviour is of one of them,    *)
(* part, while the other stays as it began.                                  *)
EXTENDS ProviderCall

CONSTANTS Workers, Lease, MaxEvents, MaxNotifications  \* of OutboxQueue
VARIABLES part, queue

Queue == INSTANCE OutboxQueue

ASSUME DeliveriesAssumption == Queue!QueueAssumption

allVars == <<part, vars, queue>>

DeliveriesInit == part \in {"calls", "queue"} /\ Init /\ Queue!Init

DeliveriesNext == \/ part = "calls" /\ Next /\ UNCHANGED <<part, queue>>
                  \/ part = "queue" /\ Queue!Next /\ UNCHANGED <<part, vars>>

(* As in the two: a caller goes on, and the workers go on polling.           *)
DeliveriesSpec ==
  /\ DeliveriesInit /\ [][DeliveriesNext]_allVars
  /\ \A c \in Callers :
       WF_allVars(/\ part = "calls"
                  /\ \/ Answered(c) \/ Temporary(c) \/ Refused(c)
                     \/ Repeat(c) \/ Throw(c) \/ Return(c)
                  /\ UNCHANGED <<part, queue>>)
  /\ WF_allVars(part = "queue" /\ Queue!Poll /\ UNCHANGED <<part, vars>>)

-----------------------------------------------------------------------------
(* Every call to the provider ends; and a payment's event is claimed in the   *)
(* end, although notifications that were delivered come back with every       *)
(* lease - as long as they are fewer than the polls of a lease.               *)
DeliveriesEnd == CallEnds /\ Queue!PaymentServed

(* A payment is overtaken only by events queued before it: a poll that leaves *)
(* a pending event pending was spent on as many older events as there are     *)
(* workers (repository/outbox.js claimOutboxEvent).                           *)
OldestFirst == Queue!OldestFirst
=============================================================================
