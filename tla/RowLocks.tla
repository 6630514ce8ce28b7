------------------------------ MODULE RowLocks ------------------------------
(***************************************************************************)
(* The row locks of one job's aggregate in PostgreSQL.  Every mutation of  *)
(* a job's money is a transaction of its own connection                    *)
(* (db/runtime.js withSqlTransaction) that locks rows one statement after  *)
(* the other and keeps them until COMMIT or ROLLBACK.  Three sides do so:  *)
(* the routes (key, job, payment, ...), the outbox worker (event first,    *)
(* then payment, then job) and the provider's webhooks (payment first,     *)
(* then refund and job).  Their orders differ, so two of them can wait for *)
(* each other; PostgreSQL then aborts one, and withSqlTransaction rolls it *)
(* back.  What a transaction writes is PaymentLifecycle's; here only the   *)
(* rows it locks and their order matter.  A transaction may end after any  *)
(* statement: every early return and throw is such an end.                 *)
(*                                                                         *)
(* Left out: claimOutboxEvent, which skips locked rows and so never waits; *)
(* the offers of a job are one lock, since only a holder of the job's row  *)
(* takes more than one of them; the weaker locks of foreign keys.          *)
(***************************************************************************)
EXTENDS Naturals, FiniteSets, Sequences

CONSTANTS Txs,      \* transactions, each run once: a retry is another one
          Nobody,   \* the owner of a free row
          PoolMax   \* connections of the pool

ASSUME LocksAssumption == Nobody \notin Txs /\ PoolMax \in Nat \ {0} /\ IsFiniteSet(Txs)

\* The locks, in the order the routes take them; "key" is the advisory lock
\* on an idempotency key, the last three are the payment's outbox events.
Rows == {"key", "job", "payment", "offers", "application", "refund",
         "hold event", "release event", "refund event"}

Route(rows) == [by |-> "route", rows |-> rows]
Worker(rows) == [by |-> "worker", rows |-> rows]
Webhook(rows) == [by |-> "webhook", rows |-> rows]

\* fundJobAtomic: the first funding takes the offer, a retry finds the event.
Funding == {Route(<<"key", "job", "payment", "offers", "hold event">>),
            Route(<<"key", "job", "payment", "hold event">>)}
\* createRefundAtomic, with or without an earlier row under the same key.
Refunding == {Route(<<"key", "job", "payment", "refund", "refund event">>),
              Route(<<"job", "payment", "refund event">>)}
Releasing == Route(<<"job", "payment", "release event">>)
\* The webhook's order in a route.  (Slip of Accepting.)
PaymentFirst == Route(<<"payment", "job">>)
Accepting == Route(<<"job", "payment">>)
Offering == Route(<<"job", "offers">>)
Hiring == Route(<<"job", "application">>)
Moving == Route(<<"job">>)

\* The completions of the three events, and the failure of the last attempt,
\* which puts the payment (and the refund, before it) back.
Completing == {Worker(<<"hold event", "payment">>),
               Worker(<<"release event", "payment", "job">>),
               Worker(<<"refund event", "payment", "job", "refund">>)}
\* The last attempt's failure without the event's row.  (Slip of Failing.)
Unserialised == {Worker(<<"payment">>), Worker(<<"refund", "payment">>)}
Failing == {Worker(<<"hold event", "payment">>),
            Worker(<<"release event", "payment">>),
            Worker(<<"refund event", "refund", "payment">>)}
Confirming == {Webhook(<<"payment", "job">>), Webhook(<<"payment", "refund", "job">>)}

Operations == Funding \cup Refunding \cup {Releasing, Accepting, Offering, Hiring, Moving}
              \cup Completing \cup Failing \cup Confirming

VARIABLES op,     \* what the transaction does
          stage,  \* "new", "open", "committed", "aborted"
          at,     \* how many of its rows it has locked
          owner   \* who holds each row

vars == <<op, stage, at, owner>>

Init == /\ op \in [Txs -> Operations]
        /\ stage = [t \in Txs |-> "new"]
        /\ at = [t \in Txs |-> 0]
        /\ owner = [r \in Rows |-> Nobody]

Open == {t \in Txs : stage[t] = "open"}
Asking(t) == stage[t] = "open" /\ at[t] < Len(op[t].rows)
NextRow(t) == op[t].rows[at[t] + 1]

\* pool.connect() and BEGIN: a connection must be free.
Begin(t) == /\ stage[t] = "new"
            /\ Cardinality(Open) < PoolMax
            /\ stage' = [stage EXCEPT ![t] = "open"]
            /\ UNCHANGED <<op, at, owner>>

\* No connection came free within connectionTimeoutMillis.
NoConnection(t) == /\ stage[t] = "new"
                   /\ Cardinality(Open) >= PoolMax
                   /\ stage' = [stage EXCEPT ![t] = "aborted"]
                   /\ UNCHANGED <<op, at, owner>>

Lock(t) == /\ Asking(t)
           /\ owner[NextRow(t)] = Nobody
           /\ owner' = [owner EXCEPT ![NextRow(t)] = t]
           /\ at' = [at EXCEPT ![t] = @ + 1]
           /\ UNCHANGED <<op, stage>>

\* The connection goes back to the pool with its locks.  (Slip of Released.)
KeepsLocks(t) == owner
\* Released rows lose their lock entry.  (Slip of Released.)
Forgets(t) == [r \in {q \in Rows : owner[q] # t} |-> owner[r]]
Released(t) == [r \in Rows |-> IF owner[r] = t THEN Nobody ELSE owner[r]]

\* COMMIT or ROLLBACK, after the first statement or any later one.
End(t) == /\ stage[t] = "open"
          /\ at[t] > 0
          /\ stage' = [stage EXCEPT ![t] = "committed"]
          /\ owner' = Released(t)
          /\ UNCHANGED <<op, at>>

Waits(t, u) == Asking(t) /\ u # t /\ owner[NextRow(t)] = u
Deadlocked(S) == S # {} /\ \A t \in S : \E u \in S : Waits(t, u)

\* PostgreSQL finds a cycle and aborts one of its members; the rejection
\* of its query takes withSqlTransaction to ROLLBACK.
Abort(t) == /\ \E S \in SUBSET Open : t \in S /\ Deadlocked(S)
            /\ stage' = [stage EXCEPT ![t] = "aborted"]
            /\ owner' = Released(t)
            /\ UNCHANGED <<op, at>>

Next == \E t \in Txs : Begin(t) \/ NoConnection(t) \/ Lock(t) \/ End(t) \/ Abort(t)

\* A request runs to its end, a lock that is free is granted, and the
\* database's deadlock check comes round.
Fairness == \A t \in Txs : WF_vars(Begin(t) \/ NoConnection(t) \/ Lock(t) \/ Abort(t))
                           /\ WF_vars(End(t))
Spec == Init /\ [][Next]_vars /\ Fairness

-----------------------------------------------------------------------------
TypeOK == /\ op \in [Txs -> Operations]
          /\ stage \in [Txs -> {"new", "open", "committed", "aborted"}]
          /\ at \in [Txs -> Nat]
          /\ owner \in [Rows -> Txs \cup {Nobody}]

Side(s) == {t \in Open : op[t].by = s}

\* The routes lock in one canonical order (repository/applications.js:24-26),
\* so requests of users alone never wait for each other in a circle.
RoutesKeepOrder == \A S \in SUBSET Side("route") : ~Deadlocked(S)

\* Workers lock refund and payment in both orders, and webhooks start in the
\* middle; still no circle has only workers, or only webhooks, in it, because
\* the event's row, or the payment's, is locked first and lets in one of them.
WorkersAndWebhooksTakeTurns ==
    \A s \in {"worker", "webhook"} : \A S \in SUBSET Side(s) : ~Deadlocked(S)

\* All of the above in every state: a circle that PostgreSQL has to break is
\* always of two sides.
LocksSound == TypeOK /\ RoutesKeepOrder /\ WorkersAndWebhooksTakeTurns

\* No request waits for ever, whoever it meets and however few connections
\* there are: it commits, or is told to try again.
EveryoneEnds == \A t \in Txs : <>(stage[t] \in {"committed", "aborted"})
=============================================================================
