--------------------------- MODULE RowLocksProofs ---------------------------
(***************************************************************************)
(* For any number of transactions and any pool: requests of users alone    *)
(* never wait for each other in a circle.  The argument is the one behind  *)
(* a canonical lock order.  A route has locked a prefix of its rows, whose *)
(* places in the order grow, so the row it waits for comes after all it    *)
(* holds.  In a circle take the member that waits for the row of the       *)
(* highest place: who holds that row waits for one of a higher place.      *)
(*                                                                         *)
(* Workers and webhooks keep no such order, but none of them gets past its *)
(* first row beside another that has it: only the holder of a refund's     *)
(* event takes the refund's row, so no two workers contend for it, and the *)
(* other rows they take in one order; one webhook alone is past a payment. *)
(***************************************************************************)
EXTENDS RowLocks, TLAPS, WellFoundedInduction

\* The place of a row in the order of Rows.
Place(r) == CASE r = "key" -> 1 [] r = "job" -> 2 [] r = "payment" -> 3
              [] r = "offers" -> 4 [] r = "application" -> 5 [] r = "refund" -> 6
              [] r = "hold event" -> 7 [] r = "release event" -> 8
              [] OTHER -> 9

\* At most five rows, each of a higher place than the one before.
Growing(q) == /\ Len(q) \in 1..5
              /\ \A k \in 1..Len(q) : q[k] \in Rows
              /\ \A k \in 1..(Len(q) - 1) : Place(q[k]) < Place(q[k + 1])

\* A row held by a route is one that it has locked on its way.
HeldOnTheWay == \A r \in Rows : owner[r] # Nobody =>
                    \E i \in 1..at[owner[r]] : op[owner[r]].rows[i] = r
Within == \A t \in Txs : op[t].by = "route" => at[t] <= Len(op[t].rows)
\* What an open transaction has locked is still its own.
Kept == \A t \in Open : \A i \in 1..at[t] :
            op[t].rows[i] \in Rows /\ owner[op[t].rows[i]] = t
Fresh == \A t \in Txs : stage[t] = "new" => at[t] = 0
IInv == TypeOK /\ Within /\ HeldOnTheWay /\ Kept /\ Fresh

LEMMA PlaceBounded == ASSUME NEW r PROVE Place(r) \in 1..9
BY DEF Place

LEMMA InRows == /\ "key" \in Rows /\ "job" \in Rows /\ "payment" \in Rows
                /\ "offers" \in Rows /\ "application" \in Rows /\ "refund" \in Rows
                /\ "hold event" \in Rows /\ "release event" \in Rows
                /\ "refund event" \in Rows
BY DEF Rows

\* The steps in place that the routes make.
LEMMA Places == /\ Place("key") < Place("job") /\ Place("job") < Place("payment")
                /\ Place("job") < Place("offers") /\ Place("job") < Place("application")
                /\ Place("payment") < Place("offers") /\ Place("payment") < Place("refund")
                /\ Place("payment") < Place("hold event")
                /\ Place("payment") < Place("release event")
                /\ Place("payment") < Place("refund event")
                /\ Place("offers") < Place("hold event")
                /\ Place("refund") < Place("refund event")
BY DEF Place

LEMMA Grow1 == ASSUME NEW a \in Rows PROVE Growing(<<a>>)
<1> DEFINE q == <<a>>
<1>1. Len(q) = 1 /\ q[1] = a
  OBVIOUS
<1> HIDE DEF q
<1>2. Growing(q)
  BY <1>1 DEF Growing
<1> QED BY <1>2 DEF q

LEMMA Grow2 == ASSUME NEW a \in Rows, NEW b \in Rows, Place(a) < Place(b)
               PROVE  Growing(<<a, b>>)
<1> DEFINE q == <<a, b>>
<1>1. Len(q) = 2 /\ q[1] = a /\ q[2] = b
  OBVIOUS
<1> HIDE DEF q
<1>2. \A k \in 1..2 : k = 1 \/ k = 2
  OBVIOUS
<1>3. Growing(q)
  BY <1>1, <1>2 DEF Growing
<1> QED BY <1>3 DEF q

LEMMA Grow3 == ASSUME NEW a \in Rows, NEW b \in Rows, NEW c \in Rows,
                      Place(a) < Place(b), Place(b) < Place(c)
               PROVE  Growing(<<a, b, c>>)
<1> DEFINE q == <<a, b, c>>
<1>1. Len(q) = 3 /\ q[1] = a /\ q[2] = b /\ q[3] = c
  OBVIOUS
<1> HIDE DEF q
<1>2. \A k \in 1..3 : k = 1 \/ k = 2 \/ k = 3
  OBVIOUS
<1>3. Growing(q)
  BY <1>1, <1>2 DEF Growing
<1> QED BY <1>3 DEF q

LEMMA Grow4 == ASSUME NEW a \in Rows, NEW b \in Rows, NEW c \in Rows, NEW d \in Rows,
                      Place(a) < Place(b), Place(b) < Place(c), Place(c) < Place(d)
               PROVE  Growing(<<a, b, c, d>>)
<1> DEFINE q == <<a, b, c, d>>
<1>1. Len(q) = 4 /\ q[1] = a /\ q[2] = b /\ q[3] = c /\ q[4] = d
  OBVIOUS
<1> HIDE DEF q
<1>2. \A k \in 1..4 : k = 1 \/ k = 2 \/ k = 3 \/ k = 4
  OBVIOUS
<1>3. Growing(q)
  BY <1>1, <1>2 DEF Growing
<1> QED BY <1>3 DEF q

LEMMA Grow5 == ASSUME NEW a \in Rows, NEW b \in Rows, NEW c \in Rows, NEW d \in Rows,
                      NEW e \in Rows, Place(a) < Place(b), Place(b) < Place(c),
                      Place(c) < Place(d), Place(d) < Place(e)
               PROVE  Growing(<<a, b, c, d, e>>)
<1> DEFINE q == <<a, b, c, d, e>>
<1>1. Len(q) = 5 /\ q[1] = a /\ q[2] = b /\ q[3] = c /\ q[4] = d /\ q[5] = e
  OBVIOUS
<1> HIDE DEF q
<1>2. \A k \in 1..5 : k = 1 \/ k = 2 \/ k = 3 \/ k = 4 \/ k = 5
  OBVIOUS
<1>3. Growing(q)
  BY <1>1, <1>2 DEF Growing
<1> QED BY <1>3 DEF q

\* Each neighbour grows, so any later row is of a higher place.
LEMMA Later == ASSUME NEW f, NEW n \in 1..5, \A k \in 1..n : f[k] \in Nat,
                      \A k \in 1..(n - 1) : f[k] < f[k + 1],
                      NEW i \in 1..n, NEW j \in 1..n, i < j
               PROVE  f[i] < f[j]
<1>1. j = i + 1 \/ j = i + 2 \/ j = i + 3 \/ j = i + 4
  OBVIOUS
<1>2. f[i] < f[i + 1]
  OBVIOUS
<1>3. i + 2 <= j => f[i + 1] < f[i + 2]
  <2>1. i + 2 <= j => i + 1 \in 1..(n - 1)
    OBVIOUS
  <2> QED BY <2>1
<1>4. i + 3 <= j => f[i + 2] < f[i + 3]
  <2>1. i + 3 <= j => i + 2 \in 1..(n - 1)
    OBVIOUS
  <2> QED BY <2>1
<1>5. i + 4 <= j => f[i + 3] < f[i + 4]
  <2>1. i + 4 <= j => i + 3 \in 1..(n - 1)
    OBVIOUS
  <2> QED BY <2>1
<1> QED BY <1>1, <1>2, <1>3, <1>4, <1>5

LEMMA RouteParts == ASSUME NEW q PROVE Route(q).by = "route" /\ Route(q).rows = q
BY DEF Route

\* The operations of routes lock in growing order.
LEMMA RoutesGrow == ASSUME NEW o \in Operations, o.by = "route" PROVE Growing(o.rows)
<1>1. CASE o \in Funding
  <2>1. \/ o = Route(<<"key", "job", "payment", "offers", "hold event">>)
        \/ o = Route(<<"key", "job", "payment", "hold event">>)
    BY <1>1, Zenon DEF Funding
  <2>2. Growing(<<"key", "job", "payment", "offers", "hold event">>)
    BY Grow5, Places, InRows, Zenon
  <2>3. Growing(<<"key", "job", "payment", "hold event">>)
    BY Grow4, Places, InRows, Zenon
  <2> QED BY <2>1, <2>2, <2>3, RouteParts, Zenon
<1>2. CASE o \in Refunding
  <2>1. \/ o = Route(<<"key", "job", "payment", "refund", "refund event">>)
        \/ o = Route(<<"job", "payment", "refund event">>)
    BY <1>2, Zenon DEF Refunding
  <2>2. Growing(<<"key", "job", "payment", "refund", "refund event">>)
    BY Grow5, Places, InRows, Zenon
  <2>3. Growing(<<"job", "payment", "refund event">>)
    BY Grow3, Places, InRows, Zenon
  <2> QED BY <2>1, <2>2, <2>3, RouteParts, Zenon
<1>3. CASE o = Releasing
  <2>1. Growing(<<"job", "payment", "release event">>)
    BY Grow3, Places, InRows, Zenon
  <2> QED BY <1>3, <2>1, RouteParts, Zenon DEF Releasing
<1>4. CASE o = Accepting
  <2>1. Growing(<<"job", "payment">>)
    BY Grow2, Places, InRows, Zenon
  <2> QED BY <1>4, <2>1, RouteParts, Zenon DEF Accepting
<1>5. CASE o = Offering
  <2>1. Growing(<<"job", "offers">>)
    BY Grow2, Places, InRows, Zenon
  <2> QED BY <1>5, <2>1, RouteParts, Zenon DEF Offering
<1>6. CASE o = Hiring
  <2>1. Growing(<<"job", "application">>)
    BY Grow2, Places, InRows, Zenon
  <2> QED BY <1>6, <2>1, RouteParts, Zenon DEF Hiring
<1>7. CASE o = Moving
  <2>1. Growing(<<"job">>)
    BY Grow1, InRows, Zenon
  <2> QED BY <1>7, <2>1, RouteParts, Zenon DEF Moving
<1>8. CASE o \in Completing \cup Failing \cup Confirming
  <2>1. \E q : o = Worker(q) \/ o = Webhook(q)
    BY <1>8, Zenon DEF Completing, Failing, Confirming
  <2>2. o.by = "worker" \/ o.by = "webhook"
    BY <2>1 DEF Worker, Webhook
  <2> QED BY <2>2
<1> QED BY <1>1, <1>2, <1>3, <1>4, <1>5, <1>6, <1>7, <1>8 DEF Operations

-----------------------------------------------------------------------------
\* What workers and webhooks lock.
WorkerRows == {<<"hold event", "payment">>,
               <<"release event", "payment", "job">>, <<"release event", "payment">>,
               <<"refund event", "payment", "job", "refund">>, <<"refund event", "refund", "payment">>}
WebhookRows == {<<"payment", "job">>, <<"payment", "refund", "job">>}

\* Every operation is a route's, a worker's or a webhook's, with such rows.
LEMMA Sides == ASSUME NEW o \in Operations
               PROVE  \/ o.by = "route" /\ Growing(o.rows)
                      \/ o.by = "worker" /\ o.rows \in WorkerRows
                      \/ o.by = "webhook" /\ o.rows \in WebhookRows
<1>1. CASE o \in Completing \cup Failing
  <2>1. \E q \in WorkerRows : o = Worker(q)
    BY <1>1, Zenon DEF Completing, Failing, WorkerRows
  <2> QED BY <2>1 DEF Worker
<1>2. CASE o \in Confirming
  <2>1. \E q \in WebhookRows : o = Webhook(q)
    BY <1>2, Zenon DEF Confirming, WebhookRows
  <2> QED BY <2>1 DEF Webhook
<1>3. CASE o \notin Completing \cup Failing \cup Confirming
  <2>1. \E q : o = Route(q)
    BY <1>3, Zenon DEF Operations, Funding, Refunding, Releasing, Accepting, Offering, Hiring, Moving
  <2> QED BY <2>1, RoutesGrow DEF Route
<1> QED BY <1>1, <1>2, <1>3

LEMMA WorkersLock == ASSUME NEW o \in Operations, o.by = "worker" PROVE o.rows \in WorkerRows
BY Sides

LEMMA WebhooksLock == ASSUME NEW o \in Operations, o.by = "webhook" PROVE o.rows \in WebhookRows
BY Sides

\* What a worker asks for next, from what it has.
LEMMA WorkerNext == ASSUME NEW q \in WorkerRows, NEW k \in Nat, k < Len(q)
                    PROVE  /\ q[k + 1] = "refund" => k # 0 /\ q[1] = "refund event"
                           /\ \A i \in 1..k :
                                /\ q[i] = "refund" => q[1] = "refund event"
                                /\ q[i] = "job" => q[k + 1] = "refund"
                                /\ q[i] = "payment" => q[k + 1] \in {"job", "refund"}
                                /\ q[k + 1] \in {"payment", "job", "refund"}
                           /\ q[k + 1] \in Rows
<1>1. CASE q = <<"hold event", "payment">>
  <2>1. Len(q) = 2 /\ q[1] = "hold event" /\ q[2] = "payment"
    BY <1>1
  <2>2. k < 2
    BY <2>1
  <2>3. k = 0 \/ k = 1
    BY <2>2
  <2>4. CASE k = 0
    <3>1. k + 1 = 1 /\ \A i \in 1..k : FALSE
      BY <2>4
    <3>2. q[k + 1] = "hold event"
      BY <2>1, <3>1
    <3> QED BY <2>1, <2>4, <3>2, <3>1, InRows
  <2>5. CASE k = 1
    <3>1. k + 1 = 2 /\ \A i \in 1..k : i = 1
      BY <2>5
    <3>2. q[k + 1] = "payment"
      BY <2>1, <3>1
    <3>3. \A i \in 1..k : q[i] = "hold event"
      BY <2>1, <3>1
    <3> QED BY <2>1, <2>5, <3>2, <3>3, InRows
  <2> QED BY <2>3, <2>4, <2>5
<1>2. CASE q = <<"release event", "payment", "job">>
  <2>1. Len(q) = 3 /\ q[1] = "release event" /\ q[2] = "payment" /\ q[3] = "job"
    BY <1>2
  <2>2. k < 3
    BY <2>1
  <2>3. k = 0 \/ k = 1 \/ k = 2
    BY <2>2
  <2>4. CASE k = 0
    <3>1. k + 1 = 1 /\ \A i \in 1..k : FALSE
      BY <2>4
    <3>2. q[k + 1] = "release event"
      BY <2>1, <3>1
    <3> QED BY <2>1, <2>4, <3>2, <3>1, InRows
  <2>5. CASE k = 1
    <3>1. k + 1 = 2 /\ \A i \in 1..k : i = 1
      BY <2>5
    <3>2. q[k + 1] = "payment"
      BY <2>1, <3>1
    <3>3. \A i \in 1..k : q[i] = "release event"
      BY <2>1, <3>1
    <3> QED BY <2>1, <2>5, <3>2, <3>3, InRows
  <2>6. CASE k = 2
    <3>1. k + 1 = 3 /\ \A i \in 1..k : i = 1 \/ i = 2
      BY <2>6
    <3>2. q[k + 1] = "job"
      BY <2>1, <3>1
    <3>3. \A i \in 1..k : q[i] = "release event" \/ q[i] = "payment"
      BY <2>1, <3>1
    <3> QED BY <2>1, <2>6, <3>2, <3>3, InRows
  <2> QED BY <2>3, <2>4, <2>5, <2>6
<1>3. CASE q = <<"release event", "payment">>
  <2>1. Len(q) = 2 /\ q[1] = "release event" /\ q[2] = "payment"
    BY <1>3
  <2>2. k < 2
    BY <2>1
  <2>3. k = 0 \/ k = 1
    BY <2>2
  <2>4. CASE k = 0
    <3>1. k + 1 = 1 /\ \A i \in 1..k : FALSE
      BY <2>4
    <3>2. q[k + 1] = "release event"
      BY <2>1, <3>1
    <3> QED BY <2>1, <2>4, <3>2, <3>1, InRows
  <2>5. CASE k = 1
    <3>1. k + 1 = 2 /\ \A i \in 1..k : i = 1
      BY <2>5
    <3>2. q[k + 1] = "payment"
      BY <2>1, <3>1
    <3>3. \A i \in 1..k : q[i] = "release event"
      BY <2>1, <3>1
    <3> QED BY <2>1, <2>5, <3>2, <3>3, InRows
  <2> QED BY <2>3, <2>4, <2>5
<1>4. CASE q = <<"refund event", "payment", "job", "refund">>
  <2>1. Len(q) = 4 /\ q[1] = "refund event" /\ q[2] = "payment" /\ q[3] = "job" /\ q[4] = "refund"
    BY <1>4
  <2>2. k < 4
    BY <2>1
  <2>3. k = 0 \/ k = 1 \/ k = 2 \/ k = 3
    BY <2>2
  <2>4. CASE k = 0
    <3>1. k + 1 = 1 /\ \A i \in 1..k : FALSE
      BY <2>4
    <3>2. q[k + 1] = "refund event"
      BY <2>1, <3>1
    <3> QED BY <2>1, <2>4, <3>2, <3>1, InRows
  <2>5. CASE k = 1
    <3>1. k + 1 = 2 /\ \A i \in 1..k : i = 1
      BY <2>5
    <3>2. q[k + 1] = "payment"
      BY <2>1, <3>1
    <3>3. \A i \in 1..k : q[i] = "refund event"
      BY <2>1, <3>1
    <3> QED BY <2>1, <2>5, <3>2, <3>3, InRows
  <2>6. CASE k = 2
    <3>1. k + 1 = 3 /\ \A i \in 1..k : i = 1 \/ i = 2
      BY <2>6
    <3>2. q[k + 1] = "job"
      BY <2>1, <3>1
    <3>3. \A i \in 1..k : q[i] = "refund event" \/ q[i] = "payment"
      BY <2>1, <3>1
    <3> QED BY <2>1, <2>6, <3>2, <3>3, InRows
  <2>7. CASE k = 3
    <3>1. k + 1 = 4 /\ \A i \in 1..k : i = 1 \/ i = 2 \/ i = 3
      BY <2>7
    <3>2. q[k + 1] = "refund"
      BY <2>1, <3>1
    <3>3. \A i \in 1..k : q[i] = "refund event" \/ q[i] = "payment" \/ q[i] = "job"
      BY <2>1, <3>1
    <3> QED BY <2>1, <2>7, <3>2, <3>3, InRows
  <2> QED BY <2>3, <2>4, <2>5, <2>6, <2>7
<1>5. CASE q = <<"refund event", "refund", "payment">>
  <2>1. Len(q) = 3 /\ q[1] = "refund event" /\ q[2] = "refund" /\ q[3] = "payment"
    BY <1>5
  <2>2. k < 3
    BY <2>1
  <2>3. k = 0 \/ k = 1 \/ k = 2
    BY <2>2
  <2>4. CASE k = 0
    <3>1. k + 1 = 1 /\ \A i \in 1..k : FALSE
      BY <2>4
    <3>2. q[k + 1] = "refund event"
      BY <2>1, <3>1
    <3> QED BY <2>1, <2>4, <3>2, <3>1, InRows
  <2>5. CASE k = 1
    <3>1. k + 1 = 2 /\ \A i \in 1..k : i = 1
      BY <2>5
    <3>2. q[k + 1] = "refund"
      BY <2>1, <3>1
    <3>3. \A i \in 1..k : q[i] = "refund event"
      BY <2>1, <3>1
    <3> QED BY <2>1, <2>5, <3>2, <3>3, InRows
  <2>6. CASE k = 2
    <3>1. k + 1 = 3 /\ \A i \in 1..k : i = 1 \/ i = 2
      BY <2>6
    <3>2. q[k + 1] = "payment"
      BY <2>1, <3>1
    <3>3. \A i \in 1..k : q[i] = "refund event" \/ q[i] = "refund"
      BY <2>1, <3>1
    <3> QED BY <2>1, <2>6, <3>2, <3>3, InRows
  <2> QED BY <2>3, <2>4, <2>5, <2>6
<1> QED BY <1>1, <1>2, <1>3, <1>4, <1>5 DEF WorkerRows

LEMMA WebhookNext == ASSUME NEW q \in WebhookRows, NEW k \in Nat, k < Len(q)
                     PROVE  q[1] = "payment" /\ q[k + 1] \in Rows
<1>1. CASE q = <<"payment", "job">>
  <2>1. Len(q) = 2 /\ q[1] = "payment" /\ q[2] = "job"
    BY <1>1
  <2>2. k < 2
    BY <2>1
  <2>3. k = 0 \/ k = 1
    BY <2>2
  <2>4. CASE k = 0
    <3>1. k + 1 = 1
      BY <2>4
    <3> QED BY <2>1, <3>1, InRows
  <2>5. CASE k = 1
    <3>1. k + 1 = 2
      BY <2>5
    <3> QED BY <2>1, <3>1, InRows
  <2> QED BY <2>3, <2>4, <2>5
<1>2. CASE q = <<"payment", "refund", "job">>
  <2>1. Len(q) = 3 /\ q[1] = "payment" /\ q[2] = "refund" /\ q[3] = "job"
    BY <1>2
  <2>2. k < 3
    BY <2>1
  <2>3. k = 0 \/ k = 1 \/ k = 2
    BY <2>2
  <2>4. CASE k = 0
    <3>1. k + 1 = 1
      BY <2>4
    <3> QED BY <2>1, <3>1, InRows
  <2>5. CASE k = 1
    <3>1. k + 1 = 2
      BY <2>5
    <3> QED BY <2>1, <3>1, InRows
  <2>6. CASE k = 2
    <3>1. k + 1 = 3
      BY <2>6
    <3> QED BY <2>1, <3>1, InRows
  <2> QED BY <2>3, <2>4, <2>5, <2>6
<1> QED BY <1>1, <1>2 DEF WebhookRows

LEMMA NextInRows == ASSUME NEW o \in Operations, NEW k \in Nat, k < Len(o.rows)
                    PROVE  o.rows[k + 1] \in Rows
<1>1. CASE Growing(o.rows)
  BY <1>1 DEF Growing
<1>2. CASE o.rows \in WorkerRows
  BY <1>2, WorkerNext
<1>3. CASE o.rows \in WebhookRows
  BY <1>3, WebhookNext
<1> QED BY <1>1, <1>2, <1>3, Sides

-----------------------------------------------------------------------------
LEMMA InitIInv == Init => IInv
BY LocksAssumption DEF Init, IInv, TypeOK, Within, HeldOnTheWay, Kept, Fresh, Open

LEMMA ReleasedType == ASSUME NEW t \in Txs, owner \in [Rows -> Txs \cup {Nobody}]
                      PROVE  /\ Released(t) \in [Rows -> Txs \cup {Nobody}]
                             /\ \A r \in Rows : Released(t)[r] # Nobody => Released(t)[r] = owner[r]
BY DEF Released

LEMMA LockKeeps == ASSUME IInv, NEW t \in Txs, Lock(t) PROVE IInv'
<1> DEFINE r0 == NextRow(t)
           n == at[t] + 1
<1>1. at[t] \in Nat /\ n \in Nat /\ n \in 1..n
  BY DEF IInv, TypeOK
<1>2. /\ at' = [at EXCEPT ![t] = n]
      /\ owner' = [owner EXCEPT ![r0] = t]
      /\ op' = op /\ stage' = stage
      /\ owner[r0] = Nobody
      /\ at[t] < Len(op[t].rows)
      /\ op[t].rows[n] = r0
  BY DEF Lock, Asking, NextRow
<1>3. TypeOK
  BY DEF IInv
<1> HIDE DEF r0, n
<1>4. TypeOK'
  BY <1>1, <1>2, <1>3 DEF TypeOK
<1>5. Within'
  <2> SUFFICES ASSUME NEW u \in Txs, op[u].by = "route" PROVE at'[u] <= Len(op[u].rows)
    BY <1>2 DEF Within
  <2>1. CASE u = t
    <3>1. op[t] \in Operations
      BY <1>3 DEF TypeOK
    <3>2. Len(op[t].rows) \in Nat
      BY <3>1, <2>1, RoutesGrow DEF Growing
    <3>3. n <= Len(op[t].rows)
      BY <3>2, <1>1, <1>2 DEF n
    <3>4. at'[t] = n
      BY <1>2, <1>3 DEF TypeOK
    <3> QED BY <2>1, <3>3, <3>4
  <2>2. CASE u # t
    <3>1. at'[u] = at[u]
      BY <2>2, <1>2, <1>3 DEF TypeOK
    <3> QED BY <3>1 DEF IInv, Within
  <2> QED BY <2>1, <2>2
<1>6. HeldOnTheWay'
  <2> SUFFICES ASSUME NEW r \in Rows, owner'[r] # Nobody
               PROVE  \E i \in 1..at'[owner'[r]] : op[owner'[r]].rows[i] = r
    BY <1>2 DEF HeldOnTheWay
  <2>1. CASE r = r0
    <3>1. owner'[r] = t /\ at'[t] = n
      BY <2>1, <1>2, <1>3 DEF TypeOK
    <3> QED BY <3>1, <2>1, <1>1, <1>2
  <2>2. CASE r # r0
    <3>1. owner'[r] = owner[r]
      BY <2>2, <1>2, <1>3 DEF TypeOK
    <3>2. PICK i \in 1..at[owner[r]] : op[owner[r]].rows[i] = r
      BY <3>1 DEF IInv, HeldOnTheWay
    <3>3. owner[r] \in Txs
      BY <3>1, <1>3 DEF TypeOK
    <3>4. at[owner[r]] \in Nat /\ at'[owner[r]] \in Nat /\ at[owner[r]] <= at'[owner[r]]
      BY <3>3, <1>1, <1>2, <1>3 DEF TypeOK, n
    <3>5. i \in 1..at'[owner[r]]
      BY <3>2, <3>4
    <3> QED BY <3>1, <3>2, <3>5
  <2> QED BY <2>1, <2>2
<1>8. r0 \in Rows
  <2>1. op[t] \in Operations
    BY <1>3 DEF TypeOK
  <2> QED BY <2>1, <1>1, <1>2, NextInRows DEF n, r0, NextRow
<1>7. Kept'
  <2> SUFFICES ASSUME NEW u \in Open, NEW i \in 1..at'[u]
               PROVE  op[u].rows[i] \in Rows /\ owner'[op[u].rows[i]] = u
    BY <1>2 DEF Kept, Open
  <2>1. u \in Txs /\ u # Nobody /\ t # Nobody
    BY LocksAssumption DEF Open
  <2>2. CASE u = t /\ i = n
    BY <2>2, <1>2, <1>3, <1>8 DEF TypeOK
  <2>3. CASE u # t \/ i # n
    <3>1. i \in 1..at[u]
      BY <2>1, <2>3, <1>1, <1>2, <1>3 DEF TypeOK, n
    <3>2. op[u].rows[i] \in Rows /\ owner[op[u].rows[i]] = u
      BY <3>1 DEF IInv, Kept
    <3>3. op[u].rows[i] # r0
      BY <3>2, <2>1, <1>2
    <3> QED BY <3>2, <3>3, <1>2, <1>3 DEF TypeOK
  <2> QED BY <2>2, <2>3
<1>9. Fresh'
  <2>1. stage[t] # "new"
    BY DEF Lock, Asking
  <2> QED BY <2>1, <1>2, <1>3 DEF IInv, Fresh, TypeOK
<1> QED BY <1>4, <1>5, <1>6, <1>7, <1>9 DEF IInv

LEMMA EndingKeeps == ASSUME IInv, NEW t \in Txs, End(t) \/ Abort(t) PROVE IInv'
<1>1. owner' = Released(t) /\ op' = op /\ at' = at
  BY DEF End, Abort
<1>2. TypeOK'
  BY <1>1, ReleasedType DEF IInv, TypeOK, End, Abort
<1>3. HeldOnTheWay'
  BY <1>1, ReleasedType, ZenonT(60) DEF IInv, TypeOK, HeldOnTheWay
<1>4. Kept'
  <2> SUFFICES ASSUME NEW u \in Open', NEW i \in 1..at[u]
               PROVE  op[u].rows[i] \in Rows /\ owner'[op[u].rows[i]] = u
    BY <1>1 DEF Kept
  <2>1. stage' \in [Txs -> {"new", "open", "committed", "aborted"}] /\ stage'[t] # "open"
        /\ \A v \in Txs \ {t} : stage'[v] = stage[v]
    BY DEF IInv, TypeOK, End, Abort
  <2>2. u \in Open /\ u # t
    BY <2>1 DEF Open
  <2>3. op[u].rows[i] \in Rows /\ owner[op[u].rows[i]] = u
    BY <2>2 DEF IInv, Kept
  <2> QED BY <2>2, <2>3, <1>1 DEF Released
<1>5. Fresh'
  BY <1>1 DEF IInv, TypeOK, Fresh, End, Abort
<1> QED BY <1>1, <1>2, <1>3, <1>4, <1>5 DEF IInv, Within

LEMMA BeginningKeeps == ASSUME IInv, NEW t \in Txs, Begin(t) \/ NoConnection(t) PROVE IInv'
<1>1. TypeOK' /\ Within' /\ HeldOnTheWay'
  BY DEF IInv, TypeOK, Within, HeldOnTheWay, Begin, NoConnection
<1>2. Kept' /\ Fresh'
  BY DEF IInv, TypeOK, Kept, Fresh, Open, Begin, NoConnection
<1> QED BY <1>1, <1>2 DEF IInv

LEMMA NextIInv == ASSUME IInv, [Next]_vars PROVE IInv'
<1>1. CASE UNCHANGED vars
  BY <1>1 DEF vars, IInv, TypeOK, Within, HeldOnTheWay, Kept, Fresh, Open
<1>2. CASE Next
  <2>1. PICK t \in Txs : Begin(t) \/ NoConnection(t) \/ Lock(t) \/ End(t) \/ Abort(t)
    BY <1>2 DEF Next
  <2> QED BY <2>1, LockKeeps, EndingKeeps, BeginningKeeps
<1> QED BY <1>1, <1>2

\* Types and the prefix of locked rows hold always.
THEOREM TypeCorrect == Spec => []TypeOK
<1>1. Spec => []IInv
  BY InitIInv, NextIInv, PTL DEF Spec
<1>2. IInv => TypeOK
  BY DEF IInv
<1> QED BY <1>1, <1>2, PTL

-----------------------------------------------------------------------------
\* Whoever holds what a route waits for waits, as a route, for a later row.
LEMMA Climbs == ASSUME IInv, NEW t \in Side("route"), NEW u \in Side("route"),
                       Waits(t, u), Asking(u)
                PROVE  Place(NextRow(t)) < Place(NextRow(u))
<1>1. t \in Txs /\ u \in Txs /\ op[u].by = "route" /\ op[t].by = "route"
  BY DEF Side, Open
<1>2. TypeOK /\ op[t] \in Operations /\ op[u] \in Operations /\ at[t] \in Nat /\ at[u] \in Nat
  BY <1>1 DEF IInv, TypeOK
<1>3. Growing(op[t].rows) /\ Growing(op[u].rows)
  BY <1>1, <1>2, RoutesGrow
<1>4. NextRow(t) \in Rows
  BY <1>2, <1>3 DEF Waits, Asking, NextRow, Growing
<1>5. owner[NextRow(t)] = u /\ u # Nobody
  BY <1>1, LocksAssumption DEF Waits
<1>6. PICK i \in 1..at[u] : op[u].rows[i] = NextRow(t)
  BY <1>4, <1>5 DEF IInv, HeldOnTheWay
<1> DEFINE n == Len(op[u].rows)
           f == [k \in 1..n |-> Place(op[u].rows[k])]
           j == at[u] + 1
<1>7. n \in 1..5 /\ j \in 1..n /\ i \in 1..n /\ i < j
  BY <1>2, <1>3, <1>6 DEF Asking, Growing
<1>8. \A k \in 1..n : f[k] \in Nat
  BY PlaceBounded
<1>9. \A k \in 1..(n - 1) : f[k] < f[k + 1]
  BY <1>3, <1>7 DEF Growing
<1>10. f[i] = Place(NextRow(t)) /\ f[j] = Place(NextRow(u))
  BY <1>6, <1>7 DEF NextRow
<1> HIDE DEF n, f, j
<1>11. f[i] < f[j]
  BY <1>7, <1>8, <1>9, Later
<1> QED BY <1>10, <1>11

LEMMA NoCircleOfRoutes == ASSUME IInv PROVE RoutesKeepOrder
<1> SUFFICES ASSUME NEW S \in SUBSET Side("route"), Deadlocked(S) PROVE FALSE
  BY DEF RoutesKeepOrder
<1> DEFINE D == {9 - Place(NextRow(t)) : t \in S}
<1>1. D \in SUBSET Nat /\ D # {}
  BY PlaceBounded DEF Deadlocked
<1>2. PICK d \in D : \A e \in D : ~(<<e, d>> \in OpToRel(<, Nat))
  BY <1>1, NatLessThanWellFounded, WFMin
<1>3. PICK t \in S : d = 9 - Place(NextRow(t))
  BY <1>2
<1>4. PICK u \in S : Waits(t, u)
  BY <1>3 DEF Deadlocked
<1>5. Asking(u)
  BY <1>4 DEF Deadlocked, Waits
<1>6. Place(NextRow(t)) < Place(NextRow(u))
  BY <1>3, <1>4, <1>5, Climbs
<1> DEFINE e == 9 - Place(NextRow(u))
<1>7. e \in D /\ e \in Nat /\ d \in Nat
  BY <1>1, <1>2, <1>4
<1>8. e < d
  BY <1>3, <1>6, PlaceBounded
<1>9. <<e, d>> \in OpToRel(<, Nat)
  BY <1>7, <1>8 DEF OpToRel
<1> QED BY <1>2, <1>7, <1>9

\* For any number of users at once: their requests never wait for each other
\* in a circle, so every deadlock has a worker or a webhook in it.
THEOREM RoutesNeverDeadlock == Spec => []RoutesKeepOrder
<1>1. Spec => []IInv
  BY InitIInv, NextIInv, PTL DEF Spec
<1>2. IInv => RoutesKeepOrder
  BY NoCircleOfRoutes
<1> QED BY <1>1, <1>2, PTL

-----------------------------------------------------------------------------
\* Who holds the row that another waits for has it on its way.
LEMMA Holder == ASSUME IInv, NEW t \in Open, NEW u \in Open, Waits(t, u), NextRow(t) \in Rows
                PROVE  \E i \in 1..at[u] : op[u].rows[i] = NextRow(t)
<1>1. owner[NextRow(t)] = u /\ u # Nobody
  BY LocksAssumption DEF Waits, Open
<1> QED BY <1>1 DEF IInv, HeldOnTheWay

LEMMA NoCircleOfWorkers == ASSUME IInv PROVE \A S \in SUBSET Side("worker") : ~Deadlocked(S)
<1> SUFFICES ASSUME NEW S \in SUBSET Side("worker"), Deadlocked(S) PROVE FALSE
  OBVIOUS
<1>1. \A t \in S : /\ t \in Open /\ t \in Txs /\ op[t].rows \in WorkerRows /\ at[t] \in Nat
                  /\ at[t] < Len(op[t].rows) /\ NextRow(t) = op[t].rows[at[t] + 1]
  <2> SUFFICES ASSUME NEW t \in S
               PROVE  /\ t \in Open /\ t \in Txs /\ op[t].rows \in WorkerRows /\ at[t] \in Nat
                      /\ at[t] < Len(op[t].rows) /\ NextRow(t) = op[t].rows[at[t] + 1]
    OBVIOUS
  <2>1. t \in Open /\ t \in Txs /\ op[t].by = "worker"
    BY DEF Side, Open
  <2>2. op[t] \in Operations /\ at[t] \in Nat
    BY <2>1 DEF IInv, TypeOK
  <2>3. at[t] < Len(op[t].rows)
    BY DEF Deadlocked, Waits, Asking
  <2> QED BY <2>1, <2>2, <2>3, WorkersLock DEF NextRow
<1>2. \A t \in S : NextRow(t) \in Rows
  <2> TAKE t \in S
  <2> DEFINE q == op[t].rows
             k == at[t]
  <2>1. q \in WorkerRows /\ k \in Nat /\ k < Len(q) /\ NextRow(t) = q[k + 1]
    BY <1>1
  <2> HIDE DEF q, k
  <2> QED BY <2>1, WorkerNext
<1>3. \A t \in S : \E u \in S : u # t /\ \E i \in 1..at[u] : op[u].rows[i] = NextRow(t)
  <2> TAKE t \in S
  <2>1. PICK u \in S : Waits(t, u)
    BY DEF Deadlocked
  <2>2. u # t
    BY <2>1 DEF Waits
  <2> QED BY <2>1, <2>2, <1>1, <1>2, Holder
<1>4. \A t \in S : /\ NextRow(t) = "refund" => at[t] # 0 /\ op[t].rows[1] = "refund event"
                  /\ \A i \in 1..at[t] :
                       /\ op[t].rows[i] = "refund" => op[t].rows[1] = "refund event"
                       /\ op[t].rows[i] = "job" => NextRow(t) = "refund"
                       /\ op[t].rows[i] = "payment" => NextRow(t) \in {"job", "refund"}
                       /\ NextRow(t) \in {"payment", "job", "refund"}
  <2> TAKE t \in S
  <2> DEFINE q == op[t].rows
             k == at[t]
  <2>1. q \in WorkerRows /\ k \in Nat /\ k < Len(q) /\ NextRow(t) = q[k + 1]
    BY <1>1
  <2> HIDE DEF q, k
  <2>2. /\ NextRow(t) = "refund" => k # 0 /\ q[1] = "refund event"
        /\ \A i \in 1..k : /\ q[i] = "refund" => q[1] = "refund event"
                           /\ q[i] = "job" => NextRow(t) = "refund"
                           /\ q[i] = "payment" => NextRow(t) \in {"job", "refund"}
                           /\ NextRow(t) \in {"payment", "job", "refund"}
    BY <2>1, WorkerNext
  <2> QED BY <2>2 DEF q, k
<1>5. \A t \in S : at[t] # 0 => 1 \in 1..at[t]
  <2> TAKE t \in S
  <2> DEFINE k == at[t]
  <2>1. k \in Nat
    BY <1>1
  <2> HIDE DEF k
  <2>2. k # 0 => 1 \in 1..k
    BY <2>1
  <2> QED BY <2>2 DEF k
<1>6. \A t \in S : NextRow(t) # "refund"
  <2> SUFFICES ASSUME NEW t \in S, NextRow(t) = "refund" PROVE FALSE
    OBVIOUS
  <2>1. PICK u \in S : u # t /\ \E i \in 1..at[u] : op[u].rows[i] = "refund"
    BY <1>3
  <2>2. at[t] # 0 /\ op[t].rows[1] = "refund event"
    BY <1>1, <1>4
  <2>3. at[u] # 0 /\ op[u].rows[1] = "refund event"
    <3>1. PICK i \in 1..at[u] : op[u].rows[i] = "refund"
      BY <2>1
    <3>2. op[u].rows[1] = "refund event"
      BY <3>1, <1>4
    <3>3. at[u] # 0
      <4> DEFINE k == at[u]
      <4>1. k \in Nat /\ i \in 1..k
        BY <1>1
      <4> HIDE DEF k
      <4>2. k # 0
        BY <4>1
      <4> QED BY <4>2 DEF k
    <3> QED BY <3>2, <3>3
  <2>4. Kept /\ t \in Open /\ u \in Open /\ 1 \in 1..at[t] /\ 1 \in 1..at[u]
    BY <1>1, <1>5, <2>2, <2>3 DEF IInv
  <2>5. owner["refund event"] = t /\ owner["refund event"] = u
    BY <2>2, <2>3, <2>4 DEF Kept
  <2> QED BY <2>1, <2>5
<1>7. \A t \in S : NextRow(t) # "job"
  <2> SUFFICES ASSUME NEW t \in S, NextRow(t) = "job" PROVE FALSE
    OBVIOUS
  <2>1. PICK u \in S : \E i \in 1..at[u] : op[u].rows[i] = "job"
    BY <1>3
  <2>2. NextRow(u) = "refund"
    BY <1>1, <2>1, <1>4
  <2> QED BY <2>2, <1>6
<1>8. \A t \in S : NextRow(t) # "payment"
  <2> SUFFICES ASSUME NEW t \in S, NextRow(t) = "payment" PROVE FALSE
    OBVIOUS
  <2>1. PICK u \in S : \E i \in 1..at[u] : op[u].rows[i] = "payment"
    BY <1>3
  <2>2. NextRow(u) \in {"job", "refund"}
    BY <1>1, <2>1, <1>4
  <2> QED BY <2>2, <1>6, <1>7
<1>9. PICK t \in S : TRUE
  BY DEF Deadlocked
<1>10. PICK u \in S : \E i \in 1..at[u] : op[u].rows[i] = NextRow(t)
  BY <1>3
<1>11. NextRow(u) \in {"payment", "job", "refund"}
  BY <1>1, <1>10, <1>4
<1> QED BY <1>6, <1>7, <1>8, <1>11

LEMMA NoCircleOfWebhooks == ASSUME IInv PROVE \A S \in SUBSET Side("webhook") : ~Deadlocked(S)
<1> SUFFICES ASSUME NEW S \in SUBSET Side("webhook"), Deadlocked(S) PROVE FALSE
  OBVIOUS
<1>1. \A t \in S : /\ t \in Open /\ t \in Txs /\ op[t].rows \in WebhookRows /\ at[t] \in Nat
                  /\ at[t] < Len(op[t].rows) /\ NextRow(t) = op[t].rows[at[t] + 1]
  <2> SUFFICES ASSUME NEW t \in S
               PROVE  /\ t \in Open /\ t \in Txs /\ op[t].rows \in WebhookRows /\ at[t] \in Nat
                      /\ at[t] < Len(op[t].rows) /\ NextRow(t) = op[t].rows[at[t] + 1]
    OBVIOUS
  <2>1. t \in Open /\ t \in Txs /\ op[t].by = "webhook"
    BY DEF Side, Open
  <2>2. op[t] \in Operations /\ at[t] \in Nat
    BY <2>1 DEF IInv, TypeOK
  <2>3. at[t] < Len(op[t].rows)
    BY DEF Deadlocked, Waits, Asking
  <2> QED BY <2>1, <2>2, <2>3, WebhooksLock DEF NextRow
<1>2. PICK t \in S : TRUE
  BY DEF Deadlocked
<1>3. PICK u \in S : Waits(t, u)
  BY DEF Deadlocked
<1>4. PICK v \in S : Waits(u, v)
  BY DEF Deadlocked
<1>5. u # t /\ v # u
  BY <1>3, <1>4 DEF Waits
<1>6. NextRow(t) \in Rows /\ NextRow(u) \in Rows
  BY <1>1, WebhookNext
<1>7. at[u] >= 1 /\ at[v] >= 1
  <2>1. \E i \in 1..at[u] : TRUE
    BY <1>1, <1>3, <1>6, Holder
  <2>2. \E i \in 1..at[v] : TRUE
    BY <1>1, <1>4, <1>6, Holder
  <2> QED BY <2>1, <2>2, <1>1
<1>8. op[u].rows[1] = "payment" /\ op[v].rows[1] = "payment"
  BY <1>1, WebhookNext
<1>9. owner["payment"] = u /\ owner["payment"] = v
  BY <1>1, <1>7, <1>8 DEF IInv, Kept
<1> QED BY <1>5, <1>9

\* For any number of transactions: a circle that PostgreSQL has to break is
\* of two sides at least, never of routes, workers or webhooks alone.
THEOREM LocksAreSound == Spec => []LocksSound
<1>1. Spec => []IInv
  BY InitIInv, NextIInv, PTL DEF Spec
<1>2. IInv => WorkersAndWebhooksTakeTurns
  BY NoCircleOfWorkers, NoCircleOfWebhooks DEF WorkersAndWebhooksTakeTurns
<1>3. IInv => LocksSound
  BY <1>2, NoCircleOfRoutes DEF LocksSound, IInv
<1> QED BY <1>1, <1>3, PTL

=============================================================================
