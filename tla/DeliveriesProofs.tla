--------------------------- MODULE DeliveriesProofs -------------------------
(***************************************************************************)
(* For any number of workers, calls and requests per call, and for either  *)
(* facade: the provider carries an operation out once and the worker is    *)
(* told of nothing else.  What holds it together is the stored answer.  It *)
(* is there from the moment an operation was carried out, and whatever the *)
(* facade stored or a caller was answered, if it is the normal answer of   *)
(* an operation at all, is that of one that was carried out.               *)
(* And for any number of workers, polls of a lease and events: a pending   *)
(* event waits only while the workers serve older ones.                    *)
(***************************************************************************)
EXTENDS Deliveries, FiniteSetTheorems, NaturalsInduction, WellFoundedInduction, TLAPS

Slots == Operations \cup {"any"}

\* The bodies that can be meant, by the operation that was carried out.
Meant(r, ef) == r \in {NoAnswer, Garbage} \/ \E o \in Operations : r = Answer(o) /\ ef[o] > 0

Remembered == \A o \in Operations : effects[o] = 0 \/ Kept(o) # NoAnswer
AnswersMeant == /\ \A s \in Slots, k \in Keys : Meant(stored[<<s, k>>], effects)
                /\ \A c \in Callers : Meant(reply[c], effects)
StoredTyped == \E V : stored \in [Slots \X Keys -> V]
CallsInv == /\ TypeOK /\ OnceAtProvider /\ ConfirmedWasDone
        /\ Remembered /\ AnswersMeant /\ StoredTyped

LEMMA KeysAndSlots == \A o \in Operations : Slot(o) \in Slots /\ KeyOf(o) \in Keys
BY DEF Slot, KeyOf, Slots, Keys

StatusOf(o) == CASE o = "createHold" -> "HELD" [] o = "releaseHold" -> "RELEASED"
                 [] o = "refundHold" -> "REFUNDED"

LEMMA Statuses ==
  /\ \A o \in Operations : StatusOf(o) \notin {"-", "?"} /\ Answer(o).status = StatusOf(o)
  /\ \A o, p \in Operations : StatusOf(o) = StatusOf(p) => o = p
  /\ \A o \in Operations : \A r : Valid(o, r) => r.status = StatusOf(o)
  /\ NoAnswer.status = "-" /\ Garbage.status = "?"
<1>1. \A o \in Operations : StatusOf(o) \notin {"-", "?"} /\ Answer(o).status = StatusOf(o)
  BY DEF StatusOf, Answer, Operations
<1>2. \A o, p \in Operations : StatusOf(o) = StatusOf(p) => o = p
  BY DEF StatusOf, Operations
<1>3. ASSUME NEW o \in Operations, NEW r, Valid(o, r) PROVE r.status = StatusOf(o)
  BY <1>3 DEF Valid, StatusOf, Operations
<1>4. NoAnswer.status = "-" /\ Garbage.status = "?"
  BY DEF NoAnswer, Garbage
<1> QED BY <1>1, <1>2, <1>3, <1>4

LEMMA AnswerIsOne == \A o \in Operations : Answer(o) # NoAnswer
BY Statuses

\* An answer passes the check of the operation it belongs to and of no other.
LEMMA OnlyItsOwn ==
  ASSUME NEW o \in Operations, NEW r, Meant(r, effects), Valid(o, r)
  PROVE  effects[o] > 0
<1>1. r # NoAnswer /\ r # Garbage
  BY Statuses
<1>2. PICK p \in Operations : r = Answer(p) /\ effects[p] > 0
  BY <1>1 DEF Meant
<1>3. p = o
  BY <1>2, Statuses
<1> QED BY <1>2, <1>3

-----------------------------------------------------------------------------
LEMMA CallsBegin == Init => CallsInv
<1> SUFFICES ASSUME Init PROVE CallsInv
  OBVIOUS
<1>1. TypeOK
  BY CallAssumption DEF Init, TypeOK, Operations, CallAssumption
<1>2. stored = [p \in Slots \X Keys |-> NoAnswer] /\ effects = [o \in Operations |-> 0]
      /\ confirmed = {} /\ reply = [c \in Callers |-> NoAnswer]
  BY DEF Init, Slots
<1>3. StoredTyped
  <2>1. stored \in [Slots \X Keys -> {NoAnswer}]
    BY <1>2
  <2> QED BY <2>1 DEF StoredTyped
<1>4. AnswersMeant
  BY <1>2 DEF AnswersMeant, Meant
<1> QED BY <1>1, <1>2, <1>3, <1>4 DEF CallsInv, OnceAtProvider, ConfirmedWasDone, Remembered

\* What was meant stays meant while effects only grow.
LEMMA StaysMeant ==
  ASSUME NEW r, Meant(r, effects), TypeOK, effects' \in [Operations -> Nat],
         \A o \in Operations : effects'[o] >= effects[o]
  PROVE  Meant(r, effects')
BY DEF Meant, TypeOK

\* The facade takes a request: carried out if it has stored nothing, and what
\* it answers is meant.
LEMMA Taking ==
  ASSUME CallsInv, NEW o \in Operations, FacadeTakes(o)
  PROVE  /\ effects' \in [Operations -> Nat] /\ \A p \in Operations : effects'[p] >= effects[p]
         /\ OnceAtProvider' /\ Remembered' /\ StoredTyped'
         /\ \A s \in Slots, k \in Keys : Meant(stored'[<<s, k>>], effects')
         /\ Meant(FacadeAnswer(o), effects')
<1>1. KeyOf(o) \in Keys /\ Slot(o) \in Slots
  BY KeysAndSlots
<1>2. effects \in [Operations -> Nat] /\ \A p \in Operations : effects[p] <= 1
  BY DEF CallsInv, TypeOK, OnceAtProvider
<1>3. Known(o) <=> Kept(o) # NoAnswer
  BY <1>1 DEF Known
<1>4. PICK V : stored \in [Slots \X Keys -> V]
  BY DEF CallsInv, StoredTyped
<1>5. \A s \in Slots, k \in Keys : Meant(stored[<<s, k>>], effects)
  BY DEF CallsInv, AnswersMeant
<1>6. Remembered
  BY DEF CallsInv
<1>7. CASE Known(o)
  <2>1. effects' = effects /\ stored' = stored
    BY <1>7 DEF FacadeTakes
  <2>2. FacadeAnswer(o) = stored[<<Slot(o), KeyOf(o)>>]
    BY <1>7 DEF FacadeAnswer, Kept
  <2>3. OnceAtProvider' /\ Remembered' /\ StoredTyped'
    BY <1>2, <1>4, <1>6, <2>1 DEF OnceAtProvider, Remembered, StoredTyped, Kept
  <2>4. Meant(FacadeAnswer(o), effects')
    BY <1>1, <1>5, <2>1, <2>2
  <2>5. \A s \in Slots, k \in Keys : Meant(stored'[<<s, k>>], effects')
    BY <1>5, <2>1
  <2> QED BY <1>2, <2>1, <2>3, <2>4, <2>5
<1>8. CASE ~Known(o)
  <2> DEFINE here == <<Slot(o), KeyOf(o)>>
  <2>1. /\ effects' = [effects EXCEPT ![o] = effects[o] + 1]
        /\ stored' = [stored EXCEPT ![here] = Answer(o)]
    BY <1>1, <1>8 DEF FacadeTakes
  <2>2. here \in Slots \X Keys
    BY <1>1
  <2>3. effects[o] = 0
    BY <1>3, <1>6, <1>8 DEF Remembered
  <2>4. /\ effects' \in [Operations -> Nat] /\ effects'[o] = 1
        /\ \A p \in Operations : p # o => effects'[p] = effects[p]
    BY <1>2, <2>1, <2>3
  <2>5. /\ stored' \in [Slots \X Keys -> V \cup {Answer(o)}] /\ stored'[here] = Answer(o)
        /\ \A x \in Slots \X Keys : x # here => stored'[x] = stored[x]
    BY <1>4, <2>1, <2>2
  <2>6. OnceAtProvider' /\ StoredTyped'
    <3>1. \A p \in Operations : effects'[p] <= 1
      BY <1>2, <2>4
    <3>2. \E W : stored' \in [Slots \X Keys -> W]
      BY <2>5
    <3> QED BY <3>1, <3>2 DEF OnceAtProvider, StoredTyped
  <2>7. Remembered'
    <3> SUFFICES ASSUME NEW p \in Operations
                 PROVE  effects'[p] = 0 \/ stored'[<<Slot(p), KeyOf(p)>>] # NoAnswer
      BY DEF Remembered, Kept
    <3>1. <<Slot(p), KeyOf(p)>> \in Slots \X Keys
      BY KeysAndSlots
    <3>2. CASE <<Slot(p), KeyOf(p)>> = here
      BY <2>5, <3>2, AnswerIsOne
    <3>3. CASE <<Slot(p), KeyOf(p)>> # here
      <4>1. p # o
        BY <3>3
      <4> QED BY <1>6, <2>4, <2>5, <3>1, <3>3, <4>1 DEF Remembered, Kept
    <3> QED BY <3>2, <3>3
  <2>8. \A p \in Operations : effects'[p] >= effects[p]
    BY <1>2, <2>3, <2>4
  <2>9. FacadeAnswer(o) = Answer(o)
    BY <1>8 DEF FacadeAnswer
  <2>10. Meant(FacadeAnswer(o), effects')
    BY <2>4, <2>9 DEF Meant
  <2>11. \A s \in Slots, k \in Keys : Meant(stored'[<<s, k>>], effects')
    <3> SUFFICES ASSUME NEW s \in Slots, NEW k \in Keys PROVE Meant(stored'[<<s, k>>], effects')
      OBVIOUS
    <3>1. CASE <<s, k>> = here
      BY <2>4, <2>5, <3>1 DEF Meant
    <3>2. CASE <<s, k>> # here
      <4>1. stored'[<<s, k>>] = stored[<<s, k>>]
        BY <2>5, <3>2
      <4>2. Meant(stored[<<s, k>>], effects)
        BY <1>5
      <4> QED BY <1>2, <2>4, <2>8, <4>1, <4>2 DEF Meant
    <3> QED BY <3>1, <3>2
  <2> QED BY <2>4, <2>6, <2>7, <2>8, <2>10, <2>11
<1> QED BY <1>7, <1>8

\* A step that leaves the facade alone and answers nothing new.
LEMMA FacadeAlone ==
  ASSUME CallsInv, TypeOK', UNCHANGED <<stored, effects, confirmed>>,
         \A c \in Callers : reply'[c] = reply[c] \/ reply'[c] \in {NoAnswer, Garbage}
  PROVE  CallsInv'
<1>1. stored' = stored /\ effects' = effects /\ confirmed' = confirmed
  OBVIOUS
<1>2. OnceAtProvider' /\ ConfirmedWasDone' /\ Remembered' /\ StoredTyped'
  BY <1>1 DEF CallsInv, OnceAtProvider, ConfirmedWasDone, Remembered, StoredTyped, Kept
<1>3. \A c \in Callers : Meant(reply'[c], effects')
  BY <1>1 DEF CallsInv, AnswersMeant, Meant
<1>4. \A p \in Slots, k \in Keys : Meant(stored'[<<p, k>>], effects')
  BY <1>1 DEF CallsInv, AnswersMeant
<1> QED BY <1>2, <1>3, <1>4 DEF CallsInv, AnswersMeant

\* A step in which the facade takes a request for o; at most that answer is
\* passed on.
LEMMA FacadeTook ==
  ASSUME CallsInv, NEW o \in Operations, FacadeTakes(o), UNCHANGED confirmed,
         pc' \in [Callers -> {"idle", "sent", "answered", "temporary", "refused"}],
         op' \in [Callers -> Operations], attempt' \in [Callers -> 0..MaxAttempts],
         late' \in SUBSET Operations,
         \A c \in Callers : reply'[c] = reply[c] \/ reply'[c] = FacadeAnswer(o)
  PROVE  CallsInv'
<1>1. /\ effects' \in [Operations -> Nat] /\ \A p \in Operations : effects'[p] >= effects[p]
      /\ OnceAtProvider' /\ Remembered' /\ StoredTyped'
      /\ \A p \in Slots, k \in Keys : Meant(stored'[<<p, k>>], effects')
      /\ Meant(FacadeAnswer(o), effects')
  BY Taking
<1>2. TypeOK
  BY DEF CallsInv
<1>3. TypeOK'
  BY <1>1, <1>2 DEF TypeOK
<1>4. ConfirmedWasDone'
  <2>1. \A p \in confirmed : p \in Operations /\ effects[p] > 0 /\ effects[p] \in Nat
    BY <1>2 DEF CallsInv, ConfirmedWasDone, TypeOK
  <2> QED BY <1>1, <2>1 DEF ConfirmedWasDone
<1>5. \A c \in Callers : Meant(reply[c], effects')
  <2> TAKE c \in Callers
  <2>1. Meant(reply[c], effects)
    BY DEF CallsInv, AnswersMeant
  <2> QED BY <1>1, <1>2, <2>1, StaysMeant
<1>6. \A c \in Callers : Meant(reply'[c], effects')
  BY <1>1, <1>5
<1> QED BY <1>1, <1>3, <1>4, <1>6 DEF CallsInv, AnswersMeant

LEMMA KeepsCall ==
  ASSUME CallsInv, NEW c \in Callers, NEW o \in Operations, Call(c, o) PROVE CallsInv'
<1>1. TypeOK'
  BY CallAssumption DEF CallsInv, TypeOK, Call, CallAssumption
<1> QED BY <1>1, FacadeAlone DEF Call

LEMMA KeepsAnswered == ASSUME CallsInv, NEW c \in Callers, Answered(c) PROVE CallsInv'
<1>1. /\ op[c] \in Operations /\ op' = op /\ attempt' = attempt /\ late' = late
      /\ confirmed' = confirmed /\ pc' = [pc EXCEPT ![c] = "answered"]
  BY DEF CallsInv, TypeOK, Answered
<1>2. /\ pc' \in [Callers -> {"idle", "sent", "answered", "temporary", "refused"}]
      /\ op' \in [Callers -> Operations] /\ attempt' \in [Callers -> 0..MaxAttempts]
      /\ late' \in SUBSET Operations
  BY <1>1 DEF CallsInv, TypeOK
<1>3. CASE FacadeTakes(op[c]) /\ reply' = [reply EXCEPT ![c] = FacadeAnswer(op[c])]
  <2>1. \A d \in Callers : reply'[d] = reply[d] \/ reply'[d] = FacadeAnswer(op[c])
    BY <1>3
  <2> QED BY <1>1, <1>2, <1>3, <2>1, FacadeTook
<1>4. CASE UNCHANGED <<stored, effects>> /\ reply' = [reply EXCEPT ![c] = Garbage]
  <2>1. \A d \in Callers : reply'[d] = reply[d] \/ reply'[d] \in {NoAnswer, Garbage}
    BY <1>4
  <2>2. TypeOK'
    BY <1>2, <1>1, <1>4 DEF CallsInv, TypeOK
  <2> QED BY <1>1, <1>4, <2>1, <2>2, FacadeAlone
<1> QED BY <1>3, <1>4 DEF Answered

LEMMA KeepsTemporary == ASSUME CallsInv, NEW c \in Callers, Temporary(c) PROVE CallsInv'
<1>1. /\ op[c] \in Operations /\ op' = op /\ attempt' = attempt /\ reply' = reply
      /\ confirmed' = confirmed /\ pc' = [pc EXCEPT ![c] = "temporary"]
  BY DEF CallsInv, TypeOK, Temporary
<1>2. /\ pc' \in [Callers -> {"idle", "sent", "answered", "temporary", "refused"}]
      /\ op' \in [Callers -> Operations] /\ attempt' \in [Callers -> 0..MaxAttempts]
  BY <1>1 DEF CallsInv, TypeOK
<1>3. CASE FacadeTakes(op[c]) /\ late' = late
  <2>1. late' \in SUBSET Operations
    BY <1>3 DEF CallsInv, TypeOK
  <2> QED BY <1>1, <1>2, <1>3, <2>1, FacadeTook
<1>4. CASE late' = late \cup {op[c]} /\ UNCHANGED <<stored, effects>>
  <2>1. TypeOK'
    BY <1>1, <1>2, <1>4 DEF CallsInv, TypeOK
  <2> QED BY <1>1, <1>4, <2>1, FacadeAlone
<1> QED BY <1>3, <1>4 DEF Temporary

LEMMA KeepsTakenLate == ASSUME CallsInv, NEW o \in Operations, TakenLate(o) PROVE CallsInv'
<1>1. /\ FacadeTakes(o) /\ pc' = pc /\ op' = op /\ attempt' = attempt /\ reply' = reply
      /\ confirmed' = confirmed /\ late' = late \ {o}
  BY DEF TakenLate
<1>2. /\ pc' \in [Callers -> {"idle", "sent", "answered", "temporary", "refused"}]
      /\ op' \in [Callers -> Operations] /\ attempt' \in [Callers -> 0..MaxAttempts]
      /\ late' \in SUBSET Operations
  BY <1>1 DEF CallsInv, TypeOK
<1> QED BY <1>1, <1>2, FacadeTook

LEMMA KeepsRefused == ASSUME CallsInv, NEW c \in Callers, Refused(c) PROVE CallsInv'
<1>1. TypeOK'
  BY DEF CallsInv, TypeOK, Refused
<1> QED BY <1>1, FacadeAlone DEF Refused

LEMMA KeepsRepeat == ASSUME CallsInv, NEW c \in Callers, Repeat(c) PROVE CallsInv'
<1>1. attempt[c] + 1 \in 0..MaxAttempts
  BY CallAssumption DEF CallsInv, TypeOK, Repeat, CallAssumption
<1>2. TypeOK'
  BY <1>1 DEF CallsInv, TypeOK, Repeat
<1> QED BY <1>2, FacadeAlone DEF Repeat

\* The reply is forgotten when a call ends.
LEMMA Forgotten ==
  ASSUME NEW c \in Callers, Ended(c)
  PROVE  \A d \in Callers : reply'[d] = reply[d] \/ reply'[d] \in {NoAnswer, Garbage}
<1> SUFFICES ASSUME NEW d \in Callers
             PROVE  reply'[d] = reply[d] \/ reply'[d] \in {NoAnswer, Garbage}
  OBVIOUS
<1>1. reply' = [reply EXCEPT ![c] = NoAnswer]
  BY DEF Ended
<1> QED BY <1>1

LEMMA KeepsThrow == ASSUME CallsInv, NEW c \in Callers, Throw(c) PROVE CallsInv'
<1>1. Ended(c) /\ confirmed' = confirmed
  BY DEF Throw
<1>2. TypeOK'
  BY <1>1 DEF CallsInv, TypeOK, Ended
<1>3. UNCHANGED <<stored, effects, confirmed>>
  BY <1>1 DEF Ended
<1> QED BY <1>1, <1>2, <1>3, Forgotten, FacadeAlone

LEMMA KeepsReturn == ASSUME CallsInv, NEW c \in Callers, Return(c) PROVE CallsInv'
<1>1. /\ Ended(c) /\ confirmed' = confirmed \cup {op[c]} /\ Valid(op[c], reply[c])
      /\ op[c] \in Operations
  BY DEF Return, CallsInv, TypeOK
<1>2. stored' = stored /\ effects' = effects
  BY <1>1 DEF Ended
<1>3. effects[op[c]] > 0
  <2>1. Meant(reply[c], effects)
    BY DEF CallsInv, AnswersMeant
  <2> QED BY <1>1, <2>1, OnlyItsOwn
<1>4. TypeOK'
  BY <1>1 DEF CallsInv, TypeOK, Ended
<1>5. OnceAtProvider' /\ ConfirmedWasDone' /\ Remembered' /\ StoredTyped'
  BY <1>1, <1>2, <1>3
     DEF CallsInv, OnceAtProvider, ConfirmedWasDone, Remembered, StoredTyped, Kept
<1>6. \A d \in Callers : reply'[d] = reply[d] \/ reply'[d] \in {NoAnswer, Garbage}
  BY <1>1, Forgotten
<1>7. \A d \in Callers : Meant(reply'[d], effects')
  BY <1>2, <1>6 DEF CallsInv, AnswersMeant, Meant
<1>8. \A p \in Slots, k \in Keys : Meant(stored'[<<p, k>>], effects')
  BY <1>2 DEF CallsInv, AnswersMeant
<1> QED BY <1>4, <1>5, <1>7, <1>8 DEF CallsInv, AnswersMeant

LEMMA KeepsStutter == ASSUME CallsInv, UNCHANGED vars PROVE CallsInv'
<1>1. TypeOK'
  BY DEF CallsInv, TypeOK, vars
<1> QED BY <1>1, FacadeAlone DEF vars

LEMMA CallsKeep == CallsInv /\ [Next]_vars => CallsInv'
<1> SUFFICES ASSUME CallsInv, [Next]_vars PROVE CallsInv'
  OBVIOUS
<1>1. ASSUME NEW c \in Callers, NEW o \in Operations, Call(c, o) PROVE CallsInv'
  BY <1>1, KeepsCall
<1>2. ASSUME NEW c \in Callers, Answered(c) PROVE CallsInv'
  BY <1>2, KeepsAnswered
<1>3. ASSUME NEW c \in Callers, Temporary(c) PROVE CallsInv'
  BY <1>3, KeepsTemporary
<1>4. ASSUME NEW c \in Callers, Refused(c) PROVE CallsInv'
  BY <1>4, KeepsRefused
<1>5. ASSUME NEW c \in Callers, Repeat(c) PROVE CallsInv'
  BY <1>5, KeepsRepeat
<1>6. ASSUME NEW c \in Callers, Throw(c) PROVE CallsInv'
  BY <1>6, KeepsThrow
<1>7. ASSUME NEW c \in Callers, Return(c) PROVE CallsInv'
  BY <1>7, KeepsReturn
<1>8. ASSUME NEW o \in Operations, TakenLate(o) PROVE CallsInv'
  BY <1>8, KeepsTakenLate
<1>9. CASE UNCHANGED vars
  BY <1>9, KeepsStutter
<1> QED BY <1>1, <1>2, <1>3, <1>4, <1>5, <1>6, <1>7, <1>8, <1>9 DEF Next

-----------------------------------------------------------------------------
(***************************************************************************)
(* The queue.                                                              *)
(***************************************************************************)
Rows == [kind : Queue!Kinds, status : {"NONE", "PENDING", "PROCESSING", "DONE"}, age : 0..Lease]

LEMMA QueueConstants == Workers \in Nat \ {0} /\ Lease \in Nat \ {0} /\ MaxEvents \in Nat
BY DeliveriesAssumption DEF Queue!QueueAssumption

(* A handled row is a row, and a payment is not left under a lease.         *)
LEMMA HandledRow ==
  ASSUME NEW r \in Rows
  PROVE  /\ Queue!Handled(r) \in Rows
         /\ Queue!Handled(r).status = IF r.kind = "PAYMENT" THEN "DONE" ELSE "PROCESSING"
         /\ Queue!Handled(r).kind = r.kind /\ Queue!Handled(r).age = 0
<1>1. 0 \in 0..Lease
  BY QueueConstants
<1>2. CASE r.kind = "PAYMENT"
  BY <1>1, <1>2 DEF Queue!Handled, Rows
<1>3. CASE r.kind # "PAYMENT"
  BY <1>1, <1>3 DEF Queue!Handled, Rows
<1> QED BY <1>2, <1>3

LEMMA OlderRow ==
  ASSUME NEW r \in Rows
  PROVE  /\ Queue!Older(r) \in Rows /\ Queue!Older(r).age >= r.age
         /\ Queue!Older(r).status = r.status /\ Queue!Older(r).kind = r.kind
<1>1. r.age \in 0..Lease /\ r.age \in Int
  BY QueueConstants DEF Rows
<1>2. CASE r.status = "PROCESSING" /\ r.age < Lease
  <2>1. r.age + 1 \in 0..Lease /\ r.age + 1 >= r.age
    BY <1>1, <1>2, QueueConstants
  <2> QED BY <1>2, <2>1 DEF Queue!Older, Rows
<1>3. CASE ~(r.status = "PROCESSING" /\ r.age < Lease)
  BY <1>1, <1>3 DEF Queue!Older
<1> QED BY <1>2, <1>3

LEMMA QueueBegins == ASSUME Queue!Init PROVE Queue!TypeOK
<1>1. Queue!NoEvent \in Rows
  BY QueueConstants DEF Queue!NoEvent, Rows, Queue!Kinds
<1>2. queue \in [Queue!Ids -> Rows]
  BY <1>1 DEF Queue!Init
<1>3. \A e \in Queue!Ids : queue[e].status # "PROCESSING"
  BY DEF Queue!Init, Queue!NoEvent
<1>4. Queue!Of("PAYMENT", {"PROCESSING"}) = {}
  BY <1>3 DEF Queue!Of
<1> QED BY <1>2, <1>4 DEF Queue!TypeOK, Rows

(* No step leaves a payment under a lease.                                  *)
LEMMA QueueSteps ==
  ASSUME Queue!TypeOK, Queue!Next \/ UNCHANGED queue
  PROVE  Queue!TypeOK'
<1>0. queue \in [Queue!Ids -> Rows] /\ \A e \in Queue!Ids : ~(queue[e].kind = "PAYMENT" /\ queue[e].status = "PROCESSING")
  BY DEF Queue!TypeOK, Rows, Queue!Of
<1>1. ASSUME NEW kind \in Queue!Kinds, Queue!Enqueue(kind)
      PROVE  queue' \in [Queue!Ids -> Rows]
             /\ \A e \in Queue!Ids : ~(queue'[e].kind = "PAYMENT" /\ queue'[e].status = "PROCESSING")
  <2> DEFINE new == [kind |-> kind, status |-> "PENDING", age |-> 0]
  <2>1. PICK n \in Queue!Ids : queue' = [queue EXCEPT ![n] = new]
    BY <1>1 DEF Queue!Enqueue
  <2>2. new \in Rows /\ new.status = "PENDING"
    BY QueueConstants DEF Rows
  <2> HIDE DEF new
  <2> QED BY <1>0, <2>1, <2>2
<1>2. ASSUME Queue!Poll
      PROVE  queue' \in [Queue!Ids -> Rows]
             /\ \A e \in Queue!Ids : ~(queue'[e].kind = "PAYMENT" /\ queue'[e].status = "PROCESSING")
  <2>1. queue' = [e \in Queue!Ids |-> IF e \in Queue!Claimed THEN Queue!Handled(queue[e]) ELSE Queue!Older(queue[e])]
    BY <1>2 DEF Queue!Poll
  <2>2. ASSUME NEW e \in Queue!Ids
        PROVE  queue'[e] \in Rows /\ ~(queue'[e].kind = "PAYMENT" /\ queue'[e].status = "PROCESSING")
    <3>1. queue[e] \in Rows /\ ~(queue[e].kind = "PAYMENT" /\ queue[e].status = "PROCESSING")
      BY <1>0
    <3>2. queue'[e] = IF e \in Queue!Claimed THEN Queue!Handled(queue[e]) ELSE Queue!Older(queue[e])
      BY <2>1
    <3> QED BY <3>1, <3>2, HandledRow, OlderRow
  <2> QED BY <2>1, <2>2
<1>3. queue' \in [Queue!Ids -> Rows] /\ \A e \in Queue!Ids : ~(queue'[e].kind = "PAYMENT" /\ queue'[e].status = "PROCESSING")
  BY <1>0, <1>1, <1>2 DEF Queue!Next
<1>4. Queue!Of("PAYMENT", {"PROCESSING"})' = {}
  BY <1>3 DEF Queue!Of
<1> QED BY <1>3, <1>4 DEF Queue!TypeOK, Rows

-----------------------------------------------------------------------------
(* Of at least k numbers exactly k have fewer than k below them.            *)
LEMMA FirstFew ==
  ASSUME NEW m \in Nat, NEW S \in SUBSET (1..m), NEW k \in Nat, Cardinality(S) >= k
  PROVE  Cardinality({x \in S : Cardinality({y \in S : y < x}) < k}) = k
<1> DEFINE Below(x) == {y \in S : y < x}
           N == {x \in S : Cardinality(Below(x)) < k}
<1>0. IsFiniteSet(S) /\ S \subseteq Nat
  <2>1. IsFiniteSet(1..m)
    BY FS_Interval
  <2>2. IsFiniteSet(S)
    BY <2>1, FS_Subset
  <2> QED BY <2>2
<1>1. IsFiniteSet(N) /\ Cardinality(N) \in Nat /\ Cardinality(S) \in Nat
  BY <1>0, FS_Subset, FS_CardinalityType
<1>2. ASSUME NEW x \in S
      PROVE  IsFiniteSet(Below(x)) /\ Cardinality(Below(x)) \in Nat
  BY <1>0, FS_Subset, FS_CardinalityType
<1>3. Cardinality(N) <= k
  <2>1. CASE N = {}
    <3> HIDE DEF N
    <3>1. Cardinality(N) = 0
      BY <2>1, FS_EmptySet
    <3> QED BY <3>1
  <2>2. CASE N # {}
    <3> DEFINE D == {m - x : x \in N}
    <3>1. D \in SUBSET Nat /\ D # {}
      <4>1. \A x \in N : x \in 1..m
        OBVIOUS
      <4> HIDE DEF N
      <4>2. \A x \in N : m - x \in Nat
        BY <4>1
      <4> QED BY <2>2, <4>2
    <3>2. PICK d \in D : \A e \in D : ~(<<e, d>> \in OpToRel(<, Nat))
      BY <3>1, NatLessThanWellFounded, WFMin
    <3>3. PICK x \in N : d = m - x
      BY <3>2
    <3>4. ASSUME NEW y \in N \ {x} PROVE y \in Below(x)
      <4>1. m - y \in D /\ m - y \in Nat /\ d \in Nat
        BY <3>1, <3>4
      <4>2. ~(m - y < d)
        BY <3>2, <4>1 DEF OpToRel
      <4>3. x \in 1..m /\ y \in 1..m /\ y # x /\ y \in S
        BY <3>4
      <4> HIDE DEF N, D
      <4>4. y < x
        BY <3>3, <4>2, <4>3
      <4> QED BY <4>3, <4>4
    <3>5. IsFiniteSet(Below(x)) /\ Cardinality(Below(x)) \in Nat /\ Cardinality(Below(x)) < k
      BY <1>2
    <3>6. Cardinality(N \ {x}) <= Cardinality(Below(x))
      BY <3>4, <3>5, FS_Subset
    <3>7. Cardinality(N \ {x}) = Cardinality(N) - 1
      BY <1>1, <3>3, FS_RemoveElement
    <3> HIDE DEF N, Below
    <3> QED BY <1>1, <3>5, <3>6, <3>7
  <2> QED BY <2>1, <2>2
<1>4. Cardinality(N) >= k
  <2>1. CASE N = S
    BY <2>1
  <2>2. CASE N # S
    <3> DEFINE R == S \ N
    <3>1. R \in SUBSET Nat /\ R # {}
      BY <1>0, <2>2
    <3>2. PICK x \in R : \A e \in R : ~(<<e, x>> \in OpToRel(<, Nat))
      BY <3>1, NatLessThanWellFounded, WFMin
    <3>3. ASSUME NEW y \in Below(x) PROVE y \in N
      <4>1. y \in S /\ y < x /\ y \in Nat /\ x \in Nat
        BY <1>0, <3>2
      <4>2. y \notin R
        BY <3>2, <4>1 DEF OpToRel
      <4> QED BY <4>1, <4>2
    <3>4. x \in S /\ Cardinality(Below(x)) \in Nat /\ ~(Cardinality(Below(x)) < k)
      BY <1>2, <3>2
    <3>5. Cardinality(Below(x)) <= Cardinality(N)
      <4>1. Below(x) \subseteq N
        BY <3>3
      <4> HIDE DEF N, Below
      <4> QED BY <1>1, <4>1, FS_Subset
    <3> HIDE DEF N, Below
    <3> QED BY <1>1, <3>4, <3>5
  <2> QED BY <2>1, <2>2
<1> HIDE DEF N
<1>5. Cardinality(N) = k
  BY <1>1, <1>3, <1>4
<1> QED BY <1>5 DEF N

(* The library's Cardinality is the queue's.                                *)
LEMMA QueueCounts == \A S : Queue!Cardinality(S) = Cardinality(S)
BY DEF Queue!Cardinality, Cardinality

(* A poll touches just what it claims.                                      *)
LEMMA TouchedAreClaimed ==
  ASSUME Queue!TypeOK, Queue!Poll, NEW f \in Queue!Ids
  PROVE  (queue'[f].status # queue[f].status \/ queue'[f].age < queue[f].age) <=> f \in Queue!Claimed
<1>1. queue[f] \in Rows
  BY DEF Queue!TypeOK, Rows
<1>2. queue'[f] = IF f \in Queue!Claimed THEN Queue!Handled(queue[f]) ELSE Queue!Older(queue[f])
  BY DEF Queue!Poll
<1>3. queue[f].age \in Nat
  BY <1>1, QueueConstants DEF Rows
<1>4. CASE f \in Queue!Claimed
  <2>1. queue[f].status = "PENDING" \/ (queue[f].status = "PROCESSING" /\ queue[f].age >= Lease)
    BY <1>4 DEF Queue!Claimed, Queue!Claimable
  <2>2. queue'[f].status = (IF queue[f].kind = "PAYMENT" THEN "DONE" ELSE "PROCESSING") /\ queue'[f].age = 0
    BY <1>1, <1>2, <1>4, HandledRow
  <2>3. CASE queue[f].status = "PENDING"
    BY <1>4, <2>2, <2>3
  <2>4. CASE queue[f].status = "PROCESSING" /\ queue[f].age >= Lease
    <3>1. queue'[f].age < queue[f].age
      BY <1>3, <2>2, <2>4, QueueConstants
    <3> QED BY <1>4, <3>1
  <2> QED BY <2>1, <2>3, <2>4
<1>5. CASE f \notin Queue!Claimed
  <2>1. queue'[f].status = queue[f].status /\ queue'[f].age >= queue[f].age /\ queue'[f].age \in Nat
    BY <1>1, <1>2, <1>5, OlderRow, QueueConstants DEF Rows
  <2> QED BY <1>3, <1>5, <2>1
<1> QED BY <1>4, <1>5

(* An event that stays pending has as many claimed before it as workers.    *)
LEMMA WaitsForOlder ==
  ASSUME Queue!TypeOK, Queue!Poll, NEW e \in Queue!Ids,
         queue[e].status = "PENDING", queue'[e].status = "PENDING"
  PROVE  Queue!Cardinality({f \in 1..(e - 1) : \/ queue'[f].status # queue[f].status
                                               \/ queue'[f].age < queue[f].age}) = Workers
<1> DEFINE S == {f \in 1..(e - 1) : Queue!Claimable(f)}
           T == {f \in 1..(e - 1) : queue'[f].status # queue[f].status \/ queue'[f].age < queue[f].age}
           N == {x \in S : Cardinality({y \in S : y < x}) < Workers}
<1>1. e \in 1..MaxEvents /\ e \in Nat /\ e - 1 \in Nat /\ MaxEvents \in Nat
  BY QueueConstants DEF Queue!Ids
<1>2. \A f \in 1..(e - 1) : f \in Queue!Ids /\ f \in Nat
  BY <1>1 DEF Queue!Ids
<1>3. e \notin Queue!Claimed
  <2>1. queue[e] \in Rows
    BY DEF Queue!TypeOK, Rows
  <2>2. e \in Queue!Claimed => queue'[e] = Queue!Handled(queue[e])
    BY DEF Queue!Poll
  <2> QED BY <2>1, <2>2, HandledRow
<1>4. Queue!Claimable(e)
  BY DEF Queue!Claimable
<1>5. IsFiniteSet(S) /\ Cardinality(S) \in Nat
  <2>1. IsFiniteSet(1..(e - 1))
    BY <1>1, FS_Interval
  <2> QED BY <2>1, FS_Subset, FS_CardinalityType
<1>6. Cardinality(S) >= Workers
  <2>1. ~(Cardinality(S) < Workers)
    BY <1>3, <1>4, QueueCounts DEF Queue!Claimed
  <2> HIDE DEF S
  <2> QED BY <1>5, <2>1, QueueConstants
<1>7. T = N
  <2>1. ASSUME NEW f \in 1..(e - 1)
        PROVE  f \in T <=> f \in N
    <3>1. f \in T <=> f \in Queue!Claimed
      BY <1>2, <2>1, TouchedAreClaimed
    <3>2. {g \in 1..(f - 1) : Queue!Claimable(g)} = {y \in S : y < f}
      BY <1>1, <2>1
    <3>3. f \in Queue!Claimed <=> Queue!Claimable(f) /\ Cardinality({g \in 1..(f - 1) : Queue!Claimable(g)}) < Workers
      BY <1>2, QueueCounts DEF Queue!Claimed
    <3> QED BY <2>1, <3>1, <3>2, <3>3
  <2> QED BY <2>1
<1>8. Cardinality(N) = Workers
  <2>1. S \in SUBSET (1..(e - 1)) /\ Workers \in Nat
    BY QueueConstants
  <2> HIDE DEF S
  <2> QED BY <1>1, <1>6, <2>1, FirstFew
<1> QED BY <1>7, <1>8, QueueCounts

-----------------------------------------------------------------------------
(* The two parts together.                                                  *)
PartsInv == CallsInv /\ Queue!TypeOK

LEMMA PartsBegin == DeliveriesInit => PartsInv
BY CallsBegin, QueueBegins DEF DeliveriesInit, PartsInv

LEMMA PartsKeep == PartsInv /\ [DeliveriesNext]_allVars => PartsInv'
<1> SUFFICES ASSUME PartsInv, [DeliveriesNext]_allVars PROVE PartsInv'
  OBVIOUS
<1>1. [Next]_vars /\ (Queue!Next \/ UNCHANGED queue)
  BY DEF DeliveriesNext, allVars
<1> QED BY <1>1, CallsKeep, QueueSteps DEF PartsInv

LEMMA PartsStrong == DeliveriesSpec => []PartsInv
BY PartsBegin, PartsKeep, PTL DEF DeliveriesSpec

(* Whatever is repeated, lost or late, the provider carries each operation  *)
(* out at most once, because its key is the same every time                 *)
(* (payment_provider.js:35); and what a call returns to the worker was      *)
(* carried out, because no garbled or wrong answer passes the check of      *)
(* createPaymentProvider.                                                   *)
THEOREM CallsAreSound == DeliveriesSpec => []CallsSound
<1>1. PartsInv => CallsSound
  BY DEF PartsInv, CallsInv, CallsSound
<1> QED BY <1>1, PartsStrong, PTL

(* A poll that leaves a pending event pending was spent on older events, as *)
(* many as there are workers: nobody jumps the queue, although notifications *)
(* come back to it with every lease (repository/outbox.js                   *)
(* claimOutboxEvent).                                                       *)
THEOREM OlderEventsFirst == DeliveriesSpec => OldestFirst
<1>1. ASSUME PartsInv, [DeliveriesNext]_allVars PROVE [Queue!OvertakenByOlder]_queue
  <2>1. Queue!OvertakenByOlder
    BY <1>1, WaitsForOlder DEF PartsInv, Queue!OvertakenByOlder
  <2> QED BY <2>1
<1> QED BY <1>1, PartsStrong, PTL DEF DeliveriesSpec, OldestFirst, Queue!OldestFirst

=============================================================================
