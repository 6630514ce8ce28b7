---------------------------- MODULE ProviderCall ----------------------------
(***************************************************************************)
(* The HTTP calls of one payment's outbox events to the payment provider's *)
(* facade (payment_provider.js): up to MaxAttempts requests per call, each *)
(* with its timeout, repeated only after an answer or an error that may be *)
(* temporary, and the check of the answer.  An outbox event may be claimed *)
(* again and by a second worker whose predecessor still waits, so calls of *)
(* one operation overlap.  A request that timed out may still arrive.      *)
(*                                                                         *)
(* The facade is external: either one that keeps one stored answer per     *)
(* operation and key, as the adapter's comment asks for, or the staging    *)
(* simulator of this repository, which keeps one per key.                  *)
(***************************************************************************)
EXTENDS Naturals, FiniteSets

CONSTANTS Callers,       \* workers
          MaxAttempts,   \* PAYMENT_PROVIDER_MAX_ATTEMPTS
          MaxCalls,      \* bound: calls of all workers together
          Staging        \* the facade is the staging simulator

ASSUME CallAssumption == MaxAttempts \in Nat \ {0} /\ MaxCalls \in Nat /\ Staging \in BOOLEAN

Operations == {"createHold", "releaseHold", "refundHold"}

\* A key of its own for every request.  (Slip of KeyOf.)
FreshKey(op) == "none"
\* The idempotency-key header: the release's payload carries the payment's own
\* key, which is the one its hold was created with; a refund has another.
KeyOf(op) == IF op = "refundHold" THEN "refund key" ELSE "fund key"

\* A facade's normal answer to an operation.  Only the simulator's release
\* lacks the reference.
Answer(op) ==
    CASE op = "createHold"  -> [status |-> "HELD", refs |-> {"providerRef"}]
      [] op = "releaseHold" -> [status |-> "RELEASED",
                                refs |-> IF Staging THEN {} ELSE {"releaseRef"}]
      [] op = "refundHold"  -> [status |-> "REFUNDED", refs |-> {"refundRef"}]
Garbage == [status |-> "?", refs |-> {}]
NoAnswer == [status |-> "-", refs |-> {}]

\* Any parsed body will do.  (Slip of Valid.)
AnyBody(op, reply) == reply \in {Answer(o) : o \in Operations} \cup {Garbage}
Valid(op, reply) ==
    CASE op = "createHold"  -> reply.status = "HELD" /\ "providerRef" \in reply.refs
      [] op = "releaseHold" -> reply.status = "RELEASED" /\ "releaseRef" \in reply.refs
      [] op = "refundHold"  -> reply.status = "REFUNDED" /\ "refundRef" \in reply.refs

VARIABLES pc,        \* "idle", "sent", "answered", "temporary", "refused"
          op, attempt, reply,  \* of the caller's call
          calls,     \* calls made so far
          late,      \* requests given up on that may still arrive
          stored,    \* the facade: the answer it keeps per operation and key
          effects,   \* the facade: how often it carried an operation out
          confirmed  \* operations that the worker was told are done

vars == <<pc, op, attempt, reply, calls, late, stored, effects, confirmed>>

Keys == {"fund key", "refund key"}
Slot(o) == IF Staging THEN "any" ELSE o

Init == /\ pc = [c \in Callers |-> "idle"]
        /\ op = [c \in Callers |-> "createHold"]
        /\ attempt = [c \in Callers |-> 0]
        /\ reply = [c \in Callers |-> NoAnswer]
        /\ calls = 0
        /\ late = {}
        /\ stored = [p \in (Operations \cup {"any"}) \X Keys |-> NoAnswer]
        /\ effects = [o \in Operations |-> 0]
        /\ confirmed = {}

\* A release and a refund exclude each other: module PaymentLifecycle.
OtherEndBegun(o) == \E p \in Operations \ {"createHold", o} :
                        \/ effects[p] > 0 \/ p \in late
                        \/ \E d \in Callers : pc[d] # "idle" /\ op[d] = p

\* processOutboxEvent on a claim, again after a failure or a lost lease.
Call(c, o) == /\ pc[c] = "idle"
              /\ calls < MaxCalls
              /\ o # "createHold" => "createHold" \in confirmed /\ ~OtherEndBegun(o)
              /\ pc' = [pc EXCEPT ![c] = "sent"]
              /\ op' = [op EXCEPT ![c] = o]
              /\ attempt' = [attempt EXCEPT ![c] = 1]
              /\ calls' = calls + 1
              /\ UNCHANGED <<reply, late, stored, effects, confirmed>>

\* External: the facade takes a request, answers from what it stored under the
\* key, or carries the operation out and stores the answer.
Kept(o) == stored[<<Slot(o), KeyOf(o)>>]
Known(o) == KeyOf(o) \in Keys /\ Kept(o) # NoAnswer
FacadeAnswer(o) == IF Known(o) THEN Kept(o) ELSE Answer(o)
FacadeTakes(o) ==
    /\ effects' = IF Known(o) THEN effects ELSE [effects EXCEPT ![o] = @ + 1]
    /\ stored' = IF Known(o) \/ KeyOf(o) \notin Keys THEN stored
                 ELSE [stored EXCEPT ![<<Slot(o), KeyOf(o)>>] = Answer(o)]

\* A 200 from the facade, or one with a body that is none of its answers, from
\* something in between.
Answered(c) == /\ pc[c] = "sent"
               /\ pc' = [pc EXCEPT ![c] = "answered"]
               /\ \/ FacadeTakes(op[c]) /\ reply' = [reply EXCEPT ![c] = FacadeAnswer(op[c])]
                  \/ UNCHANGED <<stored, effects>> /\ reply' = [reply EXCEPT ![c] = Garbage]
               /\ UNCHANGED <<op, attempt, calls, late, confirmed>>

\* 429, 502, 503, 504, a connection error: carried out or not; or the timeout,
\* after which the request may be taken late.
Temporary(c) == /\ pc[c] = "sent"
                /\ pc' = [pc EXCEPT ![c] = "temporary"]
                /\ \/ FacadeTakes(op[c]) /\ UNCHANGED late
                   \/ late' = late \cup {op[c]} /\ UNCHANGED <<stored, effects>>
                /\ UNCHANGED <<op, attempt, reply, calls, confirmed>>

\* Any other status.
Refused(c) == /\ pc[c] = "sent"
              /\ pc' = [pc EXCEPT ![c] = "refused"]
              /\ UNCHANGED <<op, attempt, reply, calls, late, stored, effects, confirmed>>

TakenLate(o) == /\ o \in late
                /\ late' = late \ {o}
                /\ FacadeTakes(o)
                /\ UNCHANGED <<pc, op, attempt, reply, calls, confirmed>>

\* One request more than allowed.  (Slip of Repeat.)
OneTooMany(c) == /\ pc[c] = "temporary"
                 /\ attempt[c] <= MaxAttempts
                 /\ pc' = [pc EXCEPT ![c] = "sent"]
                 /\ attempt' = [attempt EXCEPT ![c] = @ + 1]
                 /\ UNCHANGED <<op, reply, calls, late, stored, effects, confirmed>>
\* Counting starts over with every request.  (Slip of Repeat.)
RepeatForEver(c) == /\ pc[c] = "temporary"
                    /\ pc' = [pc EXCEPT ![c] = "sent"]
                    /\ attempt' = [attempt EXCEPT ![c] = 1]
                    /\ UNCHANGED <<op, reply, calls, late, stored, effects, confirmed>>
Repeat(c) == /\ pc[c] = "temporary"
             /\ attempt[c] < MaxAttempts
             /\ pc' = [pc EXCEPT ![c] = "sent"]
             /\ attempt' = [attempt EXCEPT ![c] = @ + 1]
             /\ UNCHANGED <<op, reply, calls, late, stored, effects, confirmed>>

\* The call throws, or returns an answer that passed the check.
Ended(c) == /\ pc' = [pc EXCEPT ![c] = "idle"]
            /\ reply' = [reply EXCEPT ![c] = NoAnswer]
            /\ UNCHANGED <<op, attempt, calls, late, stored, effects>>
Throw(c) == /\ \/ pc[c] = "temporary" /\ attempt[c] = MaxAttempts
               \/ pc[c] = "refused"
               \/ pc[c] = "answered" /\ ~Valid(op[c], reply[c])
            /\ Ended(c)
            /\ UNCHANGED confirmed
Return(c) == /\ pc[c] = "answered"
             /\ Valid(op[c], reply[c])
             /\ Ended(c)
             /\ confirmed' = confirmed \cup {op[c]}

Next == \/ \E c \in Callers : \/ \E o \in Operations : Call(c, o)
                              \/ Answered(c) \/ Temporary(c) \/ Refused(c)
                              \/ Repeat(c) \/ Throw(c) \/ Return(c)
        \/ \E o \in Operations : TakenLate(o)

\* AbortSignal.timeout ends every request, and the adapter goes on.
Fairness == \A c \in Callers : WF_vars(Answered(c) \/ Temporary(c) \/ Refused(c)
                                        \/ Repeat(c) \/ Throw(c) \/ Return(c))
Spec == Init /\ [][Next]_vars /\ Fairness

-----------------------------------------------------------------------------
TypeOK == /\ pc \in [Callers -> {"idle", "sent", "answered", "temporary", "refused"}]
          /\ op \in [Callers -> Operations]
          /\ attempt \in [Callers -> 0..MaxAttempts]
          /\ late \in SUBSET Operations
          /\ effects \in [Operations -> Nat]
          /\ confirmed \in SUBSET Operations

\* Money moves once: however often requests, calls and claims are repeated,
\* overlap, time out or arrive late, the provider carries each operation out at
\* most once (the key of payment_provider.js:35 stays the same).
OnceAtProvider == \A o \in Operations : effects[o] <= 1

\* The worker is told of nothing that the provider did not do.
ConfirmedWasDone == \A o \in confirmed : effects[o] > 0

\* All of the above in every state, for either facade.
CallsSound == TypeOK /\ OnceAtProvider /\ ConfirmedWasDone

\* A call comes to an end, so that the worker's lease is not held for ever.
CallEnds == \A c \in Callers : pc[c] = "sent" ~> pc[c] = "idle"

-----------------------------------------------------------------------------
\* A statement of the repository that this code breaks (README, section 4).

\* staging/providers/README.md:7: what the simulator answers to a release is
\* taken for one.
ReleaseIsTaken == \A c \in Callers : pc[c] = "answered" /\ op[c] = "releaseHold"
                                     /\ reply[c] # Garbage => Valid("releaseHold", reply[c])
=============================================================================
