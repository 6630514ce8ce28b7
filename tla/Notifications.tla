--------------------------- MODULE Notifications ---------------------------
(* One user's notifications: repository/notifications.js, the               *)
(* NOTIFICATION_DISPATCH branch of outbox_handlers.js and the retry loop of  *)
(* notification_provider.js.  The order in which events are claimed and the *)
(* lease's clock are OutboxQueue's subject: here a lease may run out at any *)
(* time and any unfinished event may be claimed.                            *)
EXTENDS Integers, FiniteSets

CONSTANTS Channels,     \* subset of {"IN_APP", "PUSH", "EMAIL"} the callers ask for
          Devices,      \* push tokens the user's phones present
          Address,      \* the user's e-mail address
          Workers,      \* outbox workers
          Requests,     \* requests that patch the preferences
          MaxNotes,     \* bound: rows of notifications
          MaxTries,     \* config.notificationMaxAttempts
          MaxAttempts,  \* config.outboxMaxAttempts
          None          \* no event, no lease

NotificationsAssumption ==
  /\ Channels \subseteq {"IN_APP", "PUSH", "EMAIL"} /\ Address \notin Devices
  /\ MaxNotes \in Nat
  /\ MaxTries \in Nat \ {0} /\ MaxAttempts \in Nat \ {0}
  /\ None \notin Workers

VARIABLES pref,      \* notification_preferences: the channels that are on
          note,      \* notifications rows
          event,     \* outbox rows, one for each notification and channel
          device,    \* notification_devices rows of the user
          work,      \* what each worker has claimed and has still to send
          request,   \* a patch that has read the preferences
          accepted,  \* external: idempotency keys the provider has acted on
          asked      \* history: what the committed patches asked for

vars == <<pref, note, event, device, work, request, accepted, asked>>

Notes == 1..MaxNotes
Events == Notes \X Channels
NoEvent == [status |-> "NONE", attempts |-> 0, lease |-> None]
Free == [pc |-> "idle", event |-> None, targets |-> {}, left |-> {}, tries |-> 0]
NoPatch == [pc |-> "idle", read |-> [ch \in Channels |-> TRUE], set |-> [ch \in {} |-> TRUE]]
SendKeys == Events \X (Devices \cup {Address})

Init ==
  /\ pref = [ch \in Channels |-> TRUE]
  /\ note = [n \in Notes |-> "none"]
  /\ event = [e \in Events |-> NoEvent]
  /\ device = [d \in Devices |-> "none"]
  /\ work = [w \in Workers |-> Free]
  /\ request = [q \in Requests |-> NoPatch]
  /\ accepted = {}
  /\ asked = [ch \in Channels |-> TRUE]

-----------------------------------------------------------------------------
(* queueNotification: the row and one event for each channel asked for, in  *)
(* one transaction; the preferences are not read.                           *)
QueueNotification ==
  /\ \E n \in Notes :
       /\ note[n] = "none" /\ \A m \in 1..(n - 1) : note[m] # "none"
       /\ note' = [note EXCEPT ![n] = "unread"]
       /\ event' = [e \in Events |-> IF e[1] = n THEN [NoEvent EXCEPT !.status = "PENDING"]
                                                 ELSE event[e]]
  /\ UNCHANGED <<pref, device, work, request, accepted, asked>>

MarkNotificationRead ==
  /\ \E n \in Notes : note[n] = "unread" /\ note' = [note EXCEPT ![n] = "read"]
  /\ UNCHANGED <<pref, event, device, work, request, accepted, asked>>

MarkAllNotificationsRead ==
  /\ note' = [n \in Notes |-> IF note[n] = "unread" THEN "read" ELSE note[n]]
  /\ UNCHANGED <<pref, event, device, work, request, accepted, asked>>

RegisterNotificationDevice ==
  /\ \E d \in Devices : device' = [device EXCEPT ![d] = "enabled"]
  /\ UNCHANGED <<pref, note, event, work, request, accepted, asked>>

DisableNotificationDevice ==
  /\ \E d \in Devices : device[d] = "enabled" /\ device' = [device EXCEPT ![d] = "disabled"]
  /\ UNCHANGED <<pref, note, event, work, request, accepted, asked>>

-----------------------------------------------------------------------------
(* updateNotificationPreferences reads the row, merges, and writes all of   *)
(* it back: two statements.                                                 *)
PatchRead(q) ==
  /\ request[q] = NoPatch
  /\ \E ch \in Channels, on \in BOOLEAN :
       request' = [request EXCEPT ![q] = [pc |-> "patching", read |-> pref, set |-> [c \in {ch} |-> on]]]
  /\ UNCHANGED <<pref, note, event, device, work, accepted, asked>>

MergeDefaults(row, patch) == \* a slip: what the patch leaves out goes back to its default
  [ch \in Channels |-> IF ch \in DOMAIN patch THEN patch[ch] ELSE TRUE]
Merge(row, patch) == [ch \in Channels |-> IF ch \in DOMAIN patch THEN patch[ch] ELSE row[ch]]

PatchWrite(q) ==
  /\ request[q].pc = "patching"
  /\ pref' = Merge(request[q].read, request[q].set)
  /\ asked' = [ch \in Channels |-> IF ch \in DOMAIN request[q].set THEN request[q].set[ch] ELSE asked[ch]]
  /\ request' = [request EXCEPT ![q] = NoPatch]
  /\ UNCHANGED <<note, event, device, work, accepted>>

-----------------------------------------------------------------------------
(* claimOutboxEvent: PENDING, or PROCESSING when the lease ran out.         *)
Claim(w, e) ==
  /\ work[w] = Free /\ event[e].status \in {"PENDING", "PROCESSING"}
  /\ event[e].attempts < MaxAttempts + 1  \* bound: successful claims go on counting
  /\ event' = [event EXCEPT ![e] = [status |-> "PROCESSING", attempts |-> @.attempts + 1, lease |-> w]]
  /\ work' = [work EXCEPT ![w] = [Free EXCEPT !.pc = "claimed", !.event = e]]
  /\ UNCHANGED <<pref, note, device, request, accepted, asked>>

(* The targets are listed once; without one, or for IN_APP, there is nothing*)
(* to send.                                                                 *)
TargetsOf(e) == CASE e[2] = "PUSH"   -> {d \in Devices : device[d] = "enabled"}
                  [] e[2] = "EMAIL"  -> {Address}
                  [] e[2] = "IN_APP" -> {}

ListTargets(w) ==
  /\ work[w].pc = "claimed"
  /\ LET targets == TargetsOf(work[w].event) IN
     work' = [work EXCEPT ![w].pc = "sending", ![w].targets = targets, ![w].left = targets]
  /\ UNCHANGED <<pref, note, event, device, request, accepted, asked>>

(* One attempt of deliverNotification's loop.  The provider may have acted  *)
(* although no answer came back.                                            *)
FirstOnly(w, t) == {} \* a slip: returns after the first target
LeftAfter(w, t) == work[w].left \ {t}

Delivered(w, t) ==
  /\ accepted' = accepted \cup {<<work[w].event, t>>}
  /\ work' = [work EXCEPT ![w].left = LeftAfter(w, t), ![w].tries = 0]
  /\ UNCHANGED <<pref, note, event, device, request, asked>>

OneTooMany(w) == work[w].tries < MaxTries \* a slip: attempts counted from zero
MayRetry(w) == work[w].tries + 1 < MaxTries

Unanswered(w, t) ==
  /\ accepted' \in {accepted, accepted \cup {<<work[w].event, t>>}}
  /\ work' = [work EXCEPT ![w].tries = @ + 1, ![w].pc = IF MayRetry(w) THEN "sending" ELSE "failed"]
  /\ UNCHANGED <<pref, note, event, device, request, asked>>

Send(w) ==
  /\ work[w].pc = "sending"
  /\ \E t \in work[w].left : Delivered(w, t) \/ Unanswered(w, t)

(* The provider refuses with a status that is not retried.                  *)
Refuse(w) ==
  /\ work[w].pc = "sending" /\ work[w].left # {}
  /\ work' = [work EXCEPT ![w].pc = "failed"]
  /\ UNCHANGED <<pref, note, event, device, request, accepted, asked>>

(* All targets served: the delivery is counted and the event left as it is. *)
Processed(w) ==
  /\ work[w].pc = "sending" /\ work[w].left = {}
  /\ work' = [work EXCEPT ![w].pc = "processed"]
  /\ UNCHANGED <<pref, note, event, device, request, accepted, asked>>

Forget(w) ==
  /\ work[w].pc = "processed"
  /\ work' = [work EXCEPT ![w] = Free]
  /\ UNCHANGED <<pref, note, event, device, request, accepted, asked>>

(* failOutboxEvent, which a worker whose lease was taken over leaves alone. *)
AnyLease(w, e) == TRUE \* a slip: lease_token is not compared
HoldsLease(w, e) == event[e].lease = w

FailOutboxEvent(w) ==
  LET e == work[w].event IN
  /\ work[w].pc = "failed"
  /\ event' = IF HoldsLease(w, e)
              THEN [event EXCEPT ![e] = [@ EXCEPT
                     !.status = IF event[e].attempts >= MaxAttempts THEN "FAILED" ELSE "PENDING",
                     !.lease = None]]
              ELSE event
  /\ work' = [work EXCEPT ![w] = Free]
  /\ UNCHANGED <<pref, note, device, request, accepted, asked>>

(* The process dies: what the worker had claimed waits for its lease.       *)
WorkerCrash(w) ==
  /\ work[w].pc \in {"claimed", "sending", "failed"}
  /\ work' = [work EXCEPT ![w] = Free]
  /\ UNCHANGED <<pref, note, event, device, request, accepted, asked>>

User == \/ MarkNotificationRead \/ MarkAllNotificationsRead
        \/ RegisterNotificationDevice \/ DisableNotificationDevice
        \/ \E q \in Requests : PatchRead(q) \/ PatchWrite(q)

Worker(w) == \/ \E e \in Events : Claim(w, e)
             \/ ListTargets(w) \/ Send(w) \/ Refuse(w) \/ Processed(w) \/ Forget(w)
             \/ FailOutboxEvent(w) \/ WorkerCrash(w)

Next == QueueNotification \/ User \/ \E w \in Workers : Worker(w)

Spec == Init /\ [][Next]_vars

-----------------------------------------------------------------------------
(* Every variable keeps its type; no worker sends a target more than        *)
(* MaxTries times in a row, and an event waits or has failed exactly when   *)
(* nobody holds its lease.                                                  *)
TypeOK ==
  /\ pref \in [Channels -> BOOLEAN] /\ asked \in [Channels -> BOOLEAN]
  /\ note \in [Notes -> {"none", "unread", "read"}]
  /\ event \in [Events -> [status : {"NONE", "PENDING", "PROCESSING", "FAILED"},
                           attempts : 0..(MaxAttempts + 1), lease : Workers \cup {None}]]
  /\ device \in [Devices -> {"none", "enabled", "disabled"}]
  /\ work \in [Workers -> [pc : {"idle", "claimed", "sending", "failed", "processed"},
                           event : Events \cup {None}, targets : SUBSET (Devices \cup {Address}),
                           left : SUBSET (Devices \cup {Address}), tries : 0..MaxTries]]
  /\ request \in [Requests -> [pc : {"idle", "patching"}, read : [Channels -> BOOLEAN],
                               set : UNION {[C -> BOOLEAN] : C \in SUBSET Channels}]]
  /\ accepted \subseteq SendKeys
  /\ \A e \in Events : (event[e].status = "PROCESSING") = (event[e].lease # None)

(* A dispatch counted as delivered reached every device (or the address)    *)
(* it had listed, however many attempts failed and workers died meanwhile.  *)
ProcessedReachedAll == \A w \in Workers :
  work[w].pc = "processed" => \A t \in work[w].targets : <<work[w].event, t>> \in accepted

(* A worker whose lease was taken over neither requeues nor dead-letters    *)
(* the event its successor is sending: a lease ends by its holder's failure *)
(* or by another claim.                                                     *)
StaleFailureStep == \A e \in Events, w \in Workers :
  event[e].lease = w /\ event'[e].lease = None => work[w].event = e /\ work'[w] # work[w]
StaleFailureHarmless == [][StaleFailureStep]_vars

(* notification-isolation-expanded.test.mjs: preferences patch atomically.  *)
(* When no patch is under way the row shows what every patch asked for.     *)
PatchesKept == (\A q \in Requests : request[q] = NoPatch) => pref = asked

-----------------------------------------------------------------------------
(* What the properties rest on.  A worker that is not idle has an event and *)
(* tries left; what it need not send any more was accepted; a notification  *)
(* that was not queued has no events to lease.                              *)
DispatchesSound ==
  /\ \A w \in Workers : work[w].pc # "idle" => work[w].event \in Events
  /\ \A w \in Workers : work[w].pc \in {"claimed", "sending"} => work[w].tries < MaxTries
  /\ \A w \in Workers : work[w].pc \in {"sending", "processed"} =>
       \A t \in work[w].targets \ work[w].left : <<work[w].event, t>> \in accepted
  /\ \A w \in Workers : work[w].pc = "processed" => work[w].left = {}
  /\ \A e \in Events : note[e[1]] = "none" => event[e].status = "NONE"

(* When patches follow each other, the one under way has read the row as it *)
(* still is.                                                                *)
PatchesInTurn ==
  /\ pref = asked
  /\ \A q \in Requests : request[q].pc = "patching" => request[q].read = pref

-----------------------------------------------------------------------------
(* A statement of the repository that this code breaks (README, section 4). *)

(* notification-channel-isolation.test.mjs:11: disabled notifications       *)
(* create no records.  With every channel off no notification is inserted.  *)
DisabledCreatesNothing == [][\A n \in Notes :
  note[n] = "none" /\ note'[n] # "none" => \E ch \in Channels : pref[ch]]_vars
=============================================================================
