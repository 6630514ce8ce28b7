------------------------------ MODULE ApiServer -----------------------------
(* One API process from accepting requests to its exit: app.js handle,      *)
(* server.js, db/runtime.js and the rate limiter's query.  What a route does *)
(* is a few transactions and an answer.                                      *)
EXTENDS Integers, FiniteSets

CONSTANTS Requests,
          Path,         \* per request: "live", "ready", "auth" or "api"
          Workers,      \* outbox worker loops
          SharedLimits, \* RATE_LIMIT_STORE=postgres
          MaxTx,        \* bound: transactions of one route
          MaxWork,      \* bound: events a worker loop takes
          MaxSignals    \* bound: SIGINT and SIGTERM received

ApiServerAssumption ==
  /\ Path \in [Requests -> {"live", "ready", "auth", "api"}]
  /\ SharedLimits \in BOOLEAN /\ Requests \cap Workers = {}
  /\ {MaxTx, MaxWork, MaxSignals} \subseteq Nat

VARIABLES db,      \* whether the database answers in time
          server,  \* what is left of the process
          exit,    \* its exit code
          req,     \* per request: where handle() is, its transactions, whether
                   \* its client still waits, and the answer
          worker,  \* per loop: what it does, and events taken
          clients, \* who holds a connection of the pool
          ended,   \* pool.end() was called
          signals

vars == <<db, server, exit, req, worker, clients, ended, signals>>
process == <<server, exit, signals>>

Waiting == {"auth limit", "general limit", "handler", "transaction", "caught"}
Unanswered == {r \in Requests : req[r].pc \in Waiting /\ req[r].connected}
Reachable == db = "up" /\ ~ended

Init ==
  /\ db = "up" /\ server = "running" /\ exit = -1 /\ signals = 0
  /\ req = [r \in Requests |-> [pc |-> "out", tx |-> 0, connected |-> TRUE, answer |-> 0]]
  /\ worker = [w \in Workers |-> [pc |-> "idle", taken |-> 0]]
  /\ clients = {} /\ ended = FALSE

Goto(r, l) == req' = [req EXCEPT ![r].pc = l]
Respond(r, status) == req' = [req EXCEPT ![r].pc = "done", ![r].answer = status]
Alive == server # "exited"
At(r, l) == Alive /\ req[r].pc = l

-----------------------------------------------------------------------------
(* handle().  The limiters stand before the try: a query of theirs that     *)
(* fails rejects the promise nobody awaits, and Node ends the process.       *)
Arrive(r) ==
  /\ server = "running" /\ At(r, "out")
  /\ Goto(r, CASE Path[r] = "live" -> "handler"
               [] Path[r] = "auth" -> "auth limit"
               [] OTHER -> "general limit")
  /\ UNCHANGED <<db, process, worker, clients, ended>>

LimiterAnswers(r) ==
  /\ At(r, "auth limit") \/ At(r, "general limit")
  /\ SharedLimits => Reachable
  /\ \/ Goto(r, IF req[r].pc = "auth limit" THEN "general limit" ELSE "handler")
     \/ Respond(r, 429)
  /\ UNCHANGED <<db, process, worker, clients, ended>>

LimiterRejects(r) ==
  /\ At(r, "auth limit") \/ At(r, "general limit")
  /\ SharedLimits /\ ~Reachable
  /\ server' = "exited" /\ exit' = 1
  /\ UNCHANGED <<db, req, worker, clients, ended, signals>>

AnswerLive(r) ==
  /\ At(r, "handler") /\ Path[r] = "live"
  /\ Respond(r, 200)
  /\ UNCHANGED <<db, process, worker, clients, ended>>

(* databaseHealth gives its query two seconds and turns a failure into 503. *)
AnswerReady(r) ==
  /\ At(r, "handler") /\ Path[r] = "ready"
  /\ Respond(r, IF Reachable THEN 200 ELSE 503)
  /\ UNCHANGED <<db, process, worker, clients, ended>>

IsRoute(r) == Path[r] \in {"auth", "api"}

BeginTransaction(r) ==
  /\ At(r, "handler") /\ IsRoute(r) /\ req[r].tx < MaxTx
  /\ IF Reachable
       THEN /\ req' = [req EXCEPT ![r].pc = "transaction", ![r].tx = @ + 1]
            /\ clients' = clients \cup {r}
       ELSE Goto(r, "caught") /\ UNCHANGED clients
  /\ UNCHANGED <<db, process, worker, ended>>

(* COMMIT, or the error and its ROLLBACK; the connection goes back either   *)
(* way.                                                                      *)
EndTransaction(r) ==
  /\ At(r, "transaction")
  /\ Goto(r, IF db = "up" THEN "handler" ELSE "caught")
  /\ clients' = clients \ {r}
  /\ UNCHANGED <<db, process, worker, ended>>

AnswerRoute(r) ==
  /\ At(r, "handler") /\ IsRoute(r)
  /\ \E status \in {200, 400} : Respond(r, status)
  /\ UNCHANGED <<db, process, worker, clients, ended>>

OwnStatus(r) == \* slip: the error's own status, which a database error has none of
  /\ At(r, "caught")
  /\ Respond(r, -1)
  /\ UNCHANGED <<db, process, worker, clients, ended>>

AnswerError(r) ==
  /\ At(r, "caught")
  /\ Respond(r, 500)
  /\ UNCHANGED <<db, process, worker, clients, ended>>

(* The client gives up; the handler goes on without it.                      *)
Disconnect(r) ==
  /\ Alive /\ req[r].pc \in Waiting /\ req[r].connected
  /\ req' = [req EXCEPT ![r].connected = FALSE]
  /\ UNCHANGED <<db, process, worker, clients, ended>>

-----------------------------------------------------------------------------
(* A worker loop: claim in one transaction, call the provider without one,  *)
(* complete in another.  An error ends the round, not the loop; stop() only *)
(* keeps it from beginning another round.                                    *)
Step(w, l) == worker' = [worker EXCEPT ![w].pc = l]

Claim(w) ==
  /\ Alive /\ worker[w].pc = "idle" /\ worker[w].taken < MaxWork
  /\ Reachable
  /\ worker' = [worker EXCEPT ![w].pc = "claim", ![w].taken = @ + 1]
  /\ clients' = clients \cup {w}
  /\ UNCHANGED <<db, process, req, ended>>

WorkerCommits(w) ==
  /\ Alive /\ worker[w].pc \in {"claim", "complete"}
  /\ Step(w, IF worker[w].pc = "claim" /\ db = "up" THEN "call" ELSE "idle")
  /\ clients' = clients \ {w}
  /\ UNCHANGED <<db, process, req, ended>>

Complete(w) ==
  /\ Alive /\ worker[w].pc = "call"
  /\ IF Reachable THEN Step(w, "complete") /\ clients' = clients \cup {w}
                  ELSE Step(w, "idle") /\ UNCHANGED clients
  /\ UNCHANGED <<db, process, req, ended>>

StopWorkers == worker' = [w \in Workers |->
  IF worker[w].pc = "idle" THEN [worker[w] EXCEPT !.pc = "stopped"] ELSE worker[w]]

WorkerStops(w) ==
  /\ Alive /\ ended /\ worker[w].pc = "idle"
  /\ Step(w, "stopped")
  /\ UNCHANGED <<db, process, req, clients, ended>>

-----------------------------------------------------------------------------
(* Shutdown.  server.close stops listening and calls back once every        *)
(* connection is gone; a server that is closed already calls back at once.  *)
CloseDatabase == ended' = TRUE /\ StopWorkers /\ server' = "ending"

SignalTwice == \* slip: no shuttingDown flag; the second close calls back at once
  /\ Alive /\ signals < MaxSignals /\ signals' = signals + 1
  /\ CASE server = "running" -> server' = "closing" /\ UNCHANGED <<worker, ended>>
       [] server = "closing" -> CloseDatabase
       [] OTHER -> UNCHANGED <<server, worker, ended>>
  /\ UNCHANGED <<db, exit, req, clients>>

Signal ==
  /\ Alive /\ signals < MaxSignals /\ signals' = signals + 1
  /\ server' = IF server = "running" THEN "closing" ELSE server
  /\ UNCHANGED <<db, exit, req, worker, clients, ended>>

Drained ==
  /\ server = "closing" /\ Unanswered = {}
  /\ CloseDatabase
  /\ UNCHANGED <<db, exit, req, clients, signals>>

NotAwaited == \* slip: db.close() is not awaited
  /\ server = "ending"
  /\ server' = "exited" /\ exit' = 0
  /\ UNCHANGED <<db, req, worker, clients, ended, signals>>

(* pool.end() waits for the connections that are out.                        *)
Closed ==
  /\ server = "ending" /\ clients = {}
  /\ server' = "exited" /\ exit' = 0
  /\ UNCHANGED <<db, req, worker, clients, ended, signals>>

WhenDrained == \* slip: the hard exit is armed in the callback of close
  /\ server = "ending"
  /\ server' = "exited" /\ exit' = 1
  /\ UNCHANGED <<db, req, worker, clients, ended, signals>>

TenSeconds ==
  /\ server \in {"closing", "ending"}
  /\ server' = "exited" /\ exit' = 1
  /\ UNCHANGED <<db, req, worker, clients, ended, signals>>

DatabaseChanges ==
  /\ Alive
  /\ db' = IF db = "up" THEN "down" ELSE "up"
  /\ UNCHANGED <<process, req, worker, clients, ended>>

Handle(r) ==
  \/ Arrive(r) \/ LimiterAnswers(r) \/ LimiterRejects(r)
  \/ AnswerLive(r) \/ AnswerReady(r) \/ AnswerRoute(r) \/ AnswerError(r)
  \/ BeginTransaction(r) \/ EndTransaction(r) \/ Disconnect(r)
Loop(w) == Claim(w) \/ WorkerCommits(w) \/ Complete(w) \/ WorkerStops(w)

Next ==
  \/ \E r \in Requests : Handle(r)
  \/ \E w \in Workers : Loop(w)
  \/ Signal \/ Drained \/ Closed \/ TenSeconds \/ DatabaseChanges

(* Timers fire.  Nothing is assumed of the database or of the clients.       *)
Spec == Init /\ [][Next]_vars /\ WF_vars(TenSeconds)

-----------------------------------------------------------------------------
TypeOK ==
  /\ db \in {"up", "down"} /\ exit \in {-1, 0, 1} /\ signals \in 0..MaxSignals
  /\ server \in {"running", "closing", "ending", "exited"}
  /\ req \in [Requests -> [pc : Waiting \cup {"out", "done"}, tx : 0..MaxTx,
                           connected : BOOLEAN, answer : {0, 200, 400, 429, 500, 503}]]
  /\ worker \in [Workers -> [pc : {"idle", "claim", "call", "complete", "stopped"}, taken : 0..MaxWork]]
  /\ clients \subseteq Requests \cup Workers /\ ended \in BOOLEAN

(* The exit code says 0 only when no client was left without an answer and  *)
(* no transaction was cut off (server.js shutdown, db.js close).             *)
CleanExit == exit = 0 => Unanswered = {} /\ clients = {}

(* The pool is not ended under a request whose client still waits: no       *)
(* request is refused or fails because of the shutdown it began before.      *)
PoolServesRequests == ended => Unanswered = {}

(* A process that was told to stop stops, whatever the database, the        *)
(* clients and the workers do (server.js setTimeout).                        *)
ShutdownEnds == (signals > 0) ~> (server = "exited")

-----------------------------------------------------------------------------
(* A statement of the repository that this code breaks (README, section 4). *)

(* backend/tests/health-contract.test.mjs calls the liveness endpoint       *)
(* independent from database readiness: nothing but a signal keeps it from   *)
(* answering.                                                                *)
LiveIsIndependent ==
  server = "exited" /\ signals = 0 => \A r \in Unanswered : Path[r] # "live"
=============================================================================
