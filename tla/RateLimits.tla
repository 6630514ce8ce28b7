----------------------------- MODULE RateLimits -----------------------------
(* The request limiter for one client: rate_limit.js behind observability.js *)
(* 83-86 and the three checks of app.js.  Every replica of the API counts in *)
(* one table ("postgres") or in a map of its own ("memory").                 *)
EXTENDS Integers, FiniteSets

CONSTANTS Replicas,    \* API processes behind the gateway
          Store,       \* config.rateLimitStore
          Traffic,     \* what this client sends: "auth", "other", "health"
          Limit,       \* per check: how many requests a window admits
          Window,      \* per check: how long a window is
          CleanupAge,  \* age at which rows are deleted: ten minutes
          MaxTime,     \* bound: the clock stops here
          PerTick      \* bound: requests between two ticks

Checks == {"auth", "general", "health"}

(* Windows may be configured up to an hour, far longer than rows live.      *)
RateLimitsAssumption ==
  /\ Limit \in [Checks -> Nat \ {0}] /\ Window \in [Checks -> Nat \ {0}]
  /\ CleanupAge \in Nat /\ MaxTime \in Nat /\ PerTick \in Nat
  /\ Store \in {"postgres", "memory"} /\ Traffic \subseteq {"auth", "other", "health"}

VARIABLES now,     \* the clock
          window,  \* per store and counter: when it began, requests since
          log,     \* history: requests each check admitted, by store and time
          left,    \* requests that may still come before the next tick
          refused  \* the check that refused the last request, or "none"

vars == <<now, window, log, left, refused>>

Stores == IF Store = "postgres" THEN {"shared"} ELSE Replicas
StoreOf(r) == IF Store = "postgres" THEN "shared" ELSE r

(* rateLimitHealth counts under the name of the general limiter.            *)
Counters == {"auth", "general"}
CounterOf(c) == IF c = "auth" THEN "auth" ELSE "general"

Times == 0..MaxTime
Absent == [start |-> 0, count |-> 0]

Init ==
  /\ now = 0 /\ left = PerTick /\ refused = "none"
  /\ window = [s \in Stores |-> [k \in Counters |-> Absent]]
  /\ log = [s \in Stores |-> [c \in Checks |-> [t \in Times |-> 0]]]

-----------------------------------------------------------------------------
Expired(w, length) == w.count = 0 \/ now - w.start >= length

(* consumeKey and consumeLocal: a window begins with the request that finds *)
(* none; later requests only count up.                                      *)
StartKept(w, length) ==   \* slip: the count is reset, the start is not moved
  IF Expired(w, length) THEN [w EXCEPT !.count = 1] ELSE [w EXCEPT !.count = @ + 1]
StartMoves(w, length) ==  \* slip: every request moves the start
  IF Expired(w, length) THEN [start |-> now, count |-> 1]
                        ELSE [start |-> now, count |-> w.count + 1]
RoundsUp(w, length) ==    \* slip: a window begins with the next tick
  IF Expired(w, length) THEN [start |-> now + 1, count |-> 1] ELSE [w EXCEPT !.count = @ + 1]
Consume(w, length) ==
  IF Expired(w, length) THEN [start |-> now, count |-> 1]
                        ELSE [w EXCEPT !.count = @ + 1]

After(windows, r, c) ==
  [windows EXCEPT ![StoreOf(r)][CounterOf(c)] = Consume(@, Window[c])]
Admits(windows, r, c) == After(windows, r, c)[StoreOf(r)][CounterOf(c)].count <= Limit[c]
Note(l, r, c) == [l EXCEPT ![StoreOf(r)][c][now] = @ + 1]

(* app.js: an auth request passes the auth check, then the general one.     *)
Request(r, kind) ==
  /\ left > 0 /\ left' = left - 1
  /\ IF kind = "auth" /\ ~Admits(window, r, "auth")
     THEN window' = After(window, r, "auth") /\ refused' = "auth" /\ UNCHANGED log
     ELSE LET first == IF kind = "auth" THEN After(window, r, "auth") ELSE window
              noted == IF kind = "auth" THEN Note(log, r, "auth") ELSE log
              check == IF kind = "health" THEN "health" ELSE "general"
          IN /\ window' = After(first, r, check)
             /\ IF Admits(first, r, check)
                THEN log' = Note(noted, r, check) /\ refused' = "none"
                ELSE log' = noted /\ refused' = check
  /\ UNCHANGED now

(* The five-minute timer of the table; the map is pruned by the length of   *)
(* the window that is being checked, when other clients have filled it.     *)
Cleanup ==
  /\ LET Old(w) == IF Store = "postgres" THEN now - w.start > CleanupAge
                   ELSE \E c \in Checks : now - w.start >= Window[c]
     IN window' = [s \in Stores |-> [k \in Counters |->
                     IF Old(window[s][k]) THEN Absent ELSE window[s][k]]]
  /\ window' # window
  /\ refused' = "none" /\ UNCHANGED <<now, log, left>>

Tick ==
  /\ now < MaxTime /\ now' = now + 1 /\ left' = PerTick
  /\ refused' = "none" /\ UNCHANGED <<window, log>>

Next == Tick \/ Cleanup \/ \E r \in Replicas, kind \in Traffic : Request(r, kind)

Spec == Init /\ [][Next]_vars

-----------------------------------------------------------------------------
Admitted(f, from, to) == UNION {{t} \X (1..f[t]) : t \in {u \in Times : from <= u /\ u <= to}}
Total(f, from, to) == Cardinality(Admitted(f, from, to))

(* The checks that count where c counts, as far as this client meets them.  *)
Sharing(c) == {d \in Checks : CounterOf(d) = CounterOf(c) /\ (d = "health" => "health" \in Traffic)}

(* Two windows that c counts in begin at least n apart: no check that counts *)
(* there has a shorter one, and none is cleaned up sooner.                   *)
Lasts(c, n) ==
  /\ \A d \in Sharing(c) : n <= Window[d]
  /\ IF Store = "postgres" THEN n <= CleanupAge + 1 ELSE \A d \in Checks : n <= Window[d]

(* What one store admitted under the name that c counts under.              *)
Together(s, c) == [t \in Times |-> IF c = "auth" THEN log[s]["auth"][t]
                                                 ELSE log[s]["general"][t] + log[s]["health"][t]]

(* Every variable keeps its type, and no window begins in the future.       *)
TypeOK ==
  /\ now \in Times /\ left \in 0..PerTick /\ refused \in Checks \cup {"none"}
  /\ window \in [Stores -> [Counters -> [start : Times, count : Nat]]]
  /\ log \in [Stores -> [Checks -> [Times -> Nat]]]
  /\ \A s \in Stores, k \in Counters : window[s][k].start <= now

(* In any stretch as long as its windows surely last each check admits at   *)
(* most twice its limit, per table or process: a window is cut short by the *)
(* clean-up, or by the shorter window of a check that shares its counter.   *)
WindowAdmits ==
  \A s \in Stores, c \in Checks, from, to \in Times :
    Lasts(c, to - from + 1) => Total(log[s][c], from, to) <= 2 * Limit[c]

(* Nobody is refused unless one store has, within the refusing check's      *)
(* window, admitted a whole limit under the name that it counts under - its *)
(* own limit, or that of the check that shares the name.                    *)
RefusalEarned ==
  refused # "none" => \E s \in Stores, d \in Sharing(refused) :
    Total(Together(s, refused), now - Window[refused] + 1, now) >= Limit[d]

-----------------------------------------------------------------------------
(* A statement of the repository that this code breaks (README, section 4). *)

(* app.js: 'Too many health probes' is said of health probes.               *)
ProbesRefuseProbes == refused = "health" => \E s \in Stores :
  Total(log[s]["health"], now - Window["health"] + 1, now) >= Limit["health"]
=============================================================================
