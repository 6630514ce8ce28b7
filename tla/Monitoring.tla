----------------------------- MODULE Monitoring -----------------------------
(* What one API process knows of its own health and tells the operators:    *)
(* the counters of observability.js, the thresholds of business_metrics.js,  *)
(* and the webhook of alerting.js, which the timer of server.js:22 tries     *)
(* once per tick (30 s).  Instants are kept as ages in ticks; an age beyond  *)
(* every limit is not told from a greater one.  Nothing survives the process.*)
EXTENDS Integers, Sequences, FiniteSets, FiniteSetsExt

CONSTANTS Kinds,       \* requests: their route, status and duration
          RouteCap,    \* ROUTE_STATS_CAP, 1000
          Window,      \* RECENT_WINDOW_MS, in ticks
          RecentCap,   \* RECENT_SAMPLE_CAP, 5000
          SampleCap,   \* LATENCY_SAMPLE_CAP, 2000
          Cooldown,    \* COOLDOWN_MS, in ticks
          Critical, Elevated, Slow,  \* thresholds in percent: 2, 1 and 20
          MaxRequests  \* bound: requests counted

Other == "__other__"

(* A key is a method and a path; no route is counted under "__other__" for    *)
(* what it is called.                                                         *)
MonitoringAssumption ==
  /\ \A n \in {RouteCap, Window, RecentCap, SampleCap, Cooldown, MaxRequests} : n \in Nat
  /\ \A k \in Kinds : k.route # Other /\ k.status \in Nat /\ k.ms \in Nat

VARIABLES total,    \* counters: requests, errors5xx, and those of 500 ms or more
          routes,   \* routeStats: requests and errors per key
          recent,   \* recentRequests, oldest first: the age of each
          samples,  \* latencySamples
          alerted,  \* lastFingerprint, {} for none, and the age of lastSentAt
          sending,  \* the alerts of a webhook call under way, or {}
          heard,    \* history: ages of the last delivery of each set of alerts
          past      \* history: the age and kind of all requests, oldest first

vars == <<total, routes, recent, samples, alerted, sending, heard, past>>

Codes == {"HTTP_5XX_RATE_HIGH", "HTTP_5XX_RATE_ELEVATED", "SLOW_REQUEST_RATE_HIGH"}
Last(s, n) == SubSeq(s, 1 + (IF Len(s) > n THEN Len(s) - n ELSE 0), Len(s))
Older(age, most) == IF age < most THEN age + 1 ELSE most

Init ==
  /\ total = [requests |-> 0, errors5xx |-> 0, slow |-> 0]
  /\ routes = [r \in {} |-> [requests |-> 0, errors |-> 0]]
  /\ recent = <<>> /\ samples = <<>> /\ past = <<>>
  /\ alerted = [what |-> {}, age |-> Cooldown] /\ sending = {}
  /\ heard = [a \in SUBSET Codes |-> Cooldown]

-----------------------------------------------------------------------------
(* pruneRecent, before a request is counted among the recent ones and before *)
(* they are looked at.                                                       *)
DropsOne(s) == \* slip: an if for the while
  Last(IF s # <<>> /\ s[1] > Window THEN Tail(s) ELSE s, RecentCap)
FirstKept(s) == Min({i \in DOMAIN s : s[i] <= Window} \cup {Len(s) + 1})
Pruned(s) == Last(SubSeq(s, FirstKept(s), Len(s)), RecentCap)

(* A route that finds the table full is counted under one key.               *)
Uncapped(route) == route \* slip: no __other__
KeyOf(route) ==
  IF route \notin DOMAIN routes /\ Cardinality(DOMAIN routes) >= RouteCap THEN Other ELSE route

FoldedAnew(key) == \* slip: the common key is never looked up
  IF key \in DOMAIN routes /\ key # Other THEN routes[key] ELSE [requests |-> 0, errors |-> 0]
Current(key) == IF key \in DOMAIN routes THEN routes[key] ELSE [requests |-> 0, errors |-> 0]

RecordRequest(k) ==
  LET key == KeyOf(k.route)
      old == Current(key)
      failed == IF k.status >= 400 THEN 1 ELSE 0
  IN
  /\ total.requests < MaxRequests
  /\ total' = [requests |-> total.requests + 1,
               errors5xx |-> total.errors5xx + (IF k.status >= 500 THEN 1 ELSE 0),
               slow |-> total.slow + (IF k.ms >= 500 THEN 1 ELSE 0)]
  /\ routes' = [r \in DOMAIN routes \cup {key} |->
       IF r = key THEN [requests |-> old.requests + 1, errors |-> old.errors + failed] ELSE routes[r]]
  /\ recent' = Pruned(Append(recent, 0)) /\ past' = Append(past, [age |-> 0, kind |-> k])
  /\ samples' = Last(Append(samples, k.ms), SampleCap)
  /\ UNCHANGED <<alerted, sending, heard>>

Sorted(s) ==
  LET order == CHOOSE f \in [DOMAIN s -> DOMAIN s] :
                 \A i, j \in DOMAIN s : i < j => f[i] # f[j] /\ s[f[i]] <= s[f[j]]
  IN [i \in DOMAIN s |-> s[order[i]]]

(* percentile: the sample whose place is the rounded-up share of their number. *)
Floor(n, p) == (p * n) \div 100 \* slip: rounded down
Place(n, p) == (p * n + 99) \div 100
Percentile(p) ==
  LET n == Len(samples)
      at == IF Place(n, p) < 1 THEN 1 ELSE IF Place(n, p) > n THEN n ELSE Place(n, p)
  IN IF n = 0 THEN 0 ELSE Sorted(samples)[at]

(* businessHealth, of all requests since the process began.                  *)
AtLeast(part, percent) == total.requests > 0 /\ part * 100 >= percent * total.requests
Alerts ==
  {c \in Codes :
     CASE c = "HTTP_5XX_RATE_HIGH" -> AtLeast(total.errors5xx, Critical)
       [] c = "HTTP_5XX_RATE_ELEVATED" -> AtLeast(total.errors5xx, Elevated) /\ ~AtLeast(total.errors5xx, Critical)
       [] c = "SLOW_REQUEST_RATE_HIGH" -> AtLeast(total.slow, Slow)}

(* The timer: a snapshot, and dispatchOperationalAlerts up to its fetch.  The *)
(* call before is over: alertWebhookTimeoutMs is shorter than a tick.         *)
AnyAge(age) == TRUE \* slip: what was told once is never told again
Cooling(age) == age < Cooldown

Tick ==
  LET age == Older(alerted.age, Cooldown) IN
  /\ sending = {}
  /\ recent' = Pruned([i \in DOMAIN recent |-> recent[i] + 1])
  /\ past' = [i \in DOMAIN past |-> [past[i] EXCEPT !.age = Older(@, Window + 1)]]
  /\ heard' = [a \in SUBSET Codes |-> IF Alerts = {} THEN Cooldown ELSE Older(heard[a], Cooldown)]
  /\ alerted' = [what |-> IF Alerts = {} THEN {} ELSE alerted.what, age |-> age]
  /\ sending' = IF alerted.what = Alerts /\ Cooling(age) THEN {} ELSE Alerts
  /\ UNCHANGED <<total, routes, samples>>

AgeKept(alerts) == [alerted EXCEPT !.what = alerts, \* slip: the time of a repetition is not noted
                                   !.age = IF alerted.what = alerts THEN @ ELSE 0]
Told(alerts) == [what |-> alerts, age |-> 0]

(* The webhook took the alerts and said so.                                   *)
Delivered ==
  /\ sending # {}
  /\ alerted' = Told(sending) /\ sending' = {}
  /\ heard' = [a \in SUBSET Codes |-> IF a = sending THEN 0 ELSE Cooldown]
  /\ UNCHANGED <<total, routes, recent, samples, past>>

(* Refused, unreachable, or no answer in time: the next tick tries again.     *)
DeliveryFails ==
  /\ sending # {} /\ sending' = {}
  /\ UNCHANGED <<total, routes, recent, samples, alerted, heard, past>>

Next == Tick \/ Delivered \/ DeliveryFails \/ \E k \in Kinds : RecordRequest(k)

(* The timer goes on, a call ends, and the webhook takes one now and then.    *)
Spec == /\ Init /\ [][Next]_vars
        /\ WF_vars(Tick) /\ WF_vars(Delivered \/ DeliveryFails) /\ SF_vars(Delivered)

-----------------------------------------------------------------------------
(* Every variable keeps its type, and the tables their sizes.                 *)
TypeOK ==
  /\ total \in [{"requests", "errors5xx", "slow"} -> 0..MaxRequests]
  /\ Cardinality(DOMAIN routes) <= RouteCap + 1
  /\ Len(recent) <= RecentCap /\ Len(samples) <= SampleCap
  /\ sending \subseteq Codes /\ alerted.what \subseteq Codes /\ alerted.age \in 0..Cooldown

(* The counters are of the requests that came, and the route table tells     *)
(* every route's own from those it had no room for: none is lost or counted   *)
(* twice (observability.js:49-70).                                            *)
Such(test(_)) == {i \in DOMAIN past : test(past[i].kind)}
OfRow(key) == Such(LAMBDA k : IF key = Other THEN k.route \notin DOMAIN routes ELSE k.route = key)
OfStatus(least) == Such(LAMBDA k : k.status >= least)
Lasting == Such(LAMBDA k : k.ms >= 500)
CountsAgree ==
  /\ total.requests = Len(past)
  /\ total.errors5xx = Cardinality(OfStatus(500)) /\ total.slow = Cardinality(Lasting)
  /\ \A key \in DOMAIN routes : /\ routes[key].requests = Cardinality(OfRow(key))
                               /\ routes[key].errors = Cardinality(OfRow(key) \cap OfStatus(400))
  /\ Other \notin DOMAIN routes => OfRow(Other) = {}

(* After every look recentRequests holds exactly the requests of the window,  *)
(* the latest RecentCap of them: recentHealth is of five minutes, however     *)
(* long nothing came.                                                         *)
Ages == [i \in DOMAIN past |-> past[i].age]
InWindow == {i \in DOMAIN past : past[i].age <= Window}
RecentIsExact ==
  [][Tick => recent' = Last(Last(Ages', Cardinality(InWindow')), RecentCap)]_vars

UpTo(v) == Cardinality({i \in DOMAIN samples : samples[i] <= v})

(* The percentiles are nearest ranks: the least sample that at least p        *)
(* percent of the samples do not exceed (observability.js:71-79).             *)
PercentilesAreRanks ==
  \A p \in {50, 95, 99} : samples # <<>> =>
    /\ UpTo(Percentile(p)) * 100 >= p * Len(samples)
    /\ UpTo(Percentile(p) - 1) * 100 < p * Len(samples)

(* One standing set of alerts is told once per cooldown, although it is       *)
(* looked at every tick and deliveries fail in between (alerting.js:17).      *)
CooldownKept == [][Delivered => heard[sending] >= Cooldown]_vars

(* Alerts that stand are told, and told again after every cooldown, as long   *)
(* as the webhook takes a call now and then.                                  *)
StandingIsTold == <>[](Alerts # {}) => []<>(Alerts # {} /\ heard[Alerts] = 0)
=============================================================================
