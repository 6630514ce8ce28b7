------------------------------ MODULE Requests ------------------------------
(* What one process does with the requests it is sent: the slots for         *)
(* multipart bodies (UploadParsers), the limiter (RateLimits), posting and   *)
(* listing jobs (JobForm), a vertical's attributes (Attributes) and the      *)
(* recommended jobs (Recommendation).  They share no state; a behaviour is   *)
(* of one of them, part, while the others stay as they began.  The limiter   *)
(* and the jobs come in several setups, each with clients and a store of its *)
(* own.                                                                      *)
EXTENDS UploadParsers

CONSTANTS LimitSetup,  \* by name: the replicas, store, traffic, limits and clock
          FormSetup,   \* by name: the users, categories, store, forms, bodies and queries
          WellFormedKeys, Verticals, Payloads, MaxLength, MaxAttributes,
          Jobs, Job, Applications, Contexts, Distance, Today, Decay, PageLimit, MaxRequests

VARIABLES part,
          now, window, log, left, refused,
          jobs, request, answer, list,
          vertical, payload, pos, out, verdict, first,
          published, apps, query, rows, scored, seen, busy, answers

limitVars == <<now, window, log, left, refused>>
formVars == <<jobs, request, answer, list>>
attributeVars == <<vertical, payload, pos, out, verdict, first>>
recommendVars == <<published, apps, query, rows, scored, seen, busy, answers>>

Limiter(s) == INSTANCE RateLimits WITH
  Replicas <- s.replicas, Store <- s.store, Traffic <- s.traffic, Limit <- s.limit, Window <- s.window,
  CleanupAge <- s.cleanupAge, MaxTime <- s.maxTime, PerTick <- s.perTick
Board(s) == INSTANCE JobForm WITH
  Users <- s.users, Categories <- s.categories, Sql <- s.sql, AppForms <- s.appForms,
  Bodies <- s.bodies, Queries <- s.queries, MaxJobs <- s.maxJobs
Attr == INSTANCE Attributes
Rec == INSTANCE Recommendation WITH Limit <- PageLimit

ASSUME RequestsAssumption ==
  /\ \A n \in DOMAIN LimitSetup : Limiter(LimitSetup[n])!RateLimitsAssumption
  /\ \A n \in DOMAIN FormSetup : Board(FormSetup[n])!JobFormAssumption
  /\ Attr!AttributesAssumption /\ Rec!RecommendationAssumption
  /\ {"uploads", "attributes", "recommend"} \cap (DOMAIN LimitSetup \cup DOMAIN FormSetup) = {}
  /\ DOMAIN LimitSetup \cap DOMAIN FormSetup = {}

Parts == {"uploads", "attributes", "recommend"} \cup DOMAIN LimitSetup \cup DOMAIN FormSetup

LimitsBegin ==
  \/ \E n \in DOMAIN LimitSetup : part = n /\ Limiter(LimitSetup[n])!Init
  \/ /\ part \notin DOMAIN LimitSetup
     /\ now = 0 /\ window = <<>> /\ log = <<>> /\ left = 0 /\ refused = "none"
FormsBegin ==
  \/ \E n \in DOMAIN FormSetup : part = n /\ Board(FormSetup[n])!Init
  \/ part \notin DOMAIN FormSetup /\ jobs = <<>> /\ request = <<>> /\ answer = <<>> /\ list = <<>>
AttributesBegin ==
  \/ part = "attributes" /\ Attr!Init
  \/ /\ part # "attributes"
     /\ vertical = <<>> /\ payload = <<>> /\ pos = 0 /\ out = <<>> /\ verdict = "none" /\ first = <<>>
RecommendBegins ==
  \/ part = "recommend" /\ Rec!Init
  \/ /\ part # "recommend"
     /\ published = {} /\ apps = {} /\ query = <<>> /\ rows = <<>>
     /\ scored = <<>> /\ seen = {} /\ busy = FALSE /\ answers = <<>>

RequestsInit == part \in Parts /\ Init /\ LimitsBegin /\ FormsBegin /\ AttributesBegin /\ RecommendBegins

allVars == <<part, vars, limitVars, formVars, attributeVars, recommendVars>>

Limiting(n) == part = n /\ Limiter(LimitSetup[n])!Next
Posting(n) == part = n /\ Board(FormSetup[n])!Next
Resting == UNCHANGED <<part, limitVars, formVars, attributeVars, recommendVars>>
RequestsNext ==
  \/ part = "uploads" /\ Next /\ Resting
  \/ (\E n \in DOMAIN LimitSetup : Limiting(n)) /\ UNCHANGED <<part, vars, formVars, attributeVars, recommendVars>>
  \/ (\E n \in DOMAIN FormSetup : Posting(n)) /\ UNCHANGED <<part, vars, limitVars, attributeVars, recommendVars>>
  \/ part = "attributes" /\ Attr!Next /\ UNCHANGED <<part, vars, limitVars, formVars, recommendVars>>
  \/ part = "recommend" /\ Rec!Next /\ UNCHANGED <<part, vars, limitVars, formVars, attributeVars>>

(* The fairness of UploadParsers, the one module here that needs some.       *)
RequestsSpec ==
  /\ RequestsInit /\ [][RequestsNext]_allVars
  /\ WF_allVars(part = "uploads" /\ Continue /\ Resting)
  /\ \A u \in Uploads : WF_allVars(part = "uploads" /\ Handle(u) /\ Resting)

-----------------------------------------------------------------------------
(* A check admits at most two limits in any stretch that its windows surely   *)
(* last, per table or process, and nobody is refused where no limit has been  *)
(* used up - with either store, windows of any length and probes that share   *)
(* a counter with the requests (rate_limit.js, observability.js 83-86).       *)
LimitsSound == \A n \in DOMAIN LimitSetup : part = n =>
  /\ Limiter(LimitSetup[n])!TypeOK
  /\ Limiter(LimitSetup[n])!RefusalEarned
  /\ Limiter(LimitSetup[n])!WindowAdmits

(* What is stored has passed every check of handleCreate, with its coercions; *)
(* it can be stored if its category is referred to by id; a form that the     *)
(* create page let through is not refused for what the page checked; and a    *)
(* list shows a job that is not published to its owner alone.                 *)
JobsSound == \A n \in DOMAIN FormSetup : part = n =>
  /\ Board(FormSetup[n])!TypeOK /\ Board(FormSetup[n])!StoredIsSound /\ Board(FormSetup[n])!NeverInternal
  /\ Board(FormSetup[n])!AppChecksEnough /\ Board(FormSetup[n])!ListsAreOwn

(* Where categories are named in one way, as on the arrays that the app's     *)
(* tests run on, who picks a category is shown its jobs: neither the server   *)
(* nor the app's own filter hides one (jobs_query_logic.dart filterJobs).     *)
PickedShown == \A n \in DOMAIN FormSetup :
  (part = n /\ Board(FormSetup[n])!OneWay) => Board(FormSetup[n])!CategoryShowsItsJobs
PickedAreShown == [][PickedShown]_allVars

(* Attributes that were accepted conform to their schema and are accepted     *)
(* again, unchanged unless one was cut at a blank, and the jobs vertical      *)
(* always comes out as {}.                                                    *)
AttributesSound == part = "attributes" =>
  Attr!TypeOK /\ Attr!Conforms /\ Attr!Normalised /\ Attr!JobsExempt

(* A score agrees with the rounded components that are shown with it, a page  *)
(* is of the best jobs that pass the filters, each once, and the same query   *)
(* on the same rows, no two of one moment, is answered with the same list.    *)
RankingSound == part = "recommend" =>
  /\ Rec!TypeOK /\ Rec!ScoreExplained /\ Rec!BestServed
  /\ Rec!MomentsDiffer => Rec!RankingDeterministic
=============================================================================
