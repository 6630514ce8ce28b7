--------------------------- MODULE Recommendation ---------------------------
(* GET /jobs/recommended: recommendedJobs of app.js reads the caller's       *)
(* applications and the published jobs that pass the filters, scores the     *)
(* jobs one by one in the order the database returned them, sorts them and   *)
(* answers the first Limit.                                                  *)
(*                                                                           *)
(* A component's value, 0..1 in the code, is in ten-thousandths (Full is 1), *)
(* a weight and a multiplier in hundredths.  The view that the route scores  *)
(* has no skills, experience and workMode fields, so that experience is      *)
(* always 0 and the work mode depends on the city alone.                     *)
EXTENDS Integers, Sequences, FiniteSets

CONSTANTS Jobs,          \* ids of the published jobs
          Job,           \* their rows: words, category, city, kind, pay, updated
          Applications,  \* the caller's: their skills and the job applied for
          Contexts,      \* queries: place, city, kind, categoryId
          Distance,      \* kilometres, by place and by city with coordinates
          Today, Decay,  \* Decay[d]: exp(-d/90) for a job d days old
          Limit,         \* 50 in the code
          MaxRequests    \* bound: the times the query is made

Full == 10000
None == "none"
Online == "online"
Half == Full \div 2
Values == 0..Full
Abs(x) == IF x < 0 THEN -x ELSE x
Unclamped(x) == x
Capped(x) == IF x > Full THEN Full ELSE x
(* Number(x.toFixed(n)): x counted in units of 1/d of the last kept digit. *)
Rounded(x, d) == (x + d \div 2) \div d

Weights == [skills |-> 20, category |-> 15, experience |-> 15, location |-> 10, workMode |-> 10,
            salary |-> 10, preference |-> 10, behavior |-> 5, freshness |-> 5]
Scores == [DOMAIN Weights -> Values]

RecommendationAssumption ==
  /\ \A j \in Jobs : /\ Job[j].pay \in Nat /\ Job[j].updated \in Int
                     /\ Job[j].updated >= Today \/ Decay[Today - Job[j].updated] \in Values
  /\ IsFiniteSet(Jobs) /\ IsFiniteSet(Applications)
  /\ \A a \in Applications : a.job \in Jobs /\ IsFiniteSet(a.skills)
  /\ Today \in Int /\ Limit \in Nat \ {0} /\ MaxRequests \in Nat

VARIABLES published,  \* the jobs with status PUBLISHED
          apps,       \* the caller's applications
          query,      \* what was asked
          rows,       \* the jobs as the database returned them
          scored,     \* what the loop has pushed
          seen,       \* seenCategories
          busy,       \* a request is under way
          answers     \* the lists that were served
vars == <<published, apps, query, rows, scored, seen, busy, answers>>

-----------------------------------------------------------------------------
(* The candidate's profile, from the applications *)
JobsOf(as) == {a.job : a \in as}
(* Only a JOB has a monthly salary; a MISSION is weighed by its budget. *)
Salaries(as) == {Job[j].pay : j \in {k \in JobsOf(as) : Job[k].kind = "JOB"}} \ {0}
ProfileOf(as) == [
  skills |-> UNION {a.skills : a \in as},
  categories |-> {Job[j].category : j \in JobsOf(as)},
  kinds |-> {Job[j].kind : j \in JobsOf(as)},
  salaries |-> {r \in Salaries(as) \X Salaries(as) : \A s \in Salaries(as) : r[1] <= s /\ s <= r[2]},
  interactions |-> Cardinality(as)]

Overlap(a, b) ==
  LET most == IF Cardinality(a) < 8 THEN Cardinality(a) ELSE 8
  IN IF a = {} THEN 0 ELSE Capped((Cardinality(a \cap b) * Full) \div most)
Near(km) == CASE km <= 5 -> Full [] km > 5 /\ km <= 20 -> 8500 [] km > 20 /\ km <= 60 -> 6000
              [] km > 60 /\ km <= 150 -> 2500 [] OTHER -> 0
Location(job, q) ==
  IF q.place # None /\ job.city \in DOMAIN Distance[q.place] THEN Near(Distance[q.place][job.city])
  ELSE IF q.city # None /\ job.city = q.city THEN Full
  ELSE IF job.city = Online THEN 5500 ELSE 0
WorkMode(job) == IF job.city = Online THEN 5500 ELSE 4000
(* The distance to the middle of the salaries, lo + hi being twice it. *)
Salary(job, p) ==
  IF job.pay = 0 \/ p.salaries = {} THEN Half
  ELSE LET both == CHOOSE s \in p.salaries : TRUE
           twice == both[1] + both[2]
       IN Full - Capped((Abs(2 * job.pay - twice) * Full) \div twice)
Freshness(job) == IF job.updated >= Today THEN Full ELSE Decay[Today - job.updated]
Category(job, p) == IF job.category \in p.categories THEN Full ELSE 0

ScoresOf(job, p, q) == [
  skills |-> Overlap(p.skills, job.words),
  category |-> Category(job, p),
  experience |-> 0,
  location |-> Location(job, q),
  workMode |-> WorkMode(job),
  salary |-> Salary(job, p),
  preference |-> IF q.categoryId = job.category THEN Full ELSE Category(job, p),
  behavior |-> (Capped(p.interactions * 1000) + (IF job.kind \in p.kinds THEN Full ELSE Half)) \div 2,
  freshness |-> Freshness(job)]

Weighted(s) ==
  Weights.skills * s.skills + Weights.category * s.category + Weights.experience * s.experience
  + Weights.location * s.location + Weights.workMode * s.workMode + Weights.salary * s.salary
  + Weights.preference * s.preference + Weights.behavior * s.behavior + Weights.freshness * s.freshness

SeenBefore(job, cs) ==
  IF \E n \in DOMAIN answers : \E k \in DOMAIN answers[n] : Job[answers[n][k].job].category = job.category
  THEN 85 ELSE 100
DiversityPenalty(job, cs) == IF job.category \in cs THEN 85 ELSE 100
(* componentScores: v * 100 with one decimal. *)
WholePoints(v) == (v \div 100) * 100
ShownValue(v) == Rounded(v, 10) * 10
Shown(s) == [c \in DOMAIN s |-> ShownValue(s[c])]
(* |score - scoreByComponents| > 0.05 throws: five units of v, times the     *)
(* hundredths of the weights and of the multiplier.                          *)
Explained(s, shown, penalty) == Abs(Weighted(s) * penalty - Weighted(shown) * penalty) <= 5 * 100 * 100
ScoreOf(s, penalty) == Rounded(Weighted(s) * penalty, Full)

-----------------------------------------------------------------------------
(* The operators that differ from the code on purpose, each the slip a       *)
(* property is to catch: Unclamped, WholePoints, SeenBefore, CutFirst.       *)
Matches(j, q) == /\ q.kind \in {None, Job[j].kind}
                 /\ q.categoryId \in {None, Job[j].category}
Chosen == {j \in published : Matches(j, query)}
(* ORDER BY updated_at DESC: rows of one moment come in any order. *)
Listings(S) == {s \in [1..Cardinality(S) -> S] :
  /\ \A i, k \in DOMAIN s : i # k => s[i] # s[k]
  /\ \A i, k \in DOMAIN s : i < k => Job[s[i]].updated >= Job[s[k]].updated}

Init == /\ published \in SUBSET Jobs /\ apps \in SUBSET Applications /\ query \in Contexts
        /\ rows = <<>> /\ scored = <<>> /\ seen = {} /\ busy = FALSE /\ answers = <<>>

(* The request reads the applications and the rows. *)
Ask == /\ ~busy /\ Len(answers) < MaxRequests
       /\ rows' \in Listings(Chosen)
       /\ scored' = <<>> /\ seen' = {} /\ busy' = TRUE
       /\ UNCHANGED <<published, apps, query, answers>>

Item(j) ==
  LET s == ScoresOf(Job[j], ProfileOf(apps), query)
      penalty == DiversityPenalty(Job[j], seen)
  IN [job |-> j, scores |-> s, shown |-> Shown(s), penalty |-> penalty, score |-> ScoreOf(s, penalty)]

(* One turn of the loop; seenCategories is passed on and never added to. *)
ScoreNext ==
  /\ busy /\ Len(scored) < Len(rows)
  /\ scored' = Append(scored, Item(rows[Len(scored) + 1]))
  /\ UNCHANGED <<published, apps, query, rows, seen, busy, answers>>

ByScoreOnly(a, b) == b.score - a.score
Compare(a, b) == IF a.score # b.score THEN b.score - a.score ELSE Job[b.job].updated - Job[a.job].updated
(* Array.prototype.sort keeps the order of what compares equal. *)
Ahead(s, i, k) == Compare(s[i], s[k]) < 0 \/ (Compare(s[i], s[k]) = 0 /\ i < k)
PlaceOf(s, k) == 1 + Cardinality({i \in DOMAIN s : Ahead(s, i, k)})
Sorted(s) == [n \in DOMAIN s |-> s[CHOOSE k \in DOMAIN s : PlaceOf(s, k) = n]]
First(s) == SubSeq(s, 1, IF Len(s) < Limit THEN Len(s) ELSE Limit)
CutFirst(s) == Sorted(First(s))
Page(s) == First(Sorted(s))

Serve == /\ busy /\ Len(scored) = Len(rows)
         /\ answers' = Append(answers, Page(scored))
         /\ busy' = FALSE
         /\ UNCHANGED <<published, apps, query, rows, scored, seen>>

Next == Ask \/ ScoreNext \/ Serve
Spec == Init /\ [][Next]_vars

-----------------------------------------------------------------------------
Items == [job : Jobs, scores : Scores, shown : Scores, penalty : {85, 100}, score : 0..Full]
(* A score is between 0 and 100 points and so is each of its components, as  *)
(* shown and as weighed (recommendation-system.test.mjs:26).                 *)
TypeOK == /\ published \subseteq Jobs /\ apps \subseteq Applications /\ query \in Contexts
          /\ rows \in Seq(Jobs) /\ scored \in Seq(Items) /\ answers \in Seq(Seq(Items))
          /\ seen \subseteq {Job[j].category : j \in Jobs} /\ busy \in BOOLEAN

(* The score that the loop computes always agrees with the rounded           *)
(* components it shows, so that scoreRecommendation never throws             *)
(* 'Recommendation score invariant violated' and answers 500                 *)
(* (recommendation.js:106): the roundings of the nine components, weighed,   *)
(* stay within 0.05 points whatever the profile, the job and the penalty.    *)
ScoreExplained == \A n \in DOMAIN scored : Explained(scored[n].scores, scored[n].shown, scored[n].penalty)

(* A page is of the best: no job that passes the filters and is left out     *)
(* compares before one that is served, a page stops short of Limit only when *)
(* all are on it, and no job is on it twice (app.js:324, 328).               *)
BestServed == (~busy /\ answers # <<>>) =>
  LET page == answers[Len(answers)]
      served == {page[n].job : n \in DOMAIN page}
  IN /\ Cardinality(served) = Len(page)
     /\ Len(page) < Limit => served = Chosen
     /\ \A k \in DOMAIN scored, n \in DOMAIN page :
          scored[k].job \notin served => Compare(page[n], scored[k]) <= 0
     /\ \A n, m \in DOMAIN page : n < m => Compare(page[n], page[m]) <= 0

(* 'Ranking is deterministic after score ties' (README.md:155): the same     *)
(* query on the same rows is answered with the same list.                    *)
MomentsDiffer == \A j, k \in Jobs : j # k => Job[j].updated # Job[k].updated
RankingDeterministic == \A n, m \in DOMAIN answers : answers[n] = answers[m]

-----------------------------------------------------------------------------
(* A statement of the repository that this code breaks (README, section 4). *)

(* 'Recommendation scoring now applies freshness decay and category          *)
(* diversity penalties' (README.md:155): of two jobs of one category the one *)
(* that is scored second is penalised.                                       *)
DiversityApplied == \A n, m \in DOMAIN scored :
  (n < m /\ Job[scored[n].job].category = Job[scored[m].job].category) => scored[m].penalty < 100
=============================================================================
