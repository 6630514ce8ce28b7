------------------------------ MODULE JobForm -------------------------------
(* Posting and finding a job, from the app's form to its list: the create    *)
(* page validates the form and sends it, handleCreate checks the body and    *)
(* stores the draft, the app publishes it, and the jobs page asks handleList *)
(* for the jobs of a category and filters the answer once more.              *)
(*                                                                           *)
(* A category is referred to by its id or by its slug.  Texts other than the *)
(* ones that steer the checks are left out; an amount is in money's smallest *)
(* unit, with values below zero for what is no amount.                       *)
EXTENDS Integers, Sequences, FiniteSets, FiniteSetsExt

CONSTANTS Users, Categories,
          Sql,        \* the jobs table of PostgreSQL, or the arrays
          AppForms,   \* what is filled in on the create page
          Bodies,     \* what other clients post
          Queries,    \* what lists are asked for
          MaxJobs     \* bound: jobs ever posted

NotSent == -1      \* null, or the empty string
NotMoney == -2     \* no number
FineMoney == -3    \* a number with three decimals
MaxMoney == 100    \* 1 000 000 000
MaxDuration == 36500
Nothing == ""
References == {"id", "slug"} \X Categories
NoCategory == <<"none", "none">>

JobFormAssumption ==
  /\ \A b \in AppForms \cup Bodies : {b.salary, b.min, b.max, b.duration} \subseteq Int
  /\ \A q \in Queries : q.category \in References \cup {NoCategory}

VARIABLES jobs,    \* the stored jobs, oldest first
          request, \* by user: the body that is being handled, and how far
          answer,  \* by user: the last answer's status and code
          list     \* by user: the last list shown and what it was asked for
vars == <<jobs, request, answer, list>>

-----------------------------------------------------------------------------
(* The server's checks.  AnyCategory, SalaryOnly, NoOrder, NotNegative,      *)
(* StatusOnly and NameOnly differ from the code on purpose: each is the slip *)
(* that a property is to catch.                                              *)
IsMoney(x) == x \in 1..MaxMoney
KindOf(b) == IF b.kind # Nothing THEN b.kind ELSE IF b.jobType = "FIXED" THEN "MISSION" ELSE "JOB"
Sent(x) == x # NotSent
IsDate(x) == x = "day"
Enum(x, allowed) == x \in allowed

AnyCategory(b) == TRUE
CategoryExists(b) == b.category \in References
SalaryOnly(b) == Sent(b.salary)
JobOnlyFields(b) == Sent(b.salary) \/ b.deadline # Nothing \/ b.schedule # Nothing
NoOrder(b) == FALSE
BudgetOrder(b) == b.max < b.min
(* What fails of handleCreate's checks, in their order, and the codes that   *)
(* the body is refused with.                                                 *)
Codes == <<"VALIDATION_ERROR", "INVALID_FIELD", "INVALID_FIELD", "INVALID_FIELD", "INVALID_FIELD",
           "INVALID_SCHEDULE", "INVALID_AMOUNT", "INVALID_DEADLINE", "INVALID_SALARY", "INVALID_DEADLINE",
           "INVALID_KIND_FIELDS", "INVALID_AMOUNT", "INVALID_DURATION", "INVALID_BUDGET", "INVALID_CATEGORY">>
Failing(b) == {n \in 1..15 :
  \/ n = 1 /\ (b.category = NoCategory \/ ~Sent(b.min) \/ ~Sent(b.max) \/ ~Sent(b.duration))
  \/ n = 2 /\ ~Enum(b.jobType, {"FIXED", "HOURLY", "TASK"})
  \/ n = 3 /\ ~Enum(KindOf(b), {"MISSION", "JOB"})
  \/ n = 4 /\ ~Enum(b.visibility, {Nothing, "PUBLIC", "SPECIALIZED"})
  \/ n = 5 /\ ~Enum(b.schedule, {Nothing, "PART_TIME", "FULL_TIME"})
  \/ n = 6 /\ KindOf(b) = "JOB" /\ b.schedule = Nothing
  \/ n = 7 /\ Sent(b.salary) /\ ~IsMoney(b.salary)
  \/ n = 8 /\ b.deadline # Nothing /\ ~IsDate(b.deadline)
  \/ n = 9 /\ KindOf(b) = "JOB" /\ ~Sent(b.salary)
  \/ n = 10 /\ KindOf(b) = "JOB" /\ b.deadline = Nothing
  \/ n = 11 /\ KindOf(b) = "MISSION" /\ JobOnlyFields(b)
  \/ n = 12 /\ (~IsMoney(b.min) \/ ~IsMoney(b.max))
  \/ n = 13 /\ b.duration \notin 1..MaxDuration
  \/ n = 14 /\ BudgetOrder(b)
  \/ n = 15 /\ ~CategoryExists(b)}
Refusal(b) == Codes[Min(Failing(b))]

(* The jobs table: its CHECKs, and category_id a UUID that refers to a row.  *)
TableAccepts(j) == /\ j.min > 0 /\ j.max >= j.min /\ j.duration > 0
                   /\ j.category[1] = "id"
Stored(u, b) == [owner |-> u, kind |-> KindOf(b), schedule |-> b.schedule, salary |-> b.salary,
                 deadline |-> b.deadline, min |-> b.min, max |-> b.max, duration |-> b.duration,
                 category |-> b.category, status |-> "DRAFT",
                 visibility |-> IF b.visibility = Nothing THEN "PUBLIC" ELSE b.visibility]

-----------------------------------------------------------------------------
(* The app's form.  A JOB's budget is its salary and its duration is 30.     *)
Least(f) == IF f.kind = "JOB" THEN f.salary ELSE f.min
Most(f) == IF f.kind = "JOB" THEN f.salary ELSE f.max
Hours(f) == IF f.kind = "JOB" THEN 30 ELSE f.duration
Number(x) == x \notin {NotSent, NotMoney}
NotNegative(x) == x >= 0 \/ x = FineMoney
Positive(x) == x > 0 \/ x = FineMoney
HoursOk(h) == h \in 1..MaxDuration
AppAccepts(f) == /\ f.category # NoCategory
                 /\ Number(Least(f)) /\ Positive(Least(f)) /\ Number(Most(f)) /\ Positive(Most(f))
                 /\ Least(f) <= Most(f)
                 /\ HoursOk(Hours(f))
                 /\ f.kind = "JOB" => f.deadline # Nothing
BodyOf(f) == [kind |-> f.kind, jobType |-> IF f.kind = "MISSION" THEN "FIXED" ELSE "HOURLY",
              schedule |-> IF f.kind = "JOB" THEN f.schedule ELSE Nothing,
              salary |-> IF f.kind = "JOB" THEN f.salary ELSE NotSent,
              deadline |-> IF f.kind = "JOB" THEN f.deadline ELSE Nothing,
              min |-> Least(f), max |-> Most(f), duration |-> Hours(f),
              category |-> f.category, visibility |-> f.visibility]

-----------------------------------------------------------------------------
Idle == [at |-> "idle"]
NoAnswer == [status |-> 0, code |-> Nothing, form |-> Nothing, body |-> Nothing]
Init == /\ jobs = <<>>
        /\ request = [u \in Users |-> Idle]
        /\ answer = [u \in Users |-> NoAnswer]
        /\ list = [u \in Users |-> [at |-> "none"]]

Reply(u, status, code) == /\ request' = [request EXCEPT ![u] = Idle]
                          /\ answer' = [answer EXCEPT ![u] =
                               [status |-> status, code |-> code, form |-> request[u].form, body |-> request[u].body]]

(* The create page sends the form, or another client a body of its own. *)
Post(u, b, f) == /\ request[u] = Idle /\ Len(jobs) < MaxJobs
                 /\ request' = [request EXCEPT ![u] = [at |-> "posted", body |-> b, form |-> f]]
                 /\ answer' = [answer EXCEPT ![u] = NoAnswer]
                 /\ UNCHANGED <<jobs, list>>
Submit(u, f) == AppAccepts(f) /\ Post(u, BodyOf(f), "app")

Refuse(u) == /\ request[u].at = "posted" /\ Failing(request[u].body) # {}
             /\ Reply(u, 400, Refusal(request[u].body))
             /\ UNCHANGED <<jobs, list>>

(* createJob or insertJob, and the audit: the draft keeps the reference that *)
(* was sent, which the table refuses when it is no id of a category.         *)
Store(u) == LET b == request[u].body IN
  /\ request[u].at = "posted" /\ Failing(b) = {}
  /\ IF Sql /\ ~TableAccepts(Stored(u, b))
     THEN Reply(u, 500, "INTERNAL_ERROR") /\ UNCHANGED jobs
     ELSE Reply(u, 201, Nothing) /\ jobs' = Append(jobs, Stored(u, b))
  /\ UNCHANGED list

(* POST /jobs/:id/publish *)
Publish(u, n) == /\ n \in DOMAIN jobs /\ jobs[n].owner = u /\ jobs[n].status = "DRAFT"
                 /\ jobs' = [jobs EXCEPT ![n].status = "PUBLISHED"]
                 /\ UNCHANGED <<request, answer, list>>

-----------------------------------------------------------------------------
(* Lists *)
Mine(j, u) == j.owner = u
StatusOnly(j, q, u) == j.status = q.status
MayList(j, q, u) == j.status = q.status /\ (q.status = "PUBLISHED" \/ Mine(j, u))
(* SQL compares the row's id and its category's slug; the arrays the value   *)
(* that was stored, or the id that the filter's category has.                *)
OfCategory(j, ref) == \/ ref = NoCategory
                      \/ j.category = ref
                      \/ j.category[1] = "id" /\ ref[1] = "slug" /\ j.category[2] = ref[2]
Listed(u, q) == {n \in DOMAIN jobs : /\ MayList(jobs[n], q, u)
                                     /\ q.kind \in {Nothing, jobs[n].kind}
                                     /\ q.visibility \in {Nothing, jobs[n].visibility}
                                     /\ OfCategory(jobs[n], q.category)}
(* filterJobs: categoryId, or the display name, equals what was picked. *)
NameOnly(j, ref) == ref = NoCategory
KeptByApp(j, ref) == ref = NoCategory \/ j.category = ref

(* GET /jobs; the app filters the answer by what was picked. *)
Browse(u, q) == /\ list[u] = [at |-> "none"] /\ request[u] = Idle
                /\ list' = [list EXCEPT ![u] = [at |-> "shown", query |-> q,
                      jobs |-> {n \in Listed(u, q) : q.byApp => KeptByApp(jobs[n], q.category)}]]
                /\ UNCHANGED <<jobs, request, answer>>
(* GET /jobs/mine *)
BrowseMine(u) == /\ list[u] = [at |-> "none"] /\ request[u] = Idle
                 /\ list' = [list EXCEPT ![u] = [at |-> "mine", jobs |-> {n \in DOMAIN jobs : Mine(jobs[n], u)}]]
                 /\ UNCHANGED <<jobs, request, answer>>
Leave(u) == /\ list[u] # [at |-> "none"] /\ list' = [list EXCEPT ![u] = [at |-> "none"]]
            /\ UNCHANGED <<jobs, request, answer>>

Next == \E u \in Users :
  \/ \E f \in AppForms : Submit(u, f)
  \/ \E b \in Bodies : Post(u, b, Nothing)
  \/ Refuse(u) \/ Store(u)
  \/ \E n \in 1..MaxJobs : Publish(u, n)
  \/ \E q \in Queries : Browse(u, q)
  \/ BrowseMine(u) \/ Leave(u)
Spec == Init /\ [][Next]_vars

-----------------------------------------------------------------------------
TypeOK == /\ jobs \in Seq([owner : Users, kind : {"JOB", "MISSION"}, schedule : {Nothing, "PART_TIME", "FULL_TIME"},
                            salary : Int, deadline : {Nothing, "day"}, min : Int, max : Int, duration : Int,
                            category : References, status : {"DRAFT", "PUBLISHED"},
                            visibility : {"PUBLIC", "SPECIALIZED"}])
          /\ \A u \in Users : /\ request[u] = Idle \/ request[u].at = "posted"
                              /\ answer[u].status \in {0, 201, 400, 500}
                              /\ list[u].at # "none" => list[u].jobs \subseteq DOMAIN jobs

(* Whatever was posted, a stored job is one of the two kinds and has the     *)
(* fields of its kind only: the checks of handleCreate (job_handlers.js:     *)
(* 54-69), in their order and with their coercions, leave no way around.     *)
Sound(j) == /\ IsMoney(j.min) /\ IsMoney(j.max) /\ j.min <= j.max /\ j.duration \in 1..MaxDuration
            /\ j.kind = "JOB" <=> j.schedule # Nothing
            /\ j.kind = "JOB" <=> IsMoney(j.salary)
            /\ j.kind = "JOB" <=> j.deadline = "day"
StoredIsSound == \A n \in DOMAIN jobs : Sound(jobs[n])

(* The create page's checks are the server's: a form that it sends is never  *)
(* refused for what it checked (create_job_validator.dart:36-66, "Match that *)
(* here so the error shows up immediately instead of after a failed          *)
(* submit").  It does not look at decimals, the largest amount and the date. *)
(* The page offers kinds, schedules and categories to choose from.           *)
Offered(b) == /\ b.kind \in {"JOB", "MISSION"}
              /\ b.kind = "JOB" => b.schedule \in {"PART_TIME", "FULL_TIME"}
              /\ b.visibility \in {"PUBLIC", "SPECIALIZED"} /\ b.deadline \in {Nothing, "day", "noday"}
              /\ b.category \in References
Unchecked(b) == FineMoney \in {b.min, b.max, b.salary} \/ b.max > MaxMoney \/ b.deadline = "noday"
AppChecksEnough == \A u \in Users :
  (answer[u].form = "app" /\ answer[u].status = 400 /\ Offered(answer[u].body)) => Unchecked(answer[u].body)

(* What passes every check of handleCreate can be stored: nothing that was   *)
(* posted is answered 500, but a category that is referred to by its slug,   *)
(* which the check takes and the table does not.                             *)
NeverInternal == \A u \in Users : answer[u].status = 500 => answer[u].body.category[1] = "slug"

(* A list shows a job that is not published to its owner alone               *)
(* (job_handlers.js:17-26).                                                  *)
ListsAreOwn == \A u \in Users : list[u].at # "none" =>
  \A n \in list[u].jobs : jobs[n].status = "PUBLISHED" \/ Mine(jobs[n], u)

(* Whether forms, bodies and lists name categories in one way, by id or slug. *)
OneWay == \A b \in AppForms \cup Bodies, q \in Queries :
  NoCategory \notin {b.category, q.category} => b.category[1] = q.category[1]

(* Picking a category shows its jobs: those that were published before the   *)
(* jobs page asked, by whatever client, and match the other filters          *)
(* (jobs_query_logic.dart:62-71).                                            *)
CategoryShowsItsJobs == \A u \in Users, q \in Queries : (Browse(u, q) /\ q.byApp) =>
  \A n \in DOMAIN jobs :
    (/\ jobs[n].status = "PUBLISHED" /\ q.status = "PUBLISHED"
     /\ q.kind \in {Nothing, jobs[n].kind} /\ q.visibility \in {Nothing, jobs[n].visibility}
     /\ jobs[n].category[2] = q.category[2]) => n \in list'[u].jobs
=============================================================================
