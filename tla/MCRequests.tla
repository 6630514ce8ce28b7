----------------------------- MODULE MCRequests -----------------------------
(* Requests for TLC.                                                         *)
EXTENDS Requests, TLC

CONSTANTS r1, r2

-----------------------------------------------------------------------------
(* Limits: two replicas with a table, whose rows are deleted before the longer *)
(* window is over, and with a map each, which drops a window that is older     *)
(* than the shortest; and a table where health probes, of a shorter window and *)
(* a lower limit, count with the other requests.                               *)
Counting(store, traffic, general, cleanupAge, maxTime, perTick) ==
  [replicas |-> {r1, r2}, store |-> store, traffic |-> traffic,
   limit |-> [auth |-> 1, general |-> general, health |-> 1], window |-> [auth |-> 2, general |-> 3, health |-> 1],
   cleanupAge |-> cleanupAge, maxTime |-> maxTime, perTick |-> perTick]
MCLimitSetup == [table  |-> Counting("postgres", {"auth", "other"}, 2, 1, 4, 3),
                 memory |-> Counting("memory", {"auth", "other"}, 2, 1, 3, 2),
                 probes |-> Counting("postgres", {"other", "health"}, 3, 5, 3, 4)]

-----------------------------------------------------------------------------
(* Jobs: forms and bodies around one sound mission and one sound job, each    *)
(* different from it in up to two fields, so that every check is met alone    *)
(* and with another; lists of every status, kind and category.                *)
Sample == INSTANCE JobForm WITH Users <- {}, Categories <- {"tech", "craft"}, Sql <- TRUE,
  AppForms <- {}, Bodies <- {}, Queries <- {}, MaxJobs <- 0
Tech == <<"slug", "tech">>
TechId == <<"id", "tech">>
Craft == <<"slug", "craft">>
Mission == [kind |-> "MISSION", jobType |-> "FIXED", schedule |-> "", salary |-> Sample!NotSent, deadline |-> "",
            min |-> 1, max |-> 2, duration |-> 8, category |-> TechId, visibility |-> "PUBLIC"]
Position == [Mission EXCEPT !.kind = "JOB", !.jobType = "HOURLY", !.schedule = "FULL_TIME", !.salary = 50,
                            !.deadline = "day", !.visibility = "SPECIALIZED"]
Alternatives == [kind |-> {"", "JOB", "MISSION", "GIG"}, jobType |-> {"FIXED", "HOURLY", "OTHER"},
  schedule |-> {"", "FULL_TIME", "NIGHT"}, salary |-> {Sample!NotSent, Sample!NotMoney, 0, 50},
  deadline |-> {"", "day", "noday"}, min |-> {Sample!NotSent, Sample!FineMoney, 0, 1, 2},
  max |-> {Sample!NotSent, 1, 2, Sample!MaxMoney + 1}, duration |-> {Sample!NotSent, 0, 8, Sample!MaxDuration, Sample!MaxDuration + 1},
  category |-> {Sample!NoCategory, TechId, <<"slug", "gone">>}, visibility |-> {"", "PUBLIC", "HIDDEN"}]
Variants(b) == UNION {{[b EXCEPT ![f] = x, ![g] = y] : x \in Alternatives[f], y \in Alternatives[g]} :
                       f, g \in DOMAIN Alternatives}
MCForms == {[Mission EXCEPT !.category = c] : c \in {Tech, Craft, Sample!NoCategory}}
  \union {[b EXCEPT !.category = Tech, !.min = x, !.max = y, !.salary = s] :
            b \in {[Mission EXCEPT !.schedule = "FULL_TIME", !.duration = d] : d \in {0, 8, Sample!MaxDuration + 1}}
                  \union {[Position EXCEPT !.deadline = d] : d \in {"", "day"}},
            x \in {Sample!NotSent, Sample!NotMoney, 0, 1, 2}, y \in {0, 1, Sample!MaxMoney + 1},
            s \in {Sample!NotSent, 0, 50, Sample!FineMoney}}
SomeForms == {[Mission EXCEPT !.category = c] : c \in {Tech, Craft, <<"slug", "gone">>}}
  \union {[Position EXCEPT !.category = Tech]}
Query(status, kind, visibility, category, byApp) ==
  [status |-> status, kind |-> kind, visibility |-> visibility, category |-> category, byApp |-> byApp]
ListQueries == {Query(s, k, "", c, FALSE) : s \in {"PUBLISHED", "DRAFT"}, k \in {"", "JOB"}, c \in {Sample!NoCategory, TechId}}
AppQueries == {Query("PUBLISHED", k, "PUBLIC", c, TRUE) : k \in {"", "MISSION"}, c \in {Tech, Craft}}

MCBodies == Variants(Mission) \union Variants(Position)
Asking(users, sql, appForms, bodies, queries, maxJobs) ==
  [users |-> users, categories |-> {"tech", "craft"}, sql |-> sql, appForms |-> appForms,
   bodies |-> bodies, queries |-> queries, maxJobs |-> maxJobs]
MCFormSetup == [
  form   |-> Asking({"ann", "bob"}, FALSE, MCForms, {}, {}, 1),
  bodies |-> Asking({"ann"}, TRUE, {}, MCBodies, {}, 1),
  arrays |-> Asking({"ann"}, FALSE, SomeForms, {}, AppQueries, 2),
  lists  |-> Asking({"ann", "bob"}, TRUE, {}, {Mission, Position}, ListQueries, 2)]

-----------------------------------------------------------------------------
(* Attributes: strings of up to five characters against a limit of three, one *)
(* with a blank where it is cut; numbers, booleans, lists and an object, most *)
(* of which read as something else; schemas with every type, one with an      *)
(* empty option; and configs that are malformed or for jobs.                  *)
Value == INSTANCE Attributes WITH WellFormedKeys <- {}, Verticals <- {}, Payloads <- {}, MaxLength <- 3, MaxAttributes <- 3
Text(s) == Value!Val("string", "plain", 0, s)
Def(key, type, required) ==
  [key |-> key, type |-> type, required |-> required, range |-> 0..2, lengths |-> 1..3, options |-> {<<"x">>, <<"2">>}]
Config(defs, unknown) == [attributes |-> "list", defs |-> defs, allowUnknown |-> unknown]
Full == Config(<<Def("a", "int", TRUE), Def("b", "string", FALSE), Def("c", "enum", FALSE)>>, FALSE)
Other == Config(<<Def("a", "bool", FALSE), Def("b", "number", TRUE)>>, FALSE)
Options == Config(<<[Def("a", "enum", TRUE) EXCEPT !.options = {<<>>, <<"x">>}], Def("b", "enum", FALSE)>>, TRUE)
Bad == {Config(<<Def("a", "blob", FALSE)>>, TRUE), Config(<<Def("a", "int", FALSE), Def("a", "bool", FALSE)>>, TRUE),
        Config(<<[Def("a", "enum", FALSE) EXCEPT !.options = {}]>>, TRUE), Config(<<Def("Bad Key", "int", FALSE)>>, TRUE),
        [attributes |-> "object", defs |-> <<>>, allowUnknown |-> TRUE]}
MCVerticals == {[slug |-> "vehicles", config |-> c] : c \in {Full, Other, Options}}
  \union {[slug |-> s, config |-> c] : s \in {"jobs", "", "real_estate"}, c \in Bad \union {Other}}
  \union {[slug |-> "vehicles", config |-> [attributes |-> "missing", defs |-> <<>>, allowUnknown |-> TRUE]]}
MCValues == {Value!Absent, Text(<<" ">>), Text(<<"x">>), Text(<<" ", "x", " ">>), Text(<<"x", "x", "x", "x">>),
             Text(<<" ", "x", "x", " ", "x">>),
             Value!Val("string", "int", 1, <<"1">>), Value!Val("string", "half", 1, <<"1", ".", "5">>),
             Value!Val("string", "truth", 0, <<"f">>), Value!Val("number", "int", 2, <<"2">>),
             Value!Val("number", "int", 3, <<"3">>), Value!Val("number", "half", 2, <<"2", ".", "5">>),
             Value!Val("bool", "truth", 1, <<"t">>), Value!Val("list", "int", 0, <<>>),
             Value!Val("list", "plain", 0, <<" ", "x">>), Value!Val("list", "truth", 1, <<"t">>),
             Value!Val("object", "plain", 0, <<"o">>)}
MCPayloads == UNION {[K -> MCValues] : K \in {{}, {"a"}, {"a", "b"}, {"a", "c"}, {"b"}, {"a", "Bad Key"}}}

-----------------------------------------------------------------------------
(* Recommendation: four jobs in two categories and three cities, one of them   *)
(* remote, with salaries; the caller has applied for some of three of them.    *)
(* Every row has a moment of its own.                                          *)
J(words, category, city, kind, pay, updated) ==
  [words |-> words, category |-> category, city |-> city, kind |-> kind, pay |-> pay, updated |-> updated]
MCJob == [
  a |-> J({"dart", "mobile"}, "tech", "tehran", "JOB", 50, 180),
  b |-> J({"dart"}, "tech", "online", "JOB", 55, 90),
  c |-> J({"paint"}, "craft", "karaj", "MISSION", 200, 3),
  d |-> J({"paint"}, "craft", "karaj", "MISSION", 200, 0)]
MCApplications == {[skills |-> {"dart", "mobile", "ui"}, job |-> "a"], [skills |-> {"paint"}, job |-> "c"],
                   [skills |-> {"dart"}, job |-> "b"]}
MCContexts == [place : {"none", "home"}, city : {"none", "karaj"}, kind : {"none", "MISSION"},
               categoryId : {"none", "tech"}]
MCDistance == [home |-> [tehran |-> 4, karaj |-> 40], none |-> [tehran |-> 0]]
MCDecay == [d \in Nat |-> IF d <= 3 THEN 9672 ELSE IF d <= 90 THEN 3679 ELSE 1353]

-----------------------------------------------------------------------------
\* Somebody has to wait.
ASSUME MoreThanSlots == Cardinality(Uploads) > Max
=============================================================================
