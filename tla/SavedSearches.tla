---------------------------- MODULE SavedSearches ---------------------------
(* Saved searches on the server: the SQL of repository/saved_searches.js or *)
(* the arrays of application/legacy/saved_search_legacy.js, behind          *)
(* routes/saved_search_routes.js.  The filters a search consists of are left *)
(* out.                                                                      *)
EXTENDS Integers, FiniteSets, FiniteSetsExt

CONSTANTS Users, Names, \* names as lower(name) compares them
          Uuids, Texts, \* ids that are UUIDs, and ids that are not
          None,
          Sql,          \* DATABASE_URL is set
          Limit,        \* 20 in the code
          Requests,     \* requests under way at the same time
          MaxClock      \* bound: saves and deletions

SavedSearchesAssumption ==
  /\ Sql \in BOOLEAN /\ Limit \in Nat \ {0} /\ MaxClock \in Nat
  /\ Uuids \cap Texts = {} /\ None \notin Uuids \cup Texts \cup Users
  /\ IsFiniteSet(Names) /\ IsFiniteSet(Requests)

VARIABLES rows,   \* the user's searches: records of id, user, name and updated_at
          clock,  \* NOW()
          req,    \* per request: where it is, its user, and the rows its trim chose
          answer, \* per request: what the last answer was about, and its status
          saved   \* history: when a user last saved a name; 0 once it was
                  \* deleted, or the limit's worth of others were saved since

vars == <<rows, clock, req, answer, saved>>

Ids == Uuids \cup Texts
Of(u) == {x \in rows : x.user = u}

Init ==
  /\ rows = {} /\ clock = 0
  /\ req = [r \in Requests |-> [pc |-> "idle", user |-> None, old |-> {}]]
  /\ answer = [r \in Requests |-> [op |-> "none", found |-> FALSE, status |-> 0]]
  /\ saved = [u \in Users |-> [n \in Names |-> 0]]

(* ORDER BY updated_at DESC LIMIT 20                                         *)
Newest(s, k) == {x \in s : Cardinality({y \in s : y.at > x.at}) < k}

Answer(r, op, found, status) ==
  answer' = [answer EXCEPT ![r] = [op |-> op, found |-> found, status |-> status]]
Tick == clock < MaxClock /\ clock' = clock + 1

Remember(u, n, kept) ==
  LET f == [m \in Names |-> IF m = n THEN clock' ELSE IF m \in kept THEN saved[u][m] ELSE 0] IN
    saved' = [saved EXCEPT ![u] =
      [m \in Names |-> IF Cardinality({k \in Names : f[k] > f[m]}) < Limit THEN f[m] ELSE 0]]

-----------------------------------------------------------------------------
(* PUT: one statement inserts, or updates the row of that name; an id that  *)
(* is no UUID or that another row has makes it fail.                         *)
Upsert(u, i, n) ==
  LET hit == {x \in Of(u) : x.name = n} IN
    (rows \ hit) \cup
      {[id |-> IF hit = {} THEN i ELSE (CHOOSE x \in hit : TRUE).id,
        user |-> u, name |-> n, at |-> clock']}

NameOnly(u, i, n) == i \in Texts \* slip: no primary key besides the name

Refused(u, i, n) ==
  \/ i \in Texts
  \/ (\A x \in Of(u) : x.name # n) /\ \E x \in rows : x.id = i

GivenId(i) == i # None
SaveSql(r, u, i, n) ==
  /\ Sql /\ req[r].pc = "idle" /\ Tick
  /\ IF GivenId(i) /\ Refused(u, i, n)
       THEN Answer(r, "put", FALSE, 500) /\ UNCHANGED <<rows, req, saved>>
       ELSE \E new \in IF GivenId(i) THEN {i} ELSE Uuids \ {x.id : x \in rows} :
              /\ rows' = Upsert(u, new, n)
              /\ Remember(u, n, Names)
              /\ req' = [req EXCEPT ![r].pc = "saved", ![r].user = u]
              /\ UNCHANGED answer

(* A second statement trims.  Its subquery reads the table as it was when   *)
(* the statement began; a row that is updated before the deletion gets to it *)
(* is looked at again, but the subquery is not, and the row goes.            *)
KeepOneMore(s) == Newest(s, Limit + 1) \* slip: off by one
KeepOldest(s) == {x \in s : Cardinality({y \in s : y.at < x.at}) < Limit} \* slip: ASC
Keep(s) == Newest(s, Limit)

Trim(r) ==
  /\ req[r].pc = "saved"
  /\ req' = [req EXCEPT ![r].pc = "trimming",
                        ![r].old = {x.id : x \in Of(req[r].user) \ Keep(Of(req[r].user))}]
  /\ UNCHANGED <<rows, clock, answer, saved>>

Trimmed(r) ==
  /\ req[r].pc = "trimming"
  /\ rows' = {x \in rows : x.user = req[r].user => x.id \notin req[r].old}
  /\ req' = [req EXCEPT ![r] = [pc |-> "idle", user |-> None, old |-> {}]]
  /\ Answer(r, "put", TRUE, 200)
  /\ UNCHANGED <<clock, saved>>

(* The arrays: the row of that id or that name takes both, in one step.  The *)
(* list is cut to 20 before its tail is trimmed, so nothing is.              *)
StoreInArrays(u, i, n) ==
  /\ \E new \in IF GivenId(i) THEN {i} ELSE Uuids \ {x.id : x \in rows} :
       LET hit == {x \in Of(u) : x.id = new \/ x.name = n} IN
         \/ hit = {} /\ rows' = rows \cup {[id |-> new, user |-> u, name |-> n, at |-> clock']}
         \/ \E x \in hit : rows' = (rows \ {x}) \cup {[x EXCEPT !.name = n, !.at = clock']}
  /\ Remember(u, n, {x.name : x \in {y \in rows' : y.user = u}})

OneRow(r, u, i, n) == \* slip: a name that has a row under another id is refused
  /\ ~Sql /\ req[r].pc = "idle" /\ Tick
  /\ IF GivenId(i) /\ \E x \in Of(u) : x.name = n /\ x.id # i
       THEN Answer(r, "put", FALSE, 409) /\ UNCHANGED <<rows, saved>>
       ELSE StoreInArrays(u, i, n) /\ Answer(r, "put", TRUE, 200)
  /\ UNCHANGED req

SaveArrays(r, u, i, n) ==
  /\ ~Sql /\ req[r].pc = "idle" /\ Tick
  /\ StoreInArrays(u, i, n)
  /\ Answer(r, "put", TRUE, 200)
  /\ UNCHANGED req

(* DELETE: the SQL answers {deleted: FALSE}, which the route takes for an    *)
(* answer; the arrays answer null, which it turns into 404.  A row that is   *)
(* gone is gone from the trims under way as well, even if its id comes back. *)
AnyOwner(u, i) == {x \in rows : x.id = i} \* slip: no user in the condition
Found(u, i) == {x \in Of(u) : x.id = i}

AlwaysFound(r, u, i) == \* slip: the answer is an object whether or not a row was found
  /\ req[r].pc = "idle" /\ Tick
  /\ rows' = rows \ Found(u, i)
  /\ Answer(r, "delete", Found(u, i) # {}, 200)
  /\ UNCHANGED <<req, saved>>

Delete(r, u, i) ==
  /\ req[r].pc = "idle" /\ Tick
  /\ rows' = rows \ Found(u, i)
  /\ saved' = [v \in Users |-> [n \in Names |->
       IF \E x \in Found(u, i) : x.user = v /\ x.name = n /\ v = u THEN 0 ELSE saved[v][n]]]
  /\ Answer(r, "delete", Found(u, i) # {},
       CASE Sql /\ i \in Texts -> 500 [] ~Sql /\ Found(u, i) = {} -> 404 [] OTHER -> 200)
  /\ req' = [q \in Requests |-> [req[q] EXCEPT !.old = IF Found(u, i) = {} THEN @ ELSE @ \ {i}]]

Next == \E r \in Requests :
  \/ Trim(r) \/ Trimmed(r)
  \/ \E u \in Users, i \in Ids \cup {None}, n \in Names : SaveSql(r, u, i, n) \/ SaveArrays(r, u, i, n)
  \/ \E u \in Users, i \in Ids : Delete(r, u, i)

Spec == Init /\ [][Next]_vars

-----------------------------------------------------------------------------
TypeOK ==
  /\ rows \subseteq [id : Ids, user : Users, name : Names, at : 1..MaxClock]
  /\ Sql => \A x, y \in rows : x.id = y.id => x = y
  /\ clock \in 0..MaxClock
  /\ req \in [Requests -> [pc : {"idle", "saved", "trimming"}, user : Users \cup {None}, old : SUBSET Ids]]
  /\ answer \in [Requests -> [op : {"none", "put", "delete"}, found : BOOLEAN, status : {0, 200, 404, 500}]]
  /\ saved \in [Users -> [Names -> 0..MaxClock]]

(* However saves interleave, the trims leave a user at most the limit: the   *)
(* last of them sees every save (saved_searches.js:36).                      *)
StoreBounded ==
  \A u \in Users : Cardinality(Of(u)) <= Limit + Cardinality({r \in Requests : req[r].user = u})

(* What a user saved last and did not delete is there: no save, trim or      *)
(* deletion takes it, of the same user or of another one.                    *)
RecentKept ==
  \A u \in Users, n \in Names :
    saved[u][n] > 0 => \E x \in Of(u) : x.name = n

-----------------------------------------------------------------------------
(* What the two properties rest on.  Every save has a moment of its own, the *)
(* table has one row for a name of a user, and only a save under way has     *)
(* chosen rows, of its user.                                                 *)
RowsSound ==
  /\ IsFiniteSet(rows)
  /\ \A x, y \in rows : x.at = y.at => x = y
  /\ \A x \in rows : x.at <= clock
  /\ Sql => \A x, y \in rows : x.user = y.user /\ x.name = y.name => x = y
  /\ \A r \in Requests : req[r].pc = "idle" <=> req[r].user = None
  /\ ~Sql => \A r \in Requests : req[r].pc = "idle"

(* Whichever of the trims under way are done, and in whatever order, what    *)
(* they leave is within the limit and the saves that have still to trim.     *)
Trimming(u) == {r \in Requests : req[r].pc = "trimming" /\ req[r].user = u}
Doomed(R) == UNION {req[r].old : r \in R}
TrimsBound ==
  \A u \in Users : \A R \in SUBSET Trimming(u) :
    Cardinality({x \in Of(u) : x.id \notin Doomed(R)})
      <= Limit + Cardinality({r \in Requests : req[r].user = u} \ R)

(* When requests follow each other: the row that saved tells of is the one    *)
(* that was saved then, every row newer than it is told of as well, so it is  *)
(* among the newest, and no trim has chosen it.                               *)
RowSaved(u, n) == {x \in Of(u) : x.name = n /\ x.at = saved[u][n]}
SavedAreNewest ==
  \A u \in Users, n \in Names : saved[u][n] > 0 =>
    /\ RowSaved(u, n) # {}
    /\ Cardinality({m \in Names : saved[u][m] > saved[u][n]}) < Limit
    /\ \A x \in Of(u) : x.at > saved[u][n] => saved[u][x.name] = x.at
    /\ \A r \in Trimming(u) : \A x \in RowSaved(u, n) : x.id \notin req[r].old

-----------------------------------------------------------------------------
(* Statements of the repository that this code breaks on PostgreSQL, and     *)
(* keeps with the arrays its tests run on (README, section 4).               *)

(* backend/tests/v2-saved-search-sync-contract.test.mjs saves a search under *)
(* an id like the client's and is answered 200.                              *)
PutAccepted == \A r \in Requests : answer[r].op = "put" => answer[r].status = 200

(* The same test: deleting what is not one's own is answered 404.            *)
MissingIs404 ==
  \A r \in Requests : answer[r].op = "delete" /\ ~answer[r].found => answer[r].status = 404
=============================================================================
