------------------------------ MODULE Sessions ------------------------------
(* One account and its sessions: routes/auth_routes.js and                  *)
(* services/session.js over repository/auth.js on PostgreSQL (READ           *)
(* COMMITTED).  A request runs statement by statement between its awaits;    *)
(* a transaction's writes appear at its commit, its row locks last until     *)
(* then, and an UPDATE sees the rows that were committed when it started.    *)
(* Requests present any token that was ever issued: answers get lost and     *)
(* clients retry.  Expired tokens are refused without effect and left out.   *)
EXTENDS Integers, FiniteSets

CONSTANTS Requests,    \* requests the server may be handling
          Tokens,      \* ids of refresh-token rows
          Resets,      \* ids of reset tokens; each carries the password it sets
          MaxVersion,  \* bound on the session versions explored
          None         \* no token, no reset, no password

ASSUME SessionsAssumption ==
  /\ IsFiniteSet(Resets)
  /\ MaxVersion \in Nat
  /\ None \notin Tokens \cup Resets \cup {"first"}
  /\ "first" \notin Resets

VARIABLES user,      \* the users row: status, session_version, password
          token,     \* refresh_tokens rows: state and family
          reset,     \* reset_tokens rows
          req,       \* what each request has read and where it stands
          access,    \* access tokens handed out by a login or a registration
          chosen,    \* history: the password the user chose last
          endings,   \* history: sign-outs, moderations and deletions finished
          consumed,  \* history: reset tokens that changed the password
          closed     \* history: families a password change found alive

vars == <<user, token, reset, req, access, chosen, endings, consumed, closed>>

Passwords == Resets \cup {"first"}
Statuses == {"NONE", "ACTIVE", "SUSPENDED", "DELETED"}
Idle == [pc |-> "idle", sv |-> 0, pw |-> "first", saw |-> {}, tok |-> None, rst |-> None,
         looked |-> FALSE, snap |-> {}]
NoToken == [row |-> "none", family |-> None]

(* No account yet, or one whose password was hashed with the old parameters. *)
Init ==
  /\ user \in {[status |-> s, sv |-> 0, pw |-> "first", legacy |-> s = "ACTIVE", named |-> TRUE] :
                 s \in {"NONE", "ACTIVE"}}
  /\ token = [t \in Tokens |-> NoToken]
  /\ reset = [r \in Resets |-> "none"]
  /\ req = [q \in Requests |-> Idle]
  /\ access = {} /\ chosen = "first" /\ endings = 0
  /\ consumed = {} /\ closed = {}

history == <<chosen, endings, consumed, closed>>
Unused == {t \in Tokens : token[t].row = "none"}
Live == {t \in Tokens : token[t].row = "live"}
Family(f) == {t \in Tokens : token[t].row # "none" /\ token[t].family = f}
Locked(t) == \E q \in Requests : req[q].pc \in {"rotating", "reused"} /\ req[q].tok = t
UserLocked == \E q \in Requests : req[q].pc = "consuming"
Accepted(a) == user.status = "ACTIVE" /\ a.sv = user.sv

Goto(q, fields) == req' = [req EXCEPT ![q] = fields]
Finish(q) == Goto(q, Idle)
Insert(t, f) == [token EXCEPT ![t] = [row |-> "live", family |-> f]]
RevokedRows(S) == [t \in Tokens |-> IF t \in S THEN [token[t] EXCEPT !.row = "revoked"] ELSE token[t]]

-----------------------------------------------------------------------------
(* Registration checks the address, hashes, and inserts under a unique key. *)
RegisterCheck(q) ==
  /\ req[q] = Idle /\ user.status = "NONE"
  /\ Goto(q, [Idle EXCEPT !.pc = "register"])
  /\ UNCHANGED <<user, token, reset, access, history>>

RegisterInsert(q) ==
  /\ req[q].pc = "register"
  /\ IF user.status = "NONE"
     THEN /\ user' = [user EXCEPT !.status = "ACTIVE", !.legacy = FALSE]
          /\ Goto(q, [req[q] EXCEPT !.pc = "issue"])
     ELSE UNCHANGED user /\ Finish(q)
  /\ UNCHANGED <<token, reset, access, history>>

(* A login reads the row; the password is verified against what it read.    *)
LoginRead(q) ==
  /\ req[q] = Idle /\ user.status = "ACTIVE" /\ user.named
  /\ Goto(q, [Idle EXCEPT !.pc = IF user.legacy THEN "rehash" ELSE "issue",
                          !.sv = user.sv, !.pw = user.pw, !.saw = consumed])
  /\ UNCHANGED <<user, token, reset, access, history>>

(* updatePasswordHash: the same password in the new encoding.               *)
Rehash(q) ==
  /\ req[q].pc = "rehash" /\ ~UserLocked
  /\ user' = [user EXCEPT !.pw = req[q].pw, !.legacy = FALSE]
  /\ Goto(q, [req[q] EXCEPT !.pc = "issue"])
  /\ UNCHANGED <<token, reset, access, history>>

(* issueSession: a refresh row of a new family and an access token that     *)
(* carries the session version the request read.                            *)
VersionNow(q) == \* a slip: the version is read again
  user.sv
VersionIssued(q) == req[q].sv

Issue(q) ==
  /\ req[q].pc = "issue"
  /\ \E t \in Unused : token' = Insert(t, t)
  /\ access' = access \cup {[sv |-> VersionIssued(q), saw |-> req[q].saw]}
  /\ Finish(q)
  /\ UNCHANGED <<user, reset, history>>

-----------------------------------------------------------------------------
(* rotateRefreshToken: SELECT ... FOR UPDATE, then the two outcomes.        *)
RotatableAsFound(t) == \* a slip: what was read before the lock counts
  token[t].row \in {"live", "revoked"}
Rotatable(t) == token[t].row = "live"

RotateLock(q) ==
  /\ req[q] = Idle
  /\ \E t \in Tokens :
       /\ token[t].row \in {"live", "revoked"} /\ ~Locked(t)
       /\ Goto(q, [Idle EXCEPT !.pc = IF Rotatable(t) THEN "rotating" ELSE "reused", !.tok = t])
  /\ UNCHANGED <<user, token, reset, access, history>>

(* The status is looked at after the commit, so the row moves for a         *)
(* suspended account too; that answer carries no session.                   *)
RotateCommit(q) ==
  /\ req[q].pc = "rotating"
  /\ \E t \in Unused :
       LET old == req[q].tok IN
       token' = [Insert(t, token[old].family) EXCEPT ![old].row = "revoked"]
  /\ Finish(q)
  /\ UNCHANGED <<user, reset, access, history>>

(* The UPDATE statements that end sessions fix the rows they look at when   *)
(* they start and wait for those that are locked.                           *)
Scope(q) == IF req[q].pc = "reused" THEN Family(token[req[q].tok].family) ELSE Tokens

Snapshot(q) ==
  /\ req[q].pc \in {"reused", "signout", "consuming"} /\ ~req[q].looked
  /\ Goto(q, [req[q] EXCEPT !.looked = TRUE, !.snap = Live \cap Scope(q)])
  /\ UNCHANGED <<user, token, reset, access, history>>

ReachedAtOnce(q) == \* a slip: does not wait for locked rows
  req[q].looked
Reached(q) == req[q].looked /\ \A t \in req[q].snap : ~Locked(t)

ReuseRevoke(q) ==
  /\ req[q].pc = "reused" /\ Reached(q)
  /\ token' = RevokedRows(req[q].snap)
  /\ Finish(q)
  /\ UNCHANGED <<user, reset, access, history>>

-----------------------------------------------------------------------------
(* Logout: two statements, each of which commits by itself.                 *)
LogoutStart(q) ==
  /\ req[q] = Idle /\ \E a \in access : Accepted(a)
  /\ Goto(q, [Idle EXCEPT !.pc = "signout", !.sv = user.sv])
  /\ UNCHANGED <<user, token, reset, access, history>>

LogoutRevoke(q) ==
  /\ req[q].pc = "signout" /\ Reached(q)
  /\ token' = RevokedRows(req[q].snap)
  /\ Goto(q, [req[q] EXCEPT !.pc = "bump", !.looked = FALSE, !.snap = {}])
  /\ UNCHANGED <<user, reset, access, history>>

(* bumpUserSessionVersion counts on the row, not on what was read.          *)
BumpedFromRead(q) == \* a slip: counts on what the request read
  req[q].sv + 1
Bumped(q) == user.sv + 1

LogoutBump(q) ==
  /\ req[q].pc = "bump" /\ ~UserLocked /\ user.sv < MaxVersion
  /\ user' = [user EXCEPT !.sv = Bumped(q)]
  /\ endings' = endings + 1
  /\ Finish(q)
  /\ UNCHANGED <<token, reset, access, chosen, consumed, closed>>

-----------------------------------------------------------------------------
ResetRequest(q) ==
  /\ req[q] = Idle /\ user.status # "NONE" /\ user.named
  /\ \E r \in Resets : reset[r] = "none" /\ reset' = [reset EXCEPT ![r] = "open"]
  /\ UNCHANGED <<user, token, req, access, history>>

(* findResetTokenForUse, then the new password is hashed.                   *)
ResetFind(q) ==
  /\ req[q] = Idle /\ user.status = "ACTIVE"
  /\ \E r \in Resets : reset[r] = "open" /\ Goto(q, [Idle EXCEPT !.pc = "hashing", !.rst = r])
  /\ UNCHANGED <<user, token, reset, access, history>>

(* UPDATE reset_tokens ... AND used_at IS NULL RETURNING id.                *)
Consumable(r) == reset[r] = "open"

ConsumeBegin(q) ==
  /\ req[q].pc = "hashing" /\ ~UserLocked
  /\ IF Consumable(req[q].rst) THEN Goto(q, [req[q] EXCEPT !.pc = "consuming"]) ELSE Finish(q)
  /\ UNCHANGED <<user, token, reset, access, history>>

ConsumeCommit(q) ==
  LET r == req[q].rst IN
  /\ req[q].pc = "consuming" /\ Reached(q) /\ user.sv < MaxVersion
  /\ reset' = [reset EXCEPT ![r] = "used"]
  /\ user' = [user EXCEPT !.pw = r, !.legacy = FALSE, !.sv = @ + 1]
  /\ token' = RevokedRows(req[q].snap)
  /\ chosen' = r /\ consumed' = consumed \cup {r}
  /\ closed' = closed \cup {token[t].family : t \in req[q].snap}
  /\ Finish(q)
  /\ UNCHANGED <<access, endings>>

-----------------------------------------------------------------------------
(* An administrator sets the status, whatever it was; each call ends the    *)
(* access tokens.                                                           *)
SetStatus(s) ==
  /\ user.status # "NONE" /\ ~UserLocked /\ user.sv < MaxVersion
  /\ user' = [user EXCEPT !.status = s, !.sv = @ + 1]
  /\ endings' = endings + 1
  /\ UNCHANGED <<token, reset, req, access, chosen, consumed, closed>>

DeleteStart(q) ==
  /\ req[q] = Idle /\ \E a \in access : Accepted(a)
  /\ Goto(q, [Idle EXCEPT !.pc = "deleting"])
  /\ UNCHANGED <<user, token, reset, access, history>>

(* deleteUserPrivacyBundle: its row locks keep rotations and resets out.    *)
DeleteCommit(q) ==
  /\ req[q].pc = "deleting" /\ user.sv < MaxVersion
  /\ ~UserLocked /\ \A t \in Tokens : ~Locked(t)
  /\ user' = [user EXCEPT !.status = "DELETED", !.sv = @ + 1, !.pw = None,
                          !.legacy = FALSE, !.named = FALSE]
  /\ token' = [t \in Tokens |-> IF token[t].row = "none" THEN token[t]
                                 ELSE [token[t] EXCEPT !.row = "deleted"]]
  /\ reset' = [r \in Resets |-> IF reset[r] = "none" THEN "none" ELSE "gone"]
  /\ endings' = endings + 1
  /\ Finish(q)
  /\ UNCHANGED <<access, chosen, consumed, closed>>

(* The process dies or the statement fails: an open transaction rolls back, *)
(* the statements already committed stay.                                   *)
Drop(q) ==
  /\ req[q] # Idle
  /\ Finish(q)
  /\ UNCHANGED <<user, token, reset, access, history>>

Serve(q) ==
  \/ RegisterCheck(q) \/ RegisterInsert(q) \/ LoginRead(q) \/ Rehash(q) \/ Issue(q)
  \/ RotateLock(q) \/ RotateCommit(q) \/ Snapshot(q) \/ ReuseRevoke(q)
  \/ LogoutStart(q) \/ LogoutRevoke(q) \/ LogoutBump(q)
  \/ ResetRequest(q) \/ ResetFind(q) \/ ConsumeBegin(q) \/ ConsumeCommit(q)
  \/ DeleteStart(q) \/ DeleteCommit(q) \/ Drop(q)

Next == (\E q \in Requests : Serve(q)) \/ (\E s \in {"ACTIVE", "SUSPENDED"} : SetStatus(s))

Spec == Init /\ [][Next]_vars

-----------------------------------------------------------------------------
(* Every variable keeps its type, and a row a rotation has locked stays     *)
(* live until that rotation ends.                                           *)
TypeOK ==
  /\ user \in [status : Statuses, sv : 0..MaxVersion, pw : Passwords \cup {None},
               legacy : BOOLEAN, named : BOOLEAN]
  /\ token \in [Tokens -> [row : {"none", "live", "revoked", "deleted"},
                           family : Tokens \cup {None}]]
  /\ reset \in [Resets -> {"none", "open", "used", "gone"}]
  /\ req \in [Requests -> [pc : {"idle", "register", "rehash", "issue", "rotating", "reused",
                                 "signout", "bump", "hashing", "consuming", "deleting"},
                           sv : 0..MaxVersion, pw : Passwords, saw : SUBSET Resets,
                           tok : Tokens \cup {None},
                           rst : Resets \cup {None}, looked : BOOLEAN,
                           snap : SUBSET Tokens]]
  /\ access \subseteq [sv : 0..MaxVersion, saw : SUBSET Resets]
  /\ chosen \in Passwords /\ endings \in 0..MaxVersion
  /\ consumed \subseteq Resets /\ closed \subseteq Tokens
  /\ \A q \in Requests : req[q].pc = "rotating" => req[q].tok \in Live

(* A session, one family of refresh tokens, has at most one live token      *)
(* however many requests rotate its tokens at once (rotateRefreshToken      *)
(* looks at the row again under its lock).                                  *)
OneLiveToken ==
  \A t, u \in Live : token[t].family = token[u].family => t = u

(* No increment of session_version is lost and no reset token changes the   *)
(* password twice: the version counts the sign-outs, moderations and        *)
(* deletions that finished and the reset tokens that were consumed.         *)
VersionCountsEndings == user.sv = endings + Cardinality(consumed)

(* An access token a login handed out is only accepted while no reset has   *)
(* changed the password since that login read the row: a login that a reset *)
(* overtakes carries the version from before and is refused (authUser).     *)
LoginSawResets == \A a \in access : Accepted(a) => a.saw = consumed

(* All of the above in every state, whatever requests overlap and where they *)
(* die (repository/auth.js, services/session.js).                           *)
SessionsSound == TypeOK /\ OneLiveToken /\ VersionCountsEndings /\ LoginSawResets

-----------------------------------------------------------------------------
(* Statements of the repository that this code breaks (README, section 4).  *)

(* e2e-security.test.mjs: after a reset the new password logs in.  The row  *)
(* of an account that was not deleted holds the password chosen last.       *)
PasswordStands == user.named => user.pw = chosen

(* e2e-security.test.mjs: a reset invalidates the prior refresh sessions.   *)
(* No token of a family that a reset found alive is live afterwards.        *)
PriorSessionsEnd == \A t \in Live : token[t].family \notin closed

=============================================================================
