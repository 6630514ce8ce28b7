---------------------------- MODULE AccountProofs ---------------------------
(***************************************************************************)
(* For any number of requests, tokens and resets, and for any setups of    *)
(* notifications and of saved searches.  A part's invariant is proved for  *)
(* the part alone, in a section of its own; the other parts leave its      *)
(* variables as they are, so it is one of the whole account.               *)
(***************************************************************************)
EXTENDS Account, TLAPS, FiniteSetTheorems, WellFoundedInduction

-----------------------------------------------------------------------------
(***************************************************************************)
(* Sessions.  The state falls in three parts: the token rows, the account  *)
(* with what was counted and handed out, and the requests.  A request is   *)
(* Sound when what it has read and locked still means what it meant; that  *)
(* is judged for each request alone, so a step of one request only owes    *)
(* the others that the rows they locked, the reset they hold and the       *)
(* version they read did not move under them.  That two requests never     *)
(* hold one row is Apart.                                                  *)
(***************************************************************************)
Rows == [row : {"none", "live", "revoked", "deleted"}, family : Tokens \cup {None}]
Reqs == [pc : {"idle", "register", "rehash", "issue", "rotating", "reused",
               "signout", "bump", "hashing", "consuming", "deleting"},
         sv : 0..MaxVersion, pw : Passwords, saw : SUBSET Resets,
         tok : Tokens \cup {None}, rst : Resets \cup {None}, looked : BOOLEAN,
         snap : SUBSET Tokens]
Users == [status : Statuses, sv : 0..MaxVersion, pw : Passwords \cup {None},
          legacy : BOOLEAN, named : BOOLEAN]

\* A family is named after its first token; at most one of its rows is live.
RowsSound(tk) ==
  /\ tk \in [Tokens -> Rows]
  /\ \A t \in Tokens : tk[t].row # "none" =>
        tk[t].family \in Tokens /\ tk[tk[t].family].row # "none"
  /\ \A t, u \in Tokens :
        tk[t].row = "live" /\ tk[u].row = "live" /\ tk[t].family = tk[u].family => t = u

\* A version that was read is not ahead, and if it is current so is what the
\* reader had seen.
Seen(a, sv, co) == a.sv <= sv /\ (a.sv = sv => a.saw = co)

Counted(us, rs, co, en) ==
  /\ us \in Users /\ (us.named => us.pw \in Passwords)
  /\ rs \in [Resets -> {"none", "open", "used", "gone"}]
  /\ co \subseteq Resets /\ \A r \in co : rs[r] \in {"used", "gone"}
  /\ en \in 0..MaxVersion /\ us.sv = en + Cardinality(co)

AccessSound(ac, sv, co) ==
  ac \subseteq [sv : 0..MaxVersion, saw : SUBSET Resets] /\ \A a \in ac : Seen(a, sv, co)

Locking(f) == f.pc \in {"rotating", "reused"}

Sound(f, tk, rs, sv, co) ==
  /\ f \in Reqs
  /\ Locking(f) => f.tok \in Tokens
  /\ f.pc = "rotating" => tk[f.tok].row = "live"
  /\ \A t \in f.snap : tk[t].row # "none"
  /\ f.pc \in {"hashing", "consuming"} => f.rst \in Resets
  /\ f.pc = "consuming" => rs[f.rst] = "open"
  /\ f.pc \in {"register", "rehash", "issue"} => Seen(f, sv, co)

\* Two requests do not hold one row lock.
Apart(f, g) == /\ Locking(f) /\ Locking(g) => f.tok # g.tok
               /\ ~(f.pc = "consuming" /\ g.pc = "consuming")

RequestsSound(rq, tk, rs, sv, co) ==
  /\ rq \in [Requests -> Reqs]
  /\ \A p \in Requests : Sound(rq[p], tk, rs, sv, co)
  /\ \A p, q \in Requests : p # q => Apart(rq[p], rq[q])

Told == chosen \in Passwords /\ closed \subseteq Tokens

IInv ==
  /\ RowsSound(token)
  /\ Counted(user, reset, consumed, endings)
  /\ AccessSound(access, user.sv, consumed)
  /\ RequestsSound(req, token, reset, user.sv, consumed)
  /\ Told

-----------------------------------------------------------------------------
LEMMA Zero == 0 \in 0..MaxVersion
BY SessionsAssumption DEF SessionsAssumption

LEMMA IdleSound == ASSUME NEW tk, NEW rs, NEW sv, NEW co
                   PROVE  Sound(Idle, tk, rs, sv, co) /\ Idle \in Reqs
<1>1. Idle \in Reqs
  BY SessionsAssumption DEF Idle, Reqs, Passwords, SessionsAssumption
<1> QED BY <1>1 DEF Idle, Sound, Locking

\* A step that writes one request's record owes the others their soundness
\* and owes the record's own soundness and distance.
LEMMA OneRequest ==
  ASSUME NEW rq, NEW rs, NEW tk, NEW sv, NEW co, NEW rs2, NEW tk2, NEW sv2, NEW co2,
         RequestsSound(rq, tk, rs, sv, co), NEW q \in Requests, NEW f,
         Sound(f, tk2, rs2, sv2, co2),
         \A p \in Requests : p # q =>
            Sound(rq[p], tk2, rs2, sv2, co2) /\ Apart(f, rq[p])
  PROVE  RequestsSound([rq EXCEPT ![q] = f], tk2, rs2, sv2, co2)
<1> DEFINE new == [rq EXCEPT ![q] = f]
<1>1. rq \in [Requests -> Reqs] /\ f \in Reqs
  BY DEF RequestsSound, Sound
<1>2. /\ new \in [Requests -> Reqs] /\ new[q] = f
      /\ \A p \in Requests : p # q => new[p] = rq[p]
  BY <1>1
<1> HIDE DEF new
<1>3. \A p \in Requests : Sound(new[p], tk2, rs2, sv2, co2)
  BY <1>2
<1>4. \A a, b : Apart(a, b) => Apart(b, a)
  BY DEF Apart
<1>5. ASSUME NEW p \in Requests, NEW r \in Requests, p # r
      PROVE  Apart(new[p], new[r])
  <2>1. Apart(rq[p], rq[r])
    BY <1>5 DEF RequestsSound
  <2>2. CASE p = q
    BY <1>2, <1>5, <2>2
  <2>3. CASE r = q
    BY <1>2, <1>4, <1>5, <2>3
  <2>4. CASE p # q /\ r # q
    BY <1>2, <2>1, <2>4
  <2> QED BY <2>2, <2>3, <2>4
<1>6. RequestsSound(new, tk2, rs2, sv2, co2)
  BY <1>2, <1>3, <1>5 DEF RequestsSound
<1> QED BY <1>6 DEF new

\* What a step owes a request it does not serve.
LEMMA Undisturbed ==
  ASSUME NEW f, NEW tk, NEW rs, NEW sv \in Int, NEW co,
         NEW tk2, NEW rs2, NEW sv2 \in Int, NEW co2,
         Sound(f, tk, rs, sv, co),
         f.pc = "rotating" => tk2[f.tok].row = "live",
         \A t \in Tokens : tk[t].row # "none" => tk2[t].row # "none",
         f.pc = "consuming" => rs2[f.rst] = "open",
         sv < sv2 \/ (sv = sv2 /\ co = co2)
  PROVE  Sound(f, tk2, rs2, sv2, co2)
<1>1. f \in Reqs /\ f.sv \in Int /\ f.snap \subseteq Tokens
  BY SessionsAssumption DEF Sound, Reqs, SessionsAssumption
<1>2. Seen(f, sv, co) => Seen(f, sv2, co2)
  BY <1>1 DEF Seen
<1> QED BY <1>1, <1>2 DEF Sound

\* A request that neither locks a row nor consumes is apart from every other.
LEMMA Free == ASSUME NEW f, NEW g, ~Locking(f), f.pc # "consuming" PROVE Apart(f, g)
BY DEF Apart

\* Revoking rows that exist keeps the rows sound.
LEMMA Revoking ==
  ASSUME RowsSound(token), NEW S, \A t \in S : token[t].row # "none"
  PROVE  /\ RowsSound(RevokedRows(S))
         /\ \A t \in Tokens : token[t].row # "none" => RevokedRows(S)[t].row # "none"
         /\ \A t \in Tokens : t \notin S => RevokedRows(S)[t] = token[t]
<1> DEFINE new == RevokedRows(S)
<1>1. token \in [Tokens -> Rows]
  BY DEF RowsSound
<1>2. \A t \in Tokens : /\ t \in S => new[t] = [token[t] EXCEPT !.row = "revoked"]
                        /\ t \notin S => new[t] = token[t]
  BY DEF RevokedRows
<1>3. \A x \in Rows : /\ [x EXCEPT !.row = "revoked"] \in Rows
                      /\ [x EXCEPT !.row = "revoked"].row = "revoked"
                      /\ [x EXCEPT !.row = "revoked"].family = x.family
  BY DEF Rows
<1>4. new \in [Tokens -> Rows]
  <2>1. \A t \in Tokens : new[t] \in Rows
    BY <1>1, <1>2, <1>3, ZenonT(60)
  <2>2. new = [t \in Tokens |-> new[t]]
    BY DEF RevokedRows
  <2> HIDE DEF new
  <2> QED BY <2>1, <2>2
<1>5. \A t \in Tokens : /\ new[t].family = token[t].family
                        /\ t \in S => new[t].row = "revoked"
                        /\ t \notin S => new[t].row = token[t].row
  BY <1>1, <1>2, <1>3, ZenonT(60)
<1> HIDE DEF new
<1>6. \A t \in Tokens : /\ new[t].row = "live" => token[t].row = "live"
                        /\ new[t].row # "none" <=> token[t].row # "none"
  BY <1>5
<1>7. RowsSound(new)
  BY <1>4, <1>5, <1>6 DEF RowsSound
<1> QED BY <1>2, <1>6, <1>7 DEF new

\* A new row t: of a family of its own, or of a family that has no live row
\* besides the one it replaces.
Grown(new, t, f) ==
  /\ t \in Tokens /\ token[t].row = "none" /\ f \in Tokens
  /\ new \in [Tokens -> Rows] /\ new[t] = [row |-> "live", family |-> f]
  /\ \A u \in Tokens : u # t => /\ new[u].family = token[u].family
                                /\ new[u].row = "none" <=> token[u].row = "none"
                                /\ new[u].row = "live" => token[u].row = "live"
  /\ f # t => /\ token[f].row # "none"
              /\ \A u \in Tokens : u # t /\ new[u].row = "live" => new[u].family # f

LEMMA Inserting ==
  ASSUME RowsSound(token), NEW new, NEW t, NEW f, Grown(new, t, f)
  PROVE  RowsSound(new) /\ \A u \in Tokens : token[u].row # "none" => new[u].row # "none"
<1> USE DEF Grown
<1>1. \A u \in Tokens : token[u].row # "none" => new[u].row # "none"
  BY Zenon
<1>2. new[t].row = "live" /\ new[t].family = f
  OBVIOUS
<1>3. \A u \in Tokens : u # t /\ new[u].row = "live" => new[u].family # f
  BY DEF RowsSound
<1>4. \A u \in Tokens : new[u].row # "none" =>
         new[u].family \in Tokens /\ new[new[u].family].row # "none"
  <2> SUFFICES ASSUME NEW u \in Tokens, new[u].row # "none"
               PROVE  new[u].family \in Tokens /\ new[new[u].family].row # "none"
    OBVIOUS
  <2>1. CASE u = t
    <3>1. new[f].row # "none"
      BY <1>1, <1>2
    <3> QED BY <1>2, <2>1, <3>1
  <2>2. CASE u # t
    <3>1. token[u].family \in Tokens /\ token[token[u].family].row # "none"
      BY <2>2 DEF RowsSound
    <3> QED BY <1>1, <2>2, <3>1
  <2> QED BY <2>1, <2>2
<1>5. \A u, v \in Tokens :
         new[u].row = "live" /\ new[v].row = "live" /\ new[u].family = new[v].family => u = v
  BY <1>2, <1>3 DEF RowsSound
<1> QED BY <1>1, <1>4, <1>5 DEF RowsSound

\* The answers that let a request go.
LEMMA Finishing == ASSUME NEW q \in Requests, Finish(q)
                   PROVE  req' = [req EXCEPT ![q] = Idle]
BY DEF Finish, Goto

LEMMA IdleApart == ASSUME NEW g PROVE Apart(Idle, g)
BY Free DEF Idle, Locking

-----------------------------------------------------------------------------
LEMMA Invariant0 == Init => IInv
<1> SUFFICES ASSUME Init PROVE IInv
  OBVIOUS
<1> USE SessionsAssumption DEF SessionsAssumption
<1>1. RowsSound(token)
  BY DEF Init, RowsSound, NoToken, Rows
<1>2. consumed = {} /\ access = {} /\ Cardinality({}) = 0 /\ endings = 0 /\ user.sv = 0
  BY FS_EmptySet DEF Init
<1>3. user \in Users /\ user.pw \in Passwords
  <2> PICK s \in {"NONE", "ACTIVE"} :
         user = [status |-> s, sv |-> 0, pw |-> "first", legacy |-> s = "ACTIVE", named |-> TRUE]
    BY DEF Init
  <2>1. (s = "ACTIVE") \in BOOLEAN /\ 0 \in 0..MaxVersion
    OBVIOUS
  <2> QED BY <2>1 DEF Users, Statuses, Passwords
<1>4. Counted(user, reset, consumed, endings)
  <2>1. reset \in [Resets -> {"none", "open", "used", "gone"}]
    BY DEF Init
  <2> QED BY <1>2, <1>3, <2>1 DEF Counted
<1>5. AccessSound(access, user.sv, consumed)
  BY <1>2 DEF AccessSound
<1>6. req = [q \in Requests |-> Idle]
  BY DEF Init
<1>7. RequestsSound(req, token, reset, user.sv, consumed)
  <2>1. \A p \in Requests : req[p] = Idle
    BY <1>6
  <2>2. req \in [Requests -> Reqs]
    BY <1>6, IdleSound
  <2>3. \A p \in Requests : Sound(req[p], token, reset, user.sv, consumed)
    BY <2>1, IdleSound
  <2>4. \A p, q \in Requests : Apart(req[p], req[q])
    BY <2>1, IdleApart
  <2> QED BY <2>2, <2>3, <2>4 DEF RequestsSound
<1>8. Told
  BY DEF Init, Told, Passwords
<1> QED BY <1>1, <1>4, <1>5, <1>7, <1>8 DEF IInv

LEMMA CountedTypes ==
  ASSUME IInv
  PROVE  /\ user.sv \in 0..MaxVersion /\ MaxVersion \in Nat
         /\ user.status \in Statuses /\ user.legacy \in BOOLEAN /\ user.named \in BOOLEAN
         /\ endings \in 0..MaxVersion /\ consumed \subseteq Resets
         /\ IsFiniteSet(consumed) /\ Cardinality(consumed) \in Nat
         /\ user.sv = endings + Cardinality(consumed)
         /\ user.pw \in Passwords \cup {None} /\ (user.named => user.pw \in Passwords)
<1>1. Counted(user, reset, consumed, endings)
  BY DEF IInv
<1>2. IsFiniteSet(consumed)
  BY <1>1, FS_Subset, SessionsAssumption DEF Counted, SessionsAssumption
<1>3. Cardinality(consumed) \in Nat
  BY <1>2, FS_CardinalityType
<1>4. /\ user.sv \in 0..MaxVersion /\ user.status \in Statuses /\ user.legacy \in BOOLEAN
      /\ user.named \in BOOLEAN /\ user.pw \in Passwords \cup {None}
  BY <1>1 DEF Counted, Users
<1> QED BY <1>1, <1>2, <1>3, <1>4, SessionsAssumption DEF Counted, SessionsAssumption

\* What is known of one request.
LEMMA OneSound == ASSUME IInv, NEW q \in Requests
                  PROVE  /\ Sound(req[q], token, reset, user.sv, consumed)
                         /\ req[q] \in Reqs
                         /\ \A p \in Requests : p # q => Apart(req[q], req[p])
BY DEF IInv, RequestsSound

\* A step that changes nothing but what one request has read or locked.
LEMMA Reading ==
  ASSUME IInv, NEW q \in Requests, NEW f, req' = [req EXCEPT ![q] = f],
         UNCHANGED <<user, token, reset, access, history>>,
         Sound(f, token, reset, user.sv, consumed),
         \A p \in Requests : p # q => Apart(f, req[p])
  PROVE  IInv'
<1>1. RequestsSound(req, token, reset, user.sv, consumed)
  BY DEF IInv
<1>2. \A p \in Requests : Sound(req[p], token, reset, user.sv, consumed)
  BY <1>1 DEF RequestsSound
<1>3. RequestsSound([req EXCEPT ![q] = f], token, reset, user.sv, consumed)
  BY <1>1, <1>2, OneRequest
<1>4. RequestsSound(req', token, reset, user.sv, consumed)
  BY <1>3
<1> QED BY <1>4 DEF IInv, RowsSound, Counted, AccessSound, Told, history, Seen, Sound, RequestsSound, Apart, Locking

LEMMA KeepsDrop == ASSUME IInv, NEW q \in Requests, Drop(q) PROVE IInv'
<1>1. req' = [req EXCEPT ![q] = Idle]
  BY Finishing DEF Drop
<1>2. UNCHANGED <<user, token, reset, access, history>>
  BY DEF Drop
<1> QED BY <1>1, <1>2, IdleSound, IdleApart, Reading

\* The first version was read before any reset.
LEMMA FirstVersion == ASSUME IInv, user.sv = 0 PROVE consumed = {}
<1>1. Cardinality(consumed) = 0
  BY CountedTypes
<1> QED BY <1>1, CountedTypes, FS_EmptySet

LEMMA KeepsRegisterCheck == ASSUME IInv, NEW q \in Requests, RegisterCheck(q) PROVE IInv'
<1> DEFINE f == [Idle EXCEPT !.pc = "register"]
<1>1. req' = [req EXCEPT ![q] = f] /\ UNCHANGED <<user, token, reset, access, history>>
  BY DEF RegisterCheck, Goto
<1>2. /\ f \in Reqs /\ f.pc = "register" /\ f.sv = 0 /\ f.saw = {} /\ f.snap = {}
  BY Zero, SessionsAssumption DEF Idle, Reqs, Passwords, SessionsAssumption
<1> HIDE DEF f
<1>3. Sound(f, token, reset, user.sv, consumed)
  BY <1>2, FirstVersion, CountedTypes DEF Sound, Seen, Locking
<1>4. \A g : Apart(f, g)
  BY <1>2 DEF Apart, Locking
<1> QED BY <1>1, <1>3, <1>4, Reading

LEMMA KeepsLoginRead == ASSUME IInv, NEW q \in Requests, LoginRead(q) PROVE IInv'
<1> DEFINE f == [Idle EXCEPT !.pc = IF user.legacy THEN "rehash" ELSE "issue",
                             !.sv = user.sv, !.pw = user.pw, !.saw = consumed]
<1>1. req' = [req EXCEPT ![q] = f] /\ UNCHANGED <<user, token, reset, access, history>>
  BY DEF LoginRead, Goto
<1>2. user.pw \in Passwords /\ user.sv \in 0..MaxVersion /\ consumed \subseteq Resets
  BY CountedTypes DEF LoginRead
<1>3. /\ f \in Reqs /\ f.pc \in {"rehash", "issue"} /\ f.sv = user.sv /\ f.saw = consumed
      /\ f.snap = {}
  BY <1>2, SessionsAssumption DEF Idle, Reqs, SessionsAssumption
<1> HIDE DEF f
<1>4. Sound(f, token, reset, user.sv, consumed)
  BY <1>2, <1>3 DEF Sound, Seen, Locking
<1>5. \A g : Apart(f, g)
  BY <1>3 DEF Apart, Locking
<1> QED BY <1>1, <1>4, <1>5, Reading

LEMMA KeepsRotateLock == ASSUME IInv, NEW q \in Requests, RotateLock(q) PROVE IInv'
<1> PICK t \in Tokens :
      /\ ~Locked(t)
      /\ req' = [req EXCEPT ![q] = [Idle EXCEPT
                   !.pc = IF Rotatable(t) THEN "rotating" ELSE "reused", !.tok = t]]
  BY DEF RotateLock, Goto
<1> DEFINE f == [Idle EXCEPT !.pc = IF Rotatable(t) THEN "rotating" ELSE "reused", !.tok = t]
<1>1. UNCHANGED <<user, token, reset, access, history>> /\ req' = [req EXCEPT ![q] = f]
  BY DEF RotateLock
<1>2. /\ f \in Reqs /\ f.pc \in {"rotating", "reused"} /\ f.tok = t /\ f.snap = {}
      /\ f.pc = "rotating" => token[t].row = "live"
  BY Zero, SessionsAssumption DEF Idle, Reqs, Passwords, SessionsAssumption, Rotatable
<1> HIDE DEF f
<1>3. Sound(f, token, reset, user.sv, consumed)
  BY <1>2 DEF Sound
<1>4. \A p \in Requests : Apart(f, req[p])
  BY <1>2 DEF Apart, Locking, Locked
<1> QED BY <1>1, <1>3, <1>4, Reading

LEMMA KeepsSnapshot == ASSUME IInv, NEW q \in Requests, Snapshot(q) PROVE IInv'
<1> DEFINE S == Live \cap Scope(q)
           f == [req[q] EXCEPT !.looked = TRUE, !.snap = S]
<1>1. req' = [req EXCEPT ![q] = f] /\ UNCHANGED <<user, token, reset, access, history>>
  BY DEF Snapshot, Goto
<1>2. S \subseteq Tokens /\ \A t \in S : token[t].row = "live"
  BY DEF Live
<1> HIDE DEF S
<1>3. req[q] \in Reqs
  BY OneSound
<1>4. /\ f \in Reqs /\ f.pc = req[q].pc /\ f.tok = req[q].tok /\ f.rst = req[q].rst
      /\ f.sv = req[q].sv /\ f.saw = req[q].saw /\ f.snap = S
  BY <1>2, <1>3 DEF Reqs
<1> HIDE DEF f
<1>5. Sound(f, token, reset, user.sv, consumed)
  BY <1>2, <1>4, OneSound DEF Sound, Seen, Locking
<1>6. \A p \in Requests : p # q => Apart(f, req[p])
  BY <1>4, OneSound DEF Apart, Locking
<1> QED BY <1>1, <1>5, <1>6, Reading

LEMMA KeepsLogoutStart == ASSUME IInv, NEW q \in Requests, LogoutStart(q) PROVE IInv'
<1> DEFINE f == [Idle EXCEPT !.pc = "signout", !.sv = user.sv]
<1>1. req' = [req EXCEPT ![q] = f] /\ UNCHANGED <<user, token, reset, access, history>>
  BY DEF LogoutStart, Goto
<1>2. f \in Reqs /\ f.pc = "signout" /\ f.snap = {}
  BY CountedTypes, SessionsAssumption DEF Idle, Reqs, Passwords, SessionsAssumption
<1> HIDE DEF f
<1>3. Sound(f, token, reset, user.sv, consumed) /\ \A g : Apart(f, g)
  BY <1>2 DEF Sound, Apart, Locking
<1> QED BY <1>1, <1>3, Reading

LEMMA KeepsResetFind == ASSUME IInv, NEW q \in Requests, ResetFind(q) PROVE IInv'
<1> PICK r \in Resets : req' = [req EXCEPT ![q] = [Idle EXCEPT !.pc = "hashing", !.rst = r]]
  BY DEF ResetFind, Goto
<1> DEFINE f == [Idle EXCEPT !.pc = "hashing", !.rst = r]
<1>1. req' = [req EXCEPT ![q] = f] /\ UNCHANGED <<user, token, reset, access, history>>
  BY DEF ResetFind
<1>2. f \in Reqs /\ f.pc = "hashing" /\ f.snap = {} /\ f.rst = r
  BY Zero, SessionsAssumption DEF Idle, Reqs, Passwords, SessionsAssumption
<1> HIDE DEF f
<1>3. Sound(f, token, reset, user.sv, consumed) /\ \A g : Apart(f, g)
  BY <1>2 DEF Sound, Apart, Locking
<1> QED BY <1>1, <1>3, Reading

LEMMA KeepsConsumeBegin == ASSUME IInv, NEW q \in Requests, ConsumeBegin(q) PROVE IInv'
<1>1. UNCHANGED <<user, token, reset, access, history>>
  BY DEF ConsumeBegin
<1>2. CASE Consumable(req[q].rst)
  <2> DEFINE f == [req[q] EXCEPT !.pc = "consuming"]
  <2>1. req' = [req EXCEPT ![q] = f]
    BY <1>2 DEF ConsumeBegin, Goto
  <2>2. req[q] \in Reqs /\ req[q].pc = "hashing"
    BY OneSound DEF ConsumeBegin
  <2>3. /\ f \in Reqs /\ f.pc = "consuming" /\ f.rst = req[q].rst /\ f.snap = req[q].snap
    BY <2>2 DEF Reqs
  <2> HIDE DEF f
  <2>4. Sound(f, token, reset, user.sv, consumed)
    BY <1>2, <2>2, <2>3, OneSound DEF Sound, Locking, Consumable
  <2>5. \A p \in Requests : Apart(f, req[p])
    BY <2>3 DEF Apart, Locking, ConsumeBegin, UserLocked
  <2> QED BY <1>1, <2>1, <2>4, <2>5, Reading
<1>3. CASE ~Consumable(req[q].rst)
  <2>1. req' = [req EXCEPT ![q] = Idle]
    BY <1>3, Finishing DEF ConsumeBegin
  <2> QED BY <1>1, <2>1, IdleSound, IdleApart, Reading
<1> QED BY <1>2, <1>3

LEMMA KeepsDeleteStart == ASSUME IInv, NEW q \in Requests, DeleteStart(q) PROVE IInv'
<1> DEFINE f == [Idle EXCEPT !.pc = "deleting"]
<1>1. req' = [req EXCEPT ![q] = f] /\ UNCHANGED <<user, token, reset, access, history>>
  BY DEF DeleteStart, Goto
<1>2. f \in Reqs /\ f.pc = "deleting" /\ f.snap = {}
  BY Zero, SessionsAssumption DEF Idle, Reqs, Passwords, SessionsAssumption
<1> HIDE DEF f
<1>3. Sound(f, token, reset, user.sv, consumed) /\ \A g : Apart(f, g)
  BY <1>2 DEF Sound, Apart, Locking
<1> QED BY <1>1, <1>3, Reading

-----------------------------------------------------------------------------
\* A step that changes rows as well owes every other request what Undisturbed
\* asks for.
LEMMA Serving ==
  ASSUME IInv, NEW q \in Requests, NEW f, req' = [req EXCEPT ![q] = f],
         NEW tk2, NEW rs2, NEW sv2 \in Int, NEW co2, Sound(f, tk2, rs2, sv2, co2),
         \A p \in Requests : p # q => Apart(f, req[p]),
         \A p \in Requests : p # q /\ req[p].pc = "rotating" => tk2[req[p].tok].row = "live",
         \A t \in Tokens : token[t].row # "none" => tk2[t].row # "none",
         \A p \in Requests : p # q /\ req[p].pc = "consuming" => rs2[req[p].rst] = "open",
         user.sv < sv2 \/ (user.sv = sv2 /\ consumed = co2)
  PROVE  RequestsSound(req', tk2, rs2, sv2, co2)
<1>1. user.sv \in Int
  BY CountedTypes
<1>2. ASSUME NEW p \in Requests, p # q PROVE Sound(req[p], tk2, rs2, sv2, co2)
  <2> PICK g : g = req[p]
    OBVIOUS
  <2>1. Sound(g, token, reset, user.sv, consumed)
    BY OneSound
  <2>2. /\ g.pc = "rotating" => tk2[g.tok].row = "live"
        /\ g.pc = "consuming" => rs2[g.rst] = "open"
    BY <1>2
  <2>3. Sound(g, tk2, rs2, sv2, co2)
    BY <1>1, <2>1, <2>2, Undisturbed
  <2> QED BY <2>3
<1>3. RequestsSound(req, token, reset, user.sv, consumed)
  BY DEF IInv
<1>4. RequestsSound([req EXCEPT ![q] = f], tk2, rs2, sv2, co2)
  BY <1>2, <1>3, OneRequest
<1> QED BY <1>4

LEMMA Together ==
  ASSUME RowsSound(token'), Counted(user', reset', consumed', endings'),
         AccessSound(access', user'.sv, consumed'),
         RequestsSound(req', token', reset', user'.sv, consumed'), Told'
  PROVE  IInv'
BY DEF IInv, RowsSound, Counted, AccessSound, Seen, Sound, RequestsSound, Apart, Locking

\* What is known of the others while the rows they lock are left alone.
LEMMA OthersLock ==
  ASSUME IInv, NEW p \in Requests
  PROVE  /\ req[p].pc = "rotating" => req[p].tok \in Live /\ Locked(req[p].tok)
         /\ req[p].pc = "consuming" => UserLocked /\ reset[req[p].rst] = "open"
                                       /\ req[p].rst \in Resets
BY OneSound DEF Sound, Locking, Live, Locked, UserLocked

\* The user's row moves on by one version, or keeps its version.
LEMMA AccessKept ==
  ASSUME IInv, NEW sv2 \in Int, NEW co2, user.sv < sv2 \/ (user.sv = sv2 /\ consumed = co2)
  PROVE  AccessSound(access, sv2, co2)
<1>1. user.sv \in Int
  BY CountedTypes
<1>2. \A a \in access : a.sv \in Int /\ Seen(a, user.sv, consumed)
  BY SessionsAssumption DEF IInv, AccessSound, SessionsAssumption
<1>3. \A a \in access : Seen(a, sv2, co2)
  BY <1>1, <1>2 DEF Seen
<1> QED BY <1>3 DEF IInv, AccessSound

LEMMA KeepsRegisterInsert == ASSUME IInv, NEW q \in Requests, RegisterInsert(q) PROVE IInv'
<1> DEFINE f == [req[q] EXCEPT !.pc = "issue"]
<1>1. /\ req[q].pc = "register" /\ UNCHANGED <<token, reset, access, history>>
      /\ Sound(req[q], token, reset, user.sv, consumed) /\ req[q] \in Reqs
  BY OneSound DEF RegisterInsert
<1>2. CASE user.status # "NONE"
  <2>1. req' = [req EXCEPT ![q] = Idle] /\ user' = user
    BY <1>2, Finishing DEF RegisterInsert
  <2> QED BY <1>1, <2>1, IdleSound, IdleApart, Reading
<1>3. CASE user.status = "NONE"
  <2>1. /\ req' = [req EXCEPT ![q] = f]
        /\ user' = [user EXCEPT !.status = "ACTIVE", !.legacy = FALSE]
    BY <1>3 DEF RegisterInsert, Goto
  <2>2. /\ f \in Reqs /\ f.pc = "issue" /\ f.sv = req[q].sv /\ f.saw = req[q].saw
        /\ f.snap = req[q].snap
    BY <1>1 DEF Reqs
  <2> HIDE DEF f
  <2>3. Counted(user, reset, consumed, endings)
    BY DEF IInv
  <2>4. user' \in Users /\ user'.sv = user.sv /\ user'.named = user.named /\ user'.pw = user.pw
    BY <2>1, <2>3 DEF Counted, Users, Statuses
  <2>5. Counted(user', reset', consumed', endings')
    BY <1>1, <2>3, <2>4 DEF Counted, history
  <2>6. Sound(f, token, reset, user.sv, consumed)
    BY <1>1, <2>2 DEF Sound, Seen, Locking
  <2>7. \A g : Apart(f, g)
    BY <2>2 DEF Apart, Locking
  <2>8. RequestsSound(req', token, reset, user.sv, consumed)
    <3>1. user.sv \in Int
      BY CountedTypes
    <3>2. /\ \A p \in Requests : req[p].pc = "rotating" => token[req[p].tok].row = "live"
          /\ \A p \in Requests : req[p].pc = "consuming" => reset[req[p].rst] = "open"
      BY OneSound DEF Sound
    <3> QED BY <2>1, <2>6, <2>7, <3>1, <3>2, Serving
  <2>9. /\ token' = token /\ reset' = reset /\ consumed' = consumed /\ access' = access
        /\ chosen' = chosen /\ closed' = closed
    BY <1>1 DEF history
  <2>10. RowsSound(token') /\ AccessSound(access', user'.sv, consumed') /\ Told'
    BY <2>4, <2>9 DEF IInv, Told
  <2>11. RequestsSound(req', token', reset', user'.sv, consumed')
    BY <2>4, <2>8, <2>9
  <2> QED BY <2>5, <2>10, <2>11, Together
<1> QED BY <1>2, <1>3

LEMMA KeepsRehash == ASSUME IInv, NEW q \in Requests, Rehash(q) PROVE IInv'
<1> DEFINE f == [req[q] EXCEPT !.pc = "issue"]
<1>1. /\ req[q].pc = "rehash" /\ UNCHANGED <<token, reset, access, history>>
      /\ Sound(req[q], token, reset, user.sv, consumed) /\ req[q] \in Reqs
      /\ req' = [req EXCEPT ![q] = f]
      /\ user' = [user EXCEPT !.pw = req[q].pw, !.legacy = FALSE]
  BY OneSound DEF Rehash, Goto
<1>2. /\ f \in Reqs /\ f.pc = "issue" /\ f.sv = req[q].sv /\ f.saw = req[q].saw
      /\ f.snap = req[q].snap /\ req[q].pw \in Passwords
  BY <1>1 DEF Reqs
<1> HIDE DEF f
<1>3. Counted(user, reset, consumed, endings)
  BY DEF IInv
<1>4. user' \in Users /\ user'.sv = user.sv /\ user'.pw \in Passwords
  BY <1>1, <1>2, <1>3 DEF Counted, Users
<1>5. Counted(user', reset', consumed', endings')
  BY <1>1, <1>3, <1>4 DEF Counted, history
<1>6. Sound(f, token, reset, user.sv, consumed)
  BY <1>1, <1>2 DEF Sound, Seen, Locking
<1>7. \A g : Apart(f, g)
  BY <1>2 DEF Apart, Locking
<1>8. RequestsSound(req', token, reset, user.sv, consumed)
  <2>1. user.sv \in Int
    BY CountedTypes
  <2>2. /\ \A p \in Requests : req[p].pc = "rotating" => token[req[p].tok].row = "live"
        /\ \A p \in Requests : req[p].pc = "consuming" => reset[req[p].rst] = "open"
    BY OneSound DEF Sound
  <2> QED BY <1>1, <1>6, <1>7, <2>1, <2>2, Serving
<1>9. /\ token' = token /\ reset' = reset /\ consumed' = consumed /\ access' = access
      /\ chosen' = chosen /\ closed' = closed
  BY <1>1 DEF history
<1>10. RowsSound(token') /\ AccessSound(access', user'.sv, consumed') /\ Told'
  BY <1>4, <1>9 DEF IInv, Told
<1>11. RequestsSound(req', token', reset', user'.sv, consumed')
  BY <1>4, <1>8, <1>9
<1> QED BY <1>5, <1>10, <1>11, Together

LEMMA KeepsIssue == ASSUME IInv, NEW q \in Requests, Issue(q) PROVE IInv'
<1> PICK t \in Unused : token' = Insert(t, t)
  BY DEF Issue
<1> DEFINE a == [sv |-> VersionIssued(q), saw |-> req[q].saw]
<1>1. /\ req[q].pc = "issue" /\ user' = user /\ reset' = reset /\ chosen' = chosen
      /\ endings' = endings /\ consumed' = consumed /\ closed' = closed
      /\ access' = access \cup {a} /\ req' = [req EXCEPT ![q] = Idle]
  BY Finishing DEF Issue, history
<1>2. t \in Tokens /\ token[t].row = "none" /\ token \in [Tokens -> Rows]
  BY DEF Unused, IInv, RowsSound
<1>3. /\ token' \in [Tokens -> Rows] /\ token'[t] = [row |-> "live", family |-> t]
      /\ \A u \in Tokens : u # t => token'[u] = token[u]
  BY <1>2 DEF Insert, Rows
<1>4. /\ RowsSound(token')
      /\ \A u \in Tokens : token[u].row # "none" => token'[u].row # "none"
  <2>1. Grown(token', t, t) /\ RowsSound(token)
    BY <1>2, <1>3 DEF Grown, IInv
  <2> QED BY <2>1, Inserting
<1>5. \A p \in Requests : req[p].pc = "rotating" => token'[req[p].tok].row = "live"
  BY <1>2, <1>3, OneSound DEF Sound, Locking
<1>6. \A p \in Requests : req[p].pc = "consuming" => reset[req[p].rst] = "open"
  BY OneSound DEF Sound
<1>7. RequestsSound(req', token', reset, user.sv, consumed)
  <2>1. user.sv \in Int
    BY CountedTypes
  <2>2. Sound(Idle, token', reset, user.sv, consumed) /\ \A g : Apart(Idle, g)
    BY IdleSound, IdleApart
  <2> QED BY <1>1, <1>4, <1>5, <1>6, <2>1, <2>2, Serving
<1>8. Seen(a, user.sv, consumed) /\ a \in [sv : 0..MaxVersion, saw : SUBSET Resets]
  BY <1>1, OneSound DEF Sound, Seen, VersionIssued, Reqs
<1> HIDE DEF a
<1>9. AccessSound(access', user.sv, consumed)
  BY <1>1, <1>8 DEF IInv, AccessSound
<1>10. Counted(user', reset', consumed', endings') /\ Told'
  BY <1>1 DEF IInv, Told
<1>11. /\ RequestsSound(req', token', reset', user'.sv, consumed')
       /\ AccessSound(access', user'.sv, consumed')
  BY <1>1, <1>7, <1>9
<1> QED BY <1>4, <1>10, <1>11, Together

LEMMA KeepsRotateCommit == ASSUME IInv, NEW q \in Requests, RotateCommit(q) PROVE IInv'
<1> PICK t \in Unused :
      token' = [Insert(t, token[req[q].tok].family) EXCEPT ![req[q].tok].row = "revoked"]
  BY DEF RotateCommit
<1> DEFINE old == req[q].tok
           f == token[old].family
<1>1. /\ req[q].pc = "rotating" /\ UNCHANGED <<user, reset, access, history>>
      /\ req' = [req EXCEPT ![q] = Idle]
  BY Finishing DEF RotateCommit
<1>2. /\ t \in Tokens /\ token[t].row = "none" /\ token \in [Tokens -> Rows]
      /\ old \in Tokens /\ token[old].row = "live"
  BY <1>1, OneSound DEF Unused, IInv, RowsSound, Sound, Locking
<1>3. token' = [Insert(t, f) EXCEPT ![old].row = "revoked"]
  OBVIOUS
<1>4. f \in Tokens /\ token[f].row # "none"
  BY <1>2 DEF IInv, RowsSound
<1>5. RowsSound(token)
  BY DEF IInv
<1>6. \A p \in Requests : p # q /\ req[p].pc = "rotating" =>
         req[p].tok \in Tokens /\ req[p].tok # old /\ token[req[p].tok].row = "live"
  BY <1>1, OneSound DEF Sound, Apart, Locking
<1> HIDE DEF old, f
<1>7. Insert(t, f) \in [Tokens -> Rows] /\ old # t /\ Insert(t, f)[old] = token[old]
  BY <1>2, <1>4 DEF Insert, Rows
<1>8. token[old] \in Rows
  BY <1>2
<1>9. /\ token' \in [Tokens -> Rows] /\ token'[t] = [row |-> "live", family |-> f]
      /\ token'[old].row = "revoked" /\ token'[old].family = token[old].family
      /\ \A u \in Tokens : u # t /\ u # old => token'[u] = token[u]
  BY <1>2, <1>3, <1>4, <1>7, <1>8 DEF Insert, Rows
<1>10. \A u \in Tokens : u # t /\ token'[u].row = "live" => token'[u].family # f
  <2>1. f = token[old].family
    BY DEF f
  <2>2. \A u \in Tokens : token[u].row = "live" /\ token[u].family = f => u = old
    BY <1>2, <1>5, <2>1 DEF RowsSound
  <2> SUFFICES ASSUME NEW u \in Tokens, u # t, token'[u].row = "live", token'[u].family = f
               PROVE  FALSE
    OBVIOUS
  <2>3. CASE u = old
    BY <1>9, <2>3
  <2>4. CASE u # old
    <3>1. token'[u] = token[u]
      BY <1>9, <2>4
    <3> QED BY <2>2, <2>4, <3>1
  <2> QED BY <2>3, <2>4
<1>11. \A u \in Tokens : u # t => /\ token'[u].family = token[u].family
                                  /\ token'[u].row = "none" <=> token[u].row = "none"
                                  /\ token'[u].row = "live" => token[u].row = "live"
  BY <1>2, <1>9
<1>12. /\ RowsSound(token')
       /\ \A u \in Tokens : token[u].row # "none" => token'[u].row # "none"
  <2>1. Grown(token', t, f)
    BY <1>2, <1>4, <1>9, <1>10, <1>11 DEF Grown
  <2> QED BY <1>5, <2>1, Inserting
<1>13. \A p \in Requests : p # q /\ req[p].pc = "rotating" => token'[req[p].tok].row = "live"
  <2> SUFFICES ASSUME NEW p \in Requests, p # q, req[p].pc = "rotating"
               PROVE  token'[req[p].tok].row = "live"
    OBVIOUS
  <2>1. req[p].tok \in Tokens /\ req[p].tok # old /\ token[req[p].tok].row = "live"
    BY <1>6
  <2>2. req[p].tok # t
    BY <1>2, <2>1
  <2> QED BY <1>9, <2>1, <2>2
<1>14. \A p \in Requests : req[p].pc = "consuming" => reset[req[p].rst] = "open"
  BY OneSound DEF Sound
<1>15. RequestsSound(req', token', reset, user.sv, consumed)
  <2>1. user.sv \in Int
    BY CountedTypes
  <2>2. Sound(Idle, token', reset, user.sv, consumed) /\ \A g : Apart(Idle, g)
    BY IdleSound, IdleApart
  <2> QED BY <1>1, <1>12, <1>13, <1>14, <2>1, <2>2, Serving
<1>16. /\ user' = user /\ reset' = reset /\ access' = access /\ consumed' = consumed
       /\ endings' = endings /\ chosen' = chosen /\ closed' = closed
  BY <1>1 DEF history
<1>17. /\ Counted(user', reset', consumed', endings') /\ Told'
       /\ AccessSound(access', user'.sv, consumed')
  BY <1>16 DEF IInv, Told
<1>18. RequestsSound(req', token', reset', user'.sv, consumed')
  BY <1>15, <1>16
<1> QED BY <1>12, <1>17, <1>18, Together

\* What revoking the rows of a request's snapshot means for the others: rows
\* that a rotation has locked are not among them.
LEMMA SnapshotRevoked ==
  ASSUME IInv, NEW q \in Requests, Reached(q)
  PROVE  /\ RowsSound(RevokedRows(req[q].snap))
         /\ \A t \in Tokens : token[t].row # "none" => RevokedRows(req[q].snap)[t].row # "none"
         /\ \A p \in Requests : req[p].pc = "rotating" =>
               RevokedRows(req[q].snap)[req[p].tok].row = "live"
<1> DEFINE S == req[q].snap
<1>1. \A t \in S : token[t].row # "none" /\ ~Locked(t)
  BY OneSound DEF Sound, Reached
<1>2. RowsSound(token)
  BY DEF IInv
<1>3. \A p \in Requests : req[p].pc = "rotating" =>
         /\ req[p].tok \in Tokens /\ req[p].tok \notin S
         /\ token[req[p].tok].row = "live"
  BY <1>1, OneSound DEF Sound, Locked, Locking
<1> HIDE DEF S
<1>4. /\ RowsSound(RevokedRows(S))
      /\ \A t \in Tokens : token[t].row # "none" => RevokedRows(S)[t].row # "none"
      /\ \A t \in Tokens : t \notin S => RevokedRows(S)[t] = token[t]
  BY <1>1, <1>2, Revoking
<1>5. \A p \in Requests : req[p].pc = "rotating" => RevokedRows(S)[req[p].tok].row = "live"
  BY <1>3, <1>4
<1> QED BY <1>4, <1>5 DEF S

\* A request revokes the rows of its snapshot and goes on free of locks.
LEMMA RevokingStep ==
  ASSUME IInv, NEW q \in Requests, Reached(q), token' = RevokedRows(req[q].snap),
         NEW f, req' = [req EXCEPT ![q] = f], UNCHANGED <<user, reset, access, history>>,
         \A tk : Sound(f, tk, reset, user.sv, consumed), \A g : Apart(f, g)
  PROVE  IInv'
<1>1. /\ RowsSound(token')
      /\ \A t \in Tokens : token[t].row # "none" => token'[t].row # "none"
      /\ \A p \in Requests : req[p].pc = "rotating" => token'[req[p].tok].row = "live"
  BY SnapshotRevoked
<1>2. user.sv \in Int
  BY CountedTypes
<1>3. \A p \in Requests : req[p].pc = "consuming" => reset[req[p].rst] = "open"
  BY OneSound DEF Sound
<1>4. Sound(f, token', reset, user.sv, consumed)
  OBVIOUS
<1>5. RequestsSound(req', token', reset, user.sv, consumed)
  BY <1>1, <1>2, <1>3, <1>4, Serving
<1>6. /\ user' = user /\ reset' = reset /\ access' = access /\ consumed' = consumed
      /\ endings' = endings /\ chosen' = chosen /\ closed' = closed
  BY DEF history
<1>7. /\ Counted(user', reset', consumed', endings') /\ Told'
      /\ AccessSound(access', user'.sv, consumed')
  BY <1>6 DEF IInv, Told
<1>8. RequestsSound(req', token', reset', user'.sv, consumed')
  BY <1>5, <1>6
<1> QED BY <1>1, <1>7, <1>8, Together

LEMMA KeepsReuseRevoke == ASSUME IInv, NEW q \in Requests, ReuseRevoke(q) PROVE IInv'
<1>1. /\ Reached(q) /\ token' = RevokedRows(req[q].snap) /\ req' = [req EXCEPT ![q] = Idle]
      /\ UNCHANGED <<user, reset, access, history>>
  BY Finishing DEF ReuseRevoke
<1>2. \A tk : Sound(Idle, tk, reset, user.sv, consumed)
  BY IdleSound
<1> QED BY <1>1, <1>2, IdleApart, RevokingStep

LEMMA KeepsLogoutRevoke == ASSUME IInv, NEW q \in Requests, LogoutRevoke(q) PROVE IInv'
<1> DEFINE f == [req[q] EXCEPT !.pc = "bump", !.looked = FALSE, !.snap = {}]
<1>1. /\ Reached(q) /\ token' = RevokedRows(req[q].snap) /\ req' = [req EXCEPT ![q] = f]
      /\ UNCHANGED <<user, reset, access, history>>
  BY DEF LogoutRevoke, Goto
<1>2. req[q] \in Reqs
  BY OneSound
<1>3. f \in Reqs /\ f.pc = "bump" /\ f.snap = {}
  BY <1>2 DEF Reqs
<1> HIDE DEF f
<1>4. /\ \A tk : Sound(f, tk, reset, user.sv, consumed)
      /\ \A g : Apart(f, g)
  BY <1>3 DEF Sound, Apart, Locking
<1> QED BY <1>1, <1>4, RevokingStep

\* The version moves on and the ending is counted; the rest of the user's row
\* may change with it.
LEMMA EndingCounted ==
  ASSUME IInv, user.sv < MaxVersion, user' \in Users, user'.sv = user.sv + 1,
         user'.named => user'.pw \in Passwords, endings' = endings + 1,
         consumed' = consumed, NEW rs2, rs2 \in [Resets -> {"none", "open", "used", "gone"}],
         \A r \in Resets : reset[r] \in {"used", "gone"} => rs2[r] \in {"used", "gone"}
  PROVE  Counted(user', rs2, consumed', endings')
<1>1. Counted(user, reset, consumed, endings)
  BY DEF IInv
<1>2. user'.sv = endings' + Cardinality(consumed') /\ endings' \in 0..MaxVersion
  BY CountedTypes
<1>3. \A r \in consumed : rs2[r] \in {"used", "gone"}
  BY <1>1 DEF Counted
<1> QED BY <1>1, <1>2, <1>3 DEF Counted

LEMMA KeepsLogoutBump == ASSUME IInv, NEW q \in Requests, LogoutBump(q) PROVE IInv'
<1>1. /\ req' = [req EXCEPT ![q] = Idle] /\ user.sv < MaxVersion
      /\ user' = [user EXCEPT !.sv = user.sv + 1] /\ endings' = endings + 1
      /\ token' = token /\ reset' = reset /\ access' = access /\ chosen' = chosen
      /\ consumed' = consumed /\ closed' = closed
  BY Finishing DEF LogoutBump, Bumped
<1>2. Counted(user, reset, consumed, endings)
  BY DEF IInv
<1>3. user.sv \in 0..MaxVersion /\ MaxVersion \in Nat
  BY CountedTypes
<1>4. user' \in Users /\ user'.sv = user.sv + 1 /\ (user'.named => user'.pw \in Passwords)
  BY <1>1, <1>2, <1>3 DEF Counted, Users
<1>5. Counted(user', reset', consumed', endings')
  <2>1. reset \in [Resets -> {"none", "open", "used", "gone"}]
    BY <1>2 DEF Counted
  <2> QED BY <1>1, <1>4, <2>1, EndingCounted
<1>6. user.sv + 1 \in Int /\ user.sv < user.sv + 1
  BY <1>3
<1>7. AccessSound(access', user'.sv, consumed')
  BY <1>1, <1>4, <1>6, AccessKept
<1>8. RequestsSound(req', token, reset, user.sv + 1, consumed)
  <2>1. /\ \A p \in Requests : req[p].pc = "rotating" => token[req[p].tok].row = "live"
        /\ \A p \in Requests : req[p].pc = "consuming" => reset[req[p].rst] = "open"
    BY OneSound DEF Sound
  <2>2. Sound(Idle, token, reset, user.sv + 1, consumed) /\ \A g : Apart(Idle, g)
    BY IdleSound, IdleApart
  <2> QED BY <1>1, <1>6, <2>1, <2>2, Serving
<1>9. RequestsSound(req', token', reset', user'.sv, consumed')
  BY <1>1, <1>4, <1>8
<1>10. RowsSound(token') /\ Told'
  BY <1>1 DEF IInv, Told
<1> QED BY <1>5, <1>7, <1>9, <1>10, Together

\* A step that no request takes part in.
LEMMA Bystanders ==
  ASSUME IInv, NEW tk2, NEW rs2, NEW sv2 \in Int, NEW co2,
         \A p \in Requests : req[p].pc = "rotating" => tk2[req[p].tok].row = "live",
         \A t \in Tokens : token[t].row # "none" => tk2[t].row # "none",
         \A p \in Requests : req[p].pc = "consuming" => rs2[req[p].rst] = "open",
         user.sv < sv2 \/ (user.sv = sv2 /\ consumed = co2)
  PROVE  RequestsSound(req, tk2, rs2, sv2, co2)
<1>1. user.sv \in Int
  BY CountedTypes
<1>2. ASSUME NEW p \in Requests PROVE Sound(req[p], tk2, rs2, sv2, co2)
  <2> PICK g : g = req[p]
    OBVIOUS
  <2>1. Sound(g, token, reset, user.sv, consumed)
    BY OneSound
  <2>2. /\ g.pc = "rotating" => tk2[g.tok].row = "live"
        /\ g.pc = "consuming" => rs2[g.rst] = "open"
    OBVIOUS
  <2>3. Sound(g, tk2, rs2, sv2, co2)
    BY <1>1, <2>1, <2>2, Undisturbed
  <2> QED BY <2>3
<1> QED BY <1>2 DEF IInv, RequestsSound

LEMMA KeepsResetRequest == ASSUME IInv, NEW q \in Requests, ResetRequest(q) PROVE IInv'
<1> PICK r \in Resets : reset[r] = "none" /\ reset' = [reset EXCEPT ![r] = "open"]
  BY DEF ResetRequest
<1>1. /\ user' = user /\ token' = token /\ req' = req /\ access' = access
      /\ chosen' = chosen /\ endings' = endings /\ consumed' = consumed /\ closed' = closed
  BY DEF ResetRequest, history
<1>2. Counted(user, reset, consumed, endings)
  BY DEF IInv
<1>3. /\ reset' \in [Resets -> {"none", "open", "used", "gone"}]
      /\ \A s \in Resets : s # r => reset'[s] = reset[s]
      /\ \A s \in consumed : s # r
  BY <1>2 DEF Counted
<1>4. Counted(user', reset', consumed', endings')
  BY <1>1, <1>2, <1>3 DEF Counted
<1>5. /\ \A p \in Requests : req[p].pc = "rotating" => token[req[p].tok].row = "live"
      /\ \A p \in Requests : req[p].pc = "consuming" => reset'[req[p].rst] = "open"
  BY <1>3, OneSound DEF Sound
<1>6. user.sv \in Int
  BY CountedTypes
<1>7. RequestsSound(req, token, reset', user.sv, consumed)
  BY <1>5, <1>6, Bystanders
<1>8. RequestsSound(req', token', reset', user'.sv, consumed')
  BY <1>1, <1>7
<1>9. RowsSound(token') /\ Told' /\ AccessSound(access', user'.sv, consumed')
  BY <1>1 DEF IInv, Told
<1> QED BY <1>4, <1>8, <1>9, Together

LEMMA KeepsSetStatus ==
  ASSUME IInv, NEW s \in {"ACTIVE", "SUSPENDED"}, SetStatus(s) PROVE IInv'
<1>1. /\ user.sv < MaxVersion /\ endings' = endings + 1
      /\ user' = [user EXCEPT !.status = s, !.sv = user.sv + 1]
      /\ token' = token /\ reset' = reset /\ req' = req /\ access' = access
      /\ chosen' = chosen /\ consumed' = consumed /\ closed' = closed
  BY DEF SetStatus
<1>2. Counted(user, reset, consumed, endings)
  BY DEF IInv
<1>3. user.sv \in 0..MaxVersion /\ MaxVersion \in Nat
  BY CountedTypes
<1>4. user' \in Users /\ user'.sv = user.sv + 1 /\ (user'.named => user'.pw \in Passwords)
  <2>1. user \in Users /\ (user.named => user.pw \in Passwords)
    BY <1>2 DEF Counted
  <2>2. user.sv + 1 \in 0..MaxVersion /\ s \in Statuses
    BY <1>1, <1>3 DEF Statuses
  <2>3. user' = [user EXCEPT !.status = s, !.sv = user.sv + 1]
    BY <1>1
  <2> QED BY <2>1, <2>2, <2>3 DEF Users
<1>5. Counted(user', reset', consumed', endings')
  <2>1. reset \in [Resets -> {"none", "open", "used", "gone"}]
    BY <1>2 DEF Counted
  <2> QED BY <1>1, <1>4, <2>1, EndingCounted
<1>6. user.sv + 1 \in Int /\ user.sv < user.sv + 1
  BY <1>3
<1>7. AccessSound(access', user'.sv, consumed')
  BY <1>1, <1>4, <1>6, AccessKept
<1>8. RequestsSound(req, token, reset, user.sv + 1, consumed)
  <2>1. /\ \A p \in Requests : req[p].pc = "rotating" => token[req[p].tok].row = "live"
        /\ \A p \in Requests : req[p].pc = "consuming" => reset[req[p].rst] = "open"
    BY OneSound DEF Sound
  <2> QED BY <1>6, <2>1, Bystanders
<1>9. RequestsSound(req', token', reset', user'.sv, consumed')
  BY <1>1, <1>4, <1>8
<1>10. RowsSound(token') /\ Told'
  BY <1>1 DEF IInv, Told
<1> QED BY <1>5, <1>7, <1>9, <1>10, Together

LEMMA KeepsConsumeCommit == ASSUME IInv, NEW q \in Requests, ConsumeCommit(q) PROVE IInv'
<1> DEFINE r == req[q].rst
<1>1. /\ req[q].pc = "consuming" /\ Reached(q) /\ user.sv < MaxVersion
      /\ reset' = [reset EXCEPT ![r] = "used"]
      /\ user' = [user EXCEPT !.pw = r, !.legacy = FALSE, !.sv = user.sv + 1]
      /\ token' = RevokedRows(req[q].snap) /\ chosen' = r /\ consumed' = consumed \cup {r}
      /\ closed' = closed \cup {token[t].family : t \in req[q].snap}
      /\ req' = [req EXCEPT ![q] = Idle] /\ access' = access /\ endings' = endings
  BY Finishing DEF ConsumeCommit
<1>2. r \in Resets /\ reset[r] = "open"
  BY <1>1, OneSound DEF Sound
<1>3. {token[t].family : t \in req[q].snap} \subseteq Tokens
  BY OneSound DEF Sound, IInv, RowsSound, Reqs
<1> HIDE DEF r
<1>4. Counted(user, reset, consumed, endings)
  BY DEF IInv
<1>5. user.sv \in 0..MaxVersion /\ MaxVersion \in Nat
  BY CountedTypes
<1>6. user' \in Users /\ user'.sv = user.sv + 1 /\ user'.pw \in Passwords
  <2>1. user \in Users /\ r \in Passwords /\ user.sv + 1 \in 0..MaxVersion
    BY <1>1, <1>2, <1>4, <1>5 DEF Counted, Passwords
  <2> QED BY <1>1, <2>1 DEF Users
<1>7. /\ reset' \in [Resets -> {"none", "open", "used", "gone"}] /\ r \notin consumed
      /\ \A s \in consumed' : reset'[s] \in {"used", "gone"}
  BY <1>1, <1>2, <1>4 DEF Counted
<1>8. user'.sv = endings' + Cardinality(consumed')
  <2>1. Cardinality(consumed \cup {r}) = Cardinality(consumed) + 1
    BY <1>7, CountedTypes, FS_AddElement
  <2>2. /\ user.sv = endings + Cardinality(consumed) /\ Cardinality(consumed) \in Nat
        /\ endings \in 0..MaxVersion
    BY CountedTypes
  <2>3. user'.sv = user.sv + 1 /\ endings' = endings
        /\ Cardinality(consumed') = Cardinality(consumed) + 1
    BY <1>1, <1>6, <2>1
  <2> QED BY <1>5, <2>2, <2>3
<1>9. Counted(user', reset', consumed', endings')
  BY <1>1, <1>2, <1>4, <1>6, <1>7, <1>8 DEF Counted
<1>10. user.sv + 1 \in Int /\ user.sv < user.sv + 1
  BY <1>5
<1>11. AccessSound(access', user'.sv, consumed')
  BY <1>1, <1>6, <1>10, AccessKept
<1>12. /\ RowsSound(token')
       /\ \A t \in Tokens : token[t].row # "none" => token'[t].row # "none"
       /\ \A p \in Requests : req[p].pc = "rotating" => token'[req[p].tok].row = "live"
  BY <1>1, SnapshotRevoked
<1>13. \A p \in Requests : p # q => req[p].pc # "consuming"
  BY <1>1, OneSound DEF Apart
<1>14. RequestsSound(req', token', reset', user.sv + 1, consumed')
  <2>1. Sound(Idle, token', reset', user.sv + 1, consumed') /\ \A g : Apart(Idle, g)
    BY IdleSound, IdleApart
  <2> QED BY <1>1, <1>10, <1>12, <1>13, <2>1, Serving
<1>15. RequestsSound(req', token', reset', user'.sv, consumed')
  BY <1>6, <1>14
<1>16. Told'
  BY <1>1, <1>2, <1>3 DEF IInv, Told, Passwords
<1> QED BY <1>9, <1>11, <1>12, <1>15, <1>16, Together

LEMMA KeepsDeleteCommit == ASSUME IInv, NEW q \in Requests, DeleteCommit(q) PROVE IInv'
<1>1. /\ user.sv < MaxVersion /\ ~UserLocked /\ \A t \in Tokens : ~Locked(t)
      /\ user' = [user EXCEPT !.status = "DELETED", !.sv = user.sv + 1, !.pw = None,
                              !.legacy = FALSE, !.named = FALSE]
      /\ token' = [t \in Tokens |-> IF token[t].row = "none" THEN token[t]
                                     ELSE [token[t] EXCEPT !.row = "deleted"]]
      /\ reset' = [r \in Resets |-> IF reset[r] = "none" THEN "none" ELSE "gone"]
      /\ endings' = endings + 1 /\ req' = [req EXCEPT ![q] = Idle] /\ access' = access
      /\ chosen' = chosen /\ consumed' = consumed /\ closed' = closed
  BY Finishing DEF DeleteCommit
<1>2. Counted(user, reset, consumed, endings) /\ RowsSound(token)
  BY DEF IInv
<1>3. user.sv \in 0..MaxVersion /\ MaxVersion \in Nat
  BY CountedTypes
<1>4. user' \in Users /\ user'.sv = user.sv + 1 /\ ~user'.named
  <2>1. user \in Users /\ user.sv + 1 \in 0..MaxVersion
    BY <1>1, <1>2, <1>3 DEF Counted
  <2> QED BY <1>1, <2>1 DEF Users, Statuses
<1>5. Counted(user', reset', consumed', endings')
  <2>1. /\ reset' \in [Resets -> {"none", "open", "used", "gone"}]
        /\ \A r \in Resets : reset[r] \in {"used", "gone"} => reset'[r] \in {"used", "gone"}
    BY <1>1
  <2> QED BY <1>1, <1>4, <2>1, EndingCounted
<1>6. user.sv + 1 \in Int /\ user.sv < user.sv + 1
  BY <1>3
<1>7. AccessSound(access', user'.sv, consumed')
  BY <1>1, <1>4, <1>6, AccessKept
<1>8. \A t \in Tokens : /\ token'[t] \in Rows /\ token'[t].family = token[t].family
                        /\ token'[t].row # "live" \/ token[t].row = "none"
                        /\ token'[t].row = "none" <=> token[t].row = "none"
                        /\ token[t].row = "none" => token'[t].row = "none"
  <2> SUFFICES ASSUME NEW t \in Tokens
               PROVE  /\ token'[t] \in Rows /\ token'[t].family = token[t].family
                      /\ token'[t].row # "live" \/ token[t].row = "none"
                      /\ token'[t].row = "none" <=> token[t].row = "none"
                      /\ token[t].row = "none" => token'[t].row = "none"
    OBVIOUS
  <2>1. token[t] \in Rows
    BY <1>2 DEF RowsSound
  <2>2. token'[t] = IF token[t].row = "none" THEN token[t]
                    ELSE [token[t] EXCEPT !.row = "deleted"]
    BY <1>1
  <2> QED BY <2>1, <2>2 DEF Rows
<1>9. token' \in [Tokens -> Rows]
  <2> DEFINE T(t) == IF token[t].row = "none" THEN token[t]
                     ELSE [token[t] EXCEPT !.row = "deleted"]
  <2>1. token' = [t \in Tokens |-> T(t)]
    BY <1>1
  <2>2. \A t \in Tokens : T(t) = token'[t]
    BY <2>1
  <2> HIDE DEF T
  <2> QED BY <1>8, <2>1, <2>2
<1>10. RowsSound(token')
  BY <1>2, <1>8, <1>9 DEF RowsSound
<1>11. \A p \in Requests : req[p].pc \notin {"rotating", "consuming"}
  BY <1>1, OneSound DEF Sound, Locked, Locking, UserLocked
<1>12. RequestsSound(req', token', reset', user.sv + 1, consumed)
  <2>1. Sound(Idle, token', reset', user.sv + 1, consumed) /\ \A g : Apart(Idle, g)
    BY IdleSound, IdleApart
  <2>2. \A t \in Tokens : token[t].row # "none" => token'[t].row # "none"
    BY <1>8
  <2> QED BY <1>1, <1>6, <1>11, <2>1, <2>2, Serving
<1>13. RequestsSound(req', token', reset', user'.sv, consumed')
  BY <1>1, <1>4, <1>12
<1>14. Told'
  BY <1>1 DEF IInv, Told
<1> QED BY <1>5, <1>7, <1>10, <1>13, <1>14, Together

LEMMA KeepsStutter == ASSUME IInv, UNCHANGED vars PROVE IInv'
<1>1. /\ user' = user /\ token' = token /\ reset' = reset /\ req' = req
      /\ access' = access /\ chosen' = chosen /\ endings' = endings
      /\ consumed' = consumed /\ closed' = closed
  BY DEF vars
<1>2. /\ RowsSound(token') /\ Counted(user', reset', consumed', endings')
      /\ AccessSound(access', user'.sv, consumed')
      /\ RequestsSound(req', token', reset', user'.sv, consumed') /\ Told'
  BY <1>1 DEF IInv, Told
<1> QED BY <1>2, Together

LEMMA Inductive == IInv /\ [Next]_vars => IInv'
<1> SUFFICES ASSUME IInv, [Next]_vars PROVE IInv'
  OBVIOUS
<1>1. ASSUME NEW q \in Requests, Serve(q) PROVE IInv'
  <2>1. CASE RegisterCheck(q)
    BY <2>1, KeepsRegisterCheck
  <2>2. CASE RegisterInsert(q)
    BY <2>2, KeepsRegisterInsert
  <2>3. CASE LoginRead(q)
    BY <2>3, KeepsLoginRead
  <2>4. CASE Rehash(q)
    BY <2>4, KeepsRehash
  <2>5. CASE Issue(q)
    BY <2>5, KeepsIssue
  <2>6. CASE RotateLock(q)
    BY <2>6, KeepsRotateLock
  <2>7. CASE RotateCommit(q)
    BY <2>7, KeepsRotateCommit
  <2>8. CASE Snapshot(q)
    BY <2>8, KeepsSnapshot
  <2>9. CASE ReuseRevoke(q)
    BY <2>9, KeepsReuseRevoke
  <2>10. CASE LogoutStart(q)
    BY <2>10, KeepsLogoutStart
  <2>11. CASE LogoutRevoke(q)
    BY <2>11, KeepsLogoutRevoke
  <2>12. CASE LogoutBump(q)
    BY <2>12, KeepsLogoutBump
  <2>13. CASE ResetRequest(q)
    BY <2>13, KeepsResetRequest
  <2>14. CASE ResetFind(q)
    BY <2>14, KeepsResetFind
  <2>15. CASE ConsumeBegin(q)
    BY <2>15, KeepsConsumeBegin
  <2>16. CASE ConsumeCommit(q)
    BY <2>16, KeepsConsumeCommit
  <2>17. CASE DeleteStart(q)
    BY <2>17, KeepsDeleteStart
  <2>18. CASE DeleteCommit(q)
    BY <2>18, KeepsDeleteCommit
  <2>19. CASE Drop(q)
    BY <2>19, KeepsDrop
  <2> QED BY <1>1, <2>1, <2>2, <2>3, <2>4, <2>5, <2>6, <2>7, <2>8, <2>9, <2>10, <2>11,
             <2>12, <2>13, <2>14, <2>15, <2>16, <2>17, <2>18, <2>19 DEF Serve
<1>2. ASSUME NEW s \in {"ACTIVE", "SUSPENDED"}, SetStatus(s) PROVE IInv'
  BY <1>2, KeepsSetStatus
<1>3. CASE UNCHANGED vars
  BY <1>3, KeepsStutter
<1> QED BY <1>1, <1>2, <1>3 DEF Next

LEMMA Strong == Spec => []IInv
BY Invariant0, Inductive, PTL DEF Spec

-----------------------------------------------------------------------------
(* Every variable keeps its type in every reachable state, and a row that a *)
(* rotation has locked stays live until that rotation ends.                 *)
THEOREM TypeCorrect == Spec => []TypeOK
<1>1. IInv => TypeOK
  <2> SUFFICES ASSUME IInv PROVE TypeOK
    OBVIOUS
  <2>1. user \in Users /\ reset \in [Resets -> {"none", "open", "used", "gone"}]
    BY DEF IInv, Counted
  <2>2. token \in [Tokens -> Rows] /\ req \in [Requests -> Reqs]
    BY DEF IInv, RowsSound, RequestsSound
  <2>3. access \subseteq [sv : 0..MaxVersion, saw : SUBSET Resets]
    BY DEF IInv, AccessSound
  <2>4. chosen \in Passwords /\ endings \in 0..MaxVersion /\ consumed \subseteq Resets
        /\ closed \subseteq Tokens
    BY DEF IInv, Told, Counted
  <2>5. \A q \in Requests : req[q].pc = "rotating" => req[q].tok \in Live
    BY OneSound DEF Sound, Locking, Live
  <2> QED BY <2>1, <2>2, <2>3, <2>4, <2>5 DEF TypeOK, Users, Rows, Reqs
<1> QED BY <1>1, Strong, PTL

(* However many requests rotate, reuse and revoke at once, a session never  *)
(* has two live refresh tokens (rotateRefreshToken).                        *)
THEOREM SessionsNeverFork == Spec => []OneLiveToken
<1>1. IInv => OneLiveToken
  BY DEF IInv, RowsSound, OneLiveToken, Live
<1> QED BY <1>1, Strong, PTL

(* The session version counts every sign-out, moderation and deletion that  *)
(* finished and every reset token consumed, each once (repository/auth.js). *)
THEOREM EndingsAreCounted == Spec => []VersionCountsEndings
<1>1. IInv => VersionCountsEndings
  BY DEF IInv, Counted, VersionCountsEndings
<1> QED BY <1>1, Strong, PTL

(* An access token of a login that a password reset overtook is refused     *)
(* (authUser compares the version the login read).                          *)
THEOREM OvertakenLoginsAreRefused == Spec => []LoginSawResets
<1>1. IInv => LoginSawResets
  BY DEF IInv, AccessSound, Seen, Accepted, LoginSawResets
<1> QED BY <1>1, Strong, PTL

(* The account's other parts leave the sessions as they are: what is true of *)
(* the sessions alone is true of the account.                               *)
THEOREM AccountKeepsSessions == AccountSpec => Spec
<1>1. AccountInit => Init
  BY DEF AccountInit
<1>2. [AccountNext]_allVars => [Next]_vars
  BY DEF AccountNext, allVars
<1> QED BY <1>1, <1>2, PTL DEF AccountSpec, Spec

(* The four together, in the account, as one run checks them.               *)
THEOREM SessionsAreSound == AccountSpec => []SessionsSound
<1>1. TypeOK /\ OneLiveToken /\ VersionCountsEndings /\ LoginSawResets => SessionsSound
  BY DEF SessionsSound
<1> QED BY <1>1, AccountKeepsSessions, TypeCorrect, SessionsNeverFork, EndingsAreCounted,
           OvertakenLoginsAreRefused, PTL

-----------------------------------------------------------------------------
(***************************************************************************)
(* Saved searches.  TrimsBound bounds what is left of a user's rows by any *)
(* set of the trims under way, not only by all of them: a trim that ends   *)
(* then turns the bound of the set with it into that of the set without    *)
(* it.  When requests follow each other, the names saved tells of are the  *)
(* user's newest rows: names and rows stand in a bijection, so fewer than  *)
(* Limit rows are newer and the trim's subquery does not choose them.      *)
(***************************************************************************)
SearchInv(s) ==
  /\ Searches(s)!TypeOK /\ Searches(s)!RowsSound
  /\ s.sql => Searches(s)!TrimsBound
  /\ OneAtATime(s) => IF s.sql THEN Searches(s)!SavedAreNewest ELSE Searches(s)!RecentKept

\* An instance has the library's operators under names of its own.
LEMMA SearchSets == ASSUME NEW s
                    PROVE  /\ \A S : Searches(s)!IsFiniteSet(S) <=> IsFiniteSet(S)
                           /\ \A S : Searches(s)!Cardinality(S) = Cardinality(S)
<1>1. \A S : Searches(s)!IsFiniteSet(S) <=> IsFiniteSet(S)
  BY DEF IsFiniteSet, Searches!IsFiniteSet
<1>2. \A S : Searches(s)!Cardinality(S) = Cardinality(S)
  BY DEF Cardinality, Searches!Cardinality
<1> QED BY <1>1, <1>2

LEMMA SearchConstants ==
  ASSUME NEW s, Searches(s)!SavedSearchesAssumption
  PROVE  /\ MaxClock \in Nat /\ Limit \in Nat \ {0} /\ None \notin s.users \cup s.uuids \cup s.texts
         /\ IsFiniteSet(s.requests) /\ IsFiniteSet(s.names) /\ s.sql \in BOOLEAN
<1>1. IsFiniteSet(s.requests) /\ IsFiniteSet(s.names)
  BY SearchSets DEF Searches!SavedSearchesAssumption
<1> QED BY <1>1 DEF Searches!SavedSearchesAssumption

\* Of rows saved at different moments, at most k are among the k newest.
LEMMA NewestFew ==
  ASSUME NEW S, IsFiniteSet(S), \A x \in S : x.at \in Nat, \A x, y \in S : x.at = y.at => x = y,
         NEW k \in Nat
  PROVE  LET N == {x \in S : Cardinality({y \in S : y.at > x.at}) < k}
         IN  IsFiniteSet(N) /\ Cardinality(N) <= k
<1> DEFINE Newer(x) == {y \in S : y.at > x.at}
           N == {x \in S : Cardinality(Newer(x)) < k}
<1>1. IsFiniteSet(N)
  BY FS_Subset
<1>2. CASE N = {}
  <2>1. Cardinality(N) = 0
    BY <1>2, FS_EmptySet
  <2> QED BY <1>1, <2>1
<1>3. CASE N # {}
  <2> DEFINE D == {x.at : x \in N}
  <2>1. D \in SUBSET Nat /\ D # {}
    BY <1>3
  <2>2. PICK d \in D : \A e \in D : ~(<<e, d>> \in OpToRel(<, Nat))
    BY <2>1, NatLessThanWellFounded, WFMin
  <2>3. PICK x \in N : d = x.at
    BY <2>2
  <2>4. ASSUME NEW y \in N \ {x} PROVE y \in Newer(x)
    <3>1. y.at \in D /\ y.at \in Nat /\ d \in Nat /\ y.at # d
      BY <2>1, <2>3, <2>4
    <3>2. ~(y.at < d)
      BY <2>2, <3>1 DEF OpToRel
    <3> QED BY <2>3, <3>1, <3>2
  <2>5. IsFiniteSet(Newer(x)) /\ Cardinality(Newer(x)) < k
    BY <2>3, FS_Subset
  <2>6. Cardinality(N \ {x}) <= Cardinality(Newer(x))
    BY <2>4, <2>5, FS_Subset
  <2>7. Cardinality(N \ {x}) = Cardinality(N) - 1
    BY <1>1, <2>3, FS_RemoveElement
  <2>8. Cardinality(N) \in Nat /\ Cardinality(N \ {x}) \in Nat /\ Cardinality(Newer(x)) \in Nat
    BY <1>1, <2>5, FS_CardinalityType, FS_RemoveElement
  <2>9. Cardinality(N) <= k
    <3> HIDE DEF N, Newer
    <3> QED BY <2>5, <2>6, <2>7, <2>8
  <2> QED BY <1>1, <2>9
<1> QED BY <1>1, <1>2, <1>3

LEMMA PartCount ==
  ASSUME NEW T, IsFiniteSet(T), NEW S \in SUBSET T
  PROVE  IsFiniteSet(S) /\ Cardinality(S) \in Nat /\ Cardinality(T) \in Nat /\ Cardinality(S) <= Cardinality(T)
BY FS_Subset, FS_CardinalityType

LEMMA OneMoreCount ==
  ASSUME NEW S, IsFiniteSet(S), NEW x, NEW T \in SUBSET (S \cup {x})
  PROVE  /\ IsFiniteSet(T) /\ Cardinality(T) \in Nat /\ Cardinality(S) \in Nat
         /\ Cardinality(T) <= Cardinality(S) + 1
<1> DEFINE U == S \cup {x}
<1>1. IsFiniteSet(U) /\ Cardinality(U) <= Cardinality(S) + 1
  <2>1. IsFiniteSet(U) /\ (x \in S => U = S)
    BY FS_AddElement
  <2>2. x \notin S => Cardinality(U) = Cardinality(S) + 1
    BY FS_AddElement
  <2>3. Cardinality(S) \in Nat
    BY FS_CardinalityType
  <2> HIDE DEF U
  <2>4. CASE x \in S
    BY <2>1, <2>3, <2>4
  <2>5. CASE x \notin S
    BY <2>1, <2>2, <2>3, <2>5
  <2> QED BY <2>4, <2>5
<1>2. Cardinality(T) <= Cardinality(U) /\ Cardinality(U) \in Nat
      /\ IsFiniteSet(T) /\ Cardinality(T) \in Nat /\ Cardinality(S) \in Nat
  BY <1>1, PartCount, FS_CardinalityType
<1> QED BY <1>1, <1>2

LEMMA TrimsBoundAt ==
  ASSUME NEW s, Searches(s)!TrimsBound, NEW u \in s.users,
         NEW R \in SUBSET {q \in s.requests : searchReq[q].pc = "trimming" /\ searchReq[q].user = u}
  PROVE  Cardinality({x \in {y \in rows : y.user = u} : x.id \notin UNION {searchReq[q].old : q \in R}})
           <= Limit + Cardinality({q \in s.requests : searchReq[q].user = u} \ R)
<1>1. Searches(s)!Trimming(u) = {q \in s.requests : searchReq[q].pc = "trimming" /\ searchReq[q].user = u}
  BY DEF Searches!Trimming
<1>2. Searches(s)!Doomed(R) = UNION {searchReq[q].old : q \in R}
  BY DEF Searches!Doomed
<1>3. Searches(s)!Of(u) = {y \in rows : y.user = u}
  BY DEF Searches!Of
<1>4. Searches(s)!Cardinality({x \in Searches(s)!Of(u) : x.id \notin Searches(s)!Doomed(R)})
        <= Limit + Searches(s)!Cardinality({q \in s.requests : searchReq[q].user = u} \ R)
  BY <1>1 DEF Searches!TrimsBound
<1> QED BY <1>2, <1>3, <1>4, SearchSets

LEMMA SearchBegins ==
  ASSUME NEW s, Searches(s)!SavedSearchesAssumption, Searches(s)!Init
  PROVE  SearchInv(s)
<1>1. Searches(s)!TypeOK
  BY DEF Searches!Init, Searches!TypeOK, Searches!Ids, Searches!SavedSearchesAssumption
<1>2. Searches(s)!RowsSound
  BY FS_EmptySet, SearchSets DEF Searches!Init, Searches!RowsSound, Searches!SavedSearchesAssumption
<1>3. Searches(s)!TrimsBound
  <2> SUFFICES ASSUME NEW u \in s.users, NEW R \in SUBSET Searches(s)!Trimming(u)
               PROVE  Cardinality({x \in Searches(s)!Of(u) : x.id \notin Searches(s)!Doomed(R)})
                        <= Limit + Cardinality({r \in s.requests : searchReq[r].user = u} \ R)
    BY SearchSets DEF Searches!TrimsBound
  <2>1. Cardinality({x \in Searches(s)!Of(u) : x.id \notin Searches(s)!Doomed(R)}) = 0
    BY FS_EmptySet DEF Searches!Init, Searches!Of
  <2>2. Cardinality({r \in s.requests : searchReq[r].user = u} \ R) \in Nat
    BY SearchSets, FS_Subset, FS_CardinalityType DEF Searches!SavedSearchesAssumption
  <2> QED BY <2>1, <2>2 DEF Searches!SavedSearchesAssumption
<1>4. Searches(s)!SavedAreNewest /\ Searches(s)!RecentKept
  BY DEF Searches!Init, Searches!SavedAreNewest, Searches!RecentKept
<1> QED BY <1>1, <1>2, <1>3, <1>4 DEF SearchInv

\* What an insert or update of a name makes of the table.
LEMMA Upserted ==
  ASSUME NEW s, Searches(s)!SavedSearchesAssumption, s.sql, Searches(s)!TypeOK, Searches(s)!RowsSound,
         NEW u \in s.users, NEW n \in s.names, NEW i \in s.uuids \cup s.texts, NEW at,
         (\A x \in rows : x.user = u => x.name # n) => \A x \in rows : x.id # i
  PROVE  LET hit == {x \in rows : x.user = u /\ x.name = n}
             old == {x \in {y \in rows : y.user = u} : x.name = n}
             id  == IF old = {} THEN i ELSE (CHOOSE x \in old : TRUE).id
         IN  id \in s.uuids \cup s.texts /\ old = hit /\ \A y \in rows \ hit : y.id # id
<1> DEFINE hit == {x \in rows : x.user = u /\ x.name = n}
<1>1. CASE hit = {}
  BY <1>1
<1>2. CASE hit # {}
  <2>1. PICK h \in rows : hit = {h}
    BY <1>2 DEF Searches!RowsSound
  <2>2. (CHOOSE x \in hit : TRUE) = h
    BY <2>1
  <2>3. h.id \in s.uuids \cup s.texts /\ \A y \in rows : y.id = h.id => y = h
    BY DEF Searches!TypeOK, Searches!Ids
  <2> QED BY <2>1, <2>2, <2>3
<1> QED BY <1>1, <1>2

\* A step that leaves table, requests and history alone.
LEMMA SearchRests ==
  ASSUME NEW s, SearchInv(s), Searches(s)!SavedSearchesAssumption,
         rows' = rows, searchReq' = searchReq, saved' = saved, clock' \in {clock, clock + 1}
  PROVE  /\ Searches(s)!RowsSound'
         /\ s.sql => Searches(s)!TrimsBound'
         /\ OneAtATime(s) => IF s.sql THEN Searches(s)!SavedAreNewest' ELSE Searches(s)!RecentKept'
<1>1. Searches(s)!RowsSound'
  <2>1. \A x \in rows : x.at \in Nat /\ clock \in Nat
    BY DEF SearchInv, Searches!TypeOK
  <2> QED BY <2>1 DEF SearchInv, Searches!RowsSound
<1>2. s.sql => Searches(s)!TrimsBound'
  BY DEF SearchInv, Searches!TrimsBound, Searches!Of, Searches!Doomed, Searches!Trimming
<1>3. OneAtATime(s) => IF s.sql THEN Searches(s)!SavedAreNewest' ELSE Searches(s)!RecentKept'
  BY DEF SearchInv, Searches!SavedAreNewest, Searches!RecentKept, Searches!Of, Searches!RowSaved, Searches!Trimming
<1> QED BY <1>1, <1>2, <1>3

LEMMA SaveSqlKeeps ==
  ASSUME NEW s, SearchInv(s), Searches(s)!SavedSearchesAssumption,
         NEW r \in s.requests, NEW u \in s.users, NEW i \in s.uuids \cup s.texts \cup {None}, NEW n \in s.names,
         Searches(s)!SaveSql(r, u, i, n)
  PROVE  SearchInv(s)'
<1>1. /\ s.sql /\ searchReq[r].pc = "idle" /\ clock < MaxClock /\ clock' = clock + 1 /\ clock \in Nat
  BY DEF Searches!SaveSql, Searches!Tick, SearchInv, Searches!TypeOK
<1>2. CASE i # None /\ Searches(s)!Refused(u, i, n)
  <2>1. rows' = rows /\ searchReq' = searchReq /\ saved' = saved
        /\ answer' = [answer EXCEPT ![r] = [op |-> "put", found |-> FALSE, status |-> 500]]
    BY <1>2, SearchConstants DEF Searches!SaveSql, Searches!GivenId, Searches!Answer
  <2>2. Searches(s)!TypeOK'
    BY <1>1, <2>1, SearchConstants DEF SearchInv, Searches!TypeOK, Searches!Ids
  <2> QED BY <1>1, <2>1, <2>2, SearchRests DEF SearchInv, OneAtATime
<1>3. CASE ~(i # None /\ Searches(s)!Refused(u, i, n))
  <2> DEFINE hit == {x \in rows : x.user = u /\ x.name = n}
             mine == {x \in {y \in rows : y.user = u} : x.name = n}
  <2>1. PICK new \in IF i # None THEN {i} ELSE s.uuids \ {x.id : x \in rows} :
          /\ rows' = Searches(s)!Upsert(u, new, n)
          /\ Searches(s)!Remember(u, n, s.names)
          /\ searchReq' = [searchReq EXCEPT ![r].pc = "saved", ![r].user = u]
          /\ answer' = answer
    BY <1>3 DEF Searches!SaveSql, Searches!GivenId
  <2> DEFINE id == IF mine = {} THEN new ELSE (CHOOSE x \in mine : TRUE).id
             row == [id |-> id, user |-> u, name |-> n, at |-> clock + 1]
  <2>2. new \in s.uuids \cup s.texts
    BY <2>1
  <2>3. (\A x \in rows : x.user = u => x.name # n) => \A x \in rows : x.id # new
    BY <1>3, <2>1 DEF Searches!Refused, Searches!Of
  <2>4. id \in s.uuids \cup s.texts /\ mine = hit /\ \A y \in rows \ hit : y.id # id
    BY <1>1, <2>2, <2>3, Upserted DEF SearchInv
  <2>5. rows' = (rows \ hit) \cup {row}
    BY <1>1, <2>1, <2>4 DEF Searches!Upsert, Searches!Of
  <2>6. row \in [id : s.uuids \cup s.texts, user : s.users, name : s.names, at : 1..MaxClock]
    BY <1>1, <2>4, SearchConstants
  <2>7. \A x \in rows : x \in [id : s.uuids \cup s.texts, user : s.users, name : s.names, at : 1..MaxClock]
                        /\ x.at <= clock /\ x.at \in Nat
    BY DEF SearchInv, Searches!TypeOK, Searches!RowsSound, Searches!Ids
  <2> HIDE DEF row
  <2>8. row.user = u /\ row.name = n /\ row.at = clock + 1 /\ row.id = id
    BY DEF row
  <2>9. Searches(s)!TypeOK'
    <3>1. rows' \subseteq [id : s.uuids \cup s.texts, user : s.users, name : s.names, at : 1..MaxClock]
      BY <2>5, <2>6, <2>7
    <3>2. s.sql => \A x, y \in rows' : x.id = y.id => x = y
      BY <2>4, <2>5, <2>8 DEF SearchInv, Searches!TypeOK
    <3>3. saved' \in [s.users -> [s.names -> 0..MaxClock]]
      BY <1>1, <2>1, SearchConstants DEF SearchInv, Searches!TypeOK, Searches!Remember
    <3>4. searchReq' \in [s.requests -> [pc : {"idle", "saved", "trimming"}, user : s.users \cup {None},
                                        old : SUBSET (s.uuids \cup s.texts)]]
      BY SMTT(30), <2>1 DEF SearchInv, Searches!TypeOK, Searches!Ids
    <3>5. clock' \in 0..MaxClock
      BY <1>1, SearchConstants
    <3> QED BY <2>1, <3>1, <3>2, <3>3, <3>4, <3>5 DEF SearchInv, Searches!TypeOK, Searches!Ids
  <2>10. Searches(s)!RowsSound'
    <3>1. IsFiniteSet(rows')
      BY <2>5, FS_Subset, FS_AddElement, SearchSets DEF SearchInv, Searches!RowsSound
    <3>2. \A x, y \in rows' : x.at = y.at => x = y
      BY <1>1, <2>5, <2>7, <2>8 DEF SearchInv, Searches!RowsSound
    <3>3. \A x \in rows' : x.at <= clock'
      BY <1>1, <2>5, <2>7, <2>8
    <3>4. \A x, y \in rows' : x.user = y.user /\ x.name = y.name => x = y
      BY <1>1, <2>5, <2>8 DEF SearchInv, Searches!RowsSound
    <3>5. \A q \in s.requests : searchReq'[q].pc = "idle" <=> searchReq'[q].user = None
      BY <2>1, SearchConstants DEF SearchInv, Searches!RowsSound, Searches!TypeOK
    <3> QED BY <1>1, <3>1, <3>2, <3>3, <3>4, <3>5, SearchSets DEF Searches!RowsSound
  <2>11. Searches(s)!TrimsBound'
    <3> SUFFICES ASSUME NEW v \in s.users, NEW R \in SUBSET {q \in s.requests : searchReq'[q].pc = "trimming" /\ searchReq'[q].user = v}
                 PROVE  Cardinality({x \in {y \in rows' : y.user = v} : x.id \notin UNION {searchReq'[q].old : q \in R}})
                          <= Limit + Cardinality({q \in s.requests : searchReq'[q].user = v} \ R)
      BY SearchSets DEF Searches!TrimsBound, Searches!Of, Searches!Doomed, Searches!Trimming
    <3> DEFINE before == {x \in {y \in rows : y.user = v} : x.id \notin UNION {searchReq[q].old : q \in R}}
               after == {x \in {y \in rows' : y.user = v} : x.id \notin UNION {searchReq'[q].old : q \in R}}
               busy == {q \in s.requests : searchReq[q].user = v} \ R
               busyAfter == {q \in s.requests : searchReq'[q].user = v} \ R
    <3>1. \A q \in s.requests : /\ searchReq'[q].old = searchReq[q].old
                                /\ q # r => searchReq'[q] = searchReq[q]
                                /\ q = r => searchReq'[q].pc = "saved" /\ searchReq'[q].user = u
      BY <2>1 DEF SearchInv, Searches!TypeOK
    <3>2. R \in SUBSET {q \in s.requests : searchReq[q].pc = "trimming" /\ searchReq[q].user = v} /\ r \notin R
      BY <3>1
    <3>3. Cardinality(before) <= Limit + Cardinality(busy)
      BY <1>1, <3>2, TrimsBoundAt DEF SearchInv
    <3>4. IsFiniteSet(before) /\ IsFiniteSet(busy)
      BY SearchSets, SearchConstants, FS_Subset DEF SearchInv, Searches!RowsSound
    <3>5. UNION {searchReq'[q].old : q \in R} = UNION {searchReq[q].old : q \in R}
      BY <3>1
    <3>6. CASE v # u
      <4>1. after = before
        BY <2>5, <2>8, <3>5, <3>6
      <4>2. busyAfter = busy
        BY <1>1, <3>1, <3>6, SearchConstants DEF SearchInv, Searches!RowsSound
      <4> QED BY <3>3, <4>1, <4>2
    <3>7. CASE v = u
      <4>1. after \subseteq before \cup {row}
        BY <2>5, <3>5
      <4>2. busyAfter = busy \cup {r} /\ r \notin busy
        BY <1>1, <3>1, <3>2, <3>7, SearchConstants DEF SearchInv, Searches!RowsSound
      <4> HIDE DEF after, before, busy, busyAfter
      <4>3. Cardinality(after) <= Cardinality(before) + 1 /\ Cardinality(after) \in Nat /\ Cardinality(before) \in Nat
        BY <3>4, <4>1, OneMoreCount
      <4>4. Cardinality(busyAfter) = Cardinality(busy) + 1 /\ Cardinality(busy) \in Nat
        BY <3>4, <4>2, FS_AddElement, FS_CardinalityType
      <4>5. Cardinality(after) <= Limit + Cardinality(busyAfter)
        BY <3>3, <4>3, <4>4, SearchConstants
      <4> QED BY <3>7, <4>5 DEF after, busyAfter
    <3> QED BY <3>6, <3>7
  <2>12. OneAtATime(s) => Searches(s)!SavedAreNewest'
    <3> DEFINE f == [m \in s.names |-> IF m = n THEN clock + 1 ELSE saved[u][m]]
               Above(m) == {k \in s.names : f[k] > f[m]}
    <3> SUFFICES ASSUME OneAtATime(s), NEW v \in s.users, NEW k \in s.names, saved'[v][k] > 0
                 PROVE  /\ \E x \in rows' : x.user = v /\ x.name = k /\ x.at = saved'[v][k]
                        /\ Cardinality({m \in s.names : saved'[v][m] > saved'[v][k]}) < Limit
                        /\ \A x \in rows' : x.user = v /\ x.at > saved'[v][k] => saved'[v][x.name] = x.at
                        /\ \A q \in s.requests : searchReq'[q].pc # "trimming"
      BY SearchSets DEF Searches!SavedAreNewest, Searches!Of, Searches!RowSaved, Searches!Trimming
    <3>1. \A q \in s.requests : searchReq'[q].pc # "trimming"
      BY <2>1 DEF OneAtATime, SearchInv, Searches!TypeOK
    <3>2. \A w \in s.users, m \in s.names : saved[w][m] \in 0..MaxClock /\ saved[w][m] \in Nat
      BY SearchConstants DEF SearchInv, Searches!TypeOK
    <3>3. \A w \in s.users, m \in s.names : saved[w][m] > 0 =>
            /\ \E x \in rows : x.user = w /\ x.name = m /\ x.at = saved[w][m]
            /\ Cardinality({j \in s.names : saved[w][j] > saved[w][m]}) < Limit
      BY <1>1, SearchSets DEF OneAtATime, SearchInv, Searches!SavedAreNewest, Searches!Of, Searches!RowSaved
    <3>4. \A w \in s.users, m \in s.names, x \in rows :
            saved[w][m] > 0 /\ x.user = w /\ x.at > saved[w][m] => saved[w][x.name] = x.at
      BY <1>1 DEF OneAtATime, SearchInv, Searches!SavedAreNewest, Searches!Of
    <3>5. CASE v # u
      <4>1. saved'[v] = saved[v]
        BY <2>1, <3>5 DEF Searches!Remember, SearchInv, Searches!TypeOK
      <4>2. \A x : x.user = v => (x \in rows' <=> x \in rows)
        BY <2>5, <2>8, <3>5
      <4>3. \E x \in rows' : x.user = v /\ x.name = k /\ x.at = saved'[v][k]
        <5>1. PICK x \in rows : x.user = v /\ x.name = k /\ x.at = saved[v][k]
          BY <3>2, <3>3, <4>1
        <5> QED BY <4>1, <4>2, <5>1
      <4>4. Cardinality({m \in s.names : saved'[v][m] > saved'[v][k]}) < Limit
        BY <3>3, <4>1
      <4>5. \A x \in rows' : x.user = v /\ x.at > saved'[v][k] => saved'[v][x.name] = x.at
        <5> SUFFICES ASSUME NEW x \in rows', x.user = v, x.at > saved'[v][k] PROVE saved'[v][x.name] = x.at
          OBVIOUS
        <5>1. x \in rows /\ x.at > saved[v][k] /\ saved[v][k] > 0
          BY <4>1, <4>2
        <5>2. saved[v][x.name] = x.at
          BY <3>4, <5>1
        <5> QED BY <4>1, <5>2
      <4> QED BY <3>1, <4>3, <4>4, <4>5
    <3>6. CASE v = u
      <4>1. \A m \in s.names : f[m] \in Nat
        BY <1>1, <3>2
      <4>2. \A m \in s.names : saved'[u][m] = IF Cardinality(Above(m)) < Limit THEN f[m] ELSE 0
        <5>1. \A m \in s.names : saved'[u][m] = IF Searches(s)!Cardinality(Above(m)) < Limit THEN f[m] ELSE 0
          <6>1. f = [m \in s.names |-> IF m = n THEN clock' ELSE IF m \in s.names THEN saved[u][m] ELSE 0]
            BY <1>1
          <6> HIDE DEF f
          <6>2. saved' = [saved EXCEPT ![u] = [m \in s.names |->
                  IF Searches(s)!Cardinality({j \in s.names : f[j] > f[m]}) < Limit THEN f[m] ELSE 0]]
            BY <2>1, <6>1 DEF Searches!Remember
          <6> QED BY <6>2 DEF SearchInv, Searches!TypeOK
        <5> HIDE DEF f
        <5> QED BY <5>1, SearchSets
      <4>3. \A m \in s.names : IsFiniteSet(Above(m)) /\ Cardinality(Above(m)) \in Nat
        BY SearchConstants, FS_Subset, FS_CardinalityType
      <4> HIDE DEF f
      <4>4. saved'[u][k] = f[k] /\ f[k] > 0 /\ Cardinality(Above(k)) < Limit
        BY <3>6, <4>2
      <4>5. Cardinality({m \in s.names : saved'[u][m] > saved'[u][k]}) < Limit
        <5>1. {m \in s.names : saved'[u][m] > saved'[u][k]} \subseteq Above(k)
          <6> SUFFICES ASSUME NEW m \in s.names, saved'[u][m] > saved'[u][k] PROVE f[m] > f[k]
            OBVIOUS
          <6>1. saved'[u][m] > f[k] /\ saved'[u][m] \in {f[m], 0} /\ f[k] > 0 /\ f[k] \in Nat /\ f[m] \in Nat
            BY <4>1, <4>2, <4>4
          <6> QED BY <6>1
        <5>2. Cardinality({m \in s.names : saved'[u][m] > saved'[u][k]}) <= Cardinality(Above(k))
          BY <4>3, <5>1, FS_Subset
        <5>3. Cardinality({m \in s.names : saved'[u][m] > saved'[u][k]}) \in Nat
          BY <4>3, <5>1, FS_Subset, FS_CardinalityType
        <5> QED BY <4>3, <4>4, <5>2, <5>3, SearchConstants
      <4>6. \E x \in rows' : x.user = u /\ x.name = k /\ x.at = f[k]
        <5>1. CASE k = n
          BY <2>5, <2>8, <5>1 DEF f
        <5>2. CASE k # n
          <6>1. f[k] = saved[u][k]
            BY <5>2 DEF f
          <6>2. PICK x \in rows : x.user = u /\ x.name = k /\ x.at = saved[u][k]
            BY <3>3, <4>4, <6>1
          <6> QED BY <2>5, <5>2, <6>1, <6>2
        <5> QED BY <5>1, <5>2
      <4>7. ASSUME NEW x \in rows', x.user = u, x.at > f[k] PROVE saved'[u][x.name] = x.at
        <5>1. CASE x = row
          <6>1. Above(n) = {}
            <7> SUFFICES ASSUME NEW m \in s.names, f[m] > f[n] PROVE FALSE
              OBVIOUS
            <7>1. f[n] = clock + 1 /\ m # n /\ f[m] = saved[u][m]
              BY <1>1, <4>1 DEF f
            <7>2. saved[u][m] > 0
              BY <1>1, <3>2, <7>1
            <7>3. PICK y \in rows : y.user = u /\ y.name = m /\ y.at = saved[u][m]
              BY <3>3, <7>2
            <7> QED BY <1>1, <2>7, <7>1, <7>3
          <6>2. Cardinality(Above(n)) < Limit
            <7>1. Cardinality(Above(n)) = 0
              BY <6>1, FS_EmptySet
            <7> QED BY <7>1, SearchConstants
          <6> QED BY <2>8, <4>2, <5>1, <6>2 DEF f
        <5>2. CASE x # row
          <6>1. x \in rows /\ x.name # n /\ x.name \in s.names /\ x.at \in Nat /\ x.at <= clock
            BY <2>5, <2>7, <4>7, <5>2
          <6>2. k # n
            BY <1>1, <4>7, <6>1 DEF f
          <6>3. f[k] = saved[u][k] /\ f[x.name] = saved[u][x.name]
            BY <6>1, <6>2 DEF f
          <6>4. saved[u][x.name] = x.at
            <7>1. saved[u][k] > 0 /\ x.at > saved[u][k]
              BY <4>4, <4>7, <6>3
            <7> QED BY <3>4, <4>7, <6>1, <7>1
          <6>5. Above(x.name) \subseteq Above(k)
            BY <4>1, <4>7, <6>1, <6>3, <6>4
          <6>6. Cardinality(Above(x.name)) < Limit
            <7>1. Cardinality(Above(x.name)) <= Cardinality(Above(k)) /\ Cardinality(Above(x.name)) \in Nat
                  /\ Cardinality(Above(k)) \in Nat
              <8> HIDE DEF Above
              <8> QED BY <4>3, <6>1, <6>5, FS_Subset
            <7> QED BY <4>4, <7>1, SearchConstants
          <6> QED BY <4>2, <6>1, <6>3, <6>4, <6>6
        <5> QED BY <5>1, <5>2
      <4> QED BY <3>1, <3>6, <4>4, <4>5, <4>6, <4>7
    <3> QED BY <3>5, <3>6
  <2> QED BY <1>1, <2>9, <2>10, <2>11, <2>12 DEF SearchInv, OneAtATime
<1> QED BY <1>2, <1>3

\* Rows no older than one that saved tells of are told of as well.
LEMMA SavedSqlFacts ==
  ASSUME NEW s, SearchInv(s), OneAtATime(s), s.sql
  PROVE  /\ \A w \in s.users, m \in s.names : saved[w][m] \in Nat
         /\ \A w \in s.users, m \in s.names : saved[w][m] > 0 =>
              \E x \in rows : x.user = w /\ x.name = m /\ x.at = saved[w][m]
         /\ \A w \in s.users, m \in s.names : saved[w][m] > 0 =>
              Cardinality({j \in s.names : saved[w][j] > saved[w][m]}) < Limit
         /\ \A w \in s.users, m \in s.names, x \in rows :
              saved[w][m] > 0 /\ x.user = w /\ x.at > saved[w][m] => saved[w][x.name] = x.at
         /\ \A w \in s.users, m \in s.names, q \in s.requests, x \in rows :
              /\ saved[w][m] > 0 /\ searchReq[q].pc = "trimming" /\ searchReq[q].user = w
              /\ x.user = w /\ x.name = m /\ x.at = saved[w][m]
              => x.id \notin searchReq[q].old
         /\ \A q, t \in s.requests : q = t
<1>1. \A w \in s.users, m \in s.names : saved[w][m] \in Nat
  BY DEF SearchInv, Searches!TypeOK
<1>2. \A w \in s.users, m \in s.names : saved[w][m] > 0 =>
              \E x \in rows : x.user = w /\ x.name = m /\ x.at = saved[w][m]
  <2> SUFFICES ASSUME NEW w \in s.users, NEW m \in s.names, saved[w][m] > 0
               PROVE  \E x \in rows : x.user = w /\ x.name = m /\ x.at = saved[w][m]
    OBVIOUS
  <2>1. Searches(s)!RowSaved(w, m) # {}
    BY DEF SearchInv, Searches!SavedAreNewest
  <2> QED BY <2>1 DEF Searches!Of, Searches!RowSaved
<1>3. \A w \in s.users, m \in s.names : saved[w][m] > 0 =>
              Cardinality({j \in s.names : saved[w][j] > saved[w][m]}) < Limit
  BY SearchSets DEF SearchInv, Searches!SavedAreNewest
<1>4. \A w \in s.users, m \in s.names, x \in rows :
              saved[w][m] > 0 /\ x.user = w /\ x.at > saved[w][m] => saved[w][x.name] = x.at
  BY DEF SearchInv, Searches!SavedAreNewest, Searches!Of
<1>5. \A w \in s.users, m \in s.names, q \in s.requests, x \in rows :
              /\ saved[w][m] > 0 /\ searchReq[q].pc = "trimming" /\ searchReq[q].user = w
              /\ x.user = w /\ x.name = m /\ x.at = saved[w][m]
              => x.id \notin searchReq[q].old
  BY DEF SearchInv, Searches!SavedAreNewest, Searches!Of, Searches!RowSaved, Searches!Trimming
<1> QED BY <1>1, <1>2, <1>3, <1>4, <1>5 DEF OneAtATime

\* What SavedAreNewest' is made of.
LEMMA SavedSqlThen ==
  ASSUME NEW s,
         \A w \in s.users, m \in s.names : saved'[w][m] > 0 =>
              \E x \in rows' : x.user = w /\ x.name = m /\ x.at = saved'[w][m],
         \A w \in s.users, m \in s.names : saved'[w][m] > 0 =>
              Cardinality({j \in s.names : saved'[w][j] > saved'[w][m]}) < Limit,
         \A w \in s.users, m \in s.names, x \in rows' :
              saved'[w][m] > 0 /\ x.user = w /\ x.at > saved'[w][m] => saved'[w][x.name] = x.at,
         \A w \in s.users, m \in s.names, q \in s.requests, x \in rows' :
              /\ saved'[w][m] > 0 /\ searchReq'[q].pc = "trimming" /\ searchReq'[q].user = w
              /\ x.user = w /\ x.name = m /\ x.at = saved'[w][m]
              => x.id \notin searchReq'[q].old
  PROVE  Searches(s)!SavedAreNewest'
<1> SUFFICES ASSUME NEW u \in s.users, NEW n \in s.names, saved'[u][n] > 0
             PROVE  /\ {x \in {y \in rows' : y.user = u} : x.name = n /\ x.at = saved'[u][n]} # {}
                    /\ Cardinality({m \in s.names : saved'[u][m] > saved'[u][n]}) < Limit
                    /\ \A x \in {y \in rows' : y.user = u} : x.at > saved'[u][n] => saved'[u][x.name] = x.at
                    /\ \A q \in {q \in s.requests : searchReq'[q].pc = "trimming" /\ searchReq'[q].user = u} :
                         \A x \in {x \in {y \in rows' : y.user = u} : x.name = n /\ x.at = saved'[u][n]} :
                           x.id \notin searchReq'[q].old
  BY SearchSets DEF Searches!SavedAreNewest, Searches!Of, Searches!RowSaved, Searches!Trimming
<1>1. \E x \in rows' : x.user = u /\ x.name = n /\ x.at = saved'[u][n]
  OBVIOUS
<1>2. Cardinality({m \in s.names : saved'[u][m] > saved'[u][n]}) < Limit
  OBVIOUS
<1>3. \A x \in {y \in rows' : y.user = u} : x.at > saved'[u][n] => saved'[u][x.name] = x.at
  OBVIOUS
<1>4. \A q \in {q \in s.requests : searchReq'[q].pc = "trimming" /\ searchReq'[q].user = u} :
        \A x \in {x \in {y \in rows' : y.user = u} : x.name = n /\ x.at = saved'[u][n]} :
           x.id \notin searchReq'[q].old
  OBVIOUS
<1> QED BY <1>1, <1>2, <1>3, <1>4

LEMMA TrimsBoundThen ==
  ASSUME NEW s,
         ASSUME NEW v \in s.users,
                NEW R \in SUBSET {q \in s.requests : searchReq'[q].pc = "trimming" /\ searchReq'[q].user = v}
         PROVE  Cardinality({x \in {y \in rows' : y.user = v} : x.id \notin UNION {searchReq'[q].old : q \in R}})
                  <= Limit + Cardinality({q \in s.requests : searchReq'[q].user = v} \ R)
  PROVE  Searches(s)!TrimsBound'
BY SearchSets DEF Searches!TrimsBound, Searches!Of, Searches!Doomed, Searches!Trimming

LEMMA TrimKeeps ==
  ASSUME NEW s, SearchInv(s), Searches(s)!SavedSearchesAssumption,
         NEW r \in s.requests, Searches(s)!Trim(r)
  PROVE  SearchInv(s)'
<1> DEFINE u == searchReq[r].user
           mine == {y \in rows : y.user = u}
           newer(x) == {y \in mine : y.at > x.at}
           kept == {x \in mine : Cardinality(newer(x)) < Limit}
<1>1. /\ s.sql /\ searchReq[r].pc = "saved" /\ u \in s.users
      /\ searchReq' = [searchReq EXCEPT ![r].pc = "trimming", ![r].old = {x.id : x \in mine \ kept}]
      /\ rows' = rows /\ clock' = clock /\ answer' = answer /\ saved' = saved
  <2>1. s.sql /\ searchReq[r].pc = "saved" /\ u \in s.users
    BY SearchConstants DEF SearchInv, Searches!TypeOK, Searches!RowsSound, Searches!Trim
  <2>2. Searches(s)!Keep(mine) = kept
    BY SearchSets DEF Searches!Keep, Searches!Newest
  <2> QED BY <2>1, <2>2 DEF Searches!Trim, Searches!Of
<1>2. /\ \A q \in s.requests : q # r => searchReq'[q] = searchReq[q]
      /\ \A q \in s.requests : searchReq'[q].user = searchReq[q].user
      /\ searchReq'[r].pc = "trimming" /\ searchReq'[r].old = {x.id : x \in mine \ kept}
  <2> HIDE DEF mine, kept, newer
  <2> QED BY <1>1 DEF SearchInv, Searches!TypeOK
<1>3. IsFiniteSet(rows) /\ IsFiniteSet(mine) /\ IsFiniteSet(kept) /\ Cardinality(kept) <= Limit
  <2>1. IsFiniteSet(rows) /\ IsFiniteSet(mine)
    BY SearchSets, FS_Subset DEF SearchInv, Searches!RowsSound
  <2>2. \A x \in mine : x.at \in Nat
    BY DEF SearchInv, Searches!TypeOK
  <2>3. \A x, y \in mine : x.at = y.at => x = y
    BY DEF SearchInv, Searches!RowsSound
  <2> HIDE DEF mine
  <2> QED BY <2>1, <2>2, <2>3, NewestFew, SearchConstants
<1>4. Searches(s)!TypeOK'
  <2>1. {x.id : x \in mine \ kept} \subseteq s.uuids \cup s.texts
    <3>1. \A x \in mine : x.id \in s.uuids \cup s.texts
      BY DEF SearchInv, Searches!TypeOK, Searches!Ids
    <3> HIDE DEF mine, kept
    <3> QED BY <3>1
  <2>2. searchReq' \in [s.requests -> [pc : {"idle", "saved", "trimming"}, user : s.users \cup {None},
                                        old : SUBSET (s.uuids \cup s.texts)]]
    <3> HIDE DEF mine, kept
    <3> QED BY <1>1, <2>1 DEF SearchInv, Searches!TypeOK, Searches!Ids
  <2> HIDE DEF mine, kept
  <2> QED BY <1>1, <2>2 DEF SearchInv, Searches!TypeOK, Searches!Ids
<1>5. Searches(s)!RowsSound'
  <2>1. ASSUME NEW q \in s.requests
        PROVE  searchReq'[q].pc = "idle" <=> searchReq'[q].user = None
    <3> HIDE DEF mine, kept, newer
    <3>1. CASE q = r
      <4>1. searchReq'[r].pc = "trimming" /\ searchReq'[r].user = u
        BY <1>2
      <4>2. u # None
        BY <1>1, SearchConstants
      <4> QED BY <3>1, <4>1, <4>2
    <3>2. CASE q # r
      <4>1. searchReq[q].pc = "idle" <=> searchReq[q].user = None
        BY DEF SearchInv, Searches!RowsSound
      <4>2. searchReq'[q] = searchReq[q]
        BY <1>2, <3>2
      <4> QED BY <4>1, <4>2
    <3> QED BY <3>1, <3>2
  <2> QED BY <1>1, <2>1 DEF SearchInv, Searches!RowsSound
<1>6. Searches(s)!TrimsBound'
  <2>1. ASSUME NEW v \in s.users,
               NEW R \in SUBSET {q \in s.requests : searchReq'[q].pc = "trimming" /\ searchReq'[q].user = v}
        PROVE  Cardinality({x \in {y \in rows' : y.user = v} : x.id \notin UNION {searchReq'[q].old : q \in R}})
                 <= Limit + Cardinality({q \in s.requests : searchReq'[q].user = v} \ R)
    <3> DEFINE after == {x \in {y \in rows' : y.user = v} : x.id \notin UNION {searchReq'[q].old : q \in R}}
               busy == {q \in s.requests : searchReq'[q].user = v} \ R
    <3>1. CASE r \notin R
      <4>1. R \in SUBSET {q \in s.requests : searchReq[q].pc = "trimming" /\ searchReq[q].user = v}
        BY <1>2, <3>1
      <4>2. UNION {searchReq'[q].old : q \in R} = UNION {searchReq[q].old : q \in R}
        BY <1>2, <3>1
      <4>3. {q \in s.requests : searchReq'[q].user = v} = {q \in s.requests : searchReq[q].user = v}
        BY <1>2
      <4>4. Cardinality({x \in {y \in rows : y.user = v} : x.id \notin UNION {searchReq[q].old : q \in R}})
              <= Limit + Cardinality({q \in s.requests : searchReq[q].user = v} \ R)
        BY SMTT(30), <1>1, <4>1, TrimsBoundAt DEF SearchInv
      <4>5. rows' = rows
        BY <1>1
      <4> QED BY <4>2, <4>3, <4>4, <4>5
    <3>2. CASE r \in R
      <4>1. after \subseteq kept
        <5>1. v = u /\ rows' = rows
          BY <1>1, <1>2, <3>2
        <5>2. \A x \in mine \ kept : x.id \in searchReq'[r].old
          BY <1>2
        <5> HIDE DEF kept
        <5> QED BY <3>2, <5>1, <5>2
      <4>2. Cardinality(busy) \in Nat
        BY SearchConstants, PartCount
      <4>3. Cardinality(after) <= Cardinality(kept) /\ Cardinality(after) \in Nat /\ Cardinality(kept) \in Nat
        <5> HIDE DEF after, kept
        <5> QED BY <1>3, <4>1, PartCount
      <4> HIDE DEF after, kept, busy
      <4>4. Cardinality(after) <= Limit + Cardinality(busy)
        BY <1>3, <4>2, <4>3, SearchConstants
      <4> QED BY <4>4 DEF after, busy
    <3> QED BY <3>1, <3>2
  <2> QED BY <2>1, TrimsBoundThen
<1>7. ASSUME OneAtATime(s) PROVE Searches(s)!SavedAreNewest'
  <2> USE <1>7
  <2>1. ASSUME NEW w \in s.users, NEW m \in s.names, NEW q \in s.requests, NEW x \in rows',
               saved'[w][m] > 0, searchReq'[q].pc = "trimming", searchReq'[q].user = w,
               x.user = w, x.name = m, x.at = saved'[w][m]
        PROVE  x.id \notin searchReq'[q].old
    <3>1. q = r /\ w = u /\ x \in mine /\ saved[u][m] > 0 /\ x.at = saved[u][m] /\ u \in s.users
      <4>1. q = r
        BY <2>1 DEF OneAtATime
      <4>2. w = u /\ rows' = rows /\ saved' = saved
        BY <1>1, <1>2, <2>1, <4>1
      <4> QED BY <1>1, <2>1, <4>1, <4>2
    <3>2. newer(x) \subseteq rows /\ IsFiniteSet(newer(x)) /\ Cardinality(newer(x)) \in Nat
      BY <1>3, PartCount
    <3> DEFINE told == {j \in s.names : saved[u][j] > saved[u][m]}
    <3>3. IsFiniteSet(told) /\ Cardinality(told) \in Nat /\ Cardinality(told) < Limit
      <4>1. IsFiniteSet(told) /\ Cardinality(told) \in Nat
        BY SearchConstants, PartCount
      <4>2. \A v \in s.users, k \in s.names : saved[v][k] > 0 =>
              Cardinality({j \in s.names : saved[v][j] > saved[v][k]}) < Limit
        BY <1>1, SavedSqlFacts
      <4> QED BY <2>1, <3>1, <4>1, <4>2
    <3>4. Cardinality(newer(x)) <= Cardinality(told)
      <4> DEFINE h == [y \in newer(x) |-> y.name]
      <4>1. ASSUME NEW y \in newer(x) PROVE y.name \in told
        <5>1. y \in rows /\ y.user = u /\ y.at > saved[u][m] /\ y.name \in s.names
          BY <3>1 DEF SearchInv, Searches!TypeOK
        <5>2. saved[u][y.name] = y.at
          BY <1>1, <3>1, <5>1, SavedSqlFacts
        <5> QED BY <5>1, <5>2
      <4>2. \A y, z \in newer(x) : h[y] = h[z] => y = z
        BY <1>1 DEF SearchInv, Searches!RowsSound
      <4>3. h \in Injection(newer(x), told)
        <5> HIDE DEF newer, told
        <5> QED BY <4>1, <4>2 DEF Injection, IsInjective
      <4> HIDE DEF h, newer, told
      <4> QED BY <3>3, <4>3, FS_Injection
    <3>5. x \in kept
      <4>1. Cardinality(newer(x)) < Limit
        <5> HIDE DEF newer, told
        <5> QED BY <3>2, <3>3, <3>4, SearchConstants
      <4> QED BY <3>1, <4>1
    <3>6. \A y \in mine \ kept : y.id # x.id
      <4>1. \A y \in mine : y.id = x.id => y = x
        BY <1>1, <3>1 DEF SearchInv, Searches!TypeOK
      <4> HIDE DEF kept
      <4> QED BY <3>5, <4>1
    <3> HIDE DEF mine, kept
    <3> QED BY <1>2, <3>1, <3>6
  <2>2. \A w \in s.users, m \in s.names : saved'[w][m] > 0 =>
              \E x \in rows' : x.user = w /\ x.name = m /\ x.at = saved'[w][m]
    BY <1>1, SavedSqlFacts
  <2>3. \A w \in s.users, m \in s.names : saved'[w][m] > 0 =>
              Cardinality({j \in s.names : saved'[w][j] > saved'[w][m]}) < Limit
    BY <1>1, SavedSqlFacts
  <2>4. \A w \in s.users, m \in s.names, x \in rows' :
              saved'[w][m] > 0 /\ x.user = w /\ x.at > saved'[w][m] => saved'[w][x.name] = x.at
    BY <1>1, SavedSqlFacts
  <2> QED BY <2>1, <2>2, <2>3, <2>4, SavedSqlThen
<1> QED BY <1>1, <1>4, <1>5, <1>6, <1>7 DEF SearchInv, OneAtATime

LEMMA TrimmedKeeps ==
  ASSUME NEW s, SearchInv(s), Searches(s)!SavedSearchesAssumption,
         NEW r \in s.requests, Searches(s)!Trimmed(r)
  PROVE  SearchInv(s)'
<1> DEFINE u == searchReq[r].user
<1>1. /\ s.sql /\ searchReq[r].pc = "trimming" /\ u \in s.users
      /\ searchReq' = [searchReq EXCEPT ![r] = [pc |-> "idle", user |-> None, old |-> {}]]
      /\ rows' = {x \in rows : x.user = u => x.id \notin searchReq[r].old}
      /\ answer' = [answer EXCEPT ![r] = [op |-> "put", found |-> TRUE, status |-> 200]]
      /\ clock' = clock /\ saved' = saved
  BY SearchConstants DEF SearchInv, Searches!TypeOK, Searches!RowsSound, Searches!Trimmed, Searches!Answer
<1>2. /\ \A q \in s.requests : q # r => searchReq'[q] = searchReq[q]
      /\ searchReq'[r] = [pc |-> "idle", user |-> None, old |-> {}]
  BY <1>1 DEF SearchInv, Searches!TypeOK
<1>3. Searches(s)!TypeOK'
  BY <1>1 DEF SearchInv, Searches!TypeOK, Searches!Ids
<1>4. Searches(s)!RowsSound'
  <2>1. IsFiniteSet(rows')
    BY <1>1, FS_Subset, SearchSets DEF SearchInv, Searches!RowsSound
  <2>2. \A q \in s.requests : searchReq'[q].pc = "idle" <=> searchReq'[q].user = None
    BY <1>2 DEF SearchInv, Searches!RowsSound
  <2> QED BY <1>1, <2>1, <2>2, SearchSets DEF SearchInv, Searches!RowsSound
<1>5. Searches(s)!TrimsBound'
  <2>1. ASSUME NEW v \in s.users,
               NEW R \in SUBSET {q \in s.requests : searchReq'[q].pc = "trimming" /\ searchReq'[q].user = v}
        PROVE  Cardinality({x \in {y \in rows' : y.user = v} : x.id \notin UNION {searchReq'[q].old : q \in R}})
                 <= Limit + Cardinality({q \in s.requests : searchReq'[q].user = v} \ R)
    <3>1. r \notin R /\ R \in SUBSET {q \in s.requests : searchReq[q].pc = "trimming" /\ searchReq[q].user = v}
      BY <1>2
    <3>2. UNION {searchReq'[q].old : q \in R} = UNION {searchReq[q].old : q \in R}
      BY <1>2, <3>1
    <3>3. CASE v # u
      <4>1. {y \in rows' : y.user = v} = {y \in rows : y.user = v}
        BY <1>1, <3>3
      <4>2. {q \in s.requests : searchReq'[q].user = v} = {q \in s.requests : searchReq[q].user = v}
        BY <1>2, <3>3, SearchConstants
      <4>3. Cardinality({x \in {y \in rows : y.user = v} : x.id \notin UNION {searchReq[q].old : q \in R}})
              <= Limit + Cardinality({q \in s.requests : searchReq[q].user = v} \ R)
        BY <1>1, <3>1, TrimsBoundAt DEF SearchInv
      <4> QED BY <3>2, <4>1, <4>2, <4>3
    <3>4. CASE v = u
      <4> DEFINE P == R \cup {r}
      <4>1. P \in SUBSET {q \in s.requests : searchReq[q].pc = "trimming" /\ searchReq[q].user = v}
        BY <1>1, <3>1, <3>4
      <4>2. {x \in {y \in rows' : y.user = v} : x.id \notin UNION {searchReq'[q].old : q \in R}}
              = {x \in {y \in rows : y.user = v} : x.id \notin UNION {searchReq[q].old : q \in P}}
        BY <1>1, <3>2, <3>4
      <4>3. {q \in s.requests : searchReq'[q].user = v} \ R = {q \in s.requests : searchReq[q].user = v} \ P
        BY <1>1, <1>2, <3>4, SearchConstants
      <4>4. Cardinality({x \in {y \in rows : y.user = v} : x.id \notin UNION {searchReq[q].old : q \in P}})
              <= Limit + Cardinality({q \in s.requests : searchReq[q].user = v} \ P)
        <5> HIDE DEF P
        <5> QED BY <1>1, <4>1, TrimsBoundAt DEF SearchInv
      <4> QED BY <4>2, <4>3, <4>4
    <3> QED BY <3>3, <3>4
  <2> QED BY <2>1, TrimsBoundThen
<1>6. ASSUME OneAtATime(s) PROVE Searches(s)!SavedAreNewest'
  <2> USE <1>6
  <2>1. \A w \in s.users, m \in s.names : saved'[w][m] > 0 =>
              \E x \in rows' : x.user = w /\ x.name = m /\ x.at = saved'[w][m]
    <3> SUFFICES ASSUME NEW w \in s.users, NEW m \in s.names, saved[w][m] > 0
                 PROVE  \E x \in rows' : x.user = w /\ x.name = m /\ x.at = saved[w][m]
      BY <1>1
    <3>1. PICK x \in rows : x.user = w /\ x.name = m /\ x.at = saved[w][m]
      BY <1>1, SavedSqlFacts
    <3>2. x.user = u => x.id \notin searchReq[r].old
      BY <1>1, <3>1, SavedSqlFacts
    <3> QED BY <1>1, <3>1, <3>2
  <2>2. \A w \in s.users, m \in s.names : saved'[w][m] > 0 =>
              Cardinality({j \in s.names : saved'[w][j] > saved'[w][m]}) < Limit
    <3>1. \A w \in s.users, m \in s.names : saved[w][m] > 0 =>
              Cardinality({j \in s.names : saved[w][j] > saved[w][m]}) < Limit
      BY <1>1, SavedSqlFacts
    <3>2. saved' = saved
      BY <1>1
    <3> QED BY <3>1, <3>2
  <2>3. \A w \in s.users, m \in s.names, x \in rows' :
              saved'[w][m] > 0 /\ x.user = w /\ x.at > saved'[w][m] => saved'[w][x.name] = x.at
    <3>1. rows' \subseteq rows
      BY <1>1
    <3> QED BY <1>1, <3>1, SavedSqlFacts
  <2>4. \A q \in s.requests : searchReq'[q].pc # "trimming"
    BY <1>2 DEF OneAtATime
  <2> QED BY <2>1, <2>2, <2>3, <2>4, SavedSqlThen
<1> QED BY <1>1, <1>3, <1>4, <1>5, <1>6 DEF SearchInv, OneAtATime

LEMMA DeleteKeeps ==
  ASSUME NEW s, SearchInv(s), Searches(s)!SavedSearchesAssumption,
         NEW r \in s.requests, NEW u \in s.users, NEW i \in s.uuids \cup s.texts,
         Searches(s)!Delete(r, u, i)
  PROVE  SearchInv(s)'
<1> DEFINE found == {x \in rows : x.user = u /\ x.id = i}
<1>1. /\ searchReq[r].pc = "idle" /\ clock \in Nat /\ clock' = clock + 1 /\ clock < MaxClock
      /\ rows' = rows \ found
      /\ saved' = [v \in s.users |-> [n \in s.names |->
           IF \E x \in found : x.user = v /\ x.name = n /\ v = u THEN 0 ELSE saved[v][n]]]
      /\ searchReq' = [q \in s.requests |-> [searchReq[q] EXCEPT !.old = IF found = {} THEN @ ELSE @ \ {i}]]
  <2>1. Searches(s)!Found(u, i) = found
    BY DEF Searches!Found, Searches!Of
  <2> HIDE DEF found
  <2> QED BY <2>1 DEF SearchInv, Searches!TypeOK, Searches!Delete, Searches!Tick
<1>2. \A q \in s.requests : /\ searchReq'[q].pc = searchReq[q].pc /\ searchReq'[q].user = searchReq[q].user
                            /\ searchReq'[q].old = IF found = {} THEN searchReq[q].old ELSE searchReq[q].old \ {i}
  <2> HIDE DEF found
  <2> QED BY <1>1 DEF SearchInv, Searches!TypeOK
<1>3. Searches(s)!TypeOK'
  <2>1. answer' \in [s.requests -> [op : {"none", "put", "delete"}, found : BOOLEAN, status : {0, 200, 404, 500}]]
    BY SearchConstants DEF SearchInv, Searches!TypeOK, Searches!Delete, Searches!Answer
  <2>2. saved' \in [s.users -> [s.names -> 0..MaxClock]]
    <3>1. 0 \in 0..MaxClock
      BY SearchConstants
    <3> HIDE DEF found
    <3> QED BY <1>1, <3>1 DEF SearchInv, Searches!TypeOK
  <2>3. searchReq' \in [s.requests -> [pc : {"idle", "saved", "trimming"}, user : s.users \cup {None},
                                        old : SUBSET (s.uuids \cup s.texts)]]
    <3>1. ASSUME NEW q \in s.requests
          PROVE  searchReq'[q] \in [pc : {"idle", "saved", "trimming"}, user : s.users \cup {None},
                                    old : SUBSET (s.uuids \cup s.texts)]
      <4> HIDE DEF found
      <4>1. searchReq[q] \in [pc : {"idle", "saved", "trimming"}, user : s.users \cup {None},
                              old : SUBSET (s.uuids \cup s.texts)]
        BY DEF SearchInv, Searches!TypeOK, Searches!Ids
      <4>2. searchReq'[q] = [searchReq[q] EXCEPT !.old = IF found = {} THEN searchReq[q].old ELSE searchReq[q].old \ {i}]
        BY <1>1
      <4> QED BY <4>1, <4>2
    <3> HIDE DEF found
    <3> QED BY <1>1, <3>1
  <2>4. clock' \in 0..MaxClock
    BY <1>1, SearchConstants
  <2>5. rows' \subseteq rows
    BY <1>1
  <2> QED BY <2>1, <2>2, <2>3, <2>4, <2>5 DEF SearchInv, Searches!TypeOK, Searches!Ids
<1>4. Searches(s)!RowsSound'
  <2>1. IsFiniteSet(rows') /\ rows' \subseteq rows
    BY <1>1, FS_Subset, SearchSets DEF SearchInv, Searches!RowsSound
  <2>2. \A q \in s.requests : searchReq'[q].pc = "idle" <=> searchReq'[q].user = None
    BY <1>2 DEF SearchInv, Searches!RowsSound
  <2>3. ~s.sql => \A q \in s.requests : searchReq'[q].pc = "idle"
    BY <1>2 DEF SearchInv, Searches!RowsSound
  <2>4. \A x \in rows' : x.at <= clock'
    BY <1>1, <2>1 DEF SearchInv, Searches!RowsSound, Searches!TypeOK
  <2> QED BY <2>1, <2>2, <2>3, <2>4, SearchSets DEF SearchInv, Searches!RowsSound
<1>5. ASSUME s.sql PROVE Searches(s)!TrimsBound'
  <2>1. ASSUME NEW v \in s.users,
               NEW R \in SUBSET {q \in s.requests : searchReq'[q].pc = "trimming" /\ searchReq'[q].user = v}
        PROVE  Cardinality({x \in {y \in rows' : y.user = v} : x.id \notin UNION {searchReq'[q].old : q \in R}})
                 <= Limit + Cardinality({q \in s.requests : searchReq'[q].user = v} \ R)
    <3> DEFINE before == {x \in {y \in rows : y.user = v} : x.id \notin UNION {searchReq[q].old : q \in R}}
               after == {x \in {y \in rows' : y.user = v} : x.id \notin UNION {searchReq'[q].old : q \in R}}
               busy == {q \in s.requests : searchReq[q].user = v} \ R
    <3>1. R \in SUBSET {q \in s.requests : searchReq[q].pc = "trimming" /\ searchReq[q].user = v}
      BY <1>2
    <3>2. after \subseteq before
      <4> SUFFICES ASSUME NEW x \in rows', x.user = v, NEW q \in R, x.id \in searchReq[q].old
                   PROVE  x.id \in searchReq'[q].old
        <5>1. rows' \subseteq rows
          BY <1>1
        <5> QED BY <5>1
      <4>1. CASE found = {}
        BY <1>2, <4>1
      <4>2. CASE found # {}
        <5>1. x.id # i
          BY <1>1, <1>5, <4>2 DEF SearchInv, Searches!TypeOK
        <5> HIDE DEF found
        <5> QED BY <1>2, <4>2, <5>1
      <4> QED BY <4>1, <4>2
    <3>3. Cardinality(before) <= Limit + Cardinality(busy)
      BY <1>5, <3>1, TrimsBoundAt DEF SearchInv
    <3>4. IsFiniteSet(before) /\ Cardinality(busy) \in Nat
      BY SearchSets, SearchConstants, PartCount, FS_Subset DEF SearchInv, Searches!RowsSound
    <3>5. Cardinality(after) <= Cardinality(before) /\ Cardinality(after) \in Nat /\ Cardinality(before) \in Nat
      <4> HIDE DEF after, before
      <4> QED BY <3>2, <3>4, PartCount
    <3>6. {q \in s.requests : searchReq'[q].user = v} \ R = busy
      BY <1>2
    <3> HIDE DEF before, busy
    <3>7. Cardinality(after) <= Limit + Cardinality(busy)
      BY <3>3, <3>4, <3>5, SearchConstants
    <3> QED BY <3>6, <3>7
  <2> QED BY <2>1, TrimsBoundThen
<1>6. \A w \in s.users, m \in s.names : saved'[w][m] > 0 => 
         /\ saved'[w][m] = saved[w][m] /\ \A x \in found : ~(x.user = w /\ x.name = m)
  <2> SUFFICES ASSUME NEW w \in s.users, NEW m \in s.names, saved'[w][m] > 0
               PROVE  saved'[w][m] = saved[w][m] /\ \A x \in found : ~(x.user = w /\ x.name = m)
    OBVIOUS
  <2>1. saved'[w][m] = IF \E x \in found : x.user = w /\ x.name = m /\ w = u THEN 0 ELSE saved[w][m]
    <3> HIDE DEF found
    <3> QED BY <1>1
  <2> QED BY <2>1
<1>7. ASSUME OneAtATime(s), s.sql PROVE Searches(s)!SavedAreNewest'
  <2> USE <1>7
  <2>1. \A w \in s.users, m \in s.names : saved'[w][m] > 0 =>
              \E x \in rows' : x.user = w /\ x.name = m /\ x.at = saved'[w][m]
    <3> SUFFICES ASSUME NEW w \in s.users, NEW m \in s.names, saved'[w][m] > 0
                 PROVE  \E x \in rows' : x.user = w /\ x.name = m /\ x.at = saved'[w][m]
      OBVIOUS
    <3>1. saved[w][m] > 0 /\ saved'[w][m] = saved[w][m]
      BY <1>6
    <3>2. PICK x \in rows : x.user = w /\ x.name = m /\ x.at = saved[w][m]
      BY <3>1, SavedSqlFacts
    <3>3. x \notin found
      BY <1>6, <3>2
    <3> QED BY <1>1, <3>1, <3>2, <3>3
  <2>2. \A w \in s.users, m \in s.names : saved'[w][m] > 0 =>
              Cardinality({j \in s.names : saved'[w][j] > saved'[w][m]}) < Limit
    <3> SUFFICES ASSUME NEW w \in s.users, NEW m \in s.names, saved'[w][m] > 0
                 PROVE  Cardinality({j \in s.names : saved'[w][j] > saved'[w][m]}) < Limit
      OBVIOUS
    <3> DEFINE told == {j \in s.names : saved[w][j] > saved[w][m]}
               toldAfter == {j \in s.names : saved'[w][j] > saved'[w][m]}
    <3>1. saved[w][m] > 0 /\ saved'[w][m] = saved[w][m]
      BY <1>6
    <3>2. Cardinality(told) < Limit
      BY <3>1, SavedSqlFacts
    <3>3. toldAfter \subseteq told
      <4> SUFFICES ASSUME NEW j \in s.names, saved'[w][j] > saved'[w][m] PROVE saved[w][j] > saved[w][m]
        OBVIOUS
      <4>1. saved'[w][j] \in Nat /\ saved[w][j] \in Nat /\ saved[w][m] \in Nat
        BY <1>3 DEF SearchInv, Searches!TypeOK
      <4>2. saved'[w][j] = saved[w][j]
        BY <1>6, <3>1, <4>1
      <4> QED BY <3>1, <4>2
    <3>4. IsFiniteSet(told)
      BY SearchConstants, PartCount
    <3> HIDE DEF told, toldAfter
    <3>5. Cardinality(toldAfter) < Limit
      <4>1. Cardinality(toldAfter) <= Cardinality(told) /\ Cardinality(toldAfter) \in Nat /\ Cardinality(told) \in Nat
        BY <3>3, <3>4, PartCount
      <4> QED BY <3>2, <4>1, SearchConstants
    <3> QED BY <3>5 DEF toldAfter
  <2>3. \A w \in s.users, m \in s.names, x \in rows' :
              saved'[w][m] > 0 /\ x.user = w /\ x.at > saved'[w][m] => saved'[w][x.name] = x.at
    <3> SUFFICES ASSUME NEW w \in s.users, NEW m \in s.names, NEW x \in rows',
                        saved'[w][m] > 0, x.user = w, x.at > saved'[w][m]
                 PROVE  saved'[w][x.name] = x.at
      OBVIOUS
    <3>1. saved[w][m] > 0 /\ saved'[w][m] = saved[w][m]
      BY <1>6
    <3>2. x \in rows /\ x \notin found /\ x.name \in s.names
      BY <1>1 DEF SearchInv, Searches!TypeOK
    <3>3. saved[w][x.name] = x.at
      BY <3>1, <3>2, SavedSqlFacts
    <3>4. ~\E y \in found : y.user = w /\ y.name = x.name
      BY <3>2 DEF SearchInv, Searches!RowsSound
    <3> HIDE DEF found
    <3> QED BY <1>1, <3>2, <3>3, <3>4
  <2>4. \A q \in s.requests : searchReq'[q].pc # "trimming"
    BY <1>1, <1>2 DEF OneAtATime
  <2> QED BY <2>1, <2>2, <2>3, <2>4, SavedSqlThen
<1>8. ASSUME OneAtATime(s), ~s.sql PROVE Searches(s)!RecentKept'
  <2> SUFFICES ASSUME NEW w \in s.users, NEW m \in s.names, saved'[w][m] > 0
               PROVE  \E x \in rows' : x.user = w /\ x.name = m
    BY DEF Searches!RecentKept, Searches!Of
  <2>1. saved[w][m] > 0 /\ \A x \in found : ~(x.user = w /\ x.name = m)
    BY <1>6
  <2>2. PICK x \in rows : x.user = w /\ x.name = m
    BY <1>8, <2>1 DEF SearchInv, Searches!RecentKept, Searches!Of
  <2> QED BY <1>1, <2>1, <2>2
<1> QED BY <1>3, <1>4, <1>5, <1>7, <1>8 DEF SearchInv, OneAtATime

LEMMA RowRenamed ==
  ASSUME NEW I, NEW U, NEW N, NEW T, NEW x \in [id : I, user : U, name : N, at : T], NEW n \in N, NEW t \in T
  PROVE  /\ [x EXCEPT !.name = n, !.at = t] \in [id : I, user : U, name : N, at : T]
         /\ [x EXCEPT !.name = n, !.at = t].at = t /\ [x EXCEPT !.name = n, !.at = t].name = n
         /\ [x EXCEPT !.name = n, !.at = t].user = x.user
OBVIOUS

LEMMA SaveArraysKeeps ==
  ASSUME NEW s, SearchInv(s), Searches(s)!SavedSearchesAssumption,
         NEW r \in s.requests, NEW u \in s.users, NEW i \in s.uuids \cup s.texts \cup {None}, NEW n \in s.names,
         Searches(s)!SaveArrays(r, u, i, n)
  PROVE  SearchInv(s)'
<1> DEFINE Row == [id : s.uuids \cup s.texts, user : s.users, name : s.names, at : 1..MaxClock]
<1>1. /\ ~s.sql /\ clock \in Nat /\ clock' = clock + 1 /\ clock < MaxClock /\ searchReq' = searchReq
      /\ answer' = [answer EXCEPT ![r] = [op |-> "put", found |-> TRUE, status |-> 200]]
  BY DEF SearchInv, Searches!TypeOK, Searches!SaveArrays, Searches!Tick, Searches!Answer
<1>2. \A x \in rows : x \in Row /\ x.at \in Nat /\ x.at <= clock
  BY DEF SearchInv, Searches!TypeOK, Searches!RowsSound, Searches!Ids
<1>3. \E old \in SUBSET rows, row \in Row : /\ rows' = (rows \ old) \cup {row}
                                            /\ row.at = clock + 1 /\ row.user = u /\ row.name = n
                                            /\ \A x \in old : x.user = u
  <2>1. PICK new \in IF i # None THEN {i} ELSE s.uuids \ {x.id : x \in rows} :
          LET hit == {x \in {y \in rows : y.user = u} : x.id = new \/ x.name = n} IN
            \/ hit = {} /\ rows' = rows \cup {[id |-> new, user |-> u, name |-> n, at |-> clock']}
            \/ \E x \in hit : rows' = (rows \ {x}) \cup {[x EXCEPT !.name = n, !.at = clock']}
    BY DEF Searches!SaveArrays, Searches!StoreInArrays, Searches!GivenId, Searches!Of
  <2>2. new \in s.uuids \cup s.texts
    BY <2>1
  <2> DEFINE hit == {x \in {y \in rows : y.user = u} : x.id = new \/ x.name = n}
  <2>3. CASE hit = {} /\ rows' = rows \cup {[id |-> new, user |-> u, name |-> n, at |-> clock']}
    <3> DEFINE row == [id |-> new, user |-> u, name |-> n, at |-> clock']
    <3>1. row \in Row /\ row.at = clock + 1 /\ row.user = u /\ row.name = n
      BY <1>1, <2>2, SearchConstants
    <3>2. rows' = (rows \ {}) \cup {row}
      BY <2>3
    <3> HIDE DEF row, Row
    <3>3. {} \in SUBSET rows /\ \A x \in {} : x.user = u
      OBVIOUS
    <3> QED BY <3>1, <3>2, <3>3
  <2>4. ASSUME NEW x \in hit, rows' = (rows \ {x}) \cup {[x EXCEPT !.name = n, !.at = clock']}
        PROVE  \E old \in SUBSET rows, row \in Row : /\ rows' = (rows \ old) \cup {row}
                                            /\ row.at = clock + 1 /\ row.user = u /\ row.name = n
                                            /\ \A y \in old : y.user = u
    <3> DEFINE row == [x EXCEPT !.name = n, !.at = clock']
    <3>1. x \in rows /\ x.user = u /\ x \in Row
      BY <1>2
    <3>2. row \in Row /\ row.at = clock + 1 /\ row.user = u /\ row.name = n
      <4>1. clock' \in 1..MaxClock
        BY <1>1, SearchConstants
      <4> QED BY <1>1, <3>1, <4>1, RowRenamed
    <3>3. rows' = (rows \ {x}) \cup {row} /\ {x} \in SUBSET rows
      BY <2>4, <3>1
    <3> HIDE DEF row, Row
    <3> QED BY <3>1, <3>2, <3>3
  <2> QED BY <2>1, <2>3, <2>4
<1>4. PICK old \in SUBSET rows, row \in Row : /\ rows' = (rows \ old) \cup {row}
                                            /\ row.at = clock + 1 /\ row.user = u /\ row.name = n
                                            /\ \A x \in old : x.user = u
  BY <1>3
<1> DEFINE kept == {x.name : x \in {y \in rows' : y.user = u}}
           f == [m \in s.names |-> IF m = n THEN clock + 1 ELSE IF m \in kept THEN saved[u][m] ELSE 0]
           full(m) == Searches(s)!Cardinality({k \in s.names : f[k] > f[m]}) < Limit
<1>5. saved' = [saved EXCEPT ![u] = [m \in s.names |-> IF full(m) THEN f[m] ELSE 0]]
  <2>1. Searches(s)!Remember(u, n, kept)
    BY DEF Searches!SaveArrays, Searches!StoreInArrays, Searches!Of
  <2>2. f = [m \in s.names |-> IF m = n THEN clock' ELSE IF m \in kept THEN saved[u][m] ELSE 0]
    BY <1>1
  <2> HIDE DEF f, kept
  <2> QED BY <2>1, <2>2 DEF Searches!Remember
<1>6. Searches(s)!TypeOK'
  <2>1. saved' \in [s.users -> [s.names -> 0..MaxClock]]
    <3>1. f \in [s.names -> 0..MaxClock]
      <4> HIDE DEF kept
      <4> QED BY <1>1, SearchConstants DEF SearchInv, Searches!TypeOK
    <3>2. [m \in s.names |-> IF full(m) THEN f[m] ELSE 0] \in [s.names -> 0..MaxClock]
      <4> HIDE DEF f, full
      <4> QED BY <3>1, SearchConstants
    <3> HIDE DEF f, full
    <3> QED BY <1>5, <3>2 DEF SearchInv, Searches!TypeOK
  <2>2. rows' \subseteq Row
    BY <1>2, <1>4
  <2>3. clock' \in 0..MaxClock
    BY <1>1, SearchConstants
  <2> QED BY <1>1, <2>1, <2>2, <2>3 DEF SearchInv, Searches!TypeOK, Searches!Ids
<1>7. Searches(s)!RowsSound'
  <2>1. IsFiniteSet(rows')
    <3>1. IsFiniteSet(rows \ old)
      BY FS_Subset, SearchSets DEF SearchInv, Searches!RowsSound
    <3> QED BY <1>4, <3>1, FS_AddElement
  <2>2. \A x, y \in rows' : x.at = y.at => x = y
    BY <1>1, <1>2, <1>4 DEF SearchInv, Searches!RowsSound
  <2>3. \A x \in rows' : x.at <= clock'
    BY <1>1, <1>2, <1>4
  <2> QED BY <1>1, <2>1, <2>2, <2>3, SearchSets DEF SearchInv, Searches!RowsSound
<1>8. ASSUME OneAtATime(s) PROVE Searches(s)!RecentKept'
  <2> SUFFICES ASSUME NEW w \in s.users, NEW m \in s.names, saved'[w][m] > 0
               PROVE  \E x \in rows' : x.user = w /\ x.name = m
    BY DEF Searches!RecentKept, Searches!Of
  <2>1. CASE w = u
    <3>1. saved'[u][m] = IF full(m) THEN f[m] ELSE 0
      <4> HIDE DEF f, full
      <4> QED BY <1>5 DEF SearchInv, Searches!TypeOK
    <3>2. f[m] > 0
      <4> HIDE DEF f, full
      <4> QED BY <2>1, <3>1
    <3>3. m = n \/ m \in kept
      <4> HIDE DEF kept
      <4> QED BY <3>2
    <3> QED BY <1>4, <2>1, <3>3
  <2>2. CASE w # u
    <3>1. saved'[w] = saved[w]
      <4> HIDE DEF f, full
      <4> QED BY <1>5, <2>2 DEF SearchInv, Searches!TypeOK
    <3>2. PICK x \in rows : x.user = w /\ x.name = m
      BY <1>1, <1>8, <3>1 DEF SearchInv, Searches!RecentKept, Searches!Of
    <3> QED BY <1>4, <2>2, <3>2
  <2> QED BY <2>1, <2>2
<1> QED BY <1>1, <1>6, <1>7, <1>8 DEF SearchInv, OneAtATime

LEMMA SearchStep ==
  ASSUME NEW s, SearchInv(s), Searches(s)!SavedSearchesAssumption, Searches(s)!Next
  PROVE  SearchInv(s)'
<1>1. PICK r \in s.requests :
        \/ Searches(s)!Trim(r) \/ Searches(s)!Trimmed(r)
        \/ \E u \in s.users, i \in s.uuids \cup s.texts \cup {None}, n \in s.names :
             Searches(s)!SaveSql(r, u, i, n) \/ Searches(s)!SaveArrays(r, u, i, n)
        \/ \E u \in s.users, i \in s.uuids \cup s.texts : Searches(s)!Delete(r, u, i)
  BY DEF Searches!Next, Searches!Ids
<1>2. CASE Searches(s)!Trim(r)
  BY <1>2, TrimKeeps
<1>3. CASE Searches(s)!Trimmed(r)
  BY <1>3, TrimmedKeeps
<1>4. ASSUME NEW u \in s.users, NEW i \in s.uuids \cup s.texts \cup {None}, NEW n \in s.names,
             Searches(s)!SaveSql(r, u, i, n)
      PROVE  SearchInv(s)'
  BY <1>4, SaveSqlKeeps
<1>5. ASSUME NEW u \in s.users, NEW i \in s.uuids \cup s.texts \cup {None}, NEW n \in s.names,
             Searches(s)!SaveArrays(r, u, i, n)
      PROVE  SearchInv(s)'
  BY <1>5, SaveArraysKeeps
<1>6. ASSUME NEW u \in s.users, NEW i \in s.uuids \cup s.texts, Searches(s)!Delete(r, u, i)
      PROVE  SearchInv(s)'
  BY <1>6, DeleteKeeps
<1> QED BY <1>1, <1>2, <1>3, <1>4, <1>5, <1>6

SearchesInv == \A n \in DOMAIN SearchSetup : part = n => SearchInv(SearchSetup[n])

LEMMA SearchInvSound ==
  ASSUME NEW s, SearchInv(s), Searches(s)!SavedSearchesAssumption
  PROVE  /\ Searches(s)!TypeOK
         /\ s.sql => Searches(s)!StoreBounded
         /\ OneAtATime(s) => Searches(s)!RecentKept
<1>1. ASSUME s.sql PROVE Searches(s)!StoreBounded
  <2> SUFFICES ASSUME NEW u \in s.users
               PROVE  Cardinality({y \in rows : y.user = u}) <= Limit + Cardinality({r \in s.requests : searchReq[r].user = u})
    BY SearchSets DEF Searches!StoreBounded, Searches!Of
  <2>1. {} \in SUBSET {q \in s.requests : searchReq[q].pc = "trimming" /\ searchReq[q].user = u}
    OBVIOUS
  <2>2. Cardinality({x \in {y \in rows : y.user = u} : x.id \notin UNION {searchReq[q].old : q \in {}}})
           <= Limit + Cardinality({q \in s.requests : searchReq[q].user = u} \ {})
    BY <1>1, <2>1, TrimsBoundAt DEF SearchInv
  <2>3. {x \in {y \in rows : y.user = u} : x.id \notin UNION {searchReq[q].old : q \in {}}} = {y \in rows : y.user = u}
    OBVIOUS
  <2>4. {q \in s.requests : searchReq[q].user = u} \ {} = {q \in s.requests : searchReq[q].user = u}
    OBVIOUS
  <2> QED BY <2>2, <2>3, <2>4
<1>2. ASSUME OneAtATime(s) PROVE Searches(s)!RecentKept
  <2>1. CASE s.sql
    BY <1>2, <2>1, SavedSqlFacts DEF Searches!RecentKept, Searches!Of
  <2>2. CASE ~s.sql
    BY <1>2, <2>2 DEF SearchInv
  <2> QED BY <2>1, <2>2
<1> QED BY <1>1, <1>2 DEF SearchInv

LEMMA SearchStutters ==
  ASSUME NEW s, SearchInv(s), Searches(s)!SavedSearchesAssumption, UNCHANGED searchVars
  PROVE  SearchInv(s)'
<1>1. Searches(s)!TypeOK'
  BY DEF searchVars, SearchInv, Searches!TypeOK, Searches!Ids
<1> QED BY <1>1, SearchRests DEF searchVars, SearchInv, OneAtATime

LEMMA SearchSetups ==
  ASSUME NEW n \in DOMAIN SearchSetup
  PROVE  Searches(SearchSetup[n])!SavedSearchesAssumption /\ n # "sessions" /\ n # "files" /\ n \notin DOMAIN NoteSetup
BY AccountAssumption DEF AccountAssumption

LEMMA SearchesInductive ==
  /\ AccountInit => SearchesInv
  /\ SearchesInv /\ [AccountNext]_allVars => SearchesInv'
<1>1. ASSUME AccountInit PROVE SearchesInv
  <2> SUFFICES ASSUME NEW n \in DOMAIN SearchSetup, part = n
               PROVE  SearchInv(SearchSetup[n])
    BY DEF SearchesInv
  <2>1. Searches(SearchSetup[n])!Init
    BY <1>1 DEF AccountInit, SearchesBegin
  <2> QED BY <2>1, SearchSetups, SearchBegins
<1>2. ASSUME SearchesInv, [AccountNext]_allVars PROVE SearchesInv'
  <2> SUFFICES ASSUME NEW n \in DOMAIN SearchSetup, part' = n
               PROVE  SearchInv(SearchSetup[n])'
    BY DEF SearchesInv
  <2>1. part = n /\ SearchInv(SearchSetup[n])
    BY <1>2 DEF AccountNext, allVars, Notifying, Searching, SearchesInv
  <2>2. CASE UNCHANGED searchVars
    BY <2>1, <2>2, SearchStutters, SearchSetups
  <2>3. CASE Searches(SearchSetup[n])!Next
    BY <2>1, <2>3, SearchStep, SearchSetups
  <2> QED BY <1>2, <2>1, <2>2, <2>3, SearchSetups DEF AccountNext, allVars, Searching
<1> QED BY <1>1, <1>2

(* However many saves overlap, once their trims ended a user has no more    *)
(* than the limit, and with one request at a time what was saved last and   *)
(* not deleted is there (repository/saved_searches.js, the SQL and the      *)
(* arrays), for any requests, names, limit and moments.                     *)
THEOREM SearchesAreSound == AccountSpec => []SearchesSound
<1>1. SearchesInv => SearchesSound
  BY SearchInvSound, SearchSetups DEF SearchesInv, SearchesSound
<1> QED BY <1>1, SearchesInductive, PTL DEF AccountSpec

-----------------------------------------------------------------------------
(***************************************************************************)
(* Files.  An upload that may still be undone has a key that nobody else   *)
(* holds and nobody was told of; what a deletion has listed has a row, so  *)
(* it is not being completed.                                              *)
(***************************************************************************)
FilesInv ==
  /\ Files!TypeOK /\ Files!AckedUploadStays /\ Files!OldEvidenceKept
  /\ Files!KeysSound /\ Files!ListsSound

LEMMA FilesBegin == Files!Init => FilesInv
BY DEF Files!Init, Files!Idle, FilesInv, Files!TypeOK, Files!AckedUploadStays, Files!OldEvidenceKept,
       Files!KeysSound, Files!ListsSound

FileSteps == {"idle", "insert", "cleanup", "intent", "complete", "evidence", "attach", "delete", "remove"}
FileReqs == [pc : FileSteps, key : Keys \cup {None}, listed : SUBSET Keys]

\* A request begins at p, with the key k.
LEMMA Begun ==
  ASSUME FilesInv, NEW q \in FileRequests, NEW p \in FileSteps, NEW k \in Keys,
         fileReq' = [fileReq EXCEPT ![q] = [Files!Idle EXCEPT !.pc = p, !.key = k]]
  PROVE  /\ fileReq' \in [FileRequests -> FileReqs]
         /\ fileReq'[q].pc = p /\ fileReq'[q].key = k /\ fileReq'[q].listed = {}
         /\ \A r \in FileRequests \ {q} : fileReq'[r] = fileReq[r]
<1> DEFINE x == [Files!Idle EXCEPT !.pc = p, !.key = k]
<1>1. Files!Idle \in FileReqs /\ Files!Idle.listed = {}
  BY DEF Files!Idle, FileReqs, FileSteps
<1>2. x \in FileReqs /\ x.pc = p /\ x.key = k /\ x.listed = {}
  BY <1>1 DEF FileReqs
<1> HIDE DEF x
<1>3. fileReq \in [FileRequests -> FileReqs]
  BY DEF FilesInv, Files!TypeOK, FileReqs, FileSteps
<1>4. fileReq' = [fileReq EXCEPT ![q] = x]
  BY DEF x
<1> QED BY <1>2, <1>3, <1>4

LEMMA FilesStep == FilesInv /\ Files!Next => FilesInv'
<1> SUFFICES ASSUME FilesInv, Files!Next PROVE FilesInv'
  OBVIOUS
<1> USE AccountAssumption DEF AccountAssumption, Files!UploadsAssumption, FilesInv, Files!TypeOK, Files!AckedUploadStays, Files!OldEvidenceKept,
       Files!KeysSound, Files!ListsSound, Files!Goto, Files!Finish, Files!Authenticated, FileReqs, FileSteps
<1>1. ASSUME NEW q \in FileRequests, Files!Put(q) PROVE FilesInv'
  <2>1. PICK k \in Keys : /\ ~object[k] /\ k \notin url \cup intent /\ upload[k] = "none" /\ (\A r \in FileRequests : fileReq[r].key # k) /\ object' = [object EXCEPT ![k] = TRUE]
                         /\ fileReq' = [fileReq EXCEPT ![q] = [Files!Idle EXCEPT !.pc = "insert", !.key = k]]
    BY <1>1 DEF Files!Put, Files!Stored, Files!Used
  <2>2. k \in Keys /\ UNCHANGED <<account, url, intent, upload, evidence, acked, unclaimed>>
    BY <1>1, <2>1 DEF Files!Put
  <2>3. /\ fileReq' \in [FileRequests -> FileReqs]
        /\ fileReq'[q].pc = "insert" /\ fileReq'[q].key = k /\ fileReq'[q].listed = {}
        /\ \A r \in FileRequests \ {q} : fileReq'[r] = fileReq[r]
    BY <2>1, <2>2, Begun
  <2>8. Files!TypeOK'
    BY <2>1, <2>2, <2>3
  <2>9. Files!KeysSound'
    BY <2>1, <2>2, <2>3
  <2>10. Files!ListsSound'
    BY <2>1, <2>2, <2>3
  <2>11. Files!AckedUploadStays' /\ Files!OldEvidenceKept'
    <3>1. \A j \in Keys \ {k} : object'[j] = object[j]
      BY <2>1
    <3>2. k \in Keys /\ upload[k] # "owned" /\ (k \in evidence => k \in unclaimed)
      BY <2>1, <2>2
    <3> QED BY <2>2, <3>1, <3>2
  <2> QED BY <2>8, <2>9, <2>10, <2>11
<1>2. ASSUME NEW q \in FileRequests, Files!InsertUpload(q) PROVE FilesInv'
  <2> DEFINE k == fileReq[q].key
  <2>1. /\ k \in Keys \ (acked \cup intent) /\ upload[k] = "none" /\ object[k]
        /\ \A r \in FileRequests \ {q} : fileReq[r].key # k
    BY <1>2 DEF Files!InsertUpload
  <2>2. /\ upload' = [upload EXCEPT ![k] = "owned"] /\ acked' \in {acked, acked \cup {k}}
        /\ UNCHANGED <<object, intent, unclaimed>>
        /\ fileReq'[q].pc \in {"idle", "cleanup"}
        /\ fileReq'[q].pc = "cleanup" => fileReq'[q].key = k /\ acked' = acked
        /\ \A r \in FileRequests \ {q} : fileReq'[r] = fileReq[r]
        /\ fileReq'[q].key \in {k, None}
    BY <1>2 DEF Files!InsertUpload, Files!Idle
  <2>8. Files!TypeOK'
    BY <1>2 DEF Files!InsertUpload, Files!Idle
  <2>9. Files!KeysSound'
    <3>1. ASSUME NEW t \in FileRequests, fileReq'[t].pc \in {"insert", "cleanup", "intent"}
          PROVE  /\ fileReq'[t].key \in Keys \ (acked' \cup intent')
                 /\ \A r \in FileRequests \ {t} : fileReq'[r].key # fileReq'[t].key
                 /\ fileReq'[t].pc # "cleanup" => upload'[fileReq'[t].key] = "none"
                 /\ fileReq'[t].pc = "insert" => object'[fileReq'[t].key]
      BY <2>1, <2>2, <3>1
    <3>2. ASSUME NEW t \in FileRequests
          PROVE  /\ fileReq'[t].pc \in {"complete", "evidence", "attach"} => fileReq'[t].key \in Keys
                 /\ fileReq'[t].pc = "attach" => upload'[fileReq'[t].key] # "none"
                 /\ fileReq'[t].pc = "complete" /\ fileReq'[t].key \in intent' => object'[fileReq'[t].key]
      BY <2>1, <2>2
    <3>3. /\ \A j \in intent' : upload'[j] = "none"
          /\ \A j \in acked' : upload'[j] # "none" /\ (object'[j] \/ j \in unclaimed')
      BY <2>1, <2>2
    <3> QED BY <3>1, <3>2, <3>3
  <2>10. Files!ListsSound'
    BY <1>2 DEF Files!InsertUpload, Files!Idle
  <2>11. Files!AckedUploadStays' /\ Files!OldEvidenceKept'
    BY <1>2 DEF Files!InsertUpload, Files!Idle
  <2> QED BY <2>8, <2>9, <2>10, <2>11
<1>3. ASSUME NEW q \in FileRequests, Files!InsertFails(q) PROVE FilesInv'
  BY <1>3 DEF Files!InsertFails, Files!Idle
<1>4. ASSUME NEW q \in FileRequests, Files!DeleteOrphan(q) PROVE FilesInv'
  BY <1>4 DEF Files!DeleteOrphan, Files!Idle
<1>5. ASSUME NEW q \in FileRequests, Files!PresignPut(q) PROVE FilesInv'
  <2>1. PICK k \in Keys : /\ ~object[k] /\ k \notin url \cup intent /\ upload[k] = "none" /\ (\A r \in FileRequests : fileReq[r].key # k) /\ url' = url \cup {k}
                         /\ fileReq' = [fileReq EXCEPT ![q] = [Files!Idle EXCEPT !.pc = "intent", !.key = k]]
    BY <1>5 DEF Files!PresignPut, Files!Stored, Files!Used
  <2>2. k \in Keys /\ UNCHANGED <<account, object, intent, upload, evidence, acked, unclaimed>>
    BY <1>5, <2>1 DEF Files!PresignPut
  <2>3. /\ fileReq' \in [FileRequests -> FileReqs]
        /\ fileReq'[q].pc = "intent" /\ fileReq'[q].key = k /\ fileReq'[q].listed = {}
        /\ \A r \in FileRequests \ {q} : fileReq'[r] = fileReq[r]
    BY <2>1, <2>2, Begun
  <2>8. Files!TypeOK'
    BY <2>1, <2>2, <2>3
  <2>9. Files!KeysSound'
    BY <2>1, <2>2, <2>3
  <2>10. Files!ListsSound'
    BY <2>1, <2>2, <2>3
  <2>11. Files!AckedUploadStays' /\ Files!OldEvidenceKept'
    BY <2>1, <2>2, <2>3
  <2> QED BY <2>8, <2>9, <2>10, <2>11
<1>6. ASSUME NEW q \in FileRequests, Files!CreateUploadIntent(q) PROVE FilesInv'
  BY <1>6 DEF Files!CreateUploadIntent, Files!Idle
<1>7. ASSUME NEW q \in FileRequests, Files!CompleteCheck(q) PROVE FilesInv'
  <2>1. PICK k \in intent : /\ upload[k] = "none" /\ object[k]
                         /\ fileReq' = [fileReq EXCEPT ![q] = [Files!Idle EXCEPT !.pc = "complete", !.key = k]]
    BY <1>7 DEF Files!CompleteCheck, Files!Stored, Files!Used
  <2>2. k \in Keys /\ UNCHANGED <<account, object, url, intent, upload, evidence, acked, unclaimed>>
    BY <1>7, <2>1 DEF Files!CompleteCheck
  <2>3. /\ fileReq' \in [FileRequests -> FileReqs]
        /\ fileReq'[q].pc = "complete" /\ fileReq'[q].key = k /\ fileReq'[q].listed = {}
        /\ \A r \in FileRequests \ {q} : fileReq'[r] = fileReq[r]
    BY <2>1, <2>2, Begun
  <2>8. Files!TypeOK'
    BY <2>1, <2>2, <2>3
  <2>9. Files!KeysSound'
    BY <2>1, <2>2, <2>3
  <2>10. Files!ListsSound'
    BY <2>1, <2>2, <2>3
  <2>11. Files!AckedUploadStays' /\ Files!OldEvidenceKept'
    BY <2>1, <2>2, <2>3
  <2> QED BY <2>8, <2>9, <2>10, <2>11
<1>8. ASSUME NEW q \in FileRequests, Files!CompleteUploadAtomic(q) PROVE FilesInv'
  <2>8. Files!TypeOK'
    <3>1. fileReq' \in [FileRequests -> FileReqs] /\ fileReq[q].key \in Keys
      BY <1>8 DEF Files!CompleteUploadAtomic, Files!Idle
    <3>2. CASE fileReq[q].key \in intent
      <4>1. /\ upload' \in [Keys -> {"none", "owned", "ownerless"}]
            /\ \A j \in Keys : upload[j] # "none" => upload'[j] # "none"
        BY <1>8, <3>1, <3>2 DEF Files!CompleteUploadAtomic
      <4> QED BY <1>8, <3>1, <3>2, <4>1 DEF Files!CompleteUploadAtomic
    <3>3. CASE fileReq[q].key \notin intent
      BY <1>8, <3>1, <3>3 DEF Files!CompleteUploadAtomic
    <3> QED BY <3>2, <3>3
  <2>9. Files!KeysSound'
    BY <1>8 DEF Files!CompleteUploadAtomic, Files!Idle
  <2>10. Files!ListsSound'
    BY <1>8 DEF Files!CompleteUploadAtomic, Files!Idle
  <2>11. Files!AckedUploadStays' /\ Files!OldEvidenceKept'
    BY <1>8 DEF Files!CompleteUploadAtomic, Files!Idle
  <2> QED BY <2>8, <2>9, <2>10, <2>11
<1>9. ASSUME NEW q \in FileRequests, Files!EvidenceStart(q) PROVE FilesInv'
  <2>1. PICK k \in acked : /\ TRUE
                         /\ fileReq' = [fileReq EXCEPT ![q] = [Files!Idle EXCEPT !.pc = "evidence", !.key = k]]
    BY <1>9 DEF Files!EvidenceStart, Files!Stored, Files!Used
  <2>2. k \in Keys /\ UNCHANGED <<account, object, url, intent, upload, evidence, acked, unclaimed>>
    BY <1>9, <2>1 DEF Files!EvidenceStart
  <2>3. /\ fileReq' \in [FileRequests -> FileReqs]
        /\ fileReq'[q].pc = "evidence" /\ fileReq'[q].key = k /\ fileReq'[q].listed = {}
        /\ \A r \in FileRequests \ {q} : fileReq'[r] = fileReq[r]
    BY <2>1, <2>2, Begun
  <2>8. Files!TypeOK'
    BY <2>1, <2>2, <2>3
  <2>9. Files!KeysSound'
    BY <2>1, <2>2, <2>3
  <2>10. Files!ListsSound'
    BY <2>1, <2>2, <2>3
  <2>11. Files!AckedUploadStays' /\ Files!OldEvidenceKept'
    BY <2>1, <2>2, <2>3
  <2> QED BY <2>8, <2>9, <2>10, <2>11
<1>10. ASSUME NEW q \in FileRequests, Files!InsertEvidence(q) PROVE FilesInv'
  <2>1. fileReq[q].key \in Keys /\ upload[fileReq[q].key] # "none" /\ fileReq[q].listed \subseteq Keys
    BY <1>10 DEF Files!InsertEvidence
  <2>8. Files!TypeOK'
    BY <1>10, <2>1 DEF Files!InsertEvidence, Files!Idle
  <2>9. Files!KeysSound'
    BY <1>10 DEF Files!InsertEvidence, Files!Idle
  <2>10. Files!ListsSound'
    BY <1>10 DEF Files!InsertEvidence, Files!Idle
  <2>11. Files!AckedUploadStays' /\ Files!OldEvidenceKept'
    BY <1>10, <2>1 DEF Files!InsertEvidence
  <2> QED BY <2>8, <2>9, <2>10, <2>11
<1>11. ASSUME NEW q \in FileRequests, Files!ListUploads(q) PROVE FilesInv'
  <2>8. Files!TypeOK'
    <3>1. Files!Deletable \in SUBSET Keys /\ Files!Owned \in SUBSET Keys
      BY DEF Files!Deletable, Files!Owned
    <3> DEFINE x == [Files!Idle EXCEPT !.pc = "delete", !.listed = Files!Deletable]
    <3>2. x \in FileReqs
      BY <3>1 DEF Files!Idle
    <3>3. fileReq' = [fileReq EXCEPT ![q] = x] /\ unclaimed' = unclaimed \cup (Files!Owned \ evidence)
      BY <1>11 DEF Files!ListUploads
    <3> HIDE DEF x
    <3>4. fileReq' \in [FileRequests -> FileReqs] /\ unclaimed' \subseteq Keys
      BY <3>1, <3>2, <3>3
    <3> QED BY <1>11, <3>4 DEF Files!ListUploads
  <2>9. Files!KeysSound'
    BY <1>11 DEF Files!ListUploads, Files!Idle, Files!Deletable, Files!Owned
  <2>10. Files!ListsSound'
    BY <1>11 DEF Files!ListUploads, Files!Idle, Files!Deletable, Files!Owned
  <2>11. Files!AckedUploadStays' /\ Files!OldEvidenceKept'
    BY <1>11 DEF Files!ListUploads, Files!Idle, Files!Deletable, Files!Owned
  <2> QED BY <2>8, <2>9, <2>10, <2>11
<1>12. ASSUME NEW q \in FileRequests, Files!DeleteUserPrivacyBundle(q) PROVE FilesInv'
  <2>8. Files!TypeOK'
    <3>1. fileReq' \in [FileRequests -> FileReqs]
      BY <1>12 DEF Files!DeleteUserPrivacyBundle
    <3>2. /\ upload' \in [Keys -> {"none", "owned", "ownerless"}]
          /\ \A j \in Keys : upload[j] # "none" => upload'[j] # "none"
      BY <1>12 DEF Files!DeleteUserPrivacyBundle
    <3> QED BY <1>12, <3>1, <3>2 DEF Files!DeleteUserPrivacyBundle
  <2>9. Files!KeysSound'
    BY <1>12 DEF Files!DeleteUserPrivacyBundle, Files!Idle
  <2>10. Files!ListsSound'
    BY <1>12 DEF Files!DeleteUserPrivacyBundle, Files!Idle
  <2>11. Files!AckedUploadStays' /\ Files!OldEvidenceKept'
    BY <1>12 DEF Files!DeleteUserPrivacyBundle, Files!Idle
  <2> QED BY <2>8, <2>9, <2>10, <2>11
<1>13. ASSUME NEW q \in FileRequests, Files!RemoveObject(q) PROVE FilesInv'
  <2>1. PICK k \in fileReq[q].listed :
          /\ object' \in {object, [object EXCEPT ![k] = FALSE]}
          /\ fileReq' = [fileReq EXCEPT ![q] = [fileReq[q] EXCEPT !.listed = @ \ {k}]]
    BY <1>13 DEF Files!RemoveObject
  <2>2. fileReq[q].pc = "remove" /\ UNCHANGED <<account, url, intent, upload, evidence, acked, unclaimed>>
    BY <1>13 DEF Files!RemoveObject
  <2>8. Files!TypeOK'
    <3>1. fileReq' \in [FileRequests -> FileReqs]
      BY <2>1
    <3>2. object' \in [Keys -> BOOLEAN]
      BY <2>1
    <3> QED BY <2>2, <3>1, <3>2
  <2>9. Files!KeysSound'
    <3>1. /\ k \in Keys /\ k \in unclaimed /\ upload[k] # "none" /\ upload[k] # "owned"
          /\ k \notin intent
      BY <2>1, <2>2
    <3>2. \A j \in Keys \ {k} : object'[j] = object[j]
      BY <2>1
    <3>3. \A t \in FileRequests : fileReq'[t].pc = fileReq[t].pc /\ fileReq'[t].key = fileReq[t].key
      BY <2>1
    <3> HIDE DEF FileReqs, FileSteps
    <3>4. ASSUME NEW t \in FileRequests, fileReq'[t].pc \in {"insert", "cleanup", "intent"}
          PROVE  /\ fileReq'[t].key \in Keys \ (acked' \cup intent')
                 /\ \A r \in FileRequests \ {t} : fileReq'[r].key # fileReq'[t].key
                 /\ fileReq'[t].pc # "cleanup" => upload'[fileReq'[t].key] = "none"
                 /\ fileReq'[t].pc = "insert" => object'[fileReq'[t].key]
      BY <2>2, <3>1, <3>2, <3>3, <3>4
    <3>5. ASSUME NEW t \in FileRequests
          PROVE  /\ fileReq'[t].pc \in {"complete", "evidence", "attach"} => fileReq'[t].key \in Keys
                 /\ fileReq'[t].pc = "attach" => upload'[fileReq'[t].key] # "none"
                 /\ fileReq'[t].pc = "complete" /\ fileReq'[t].key \in intent' => object'[fileReq'[t].key]
      BY <2>2, <3>1, <3>2, <3>3
    <3>6. /\ \A j \in intent' : upload'[j] = "none"
          /\ \A j \in acked' : upload'[j] # "none" /\ (object'[j] \/ j \in unclaimed')
      BY <2>2, <3>1, <3>2
    <3> QED BY <3>4, <3>5, <3>6
  <2>10. Files!ListsSound'
    BY <1>13 DEF Files!RemoveObject, Files!Idle
  <2>11. Files!AckedUploadStays' /\ Files!OldEvidenceKept'
    BY <2>1, <2>2
  <2> QED BY <2>8, <2>9, <2>10, <2>11
<1>14. ASSUME NEW q \in FileRequests, Files!RemoveDone(q) PROVE FilesInv'
  BY <1>14 DEF Files!RemoveDone, Files!Idle
<1>15. ASSUME NEW q \in FileRequests, Files!Drop(q) PROVE FilesInv'
  BY <1>15 DEF Files!Drop, Files!Idle
<1>16. ASSUME NEW k \in Keys, Files!ClientPut(k) PROVE FilesInv'
  BY <1>16 DEF Files!ClientPut, Files!Idle
<1>17. ASSUME NEW k \in Keys, Files!Expire(k) PROVE FilesInv'
  BY <1>17 DEF Files!Expire, Files!Idle
<1>18. ASSUME NEW q \in FileRequests, Files!FindUpload(q) PROVE FilesInv'
  <2>8. Files!TypeOK'
    <3>1. CASE upload[fileReq[q].key] = "owned"
      BY <1>18, <3>1 DEF Files!FindUpload
    <3>2. CASE upload[fileReq[q].key] # "owned"
      BY <1>18, <3>2 DEF Files!FindUpload, Files!Idle
    <3> QED BY <3>1, <3>2
  <2>9. Files!KeysSound'
    <3>1. CASE upload[fileReq[q].key] = "owned"
      <4>1. /\ fileReq[q].pc = "evidence" /\ fileReq[q].key \in Keys
            /\ fileReq'[q].pc = "attach" /\ fileReq'[q].key = fileReq[q].key
            /\ \A r \in FileRequests \ {q} : fileReq'[r] = fileReq[r]
        BY <1>18, <3>1 DEF Files!FindUpload
      <4>2. UNCHANGED <<account, object, url, intent, upload, evidence, acked, unclaimed>>
        BY <1>18 DEF Files!FindUpload
      <4>3. ASSUME NEW t \in FileRequests, fileReq'[t].pc \in {"insert", "cleanup", "intent"}
            PROVE  /\ fileReq'[t].key \in Keys \ (acked' \cup intent')
                   /\ \A r \in FileRequests \ {t} : fileReq'[r].key # fileReq'[t].key
                   /\ fileReq'[t].pc # "cleanup" => upload'[fileReq'[t].key] = "none"
                   /\ fileReq'[t].pc = "insert" => object'[fileReq'[t].key]
        <5>1. t # q /\ fileReq'[t] = fileReq[t]
          BY <4>1, <4>3
        <5>2. \A r \in FileRequests : fileReq'[r].key = fileReq[r].key
          BY <4>1
        <5> QED BY <4>2, <4>3, <5>1, <5>2
      <4>4. ASSUME NEW t \in FileRequests
            PROVE  /\ fileReq'[t].pc \in {"complete", "evidence", "attach"} => fileReq'[t].key \in Keys
                   /\ fileReq'[t].pc = "attach" => upload'[fileReq'[t].key] # "none"
                   /\ fileReq'[t].pc = "complete" /\ fileReq'[t].key \in intent' => object'[fileReq'[t].key]
        BY <3>1, <4>1, <4>2
      <4> QED BY <4>2, <4>3, <4>4
    <3>2. CASE upload[fileReq[q].key] # "owned"
      <4>1. /\ fileReq'[q].pc = "idle" /\ fileReq'[q].key = None
            /\ \A r \in FileRequests \ {q} : fileReq'[r] = fileReq[r]
        BY <1>18, <3>2 DEF Files!FindUpload, Files!Idle
      <4>2. UNCHANGED <<account, object, url, intent, upload, evidence, acked, unclaimed>>
        BY <1>18 DEF Files!FindUpload
      <4>3. ASSUME NEW t \in FileRequests, fileReq'[t].pc \in {"insert", "cleanup", "intent"}
            PROVE  /\ fileReq'[t].key \in Keys \ (acked' \cup intent')
                   /\ \A r \in FileRequests \ {t} : fileReq'[r].key # fileReq'[t].key
                   /\ fileReq'[t].pc # "cleanup" => upload'[fileReq'[t].key] = "none"
                   /\ fileReq'[t].pc = "insert" => object'[fileReq'[t].key]
        <5>1. t # q /\ fileReq'[t] = fileReq[t] /\ fileReq[t].key \in Keys /\ None \notin Keys
          BY <4>1, <4>3
        <5>2. \A r \in FileRequests \ {t} : fileReq'[r].key # fileReq[t].key
          BY <4>1, <4>3, <5>1
        <5> QED BY <4>2, <4>3, <5>1, <5>2
      <4>4. ASSUME NEW t \in FileRequests
            PROVE  /\ fileReq'[t].pc \in {"complete", "evidence", "attach"} => fileReq'[t].key \in Keys
                   /\ fileReq'[t].pc = "attach" => upload'[fileReq'[t].key] # "none"
                   /\ fileReq'[t].pc = "complete" /\ fileReq'[t].key \in intent' => object'[fileReq'[t].key]
        BY <4>1, <4>2
      <4> QED BY <4>2, <4>3, <4>4
    <3> QED BY <3>1, <3>2
  <2>10. Files!ListsSound'
    BY <1>18 DEF Files!FindUpload, Files!Idle
  <2>11. Files!AckedUploadStays' /\ Files!OldEvidenceKept'
    BY <1>18 DEF Files!FindUpload, Files!Idle
  <2> QED BY <2>8, <2>9, <2>10, <2>11
<1> QED BY <1>1, <1>2, <1>3, <1>4, <1>5, <1>6, <1>7, <1>8, <1>9, <1>10, <1>11, <1>12, <1>13, <1>14, <1>15, <1>16, <1>17, <1>18
        DEF Files!Next, Files!Serve

(* A file whose upload was answered with success stays in the store while   *)
(* it is its user's, and deleting the account keeps the objects of evidence *)
(* it had listed (repository/storage.js, repository/privacy.js), for any    *)
(* number of requests and keys.                                             *)
THEOREM FilesAreSound == AccountSpec => []FilesSound
<1>1. AccountInit => FilesInv
  BY FilesBegin DEF AccountInit
<1>2. FilesInv /\ [AccountNext]_allVars => FilesInv'
  <2> SUFFICES ASSUME FilesInv, [AccountNext]_allVars PROVE FilesInv'
    OBVIOUS
  <2>1. CASE UNCHANGED fileVars
    BY <2>1 DEF fileVars, FilesInv, Files!TypeOK, Files!AckedUploadStays, Files!OldEvidenceKept,
       Files!KeysSound, Files!ListsSound
  <2>2. CASE Files!Next
    BY <2>2, FilesStep
  <2> QED BY <2>1, <2>2 DEF AccountNext, allVars
<1>3. FilesInv => FilesSound
  BY DEF FilesInv, FilesSound
<1> QED BY <1>1, <1>2, <1>3, PTL DEF AccountSpec

-----------------------------------------------------------------------------
(***************************************************************************)
(* Notifications.  What a worker has left to send, with what the provider  *)
(* accepted, makes up what it listed; an event's lease is given up only by *)
(* the one whose name it has.                                              *)
(***************************************************************************)
NoteInv(s) ==
  /\ Dispatches(s)!TypeOK /\ Dispatches(s)!DispatchesSound
  /\ OneAtATime(s) => Dispatches(s)!PatchesInTurn

Jobs(s) == [pc : {"idle", "claimed", "sending", "failed", "processed"},
            event : Dispatches(s)!Events \cup {None}, targets : SUBSET (s.devices \cup {Address}),
            left : SUBSET (s.devices \cup {Address}), tries : 0..MaxTries]
Patches(s) == UNION {[C -> BOOLEAN] : C \in SUBSET s.channels}

LEMMA PatchIs ==
  ASSUME NEW s, NEW p
  PROVE  p \in Patches(s) <=> \E C \in SUBSET s.channels : p \in [C -> BOOLEAN]
BY DEF Patches

LEMMA NotesBeginSound ==
  ASSUME NEW s, Dispatches(s)!NotificationsAssumption, Dispatches(s)!Init
  PROVE  NoteInv(s)
<1>1. [ch \in {} |-> TRUE] \in Patches(s)
  BY PatchIs
<1> USE DEF Dispatches!Init, Dispatches!NotificationsAssumption, Dispatches!Free, Dispatches!NoEvent, Dispatches!NoPatch
<1>2. Dispatches(s)!TypeOK
  <2>1. work \in [s.workers -> Jobs(s)]
    BY DEF Jobs
  <2>2. request \in [s.requests -> [pc : {"idle", "patching"}, read : [s.channels -> BOOLEAN], set : Patches(s)]]
    BY <1>1
  <2>3. event \in [Dispatches(s)!Events -> [status : {"NONE", "PENDING", "PROCESSING", "FAILED"},
                           attempts : 0..(MaxAttempts + 1), lease : s.workers \cup {None}]]
    OBVIOUS
  <2>4. \A e \in Dispatches(s)!Events : event[e].status = "NONE" /\ event[e].lease = None
    OBVIOUS
  <2> QED BY <2>1, <2>2, <2>3, <2>4 DEF Dispatches!TypeOK, Dispatches!SendKeys, Jobs, Patches
<1>3. Dispatches(s)!DispatchesSound
  <2>1. \A e \in Dispatches(s)!Events : event[e].status = "NONE"
    OBVIOUS
  <2> QED BY <2>1 DEF Dispatches!DispatchesSound
<1>4. Dispatches(s)!PatchesInTurn
  BY DEF Dispatches!PatchesInTurn
<1> QED BY <1>2, <1>3, <1>4 DEF NoteInv

\* A step of a worker that leaves the events alone.
LEMMA WorkerMoves ==
  ASSUME NEW s, NoteInv(s), NEW w \in s.workers,
         UNCHANGED <<pref, note, event, device, request, asked>>,
         accepted \subseteq accepted', accepted' \subseteq Dispatches(s)!SendKeys,
         work' \in [s.workers -> Jobs(s)], \A v \in s.workers \ {w} : work'[v] = work[v],
         work'[w].pc # "idle" => work'[w].event \in Dispatches(s)!Events,
         work'[w].pc \in {"claimed", "sending"} => work'[w].tries < MaxTries,
         work'[w].pc \in {"sending", "processed"} =>
           \A t \in work'[w].targets \ work'[w].left : <<work'[w].event, t>> \in accepted',
         work'[w].pc = "processed" => work'[w].left = {}
  PROVE  NoteInv(s)'
<1>1. Dispatches(s)!TypeOK'
  BY DEF NoteInv, Dispatches!TypeOK, Jobs, Dispatches!SendKeys, Dispatches!Events, Dispatches!Notes
<1>2. Dispatches(s)!DispatchesSound'
  BY DEF NoteInv, Dispatches!DispatchesSound, Dispatches!Events, Dispatches!Notes
<1>3. OneAtATime(s) => Dispatches(s)!PatchesInTurn'
  BY DEF NoteInv, Dispatches!PatchesInTurn
<1> QED BY <1>1, <1>2, <1>3 DEF NoteInv, OneAtATime

LEMMA WorkerActs ==
  ASSUME NEW s, Dispatches(s)!NotificationsAssumption, NoteInv(s), NEW w \in s.workers,
         \/ Dispatches(s)!ListTargets(w) \/ Dispatches(s)!Send(w) \/ Dispatches(s)!Refuse(w)
         \/ Dispatches(s)!Processed(w) \/ Dispatches(s)!Forget(w) \/ Dispatches(s)!WorkerCrash(w)
  PROVE  NoteInv(s)' /\ UNCHANGED event
<1>1. /\ work \in [s.workers -> Jobs(s)] /\ accepted \subseteq Dispatches(s)!SendKeys
      /\ work[w].pc # "idle" => work[w].event \in Dispatches(s)!Events
      /\ work[w].pc \in {"claimed", "sending"} => work[w].tries < MaxTries
      /\ work[w].pc = "sending" =>
           \A t \in work[w].targets \ work[w].left : <<work[w].event, t>> \in accepted
  BY DEF NoteInv, Dispatches!TypeOK, Jobs, Dispatches!DispatchesSound
<1>2. MaxTries \in Nat \ {0} /\ s.channels \subseteq {"IN_APP", "PUSH", "EMAIL"}
  BY DEF Dispatches!NotificationsAssumption
<1>3. CASE Dispatches(s)!ListTargets(w)
  <2> DEFINE targets == Dispatches(s)!TargetsOf(work[w].event)
  <2>1. targets \subseteq s.devices \cup {Address}
    BY <1>1, <1>2, <1>3 DEF Dispatches!ListTargets, Dispatches!TargetsOf, Dispatches!Events
  <2> HIDE DEF targets
  <2>2. work[w].pc = "claimed" /\ UNCHANGED <<pref, note, event, device, request, accepted, asked>>
    BY <1>3 DEF Dispatches!ListTargets
  <2>3. work' = [work EXCEPT ![w].pc = "sending", ![w].targets = targets, ![w].left = targets]
    BY <1>3 DEF Dispatches!ListTargets, targets
  <2>4. /\ work' \in [s.workers -> Jobs(s)] /\ \A v \in s.workers \ {w} : work'[v] = work[v]
        /\ work'[w].event = work[w].event /\ work'[w].tries = work[w].tries /\ work'[w].pc = "sending"
        /\ work'[w].targets = targets /\ work'[w].left = targets
    BY SMTT(30), <1>1, <2>1, <2>3 DEF Jobs
  <2> QED BY <1>1, <2>2, <2>4, WorkerMoves
<1>4. ASSUME NEW t \in work[w].left, work[w].pc = "sending", Dispatches(s)!Delivered(w, t)
      PROVE  NoteInv(s)' /\ UNCHANGED event
  <2>1. /\ UNCHANGED <<pref, note, event, device, request, asked>>
        /\ accepted' = accepted \cup {<<work[w].event, t>>}
        /\ work' = [work EXCEPT ![w].left = work[w].left \ {t}, ![w].tries = 0]
    BY <1>4 DEF Dispatches!Delivered, Dispatches!LeftAfter
  <2>2. /\ work' \in [s.workers -> Jobs(s)] /\ \A v \in s.workers \ {w} : work'[v] = work[v]
        /\ work'[w].event = work[w].event /\ work'[w].tries = 0 /\ work'[w].pc = "sending"
        /\ work'[w].targets = work[w].targets /\ work'[w].left = work[w].left \ {t}
    BY <1>1, <1>2, <1>4, <2>1 DEF Jobs
  <2>3. accepted' \subseteq Dispatches(s)!SendKeys
    BY <1>1, <1>4, <2>1 DEF Dispatches!SendKeys, Jobs
  <2>4. \A x \in work'[w].targets \ work'[w].left : <<work'[w].event, x>> \in accepted'
    BY <1>1, <1>4, <2>1, <2>2
  <2>5. accepted \subseteq accepted' /\ 0 < MaxTries
    BY <1>2, <2>1
  <2>6. work'[w].event \in Dispatches(s)!Events
    BY <1>1, <1>4, <2>2
  <2> QED BY <2>1, <2>2, <2>3, <2>4, <2>5, <2>6, WorkerMoves
<1>5. ASSUME NEW t \in work[w].left, work[w].pc = "sending", Dispatches(s)!Unanswered(w, t)
      PROVE  NoteInv(s)' /\ UNCHANGED event
  <2>1. /\ UNCHANGED <<pref, note, event, device, request, asked>>
        /\ accepted' \in {accepted, accepted \cup {<<work[w].event, t>>}}
        /\ work' = [work EXCEPT ![w].tries = @ + 1,
                                ![w].pc = IF work[w].tries + 1 < MaxTries THEN "sending" ELSE "failed"]
    BY <1>5 DEF Dispatches!Unanswered, Dispatches!MayRetry
  <2>2. /\ work' \in [s.workers -> Jobs(s)] /\ \A v \in s.workers \ {w} : work'[v] = work[v]
        /\ work'[w].event = work[w].event /\ work'[w].tries = work[w].tries + 1
        /\ work'[w].pc = IF work[w].tries + 1 < MaxTries THEN "sending" ELSE "failed"
        /\ work'[w].targets = work[w].targets /\ work'[w].left = work[w].left
    BY <1>1, <1>2, <1>5, <2>1 DEF Jobs
  <2>3. accepted' \subseteq Dispatches(s)!SendKeys
    BY <1>1, <1>5, <2>1 DEF Dispatches!SendKeys, Jobs
  <2>4. \A x \in work'[w].targets \ work'[w].left : <<work'[w].event, x>> \in accepted'
    BY <1>1, <1>5, <2>1, <2>2
  <2>5. accepted \subseteq accepted'
    BY <2>1
  <2>6. work'[w].event \in Dispatches(s)!Events /\ work'[w].pc \in {"sending", "failed"}
    BY <1>1, <1>5, <2>2
  <2>7. work'[w].pc = "sending" => work'[w].tries < MaxTries
    BY <2>2
  <2> QED BY <2>1, <2>2, <2>3, <2>4, <2>5, <2>6, <2>7, WorkerMoves
<1>6. CASE Dispatches(s)!Send(w)
  BY <1>4, <1>5, <1>6 DEF Dispatches!Send
<1>7. CASE Dispatches(s)!Refuse(w) \/ Dispatches(s)!Processed(w)
  <2>1. PICK p \in {"failed", "processed"} :
          /\ work[w].pc = "sending" /\ work' = [work EXCEPT ![w].pc = p]
          /\ p = "processed" => work[w].left = {}
          /\ UNCHANGED <<pref, note, event, device, request, accepted, asked>>
    BY <1>7 DEF Dispatches!Refuse, Dispatches!Processed
  <2>2. /\ work' \in [s.workers -> Jobs(s)] /\ \A v \in s.workers \ {w} : work'[v] = work[v]
        /\ work'[w].event = work[w].event /\ work'[w].pc = p
        /\ work'[w].targets = work[w].targets /\ work'[w].left = work[w].left
    BY <1>1, <2>1 DEF Jobs
  <2> QED BY <1>1, <2>1, <2>2, WorkerMoves
<1>8. CASE Dispatches(s)!Forget(w) \/ Dispatches(s)!WorkerCrash(w)
  <2>1. /\ UNCHANGED <<pref, note, event, device, request, accepted, asked>>
        /\ work' = [work EXCEPT ![w] = Dispatches(s)!Free]
    BY <1>8 DEF Dispatches!Forget, Dispatches!WorkerCrash
  <2>2. /\ work' \in [s.workers -> Jobs(s)] /\ \A v \in s.workers \ {w} : work'[v] = work[v]
        /\ work'[w].pc = "idle"
    BY <1>1, <1>2, <2>1 DEF Jobs, Dispatches!Free
  <2> QED BY <1>1, <2>1, <2>2, WorkerMoves
<1> QED BY <1>3, <1>6, <1>7, <1>8

\* Steps of the user on notifications and devices, and the first half of a patch.
LEMMA UserActs ==
  ASSUME NEW s, Dispatches(s)!NotificationsAssumption, NoteInv(s),
         \/ Dispatches(s)!MarkNotificationRead \/ Dispatches(s)!MarkAllNotificationsRead
         \/ Dispatches(s)!RegisterNotificationDevice \/ Dispatches(s)!DisableNotificationDevice
  PROVE  NoteInv(s)' /\ UNCHANGED event
<1>1. /\ UNCHANGED <<pref, event, work, request, accepted, asked>>
      /\ note' \in [Dispatches(s)!Notes -> {"none", "unread", "read"}]
      /\ device' \in [s.devices -> {"none", "enabled", "disabled"}]
      /\ \A n \in Dispatches(s)!Notes : note'[n] = "none" => note[n] = "none"
  <2>1. /\ note \in [Dispatches(s)!Notes -> {"none", "unread", "read"}]
        /\ device \in [s.devices -> {"none", "enabled", "disabled"}]
    BY DEF NoteInv, Dispatches!TypeOK
  <2> QED BY <2>1 DEF Dispatches!MarkNotificationRead, Dispatches!MarkAllNotificationsRead,
                  Dispatches!RegisterNotificationDevice, Dispatches!DisableNotificationDevice
<1>2. Dispatches(s)!TypeOK'
  BY <1>1 DEF NoteInv, Dispatches!TypeOK, Dispatches!SendKeys, Dispatches!Events, Dispatches!Notes
<1>3. Dispatches(s)!DispatchesSound'
  BY <1>1 DEF NoteInv, Dispatches!DispatchesSound, Dispatches!Events, Dispatches!Notes
<1>4. OneAtATime(s) => Dispatches(s)!PatchesInTurn'
  BY <1>1 DEF NoteInv, Dispatches!PatchesInTurn
<1> QED BY <1>1, <1>2, <1>3, <1>4 DEF NoteInv, OneAtATime

LEMMA PatchActs ==
  ASSUME NEW s, Dispatches(s)!NotificationsAssumption, NoteInv(s), NEW q \in s.requests,
         Dispatches(s)!PatchRead(q) \/ Dispatches(s)!PatchWrite(q)
  PROVE  NoteInv(s)' /\ UNCHANGED event
<1>1. /\ request \in [s.requests -> [pc : {"idle", "patching"}, read : [s.channels -> BOOLEAN], set : Patches(s)]]
      /\ pref \in [s.channels -> BOOLEAN] /\ asked \in [s.channels -> BOOLEAN]
  BY DEF NoteInv, Dispatches!TypeOK, Patches
<1>2. UNCHANGED <<note, event, device, work, accepted>>
  BY DEF Dispatches!PatchRead, Dispatches!PatchWrite
<1>3. SUFFICES /\ pref' \in [s.channels -> BOOLEAN] /\ asked' \in [s.channels -> BOOLEAN]
               /\ request' \in [s.requests -> [pc : {"idle", "patching"}, read : [s.channels -> BOOLEAN], set : Patches(s)]]
               /\ OneAtATime(s) => Dispatches(s)!PatchesInTurn'
  <2>1. ASSUME pref' \in [s.channels -> BOOLEAN], asked' \in [s.channels -> BOOLEAN],
               request' \in [s.requests -> [pc : {"idle", "patching"}, read : [s.channels -> BOOLEAN], set : Patches(s)]]
        PROVE  Dispatches(s)!TypeOK'
    BY <1>2, <2>1 DEF NoteInv, Dispatches!TypeOK, Dispatches!SendKeys, Dispatches!Events, Dispatches!Notes, Patches
  <2>2. Dispatches(s)!DispatchesSound'
    BY <1>2 DEF NoteInv, Dispatches!DispatchesSound, Dispatches!Events, Dispatches!Notes
  <2> QED BY <1>2, <2>1, <2>2 DEF NoteInv, OneAtATime
<1>4. CASE Dispatches(s)!PatchRead(q)
  <2>1. PICK ch \in s.channels, on \in BOOLEAN :
          request' = [request EXCEPT ![q] = [pc |-> "patching", read |-> pref, set |-> [c \in {ch} |-> on]]]
    BY <1>4 DEF Dispatches!PatchRead
  <2>2. UNCHANGED <<pref, asked>>
    BY <1>4 DEF Dispatches!PatchRead
  <2>3. [c \in {ch} |-> on] \in Patches(s)
    <3>1. [c \in {ch} |-> on] \in [{ch} -> BOOLEAN] /\ {ch} \in SUBSET s.channels
      OBVIOUS
    <3> QED BY <3>1, PatchIs
  <2> DEFINE patch == [c \in {ch} |-> on]
  <2> HIDE DEF patch
  <2>4. request' \in [s.requests -> [pc : {"idle", "patching"}, read : [s.channels -> BOOLEAN], set : Patches(s)]]
    BY <1>1, <2>1, <2>3 DEF patch
  <2>5. OneAtATime(s) => Dispatches(s)!PatchesInTurn'
    BY <1>1, <2>1, <2>2 DEF OneAtATime, NoteInv, Dispatches!PatchesInTurn
  <2> QED BY <1>1, <2>2, <2>4, <2>5
<1>5. CASE Dispatches(s)!PatchWrite(q)
  <2> DEFINE set == request[q].set
             read == request[q].read
  <2>1. /\ request[q].pc = "patching"
        /\ pref' = [ch \in s.channels |-> IF ch \in DOMAIN set THEN set[ch] ELSE read[ch]]
        /\ asked' = [ch \in s.channels |-> IF ch \in DOMAIN set THEN set[ch] ELSE asked[ch]]
        /\ request' = [request EXCEPT ![q] = Dispatches(s)!NoPatch]
    BY <1>5 DEF Dispatches!PatchWrite, Dispatches!Merge
  <2>2. \A ch \in s.channels : ch \in DOMAIN set => set[ch] \in BOOLEAN
    <3>1. PICK C \in SUBSET s.channels : set \in [C -> BOOLEAN]
      BY <1>1, PatchIs
    <3> QED BY <3>1
  <2>3. read \in [s.channels -> BOOLEAN]
    BY <1>1
  <2>4. pref' \in [s.channels -> BOOLEAN] /\ asked' \in [s.channels -> BOOLEAN]
    <3> HIDE DEF set, read
    <3> QED BY <1>1, <2>1, <2>2, <2>3
  <2>5. /\ Dispatches(s)!NoPatch \in [pc : {"idle", "patching"}, read : [s.channels -> BOOLEAN], set : Patches(s)]
        /\ Dispatches(s)!NoPatch.pc = "idle"
    <3>1. [ch \in {} |-> TRUE] \in Patches(s)
      BY PatchIs
    <3> QED BY <3>1 DEF Dispatches!NoPatch
  <2>6. request' \in [s.requests -> [pc : {"idle", "patching"}, read : [s.channels -> BOOLEAN], set : Patches(s)]]
    <3> HIDE DEF set, read
    <3> QED BY <1>1, <2>1, <2>5
  <2>7. ASSUME OneAtATime(s) PROVE Dispatches(s)!PatchesInTurn'
    <3>1. pref = asked /\ read = pref
      BY <2>1, <2>7 DEF NoteInv, Dispatches!PatchesInTurn
    <3>2. pref' = asked'
      BY <2>1, <3>1
    <3>3. \A p \in s.requests : request'[p].pc = "idle"
      BY <1>1, <2>1, <2>5, <2>7 DEF OneAtATime
    <3> QED BY <3>2, <3>3 DEF Dispatches!PatchesInTurn
  <2> QED BY <2>4, <2>6, <2>7
<1> QED BY <1>4, <1>5

\* Steps that change events.
LEMMA EventMoves ==
  ASSUME NEW s, NoteInv(s), UNCHANGED <<pref, device, request, accepted, asked>>,
         note' \in [Dispatches(s)!Notes -> {"none", "unread", "read"}],
         event' \in [Dispatches(s)!Events -> [status : {"NONE", "PENDING", "PROCESSING", "FAILED"},
                        attempts : 0..(MaxAttempts + 1), lease : s.workers \cup {None}]],
         \A e \in Dispatches(s)!Events : (event'[e].status = "PROCESSING") = (event'[e].lease # None),
         \A e \in Dispatches(s)!Events : note'[e[1]] = "none" => event'[e].status = "NONE",
         work' \in [s.workers -> Jobs(s)],
         \A w \in s.workers : \/ work'[w] = work[w] \/ work'[w].pc = "idle"
                              \/ work'[w].pc = "claimed" /\ work'[w].event \in Dispatches(s)!Events /\ work'[w].tries < MaxTries
  PROVE  NoteInv(s)'
<1>1. Dispatches(s)!TypeOK'
  BY DEF NoteInv, Dispatches!TypeOK, Jobs, Dispatches!SendKeys, Dispatches!Events, Dispatches!Notes
<1>2. Dispatches(s)!DispatchesSound'
  <2>1. ASSUME NEW w \in s.workers
        PROVE  /\ work'[w].pc # "idle" => work'[w].event \in Dispatches(s)!Events
               /\ work'[w].pc \in {"claimed", "sending"} => work'[w].tries < MaxTries
               /\ work'[w].pc \in {"sending", "processed"} =>
                    \A t \in work'[w].targets \ work'[w].left : <<work'[w].event, t>> \in accepted'
               /\ work'[w].pc = "processed" => work'[w].left = {}
    <3>1. CASE work'[w] = work[w]
      BY <3>1 DEF NoteInv, Dispatches!DispatchesSound
    <3>2. CASE work'[w] # work[w]
      BY <3>2
    <3> QED BY <3>1, <3>2
  <2> QED BY <2>1 DEF Dispatches!DispatchesSound, Dispatches!Events, Dispatches!Notes
<1>3. OneAtATime(s) => Dispatches(s)!PatchesInTurn'
  BY DEF NoteInv, Dispatches!PatchesInTurn
<1> QED BY <1>1, <1>2, <1>3 DEF NoteInv, OneAtATime

LEMMA EventTypes ==
  ASSUME NEW s, NoteInv(s)
  PROVE  /\ event \in [Dispatches(s)!Events -> [status : {"NONE", "PENDING", "PROCESSING", "FAILED"},
                        attempts : 0..(MaxAttempts + 1), lease : s.workers \cup {None}]]
         /\ work \in [s.workers -> Jobs(s)] /\ note \in [Dispatches(s)!Notes -> {"none", "unread", "read"}]
         /\ \A e \in Dispatches(s)!Events : (event[e].status = "PROCESSING") = (event[e].lease # None)
         /\ \A e \in Dispatches(s)!Events : note[e[1]] = "none" => event[e].status = "NONE"
         /\ \A e \in Dispatches(s)!Events : e[1] \in Dispatches(s)!Notes
         /\ \A w \in s.workers : work[w].pc # "idle" => work[w].event \in Dispatches(s)!Events
BY DEF NoteInv, Dispatches!TypeOK, Jobs, Dispatches!DispatchesSound, Dispatches!Events

LEMMA QueueActs ==
  ASSUME NEW s, Dispatches(s)!NotificationsAssumption, NoteInv(s), Dispatches(s)!QueueNotification
  PROVE  NoteInv(s)' /\ Dispatches(s)!StaleFailureStep
<1> DEFINE Queued == [Dispatches(s)!NoEvent EXCEPT !.status = "PENDING"]
<1>1. PICK n \in Dispatches(s)!Notes :
        /\ note[n] = "none" /\ note' = [note EXCEPT ![n] = "unread"]
        /\ event' = [e \in Dispatches(s)!Events |-> IF e[1] = n THEN Queued ELSE event[e]]
  BY DEF Dispatches!QueueNotification
<1>2. UNCHANGED <<pref, device, work, request, accepted, asked>>
  BY DEF Dispatches!QueueNotification
<1>3. /\ Queued \in [status : {"NONE", "PENDING", "PROCESSING", "FAILED"},
                     attempts : 0..(MaxAttempts + 1), lease : s.workers \cup {None}]
      /\ Queued.status = "PENDING" /\ Queued.lease = None
  BY DEF Dispatches!NoEvent, Dispatches!NotificationsAssumption
<1> HIDE DEF Queued
<1>4. event' \in [Dispatches(s)!Events -> [status : {"NONE", "PENDING", "PROCESSING", "FAILED"},
                        attempts : 0..(MaxAttempts + 1), lease : s.workers \cup {None}]]
  BY <1>1, <1>3, EventTypes
<1>5. \A e \in Dispatches(s)!Events : event'[e] = IF e[1] = n THEN Queued ELSE event[e]
  BY <1>1
<1>6. \A e \in Dispatches(s)!Events : (event'[e].status = "PROCESSING") = (event'[e].lease # None)
  BY <1>3, <1>5, EventTypes
<1>7. \A e \in Dispatches(s)!Events : note'[e[1]] = "none" => event'[e].status = "NONE"
  BY <1>1, <1>5, EventTypes
<1>8. note' \in [Dispatches(s)!Notes -> {"none", "unread", "read"}]
  BY <1>1, EventTypes
<1>9. work' \in [s.workers -> Jobs(s)] /\ work' = work
  BY <1>2, EventTypes
<1>10. NoteInv(s)'
  BY <1>2, <1>4, <1>6, <1>7, <1>8, <1>9, EventMoves
<1>11. \A e \in Dispatches(s)!Events, w \in s.workers : event[e].lease = w => event'[e].lease # None
  BY <1>1, <1>5, EventTypes DEF Dispatches!NotificationsAssumption
<1> QED BY <1>10, <1>11 DEF Dispatches!StaleFailureStep

LEMMA ClaimActs ==
  ASSUME NEW s, Dispatches(s)!NotificationsAssumption, NoteInv(s),
         NEW w \in s.workers, NEW e \in Dispatches(s)!Events, Dispatches(s)!Claim(w, e)
  PROVE  NoteInv(s)' /\ Dispatches(s)!StaleFailureStep
<1> DEFINE leased == [status |-> "PROCESSING", attempts |-> event[e].attempts + 1, lease |-> w]
           begun == [Dispatches(s)!Free EXCEPT !.pc = "claimed", !.event = e]
<1>1. /\ event[e].status \in {"PENDING", "PROCESSING"} /\ event[e].attempts < MaxAttempts + 1
      /\ event' = [event EXCEPT ![e] = leased] /\ work' = [work EXCEPT ![w] = begun]
      /\ UNCHANGED <<pref, note, device, request, accepted, asked>>
  BY DEF Dispatches!Claim
<1>2. leased \in [status : {"NONE", "PENDING", "PROCESSING", "FAILED"},
                     attempts : 0..(MaxAttempts + 1), lease : s.workers \cup {None}]
  BY <1>1, EventTypes DEF Dispatches!NotificationsAssumption
<1>3. leased.status = "PROCESSING" /\ leased.lease = w /\ w # None
  BY DEF Dispatches!NotificationsAssumption
<1>4. begun \in Jobs(s) /\ begun.pc = "claimed" /\ begun.event = e /\ begun.tries < MaxTries
  <2>1. Dispatches(s)!Free \in Jobs(s) /\ Dispatches(s)!Free.tries = 0 /\ 0 < MaxTries
    BY DEF Dispatches!Free, Jobs, Dispatches!NotificationsAssumption
  <2> QED BY <2>1 DEF Jobs
<1> HIDE DEF leased, begun
<1>5. event' \in [Dispatches(s)!Events -> [status : {"NONE", "PENDING", "PROCESSING", "FAILED"},
                        attempts : 0..(MaxAttempts + 1), lease : s.workers \cup {None}]]
  BY <1>1, <1>2, EventTypes
<1>6. \A d \in Dispatches(s)!Events : event'[d] = IF d = e THEN leased ELSE event[d]
  BY <1>1, EventTypes
<1>7. /\ work' \in [s.workers -> Jobs(s)] /\ work'[w] = begun
      /\ \A v \in s.workers : v # w => work'[v] = work[v]
  BY <1>1, <1>4, EventTypes
<1>8. note' = note
  BY <1>1
<1>9. \A d \in Dispatches(s)!Events : (event'[d].status = "PROCESSING") = (event'[d].lease # None)
  BY <1>3, <1>6, EventTypes
<1>10. \A d \in Dispatches(s)!Events : note'[d[1]] = "none" => event'[d].status = "NONE"
  BY <1>1, <1>6, EventTypes
<1>11. NoteInv(s)'
  <2>1. note' \in [Dispatches(s)!Notes -> {"none", "unread", "read"}]
    BY <1>8, EventTypes
  <2> QED BY <1>1, <1>4, <1>5, <1>7, <1>9, <1>10, <2>1, EventMoves
<1>12. \A d \in Dispatches(s)!Events, v \in s.workers : event[d].lease = v => event'[d].lease # None
  BY <1>3, <1>6 DEF Dispatches!NotificationsAssumption
<1> QED BY <1>11, <1>12 DEF Dispatches!StaleFailureStep

LEMMA FailActs ==
  ASSUME NEW s, Dispatches(s)!NotificationsAssumption, NoteInv(s),
         NEW w \in s.workers, Dispatches(s)!FailOutboxEvent(w)
  PROVE  NoteInv(s)' /\ Dispatches(s)!StaleFailureStep
<1> DEFINE e == work[w].event
           then == IF event[e].attempts >= MaxAttempts THEN "FAILED" ELSE "PENDING"
<1>1. /\ work[w].pc = "failed" /\ work' = [work EXCEPT ![w] = Dispatches(s)!Free]
      /\ event' = IF event[e].lease = w THEN [event EXCEPT ![e] = [@ EXCEPT !.status = then, !.lease = None]]
                                        ELSE event
      /\ UNCHANGED <<pref, note, device, request, accepted, asked>>
  BY DEF Dispatches!FailOutboxEvent, Dispatches!HoldsLease
<1>2. e \in Dispatches(s)!Events /\ then \in {"FAILED", "PENDING"}
  BY <1>1, EventTypes
<1>3. Dispatches(s)!Free \in Jobs(s) /\ Dispatches(s)!Free.pc = "idle"
  BY DEF Dispatches!Free, Jobs, Dispatches!NotificationsAssumption
<1> HIDE DEF then, e
<1>4. /\ work' \in [s.workers -> Jobs(s)] /\ work'[w].pc = "idle"
      /\ \A v \in s.workers : v # w => work'[v] = work[v]
  BY <1>1, <1>3, EventTypes
<1>5. /\ event' \in [Dispatches(s)!Events -> [status : {"NONE", "PENDING", "PROCESSING", "FAILED"},
                        attempts : 0..(MaxAttempts + 1), lease : s.workers \cup {None}]]
      /\ \A d \in Dispatches(s)!Events :
           \/ event'[d] = event[d]
           \/ d = e /\ event[d].lease = w /\ event'[d].status = then /\ event'[d].lease = None
  <2>1. CASE event[e].lease # w
    <3>1. event' = event
      BY <1>1, <2>1
    <3> QED BY <3>1, EventTypes
  <2>2. CASE event[e].lease = w
    <3> DEFINE ended == [event[e] EXCEPT !.status = then, !.lease = None]
    <3>1. event' = [event EXCEPT ![e] = ended]
      BY <1>1, <2>2
    <3>2. \A d \in Dispatches(s)!Events : d # e => event'[d] = event[d]
      BY <3>1, EventTypes
    <3>3. /\ ended \in [status : {"NONE", "PENDING", "PROCESSING", "FAILED"},
                         attempts : 0..(MaxAttempts + 1), lease : s.workers \cup {None}]
          /\ ended.status = then /\ ended.lease = None
      <4>1. event[e] \in [status : {"NONE", "PENDING", "PROCESSING", "FAILED"},
                         attempts : 0..(MaxAttempts + 1), lease : s.workers \cup {None}]
        BY <1>2, EventTypes
      <4> QED BY <1>2, <4>1
    <3> HIDE DEF ended
    <3>4. event'[e] = ended
      BY <1>2, <3>1, EventTypes
    <3>5. event' \in [Dispatches(s)!Events -> [status : {"NONE", "PENDING", "PROCESSING", "FAILED"},
                        attempts : 0..(MaxAttempts + 1), lease : s.workers \cup {None}]]
      BY <1>2, <3>1, <3>3, EventTypes
    <3>6. ASSUME NEW d \in Dispatches(s)!Events
          PROVE  \/ event'[d] = event[d]
                 \/ d = e /\ event[d].lease = w /\ event'[d].status = then /\ event'[d].lease = None
      BY <2>2, <3>2, <3>3, <3>4
    <3> QED BY <3>5, <3>6
  <2> QED BY <2>1, <2>2
<1>6. \A d \in Dispatches(s)!Events : (event'[d].status = "PROCESSING") = (event'[d].lease # None)
  BY <1>2, <1>5, EventTypes
<1>7. \A d \in Dispatches(s)!Events : note'[d[1]] = "none" => event'[d].status = "NONE"
  <2> SUFFICES ASSUME NEW d \in Dispatches(s)!Events, note[d[1]] = "none" PROVE event'[d].status = "NONE"
    BY <1>1
  <2>1. event[d].status = "NONE" /\ event[d].lease = None
    BY EventTypes
  <2> QED BY <1>5, <2>1 DEF Dispatches!NotificationsAssumption
<1>8. NoteInv(s)'
  <2>1. note' \in [Dispatches(s)!Notes -> {"none", "unread", "read"}]
    BY <1>1, EventTypes
  <2> QED BY <1>1, <1>4, <1>5, <1>6, <1>7, <2>1, EventMoves
<1>9. ASSUME NEW d \in Dispatches(s)!Events, NEW v \in s.workers, event[d].lease = v, event'[d].lease = None
      PROVE  work[v].event = d /\ work'[v] # work[v]
  <2>1. v # None
    BY DEF Dispatches!NotificationsAssumption
  <2>2. d = e /\ v = w
    BY <1>5, <1>9, <2>1
  <2> QED BY <1>1, <1>4, <2>2 DEF e
<1> QED BY <1>8, <1>9 DEF Dispatches!StaleFailureStep

LEMMA NoteStep ==
  ASSUME NEW s, Dispatches(s)!NotificationsAssumption, NoteInv(s), Dispatches(s)!Next
  PROVE  NoteInv(s)' /\ Dispatches(s)!StaleFailureStep
<1>1. UNCHANGED event => Dispatches(s)!StaleFailureStep
  BY DEF Dispatches!StaleFailureStep, Dispatches!NotificationsAssumption
<1>2. CASE Dispatches(s)!QueueNotification
  BY <1>2, QueueActs
<1>3. CASE Dispatches(s)!User
  BY <1>1, <1>3, UserActs, PatchActs DEF Dispatches!User
<1>4. ASSUME NEW w \in s.workers, Dispatches(s)!Worker(w)
      PROVE  NoteInv(s)' /\ Dispatches(s)!StaleFailureStep
  BY <1>1, <1>4, ClaimActs, FailActs, WorkerActs DEF Dispatches!Worker
<1> QED BY <1>2, <1>3, <1>4 DEF Dispatches!Next

LEMMA NoteStutters ==
  ASSUME NEW s, NoteInv(s), Dispatches(s)!NotificationsAssumption, UNCHANGED noteVars
  PROVE  NoteInv(s)' /\ Dispatches(s)!StaleFailureStep
<1>1. UNCHANGED <<pref, note, event, device, work, request, accepted, asked>>
  BY DEF noteVars
<1>2. Dispatches(s)!TypeOK'
  BY <1>1 DEF NoteInv, Dispatches!TypeOK, Dispatches!SendKeys, Dispatches!Events, Dispatches!Notes
<1>3. Dispatches(s)!DispatchesSound'
  BY <1>1 DEF NoteInv, Dispatches!DispatchesSound, Dispatches!Events, Dispatches!Notes
<1>4. OneAtATime(s) => Dispatches(s)!PatchesInTurn'
  BY <1>1 DEF NoteInv, Dispatches!PatchesInTurn
<1>5. Dispatches(s)!StaleFailureStep
  BY <1>1 DEF Dispatches!StaleFailureStep, Dispatches!NotificationsAssumption
<1> QED BY <1>2, <1>3, <1>4, <1>5 DEF NoteInv, OneAtATime

LEMMA NoteSetups ==
  ASSUME NEW n \in DOMAIN NoteSetup
  PROVE  Dispatches(NoteSetup[n])!NotificationsAssumption /\ n # "sessions" /\ n # "files" /\ n \notin DOMAIN SearchSetup
BY AccountAssumption DEF AccountAssumption

NotesInv == \A n \in DOMAIN NoteSetup : part = n => NoteInv(NoteSetup[n])
StaleFailures == \A n \in DOMAIN NoteSetup : part = n => Dispatches(NoteSetup[n])!StaleFailureStep

LEMMA NotesInductive ==
  /\ AccountInit => NotesInv
  /\ NotesInv /\ [AccountNext]_allVars => NotesInv' /\ StaleFailures
<1>1. ASSUME AccountInit PROVE NotesInv
  <2> SUFFICES ASSUME NEW n \in DOMAIN NoteSetup, part = n
               PROVE  NoteInv(NoteSetup[n])
    BY DEF NotesInv
  <2>1. Dispatches(NoteSetup[n])!Init
    BY <1>1 DEF AccountInit, NotesBegin
  <2> QED BY <2>1, NoteSetups, NotesBeginSound
<1>2. ASSUME NotesInv, [AccountNext]_allVars PROVE NotesInv' /\ StaleFailures
  <2>1. part' = part
    BY <1>2 DEF AccountNext, allVars, Notifying, Searching
  <2> SUFFICES ASSUME NEW n \in DOMAIN NoteSetup, part = n
               PROVE  NoteInv(NoteSetup[n])' /\ Dispatches(NoteSetup[n])!StaleFailureStep
    BY <2>1 DEF NotesInv, StaleFailures
  <2>2. NoteInv(NoteSetup[n])
    BY <1>2 DEF NotesInv
  <2>3. CASE UNCHANGED noteVars
    BY <2>2, <2>3, NoteStutters, NoteSetups
  <2>4. CASE Dispatches(NoteSetup[n])!Next
    BY <2>2, <2>4, NoteStep, NoteSetups
  <2> QED BY <1>2, <2>3, <2>4, NoteSetups DEF AccountNext, allVars, Notifying
<1> QED BY <1>1, <1>2

(* A dispatch marked processed reached every target it had listed, however  *)
(* leases run out and channels fail (outbox_handlers.js); patches that      *)
(* follow each other are all kept (repository/notifications.js).            *)
THEOREM NotificationsAreSound == AccountSpec => []NotificationsSound
<1>1. ASSUME NotesInv PROVE NotificationsSound
  <2> SUFFICES ASSUME NEW n \in DOMAIN NoteSetup, part = n
               PROVE  /\ Dispatches(NoteSetup[n])!TypeOK
                      /\ Dispatches(NoteSetup[n])!ProcessedReachedAll
                      /\ OneAtATime(NoteSetup[n]) => Dispatches(NoteSetup[n])!PatchesKept
    BY DEF NotificationsSound
  <2>1. NoteInv(NoteSetup[n])
    BY <1>1 DEF NotesInv
  <2>2. Dispatches(NoteSetup[n])!ProcessedReachedAll
    BY <2>1 DEF NoteInv, Dispatches!DispatchesSound, Dispatches!ProcessedReachedAll
  <2>3. OneAtATime(NoteSetup[n]) => Dispatches(NoteSetup[n])!PatchesKept
    BY <2>1 DEF NoteInv, Dispatches!PatchesInTurn, Dispatches!PatchesKept
  <2> QED BY <2>1, <2>2, <2>3 DEF NoteInv
<1> QED BY <1>1, NotesInductive, PTL DEF AccountSpec

(* A worker that lost its lease leaves the event to its successor when it   *)
(* fails late (outbox.js failEvent), for any number of workers and events.  *)
THEOREM StaleFailuresAreHarmless == AccountSpec => StaleFailureHarmless
<1>1. StaleFailures => \A n \in DOMAIN NoteSetup : part = n => Dispatches(NoteSetup[n])!StaleFailureStep
  BY DEF StaleFailures
<1> QED BY <1>1, NotesInductive, PTL DEF AccountSpec, StaleFailureHarmless
=============================================================================
