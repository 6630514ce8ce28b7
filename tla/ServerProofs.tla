---------------------------- MODULE ServerProofs ----------------------------
(* What holds of Server for any number of processes, releases and requests. *)
EXTENDS Server, TLAPS, FiniteSetTheorems, SequenceTheorems, WellFoundedInduction

Correct(p) == \A v \in Known(p) \ undone : record[v] = Files[p][v]
Honest(p) == \A v \in Applied \cap Known(p) : record[v] = Files[p][v]

(* The loop works on versions that were applied by modules of its own       *)
(* release, and who is about to serve has found nothing left to do.         *)
Reading ==
  \A p \in Processes :
    /\ pc[p] = "apply" => Honest(p)
    /\ pc[p] = "unlock" /\ outcome[p] = "serving" => Correct(p)

IInv == TypeOK /\ NoGap /\ SeenIsCurrent /\ Reading /\ ServesMigrated

-----------------------------------------------------------------------------
LEMMA Constants ==
  /\ None \notin Processes /\ Versions \subseteq Nat \ {0}
  /\ \A p \in Processes : /\ Known(p) = 1..Len(Files[p]) /\ Len(Files[p]) \in Nat
                          /\ Known(p) \subseteq Versions
                          /\ \A v \in Known(p) : Files[p][v] # None
  /\ \E n \in Nat : Versions \subseteq 1..n
<1>1. \A p \in Processes : /\ Known(p) = 1..Len(Files[p]) /\ Len(Files[p]) \in Nat
                           /\ Known(p) \subseteq Versions
                           /\ \A v \in Known(p) : Files[p][v] # None
  BY MigrationsAssumption DEF MigrationsAssumption, Known, Versions
<1>2. None \notin Processes BY MigrationsAssumption DEF MigrationsAssumption
<1>3. Versions \subseteq Nat \ {0}
  <2> SUFFICES ASSUME NEW v \in Versions PROVE v \in Nat \ {0} OBVIOUS
  <2>1. PICK p \in Processes : v \in Known(p) BY DEF Versions
  <2> QED BY <1>1, <2>1
<1>4. PICK q \in Processes : \A p \in Processes : Len(Files[p]) <= Len(Files[q])
  BY MigrationsAssumption DEF MigrationsAssumption
<1>5. Versions \subseteq 1..Len(Files[q])
  <2> SUFFICES ASSUME NEW v \in Versions PROVE v \in 1..Len(Files[q]) OBVIOUS
  <2>1. PICK p \in Processes : v \in Known(p) BY DEF Versions
  <2>2. Len(Files[p]) <= Len(Files[q]) /\ Len(Files[p]) \in Nat /\ Len(Files[q]) \in Nat
    BY <1>1, <1>4
  <2>3. v \in 1..Len(Files[p]) BY <1>1, <2>1
  <2> QED BY <2>2, <2>3
<1> QED BY <1>1, <1>2, <1>3, <1>4, <1>5

(* Every set of naturals that is not empty has a least element.             *)
LEMMA Least ==
  ASSUME NEW S, S \subseteq Nat, S # {}
  PROVE  \E m \in S : \A w \in S : m <= w
<1>1. IsWellFoundedOn(OpToRel(<, Nat), Nat) BY NatLessThanWellFounded
<1>2. PICK m \in S : \A y \in S : ~ (<<y, m>> \in OpToRel(<, Nat)) BY <1>1, WFMin
<1>3. \A w \in S : m <= w
  <2> SUFFICES ASSUME NEW w \in S PROVE m <= w OBVIOUS
  <2>1. w \in Nat /\ m \in Nat OBVIOUS
  <2>2. ~ (<<w, m>> \in OpToRel(<, Nat)) BY <1>2
  <2>3. ~ (w < m) BY <2>1, <2>2 DEF OpToRel
  <2> QED BY <2>1, <2>3
<1> QED BY <1>3

(* And a bounded one has a greatest.                                        *)
LEMMA Greatest ==
  ASSUME NEW S, NEW n \in Nat, S \subseteq 1..n, S # {}
  PROVE  \E m \in S : \A w \in S : w <= m
<1> DEFINE U == {k \in Nat : \A w \in S : w <= k}
<1>1. n \in U OBVIOUS
<1>2. PICK m \in U : \A k \in U : m <= k BY <1>1, Least
<1>3. m \in S
  <2> SUFFICES ASSUME m \notin S PROVE FALSE OBVIOUS
  <2>1. PICK w \in S : TRUE OBVIOUS
  <2>2. m \in Nat /\ m >= 1 BY <2>1
  <2>3. \A x \in S : x <= m - 1 OBVIOUS
  <2>4. m - 1 \in U BY <2>2, <2>3
  <2> QED BY <1>2, <2>2, <2>4
<1> QED BY <1>3

LEMMA FirstIsLeast ==
  ASSUME NEW p \in Processes, Pending(p) # {}
  PROVE  First(p) \in Pending(p) /\ \A w \in Pending(p) : First(p) <= w
<1>1. Pending(p) \subseteq Nat BY Constants DEF Pending
<1>2. \E m \in Pending(p) : \A w \in Pending(p) : m <= w BY <1>1, Least
<1> QED BY <1>2 DEF First

LEMMA LastIsGreatest ==
  ASSUME Applied # {}
  PROVE  Last \in Applied /\ \A w \in Applied : w <= Last
<1>1. PICK n \in Nat : Versions \subseteq 1..n BY Constants
<1>2. Applied \subseteq 1..n BY <1>1 DEF Applied
<1>3. \E m \in Applied : \A w \in Applied : w <= m BY <1>2, Greatest
<1> QED BY <1>3 DEF Last

(* Only the holder of the lock is between "locked" and "unlock".            *)
LEMMA OneHolder ==
  ASSUME TypeOK, NEW p \in Processes, NEW q \in Processes, pc[p] \in Holding, pc[q] \in Holding
  PROVE  p = q
BY DEF TypeOK

LEMMA InitHolds == Init => IInv
<1> SUFFICES ASSUME Init PROVE IInv OBVIOUS
<1>1. Applied = {} BY DEF Init, Applied
<1>2. TypeOK BY Constants, MigrationsAssumption DEF MigrationsAssumption, Init, TypeOK, Labels, Holding
<1> QED BY <1>1, <1>2 DEF Init, IInv, NoGap, SeenIsCurrent, Reading, ServesMigrated

(* A step that changes no record and lets nobody read or serve.             *)
LEMMA QuietKeeps ==
  ASSUME IInv, NEW p \in Processes, NEW l \in Labels \ {"apply", "unlock", "serving"}, Goto(p, l),
         UNCHANGED <<record, seen, outcome, undone>>
  PROVE  NoGap' /\ SeenIsCurrent' /\ Reading' /\ ServesMigrated'
<1>1. Applied' = Applied /\ \A q \in Processes : Correct(q)' = Correct(q) /\ Honest(q)' = Honest(q)
  BY DEF Applied, Correct, Honest
<1>2. \A q \in Processes : pc'[q] = IF q = p THEN l ELSE pc[q] BY DEF IInv, TypeOK, Goto
<1>3. \A q \in Processes : pc'[q] \in {"apply", "unlock", "serving"} => pc[q] = pc'[q] BY <1>2
<1>4. NoGap' BY <1>1 DEF IInv, NoGap
<1>5. SeenIsCurrent' BY <1>1, <1>3 DEF IInv, SeenIsCurrent
<1>6. Reading' BY <1>1, <1>3 DEF IInv, Reading
<1>7. ServesMigrated' BY <1>1, <1>3 DEF IInv, ServesMigrated, Correct
<1> QED BY <1>4, <1>5, <1>6, <1>7

(* Giving up without a change of the records.                               *)
LEMMA GivingUpKeeps ==
  ASSUME IInv, NEW p \in Processes, NEW how \in {"failed", "done", "serving"}, GiveUp(p, how),
         how = "serving" => Correct(p), UNCHANGED <<record, seen, undone>>
  PROVE  NoGap' /\ SeenIsCurrent' /\ Reading' /\ ServesMigrated'
<1>1. Applied' = Applied /\ \A q \in Processes : Correct(q)' = Correct(q) /\ Honest(q)' = Honest(q)
  BY DEF Applied, Correct, Honest
<1>2. /\ \A q \in Processes : pc'[q] = IF q = p THEN "unlock" ELSE pc[q]
      /\ \A q \in Processes : outcome'[q] = IF q = p THEN how ELSE outcome[q]
  BY DEF IInv, TypeOK, GiveUp, Goto
<1>3. NoGap' BY <1>1 DEF IInv, NoGap
<1>4. SeenIsCurrent' BY <1>1, <1>2 DEF IInv, SeenIsCurrent
<1>5. Reading' BY <1>1, <1>2 DEF IInv, Reading
<1>6. ServesMigrated' BY <1>1, <1>2 DEF IInv, ServesMigrated, Correct
<1> QED BY <1>3, <1>4, <1>5, <1>6

LEMMA ApplyKeeps ==
  ASSUME IInv, NEW p \in Processes, Apply(p), record[First(p)] = None
  PROVE  NoGap' /\ SeenIsCurrent' /\ Reading' /\ ServesMigrated'
<1> DEFINE f == First(p)
<1>1. f \in Known(p) \ seen[p] /\ \A w \in Known(p) \ seen[p] : f <= w
  BY FirstIsLeast DEF Apply, Pending
<1>2. /\ pc[p] = "apply" /\ pc' = pc /\ outcome' = outcome /\ undone' = undone
      /\ record' = [record EXCEPT ![f] = Files[p][f]]
      /\ seen' = [seen EXCEPT ![p] = @ \cup {f}] /\ record[f] = None
  BY DEF Apply
<1> HIDE DEF f
<1>3. f \in Versions /\ Files[p][f] # None BY <1>1, Constants
<1>4. \A v \in Versions : record'[v] = IF v = f THEN Files[p][f] ELSE record[v]
  BY <1>2, <1>3 DEF IInv, TypeOK
<1>5. Applied' = Applied \cup {f} BY <1>3, <1>4 DEF Applied
<1>6. seen[p] = Applied BY <1>2 DEF IInv, SeenIsCurrent
<1>7. NoGap'
  <2> SUFFICES ASSUME NEW v \in Applied', NEW w \in Versions, w <= v PROVE w \in Applied'
    BY DEF NoGap
  <2>1. CASE v \in Applied BY <1>5, <2>1 DEF IInv, NoGap
  <2>2. CASE v = f
    <3>1. w \in Known(p) BY <1>1, <2>2, Constants
    <3>2. w \in seen[p] \/ f <= w BY <1>1, <3>1
    <3>3. w \in Nat /\ f \in Nat BY <1>3, Constants
    <3> QED BY <1>5, <1>6, <2>2, <3>2, <3>3
  <2> QED BY <1>5, <2>1, <2>2
<1>8. \A q \in Processes : pc[q] = "apply" => q = p
  BY <1>2, OneHolder DEF IInv, Holding
<1>9. SeenIsCurrent'
  <2>1. seen'[p] = seen[p] \cup {f} BY <1>2 DEF IInv, TypeOK
  <2> QED BY <1>2, <1>5, <1>6, <1>8, <2>1 DEF SeenIsCurrent
<1>10. Honest(p)'
  <2>1. Honest(p) BY <1>2 DEF IInv, Reading
  <2> QED BY <1>4, <1>5, <2>1, Constants DEF Honest
<1>11. ASSUME NEW q \in Processes, Correct(q) PROVE Correct(q)'
  <2> SUFFICES ASSUME NEW v \in Known(q) \ undone PROVE record'[v] = Files[q][v]
    BY <1>2 DEF Correct
  <2>1. record[v] = Files[q][v] /\ v \in Versions /\ Files[q][v] # None
    BY <1>11, Constants DEF Correct
  <2>2. v # f BY <1>2, <2>1
  <2> QED BY <1>4, <2>1, <2>2
<1>12. Reading' BY <1>2, <1>8, <1>10, <1>11 DEF IInv, Reading
<1>13. ServesMigrated'
  <2>1. \A q \in Processes : pc[q] = "serving" => Correct(q) BY DEF IInv, ServesMigrated, Correct
  <2>2. \A q \in Processes : pc'[q] = "serving" => Correct(q)' BY <1>2, <1>11, <2>1
  <2> QED BY <2>2 DEF ServesMigrated, Correct
<1> QED BY <1>7, <1>9, <1>12, <1>13

LEMMA RollbackKeeps ==
  ASSUME IInv, NEW p \in Processes, RollbackLastMigration(p),
         Applied # {}, Last \in Known(p), record[Last] = Files[p][Last], Last # 1
  PROVE  NoGap' /\ SeenIsCurrent' /\ Reading' /\ ServesMigrated'
<1> DEFINE l == Last
<1>1. l \in Applied /\ l \in Versions /\ \A w \in Applied : w <= l BY LastIsGreatest DEF Applied
<1>2. /\ pc[p] = "locked" /\ pc' = [pc EXCEPT ![p] = "unlock"]
      /\ outcome' = [outcome EXCEPT ![p] = "done"] /\ undone' = undone \cup {l}
      /\ record' = [record EXCEPT ![l] = None] /\ seen' = seen
  BY DEF RollbackLastMigration, GiveUp, Goto
<1> HIDE DEF l
<1>3. \A v \in Versions : record'[v] = IF v = l THEN None ELSE record[v]
  BY <1>1, <1>2 DEF IInv, TypeOK
<1>4. Applied' = Applied \ {l} BY <1>3 DEF Applied
<1>5. NoGap'
  <2> SUFFICES ASSUME NEW v \in Applied', NEW w \in Versions, w <= v PROVE w \in Applied'
    BY DEF NoGap
  <2>1. v \in Applied /\ v # l /\ w \in Applied BY <1>4 DEF IInv, NoGap
  <2>2. v <= l /\ v \in Nat /\ w \in Nat /\ l \in Nat BY <1>1, <2>1, Constants DEF Applied
  <2>3. w # l BY <2>1, <2>2
  <2> QED BY <1>4, <2>1, <2>3
<1>6. \A q \in Processes : pc'[q] = IF q = p THEN "unlock" ELSE pc[q]
  BY <1>2 DEF IInv, TypeOK
<1>7. \A q \in Processes : pc'[q] # "apply"
  BY <1>2, <1>6, OneHolder DEF IInv, Holding
<1>8. \A q \in Processes : Correct(q) => Correct(q)'
  BY <1>2, <1>3, Constants DEF Correct
<1>9. \A q \in Processes : outcome'[q] = IF q = p THEN "done" ELSE outcome[q]
  BY <1>2 DEF IInv, TypeOK
<1>10. Reading' BY <1>6, <1>7, <1>8, <1>9 DEF IInv, Reading
<1>11. ServesMigrated'
  <2>1. \A q \in Processes : pc[q] = "serving" => Correct(q) BY DEF IInv, ServesMigrated, Correct
  <2>2. \A q \in Processes : pc'[q] = "serving" => Correct(q)' BY <1>6, <1>8, <2>1
  <2> QED BY <2>2 DEF ServesMigrated, Correct
<1> QED BY <1>5, <1>7, <1>10, <1>11 DEF SeenIsCurrent

LEMMA StepHolds == IInv /\ [Next]_vars => IInv'
<1> SUFFICES ASSUME IInv, [Next]_vars PROVE IInv' OBVIOUS
<1>0. TypeOK /\ None \notin Processes BY Constants DEF IInv
<1> USE DEF Labels, Holding
<1>1. ASSUME NEW p \in Processes, EnsureMetadataTable(p) PROVE IInv'
  <2>1. TypeOK' BY <1>0, <1>1 DEF TypeOK, EnsureMetadataTable, Goto
  <2>2. NoGap' /\ SeenIsCurrent' /\ Reading' /\ ServesMigrated'
    BY <1>1, QuietKeeps DEF EnsureMetadataTable
  <2> QED BY <2>1, <2>2 DEF IInv
<1>2. ASSUME NEW p \in Processes, CreateTable(p) PROVE IInv'
  <2>1. TypeOK' BY <1>0, <1>2 DEF TypeOK, CreateTable, Goto
  <2>2. NoGap' /\ SeenIsCurrent' /\ Reading' /\ ServesMigrated' BY <1>2, QuietKeeps DEF CreateTable
  <2> QED BY <2>1, <2>2 DEF IInv
<1>3. ASSUME NEW p \in Processes, AcquireLock(p) PROVE IInv'
  <2>1. TypeOK' BY <1>0, <1>3 DEF TypeOK, AcquireLock, LockFree, Goto
  <2>2. NoGap' /\ SeenIsCurrent' /\ Reading' /\ ServesMigrated' BY <1>3, QuietKeeps DEF AcquireLock
  <2> QED BY <2>1, <2>2 DEF IInv
<1>4. ASSUME NEW p \in Processes, ReadStatus(p) PROVE IInv'
  <2>1. CASE Drifted(p) \/ Unknown(p)
    <3>1. GiveUp(p, "failed") /\ UNCHANGED <<table, lock, record, seen, undone>> /\ pc[p] = "locked"
      BY <1>4, <2>1 DEF ReadStatus
    <3>2. TypeOK' BY <1>0, <3>1 DEF TypeOK, GiveUp, Goto
    <3>3. NoGap' /\ SeenIsCurrent' /\ Reading' /\ ServesMigrated' BY <3>1, GivingUpKeeps
    <3> QED BY <3>2, <3>3 DEF IInv
  <2>2. CASE ~ (Drifted(p) \/ Unknown(p))
    <3>1. /\ pc[p] = "locked" /\ pc' = [pc EXCEPT ![p] = "apply"]
          /\ seen' = [seen EXCEPT ![p] = Applied]
          /\ UNCHANGED <<table, lock, record, undone, outcome>>
      BY <1>4, <2>2 DEF ReadStatus, Goto
    <3>2. Applied' = Applied /\ Applied \subseteq Versions BY <3>1 DEF Applied
    <3>3. TypeOK' BY <1>0, <3>1, <3>2 DEF TypeOK
    <3>4. \A q \in Processes : /\ pc'[q] = IF q = p THEN "apply" ELSE pc[q]
                               /\ seen'[q] = IF q = p THEN Applied ELSE seen[q]
      BY <1>0, <3>1 DEF TypeOK
    <3>5. Honest(p) BY <2>2 DEF Drifted, Honest
    <3>6. \A q \in Processes : Correct(q)' = Correct(q) /\ Honest(q)' = Honest(q)
      BY <3>1, <3>2 DEF Correct, Honest
    <3>7. NoGap' BY <3>2 DEF IInv, NoGap
    <3>8. SeenIsCurrent' BY <3>2, <3>4 DEF IInv, SeenIsCurrent
    <3>9. Reading' BY <3>1, <3>4, <3>5, <3>6 DEF IInv, Reading
    <3>10. ServesMigrated' BY <3>1, <3>4 DEF IInv, ServesMigrated
    <3> QED BY <3>3, <3>7, <3>8, <3>9, <3>10 DEF IInv
  <2> QED BY <2>1, <2>2
<1>5. ASSUME NEW p \in Processes, Apply(p) PROVE IInv'
  <2>1. CASE record[First(p)] = None
    <3>1. NoGap' /\ SeenIsCurrent' /\ Reading' /\ ServesMigrated' BY <1>5, <2>1, ApplyKeeps
    <3>2. First(p) \in Known(p) /\ Known(p) \subseteq Versions
      BY <1>5, FirstIsLeast, Constants DEF Apply, Pending
    <3>3. /\ record' = [record EXCEPT ![First(p)] = Files[p][First(p)]]
          /\ seen' = [seen EXCEPT ![p] = @ \cup {First(p)}]
          /\ UNCHANGED <<table, lock, undone, pc, outcome>>
      BY <1>5, <2>1 DEF Apply
    <3>4. TypeOK' BY <1>0, <3>2, <3>3 DEF TypeOK
    <3> QED BY <3>1, <3>4 DEF IInv
  <2>2. CASE record[First(p)] # None
    <3>1. GiveUp(p, "failed") /\ UNCHANGED <<table, lock, record, seen, undone>> /\ pc[p] = "apply"
      BY <1>5, <2>2 DEF Apply
    <3>2. TypeOK' BY <1>0, <3>1 DEF TypeOK, GiveUp, Goto
    <3>3. NoGap' /\ SeenIsCurrent' /\ Reading' /\ ServesMigrated' BY <3>1, GivingUpKeeps
    <3> QED BY <3>2, <3>3 DEF IInv
  <2> QED BY <2>1, <2>2
<1>6. ASSUME NEW p \in Processes, UpToDate(p) PROVE IInv'
  <2>1. GiveUp(p, "serving") /\ UNCHANGED <<table, lock, record, seen, undone>> /\ pc[p] = "apply"
    BY <1>6 DEF UpToDate
  <2>2. TypeOK' BY <1>0, <2>1 DEF TypeOK, GiveUp, Goto
  <2>3. Known(p) \subseteq seen[p] /\ seen[p] = Applied
    BY <1>6, <2>1 DEF UpToDate, Pending, IInv, SeenIsCurrent
  <2>4. Honest(p) BY <2>1 DEF IInv, Reading
  <2>5. Correct(p) BY <2>3, <2>4 DEF Correct, Honest
  <2>6. NoGap' /\ SeenIsCurrent' /\ Reading' /\ ServesMigrated' BY <2>1, <2>5, GivingUpKeeps
  <2> QED BY <2>2, <2>6 DEF IInv
<1>7. ASSUME NEW p \in Processes, MigrationFails(p) PROVE IInv'
  <2>1. /\ GiveUp(p, "failed") /\ UNCHANGED <<table, lock, record, seen, undone>>
        /\ pc[p] \in {"apply", "locked"}
    BY <1>7 DEF MigrationFails
  <2>2. TypeOK' BY <1>0, <2>1 DEF TypeOK, GiveUp, Goto
  <2>3. NoGap' /\ SeenIsCurrent' /\ Reading' /\ ServesMigrated' BY <2>1, GivingUpKeeps
  <2> QED BY <2>2, <2>3 DEF IInv
<1>8. ASSUME NEW p \in Processes, RollbackLastMigration(p) PROVE IInv'
  <2> DEFINE Allowed == Applied # {} /\ Last \in Known(p) /\ record[Last] = Files[p][Last] /\ Last # 1
  <2>1. CASE Allowed
    <3>1. NoGap' /\ SeenIsCurrent' /\ Reading' /\ ServesMigrated' BY <1>8, <2>1, RollbackKeeps
    <3>2. Last \in Versions BY <2>1, LastIsGreatest DEF Applied
    <3>3. /\ record' = [record EXCEPT ![Last] = None] /\ undone' = undone \cup {Last}
          /\ pc' = [pc EXCEPT ![p] = "unlock"] /\ outcome' = [outcome EXCEPT ![p] = "done"]
          /\ UNCHANGED <<table, lock, seen>> /\ pc[p] = "locked"
      BY <1>8, <2>1 DEF RollbackLastMigration, GiveUp, Goto
    <3>4. TypeOK' BY <1>0, <3>2, <3>3 DEF TypeOK
    <3> QED BY <3>1, <3>4 DEF IInv
  <2>2. CASE ~Allowed
    <3>1. PICK how \in {"failed", "done"} :
            GiveUp(p, how) /\ UNCHANGED <<table, lock, record, seen, undone>> /\ pc[p] = "locked"
      BY <1>8, <2>2 DEF RollbackLastMigration
    <3>2. TypeOK' BY <1>0, <3>1 DEF TypeOK, GiveUp, Goto
    <3>3. NoGap' /\ SeenIsCurrent' /\ Reading' /\ ServesMigrated' BY <3>1, GivingUpKeeps
    <3> QED BY <3>2, <3>3 DEF IInv
  <2> QED BY <2>1, <2>2
<1>9. ASSUME NEW p \in Processes, ReleaseLock(p) PROVE IInv'
  <2>1. /\ pc[p] = "unlock" /\ lock' = None /\ pc' = [pc EXCEPT ![p] = outcome[p]]
        /\ UNCHANGED <<table, record, seen, outcome, undone>>
        /\ outcome[p] \in {"serving", "failed", "done"}
    BY <1>0, <1>9 DEF ReleaseLock, Goto, TypeOK
  <2>2. \A q \in Processes : pc'[q] = IF q = p THEN outcome[p] ELSE pc[q]
    BY <1>0, <2>1 DEF TypeOK
  <2>3. \A q \in Processes : pc'[q] \notin Holding BY <2>1, <2>2, OneHolder, <1>0
  <2>4. TypeOK' BY <1>0, <2>1, <2>3 DEF TypeOK
  <2>5. Applied' = Applied /\ \A q \in Processes : Correct(q)' = Correct(q) /\ Honest(q)' = Honest(q)
    BY <2>1 DEF Applied, Correct, Honest
  <2>6. NoGap' BY <2>5 DEF IInv, NoGap
  <2>7. SeenIsCurrent' /\ Reading' BY <2>3 DEF SeenIsCurrent, Reading
  <2>8. ServesMigrated'
    <3>1. \A q \in Processes : pc[q] = "serving" => Correct(q) BY DEF IInv, ServesMigrated, Correct
    <3>2. outcome[p] = "serving" => Correct(p) BY <2>1 DEF IInv, Reading
    <3>3. \A q \in Processes : pc'[q] = "serving" => Correct(q)' BY <2>2, <2>5, <3>1, <3>2
    <3> QED BY <3>3 DEF ServesMigrated, Correct
  <2> QED BY <2>4, <2>6, <2>7, <2>8 DEF IInv
<1>10. ASSUME NEW p \in Processes, Crash(p) PROVE IInv'
  <2>1. TypeOK' BY <1>0, <1>10 DEF TypeOK, Crash, Goto
  <2>2. NoGap' /\ SeenIsCurrent' /\ Reading' /\ ServesMigrated' BY <1>10, QuietKeeps DEF Crash
  <2> QED BY <2>1, <2>2 DEF IInv
<1>11. CASE UNCHANGED vars
  BY <1>11 DEF vars, IInv, TypeOK, NoGap, SeenIsCurrent, Reading, ServesMigrated, Applied, Correct, Honest
<1> QED BY <1>1, <1>2, <1>3, <1>4, <1>5, <1>6, <1>7, <1>8, <1>9, <1>10, <1>11 DEF Next, Work

(* The types of Migrations, and the lock's exclusion.                       *)
THEOREM TypeCorrect == Spec => []TypeOK
<1>1. IInv => TypeOK BY DEF IInv
<1> QED BY InitHolds, StepHolds, <1>1, PTL DEF Spec

(* The recorded versions never have a gap.                                  *)
THEOREM RecordsHaveNoGap == Spec => []NoGap
<1>1. IInv => NoGap BY DEF IInv
<1> QED BY InitHolds, StepHolds, <1>1, PTL DEF Spec

(* What the loop relies on is still so at every turn.                       *)
THEOREM ReadingStaysCurrent == Spec => []SeenIsCurrent
<1>1. IInv => SeenIsCurrent BY DEF IInv
<1> QED BY InitHolds, StepHolds, <1>1, PTL DEF Spec

(* Nobody serves before the migrations of its release.                      *)
THEOREM ServingIsMigrated == Spec => []ServesMigrated
<1>1. IInv => ServesMigrated BY DEF IInv
<1> QED BY InitHolds, StepHolds, <1>1, PTL DEF Spec

(* The four together, as one run checks them: however many processes start, *)
(* fail and die at once, the record of migrations stays whole.              *)
THEOREM MigrationsAreSound == Spec => []MigrationsSound
<1>1. IInv => MigrationsSound BY DEF IInv, MigrationsSound
<1> QED BY InitHolds, StepHolds, <1>1, PTL DEF Spec

-----------------------------------------------------------------------------
(***************************************************************************)
(* One process.  Once pool.end() was called nobody arrives and nobody is   *)
(* unanswered any more, and what ends with code 0 ended the pool and saw   *)
(* every connection come back.  A step of a request or of a worker loop    *)
(* leaves the process as it stands and answers, but never takes on, what   *)
(* waits; only Arrive does, and only while the server is running.          *)
(***************************************************************************)
ApiInv ==
  /\ Api!TypeOK
  /\ server = "ending" => ended
  /\ ended => server \in {"ending", "exited"} /\ Api!Unanswered = {}
  /\ server # "exited" => exit = -1
  /\ exit = 0 => ended /\ clients = {}

LEMMA ApiConstants ==
  /\ Path \in [Requests -> {"live", "ready", "auth", "api"}]
  /\ MaxTx \in Nat /\ MaxWork \in Nat /\ MaxSignals \in Nat
  BY ServerAssumption DEF Api!ApiServerAssumption

Stages == Api!Waiting \cup {"out", "done"}
Statuses == {0, 200, 400, 429, 500, 503}
Answering == [Requests -> [pc : Stages, tx : 0..MaxTx, connected : BOOLEAN, answer : Statuses]]
Looping == [Workers -> [pc : {"idle", "claim", "call", "complete", "stopped"}, taken : 0..MaxWork]]
ProcessTyped ==
  /\ db \in {"up", "down"} /\ exit \in {-1, 0, 1} /\ signals \in 0..MaxSignals
  /\ server \in {"running", "closing", "ending", "exited"}
  /\ clients \subseteq Requests \cup Workers /\ ended \in BOOLEAN

LEMMA ApiTypes == Api!TypeOK <=> ProcessTyped /\ req \in Answering /\ worker \in Looping
  BY DEF Api!TypeOK, ProcessTyped, Answering, Looping, Stages, Statuses

LEMMA ApiBegins == Api!Init => ApiInv
<1> SUFFICES ASSUME Api!Init PROVE ApiInv OBVIOUS
<1>1. req \in Answering
  <2>1. "out" \in Stages /\ 0 \in Statuses /\ 0 \in 0..MaxTx BY ApiConstants DEF Stages, Statuses
  <2> QED BY <2>1 DEF Api!Init, Answering
<1>2. worker \in Looping BY ApiConstants DEF Api!Init, Looping
<1>3. exit \in {-1, 0, 1} /\ signals \in 0..MaxSignals BY ApiConstants DEF Api!Init
<1>4. ProcessTyped BY <1>3 DEF Api!Init, ProcessTyped
<1>5. Api!TypeOK BY <1>1, <1>2, <1>4, ApiTypes
<1> QED BY <1>5 DEF ApiInv, Api!Init

(* Where a request may go and what it may be answered with.                 *)
LEMMA RequestTyped ==
  ASSUME req \in Answering, NEW r \in Requests
  PROVE  /\ \A l \in Stages : [req EXCEPT ![r].pc = l] \in Answering
         /\ \A a \in Statuses : [req EXCEPT ![r].pc = "done", ![r].answer = a] \in Answering
<1>1. "done" \in Stages BY DEF Stages
<1> QED BY <1>1 DEF Answering

(* A request's step keeps types, and the process and what it ended.         *)
LEMMA HandleKeepsTypes ==
  ASSUME Api!TypeOK, NEW r \in Requests, Api!Handle(r)
  PROVE  Api!TypeOK'
<1>1. req \in Answering /\ ProcessTyped /\ worker \in Looping
  BY ApiTypes
<1>2. req' \in Answering
  <2>1. CASE \E l \in Stages : req' = [req EXCEPT ![r].pc = l]
    BY <1>1, <2>1, RequestTyped
  <2>2. CASE \E a \in Statuses : req' = [req EXCEPT ![r].pc = "done", ![r].answer = a]
    BY <1>1, <2>2, RequestTyped
  <2>3. CASE Api!Arrive(r)
    BY <2>1, <2>3 DEF Api!Arrive, Api!Goto, Stages, Api!Waiting
  <2>4. CASE Api!LimiterAnswers(r)
    <3>1. 429 \in Statuses /\ {"general limit", "handler"} \subseteq Stages BY DEF Statuses, Stages, Api!Waiting
    <3> QED BY <2>1, <2>2, <2>4, <3>1 DEF Api!LimiterAnswers, Api!Goto, Api!Respond
  <2>5. CASE Api!LimiterRejects(r)
    BY <1>1, <2>5 DEF Api!LimiterRejects
  <2>6. CASE Api!AnswerLive(r) \/ Api!AnswerReady(r) \/ Api!AnswerRoute(r) \/ Api!AnswerError(r)
    <3>1. {200, 400, 500, 503} \subseteq Statuses BY DEF Statuses
    <3> QED BY <2>2, <2>6, <3>1 DEF Api!AnswerLive, Api!AnswerReady, Api!AnswerRoute, Api!AnswerError, Api!Respond
  <2>7. CASE Api!BeginTransaction(r)
    <3>1. {"transaction", "caught"} \subseteq Stages BY DEF Stages, Api!Waiting
    <3>2. CASE Api!Reachable
      <4>1. req[r].tx + 1 \in 0..MaxTx
        <5>1. req[r].tx \in 0..MaxTx BY <1>1 DEF Answering
        <5>2. req[r].tx < MaxTx BY <2>7 DEF Api!BeginTransaction
        <5> QED BY <5>1, <5>2, ApiConstants
      <4>2. req' = [req EXCEPT ![r].pc = "transaction", ![r].tx = @ + 1]
        BY <2>7, <3>2 DEF Api!BeginTransaction
      <4> QED BY <1>1, <3>1, <4>1, <4>2 DEF Answering
    <3>3. CASE ~Api!Reachable
      BY <2>1, <2>7, <3>1, <3>3 DEF Api!BeginTransaction, Api!Goto
    <3> QED BY <3>2, <3>3
  <2>8. CASE Api!EndTransaction(r)
    <3>1. {"handler", "caught"} \subseteq Stages BY DEF Stages, Api!Waiting
    <3> QED BY <2>1, <2>8, <3>1 DEF Api!EndTransaction, Api!Goto
  <2>9. CASE Api!Disconnect(r)
    BY <1>1, <2>9 DEF Api!Disconnect, Answering
  <2> QED BY <2>3, <2>4, <2>5, <2>6, <2>7, <2>8, <2>9 DEF Api!Handle
<1>3. worker' = worker
  BY DEF Api!Handle, Api!Arrive, Api!LimiterAnswers, Api!LimiterRejects, Api!AnswerLive, Api!AnswerReady,
         Api!AnswerRoute, Api!AnswerError, Api!BeginTransaction, Api!EndTransaction, Api!Disconnect
<1>4. ProcessTyped'
  <2>1. /\ db' = db /\ ended' = ended /\ signals' = signals
        /\ \/ server' = server /\ exit' = exit
           \/ server' = "exited" /\ exit' = 1
        /\ clients' \subseteq clients \cup Requests
    BY DEF Api!Handle, Api!Arrive, Api!LimiterAnswers, Api!LimiterRejects, Api!AnswerLive, Api!AnswerReady,
           Api!AnswerRoute, Api!AnswerError, Api!BeginTransaction, Api!EndTransaction, Api!Disconnect,
           Api!process
  <2>2. exit' \in {-1, 0, 1} BY <1>1, <2>1 DEF ProcessTyped
  <2> QED BY <1>1, <2>1, <2>2 DEF ProcessTyped
<1>5. Api!TypeOK' <=> ProcessTyped' /\ req' \in Answering /\ worker' \in Looping
  BY DEF Api!TypeOK, ProcessTyped, Answering, Looping, Stages, Statuses
<1> QED BY <1>1, <1>2, <1>3, <1>4, <1>5

(* No request but an arriving one begins to wait.                           *)
LEMMA HandleOnlyAnswers ==
  ASSUME Api!TypeOK, NEW r \in Requests, Api!Handle(r), server # "running"
  PROVE  Api!Unanswered' \subseteq Api!Unanswered
<1>1. req \in Answering BY ApiTypes
<1> DEFINE Stays == req' = req
           Goes == \E l : req' = [req EXCEPT ![r].pc = l]
           Counts == \E l, t : req' = [req EXCEPT ![r].pc = l, ![r].tx = t]
           Answered == \E a : req' = [req EXCEPT ![r].pc = "done", ![r].answer = a]
           Left == req' = [req EXCEPT ![r].connected = FALSE]
<1>2. Stays \/ Goes \/ Counts \/ Answered \/ Left
  <2>1. ~ Api!Arrive(r) BY DEF Api!Arrive
  <2>2. Api!LimiterAnswers(r) => Goes \/ Answered BY DEF Api!LimiterAnswers, Api!Goto, Api!Respond
  <2>3. Api!LimiterRejects(r) => Stays BY DEF Api!LimiterRejects
  <2>4. Api!AnswerLive(r) \/ Api!AnswerReady(r) \/ Api!AnswerRoute(r) \/ Api!AnswerError(r) => Answered
    BY DEF Api!AnswerLive, Api!AnswerReady, Api!AnswerRoute, Api!AnswerError, Api!Respond
  <2>5. Api!BeginTransaction(r) => Goes \/ Counts BY DEF Api!BeginTransaction, Api!Goto
  <2>6. Api!EndTransaction(r) => Goes BY DEF Api!EndTransaction, Api!Goto
  <2>7. Api!Disconnect(r) => Left BY DEF Api!Disconnect
  <2> HIDE DEF Stays, Goes, Counts, Answered, Left
  <2> QED BY <2>1, <2>2, <2>3, <2>4, <2>5, <2>6, <2>7 DEF Api!Handle
<1>3. req[r].pc \in Api!Waiting
  BY DEF Api!Handle, Api!Arrive, Api!LimiterAnswers, Api!LimiterRejects, Api!AnswerLive, Api!AnswerReady,
         Api!AnswerRoute, Api!AnswerError, Api!BeginTransaction, Api!EndTransaction, Api!Disconnect,
         Api!At, Api!Waiting
<1>4. \A q \in Requests : q # r => req'[q] = req[q]
  BY <1>1, <1>2 DEF Answering
<1>5. req'[r].connected => req[r].connected
  BY <1>1, <1>2 DEF Answering
<1> QED BY <1>3, <1>4, <1>5 DEF Api!Unanswered

LEMMA HandleKeeps ==
  ASSUME ApiInv, NEW r \in Requests, Api!Handle(r)
  PROVE  ApiInv'
<1> USE DEF Api!process
<1>1. Api!TypeOK /\ Api!TypeOK'
  BY HandleKeepsTypes DEF ApiInv
<1>2. ended' = ended /\ server # "exited"
  BY DEF Api!Handle, Api!Arrive, Api!LimiterAnswers, Api!LimiterRejects, Api!AnswerLive, Api!AnswerReady,
         Api!AnswerRoute, Api!AnswerError, Api!BeginTransaction, Api!EndTransaction, Api!Disconnect,
         Api!At, Api!Alive
<1>3. exit # 0
  BY <1>2 DEF ApiInv
<1>4. \/ server' = server /\ exit' = exit
      \/ server' = "exited" /\ exit' = 1
  BY DEF Api!Handle, Api!Arrive, Api!LimiterAnswers, Api!LimiterRejects, Api!AnswerLive, Api!AnswerReady,
         Api!AnswerRoute, Api!AnswerError, Api!BeginTransaction, Api!EndTransaction, Api!Disconnect
<1>5. ended => Api!Unanswered' = {}
  <2> SUFFICES ASSUME ended PROVE Api!Unanswered' = {} OBVIOUS
  <2>1. server # "running" /\ Api!Unanswered = {} BY DEF ApiInv
  <2> QED BY <1>1, <2>1, HandleOnlyAnswers
<1> QED BY <1>1, <1>2, <1>3, <1>4, <1>5 DEF ApiInv

(* A worker loop's step keeps types, and touches no request.                *)
LEMMA LoopKeeps ==
  ASSUME ApiInv, NEW w \in Workers, Api!Loop(w)
  PROVE  ApiInv'
<1> USE DEF Api!process
<1>1. Api!TypeOK BY DEF ApiInv
<1>2. req' = req /\ server' = server /\ exit' = exit /\ ended' = ended /\ signals' = signals /\ db' = db
  BY DEF Api!Loop, Api!Claim, Api!WorkerCommits, Api!Complete, Api!WorkerStops
<1>3. server # "exited"
  BY DEF Api!Loop, Api!Claim, Api!WorkerCommits, Api!Complete, Api!WorkerStops, Api!Alive
<1>4. clients' \subseteq Requests \cup Workers
  BY <1>1 DEF Api!TypeOK, Api!Loop, Api!Claim, Api!WorkerCommits, Api!Complete, Api!WorkerStops
<1>5. worker' \in [Workers -> [pc : {"idle", "claim", "call", "complete", "stopped"}, taken : 0..MaxWork]]
  <2>1. CASE Api!Claim(w)
    <3>1. worker[w].taken + 1 \in 0..MaxWork
      BY <1>1, <2>1, ApiConstants DEF Api!TypeOK, Api!Claim
    <3> QED BY <1>1, <2>1, <3>1 DEF Api!TypeOK, Api!Claim
  <2>2. CASE Api!WorkerCommits(w)
    BY <1>1, <2>2 DEF Api!TypeOK, Api!WorkerCommits, Api!Step
  <2>3. CASE Api!Complete(w)
    BY <1>1, <2>3 DEF Api!TypeOK, Api!Complete, Api!Step
  <2>4. CASE Api!WorkerStops(w)
    BY <1>1, <2>4 DEF Api!TypeOK, Api!WorkerStops, Api!Step
  <2> QED BY <2>1, <2>2, <2>3, <2>4 DEF Api!Loop
<1>6. Api!TypeOK'
  BY <1>1, <1>2, <1>4, <1>5 DEF Api!TypeOK
<1>7. Api!Unanswered' = Api!Unanswered
  BY <1>2 DEF Api!Unanswered
<1> QED BY <1>2, <1>3, <1>6, <1>7 DEF ApiInv

LEMMA ApiKeeps == ApiInv /\ [Api!Next]_apiVars => ApiInv'
<1> SUFFICES ASSUME ApiInv, [Api!Next]_apiVars PROVE ApiInv' OBVIOUS
<1>1. Api!TypeOK BY DEF ApiInv
<1>2. CASE \E r \in Requests : Api!Handle(r)
  BY <1>2, HandleKeeps
<1>3. CASE \E w \in Workers : Api!Loop(w)
  BY <1>3, LoopKeeps
<1>4. CASE Api!Signal
  <2>1. Api!TypeOK'
    <3>1. signals' \in 0..MaxSignals
      BY <1>1, <1>4, ApiConstants DEF Api!Signal, Api!TypeOK
    <3> QED BY <1>1, <1>4, <3>1 DEF Api!Signal, Api!TypeOK
  <2>2. Api!Unanswered' = Api!Unanswered
    BY <1>4 DEF Api!Signal, Api!Unanswered
  <2> QED BY <1>4, <2>1, <2>2 DEF Api!Signal, ApiInv, Api!Alive
<1>5. CASE Api!Drained
  <2>1. worker' \in [Workers -> [pc : {"idle", "claim", "call", "complete", "stopped"}, taken : 0..MaxWork]]
    BY <1>1, <1>5 DEF Api!Drained, Api!CloseDatabase, Api!StopWorkers, Api!TypeOK
  <2>2. Api!TypeOK'
    BY <1>1, <1>5, <2>1 DEF Api!Drained, Api!CloseDatabase, Api!TypeOK
  <2>3. Api!Unanswered' = {}
    BY <1>5 DEF Api!Drained, Api!Unanswered
  <2> QED BY <1>5, <2>2, <2>3 DEF Api!Drained, Api!CloseDatabase, ApiInv
<1>6. CASE Api!Closed
  <2>1. Api!TypeOK' BY <1>1, <1>6 DEF Api!Closed, Api!TypeOK
  <2>2. Api!Unanswered' = Api!Unanswered BY <1>6 DEF Api!Closed, Api!Unanswered
  <2> QED BY <1>6, <2>1, <2>2 DEF Api!Closed, ApiInv
<1>7. CASE Api!TenSeconds
  <2>1. Api!TypeOK' BY <1>1, <1>7 DEF Api!TenSeconds, Api!TypeOK
  <2>2. Api!Unanswered' = Api!Unanswered BY <1>7 DEF Api!TenSeconds, Api!Unanswered
  <2> QED BY <1>7, <2>1, <2>2 DEF Api!TenSeconds, ApiInv
<1>8. CASE Api!DatabaseChanges
  <2>1. Api!TypeOK' BY <1>1, <1>8 DEF Api!DatabaseChanges, Api!TypeOK, Api!process
  <2>2. Api!Unanswered' = Api!Unanswered BY <1>8 DEF Api!DatabaseChanges, Api!Unanswered
  <2> QED BY <1>8, <2>1, <2>2 DEF Api!DatabaseChanges, Api!process, ApiInv
<1>9. CASE UNCHANGED apiVars
  <2>1. Api!TypeOK' BY <1>1, <1>9 DEF apiVars, Api!TypeOK
  <2>2. Api!Unanswered' = Api!Unanswered BY <1>9 DEF apiVars, Api!Unanswered
  <2> QED BY <1>9, <2>1, <2>2 DEF apiVars, ApiInv
<1> QED BY <1>2, <1>3, <1>4, <1>5, <1>6, <1>7, <1>8, <1>9 DEF Api!Next

-----------------------------------------------------------------------------
(***************************************************************************)
(* The health counters.  recent is the end of past, and complete: either   *)
(* it is full or what came before it has left the window.  A set of alerts *)
(* that was told less than a cooldown ago is the one that alerted names,   *)
(* and as old, so a tick that still cools sends nothing.  The route table  *)
(* has its common row only once it is full, so a route that finds no row   *)
(* of its own then never gets one.                                         *)
(***************************************************************************)
HealthTyped ==
  /\ total \in [requests : Nat, errors5xx : Nat, slow : Nat]
  /\ past \in Seq([age : 0..(Window + 1), kind : Kinds]) /\ Len(past) <= MaxRequests
  /\ recent \in Seq(0..Window) /\ Len(recent) <= RecentCap
  /\ samples \in Seq(Nat) /\ Len(samples) <= SampleCap
  /\ sending \subseteq Health!Codes
  /\ alerted \in [what : SUBSET Health!Codes, age : 0..Cooldown]
  /\ heard \in [SUBSET Health!Codes -> 0..Cooldown]

RecentSound ==
  /\ \A i, j \in 1..Len(past) : i <= j => past[j].age <= past[i].age
  /\ Len(recent) <= Len(past)
  /\ \A i \in 1..Len(recent) : recent[i] = past[Len(past) - Len(recent) + i].age
  /\ Len(recent) < RecentCap => \A i \in 1..(Len(past) - Len(recent)) : past[i].age > Window

ToldSound ==
  /\ sending # {} => heard[sending] = Cooldown
  /\ \A a \in SUBSET Health!Codes : heard[a] < Cooldown => a = alerted.what /\ heard[a] = alerted.age

Common == "__other__"
TableSound ==
  /\ IsFiniteSet(DOMAIN routes)
  /\ Cardinality(DOMAIN routes \ {Common}) <= RouteCap
  /\ Common \in DOMAIN routes => Cardinality(DOMAIN routes \ {Common}) = RouteCap

HealthInv == HealthTyped /\ RecentSound /\ ToldSound /\ TableSound /\ Health!CountsAgree

(* An instance has the library's operators under names of its own.          *)
LEMMA HealthSets == /\ \A S : Health!IsFiniteSet(S) <=> IsFiniteSet(S)
                    /\ \A S : Health!Cardinality(S) = Cardinality(S)
<1>1. \A S : Health!IsFiniteSet(S) <=> IsFiniteSet(S)
  BY DEF IsFiniteSet, Health!IsFiniteSet
<1>2. \A S : Health!Cardinality(S) = Cardinality(S)
  BY DEF Cardinality, Health!Cardinality
<1> QED BY <1>1, <1>2

LEMMA HealthConstants ==
  /\ RouteCap \in Nat /\ Window \in Nat /\ RecentCap \in Nat /\ SampleCap \in Nat
  /\ Cooldown \in Nat /\ MaxRequests \in Nat
  /\ \A k \in Kinds : k.route # Common /\ k.status \in Nat /\ k.ms \in Nat
  BY ServerAssumption DEF Health!MonitoringAssumption, Health!Other, Common

(* A function on 1..n is a sequence.                                        *)
LEMMA FunctionIsSequence ==
  ASSUME NEW n \in Nat, NEW S, NEW f \in [1..n -> S]
  PROVE  f \in Seq(S) /\ Len(f) = n
<1>1. f \in Seq(S) BY SeqDef
<1>2. DOMAIN f = 1..n /\ DOMAIN f = 1..Len(f) /\ Len(f) \in Nat BY <1>1, LenProperties
<1> QED BY <1>1, <1>2

(* Last keeps the end of a sequence.                                        *)
LEMMA LastKeeps ==
  ASSUME NEW S, NEW s \in Seq(S), NEW n \in Nat
  PROVE  /\ Health!Last(s, n) \in Seq(S) /\ Len(Health!Last(s, n)) \in Nat
         /\ Len(Health!Last(s, n)) = IF Len(s) > n THEN n ELSE Len(s)
         /\ \A i \in 1..Len(Health!Last(s, n)) :
              Health!Last(s, n)[i] = s[Len(s) - Len(Health!Last(s, n)) + i]
<1> DEFINE a == 1 + (IF Len(s) > n THEN Len(s) - n ELSE 0)
<1>1. Len(s) \in Nat /\ \A i \in 1..Len(s) : s[i] \in S
  BY LenProperties
<1>2. /\ a \in Nat /\ a >= 1 /\ a <= Len(s) + 1
      /\ a = IF Len(s) > n THEN Len(s) - n + 1 ELSE 1
  BY <1>1
<1>3. Health!Last(s, n) = SubSeq(s, a, Len(s))
  BY DEF Health!Last
<1>4. \A i \in a..Len(s) : s[i] \in S
  BY <1>1, <1>2
<1>5. /\ SubSeq(s, a, Len(s)) \in Seq(S)
      /\ Len(SubSeq(s, a, Len(s))) = IF a <= Len(s) THEN Len(s) - a + 1 ELSE 0
      /\ \A i \in 1..(Len(s) - a + 1) : SubSeq(s, a, Len(s))[i] = s[a + i - 1]
  <2> HIDE DEF a
  <2> QED BY <1>1, <1>2, <1>4, SubSeqProperties
<1> HIDE DEF a
<1>6. Len(SubSeq(s, a, Len(s))) = IF Len(s) > n THEN n ELSE Len(s)
  <2>1. CASE Len(s) > n
    BY <1>1, <1>2, <1>5, <2>1
  <2>2. CASE ~ (Len(s) > n)
    BY <1>1, <1>2, <1>5, <2>2
  <2> QED BY <2>1, <2>2
<1>7. \A i \in 1..Len(SubSeq(s, a, Len(s))) :
        SubSeq(s, a, Len(s))[i] = s[Len(s) - Len(SubSeq(s, a, Len(s))) + i]
  <2> SUFFICES ASSUME NEW i \in 1..Len(SubSeq(s, a, Len(s)))
               PROVE  SubSeq(s, a, Len(s))[i] = s[Len(s) - Len(SubSeq(s, a, Len(s))) + i]
    OBVIOUS
  <2>1. Len(SubSeq(s, a, Len(s))) = Len(s) - a + 1
    <3>1. CASE a <= Len(s) BY <1>5, <3>1
    <3>2. CASE ~ (a <= Len(s))
      <4>1. a = Len(s) + 1 /\ Len(SubSeq(s, a, Len(s))) = 0 BY <1>1, <1>2, <1>5, <3>2
      <4> QED BY <1>1, <4>1
    <3> QED BY <3>1, <3>2
  <2>2. i \in 1..(Len(s) - a + 1) /\ Len(s) - (Len(s) - a + 1) + i = a + i - 1
    BY <1>1, <1>2, <2>1
  <2> QED BY <1>5, <2>1, <2>2
<1> QED BY <1>1, <1>3, <1>5, <1>6, <1>7

(* What is left after a look at ages that come oldest first: those of the   *)
(* window, as many as there is room for.                                    *)
LEMMA PrunedKeeps ==
  ASSUME NEW s \in Seq(Nat), \A i, j \in 1..Len(s) : i <= j => s[j] <= s[i],
         NEW t, t = Health!Pruned(s)
  PROVE  /\ t \in Seq(0..Window) /\ Len(t) \in Nat /\ Len(t) <= Len(s) /\ Len(t) <= RecentCap
         /\ \A i \in 1..Len(t) : t[i] = s[Len(s) - Len(t) + i]
         /\ Len(t) < RecentCap => \A i \in 1..(Len(s) - Len(t)) : s[i] > Window
<1> DEFINE F == {i \in DOMAIN s : s[i] <= Window} \cup {Len(s) + 1}
           m == Health!FirstKept(s)
           u == SubSeq(s, m, Len(s))
<1>1. Len(s) \in Nat /\ DOMAIN s = 1..Len(s) /\ \A i \in 1..Len(s) : s[i] \in Nat
  BY LenProperties
<1>2. /\ m \in 1..(Len(s) + 1) /\ m \in F
      /\ \A i \in F : m <= i
  <2>1. F \subseteq Nat /\ F # {} /\ F \subseteq 1..(Len(s) + 1)
    BY <1>1
  <2> HIDE DEF F
  <2>2. \E x \in F : \A y \in F : x <= y
    BY <2>1, Least
  <2>3. m = CHOOSE x \in F : \A y \in F : x <= y
    BY DEF Health!FirstKept, Health!Min, F
  <2> HIDE DEF m
  <2> QED BY <2>1, <2>2, <2>3
<1>3. \A i \in 1..(m - 1) : s[i] > Window
  <2> SUFFICES ASSUME NEW i \in 1..(m - 1) PROVE s[i] > Window OBVIOUS
  <2> HIDE DEF m
  <2>1. i \in DOMAIN s /\ ~ (m <= i) BY <1>1, <1>2
  <2>2. ~ (s[i] <= Window) BY <1>2, <2>1
  <2> QED BY <1>1, <2>1, <2>2, HealthConstants
<1>4. \A i \in m..Len(s) : s[i] \in 0..Window
  <2> SUFFICES ASSUME NEW i \in m..Len(s) PROVE s[i] \in 0..Window OBVIOUS
  <2> HIDE DEF m
  <2>1. m \in 1..Len(s) /\ i \in 1..Len(s) /\ m <= i BY <1>1, <1>2
  <2>2. s[m] <= Window BY <1>1, <1>2, <2>1
  <2>3. s[i] <= s[m] BY <2>1
  <2> QED BY <1>1, <2>1, <2>2, <2>3, HealthConstants
<1>5. /\ u \in Seq(0..Window)
      /\ Len(u) = Len(s) - m + 1
      /\ \A i \in 1..Len(u) : u[i] = s[m + i - 1]
  <2> HIDE DEF m
  <2>1. /\ u \in Seq(0..Window)
        /\ Len(u) = IF m <= Len(s) THEN Len(s) - m + 1 ELSE 0
        /\ \A i \in 1..(Len(s) - m + 1) : u[i] = s[m + i - 1]
    BY <1>1, <1>2, <1>4, SubSeqProperties
  <2>2. Len(u) = Len(s) - m + 1 BY <1>1, <1>2, <2>1
  <2> QED BY <2>1, <2>2
<1>6. t = Health!Last(u, RecentCap)
  BY DEF Health!Pruned
<1> HIDE DEF u, m
<1>7. /\ t \in Seq(0..Window) /\ Len(t) \in Nat
      /\ Len(t) = IF Len(u) > RecentCap THEN RecentCap ELSE Len(u)
      /\ \A i \in 1..Len(t) : t[i] = u[Len(u) - Len(t) + i]
  <2> DEFINE S == 0..Window
  <2>1. u \in Seq(S) /\ RecentCap \in Nat BY <1>5, HealthConstants
  <2> HIDE DEF S
  <2>2. /\ Health!Last(u, RecentCap) \in Seq(S) /\ Len(Health!Last(u, RecentCap)) \in Nat
        /\ Len(Health!Last(u, RecentCap)) = IF Len(u) > RecentCap THEN RecentCap ELSE Len(u)
        /\ \A i \in 1..Len(Health!Last(u, RecentCap)) :
             Health!Last(u, RecentCap)[i] = u[Len(u) - Len(Health!Last(u, RecentCap)) + i]
    BY <2>1, LastKeeps
  <2>3. t \in Seq(S) BY <1>6, <2>2
  <2> QED BY <1>6, <2>2, <2>3 DEF S
<1>8. Len(t) <= Len(s) /\ Len(t) <= RecentCap
  BY <1>1, <1>2, <1>5, <1>7, HealthConstants
<1>9. \A i \in 1..Len(t) : t[i] = s[Len(s) - Len(t) + i]
  <2> SUFFICES ASSUME NEW i \in 1..Len(t) PROVE t[i] = s[Len(s) - Len(t) + i] OBVIOUS
  <2>1. Len(u) - Len(t) + i \in 1..Len(u) BY <1>1, <1>2, <1>5, <1>7, HealthConstants
  <2>2. m + (Len(u) - Len(t) + i) - 1 = Len(s) - Len(t) + i BY <1>1, <1>2, <1>5, <1>7
  <2> QED BY <1>5, <1>7, <2>1, <2>2
<1>10. Len(t) < RecentCap => \A i \in 1..(Len(s) - Len(t)) : s[i] > Window
  <2> SUFFICES ASSUME Len(t) < RecentCap PROVE Len(s) - Len(t) = m - 1
    BY <1>3
  <2> QED BY <1>1, <1>2, <1>5, <1>7, HealthConstants
<1> QED BY <1>7, <1>8, <1>9, <1>10

(* The counters, said of the places in past.                                *)
OfStatus(least) == {i \in 1..Len(past) : past[i].kind.status >= least}
Lasting == {i \in 1..Len(past) : past[i].kind.ms >= 500}
RowOf(key) == {i \in 1..Len(past) : IF key = Common THEN past[i].kind.route \notin DOMAIN routes
                                                    ELSE past[i].kind.route = key}
TotalsHold == /\ total.requests = Len(past)
              /\ total.errors5xx = Cardinality(OfStatus(500))
              /\ total.slow = Cardinality(Lasting)
RowsHold ==
  /\ \A key \in DOMAIN routes : /\ routes[key].requests = Cardinality(RowOf(key))
                               /\ routes[key].errors = Cardinality(RowOf(key) \cap OfStatus(400))
  /\ Common \notin DOMAIN routes => RowOf(Common) = {}

LEMMA CountsMean == HealthTyped => (Health!CountsAgree <=> TotalsHold /\ RowsHold)
<1> SUFFICES ASSUME HealthTyped PROVE Health!CountsAgree <=> TotalsHold /\ RowsHold OBVIOUS
<1>1. DOMAIN past = 1..Len(past) BY LenProperties DEF HealthTyped
<1>2. /\ \A least : Health!OfStatus(least) = OfStatus(least)
      /\ Health!Lasting = Lasting
  BY <1>1 DEF Health!OfStatus, Health!Lasting, Health!Such, OfStatus, Lasting
<1>3. \A key : Health!OfRow(key) = RowOf(key)
  BY <1>1 DEF Health!OfRow, Health!Such, RowOf, Health!Other, Common
<1>4. Health!Other = Common
  BY DEF Health!Other, Common
<1>5. \A key : /\ Health!Cardinality(Health!OfRow(key)) = Cardinality(RowOf(key))
               /\ Health!Cardinality(Health!OfRow(key) \cap Health!OfStatus(400))
                    = Cardinality(RowOf(key) \cap OfStatus(400))
  <2> TAKE key
  <2>1. Health!OfRow(key) = RowOf(key) /\ Health!OfStatus(400) = OfStatus(400) BY <1>2, <1>3
  <2> QED BY <2>1, HealthSets
<1>6. /\ Health!Cardinality(Health!OfStatus(500)) = Cardinality(OfStatus(500))
      /\ Health!Cardinality(Health!Lasting) = Cardinality(Lasting)
  BY <1>2, HealthSets
<1>7. Health!OfRow(Health!Other) = RowOf(Common)
  BY <1>3, <1>4
<1>8. Health!CountsAgree => TotalsHold BY <1>6 DEF Health!CountsAgree, TotalsHold
<1>9. Health!CountsAgree => RowsHold
  <2> SUFFICES ASSUME Health!CountsAgree PROVE RowsHold OBVIOUS
  <2>1. \A key \in DOMAIN routes : /\ routes[key].requests = Cardinality(RowOf(key))
                                  /\ routes[key].errors = Cardinality(RowOf(key) \cap OfStatus(400))
    <3> SUFFICES ASSUME NEW key \in DOMAIN routes
                 PROVE  /\ routes[key].requests = Cardinality(RowOf(key))
                        /\ routes[key].errors = Cardinality(RowOf(key) \cap OfStatus(400))
      OBVIOUS
    <3>1. /\ routes[key].requests = Health!Cardinality(Health!OfRow(key))
          /\ routes[key].errors = Health!Cardinality(Health!OfRow(key) \cap Health!OfStatus(400))
      BY DEF Health!CountsAgree
    <3> QED BY <1>5, <3>1
  <2>2. Common \notin DOMAIN routes => RowOf(Common) = {} BY <1>4, <1>7 DEF Health!CountsAgree
  <2> QED BY <2>1, <2>2 DEF RowsHold
<1>10. TotalsHold /\ RowsHold => Health!CountsAgree
  <2> SUFFICES ASSUME TotalsHold, RowsHold PROVE Health!CountsAgree OBVIOUS
  <2>1. /\ total.requests = Len(past)
        /\ total.errors5xx = Health!Cardinality(Health!OfStatus(500))
        /\ total.slow = Health!Cardinality(Health!Lasting)
    BY <1>6 DEF TotalsHold
  <2>2. \A key \in DOMAIN routes :
          /\ routes[key].requests = Health!Cardinality(Health!OfRow(key))
          /\ routes[key].errors = Health!Cardinality(Health!OfRow(key) \cap Health!OfStatus(400))
    <3> SUFFICES ASSUME NEW key \in DOMAIN routes
                 PROVE  /\ routes[key].requests = Health!Cardinality(Health!OfRow(key))
                        /\ routes[key].errors = Health!Cardinality(Health!OfRow(key) \cap Health!OfStatus(400))
      OBVIOUS
    <3>1. /\ routes[key].requests = Cardinality(RowOf(key))
          /\ routes[key].errors = Cardinality(RowOf(key) \cap OfStatus(400)) BY DEF RowsHold
    <3> QED BY <1>5, <3>1
  <2>3. Health!Other \notin DOMAIN routes => Health!OfRow(Health!Other) = {}
    BY <1>4, <1>7 DEF RowsHold
  <2> QED BY <2>1, <2>2, <2>3 DEF Health!CountsAgree
<1> QED BY <1>8, <1>9, <1>10

LEMMA HealthBegins == Health!Init => HealthInv
<1> SUFFICES ASSUME Health!Init PROVE HealthInv OBVIOUS
<1> USE HealthConstants
<1>1. past = <<>> /\ Len(past) = 0 /\ recent = <<>> /\ samples = <<>> /\ DOMAIN routes = {}
  BY DEF Health!Init
<1>2. HealthTyped
  BY <1>1 DEF HealthTyped, Health!Init
<1>3. RecentSound BY <1>1 DEF RecentSound
<1>4. ToldSound
  BY DEF ToldSound, Health!Init
<1>5. TableSound
  <2>1. DOMAIN routes \ {Common} = {} BY <1>1
  <2> QED BY <1>1, <2>1, FS_EmptySet DEF TableSound
<1>6. TotalsHold /\ RowsHold
  <2>1. OfStatus(500) = {} /\ Lasting = {} BY <1>1 DEF OfStatus, Lasting
  <2>2. TotalsHold BY <1>1, <2>1, FS_EmptySet DEF TotalsHold, Health!Init
  <2>3. RowsHold BY <1>1 DEF RowsHold, RowOf
  <2> QED BY <2>2, <2>3
<1> QED BY <1>2, <1>3, <1>4, <1>5, <1>6, CountsMean DEF HealthInv

(* A request is counted: one place more, at the end.                        *)
LEMMA RecordAppends ==
  ASSUME HealthInv, NEW k \in Kinds, Health!RecordRequest(k)
  PROVE  /\ Len(past) \in Nat /\ Len(past') = Len(past) + 1 /\ Len(past) < MaxRequests
         /\ past' \in Seq([age : 0..(Window + 1), kind : Kinds])
         /\ \A i \in 1..Len(past) : past'[i] = past[i]
         /\ past'[Len(past) + 1].age = 0 /\ past'[Len(past) + 1].kind = k
<1> DEFINE E == [age : 0..(Window + 1), kind : Kinds]
           e == [age |-> 0, kind |-> k]
<1>1. past \in Seq(E) /\ e \in E BY HealthConstants DEF HealthInv, HealthTyped
<1>2. past' = Append(past, e) BY DEF Health!RecordRequest
<1>3. e.age = 0 /\ e.kind = k OBVIOUS
<1>4. Len(past) < MaxRequests
  <2>1. total.requests < MaxRequests BY DEF Health!RecordRequest
  <2>2. TotalsHold BY CountsMean DEF HealthInv
  <2>3. total.requests = Len(past) BY <2>2 DEF TotalsHold
  <2> QED BY <2>1, <2>3
<1> HIDE DEF E, e
<1>5. Len(past) \in Nat BY <1>1, LenProperties
<1>6. past' \in Seq(E) /\ Len(past') = Len(past) + 1 /\ past'[Len(past) + 1] = e
      /\ \A i \in 1..Len(past) : past'[i] = past[i]
  BY <1>1, <1>2, AppendProperties
<1> QED BY <1>3, <1>4, <1>5, <1>6 DEF E

(* One place more in a part of past.                                        *)
LEMMA OnePlaceMore ==
  ASSUME NEW n \in Nat, NEW A \in SUBSET (1..n)
  PROVE  /\ IsFiniteSet(A) /\ Cardinality(A) \in Nat /\ Cardinality(A) <= n
         /\ Cardinality(A \cup {n + 1}) = Cardinality(A) + 1
<1>1. IsFiniteSet(1..n) /\ Cardinality(1..n) = n
  BY FS_Interval
<1>2. IsFiniteSet(A) /\ Cardinality(A) <= n
  BY <1>1, FS_Subset
<1>3. n + 1 \notin A OBVIOUS
<1> QED BY <1>2, <1>3, FS_AddElement, FS_CardinalityType

LEMMA RecordKeepsTotals ==
  ASSUME HealthInv, NEW k \in Kinds, Health!RecordRequest(k)
  PROVE  TotalsHold'
<1> DEFINE n == Len(past)
<1>1. TotalsHold /\ total.requests = n BY CountsMean DEF HealthInv, TotalsHold
<1>2. n \in Nat /\ Len(past') = n + 1 BY RecordAppends
<1>3. OfStatus(500)' = IF k.status >= 500 THEN OfStatus(500) \cup {n + 1} ELSE OfStatus(500)
  BY <1>2, RecordAppends DEF OfStatus
<1>4. Lasting' = IF k.ms >= 500 THEN Lasting \cup {n + 1} ELSE Lasting
  BY <1>2, RecordAppends DEF Lasting
<1>5. OfStatus(500) \in SUBSET (1..n) /\ Lasting \in SUBSET (1..n)
  BY DEF OfStatus, Lasting
<1>11. \A A \in SUBSET (1..n) : Cardinality(A) \in Nat /\ Cardinality(A \cup {n + 1}) = Cardinality(A) + 1
  BY <1>2, OnePlaceMore
<1> HIDE DEF n
<1>6. /\ Cardinality(OfStatus(500) \cup {n + 1}) = Cardinality(OfStatus(500)) + 1
      /\ Cardinality(Lasting \cup {n + 1}) = Cardinality(Lasting) + 1
      /\ Cardinality(OfStatus(500)) \in Nat /\ Cardinality(Lasting) \in Nat
  BY <1>5, <1>11
<1>7. total' = [requests |-> total.requests + 1,
               errors5xx |-> total.errors5xx + (IF k.status >= 500 THEN 1 ELSE 0),
               slow |-> total.slow + (IF k.ms >= 500 THEN 1 ELSE 0)]
  BY DEF Health!RecordRequest
<1>8. total.errors5xx = Cardinality(OfStatus(500)) /\ total.slow = Cardinality(Lasting)
  BY <1>1 DEF TotalsHold
<1>9. Cardinality(OfStatus(500)') = Cardinality(OfStatus(500)) + (IF k.status >= 500 THEN 1 ELSE 0)
  <2>1. CASE k.status >= 500
    <3>1. OfStatus(500)' = OfStatus(500) \cup {n + 1} BY <1>3, <2>1
    <3> QED BY <1>6, <2>1, <3>1
  <2>2. CASE ~ (k.status >= 500) BY <1>3, <1>6, <2>2
  <2> QED BY <2>1, <2>2
<1>10. Cardinality(Lasting') = Cardinality(Lasting) + (IF k.ms >= 500 THEN 1 ELSE 0)
  <2>1. CASE k.ms >= 500 BY <1>4, <1>6, <2>1
  <2>2. CASE ~ (k.ms >= 500) BY <1>4, <1>6, <2>2
  <2> QED BY <2>1, <2>2
<1> QED BY <1>1, <1>2, <1>7, <1>8, <1>9, <1>10 DEF TotalsHold

(* The row a request is counted in, and what it does to the table.  A route *)
(* without a row that gets one now had no request before.                   *)
LEMMA RecordFindsRow ==
  ASSUME HealthInv, NEW k \in Kinds, Health!RecordRequest(k), NEW key, key = Health!KeyOf(k.route)
  PROVE  /\ DOMAIN routes' = DOMAIN routes \cup {key}
         /\ TableSound'
         /\ RowOf(key)' = RowOf(key) \cup {Len(past) + 1}
         /\ key \notin DOMAIN routes => RowOf(key) = {}
         /\ \A q \in DOMAIN routes : q # key => RowOf(q)' = RowOf(q)
         /\ Common \notin DOMAIN routes' => RowOf(Common)' = {}
<1> DEFINE n == Len(past)
           D == DOMAIN routes
<1>1. RowsHold /\ TableSound BY CountsMean DEF HealthInv
<1>2. n \in Nat /\ Len(past') = n + 1 /\ past'[n + 1].kind = k /\ \A i \in 1..n : past'[i] = past[i]
  BY RecordAppends
<1>3. DOMAIN routes' = D \cup {key}
  BY DEF Health!RecordRequest
<1>4. \A i \in 1..n : past[i].kind \in Kinds
  <2> DEFINE E == [age : 0..(Window + 1), kind : Kinds]
  <2>1. past \in Seq(E) BY DEF HealthInv, HealthTyped
  <2>2. \A e \in E : e.kind \in Kinds OBVIOUS
  <2> HIDE DEF E
  <2>3. \A i \in 1..n : past[i] \in E BY <2>1, LenProperties
  <2> QED BY <2>2, <2>3
<1>5. k.route # Common /\ \A i \in 1..n : past[i].kind.route # Common
  BY <1>4, HealthConstants
<1>6. \A q : q # Common => RowOf(q)' = IF q = k.route THEN RowOf(q) \cup {n + 1} ELSE RowOf(q)
  BY <1>2 DEF RowOf
<1>7. IsFiniteSet(D) /\ IsFiniteSet(D \ {Common}) /\ Cardinality(D) \in Nat
      /\ Cardinality(D \ {Common}) = IF Common \in D THEN Cardinality(D) - 1 ELSE Cardinality(D)
  BY <1>1, FS_RemoveElement, FS_CardinalityType DEF TableSound
<1>8. key = IF k.route \notin D /\ Cardinality(D) >= RouteCap THEN Common ELSE k.route
  BY HealthSets DEF Health!KeyOf, Health!Other, Common
<1>9. CASE k.route \in D
  <2>1. key = k.route /\ DOMAIN routes' = D BY <1>3, <1>8, <1>9
  <2>2. TableSound' BY <1>1, <2>1 DEF TableSound
  <2>3. RowOf(Common)' = RowOf(Common)
    BY <1>2, <1>9, <2>1 DEF RowOf
  <2>4. \A q \in D : q # key => RowOf(q)' = RowOf(q) BY <1>6, <2>1, <2>3
  <2>5. RowOf(key)' = RowOf(key) \cup {n + 1} BY <1>5, <1>6, <2>1
  <2>6. Common \notin DOMAIN routes' => RowOf(Common)' = {} BY <1>1, <2>1, <2>3 DEF RowsHold
  <2> QED BY <1>3, <1>9, <2>1, <2>2, <2>4, <2>5, <2>6
<1>10. CASE k.route \notin D /\ Cardinality(D) < RouteCap
  <2>1. key = k.route /\ Common \notin D BY <1>1, <1>7, <1>8, <1>10, HealthConstants DEF TableSound
  <2>2. TableSound'
    <3>1. (D \cup {key}) \ {Common} = D \cup {key} BY <1>5, <2>1
    <3>2. IsFiniteSet(D \cup {key}) /\ Cardinality(D \cup {key}) = Cardinality(D) + 1
      BY <1>7, <1>10, <2>1, FS_AddElement
    <3>3. Common \notin D \cup {key} BY <1>5, <2>1
    <3>4. Cardinality(D \cup {key}) <= RouteCap BY <1>7, <1>10, <3>2, HealthConstants
    <3> HIDE DEF D
    <3> QED BY <1>3, <3>1, <3>2, <3>3, <3>4 DEF TableSound
  <2>3. RowOf(Common) = {} BY <1>1, <2>1 DEF RowsHold
  <2>4. \A i \in 1..n : past[i].kind.route \in D BY <2>3 DEF RowOf
  <2>5. RowOf(key) = {} BY <1>5, <1>10, <2>1, <2>4 DEF RowOf
  <2>6. RowOf(Common)' = {}
    BY <1>2, <1>3, <2>1, <2>4 DEF RowOf
  <2>7. \A q \in D : q # key => RowOf(q)' = RowOf(q) BY <1>6, <2>1
  <2>8. RowOf(key)' = RowOf(key) \cup {n + 1} BY <1>5, <1>6, <2>1
  <2> QED BY <1>3, <2>2, <2>5, <2>6, <2>7, <2>8
<1>11. CASE k.route \notin D /\ ~ (Cardinality(D) < RouteCap)
  <2>1. key = Common BY <1>7, <1>8, <1>11, HealthConstants
  <2>2. TableSound'
    <3>1. (D \cup {key}) \ {Common} = D \ {Common} BY <2>1
    <3>2. IsFiniteSet(D \cup {key}) BY <1>7, FS_AddElement
    <3>3. Cardinality(D \ {Common}) = RouteCap
      BY <1>1, <1>7, <1>11, HealthConstants DEF TableSound
    <3> HIDE DEF D
    <3> QED BY <1>3, <3>1, <3>2, <3>3, HealthConstants DEF TableSound
  <2>3. RowOf(key)' = RowOf(key) \cup {n + 1}
    BY <1>2, <1>3, <1>5, <1>11, <2>1 DEF RowOf
  <2>4. \A q \in D : q # key => RowOf(q)' = RowOf(q) BY <1>6, <1>11, <2>1
  <2>5. Common \notin D => RowOf(Common) = {} BY <1>1 DEF RowsHold
  <2> QED BY <1>3, <2>1, <2>2, <2>3, <2>4, <2>5
<1> QED BY <1>9, <1>10, <1>11

LEMMA RecordKeepsRows ==
  ASSUME HealthInv, NEW k \in Kinds, Health!RecordRequest(k)
  PROVE  RowsHold'
<1> DEFINE n == Len(past)
           failed == IF k.status >= 400 THEN 1 ELSE 0
<1> SUFFICES ASSUME NEW key, key = Health!KeyOf(k.route) PROVE RowsHold' OBVIOUS
<1>1. RowsHold BY CountsMean DEF HealthInv
<1>2. n \in Nat /\ Len(past') = n + 1 BY RecordAppends
<1>3. OfStatus(400)' = IF k.status >= 400 THEN OfStatus(400) \cup {n + 1} ELSE OfStatus(400)
  BY <1>2, RecordAppends DEF OfStatus
<1>4. routes' = [r \in DOMAIN routes \cup {key} |->
        IF r = key THEN [requests |-> Health!Current(key).requests + 1,
                         errors |-> Health!Current(key).errors + failed] ELSE routes[r]]
  BY DEF Health!RecordRequest
<1>5. OfStatus(400) \in SUBSET (1..n) /\ \A q : RowOf(q) \in SUBSET (1..n)
  BY DEF OfStatus, RowOf
<1>6. \A A \in SUBSET (1..n) : Cardinality(A) \in Nat /\ Cardinality(A \cup {n + 1}) = Cardinality(A) + 1
  BY <1>2, OnePlaceMore
<1>7. /\ DOMAIN routes' = DOMAIN routes \cup {key}
      /\ RowOf(key)' = RowOf(key) \cup {n + 1}
      /\ key \notin DOMAIN routes => RowOf(key) = {}
      /\ \A q \in DOMAIN routes : q # key => RowOf(q)' = RowOf(q)
      /\ Common \notin DOMAIN routes' => RowOf(Common)' = {}
  BY RecordFindsRow
<1>8. /\ Health!Current(key).requests = Cardinality(RowOf(key))
      /\ Health!Current(key).errors = Cardinality(RowOf(key) \cap OfStatus(400))
  <2>1. CASE key \in DOMAIN routes
    BY <1>1, <2>1 DEF Health!Current, RowsHold
  <2>2. CASE key \notin DOMAIN routes
    <3>1. RowOf(key) = {} /\ RowOf(key) \cap OfStatus(400) = {} BY <1>7, <2>2
    <3>2. Health!Current(key) = [requests |-> 0, errors |-> 0] BY <2>2 DEF Health!Current
    <3> QED BY <3>1, <3>2, FS_EmptySet
  <2> QED BY <2>1, <2>2
<1> HIDE DEF n
<1>9. /\ routes'[key].requests = Cardinality(RowOf(key)')
      /\ routes'[key].errors = Cardinality(RowOf(key)' \cap OfStatus(400)')
  <2>1. /\ routes'[key].requests = Cardinality(RowOf(key)) + 1
        /\ routes'[key].errors = Cardinality(RowOf(key) \cap OfStatus(400)) + failed
    BY <1>4, <1>8
  <2>2. Cardinality(RowOf(key)') = Cardinality(RowOf(key)) + 1
    BY <1>5, <1>6, <1>7
  <2>3. RowOf(key) \cap OfStatus(400) \in SUBSET (1..n) BY <1>5
  <2>4. CASE k.status >= 400
    <3>1. RowOf(key)' \cap OfStatus(400)' = (RowOf(key) \cap OfStatus(400)) \cup {n + 1}
      BY <1>3, <1>7, <2>4
    <3> QED BY <1>6, <2>1, <2>2, <2>3, <2>4, <3>1
  <2>5. CASE ~ (k.status >= 400)
    <3>1. RowOf(key)' \cap OfStatus(400)' = RowOf(key) \cap OfStatus(400)
      BY <1>2, <1>3, <1>5, <1>7, <2>5
    <3>2. Cardinality(RowOf(key) \cap OfStatus(400)) \in Nat BY <1>6, <2>3
    <3> QED BY <2>1, <2>2, <2>5, <3>1, <3>2
  <2> QED BY <2>4, <2>5
<1>10. \A q \in DOMAIN routes : q # key =>
         /\ routes'[q].requests = Cardinality(RowOf(q)')
         /\ routes'[q].errors = Cardinality(RowOf(q)' \cap OfStatus(400)')
  <2> SUFFICES ASSUME NEW q \in DOMAIN routes, q # key
               PROVE  /\ routes'[q].requests = Cardinality(RowOf(q)')
                      /\ routes'[q].errors = Cardinality(RowOf(q)' \cap OfStatus(400)')
    OBVIOUS
  <2>1. routes'[q] = routes[q] BY <1>4
  <2>2. RowOf(q)' = RowOf(q) BY <1>7
  <2>3. RowOf(q)' \cap OfStatus(400)' = RowOf(q) \cap OfStatus(400)
    BY <1>2, <1>3, <1>5, <2>2
  <2> QED BY <1>1, <2>1, <2>2, <2>3 DEF RowsHold
<1>11. \A q \in DOMAIN routes' :
         /\ routes'[q].requests = Cardinality(RowOf(q)')
         /\ routes'[q].errors = Cardinality(RowOf(q)' \cap OfStatus(400)')
  <2> SUFFICES ASSUME NEW q \in DOMAIN routes'
               PROVE  /\ routes'[q].requests = Cardinality(RowOf(q)')
                      /\ routes'[q].errors = Cardinality(RowOf(q)' \cap OfStatus(400)')
    OBVIOUS
  <2>1. CASE q = key BY <1>9, <2>1
  <2>2. CASE q # key
    <3>1. q \in DOMAIN routes BY <1>7, <2>2
    <3> QED BY <1>10, <2>2, <3>1
  <2> QED BY <2>1, <2>2
<1> QED BY <1>7, <1>11 DEF RowsHold

LEMMA RecordKeeps ==
  ASSUME HealthInv, NEW k \in Kinds, Health!RecordRequest(k)
  PROVE  HealthInv'
<1> DEFINE n == Len(past)
<1>1. /\ n \in Nat /\ Len(past') = n + 1 /\ n < MaxRequests
      /\ \A i \in 1..n : past'[i] = past[i]
      /\ past'[n + 1].age = 0
  BY RecordAppends
<1>2. /\ alerted' = alerted /\ sending' = sending /\ heard' = heard
      /\ samples' = Health!Last(Append(samples, k.ms), SampleCap)
      /\ recent' = Health!Pruned(Append(recent, 0))
  BY DEF Health!RecordRequest
<1>3. /\ samples \in Seq(Nat) /\ recent \in Seq(0..Window) /\ Len(recent) <= RecentCap
      /\ HealthTyped /\ RecentSound
  BY DEF HealthInv, HealthTyped
<1>4. samples' \in Seq(Nat) /\ Len(samples') <= SampleCap
  <2>1. k.ms \in Nat /\ SampleCap \in Nat BY HealthConstants
  <2>2. Append(samples, k.ms) \in Seq(Nat) BY <1>3, <2>1, AppendProperties
  <2>3. Len(Append(samples, k.ms)) \in Nat BY <2>2, LenProperties
  <2> DEFINE a == Append(samples, k.ms)
  <2> HIDE DEF a
  <2>4. Health!Last(a, SampleCap) \in Seq(Nat)
        /\ Len(Health!Last(a, SampleCap)) = IF Len(a) > SampleCap THEN SampleCap ELSE Len(a)
    BY <2>1, <2>2, LastKeeps DEF a
  <2>5. Len(Health!Last(a, SampleCap)) <= SampleCap BY <2>1, <2>3, <2>4 DEF a
  <2> QED BY <1>2, <2>4, <2>5 DEF a
<1>5. /\ total' \in [requests : Nat, errors5xx : Nat, slow : Nat]
  <2>1. total \in [requests : Nat, errors5xx : Nat, slow : Nat] BY <1>3 DEF HealthTyped
  <2> QED BY <2>1 DEF Health!RecordRequest
<1> DEFINE s == Append(recent, 0)
<1>6. /\ s \in Seq(Nat) /\ Len(recent) \in Nat /\ Len(s) = Len(recent) + 1 /\ s[Len(recent) + 1] = 0
      /\ \A i \in 1..Len(recent) : s[i] = recent[i] /\ recent[i] \in 0..Window
  <2> DEFINE W == 0..Window
  <2>1. recent \in Seq(W) /\ W \subseteq Nat BY <1>3, HealthConstants
  <2> HIDE DEF W
  <2>2. recent \in Seq(Nat) BY <2>1, SeqMonotonic
  <2>3. \A i \in 1..Len(recent) : recent[i] \in W BY <2>1, LenProperties
  <2>4. Len(recent) \in Nat BY <2>1, LenProperties
  <2>5. s \in Seq(Nat) /\ Len(s) = Len(recent) + 1 /\ s[Len(recent) + 1] = 0
        /\ \A i \in 1..Len(recent) : s[i] = recent[i]
    BY <2>2, AppendProperties
  <2> QED BY <2>3, <2>4, <2>5 DEF W
<1> HIDE DEF s
<1>7. /\ \A i, j \in 1..n : i <= j => past[j].age <= past[i].age
      /\ Len(recent) <= n
      /\ \A i \in 1..Len(recent) : recent[i] = past[n - Len(recent) + i].age
      /\ Len(recent) < RecentCap => \A i \in 1..(n - Len(recent)) : past[i].age > Window
  BY <1>3 DEF RecentSound
<1>8. \A i \in 1..Len(s) : s[i] = past'[n - Len(recent) + i].age
  <2> SUFFICES ASSUME NEW i \in 1..Len(s) PROVE s[i] = past'[n - Len(recent) + i].age OBVIOUS
  <2>1. CASE i = Len(recent) + 1
    <3>1. n - Len(recent) + i = n + 1 BY <1>1, <1>6, <2>1
    <3> QED BY <1>1, <1>6, <2>1, <3>1
  <2>2. CASE i # Len(recent) + 1
    <3>1. i \in 1..Len(recent) /\ n - Len(recent) + i \in 1..n BY <1>1, <1>6, <1>7, <2>2
    <3> QED BY <1>1, <1>6, <1>7, <3>1
  <2> QED BY <2>1, <2>2
<1>9. \A i \in 1..n : past[i].age \in Nat
  <2> DEFINE E == [age : 0..(Window + 1), kind : Kinds]
  <2>1. past \in Seq(E) BY <1>3 DEF HealthTyped
  <2>2. \A e \in E : e.age \in Nat BY HealthConstants
  <2> HIDE DEF E
  <2>3. \A i \in 1..n : past[i] \in E BY <2>1, LenProperties
  <2> QED BY <2>2, <2>3
<1>10. \A i, j \in 1..(n + 1) : i <= j => past'[j].age <= past'[i].age
  <2> SUFFICES ASSUME NEW i \in 1..(n + 1), NEW j \in 1..(n + 1), i <= j
               PROVE  past'[j].age <= past'[i].age
    OBVIOUS
  <2>1. CASE j = n + 1
    <3>1. CASE i = n + 1 BY <1>1, <2>1, <3>1
    <3>2. CASE i # n + 1
      <4>1. i \in 1..n BY <1>1, <3>2
      <4> QED BY <1>1, <1>9, <2>1, <4>1
    <3> QED BY <3>1, <3>2
  <2>2. CASE j # n + 1
    <3>1. i \in 1..n /\ j \in 1..n BY <1>1, <2>2
    <3> QED BY <1>1, <1>7, <3>1
  <2> QED BY <2>1, <2>2
<1>11. \A i, j \in 1..Len(s) : i <= j => s[j] <= s[i]
  <2> SUFFICES ASSUME NEW i \in 1..Len(s), NEW j \in 1..Len(s), i <= j PROVE s[j] <= s[i] OBVIOUS
  <2>1. n - Len(recent) + i \in 1..(n + 1) /\ n - Len(recent) + j \in 1..(n + 1)
        /\ n - Len(recent) + i <= n - Len(recent) + j
    BY <1>1, <1>6, <1>7
  <2> QED BY <1>8, <1>10, <2>1
<1>12. /\ recent' \in Seq(0..Window) /\ Len(recent') \in Nat /\ Len(recent') <= Len(s) /\ Len(recent') <= RecentCap
       /\ \A i \in 1..Len(recent') : recent'[i] = s[Len(s) - Len(recent') + i]
       /\ Len(recent') < RecentCap => \A i \in 1..(Len(s) - Len(recent')) : s[i] > Window
  BY <1>2, <1>6, <1>11, PrunedKeeps DEF s
<1>13. RecentSound'
  <2>1. Len(recent') <= n + 1 BY <1>1, <1>6, <1>7, <1>12
  <2>2. \A i \in 1..Len(recent') : recent'[i] = past'[n + 1 - Len(recent') + i].age
    <3> SUFFICES ASSUME NEW i \in 1..Len(recent') PROVE recent'[i] = past'[n + 1 - Len(recent') + i].age OBVIOUS
    <3>1. Len(s) - Len(recent') + i \in 1..Len(s) BY <1>6, <1>12
    <3>2. n - Len(recent) + (Len(s) - Len(recent') + i) = n + 1 - Len(recent') + i BY <1>1, <1>6, <1>12
    <3> QED BY <1>8, <1>12, <3>1, <3>2
  <2>3. Len(recent') < RecentCap => \A i \in 1..(n + 1 - Len(recent')) : past'[i].age > Window
    <3> SUFFICES ASSUME Len(recent') < RecentCap, NEW i \in 1..(n + 1 - Len(recent')) PROVE past'[i].age > Window
      OBVIOUS
    <3>1. \A m \in 1..(Len(s) - Len(recent')) : s[m] > Window BY <1>12
    <3>2. Len(s) = Len(recent')
      <4> DEFINE m == Len(s) - Len(recent')
      <4>1. Len(s) \in Nat /\ Len(recent') \in Nat /\ m \in Nat /\ m <= Len(s) /\ Len(s) = Len(recent) + 1
            /\ (m = 0 => Len(s) = Len(recent'))
        BY <1>6, <1>12
      <4> HIDE DEF m
      <4>2. \A x \in 1..m : s[x] > Window BY <3>1 DEF m
      <4>3. m # 0 => s[m] > Window BY <4>1, <4>2
      <4>4. CASE m = Len(recent) + 1
        <5>1. s[m] = 0 BY <1>6, <4>4
        <5> QED BY <1>6, <4>3, <4>4, <5>1, HealthConstants
      <4>5. CASE m # Len(recent) + 1 /\ m # 0
        <5>1. m \in 1..Len(recent) BY <1>6, <4>1, <4>5
        <5>2. s[m] \in 0..Window BY <1>6, <5>1
        <5> QED BY <4>3, <4>5, <5>2, HealthConstants
      <4> QED BY <4>1, <4>4, <4>5
    <3>5. /\ n \in Nat /\ Len(recent) \in Nat /\ Len(recent') = Len(recent) + 1 /\ Len(recent) <= n
      BY <1>1, <1>6, <1>7, <3>2
    <3>6. n + 1 - Len(recent') = n - Len(recent) BY <3>5
    <3>3. Len(recent) < RecentCap /\ i \in 1..(n - Len(recent)) /\ i \in 1..n
      BY <3>5, <3>6, HealthConstants
    <3>4. past[i].age > Window BY <1>7, <3>3
    <3> QED BY <1>1, <3>3, <3>4
  <2> QED BY <1>1, <1>10, <2>1, <2>2, <2>3 DEF RecentSound
<1>14. HealthTyped'
  <2>1. past' \in Seq([age : 0..(Window + 1), kind : Kinds]) BY RecordAppends
  <2>2. Len(past') <= MaxRequests BY <1>1, HealthConstants
  <2> QED BY <1>2, <1>3, <1>4, <1>5, <1>12, <2>1, <2>2 DEF HealthTyped
<1>15. ToldSound'
  <2>1. Health!Codes' = Health!Codes BY DEF Health!Codes
  <2> QED BY <1>2, <2>1 DEF HealthInv, ToldSound
<1>16. TableSound'
  BY RecordFindsRow
<1>17. TotalsHold' /\ RowsHold'
  BY RecordKeepsTotals, RecordKeepsRows
<1>18. HealthTyped' => (Health!CountsAgree' <=> TotalsHold' /\ RowsHold')
  BY CountsMean, PTL
<1> QED BY <1>13, <1>14, <1>15, <1>16, <1>17, <1>18 DEF HealthInv

(* Where recent is the sound end of past, it is exactly what the window     *)
(* holds, as far as there is room.                                          *)
Exact ==
  recent = Health!Last(Health!Last(Health!Ages, Health!Cardinality(Health!InWindow)), RecentCap)

LEMMA SoundIsExact == HealthTyped /\ RecentSound => Exact
<1> SUFFICES ASSUME HealthTyped, RecentSound PROVE Exact OBVIOUS
<1> DEFINE W == 0..Window
           A == 0..(Window + 1)
           E == [age : A, kind : Kinds]
           n == Len(past)
           r == Len(recent)
           F == Health!InWindow
           c == Cardinality(F)
<1>1. past \in Seq(E) /\ recent \in Seq(W) /\ r <= RecentCap /\ W \subseteq A /\ \A x \in W : x <= Window
  BY HealthConstants DEF HealthTyped
<1>2. \A e \in E : e.age \in A OBVIOUS
<1> HIDE DEF W, E, A
<1>3. /\ n \in Nat /\ DOMAIN past = 1..n /\ \A i \in 1..n : past[i].age \in A
      /\ r \in Nat /\ \A i \in 1..r : recent[i] \in W
  BY <1>1, <1>2, LenProperties
<1>4. Health!Ages \in Seq(A) /\ Len(Health!Ages) = n /\ \A i \in 1..n : Health!Ages[i] = past[i].age
  <2>1. Health!Ages = [i \in 1..n |-> past[i].age] BY <1>3 DEF Health!Ages
  <2>2. Health!Ages \in [1..n -> A] BY <1>3, <2>1
  <2>3. Health!Ages \in Seq(A) /\ Len(Health!Ages) = n BY <1>3, <2>2, FunctionIsSequence
  <2> QED BY <2>1, <2>3
<1>5. F = {i \in 1..n : past[i].age <= Window} BY <1>3 DEF Health!InWindow
<1>6. /\ r <= n
      /\ \A i \in 1..r : recent[i] = past[n - r + i].age
      /\ r < RecentCap => \A i \in 1..(n - r) : past[i].age > Window
  BY DEF RecentSound
<1> HIDE DEF n, r, F
<1>7. IsFiniteSet(F) /\ c \in Nat /\ c <= n
  BY <1>3, <1>5, OnePlaceMore
<1>8. (n - r + 1)..n \subseteq F
  <2> SUFFICES ASSUME NEW j \in (n - r + 1)..n PROVE j \in F OBVIOUS
  <2> DEFINE i == j - (n - r)
  <2>1. i \in 1..r /\ n - r + i = j /\ j \in 1..n BY <1>3, <1>6
  <2> HIDE DEF i
  <2>2. past[j].age = recent[i] /\ recent[i] <= Window BY <1>1, <1>3, <1>6, <2>1
  <2> QED BY <1>5, <2>1, <2>2
<1>9. r <= c
  <2>1. n - r + 1 \in Int /\ n \in Int BY <1>3
  <2>2. Cardinality((n - r + 1)..n) = IF n - r + 1 > n THEN 0 ELSE n - (n - r + 1) + 1
    BY <2>1, FS_Interval
  <2>3. Cardinality((n - r + 1)..n) = r
    <3>1. n \in Nat /\ r \in Nat BY <1>3
    <3>2. CASE r = 0 BY <2>2, <3>1, <3>2
    <3>3. CASE r # 0 BY <2>2, <3>1, <3>3
    <3> QED BY <3>2, <3>3
  <2>4. Cardinality((n - r + 1)..n) <= Cardinality(F) BY <1>7, <1>8, FS_Subset
  <2> QED BY <2>3, <2>4
<1>10. r < RecentCap => c = r
  <2> SUFFICES ASSUME r < RecentCap PROVE c <= r BY <1>3, <1>7, <1>9
  <2>1. F \subseteq (n - r + 1)..n
    <3> SUFFICES ASSUME NEW j \in F PROVE j \in (n - r + 1)..n OBVIOUS
    <3>1. j \in 1..n /\ past[j].age <= Window BY <1>5
    <3>2. j \notin 1..(n - r)
      <4> SUFFICES ASSUME j \in 1..(n - r) PROVE FALSE OBVIOUS
      <4>1. past[j].age > Window BY <1>6
      <4>2. past[j].age \in Nat BY <1>3, <3>1, HealthConstants DEF A
      <4> QED BY <3>1, <4>1, <4>2, HealthConstants
    <3> QED BY <1>3, <3>1, <3>2
  <2>2. n - r + 1 \in Int /\ n \in Int BY <1>3
  <2>3. IsFiniteSet((n - r + 1)..n)
        /\ Cardinality((n - r + 1)..n) = IF n - r + 1 > n THEN 0 ELSE n - (n - r + 1) + 1
    BY <2>2, FS_Interval
  <2>4. Cardinality((n - r + 1)..n) = r
    <3>1. n \in Nat /\ r \in Nat BY <1>3
    <3>2. CASE r = 0 BY <2>3, <3>1, <3>2
    <3>3. CASE r # 0 BY <2>3, <3>1, <3>3
    <3> QED BY <3>2, <3>3
  <2>5. Cardinality(F) <= Cardinality((n - r + 1)..n) BY <2>1, <2>3, FS_Subset
  <2> QED BY <2>4, <2>5
<1> DEFINE u == Health!Last(Health!Ages, c)
           t == Health!Last(u, RecentCap)
<1> HIDE DEF c
<1>11. /\ u \in Seq(A) /\ Len(u) = c
       /\ \A i \in 1..c : u[i] = Health!Ages[n - c + i]
  <2>1. /\ u \in Seq(A) /\ Len(u) = IF n > c THEN c ELSE n
        /\ \A i \in 1..Len(u) : u[i] = Health!Ages[n - Len(u) + i]
    BY <1>4, <1>7, LastKeeps
  <2>2. Len(u) = c BY <1>3, <1>7, <2>1
  <2> QED BY <2>1, <2>2
<1> HIDE DEF u
<1>12. /\ t \in Seq(A) /\ Len(t) = r
       /\ \A i \in 1..r : t[i] = u[c - r + i]
  <2>1. /\ t \in Seq(A) /\ Len(t) = IF c > RecentCap THEN RecentCap ELSE c
        /\ \A i \in 1..Len(t) : t[i] = u[c - Len(t) + i]
    <3>1. RecentCap \in Nat BY HealthConstants
    <3> QED BY <1>7, <1>11, <3>1, LastKeeps
  <2>2. Len(t) = r BY <1>1, <1>3, <1>7, <1>9, <1>10, <2>1, HealthConstants DEF r
  <2> QED BY <2>1, <2>2
<1> HIDE DEF t
<1>13. \A i \in 1..r : t[i] = recent[i]
  <2> SUFFICES ASSUME NEW i \in 1..r PROVE t[i] = recent[i] OBVIOUS
  <2>1. c - r + i \in 1..c /\ n - c + (c - r + i) = n - r + i /\ n - r + i \in 1..n
    <3>1. n \in Nat /\ r \in Nat /\ c \in Nat /\ r <= n /\ r <= c BY <1>3, <1>6, <1>7, <1>9
    <3>2. i \in Nat /\ 1 <= i /\ i <= r BY <3>1
    <3>3. c - r + i \in 1..c BY <3>1, <3>2
    <3>4. n - c + (c - r + i) = n - r + i BY <3>1, <3>2
    <3>5. n - r + i \in 1..n BY <3>1, <3>2
    <3> QED BY <3>3, <3>4, <3>5
  <2>2. t[i] = u[c - r + i] BY <1>12
  <2>3. u[c - r + i] = Health!Ages[n - c + (c - r + i)] BY <1>11, <2>1
  <2>4. Health!Ages[n - r + i] = past[n - r + i].age BY <1>4, <2>1
  <2>5. recent[i] = past[n - r + i].age BY <1>6
  <2> QED BY <2>1, <2>2, <2>3, <2>4, <2>5
<1>14. t = recent
  <2>1. recent \in Seq(A) BY <1>1, SeqMonotonic
  <2> QED BY <1>12, <1>13, <2>1, SeqEqual DEF r
<1> QED BY <1>14, HealthSets DEF t, u, c, F, Exact

(* The timer's look: everyone is a tick older, and a set of alerts that is  *)
(* still cooling is not sent.                                               *)
LEMMA TickKeeps ==
  ASSUME HealthInv, Health!Tick
  PROVE  HealthInv'
<1> DEFINE W == 0..Window
           A == 0..(Window + 1)
           E == [age : A, kind : Kinds]
           n == Len(past)
           m == Len(recent)
           s == [i \in DOMAIN recent |-> recent[i] + 1]
<1>1. HealthTyped /\ RecentSound /\ ToldSound /\ TableSound BY DEF HealthInv
<1>2. past \in Seq(E) /\ n <= MaxRequests /\ recent \in Seq(W) /\ m <= RecentCap
  BY <1>1 DEF HealthTyped
<1>3. W \subseteq Nat /\ (\A x \in W : x <= Window /\ x + 1 \in Nat) BY HealthConstants
<1>4. \A e \in E : e.age \in A /\ e.kind \in Kinds OBVIOUS
<1>5. \A e \in E : [e EXCEPT !.age = Health!Older(@, Window + 1)] \in E
                   /\ [e EXCEPT !.age = Health!Older(@, Window + 1)].age = Health!Older(e.age, Window + 1)
                   /\ [e EXCEPT !.age = Health!Older(@, Window + 1)].kind = e.kind
  BY HealthConstants DEF Health!Older
<1>6. /\ total' = total /\ routes' = routes /\ samples' = samples
      /\ past' = [i \in DOMAIN past |-> [past[i] EXCEPT !.age = Health!Older(@, Window + 1)]]
      /\ recent' = Health!Pruned(s)
  BY DEF Health!Tick
<1> HIDE DEF W, E
<1>7. /\ n \in Nat /\ DOMAIN past = 1..n /\ \A i \in 1..n : past[i] \in E
      /\ m \in Nat /\ DOMAIN recent = 1..m /\ \A i \in 1..m : recent[i] \in W
  BY <1>2, LenProperties
<1>8. /\ past' \in Seq(E) /\ Len(past') = n
      /\ \A i \in 1..n : past'[i].age = Health!Older(past[i].age, Window + 1) /\ past'[i].kind = past[i].kind
  <2>1. past' \in [1..n -> E] BY <1>5, <1>6, <1>7
  <2>2. past' \in Seq(E) /\ Len(past') = n BY <1>7, <2>1, FunctionIsSequence
  <2> QED BY <1>5, <1>6, <1>7, <2>2
<1>9. \A i \in 1..n : past[i].age \in A /\ past[i].kind \in Kinds BY <1>4, <1>7
<1>10. s \in Seq(Nat) /\ Len(s) = m /\ \A i \in 1..m : s[i] = recent[i] + 1
  <2>1. s \in [1..m -> Nat] BY <1>3, <1>7
  <2> HIDE DEF s
  <2>2. s \in Seq(Nat) /\ Len(s) = m BY <1>7, <2>1, FunctionIsSequence
  <2> QED BY <1>7, <2>2 DEF s
<1>11. /\ \A i, j \in 1..n : i <= j => past[j].age <= past[i].age
       /\ m <= n
       /\ \A i \in 1..m : recent[i] = past[n - m + i].age
       /\ m < RecentCap => \A i \in 1..(n - m) : past[i].age > Window
  BY <1>1 DEF RecentSound
<1> HIDE DEF s, n, m
<1>12. \A i, j \in 1..n : i <= j => past'[j].age <= past'[i].age
  <2> SUFFICES ASSUME NEW i \in 1..n, NEW j \in 1..n, i <= j PROVE past'[j].age <= past'[i].age OBVIOUS
  <2>1. past[j].age <= past[i].age /\ past[i].age \in A /\ past[j].age \in A BY <1>9, <1>11
  <2>2. past'[j].age = Health!Older(past[j].age, Window + 1)
        /\ past'[i].age = Health!Older(past[i].age, Window + 1) BY <1>8
  <2> QED BY <2>1, <2>2, HealthConstants DEF Health!Older
<1>13. \A i \in 1..m : s[i] = past'[n - m + i].age
  <2> SUFFICES ASSUME NEW i \in 1..m PROVE s[i] = past'[n - m + i].age OBVIOUS
  <2>1. n - m + i \in 1..n BY <1>7, <1>11
  <2>2. past'[n - m + i].age = Health!Older(recent[i], Window + 1) BY <1>8, <1>11, <2>1
  <2>3. recent[i] \in Nat /\ recent[i] <= Window BY <1>3, <1>7
  <2> QED BY <1>10, <2>2, <2>3, HealthConstants DEF Health!Older
<1>14. \A i, j \in 1..m : i <= j => s[j] <= s[i]
  <2> SUFFICES ASSUME NEW i \in 1..m, NEW j \in 1..m, i <= j PROVE s[j] <= s[i] OBVIOUS
  <2>1. n - m + i \in 1..n /\ n - m + j \in 1..n /\ n - m + i <= n - m + j BY <1>7, <1>11
  <2> QED BY <1>12, <1>13, <2>1
<1>15. /\ recent' \in Seq(W) /\ Len(recent') \in Nat /\ Len(recent') <= m /\ Len(recent') <= RecentCap
       /\ \A i \in 1..Len(recent') : recent'[i] = s[m - Len(recent') + i]
       /\ Len(recent') < RecentCap => \A i \in 1..(m - Len(recent')) : s[i] > Window
  BY <1>6, <1>10, <1>14, PrunedKeeps DEF W
<1>16. RecentSound'
  <2> DEFINE q == Len(recent')
  <2>1. q \in Nat /\ q <= m /\ q <= n BY <1>7, <1>11, <1>15
  <2> HIDE DEF q
  <2>2. \A i \in 1..q : recent'[i] = past'[n - q + i].age
    <3> SUFFICES ASSUME NEW i \in 1..q PROVE recent'[i] = past'[n - q + i].age OBVIOUS
    <3>1. m - q + i \in 1..m /\ n - m + (m - q + i) = n - q + i BY <1>7, <2>1
    <3> QED BY <1>13, <1>15, <3>1 DEF q
  <2>3. q < RecentCap => \A i \in 1..(n - q) : past'[i].age > Window
    <3> SUFFICES ASSUME q < RecentCap, NEW i \in 1..(n - q) PROVE past'[i].age > Window OBVIOUS
    <3>1. i \in 1..n /\ past[i].age \in A /\ past'[i].age = Health!Older(past[i].age, Window + 1)
      BY <1>7, <1>8, <1>9, <2>1
    <3>2. CASE m < RecentCap /\ i \in 1..(n - m)
      <4>1. past[i].age > Window BY <1>11, <3>2
      <4> QED BY <3>1, <4>1, HealthConstants DEF Health!Older
    <3>3. CASE i \notin 1..(n - m)
      <4> DEFINE x == i - (n - m)
      <4>1. x \in 1..(m - q) /\ x \in 1..m /\ n - m + x = i BY <1>7, <1>11, <2>1, <3>3
      <4> HIDE DEF x
      <4>2. s[x] > Window BY <1>15, <4>1 DEF q
      <4> QED BY <1>13, <4>1, <4>2
    <3>4. CASE ~ (m < RecentCap) /\ i \in 1..(n - m)
      <4>1. 1 \in 1..(m - q) /\ 1 \in 1..m /\ n - m + 1 \in 1..n /\ i <= n - m + 1
        BY <1>2, <1>7, <1>11, <2>1, <3>4, HealthConstants DEF m
      <4>2. s[1] > Window BY <1>15, <4>1 DEF q
      <4>3. past'[n - m + 1].age = s[1] BY <1>13, <4>1
      <4>4. past'[n - m + 1].age <= past'[i].age BY <1>12, <3>1, <4>1
      <4>5. s[1] \in Nat /\ past'[i].age \in Nat
        BY <1>3, <1>7, <1>10, <3>1, <4>1, HealthConstants DEF Health!Older
      <4> QED BY <4>2, <4>3, <4>4, <4>5, HealthConstants
    <3> QED BY <3>2, <3>3, <3>4
  <2> QED BY <1>8, <1>12, <2>1, <2>2, <2>3 DEF RecentSound, q
<1>17. Health!Codes' = Health!Codes /\ Health!Alerts \subseteq Health!Codes /\ {} \subseteq Health!Codes
  BY DEF Health!Codes, Health!Alerts
<1>18. /\ sending' \subseteq Health!Codes
       /\ alerted' \in [what : SUBSET Health!Codes, age : 0..Cooldown]
       /\ heard' \in [SUBSET Health!Codes -> 0..Cooldown]
       /\ ToldSound'
  <2> DEFINE C == SUBSET Health!Codes
             age == Health!Older(alerted.age, Cooldown)
  <2>1. sending \subseteq Health!Codes /\ alerted \in [what : C, age : 0..Cooldown]
        /\ heard \in [C -> 0..Cooldown]
    BY <1>1 DEF HealthTyped
  <2>2. \A a \in C : heard[a] < Cooldown => a = alerted.what /\ heard[a] = alerted.age
    BY <1>1 DEF ToldSound
  <2>3. /\ heard' = [a \in C |-> IF Health!Alerts = {} THEN Cooldown ELSE Health!Older(heard[a], Cooldown)]
        /\ alerted' = [what |-> IF Health!Alerts = {} THEN {} ELSE alerted.what, age |-> age]
        /\ sending' = IF alerted.what = Health!Alerts /\ age < Cooldown THEN {} ELSE Health!Alerts
    BY DEF Health!Tick, Health!Cooling
  <2>4. Health!Alerts \in C /\ {} \in C BY <1>17
  <2> HIDE DEF C
  <2>5. \A x \in 0..Cooldown : /\ Health!Older(x, Cooldown) \in 0..Cooldown
                               /\ Health!Older(x, Cooldown) < Cooldown => x < Cooldown
    BY HealthConstants DEF Health!Older
  <2>6. alerted.age \in 0..Cooldown /\ alerted.what \in C /\ \A a \in C : heard[a] \in 0..Cooldown
    BY <2>1
  <2>7. age \in 0..Cooldown BY <2>5, <2>6
  <2> HIDE DEF age
  <2>8. alerted' \in [what : C, age : 0..Cooldown] /\ heard' \in [C -> 0..Cooldown] /\ sending' \in C
    <3>1. Cooldown \in 0..Cooldown BY HealthConstants
    <3> QED BY <2>3, <2>4, <2>5, <2>6, <2>7, <3>1
  <2>9. alerted'.age = age /\ (Health!Alerts # {} => alerted'.what = alerted.what) BY <2>3
  <2>10. \A a \in C : heard'[a] < Cooldown => a = alerted'.what /\ heard'[a] = alerted'.age
    <3> SUFFICES ASSUME NEW a \in C, heard'[a] < Cooldown
                 PROVE  a = alerted'.what /\ heard'[a] = alerted'.age
      OBVIOUS
    <3>1. Health!Alerts # {} BY <2>3, HealthConstants
    <3>2. heard'[a] = Health!Older(heard[a], Cooldown) BY <2>3, <3>1
    <3>3. heard[a] < Cooldown BY <2>5, <2>6, <3>2
    <3> QED BY <2>2, <2>9, <3>1, <3>2, <3>3 DEF age
  <2>11. sending' # {} => heard'[sending'] = Cooldown
    <3> SUFFICES ASSUME sending' # {} PROVE heard'[sending'] = Cooldown OBVIOUS
    <3>1. sending' = Health!Alerts /\ Health!Alerts # {} /\ ~ (alerted.what = Health!Alerts /\ age < Cooldown)
      BY <2>3
    <3>2. heard'[sending'] \in 0..Cooldown BY <2>8
    <3>3. ~ (heard'[sending'] < Cooldown)
      <4> SUFFICES ASSUME heard'[sending'] < Cooldown PROVE FALSE OBVIOUS
      <4>1. sending' = alerted'.what /\ heard'[sending'] = age BY <2>8, <2>9, <2>10
      <4> QED BY <2>9, <3>1, <4>1
    <3> QED BY <3>2, <3>3, HealthConstants
  <2> QED BY <1>17, <2>8, <2>10, <2>11 DEF ToldSound, C
<1>19. HealthTyped'
  BY <1>1, <1>2, <1>6, <1>8, <1>15, <1>17, <1>18 DEF HealthTyped, E, A, W, n
<1>20. TableSound' BY <1>1, <1>6 DEF TableSound
<1>21. TotalsHold' /\ RowsHold'
  <2>1. OfStatus(500)' = OfStatus(500) /\ OfStatus(400)' = OfStatus(400) /\ Lasting' = Lasting
    BY <1>8 DEF OfStatus, Lasting, n
  <2>2. \A q : RowOf(q)' = RowOf(q) BY <1>6, <1>8 DEF RowOf, n
  <2>3. TotalsHold /\ RowsHold BY CountsMean DEF HealthInv
  <2>4. TotalsHold' BY <1>6, <1>8, <2>1, <2>3 DEF TotalsHold, n
  <2>5. RowsHold' BY <1>6, <2>1, <2>2, <2>3 DEF RowsHold
  <2> QED BY <2>4, <2>5
<1>22. HealthTyped' => (Health!CountsAgree' <=> TotalsHold' /\ RowsHold')
  BY CountsMean, PTL
<1> QED BY <1>16, <1>18, <1>19, <1>20, <1>21, <1>22 DEF HealthInv

(* The counts are of total, routes and past alone.                          *)
LEMMA CountsStay ==
  ASSUME TotalsHold, RowsHold, total' = total, routes' = routes, past' = past
  PROVE  TotalsHold' /\ RowsHold'
<1>1. OfStatus(500)' = OfStatus(500) /\ OfStatus(400)' = OfStatus(400) /\ Lasting' = Lasting
  BY DEF OfStatus, Lasting
<1>2. \A q : RowOf(q)' = RowOf(q) BY DEF RowOf
<1>3. TotalsHold' BY <1>1 DEF TotalsHold
<1>4. RowsHold' BY <1>1, <1>2 DEF RowsHold
<1> QED BY <1>3, <1>4

LEMMA DeliveredKeeps ==
  ASSUME HealthInv, Health!Delivered
  PROVE  HealthInv'
<1> DEFINE C == SUBSET Health!Codes
<1>1. HealthTyped /\ RecentSound /\ ToldSound /\ TableSound BY DEF HealthInv
<1>2. /\ sending # {} /\ sending' = {} /\ alerted' = [what |-> sending, age |-> 0]
      /\ heard' = [a \in C |-> IF a = sending THEN 0 ELSE Cooldown]
      /\ total' = total /\ routes' = routes /\ recent' = recent /\ samples' = samples /\ past' = past
  BY DEF Health!Delivered, Health!Told
<1>3. sending \in C /\ {} \in C /\ Health!Codes' = Health!Codes BY <1>1 DEF HealthTyped, Health!Codes
<1> HIDE DEF C
<1>4. alerted' \in [what : C, age : 0..Cooldown] /\ heard' \in [C -> 0..Cooldown]
  BY <1>2, <1>3, HealthConstants
<1>5. ToldSound'
  BY <1>2, <1>3, HealthConstants DEF ToldSound, C
<1>6. HealthTyped' BY <1>1, <1>2, <1>3, <1>4 DEF HealthTyped, C
<1>7. RecentSound' BY <1>1, <1>2 DEF RecentSound
<1>8. TableSound' BY <1>1, <1>2 DEF TableSound
<1>9. Health!CountsAgree'
  <2>1. TotalsHold' /\ RowsHold'
    BY <1>2, CountsMean, CountsStay DEF HealthInv
  <2>2. HealthTyped' => (Health!CountsAgree' <=> TotalsHold' /\ RowsHold') BY CountsMean, PTL
  <2> QED BY <1>6, <2>1, <2>2
<1> QED BY <1>5, <1>6, <1>7, <1>8, <1>9 DEF HealthInv

LEMMA DeliveryFailsKeeps ==
  ASSUME HealthInv, \/ Health!DeliveryFails
                    \/ UNCHANGED healthVars
  PROVE  HealthInv'
<1>1. HealthTyped /\ RecentSound /\ ToldSound /\ TableSound BY DEF HealthInv
<1>2. /\ sending' = {} \/ sending' = sending
      /\ alerted' = alerted /\ heard' = heard
      /\ total' = total /\ routes' = routes /\ recent' = recent /\ samples' = samples /\ past' = past
  BY DEF Health!DeliveryFails, healthVars
<1>3. Health!Codes' = Health!Codes BY DEF Health!Codes
<1>4. HealthTyped' BY <1>1, <1>2, <1>3 DEF HealthTyped
<1>5. ToldSound' BY <1>1, <1>2, <1>3 DEF ToldSound
<1>6. RecentSound' BY <1>1, <1>2 DEF RecentSound
<1>7. TableSound' BY <1>1, <1>2 DEF TableSound
<1>8. Health!CountsAgree'
  <2>1. TotalsHold' /\ RowsHold'
    BY <1>2, CountsMean, CountsStay DEF HealthInv
  <2>2. HealthTyped' => (Health!CountsAgree' <=> TotalsHold' /\ RowsHold') BY CountsMean, PTL
  <2> QED BY <1>4, <2>1, <2>2
<1> QED BY <1>4, <1>5, <1>6, <1>7, <1>8 DEF HealthInv

LEMMA HealthKeeps == HealthInv /\ [Health!Next]_healthVars => HealthInv'
  BY RecordKeeps, TickKeeps, DeliveredKeeps, DeliveryFailsKeeps DEF Health!Next

LEMMA HealthTypes == HealthInv => Health!TypeOK
<1> SUFFICES ASSUME HealthInv PROVE Health!TypeOK OBVIOUS
<1> DEFINE D == DOMAIN routes
<1>1. HealthTyped /\ TableSound /\ TotalsHold BY CountsMean DEF HealthInv
<1>2. Len(past) \in Nat /\ Len(past) <= MaxRequests BY <1>1, LenProperties DEF HealthTyped
<1>3. \A A \in SUBSET (1..Len(past)) : Cardinality(A) \in 0..MaxRequests
  <2> TAKE A \in SUBSET (1..Len(past))
  <2>1. Cardinality(A) \in Nat /\ Cardinality(A) <= Len(past) BY <1>2, OnePlaceMore
  <2> QED BY <1>2, <2>1, HealthConstants
<1>4. OfStatus(500) \in SUBSET (1..Len(past)) /\ Lasting \in SUBSET (1..Len(past)) BY DEF OfStatus, Lasting
<1>5. total.requests \in 0..MaxRequests /\ total.errors5xx \in 0..MaxRequests /\ total.slow \in 0..MaxRequests
  BY <1>1, <1>2, <1>3, <1>4, HealthConstants DEF TotalsHold
<1>6. total \in [{"requests", "errors5xx", "slow"} -> 0..MaxRequests]
  BY <1>1, <1>5 DEF HealthTyped
<1>7. Cardinality(D) <= RouteCap + 1
  <2>1. IsFiniteSet(D) /\ Cardinality(D \ {Common}) <= RouteCap BY <1>1 DEF TableSound
  <2>2. Cardinality(D \ {Common}) = (IF Common \in D THEN Cardinality(D) - 1 ELSE Cardinality(D))
        /\ Cardinality(D) \in Nat
    BY <2>1, FS_RemoveElement, FS_CardinalityType
  <2> HIDE DEF D
  <2>3. CASE Common \in D BY <2>1, <2>2, <2>3, HealthConstants
  <2>4. CASE Common \notin D BY <2>1, <2>2, <2>4, HealthConstants
  <2> QED BY <2>3, <2>4
<1>8. Health!Cardinality(DOMAIN routes) <= RouteCap + 1 BY <1>7, HealthSets
<1>9. /\ Len(recent) <= RecentCap /\ Len(samples) <= SampleCap
      /\ sending \subseteq Health!Codes /\ alerted.what \subseteq Health!Codes /\ alerted.age \in 0..Cooldown
  BY <1>1 DEF HealthTyped
<1> QED BY <1>6, <1>8, <1>9 DEF Health!TypeOK

(* Every sequence has an order that sorts it: each place goes where as many *)
(* places are as come before it.                                            *)
Orders(f, s, n) == \A i, j \in 1..n : i < j => f[i] # f[j] /\ s[f[i]] <= s[f[j]]
LEMMA OrderExists ==
  ASSUME NEW n \in Nat, NEW s \in [1..n -> Nat]
  PROVE  \E f \in [1..n -> 1..n] : Orders(f, s, n)
<1> DEFINE Less(j, i) == s[j] < s[i] \/ (s[j] = s[i] /\ j <= i)
           Before(i) == {j \in 1..n : Less(j, i)}
           rank == [i \in 1..n |-> Cardinality(Before(i))]
           f == [v \in 1..n |-> CHOOSE i \in 1..n : rank[i] = v]
<1>1. \A i \in 1..n : s[i] \in Nat OBVIOUS
<1>2. IsFiniteSet(1..n) /\ Cardinality(1..n) = n BY FS_Interval
<1>3. \A i \in 1..n : /\ IsFiniteSet(Before(i)) /\ Cardinality(Before(i)) \in Nat
                      /\ Cardinality(Before(i)) >= 1 /\ Cardinality(Before(i)) <= n
  <2> SUFFICES ASSUME NEW i \in 1..n
               PROVE  /\ IsFiniteSet(Before(i)) /\ Cardinality(Before(i)) \in Nat
                      /\ Cardinality(Before(i)) >= 1 /\ Cardinality(Before(i)) <= n
    OBVIOUS
  <2>1. Before(i) \in SUBSET (1..n) /\ i \in Before(i) BY <1>1
  <2> HIDE DEF Before
  <2>2. IsFiniteSet(Before(i)) /\ Cardinality(Before(i)) <= n BY <1>2, <2>1, FS_Subset
  <2>3. Cardinality(Before(i)) \in Nat /\ Cardinality(Before(i)) # 0
    BY <2>1, <2>2, FS_CardinalityType, FS_EmptySet
  <2> QED BY <2>2, <2>3
<1>4. \A i, k \in 1..n : i # k /\ Less(i, k) => rank[i] < rank[k]
  <2> SUFFICES ASSUME NEW i \in 1..n, NEW k \in 1..n, i # k, Less(i, k)
               PROVE  Cardinality(Before(i)) < Cardinality(Before(k))
    OBVIOUS
  <2>1. Before(i) \in SUBSET Before(k) /\ k \in Before(k) /\ k \notin Before(i) BY <1>1
  <2> HIDE DEF Before
  <2>2. Before(i) # Before(k) BY <2>1
  <2>3. Cardinality(Before(i)) <= Cardinality(Before(k))
        /\ Cardinality(Before(i)) # Cardinality(Before(k))
    BY <1>3, <2>1, <2>2, FS_Subset
  <2> QED BY <1>3, <2>3
<1>5. rank \in [1..n -> 1..n]
  <2> HIDE DEF Before
  <2> QED BY <1>3
<1>6. \A i, k \in 1..n : rank[i] = rank[k] => i = k
  <2> SUFFICES ASSUME NEW i \in 1..n, NEW k \in 1..n, i # k PROVE rank[i] # rank[k] OBVIOUS
  <2>1. Less(i, k) \/ Less(k, i) BY <1>1
  <2>2. rank[i] < rank[k] \/ rank[k] < rank[i] BY <1>4, <2>1
  <2>3. rank[i] \in Nat /\ rank[k] \in Nat BY <1>5
  <2> HIDE DEF rank, Less
  <2> QED BY <2>2, <2>3
<1> HIDE DEF rank
<1>7. \A v \in 1..n : \E i \in 1..n : rank[i] = v
  <2>1. rank \in Injection(1..n, 1..n) BY <1>5, <1>6 DEF Injection, IsInjective
  <2>2. rank \in Surjection(1..n, 1..n) BY <1>2, <2>1, FS_Injection
  <2> QED BY <2>2 DEF Surjection
<1>8. \A v \in 1..n : f[v] \in 1..n /\ rank[f[v]] = v
  BY <1>7
<1>9. f \in [1..n -> 1..n] BY <1>7
<1> HIDE DEF f
<1>10. Orders(f, s, n)
  <2> USE DEF Orders
  <2> SUFFICES ASSUME NEW i \in 1..n, NEW j \in 1..n, i < j PROVE f[i] # f[j] /\ s[f[i]] <= s[f[j]] OBVIOUS
  <2>1. rank[f[i]] = i /\ rank[f[j]] = j /\ f[i] \in 1..n /\ f[j] \in 1..n BY <1>8
  <2>2. f[i] # f[j] BY <2>1
  <2>3. ~ Less(f[j], f[i])
    <3> SUFFICES ASSUME Less(f[j], f[i]) PROVE FALSE OBVIOUS
    <3> HIDE DEF Less
    <3>1. rank[f[j]] < rank[f[i]] BY <1>4, <2>1, <2>2
    <3> QED BY <2>1, <3>1
  <2> QED BY <1>1, <2>1, <2>2, <2>3
<1> QED BY <1>9, <1>10

(* The percentile taken is one of the sorted samples, and as many samples   *)
(* as its place are not greater.                                            *)
LEMMA PercentilesRank == HealthInv => Health!PercentilesAreRanks
<1> SUFFICES ASSUME HealthInv, samples # <<>>, NEW p \in {50, 95, 99}
             PROVE  /\ Health!UpTo(Health!Percentile(p)) * 100 >= p * Len(samples)
                    /\ Health!UpTo(Health!Percentile(p) - 1) * 100 < p * Len(samples)
  BY DEF Health!PercentilesAreRanks
<1> DEFINE n == Len(samples)
           order == CHOOSE f \in [1..n -> 1..n] : Orders(f, samples, n)
           place == Health!Place(n, p)
           at == IF place < 1 THEN 1 ELSE IF place > n THEN n ELSE place
           v == samples[order[at]]
           Upto(w) == {i \in 1..n : samples[i] <= w}
<1>1. samples \in Seq(Nat) BY DEF HealthInv, HealthTyped
<1>2. n \in Nat /\ n # 0 /\ DOMAIN samples = 1..n /\ samples \in [1..n -> Nat]
  BY <1>1, LenProperties, EmptySeq
<1>3. order \in [1..n -> 1..n] /\ Orders(order, samples, n)
  BY <1>2, OrderExists
<1>4. Health!Sorted(samples) = [i \in 1..n |-> samples[order[i]]]
  BY <1>2 DEF Health!Sorted, Orders
<1> HIDE DEF order
<1>5. /\ at \in 1..n /\ at * 100 >= p * n /\ (at - 1) * 100 < p * n
  <2>1. place = (p * n + 99) \div 100 BY DEF Health!Place
  <2> HIDE DEF place
  <2>2. n \in Nat /\ n >= 1 BY <1>2
  <2> HIDE DEF n
  <2>3. CASE p = 50
    <3>1. place = (50 * n + 99) \div 100 BY <2>1, <2>3
    <3>2. place \in Nat /\ place * 100 >= 50 * n /\ (place - 1) * 100 < 50 * n BY <2>2, <3>1
    <3>3. place >= 1 /\ place <= n BY <2>2, <3>2
    <3> QED BY <2>2, <2>3, <3>2, <3>3
  <2>4. CASE p = 95
    <3>1. place = (95 * n + 99) \div 100 BY <2>1, <2>4
    <3>2. place \in Nat /\ place * 100 >= 95 * n /\ (place - 1) * 100 < 95 * n BY <2>2, <3>1
    <3>3. place >= 1 /\ place <= n BY <2>2, <3>2
    <3> QED BY <2>2, <2>4, <3>2, <3>3
  <2>5. CASE p = 99
    <3>1. place = (99 * n + 99) \div 100 BY <2>1, <2>5
    <3>2. place \in Nat /\ place * 100 >= 99 * n /\ (place - 1) * 100 < 99 * n BY <2>2, <3>1
    <3>3. place >= 1 /\ place <= n BY <2>2, <3>2
    <3> QED BY <2>2, <2>5, <3>2, <3>3
  <2> QED BY <2>3, <2>4, <2>5
<1>6. Health!Percentile(p) = v
  <2>1. Health!Percentile(p) = Health!Sorted(samples)[at] BY <1>2 DEF Health!Percentile
  <2> HIDE DEF at
  <2> QED BY <1>4, <1>5, <2>1
<1> HIDE DEF at, n
<1>7. \A i \in 1..n : order[i] \in 1..n /\ samples[order[i]] \in Nat 
  <2>1. \A i \in 1..n : order[i] \in 1..n BY <1>3
  <2>2. \A j \in 1..n : samples[j] \in Nat BY <1>2
  <2> QED BY <2>1, <2>2
<1>8. \A i, j \in 1..n : order[i] = order[j] => i = j
  <2> SUFFICES ASSUME NEW i \in 1..n, NEW j \in 1..n, i # j PROVE order[i] # order[j] OBVIOUS
  <2>1. i < j \/ j < i OBVIOUS
  <2> QED BY <1>3, <2>1 DEF Orders
<1>9. \A i \in 1..n : \E j \in 1..n : order[j] = i
  <2>1. IsFiniteSet(1..n) BY <1>2, FS_Interval
  <2>2. order \in Injection(1..n, 1..n) BY <1>3, <1>8 DEF Injection, IsInjective
  <2>3. order \in Surjection(1..n, 1..n) BY <2>1, <2>2, FS_Injection
  <2> QED BY <2>3 DEF Surjection
<1> DEFINE Placed(m) == {order[j] : j \in 1..m}
<1>10. \A m \in 0..n : IsFiniteSet(Placed(m)) /\ Cardinality(Placed(m)) = m
  <2> SUFFICES ASSUME NEW m \in 0..n PROVE IsFiniteSet(Placed(m)) /\ Cardinality(Placed(m)) = m OBVIOUS
  <2> DEFINE g == [j \in 1..m |-> order[j]]
  <2>0. m \in Nat BY <1>2
  <2>1. IsFiniteSet(1..m) /\ Cardinality(1..m) = m
    <3>1. IsFiniteSet(1..m) /\ Cardinality(1..m) = IF 1 > m THEN 0 ELSE m - 1 + 1 BY <2>0, FS_Interval
    <3> QED BY <2>0, <3>1
  <2>2. \A j \in 1..m : j \in 1..n BY <1>2
  <2>3. g \in Surjection(1..m, Placed(m)) BY DEF Surjection
  <2>4. g \in Injection(1..m, Placed(m)) BY <1>8, <2>2 DEF Injection, IsInjective
  <2> HIDE DEF g, Placed
  <2> QED BY <2>1, <2>3, <2>4, FS_Surjection
<1>11. Placed(at) \subseteq Upto(v)
  <2> SUFFICES ASSUME NEW j \in 1..at PROVE order[j] \in 1..n /\ samples[order[j]] <= v OBVIOUS
  <2>1. j \in 1..n /\ (j < at \/ j = at) BY <1>2, <1>5
  <2> QED BY <1>3, <1>5, <1>7, <2>1 DEF Orders
<1>12. Upto(v - 1) \subseteq Placed(at - 1)
  <2> SUFFICES ASSUME NEW i \in 1..n, samples[i] <= v - 1 PROVE i \in Placed(at - 1) OBVIOUS
  <2>1. PICK j \in 1..n : order[j] = i BY <1>9
  <2>2. samples[order[j]] \in Nat /\ v \in Nat BY <1>5, <1>7
  <2>3. ~ (at < j) /\ at # j
    <3>1. samples[order[j]] <= v - 1 BY <2>1
    <3>2. ~ (v <= samples[order[j]])
      <4> HIDE DEF v
      <4> QED BY <2>2, <3>1
    <3> QED BY <1>3, <1>5, <3>2, <2>2 DEF Orders
  <2>4. j \in 1..(at - 1) BY <1>2, <1>5, <2>3
  <2> QED BY <2>1, <2>4
<1>13. \A w : Upto(w) \in SUBSET (1..n) OBVIOUS
<1> HIDE DEF Placed, Upto, v
<1>14. /\ Cardinality(Upto(v)) \in Nat /\ Cardinality(Upto(v)) >= at
       /\ Cardinality(Upto(v - 1)) \in Nat /\ Cardinality(Upto(v - 1)) <= at - 1
  <2>1. IsFiniteSet(Upto(v)) /\ Cardinality(Upto(v)) \in Nat BY <1>2, <1>13, OnePlaceMore
  <2>2. IsFiniteSet(Upto(v - 1)) /\ Cardinality(Upto(v - 1)) \in Nat BY <1>2, <1>13, OnePlaceMore
  <2>3. at \in 0..n /\ at - 1 \in 0..n BY <1>2, <1>5
  <2>4. Cardinality(Placed(at)) = at /\ IsFiniteSet(Placed(at - 1)) /\ Cardinality(Placed(at - 1)) = at - 1
    BY <1>10, <2>3
  <2>5. Cardinality(Placed(at)) <= Cardinality(Upto(v)) BY <1>11, <2>1, FS_Subset
  <2>6. Cardinality(Upto(v - 1)) <= Cardinality(Placed(at - 1)) BY <1>12, <2>4, FS_Subset
  <2> QED BY <2>1, <2>2, <2>4, <2>5, <2>6
<1>15. Cardinality(Upto(v)) * 100 >= p * n /\ Cardinality(Upto(v - 1)) * 100 < p * n
  <2> DEFINE c == Cardinality(Upto(v))
             d == Cardinality(Upto(v - 1))
             pn == p * n
  <2>1. c \in Nat /\ d \in Nat /\ c >= at /\ d <= at - 1 BY <1>14
  <2>2. at \in Nat /\ pn \in Nat /\ at * 100 >= pn /\ (at - 1) * 100 < pn BY <1>2, <1>5
  <2> HIDE DEF c, d, pn
  <2>3. c * 100 >= pn /\ d * 100 < pn BY <2>1, <2>2
  <2> QED BY <2>3 DEF c, d, pn
<1>16. \A w : Health!UpTo(w) = Cardinality(Upto(w))
  BY <1>2, HealthSets DEF Upto, Health!UpTo
<1> QED BY <1>6, <1>15, <1>16 DEF n

-----------------------------------------------------------------------------
(***************************************************************************)
(* The three together.  A step of one part leaves the others' variables.   *)
(***************************************************************************)
ServerInv == IInv /\ ApiInv /\ HealthInv

LEMMA ServerBegins == ServerInit => ServerInv
  BY InitHolds, ApiBegins, HealthBegins DEF ServerInit, ServerInv

LEMMA ServerKeeps == ServerInv /\ [ServerNext]_allVars => ServerInv'
<1> SUFFICES ASSUME ServerInv, [ServerNext]_allVars PROVE ServerInv' OBVIOUS
<1>1. [Next]_vars /\ [Api!Next]_apiVars /\ [Health!Next]_healthVars
  BY DEF ServerNext, allVars
<1> QED BY <1>1, StepHolds, ApiKeeps, HealthKeeps DEF ServerInv

LEMMA ServerStrong == ServerSpec => []ServerInv
  BY ServerBegins, ServerKeeps, PTL DEF ServerSpec

(* However many processes start, serve and are watched: migrations stay     *)
(* whole, and a process that says 0 left nobody unanswered and cut nothing  *)
(* off (server.js shutdown, db.js close); no request loses the pool; the    *)
(* counters and the route table are of the requests that came, at any size  *)
(* of the table (observability.js recordRequest); and the percentiles are   *)
(* nearest ranks of the samples (observability.js latencyPercentiles).      *)
THEOREM ServersAreSound == ServerSpec => [](MigrationsSound /\ ServerSound)
<1>1. IInv => MigrationsSound BY DEF IInv, MigrationsSound
<1>2. ApiInv => Api!TypeOK /\ Api!CleanExit /\ Api!PoolServesRequests
  BY DEF ApiInv, Api!CleanExit, Api!PoolServesRequests
<1>3. HealthInv => Health!TypeOK /\ Health!CountsAgree /\ Health!PercentilesAreRanks
  BY HealthTypes, PercentilesRank DEF HealthInv
<1>4. ServerInv => MigrationsSound /\ ServerSound
  BY <1>1, <1>2, <1>3 DEF ServerInv, ServerSound
<1> QED BY <1>4, ServerStrong, PTL

(* Whenever the timer looks, recentRequests is of the window and nothing    *)
(* else, however long nothing came (observability.js pruneRecent), and a    *)
(* standing set of alerts is told once per cooldown, whatever deliveries    *)
(* fail in between (alerting.js dispatchOperationalAlerts).                 *)
THEOREM AlertsAreInTime == ServerSpec => AlertsInTime
<1>1. ServerInv /\ ServerInv' /\ [ServerNext]_allVars =>
        [Health!Tick => recent' = Health!Last(Health!Last(Health!Ages', Health!Cardinality(Health!InWindow')), RecentCap)]_(Health!vars)
  <2> SUFFICES ASSUME ServerInv' , Health!Tick
               PROVE  recent' = Health!Last(Health!Last(Health!Ages', Health!Cardinality(Health!InWindow')), RecentCap)
    OBVIOUS
  <2>1. HealthTyped' /\ RecentSound' BY DEF ServerInv, HealthInv
  <2>2. HealthTyped' /\ RecentSound' => Exact' BY SoundIsExact, PTL
  <2> QED BY <2>1, <2>2 DEF Exact
<1>2. ServerInv => [Health!Delivered => heard[sending] >= Cooldown]_(Health!vars)
  BY HealthConstants DEF ServerInv, HealthInv, ToldSound, Health!Delivered
<1> QED BY <1>1, <1>2, ServerStrong, PTL DEF ServerSpec, AlertsInTime, Health!RecentIsExact, Health!CooldownKept

=============================================================================
