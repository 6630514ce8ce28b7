----------------------------- MODULE Migrations -----------------------------
(* Starting processes and the migrate tool over one database:               *)
(* db/migrations.js, db.js initDatabase, migrate.js.  What a migration does *)
(* to the schema is left out; that it is one transaction is not.            *)
EXTENDS Integers, FiniteSets, Sequences

CONSTANTS Processes,  \* processes that start, and the tool's "down" runs
          Down,       \* those that roll the last migration back
          Files,      \* per process: the checksums of its release's modules
          None,       \* no process; no record
          TableThere, \* schema_migrations exists already
          Faults      \* migrations may fail and processes may die

ASSUME MigrationsAssumption ==
  /\ Down \subseteq Processes /\ None \notin Processes
  /\ TableThere \in BOOLEAN /\ Faults \in BOOLEAN
  /\ \A p \in Processes : /\ Len(Files[p]) \in Nat /\ DOMAIN Files[p] = 1..Len(Files[p])
                          /\ \A v \in DOMAIN Files[p] : Files[p][v] # None
  /\ \E q \in Processes : \A p \in Processes : Len(Files[p]) <= Len(Files[q])

VARIABLES table,   \* the metadata table exists
          lock,    \* who holds the advisory lock
          record,  \* schema_migrations: a checksum per version, or None
          pc,      \* where each process stands
          seen,    \* versions a process takes for applied
          outcome, \* how a process will go on once it released the lock
          undone   \* history: versions that were rolled back

vars == <<table, lock, record, pc, seen, outcome, undone>>

Known(p) == DOMAIN Files[p]
Versions == UNION {Known(p) : p \in Processes}
Applied == {v \in Versions : record[v] # None}

Init ==
  /\ table = TableThere /\ lock = None /\ undone = {}
  /\ record = [v \in Versions |-> None]
  /\ pc = [p \in Processes |-> "start"]
  /\ seen = [p \in Processes |-> {}] /\ outcome = [p \in Processes |-> "failed"]

Goto(p, l) == pc' = [pc EXCEPT ![p] = l]
GiveUp(p, how) == Goto(p, "unlock") /\ outcome' = [outcome EXCEPT ![p] = how]

-----------------------------------------------------------------------------
(* CREATE TABLE IF NOT EXISTS looks first and then inserts into the         *)
(* catalog; of two that found nothing, the later one fails.                 *)
EnsureMetadataTable(p) ==
  /\ pc[p] = "start"
  /\ Goto(p, IF table THEN "lock" ELSE "creating")
  /\ UNCHANGED <<table, lock, record, seen, outcome, undone>>

CreateTable(p) ==
  /\ pc[p] = "creating"
  /\ table' = TRUE /\ Goto(p, IF table THEN "failed" ELSE "lock")
  /\ UNCHANGED <<lock, record, seen, outcome, undone>>

Regardless(p) == TRUE   \* slip: the lock is tried and its answer ignored
LockFree(p) == lock = None

AcquireLock(p) ==
  /\ pc[p] = "lock" /\ LockFree(p)
  /\ lock' = p /\ Goto(p, "locked")
  /\ UNCHANGED <<table, record, seen, outcome, undone>>

Trusts(p) == FALSE   \* slip: checksums are not compared
Drifted(p) == \E v \in Applied \cap Known(p) : record[v] # Files[p][v]
Unknown(p) == Applied \ Known(p) # {}

(* The state is read once, under the lock, before the loop.                 *)
ReadStatus(p) ==
  /\ pc[p] = "locked" /\ p \notin Down
  /\ IF Drifted(p) \/ Unknown(p)
     THEN GiveUp(p, "failed") /\ UNCHANGED seen
     ELSE seen' = [seen EXCEPT ![p] = Applied] /\ Goto(p, "apply") /\ UNCHANGED outcome
  /\ UNCHANGED <<table, lock, record, undone>>

Pending(p) == Known(p) \ seen[p]
Newest(p) == CHOOSE v \in Pending(p) : \A w \in Pending(p) : w <= v   \* slip: the wrong end
First(p) == CHOOSE v \in Pending(p) : \A w \in Pending(p) : v <= w

(* One migration: up, its record and the commit are one transaction.        *)
Apply(p) ==
  /\ pc[p] = "apply" /\ Pending(p) # {}
  /\ IF record[First(p)] = None
     THEN /\ record' = [record EXCEPT ![First(p)] = Files[p][First(p)]]
          /\ seen' = [seen EXCEPT ![p] = @ \cup {First(p)}] /\ UNCHANGED <<pc, outcome>>
     ELSE GiveUp(p, "failed") /\ UNCHANGED <<record, seen>>
  /\ UNCHANGED <<table, lock, undone>>

UpToDate(p) ==
  /\ pc[p] = "apply" /\ Pending(p) = {} /\ GiveUp(p, "serving")
  /\ UNCHANGED <<table, lock, record, seen, undone>>

MigrationFails(p) ==
  /\ Faults /\ \/ pc[p] = "apply" /\ Pending(p) # {}
               \/ pc[p] = "locked" /\ p \in Down
  /\ GiveUp(p, "failed")
  /\ UNCHANGED <<table, lock, record, seen, undone>>

(* rollbackLastMigration; the first migration refuses to be undone.         *)
Last == CHOOSE v \in Applied : \A w \in Applied : w <= v

RollbackLastMigration(p) ==
  /\ pc[p] = "locked" /\ p \in Down
  /\ IF Applied # {} /\ Last \in Known(p) /\ record[Last] = Files[p][Last] /\ Last # 1
     THEN /\ record' = [record EXCEPT ![Last] = None] /\ undone' = undone \cup {Last}
          /\ GiveUp(p, "done")
     ELSE GiveUp(p, IF Applied = {} THEN "done" ELSE "failed") /\ UNCHANGED <<record, undone>>
  /\ UNCHANGED <<table, lock, seen>>

StaysLocked(p) ==   \* slip: only success releases the lock
  /\ pc[p] = "unlock"
  /\ lock' = IF outcome[p] = "failed" THEN lock ELSE None
  /\ Goto(p, outcome[p]) /\ UNCHANGED <<table, record, seen, outcome, undone>>
ReleaseLock(p) ==
  /\ pc[p] = "unlock"
  /\ lock' = None /\ Goto(p, outcome[p])
  /\ UNCHANGED <<table, record, seen, outcome, undone>>

(* The process dies and is started again; its session gives up the lock and *)
(* an open transaction.                                                     *)
Crash(p) ==
  /\ Faults /\ pc[p] \notin {"start", "done"}
  /\ lock' = IF lock = p THEN None ELSE lock
  /\ Goto(p, "start") /\ UNCHANGED <<table, record, seen, outcome, undone>>

Work(p) == \/ EnsureMetadataTable(p) \/ CreateTable(p) \/ ReadStatus(p) \/ Apply(p)
           \/ UpToDate(p) \/ MigrationFails(p) \/ RollbackLastMigration(p) \/ ReleaseLock(p)

Next == \E p \in Processes : Work(p) \/ AcquireLock(p) \/ Crash(p)

(* Statements come back; PostgreSQL serves a lock's waiters in their order. *)
Spec == /\ Init /\ [][Next]_vars
        /\ \A p \in Processes : WF_vars(Work(p)) /\ SF_vars(AcquireLock(p))

-----------------------------------------------------------------------------
Labels == {"start", "creating", "lock", "locked", "apply", "unlock", "serving", "done", "failed"}
Holding == {"locked", "apply", "unlock"}

(* Every variable keeps its type; the lock is held exactly while working.   *)
TypeOK ==
  /\ table \in BOOLEAN /\ lock \in Processes \cup {None}
  /\ DOMAIN record = Versions
  /\ pc \in [Processes -> Labels] /\ seen \in [Processes -> SUBSET Versions]
  /\ outcome \in [Processes -> {"serving", "failed", "done"}] /\ undone \subseteq Versions
  /\ \A p \in Processes : lock = p <=> pc[p] \in Holding

(* DATABASE-MIGRATIONS.md: migrations are applied in version order, and two *)
(* processes do not migrate concurrently: the records never have a gap.     *)
NoGap == \A v \in Applied, w \in Versions : w <= v => w \in Applied

(* What a process read before its loop is still so in every turn of it.     *)
SeenIsCurrent == \A p \in Processes : pc[p] = "apply" => seen[p] = Applied

(* Who serves found or made every migration of its release, as it knows it. *)
ServesMigrated ==
  \A p \in Processes : pc[p] = "serving" =>
     \A v \in Known(p) \ undone : record[v] = Files[p][v]

(* All of the above in every state, whatever processes start, fail and die.  *)
MigrationsSound == TypeOK /\ NoGap /\ SeenIsCurrent /\ ServesMigrated

(* Every start comes to an end, unless the process dies.                    *)
StartEnds == \A p \in Processes : pc[p] = "lock" ~> pc[p] \in {"serving", "done", "failed", "start"}

-----------------------------------------------------------------------------
(* A statement of the repository that this code breaks (README, section 4).  *)

(* DATABASE-MIGRATIONS.md: the lock lets two releases start at once.        *)
NobodyFails == \A p \in Processes : pc[p] # "failed"
=============================================================================
