------------------------------- MODULE Schema -------------------------------
(***************************************************************************)
(* Opening the metadata registry: bootstrap_schema_version,                *)
(* apply_pending_migrations and _initialise_schema (database/migrations.py,*)
(* database/metadata.py), by processes that may open the file at once and  *)
(* die between two statements.  What a statement commits depends on the    *)
(* driver: sqlite3 begins a transaction at the first INSERT and keeps      *)
(* later DDL inside it, pysqlcipher3 commits an open transaction before    *)
(* every DDL statement.                                                    *)
(***************************************************************************)
EXTENDS Naturals, FiniteSets, FiniteSetsExt

CONSTANTS Openers,   \* processes that open the registry
          Latest     \* version of the last migration of this build

ASSUME SchemaAssumption == Latest \in 1..3

VARIABLES
  driver,   \* "sqlite3" or "pysqlcipher3"
  file,     \* what is committed: [tables, stamps]
  work,     \* what the open transaction sees
  owner,    \* the process inside the transaction, {} or a singleton
  at,       \* at[p]: next statement of p
  seen,     \* seen[p]: MAX(version) as p read it
  odd       \* history: the file was partly populated and unstamped to begin with

schemaVars == <<driver, file, work, owner, at, seen, odd>>

\* The tables of version 1, and the one each migration creates.
V1 == {"filings", "task_history"}
Made(v) == CASE v = 2 -> "provider_credentials" [] v = 3 -> "users"
Tables == V1 \cup {Made(v) : v \in 2..Latest}

Version(d) == IF d.stamps = {} THEN 0 ELSE Max(d.stamps)
Partial(d) == d.tables \cap V1 \notin {{}, V1}
Malformed(d) == d.stamps = {} /\ Partial(d)
Complete(d) == Tables \subseteq d.tables /\ Version(d) >= Latest

\* The files a build may meet: new, of version 1 unstamped or stamped, of an
\* intermediate version, partly populated.
Found == {[tables |-> t, stamps |-> {}] : t \in SUBSET V1}
         \cup {[tables |-> V1 \cup {Made(v) : v \in 2..n}, stamps |-> 1..n] : n \in 1..Latest}

SchemaInit ==
  /\ driver \in {"sqlite3", "pysqlcipher3"}
  /\ file \in Found /\ work = file
  /\ owner = {}
  /\ at = [p \in Openers |-> "closed"]
  /\ seen = [p \in Openers |-> 0]
  /\ odd = Malformed(file)

-----------------------------------------------------------------------------
\* The database as p reads it, and whether p can take the write lock.
View(p) == IF p \in owner THEN work ELSE file
Free(p) == owner \subseteq {p}

\* p's next statement; the reader's version stays as read.
Then(p, s) == at' = [at EXCEPT ![p] = s]

\* DDL: within the transaction under sqlite3, after committing it under
\* pysqlcipher3, at once when no transaction is open.  An object that exists
\* needs no lock.
Create(p, t, s) ==
  /\ t \in View(p).tables \/ Free(p)
  /\ LET d == [View(p) EXCEPT !.tables = @ \cup {t}]
     IN CASE ~Free(p) -> UNCHANGED <<file, work, owner>>
          [] p \in owner /\ driver = "sqlite3" -> work' = d /\ UNCHANGED <<file, owner>>
          [] p \in owner /\ driver # "sqlite3" -> file' = work /\ owner' = {} /\ UNCHANGED work
          [] p \notin owner /\ Free(p) -> file' = d /\ work' = d /\ UNCHANGED owner
  /\ IF p \in owner /\ driver # "sqlite3" THEN UNCHANGED at ELSE Then(p, s)
  /\ UNCHANGED <<driver, seen, odd>>

\* INSERT INTO schema_version: begins a transaction when none is open.
Stamp(p, v, s) ==
  /\ Free(p)
  /\ v \notin View(p).stamps
  /\ work' = [View(p) EXCEPT !.stamps = @ \cup {v}]
  /\ owner' = {p}
  /\ Then(p, s)
  /\ UNCHANGED <<driver, file, seen, odd>>

Read(p, s) ==
  /\ seen' = [seen EXCEPT ![p] = Version(View(p))]
  /\ Then(p, s)
  /\ UNCHANGED <<driver, file, work, owner, odd>>

\* Rollback on the way out of "with self._conn".
Leave(p, s) ==
  /\ owner' = owner \ {p}
  /\ work' = IF p \in owner THEN file ELSE work
  /\ Then(p, s)
  /\ UNCHANGED <<driver, file, seen, odd>>

-----------------------------------------------------------------------------
(* bootstrap_schema_version.                                               *)

Open(p) == at[p] \in {"closed", "refused"} /\ Read(p, "bootstrap")

\* Mutant: the tables are created before the file is stamped.
BootstrapCreatingFirst(p) ==
  /\ at[p] = "bootstrap"
  /\ IF seen[p] > 0 THEN Then(p, "current") /\ UNCHANGED <<driver, file, work, owner, seen, odd>>
     ELSE IF Partial(View(p)) THEN Leave(p, "refused")
     ELSE IF "filings" \notin View(p).tables THEN Create(p, "filings", "bootstrap")
     ELSE IF "task_history" \notin View(p).tables THEN Create(p, "task_history", "bootstrap")
     ELSE Stamp(p, 1, "current")

Bootstrap(p) ==
  /\ at[p] = "bootstrap"
  /\ IF seen[p] > 0 THEN Then(p, "current") /\ UNCHANGED <<driver, file, work, owner, seen, odd>>
     ELSE IF Partial(View(p)) THEN Leave(p, "refused")
     ELSE Stamp(p, 1, "current")

(* apply_pending_migrations: each body, and after it its stamp.            *)

Current(p) == at[p] = "current" /\ Read(p, "body")

\* The next migration of p: the first above the version read and not stamped
\* by p since.
Due(p) == {v \in 2..Latest : v > seen[p]}

Body(p) ==
  /\ at[p] = "body" /\ Due(p) # {}
  /\ Create(p, Made(Min(Due(p))), "stamp")

StampBody(p) ==
  /\ at[p] = "stamp"
  /\ Free(p)
  /\ Min(Due(p)) \notin View(p).stamps
  /\ work' = [View(p) EXCEPT !.stamps = @ \cup {Min(Due(p))}]
  /\ owner' = {p}
  /\ seen' = [seen EXCEPT ![p] = Min(Due(p))]
  /\ Then(p, "body")
  /\ UNCHANGED <<driver, file, odd>>

Migrated(p) ==
  /\ at[p] = "body" /\ Due(p) = {}
  /\ Then(p, "filings")
  /\ UNCHANGED <<driver, file, work, owner, seen, odd>>

(* The idempotent CREATE TABLEs, and the commit.                           *)

CreateFilings(p)     == at[p] = "filings" /\ Create(p, "filings", "task_history")
CreateTaskHistory(p) == at[p] = "task_history" /\ Create(p, "task_history", "commit")

Commit(p) ==
  /\ at[p] = "commit"
  /\ IF p \in owner THEN file' = work ELSE UNCHANGED file
  /\ owner' = owner \ {p}
  /\ Then(p, "ready")
  /\ UNCHANGED <<driver, work, seen, odd>>

\* Another process has stamped the version meanwhile (the PRIMARY KEY refuses
\* the second row), or held the lock past busy_timeout.
Refused(p) ==
  \/ /\ at[p] = "bootstrap" /\ seen[p] = 0
     /\ 1 \in View(p).stamps \/ ~Free(p)
     /\ Leave(p, "refused")
  \/ /\ at[p] = "stamp"
     /\ Min(Due(p)) \in View(p).stamps \/ ~Free(p)
     /\ Leave(p, "refused")
  \/ /\ at[p] \in {"body", "filings", "task_history"} /\ ~Free(p)
     /\ Leave(p, "refused")

\* The process dies, or closes the registry.
Exit(p) == at[p] # "closed" /\ Leave(p, "closed")

Statement(p) ==
  \/ Open(p) \/ Bootstrap(p) \/ Current(p) \/ Body(p) \/ StampBody(p)
  \/ Migrated(p) \/ CreateFilings(p) \/ CreateTaskHistory(p) \/ Commit(p) \/ Refused(p)

SchemaNext == \E p \in Openers : Statement(p) \/ Exit(p)

SchemaSpec == SchemaInit /\ [][SchemaNext]_schemaVars

-----------------------------------------------------------------------------

(* No open turns a file into one that every later open refuses: a partly   *)
(* populated file without a stamp is never the program's own doing         *)
(* (database/migrations.py:239).                                           *)
NeverMadeUnusable == Malformed(file) => odd

(* A committed version stands for its tables: a migration's stamp never    *)
(* gets ahead of its body, whichever driver and wherever a process died    *)
(* (database/migrations.py:249).                                           *)
StampMeansTables == \A v \in file.stamps \cap 2..Latest : Made(v) \in file.tables

(* A registry that has opened finds every table and this build's version,  *)
(* whatever else opened the file beside it (database/metadata.py:398).     *)
OpenMeansReady == \A p \in Openers : at[p] = "ready" => Complete(file)

(* The registry file through opens, migrations and deaths: its version, the *)
(* opened registry and what a later open may meet.                         *)
SchemaSound == StampMeansTables /\ OpenMeansReady /\ NeverMadeUnusable
=============================================================================
