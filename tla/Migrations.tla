----------------------------- MODULE Migrations -----------------------------
(***************************************************************************)
(* Opening the database (Open, runMigrations and applyMigration in         *)
(* internal/storage/storage.go): builds with more or fewer migrations      *)
(* start on the same file, statements fail, and the process dies at any    *)
(* step.  A transaction is atomic (SQLite); what a migration does is left  *)
(* out, only how often it has taken effect is kept.                        *)
(***************************************************************************)
EXTENDS Naturals, FiniteSets, FiniteSetsExt

CONSTANT Newest   \* version of the last migration of the newest build

VARIABLES
  effects,  \* how often each migration has taken effect in the file
  rows,     \* the versions in schema_version
  known,    \* len(migrations) of the build that runs
  opening,  \* Open: "no", "version", "migrate", "sql" and "record" of a migration, "open"
  at,       \* the migration the loop is at
  current,  \* the schema version read at the start
  pending   \* the transaction has executed the SQL, not committed yet

vars == <<effects, rows, known, opening, at, current, pending>>
Version == 1..Newest

Init ==
  /\ effects = [v \in Version |-> 0] /\ rows = {} /\ known = 1
  /\ opening = "no" /\ at = 1 /\ current = 0 /\ pending = FALSE

(* A build is started: a newer one, or an older one after a rollback.       *)
Open(build) ==
  /\ opening = "no" /\ known' = build /\ opening' = "version"
  /\ UNCHANGED <<effects, rows, at, current, pending>>

(* schema_version exists by now; COALESCE(MAX(version), 0).                 *)
SchemaVersion ==
  /\ opening = "version" /\ current' = Max(rows \cup {0}) /\ at' = 1 /\ opening' = "migrate"
  /\ UNCHANGED <<effects, rows, known, pending>>

(* The loop of runMigrations.                                               *)
RunMigrations ==
  /\ opening = "migrate"
  /\ IF at > known THEN opening' = "open" /\ UNCHANGED at
     ELSE IF at <= current THEN at' = at + 1 /\ UNCHANGED opening
     ELSE opening' = "sql" /\ UNCHANGED at
  /\ UNCHANGED <<effects, rows, known, current, pending>>

(* Mutant: the SQL is executed outside the transaction.                     *)
ExecSQLDirect == effects' = [effects EXCEPT ![at] = @ + 1] /\ UNCHANGED pending

ExecSQL == pending' = TRUE /\ UNCHANGED effects

ApplySQL ==
  /\ opening = "sql" /\ ExecSQL /\ opening' = "record"
  /\ UNCHANGED <<rows, known, at, current>>

(* The INSERT into schema_version and the commit of both.                   *)
ApplyMigration ==
  /\ opening = "record" /\ at \notin rows
  /\ effects' = [effects EXCEPT ![at] = @ + (IF pending THEN 1 ELSE 0)]
  /\ rows' = rows \cup {at} /\ pending' = FALSE /\ at' = at + 1 /\ opening' = "migrate"
  /\ UNCHANGED <<known, current>>

(* Mutant: the error is logged, the loop goes on.                           *)
AfterErrorGoOn == opening' = "migrate" /\ at' = at + 1

(* runMigrations and Open return the error: the process exits.              *)
AfterError == opening' = "no" /\ at' = 1

(* A statement of the migration fails: Rollback.                            *)
MigrationFails ==
  /\ opening \in {"sql", "record"} /\ pending' = FALSE /\ AfterError
  /\ UNCHANGED <<effects, rows, known, current>>

(* The process dies, or ends; an open transaction is rolled back.           *)
Crash ==
  /\ opening # "no" /\ opening' = "no" /\ at' = 1 /\ pending' = FALSE
  /\ UNCHANGED <<effects, rows, known, current>>

Next == \/ (\E build \in Version : Open(build)) \/ SchemaVersion \/ RunMigrations
        \/ ApplySQL \/ ApplyMigration \/ MigrationFails \/ Crash
Spec == Init /\ [][Next]_vars

-----------------------------------------------------------------------------
TypeOK ==
  /\ effects \in [Version -> 0..1] /\ rows \subseteq Version /\ known \in Version
  /\ opening \in {"no", "version", "migrate", "sql", "record", "open"}
  /\ at \in 1..(Newest + 1) /\ current \in 0..Newest /\ pending \in BOOLEAN

(* A migration has taken effect once if schema_version has its row and not  *)
(* at all if it has not, whatever the process died in: "a half-applied      *)
(* migration rolls back and is retried on next startup".                    *)
AppliedOnce == \A v \in Version : effects[v] = IF v \in rows THEN 1 ELSE 0

(* A build serves from a file that has had all its migrations, each after   *)
(* the ones before it: the highest recorded version hides no gap, also      *)
(* after an older build has been back in between.                           *)
OpenIsMigrated ==
  /\ opening = "open" => \A v \in 1..known : effects[v] = 1
  /\ \A v \in rows : 1..v \subseteq rows

(* The file is what schema_version says: each recorded migration has taken  *)
(* effect once and no other has, and a build that has opened the file has   *)
(* all it knows, without a gap (runMigrations).                             *)
SchemaIsTrue == AppliedOnce /\ OpenIsMigrated

(* What makes SchemaIsTrue inductive: behind the loop every version has its *)
(* row, and the transaction's SQL and row go together.                      *)
MigrationType ==
  /\ effects \in [Version -> Nat] /\ rows \subseteq Version /\ known \in Version
  /\ opening \in {"no", "version", "migrate", "sql", "record", "open"}
  /\ at \in Nat \ {0} /\ current \in Nat

MigrationInv ==
  /\ MigrationType /\ AppliedOnce
  /\ \A v \in rows : 1..v \subseteq rows
  /\ pending <=> opening = "record"
  /\ opening \in {"migrate", "sql", "record", "open"} =>
       /\ 1..(at - 1) \subseteq rows /\ current \in rows \cup {0}
  /\ opening \in {"sql", "record"} => at <= known
  /\ opening = "open" => at > known
=============================================================================
