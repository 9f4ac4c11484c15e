---------------------------- MODULE SafetyProofs ----------------------------
(* Theorems about updates, migrations and the derate banner, each by itself, *)
(* for every value of their constants.                                       *)
EXTENDS MCSafety, Sequences, FiniteSetTheorems,
        WellFoundedInduction, TLAPS

USE SafetyAssumption

-----------------------------------------------------------------------------
(* Migrations.                                                               *)

(* A bounded set of numbers has a highest one.                               *)
LEMMA Highest ==
  ASSUME NEW n \in Nat, NEW S \in SUBSET (0..n), S # {}
  PROVE  \E m \in S : \A y \in S : m >= y
<1> DEFINE T == {n - v : v \in S}
           R == OpToRel(<, Nat)
<1>0. \A v \in S : v \in Nat /\ v <= n /\ n - v \in Nat
  OBVIOUS
<1>1. T \subseteq Nat /\ T # {}
  BY <1>0
<1>2. IsWellFoundedOn(R, Nat)
  BY NatLessThanWellFounded
<1>3. PICK x \in T : \A y \in T : ~(<<y, x>> \in R)
  <2> HIDE DEF T, R
  <2> QED BY <1>1, <1>2, WFMin
<1>4. \A y \in T : ~(y < x)
  BY <1>1, <1>3 DEF OpToRel
<1>5. PICK m \in S : x = n - m
  BY <1>3
<1>6. \A y \in S : m >= y
  <2>1. TAKE y \in S
  <2>2. n - y \in T /\ ~(n - y < n - m)
    BY <1>4, <1>5
  <2>3. QED
    BY <2>2, <1>0, <1>5
<1>7. QED
  BY <1>5, <1>6

LEMMA SchemaInit == Schema!Init => Schema!MigrationInv
BY DEF Schema!Init, Schema!MigrationInv, Schema!MigrationType, Schema!AppliedOnce, Schema!Version

(* The version that is read is one that is recorded, and the highest.        *)
LEMMA SchemaRead ==
  ASSUME Schema!MigrationInv, Schema!SchemaVersion
  PROVE  Schema!MigrationInv'
<1>1. rows \cup {0} \in SUBSET (0..Newest) /\ Newest \in Nat
  BY DEF Schema!MigrationInv, Schema!MigrationType, Schema!Version
<1>2. current' \in rows \cup {0}
  <2>1. PICK m \in rows \cup {0} : \A y \in rows \cup {0} : m >= y
    BY <1>1, Highest
  <2>2. Schema!Max(rows \cup {0}) \in rows \cup {0}
    BY <2>1 DEF Schema!Max
  <2>3. QED
    BY <2>2 DEF Schema!SchemaVersion
<1>3. current' \in Nat
  BY <1>1, <1>2
<1>4. QED
  BY <1>2, <1>3 DEF Schema!SchemaVersion, Schema!MigrationInv, Schema!MigrationType,
                    Schema!AppliedOnce, Schema!Version

LEMMA SchemaLoop ==
  ASSUME Schema!MigrationInv, Schema!RunMigrations
  PROVE  Schema!MigrationInv'
<1>t. /\ at \in Nat \ {0} /\ current \in Nat /\ known \in Nat /\ rows \subseteq Nat
  BY DEF Schema!MigrationInv, Schema!MigrationType, Schema!Version
<1>1. at <= current => 1..at \subseteq rows
  BY <1>t DEF Schema!MigrationInv, Schema!RunMigrations
<1>2. UNCHANGED <<effects, rows, known, current, pending>>
  BY DEF Schema!RunMigrations
<1>3. /\ at' \in Nat \ {0} /\ 1..(at' - 1) \subseteq rows
      /\ opening' \in {"migrate", "sql", "open"}
      /\ opening' = "sql" => at' <= known
      /\ opening' = "open" => at' > known
  BY <1>t, <1>1 DEF Schema!RunMigrations, Schema!MigrationInv
<1>4. /\ ~pending /\ current \in rows \cup {0}
      /\ Schema!AppliedOnce /\ \A v \in rows : 1..v \subseteq rows
  BY DEF Schema!RunMigrations, Schema!MigrationInv
<1>5. Schema!MigrationType' /\ Schema!AppliedOnce'
  BY <1>2, <1>3, <1>4 DEF Schema!MigrationInv, Schema!MigrationType, Schema!AppliedOnce,
                          Schema!Version
<1>6. QED
  BY <1>2, <1>3, <1>4, <1>5 DEF Schema!MigrationInv

LEMMA SchemaApply ==
  ASSUME Schema!MigrationInv, Schema!ApplyMigration
  PROVE  Schema!MigrationInv'
<1>t. /\ at \in Nat \ {0} /\ at <= known /\ known \in 1..Newest /\ pending
      /\ effects \in [1..Newest -> Nat] /\ 1..(at - 1) \subseteq rows
  BY DEF Schema!ApplyMigration, Schema!MigrationInv, Schema!MigrationType, Schema!Version
<1>1. at \in Schema!Version /\ at \notin rows /\ effects[at] = 0
  BY <1>t DEF Schema!ApplyMigration, Schema!MigrationInv, Schema!AppliedOnce, Schema!Version
<1>2. /\ effects' = [effects EXCEPT ![at] = @ + 1] /\ rows' = rows \cup {at} /\ pending' = FALSE
      /\ at' = at + 1 /\ opening' = "migrate" /\ UNCHANGED <<known, current>>
  BY <1>t DEF Schema!ApplyMigration
<1>3. Schema!MigrationType' /\ Schema!AppliedOnce'
  BY <1>t, <1>1, <1>2 DEF Schema!MigrationInv, Schema!MigrationType, Schema!AppliedOnce,
                          Schema!Version
<1>4. 1..at \subseteq rows'
  BY <1>t, <1>2
<1>5. QED
  BY <1>t, <1>2, <1>3, <1>4 DEF Schema!MigrationInv, Schema!ApplyMigration

LEMMA SchemaStep == Schema!MigrationInv /\ [Schema!Next]_(Schema!vars) => Schema!MigrationInv'
<1> SUFFICES ASSUME Schema!MigrationInv, [Schema!Next]_(Schema!vars)
             PROVE  Schema!MigrationInv'
  OBVIOUS
<1> USE DEF Schema!MigrationInv, Schema!MigrationType, Schema!AppliedOnce, Schema!Version
<1>1. CASE \E build \in Schema!Version : Schema!Open(build)
  BY <1>1 DEF Schema!Open
<1>2. CASE Schema!ApplySQL
  BY <1>2 DEF Schema!ApplySQL, Schema!ExecSQL
<1>3. CASE Schema!MigrationFails
  BY <1>3 DEF Schema!MigrationFails, Schema!AfterError
<1>4. CASE Schema!Crash
  BY <1>4 DEF Schema!Crash
<1>5. CASE UNCHANGED Schema!vars
  BY <1>5 DEF Schema!vars
<1>6. QED
  BY <1>1, <1>2, <1>3, <1>4, <1>5, SchemaRead, SchemaLoop, SchemaApply DEF Schema!Next

(* The file is what schema_version says (runMigrations, applyMigration): for *)
(* any number of migrations, builds old and new and a death at any step,     *)
(* each recorded migration has taken effect once and no other has, and an    *)
(* open build has all the migrations it knows.                               *)
THEOREM FileMatchesVersion == Schema!Spec => []SchemaIsTrue
<1>1. Schema!MigrationInv => SchemaIsTrue
  <2> SUFFICES ASSUME Schema!MigrationInv
               PROVE  SchemaIsTrue
    OBVIOUS
  <2>1. ASSUME opening = "open", NEW v \in 1..known
        PROVE  effects[v] = 1
    BY <2>1 DEF Schema!MigrationInv, Schema!MigrationType, Schema!AppliedOnce, Schema!Version
  <2>2. QED
    BY <2>1 DEF SchemaIsTrue, Schema!SchemaIsTrue, Schema!OpenIsMigrated, Schema!MigrationInv
<1>2. QED
  BY <1>1, SchemaInit, SchemaStep, PTL DEF Schema!Spec

(* Where the loop may be: at most one migration behind those of the build.   *)
LoopInv ==
  /\ at <= known + 1 /\ (opening \in {"no", "version"} => at = 1) /\ current <= Newest
  /\ pending \in BOOLEAN

LEMMA LoopStep ==
  ASSUME Schema!MigrationInv, LoopInv, [Schema!Next]_(Schema!vars)
  PROVE  LoopInv'
<1>b. pending' \in BOOLEAN
  BY Zenon DEF LoopInv, Schema!Next, Schema!vars, Schema!Open, Schema!SchemaVersion,
    Schema!RunMigrations, Schema!ApplySQL, Schema!ExecSQL, Schema!ApplyMigration,
    Schema!MigrationFails, Schema!Crash
<1> DEFINE At == /\ at <= known + 1 /\ (opening \in {"no", "version"} => at = 1)
                 /\ current <= Newest
<1>a. At
  BY DEF LoopInv
<1>t. /\ at \in Nat \ {0} /\ current \in Nat /\ known \in 1..Newest /\ Newest \in Nat
      /\ rows \subseteq 1..Newest
  BY DEF Schema!MigrationInv, Schema!MigrationType, Schema!Version
<1>1. ASSUME NEW build \in Schema!Version, Schema!Open(build)
      PROVE  At'
  <2>1. known' \in 1..Newest /\ at' = 1 /\ current' = current
    BY <1>1, <1>a DEF Schema!Open, Schema!Version
  <2>2. \A k \in 1..Newest : 1 <= k + 1
    OBVIOUS
  <2>3. at' <= known' + 1
    BY <2>1, <2>2
  <2>4. QED
    BY <1>a, <2>1, <2>3
<1>2. ASSUME Schema!SchemaVersion
      PROVE  At'
  <2>1. current' \in rows' \cup {0}
    BY <1>2, SchemaRead DEF Schema!MigrationInv, Schema!SchemaVersion
  <2>2. rows' = rows /\ known' = known /\ at' = 1 /\ opening' = "migrate"
    BY <1>2 DEF Schema!SchemaVersion
  <2>3. QED
    BY <1>a, <1>t, <2>1, <2>2
<1>3. ASSUME Schema!RunMigrations
      PROVE  At'
  <2>1. /\ at' = at \/ (at <= known /\ at' = at + 1)
        /\ opening' \in {"open", "migrate", "sql"} /\ UNCHANGED <<known, current>>
    BY <1>3, <1>t DEF Schema!RunMigrations
  <2>2. QED
    BY <1>a, <1>t, <2>1
<1>4. ASSUME Schema!ApplySQL
      PROVE  At'
  BY <1>a, <1>4 DEF Schema!ApplySQL
<1>5. ASSUME Schema!ApplyMigration
      PROVE  At'
  <2>1. at <= known /\ at' = at + 1 /\ opening' = "migrate" /\ UNCHANGED <<known, current>>
    BY <1>5 DEF Schema!ApplyMigration, Schema!MigrationInv
  <2>2. QED
    BY <1>a, <1>t, <2>1
<1>6. ASSUME Schema!MigrationFails \/ Schema!Crash
      PROVE  At'
  <2>1. at' = 1 /\ UNCHANGED <<known, current>>
    BY <1>6 DEF Schema!MigrationFails, Schema!AfterError, Schema!Crash
  <2>2. QED
    BY <1>a, <1>t, <2>1
<1>7. ASSUME UNCHANGED Schema!vars
      PROVE  At'
  BY <1>a, <1>7 DEF Schema!vars
<1>8. At'
  BY <1>1, <1>2, <1>3, <1>4, <1>5, <1>6, <1>7 DEF Schema!Next
<1>9. QED
  BY <1>b, <1>8, Zenon DEF LoopInv

(* No build runs a migration it does not know, and none takes effect twice,  *)
(* however often opening the database is begun again (runMigrations).        *)
THEOREM LoopEnds ==
  Schema!Spec => [](Schema!TypeOK /\ (opening \in {"sql", "record"} => at <= known))
<1>1. Schema!Init => LoopInv
  <2>1. Schema!Init => at <= known + 1 /\ at = 1 /\ current <= Newest
    BY DEF Schema!Init
  <2>2. QED
    BY <2>1, Zenon DEF Schema!Init, LoopInv
<1>2. Schema!MigrationInv /\ LoopInv =>
        Schema!TypeOK /\ (opening \in {"sql", "record"} => at <= known)
  <2> SUFFICES ASSUME Schema!MigrationInv, LoopInv
               PROVE  Schema!TypeOK /\ (opening \in {"sql", "record"} => at <= known)
    OBVIOUS
  <2>1. /\ at \in Nat \ {0} /\ current \in Nat /\ known \in 1..Newest /\ Newest \in Nat
        /\ at <= known + 1 /\ current <= Newest
    BY DEF LoopInv, Schema!MigrationInv, Schema!MigrationType, Schema!Version
  <2>2. at \in 1..(Newest + 1) /\ current \in 0..Newest
    BY <2>1
  <2>3. effects \in [Schema!Version -> 0..1]
    BY DEF Schema!MigrationInv, Schema!MigrationType, Schema!AppliedOnce
  <2>4. pending \in BOOLEAN
    BY DEF LoopInv
  <2>5. QED
    BY <2>1, <2>2, <2>3, <2>4 DEF Schema!TypeOK, Schema!MigrationInv, Schema!MigrationType
<1>3. QED
  BY <1>1, <1>2, SchemaInit, SchemaStep, LoopStep, PTL DEF Schema!Spec

-----------------------------------------------------------------------------
(* SelfUpdate.                                                               *)

LEMMA SavedStep == Update!SavedInv /\ [Update!Next]_(Update!vars) => Update!SavedInv'
<1> SUFFICES ASSUME Update!SavedInv, [Update!Next]_(Update!vars)
             PROVE  Update!SavedInv'
  OBVIOUS
<1> DEFINE Kept == \E b \in backups : Update!Runs(b)
<1>i. /\ apc \in [Applier -> {"idle", "probed", "saved", "swapped", "applied", "rollback"}]
      /\ (Update!Runs(live) /\ liveCap) \/ Kept
      /\ \A a \in Applier : apc[a] \in {"saved", "swapped", "applied", "rollback"} => Kept
  BY DEF Update!SavedInv, Update!WayBack
\* A step that keeps every backup, after one that runs has been put there.
<1>1. ASSUME Kept, backups \subseteq backups',
             apc' \in [Applier -> {"idle", "probed", "saved", "swapped", "applied", "rollback"}]
      PROVE  Update!SavedInv'
  BY <1>1 DEF Update!SavedInv, Update!WayBack, Update!Runs
\* A step that leaves the live file alone and takes no apply past its backup.
<1>2. ASSUME backups \subseteq backups', UNCHANGED <<live, liveCap>>,
             apc' \in [Applier -> {"idle", "probed", "saved", "swapped", "applied", "rollback"}],
             \A a \in Applier : apc'[a] \in {"saved", "swapped", "applied", "rollback"}
                                  => apc[a] \in {"saved", "swapped", "applied", "rollback"}
      PROVE  Update!SavedInv'
  BY <1>2, <1>i DEF Update!SavedInv, Update!WayBack, Update!Runs
<1>3. ASSUME NEW a \in Applier, Update!Backup(a)
      PROVE  Update!SavedInv'
  <2>1. /\ apc' \in [Applier -> {"idle", "probed", "saved", "swapped", "applied", "rollback"}]
        /\ backups' = backups \cup {live}
    BY <1>3, <1>i DEF Update!Backup, Update!Go, Update!Saved
  <2>2. \E b \in backups' : Update!Runs(b)
    BY <2>1, <1>i
  <2>3. QED
    BY <2>1, <2>2 DEF Update!SavedInv, Update!WayBack, Update!Runs
<1>4. ASSUME NEW a \in Applier,
             Update!Swap(a) \/ Update!Setcap(a) \/ Update!SetcapFails(a) \/ Update!RollBack(a)
      PROVE  Update!SavedInv'
  <2>1. apc[a] \in {"saved", "swapped", "rollback"} /\ backups' = backups
    BY <1>4 DEF Update!Swap, Update!Setcap, Update!SetcapFails, Update!RollBack, Update!Go,
                Update!fileVars
  <2>2. apc' \in [Applier -> {"idle", "probed", "saved", "swapped", "applied", "rollback"}]
    BY <1>4, <1>i DEF Update!Swap, Update!Setcap, Update!SetcapFails, Update!RollBack, Update!Go
  <2>3. QED
    BY <1>i, <1>1, <2>1, <2>2
<1>5. ASSUME NEW a \in Applier,
             Update!ProbeStaged(a) \/ Update!BackupFails(a) \/ Update!RestartFails(a)
      PROVE  Update!SavedInv'
  <2>1. /\ backups \subseteq backups' /\ UNCHANGED <<live, liveCap>>
        /\ \E st \in {"probed", "idle"} : apc' = [apc EXCEPT ![a] = st]
    BY <1>5 DEF Update!ProbeStaged, Update!BackupFails, Update!RestartFails, Update!Go,
                Update!fileVars
  <2>2. QED
    BY <1>i, <1>2, <2>1
<1>6. ASSUME Update!NewProcess
      PROVE  Update!SavedInv'
  BY <1>2, <1>6 DEF Update!NewProcess, Update!fileVars
<1>7. ASSUME NEW b, Update!Stage(b)
      PROVE  Update!SavedInv'
  BY <1>2, <1>7, <1>i DEF Update!Stage, Update!applyVars
<1>8. CASE UNCHANGED Update!vars
  BY <1>2, <1>8, <1>i DEF Update!vars, Update!fileVars, Update!applyVars
<1>9. QED
  BY <1>3, <1>4, <1>5, <1>6, <1>7, <1>8
     DEF Update!Next, Update!HandleUpdateUpload, Update!HandleUpdateDownload, Update!ApplyStep,
         Update!Restart, Update!Crash, Update!Down

(* There is a way back (handleUpdateApply): for any number of applies at     *)
(* once, and a failure or a death at any step, the live binary is one that   *)
(* runs and may probe, or one that runs is kept whole under .backups.        *)
THEOREM RollbackNet == Update!Spec => []WayBack
<1>1. Update!Init => Update!SavedInv
  BY DEF Update!Init, Update!SavedInv, Update!WayBack, Update!Runs
<1>2. Update!SavedInv => WayBack
  BY DEF Update!SavedInv, WayBack
<1>3. QED
  BY <1>1, <1>2, SavedStep, PTL DEF Update!Spec

(* What an apply knows of the files.                                         *)
Phases == {"idle", "probed", "saved", "swapped", "applied", "rollback"}
RestoreInv == Update!TypeOK /\ Update!RestoresBackup

(* An apply goes on: what it found stays where it may still be needed, or it *)
(* is forgotten.                                                             *)
LEMMA RestoreGo ==
  ASSUME RestoreInv, NEW a \in Applier, NEW to \in Phases, apc' = [apc EXCEPT ![a] = to],
         UNCHANGED <<found, backups>>, to \in {"saved", "swapped", "rollback"} => found[a] \in backups
  PROVE  Update!RestoresBackup' /\ apc' \in [Applier -> Phases]
BY DEF RestoreInv, Update!TypeOK, Update!RestoresBackup, Phases

LEMMA RestoreForget ==
  ASSUME RestoreInv, NEW a \in Applier, NEW to \in {"idle", "applied"},
         apc' = [apc EXCEPT ![a] = to], found' = [found EXCEPT ![a] = Nothing], UNCHANGED backups
  PROVE  /\ Update!RestoresBackup' /\ apc' \in [Applier -> Phases]
         /\ found' \in [Applier -> Build \cup {First, Nothing, Half}]
BY DEF RestoreInv, Update!TypeOK, Update!RestoresBackup, Phases

LEMMA RestoreStep ==
  ASSUME RestoreInv, [Update!Next]_(Update!vars)
  PROVE  RestoreInv'
<1>i. /\ Update!TypeOK /\ Update!RestoresBackup
      /\ apc \in [Applier -> Phases] /\ found \in [Applier -> Build \cup {First, Nothing, Half}]
      /\ backups \subseteq Build \cup {First, Half} /\ live \in Build \cup {First, Half}
      /\ staged \in Build \cup {Nothing}
  BY DEF RestoreInv, Update!TypeOK, Phases
<1>1. ASSUME NEW b \in Build, Update!HandleUpdateUpload(b) \/ Update!HandleUpdateDownload(b)
      PROVE  RestoreInv'
  <2>1. /\ staged' \in Build \cup {Nothing}
        /\ UNCHANGED <<live, liveCap, backups, up, apc, found>>
    BY <1>1 DEF Update!HandleUpdateUpload, Update!HandleUpdateDownload, Update!Stage,
                Update!applyVars
  <2>2. QED
    BY <1>i, <2>1, Zenon DEF RestoreInv, Update!TypeOK, Update!RestoresBackup
<1>2. ASSUME NEW a \in Applier, Update!ProbeStaged(a)
      PROVE  RestoreInv'
  <2>1. apc' = [apc EXCEPT ![a] = "probed"] /\ UNCHANGED <<staged, live, liveCap, backups, up, found>>
    BY <1>2 DEF Update!ProbeStaged, Update!Go, Update!fileVars
  <2>2. Update!RestoresBackup' /\ apc' \in [Applier -> Phases]
    BY <2>1, RestoreGo DEF Phases
  <2>3. QED
    BY <1>i, <2>1, <2>2, Zenon DEF RestoreInv, Update!TypeOK, Phases
<1>3. ASSUME NEW a \in Applier, Update!Backup(a)
      PROVE  RestoreInv'
  <2>1. /\ apc' = [apc EXCEPT ![a] = "saved"] /\ found' = [found EXCEPT ![a] = live]
        /\ backups' = backups \cup {live} /\ UNCHANGED <<staged, live, liveCap, up>>
    BY <1>3 DEF Update!Backup, Update!Go, Update!Saved
  <2>2. Update!RestoresBackup'
    BY <1>i, <2>1 DEF Update!RestoresBackup
  <2>3. /\ apc' \in [Applier -> Phases]
        /\ found' \in [Applier -> Build \cup {First, Nothing, Half}]
        /\ backups' \subseteq Build \cup {First, Half}
    BY <1>i, <2>1 DEF Phases
  <2>4. QED
    BY <1>i, <2>1, <2>2, <2>3, Zenon DEF RestoreInv, Update!TypeOK, Phases
<1>4. ASSUME NEW a \in Applier, Update!BackupFails(a)
      PROVE  RestoreInv'
  <2>1. /\ apc' = [apc EXCEPT ![a] = "idle"] /\ backups' = backups \cup {Half}
        /\ UNCHANGED <<staged, live, liveCap, up, found>>
    BY <1>4 DEF Update!BackupFails, Update!Go
  <2>2. Update!RestoresBackup' /\ apc' \in [Applier -> Phases]
        /\ backups' \subseteq Build \cup {First, Half}
    BY <1>i, <2>1 DEF Update!RestoresBackup, Phases
  <2>3. QED
    BY <1>i, <2>1, <2>2, Zenon DEF RestoreInv, Update!TypeOK, Phases
<1>5. ASSUME NEW a \in Applier, Update!Swap(a)
      PROVE  RestoreInv'
  <2>1. CASE staged = Nothing
    <3>1. /\ apc' = [apc EXCEPT ![a] = "idle"] /\ found' = [found EXCEPT ![a] = Nothing]
          /\ UNCHANGED <<staged, live, liveCap, backups, up>>
      BY <1>5, <2>1 DEF Update!Swap, Update!Go, Update!fileVars
    <3>2. QED
      BY <1>i, <3>1, RestoreForget, Zenon DEF RestoreInv, Update!TypeOK, Phases
  <2>2. CASE staged # Nothing
    <3>1. /\ apc[a] = "saved" /\ apc' = [apc EXCEPT ![a] = "swapped"]
          /\ live' = staged /\ liveCap' = FALSE /\ staged' = Nothing /\ UNCHANGED <<backups, up, found>>
      BY <1>5, <2>2 DEF Update!Swap, Update!Go
    <3>2. Update!RestoresBackup' /\ apc' \in [Applier -> Phases]
      BY <1>i, <3>1, RestoreGo DEF Phases, Update!RestoresBackup
    <3>3. live' \in Build \cup {First, Half} /\ staged' \in Build \cup {Nothing}
      BY <1>i, <2>2, <3>1
    <3>4. QED
      BY <1>i, <3>1, <3>2, <3>3, Zenon DEF RestoreInv, Update!TypeOK, Phases
  <2>3. QED
    BY <2>1, <2>2
<1>6. ASSUME NEW a \in Applier, Update!Setcap(a)
      PROVE  RestoreInv'
  <2>1. /\ apc' = [apc EXCEPT ![a] = "applied"] /\ found' = [found EXCEPT ![a] = Nothing]
        /\ liveCap' = TRUE /\ UNCHANGED <<staged, live, backups, up>>
    BY <1>6 DEF Update!Setcap, Update!Go
  <2>2. QED
    BY <1>i, <2>1, RestoreForget, Zenon DEF RestoreInv, Update!TypeOK, Phases
<1>7. ASSUME NEW a \in Applier, Update!SetcapFails(a)
      PROVE  RestoreInv'
  <2>1. /\ apc[a] = "swapped" /\ apc' = [apc EXCEPT ![a] = "rollback"]
        /\ live' = Half /\ liveCap' = FALSE /\ UNCHANGED <<staged, backups, up, found>>
    BY <1>7 DEF Update!SetcapFails, Update!Go
  <2>2. Update!RestoresBackup' /\ apc' \in [Applier -> Phases]
    BY <1>i, <2>1, RestoreGo DEF Phases, Update!RestoresBackup
  <2>3. QED
    BY <1>i, <2>1, <2>2, Zenon DEF RestoreInv, Update!TypeOK, Phases
\* What is put back is one of the backups, so it is a file there may be.
<1>8. ASSUME NEW a \in Applier, Update!RollBack(a)
      PROVE  RestoreInv'
  <2>1. /\ apc[a] = "rollback" /\ apc' = [apc EXCEPT ![a] = "idle"]
        /\ found' = [found EXCEPT ![a] = Nothing]
        /\ live' = found[a] /\ liveCap' = FALSE /\ UNCHANGED <<staged, backups, up>>
    BY <1>8 DEF Update!RollBack, Update!Go
  <2>2. live' \in Build \cup {First, Half}
    BY <1>i, <2>1 DEF Update!RestoresBackup
  <2>3. QED
    BY <1>i, <2>1, <2>2, RestoreForget, Zenon DEF RestoreInv, Update!TypeOK, Phases
<1>9. ASSUME NEW a \in Applier, Update!RestartFails(a)
      PROVE  RestoreInv'
  <2>1. apc' = [apc EXCEPT ![a] = "idle"] /\ UNCHANGED <<staged, live, liveCap, backups, up, found>>
    BY <1>9 DEF Update!RestartFails, Update!Go, Update!fileVars
  <2>2. Update!RestoresBackup' /\ apc' \in [Applier -> Phases]
    BY <2>1, RestoreGo DEF Phases
  <2>3. QED
    BY <1>i, <2>1, <2>2, Zenon DEF RestoreInv, Update!TypeOK, Phases
<1>10. ASSUME Update!NewProcess
       PROVE  RestoreInv'
  <2>1. /\ up' = Update!Runs(live) /\ apc' = [a \in Applier |-> "idle"]
        /\ found' = [a \in Applier |-> Nothing] /\ UNCHANGED <<staged, live, liveCap, backups>>
    BY <1>10 DEF Update!NewProcess, Update!fileVars
  <2>2. up' \in BOOLEAN
    BY <2>1, Zenon DEF Update!Runs
  <2>3. /\ apc' \in [Applier -> Phases] /\ Update!RestoresBackup'
        /\ found' \in [Applier -> Build \cup {First, Nothing, Half}]
    BY <2>1 DEF Phases, Update!RestoresBackup
  <2>4. QED
    BY <1>i, <2>1, <2>2, <2>3, Zenon DEF RestoreInv, Update!TypeOK, Phases
<1>11. CASE UNCHANGED Update!vars
  <2>1. UNCHANGED <<staged, live, liveCap, backups, up, apc, found>>
    BY <1>11 DEF Update!vars, Update!fileVars, Update!applyVars
  <2>2. QED
    BY <1>i, <2>1, Zenon DEF RestoreInv, Update!TypeOK, Update!RestoresBackup
<1>12. QED
  BY <1>1, <1>2, <1>3, <1>4, <1>5, <1>6, <1>7, <1>8, <1>9, <1>10, <1>11
     DEF Update!Next, Update!ApplyStep, Update!Restart, Update!Crash, Update!Down

(* What a failed apply may have to put back lies under .backups, whatever    *)
(* the other applies, uploads and crashes make of the files meanwhile, and   *)
(* the live file is a build that arrived, the first one, or cut off, never   *)
(* missing (handleUpdateApply): for any number of applies at once.           *)
THEOREM RollBackIsKept == Update!Spec => [](Update!TypeOK /\ Update!RestoresBackup)
<1>1. Update!Init => RestoreInv
  <2> SUFFICES ASSUME Update!Init
               PROVE  RestoreInv
    OBVIOUS
  <2>1. /\ apc = [a \in Applier |-> "idle"] /\ found = [a \in Applier |-> Nothing] /\ backups = {}
        /\ staged = Nothing /\ live = First /\ liveCap = TRUE /\ up = TRUE
    BY DEF Update!Init
  <2>2. /\ apc \in [Applier -> Phases] /\ Update!RestoresBackup
        /\ found \in [Applier -> Build \cup {First, Nothing, Half}]
    BY <2>1 DEF Phases, Update!RestoresBackup
  <2>3. QED
    BY <2>1, <2>2, Zenon DEF RestoreInv, Update!TypeOK, Phases
<1>2. RestoreInv => Update!TypeOK /\ Update!RestoresBackup
  BY DEF RestoreInv
<1>3. QED
  BY <1>1, <1>2, RestoreStep, PTL DEF Update!Spec

-----------------------------------------------------------------------------
(* Derate.                                                                   *)

CONSTANT Speed

AnyLine == INSTANCE Derate

LEMMA Lowest ==
  ASSUME NEW S \in SUBSET Nat, S # {}
  PROVE  \E m \in S : \A y \in S : m <= y
<1> DEFINE R == OpToRel(<, Nat)
<1>1. IsWellFoundedOn(R, Nat)
  BY NatLessThanWellFounded
<1>2. PICK m \in S : \A y \in S : ~(<<y, m>> \in R)
  <2> HIDE DEF R
  <2> QED BY <1>1, WFMin
<1>3. \A y \in S : ~(y < m)
  BY <1>2 DEF OpToRel
<1>4. QED
  BY <1>3

(* While the line is derated, the incident starts after the last healthy     *)
(* test, and there is none later.                                            *)
LEMMA IncidentGoesOn ==
  ASSUME AnyLine!IncidentInv, AnyLine!IsDerated
  PROVE  LET h == AnyLine!LastHealthy(AnyLine!HealthySuccess) IN
         /\ AnyLine!IncidentOf(AnyLine!DerateIncidentStart, h)
         /\ \A i \in AnyLine!Tests : i > h => ~(samples[i].ok /\ ~samples[i].flag)
<1> DEFINE n == Len(samples)
           H == AnyLine!HealthySuccess
           h == AnyLine!LastHealthy(H)
           I == {i \in 1..n : samples[i].flag /\ i > h}
<1>n. /\ n \in Nat \ {0} /\ samples[n].ok /\ samples[n].flag /\ AnyLine!Tests = 1..n
      /\ \A i \in 1..n : samples[i].ok \in BOOLEAN /\ samples[i].flag \in BOOLEAN
  <2>1. samples \in Seq(AnyLine!Sample) /\ samples # <<>> /\ AnyLine!Tests = 1..n
    BY DEF AnyLine!IncidentInv, AnyLine!IsDerated, AnyLine!Tests
  <2>2. n \in Nat \ {0} /\ \A i \in 1..n : samples[i] \in AnyLine!Sample
    BY <2>1
  <2>3. samples[n].ok /\ samples[n].flag
    BY DEF AnyLine!IsDerated, AnyLine!LatestBandwidthSample, AnyLine!Last
  <2>4. \A i \in 1..n : samples[i].ok \in BOOLEAN /\ samples[i].flag \in BOOLEAN
    BY <2>2 DEF AnyLine!Sample
  <2>5. QED
    BY <2>1, <2>2, <2>3, <2>4
<1>h. /\ H = {i \in 1..n : samples[i].ok /\ ~samples[i].flag}
      /\ h \in 0..n /\ h # n /\ (h # 0 => samples[h].ok /\ ~samples[h].flag)
      /\ \A i \in 1..n : i > h => ~(samples[i].ok /\ ~samples[i].flag)
  <2>1. H = {i \in 1..n : samples[i].ok /\ ~samples[i].flag}
    BY <1>n DEF AnyLine!HealthySuccess
  <2>2. CASE H = {}
    <3>1. h = 0
      BY <2>2 DEF AnyLine!LastHealthy
    <3>2. QED
      BY <2>1, <2>2, <3>1, <1>n
  <2>3. CASE H # {}
    <3>1. H \in SUBSET (0..n) /\ n \in Nat
      BY <2>1, <1>n
    <3>2. \E m \in H : \A y \in H : m >= y
      <4> HIDE DEF H, n
      <4> QED BY <3>1, <2>3, Highest
    <3>3. h \in H /\ \A y \in H : h >= y
      <4>1. h = AnyLine!Max(H)
        BY <2>3 DEF AnyLine!LastHealthy
      <4> HIDE DEF H, h
      <4>2. QED
        BY <3>2, <4>1 DEF AnyLine!Max
    <3>4. h \in 1..n /\ samples[h].ok /\ ~samples[h].flag
      <4> HIDE DEF h, n
      <4> QED BY <2>1, <3>3
    <3>5. ASSUME NEW i \in 1..n, i > h
          PROVE  ~(samples[i].ok /\ ~samples[i].flag)
      <4> HIDE DEF h
      <4> QED BY <2>1, <3>3, <3>4, <3>5, <1>n
    <3>6. QED
      BY <2>1, <3>4, <3>5, <1>n
  <2>4. QED
    BY <2>2, <2>3
<1> DEFINE s == AnyLine!DerateIncidentStart
<1>s. /\ s \in I /\ \A y \in I : s <= y
  <2>1. n \in I
    BY <1>n, <1>h
  <2>2. I \in SUBSET Nat /\ I # {}
    BY <2>1
  <2>3. \E m \in I : \A y \in I : m <= y
    <3> HIDE DEF I
    <3> QED BY <2>2, Lowest
  <2>4. s = AnyLine!Min(I)
    BY <2>2, <1>n DEF AnyLine!DerateIncidentStart
  <2>5. QED
    <3> HIDE DEF I, s
    <3> QED BY <2>3, <2>4 DEF AnyLine!Min
<1>1. \A i \in (h + 1)..(s - 1) : ~samples[i].ok /\ ~samples[i].flag
  <2> TAKE i \in (h + 1)..(s - 1)
  <2>1. i \in 1..n /\ i > h /\ i < s
    BY <1>h, <1>s
  <2>2. ~samples[i].flag
    BY <2>1, <1>s, <1>n
  <2>3. QED
    BY <2>1, <2>2, <1>h
<1>2. QED
  <2>1. s \in 1..n /\ h \in 0..(s - 1) /\ samples[s].flag
    BY <1>h, <1>s
  <2>2. AnyLine!IncidentOf(s, h)
    BY <2>1, <1>1, <1>h, <1>n DEF AnyLine!IncidentOf
  <2>3. QED
    BY <2>2, <1>h, <1>n

(* A further test changes no incident that has a name.                       *)
LEMMA IncidentKept ==
  ASSUME AnyLine!IncidentInv, NEW x \in AnyLine!Sample, samples' = Append(samples, x), NEW d, NEW o,
         AnyLine!IncidentOf(d, o)
  PROVE  AnyLine!IncidentOf(d, o)'
<1>1. /\ Len(samples') = Len(samples) + 1 /\ Len(samples) \in Nat
      /\ \A i \in 1..Len(samples) : samples'[i] = samples[i]
  BY DEF AnyLine!IncidentInv
<1>2. /\ d \in 1..Len(samples) /\ o \in 0..(d - 1)
      /\ \A i \in (o + 1)..(d - 1) : i \in 1..Len(samples)
  BY <1>1 DEF AnyLine!IncidentOf, AnyLine!Tests
<1>3. QED
  BY <1>1, <1>2 DEF AnyLine!IncidentOf, AnyLine!Tests

LEMMA IncidentTest ==
  ASSUME AnyLine!IncidentInv, NEW x \in AnyLine!Sample, samples' = Append(samples, x),
         UNCHANGED <<page, patch, pageOf, patchOf, dismissed, dismissedOf>>
  PROVE  AnyLine!IncidentInv'
<1>1. samples' \in Seq(AnyLine!Sample)
  BY DEF AnyLine!IncidentInv
<1>2. /\ page # 0 => AnyLine!IncidentOf(page, pageOf)'
      /\ patch # 0 => AnyLine!IncidentOf(patch, patchOf)'
      /\ dismissed # 0 => AnyLine!IncidentOf(dismissed, dismissedOf)'
  BY IncidentKept DEF AnyLine!IncidentInv
<1>3. QED
  BY <1>1, <1>2 DEF AnyLine!IncidentInv

LEMMA IncidentStep == AnyLine!IncidentInv /\ [AnyLine!Next]_(AnyLine!vars) => AnyLine!IncidentInv'
<1> SUFFICES ASSUME AnyLine!IncidentInv, [AnyLine!Next]_(AnyLine!vars)
             PROVE  AnyLine!IncidentInv'
  OBVIOUS
<1>1. ASSUME NEW mbps \in Speed, NEW got \in BOOLEAN, AnyLine!RecordTest(mbps, got)
      PROVE  AnyLine!IncidentInv'
  <2>1. AnyLine!Derated(mbps, got) \in BOOLEAN
    BY DEF AnyLine!Derated
  <2>2. PICK x : /\ x = [ok |-> TRUE, mbps |-> mbps, flag |-> AnyLine!Derated(mbps, got),
                         read |-> got]
                 /\ samples' = Append(samples, x)
    BY <1>1 DEF AnyLine!RecordTest
  <2>3. x \in AnyLine!Sample
    BY <2>1, <2>2 DEF AnyLine!Sample
  <2>4. QED
    BY <1>1, <2>2, <2>3, IncidentTest DEF AnyLine!RecordTest, AnyLine!askVars
<1>2. CASE AnyLine!RecordFailure
  <2>1. PICK x : /\ x = [ok |-> FALSE, mbps |-> <<0, 0>>, flag |-> FALSE, read |-> FALSE]
                 /\ samples' = Append(samples, x)
    BY <1>2 DEF AnyLine!RecordFailure
  <2>2. x \in AnyLine!Sample
    BY <2>1 DEF AnyLine!Sample
  <2>3. QED
    BY <1>2, <2>1, <2>2, IncidentTest DEF AnyLine!RecordFailure, AnyLine!askVars
\* A name that an unchanged table gives stays its name.
<1>k. ASSUME UNCHANGED samples, NEW d, NEW o, AnyLine!IncidentOf(d, o)
      PROVE  AnyLine!IncidentOf(d, o)'
  BY <1>k DEF AnyLine!IncidentOf, AnyLine!Tests
<1>3. CASE AnyLine!HandleBandwidthDerateStatus
  <2>1. AnyLine!HealthySuccess = {i \in AnyLine!Tests : samples[i].ok /\ ~samples[i].flag}
    BY DEF AnyLine!HealthySuccess
  <2>2. page' # 0 => AnyLine!IncidentOf(page', pageOf')
    BY <1>3, <2>1, IncidentGoesOn DEF AnyLine!HandleBandwidthDerateStatus
  <2>3. QED
    BY <1>3, <1>k, <2>2 DEF AnyLine!HandleBandwidthDerateStatus, AnyLine!IncidentInv
<1>4. CASE AnyLine!Dismiss
  BY <1>4, <1>k DEF AnyLine!Dismiss, AnyLine!IncidentInv
<1>5. ASSUME NEW done \in BOOLEAN, AnyLine!ClearDismissal(done)
      PROVE  AnyLine!IncidentInv'
  BY <1>5, <1>k DEF AnyLine!ClearDismissal, AnyLine!IncidentInv, AnyLine!askVars
<1>6. ASSUME NEW done \in BOOLEAN, AnyLine!HandleDismissal(done)
      PROVE  AnyLine!IncidentInv'
  BY <1>6, <1>k DEF AnyLine!HandleDismissal, AnyLine!IncidentInv
<1>7. CASE UNCHANGED AnyLine!vars
  BY <1>7, <1>k DEF AnyLine!vars, AnyLine!askVars, AnyLine!IncidentInv
<1>8. QED
  BY <1>1, <1>2, <1>3, <1>4, <1>5, <1>6, <1>7 DEF AnyLine!Next

(* What the properties are about is the same for any set of speeds.          *)
LEMMA SameLine ==
  /\ Line!Tests = AnyLine!Tests
  /\ Line!IsDerated <=> AnyLine!IsDerated
  /\ \A H : Line!LastHealthy(H) = AnyLine!LastHealthy(H)
  /\ Line!DerateIncidentStart = AnyLine!DerateIncidentStart
<1>1. Line!Tests = AnyLine!Tests /\ Line!HealthySuccess = AnyLine!HealthySuccess
  BY DEF Line!Tests, AnyLine!Tests, Line!HealthySuccess, AnyLine!HealthySuccess
<1>2. Line!IsDerated <=> AnyLine!IsDerated
  BY DEF Line!IsDerated, AnyLine!IsDerated, Line!LatestBandwidthSample,
         AnyLine!LatestBandwidthSample, Line!Last, AnyLine!Last
<1>3. \A H : Line!Max(H) = AnyLine!Max(H) /\ Line!Min(H) = AnyLine!Min(H)
  BY DEF Line!Max, AnyLine!Max, Line!Min, AnyLine!Min
<1>4. \A H : Line!LastHealthy(H) = AnyLine!LastHealthy(H)
  BY <1>3 DEF Line!LastHealthy, AnyLine!LastHealthy
<1>5. Line!DerateIncidentStart = AnyLine!DerateIncidentStart
  BY <1>1, <1>3, <1>4 DEF Line!DerateIncidentStart, AnyLine!DerateIncidentStart
<1>6. QED
  BY <1>1, <1>2, <1>4, <1>5

(* A dismissal hides the banner of one incident, and of all of it            *)
(* (derateIncidentStart, execute): for any floor, baseline and number of     *)
(* tests, whether clearing fails and however late the request arrives.       *)
THEOREM BannerPerIncident == AnyLine!Spec => []DismissesOneIncident
<1>1. AnyLine!Init => AnyLine!IncidentInv
  BY DEF AnyLine!Init, AnyLine!IncidentInv
<1>2. AnyLine!IncidentInv => DismissesOneIncident
  <2> SUFFICES ASSUME AnyLine!IncidentInv, AnyLine!IsDerated
               PROVE  dismissed = AnyLine!DerateIncidentStart
                        <=> dismissedOf = AnyLine!LastHealthy(AnyLine!HealthySuccess)
    <3>1. DismissesOneIncident <=>
            (AnyLine!IsDerated => (dismissed = AnyLine!DerateIncidentStart
                                     <=> dismissedOf = AnyLine!LastHealthy(AnyLine!HealthySuccess)))
      BY SameLine DEF DismissesOneIncident, Line!DismissesOneIncident, AnyLine!HealthySuccess
    <3>2. QED
      BY <3>1
  <2> DEFINE h == AnyLine!LastHealthy(AnyLine!HealthySuccess)
             s == AnyLine!DerateIncidentStart
  <2>1. /\ AnyLine!IncidentOf(s, h)
        /\ \A i \in AnyLine!Tests : i > h => ~(samples[i].ok /\ ~samples[i].flag)
    BY IncidentGoesOn
  <2> HIDE DEF h, s
  <2>2. /\ Len(samples) \in Nat /\ s \in 1..Len(samples) /\ h \in 0..(s - 1)
    BY <2>1 DEF AnyLine!IncidentOf, AnyLine!Tests, AnyLine!IncidentInv
  <2>3. CASE dismissed = 0
    BY <2>2, <2>3 DEF AnyLine!IncidentInv, h, s
  <2>4. CASE dismissed # 0
    <3>1. AnyLine!IncidentOf(dismissed, dismissedOf)
      BY <2>4 DEF AnyLine!IncidentInv
    <3>2. /\ dismissed \in 1..Len(samples) /\ dismissedOf \in 0..(dismissed - 1)
          /\ samples[dismissed].flag /\ samples[s].flag
          /\ dismissedOf # 0 => samples[dismissedOf].ok /\ ~samples[dismissedOf].flag
          /\ h # 0 => samples[h].ok /\ ~samples[h].flag
      BY <3>1, <2>1 DEF AnyLine!IncidentOf, AnyLine!Tests
    <3>3. ASSUME dismissed = s
          PROVE  dismissedOf = h
      <4>1. ~(dismissedOf < h)
        <5>1. dismissedOf < h => h \in (dismissedOf + 1)..(dismissed - 1) /\ h # 0
          BY <3>2, <3>3, <2>2
        <5>2. QED
          BY <5>1, <3>1, <3>2 DEF AnyLine!IncidentOf
      <4>2. ~(h < dismissedOf)
        <5>1. h < dismissedOf => dismissedOf \in 1..Len(samples) /\ dismissedOf # 0
          BY <3>2, <2>2
        <5>2. QED
          BY <5>1, <2>1, <3>2 DEF AnyLine!Tests
      <4>3. QED
        BY <4>1, <4>2, <3>2, <2>2
    <3>4. ASSUME dismissedOf = h
          PROVE  dismissed = s
      <4>1. ~(dismissed < s)
        <5>1. dismissed < s => dismissed \in (h + 1)..(s - 1)
          BY <3>2, <3>4, <2>2
        <5>2. QED
          BY <5>1, <2>1, <3>2 DEF AnyLine!IncidentOf
      <4>2. ~(s < dismissed)
        <5>1. s < dismissed => s \in (dismissedOf + 1)..(dismissed - 1)
          BY <3>2, <3>4, <2>2
        <5>2. QED
          BY <5>1, <3>1, <3>2 DEF AnyLine!IncidentOf
      <4>3. QED
        BY <4>1, <4>2, <3>2, <2>2
    <3>5. QED
      BY <3>3, <3>4 DEF h, s
  <2>5. QED
    BY <2>3, <2>4 DEF h, s
<1>3. QED
  BY <1>1, <1>2, IncidentStep, PTL DEF AnyLine!Spec

-----------------------------------------------------------------------------
(* The baseline of Derate: the k-th of finitely many values.                 *)

(* What of the indices of w is at most v, below v, above v.                  *)
UpTo(w, v)  == {i \in DOMAIN w : w[i] <= v}
Below(w, v) == {i \in DOMAIN w : w[i] < v}
Above(w, v) == {i \in DOMAIN w : w[i] > v}

(* Finitely many values to take the k-th of.                                 *)
FinitelyMany(w) ==
  /\ IsFiniteSet(DOMAIN w) /\ Cardinality(DOMAIN w) \in Nat
  /\ \A i \in DOMAIN w : w[i] \in Nat

(* Derate counts as its theorems do.                                         *)
LEMMA AnyCardinality == \A S : AnyLine!Cardinality(S) = Cardinality(S)
BY DEF AnyLine!Cardinality, Cardinality

LEMMA Counts ==
  ASSUME NEW w, FinitelyMany(w), NEW v \in Nat
  PROVE  /\ IsFiniteSet(UpTo(w, v)) /\ IsFiniteSet(Below(w, v)) /\ IsFiniteSet(Above(w, v))
         /\ Cardinality(UpTo(w, v)) \in Nat /\ Cardinality(Below(w, v)) \in Nat
         /\ Cardinality(Above(w, v)) \in Nat
         /\ Cardinality(UpTo(w, v)) <= Cardinality(DOMAIN w)
         /\ Cardinality(Above(w, v)) = Cardinality(DOMAIN w) - Cardinality(UpTo(w, v))
<1>1. UpTo(w, v) \subseteq DOMAIN w /\ Below(w, v) \subseteq DOMAIN w
  BY DEF UpTo, Below
<1>2. Above(w, v) = DOMAIN w \ UpTo(w, v)
  BY DEF Above, UpTo, FinitelyMany
<1>3. DOMAIN w \cap UpTo(w, v) = UpTo(w, v) /\ IsFiniteSet(DOMAIN w)
  BY <1>1 DEF FinitelyMany
<1>4. /\ IsFiniteSet(UpTo(w, v)) /\ Cardinality(UpTo(w, v)) <= Cardinality(DOMAIN w)
      /\ IsFiniteSet(Below(w, v))
  BY <1>1, <1>3, FS_Subset
<1>5. /\ IsFiniteSet(Above(w, v))
      /\ Cardinality(Above(w, v)) = Cardinality(DOMAIN w) - Cardinality(UpTo(w, v))
  <2>1. PICK D, U : D = DOMAIN w /\ U = UpTo(w, v)
    OBVIOUS
  <2>2. IsFiniteSet(D \ U) /\ Cardinality(D \ U) = Cardinality(D) - Cardinality(D \cap U)
    BY <1>3, <2>1, FS_Difference
  <2>3. D \cap U = U /\ D \ U = Above(w, v)
    BY <1>2, <1>3, <2>1
  <2>4. QED
    BY <2>1, <2>2, <2>3
<1>6. QED
  BY <1>4, <1>5, FS_CardinalityType

(* Of two sets of indices the larger has at least as many, and more when it  *)
(* has one that the smaller lacks.                                           *)
LEMMA Grows ==
  ASSUME NEW A, NEW B, IsFiniteSet(B), A \subseteq B
  PROVE  /\ Cardinality(A) <= Cardinality(B)
         /\ A # B => Cardinality(A) < Cardinality(B)
<1>1. IsFiniteSet(A) /\ Cardinality(A) \in Nat /\ Cardinality(B) \in Nat
      /\ Cardinality(A) <= Cardinality(B)
  BY FS_Subset, FS_CardinalityType
<1>2. Cardinality(A) = Cardinality(B) => A = B
  BY FS_Subset
<1>3. QED
  BY <1>1, <1>2

(* Among some of the indices, one has the greatest value.                    *)
LEMMA Greatest ==
  ASSUME NEW w, FinitelyMany(w), NEW D \in SUBSET DOMAIN w, D # {}
  PROVE  \E j \in D : \A i \in D : w[i] <= w[j]
<1> DEFINE U(j) == {i \in D : w[i] <= w[j]}
           c(j) == Cardinality(U(j))
           S    == {c(j) : j \in D}
           n    == Cardinality(D)
<1>1. IsFiniteSet(D) /\ n \in Nat
  BY FS_Subset, FS_CardinalityType DEF FinitelyMany
<1>2. \A j \in D : U(j) \subseteq D /\ IsFiniteSet(U(j)) /\ c(j) \in 0..n
  <2> SUFFICES ASSUME NEW j \in D
               PROVE  U(j) \subseteq D /\ IsFiniteSet(U(j)) /\ c(j) \in 0..n
    OBVIOUS
  <2>1. U(j) \subseteq D
    OBVIOUS
  <2>2. IsFiniteSet(U(j)) /\ c(j) <= n /\ c(j) \in Nat
    <3> HIDE DEF U
    <3> QED BY <2>1, <1>1, FS_Subset, FS_CardinalityType
  <2>3. QED
    <3> HIDE DEF U, c, n
    <3> QED BY <2>1, <2>2, <1>1
<1>3. S \in SUBSET (0..n) /\ S # {}
  <2> HIDE DEF c, n
  <2> QED BY <1>2
<1>4. PICK m \in S : \A y \in S : m >= y
  <2> HIDE DEF S, n
  <2> QED BY <1>1, <1>3, Highest
<1>5. PICK j \in D : m = c(j)
  <2> HIDE DEF c
  <2> QED BY <1>4
<1>6. ASSUME NEW i \in D, ~(w[i] <= w[j])
      PROVE  FALSE
  <2>1. w[i] \in Nat /\ w[j] \in Nat
    BY DEF FinitelyMany
  <2>2. \A x \in D : w[x] \in Nat
    BY DEF FinitelyMany
  <2>3. U(j) \subseteq U(i) /\ i \in U(i) /\ i \notin U(j)
    BY <2>1, <2>2, <1>6
  <2>4. c(j) < c(i)
    <3> HIDE DEF U
    <3> QED BY <2>3, <1>2, Grows
  <2>5. c(i) \in S /\ c(i) \in Nat /\ c(j) \in Nat
    <3>1. c(i) \in S
      <4> HIDE DEF c
      <4> QED OBVIOUS
    <3>2. c(i) \in 0..n /\ c(j) \in 0..n
      BY <1>2
    <3> HIDE DEF c, S, n
    <3>3. QED
      BY <3>1, <3>2, <1>1
  <2>6. QED
    <3> HIDE DEF c, S
    <3> QED BY <2>4, <2>5, <1>4, <1>5
<1>7. QED
  BY <1>6

(* There is a k-th smallest value, for every k up to their number.           *)
LEMMA SmallestIs ==
  ASSUME NEW w, FinitelyMany(w), NEW k \in Nat, 1 <= k, k <= Cardinality(DOMAIN w)
  PROVE  LET x == AnyLine!Smallest(w, k) IN
         x \in Nat /\ Cardinality(Below(w, x)) < k /\ Cardinality(UpTo(w, x)) >= k
<1> DEFINE R == AnyLine!Range(w)
           S == {x \in R : Cardinality(UpTo(w, x)) >= k}
<1>1. R \subseteq Nat /\ R = {w[i] : i \in DOMAIN w}
  BY DEF AnyLine!Range, FinitelyMany
<1>2. DOMAIN w # {}
  BY FS_EmptySet DEF FinitelyMany
<1>3. S # {}
  <2>1. PICK j \in DOMAIN w : \A i \in DOMAIN w : w[i] <= w[j]
    BY <1>2, Greatest
  <2>2. UpTo(w, w[j]) = DOMAIN w /\ w[j] \in R
    BY <2>1, <1>1 DEF UpTo
  <2>3. QED
    BY <2>2
<1>4. S \in SUBSET Nat
  BY <1>1
<1>5. PICK x \in S : \A y \in S : x <= y
  <2> HIDE DEF S
  <2> QED BY <1>3, <1>4, Lowest
<1>6. x \in R /\ x \in Nat /\ Cardinality(UpTo(w, x)) >= k
  BY <1>5, <1>1
<1>7. Cardinality(Below(w, x)) < k
  <2>1. CASE Below(w, x) = {}
    BY <2>1, FS_EmptySet
  <2>2. CASE Below(w, x) # {}
    <3>1. Below(w, x) \in SUBSET DOMAIN w
      BY DEF Below
    <3>2. PICK j \in Below(w, x) : \A i \in Below(w, x) : w[i] <= w[j]
      BY <2>2, <3>1, Greatest
    <3>3. j \in DOMAIN w /\ w[j] < x /\ w[j] \in Nat /\ w[j] \in R
      BY <3>2, <1>1 DEF Below, FinitelyMany
    <3>4. UpTo(w, w[j]) = Below(w, x)
      BY <3>2, <3>3, <1>6 DEF UpTo, Below, FinitelyMany
    <3>5. w[j] \notin S
      <4> HIDE DEF S
      <4> QED BY <3>3, <1>5, <1>6
    <3>6. ~(Cardinality(UpTo(w, w[j])) >= k)
      BY <3>3, <3>5
    <3>7. Cardinality(UpTo(w, w[j])) \in Nat
      BY <3>3, Counts
    <3>8. QED
      BY <3>4, <3>6, <3>7
  <2>3. QED
    BY <2>1, <2>2
<1>8. LET y == AnyLine!Smallest(w, k) IN
      y \in R /\ Cardinality(Below(w, y)) < k /\ Cardinality(UpTo(w, y)) >= k
  <2> DEFINE Q(y) == /\ Cardinality({i \in DOMAIN w : w[i] < y}) < k
                     /\ Cardinality({i \in DOMAIN w : w[i] <= y}) >= k
  <2>1. \A y : Q(y) <=> Cardinality(Below(w, y)) < k /\ Cardinality(UpTo(w, y)) >= k
    BY DEF Below, UpTo
  <2>2. AnyLine!Smallest(w, k) = CHOOSE y \in R : Q(y)
    BY AnyCardinality DEF AnyLine!Smallest
  <2>3. \E y \in R : Q(y)
    <3> HIDE DEF Q, R, S
    <3> QED BY <1>6, <1>7, <2>1
  <2>4. AnyLine!Smallest(w, k) \in R /\ Q(AnyLine!Smallest(w, k))
    <3> HIDE DEF Q, R
    <3> QED BY <2>2, <2>3
  <2>5. QED
    <3> HIDE DEF Q, R
    <3> QED BY <2>1, <2>4
<1>9. QED
  BY <1>8, <1>1

(* The k-th smallest exceeds v if and only if fewer than k of the values do  *)
(* not.                                                                      *)
LEMMA SmallestExceeds ==
  ASSUME NEW w, FinitelyMany(w), NEW k \in Nat, 1 <= k, k <= Cardinality(DOMAIN w), NEW v \in Nat
  PROVE  AnyLine!Smallest(w, k) > v
           <=> Cardinality(Above(w, v)) >= Cardinality(DOMAIN w) - k + 1
<1> DEFINE x == AnyLine!Smallest(w, k)
<1>1. x \in Nat /\ Cardinality(Below(w, x)) < k /\ Cardinality(UpTo(w, x)) >= k
  BY SmallestIs
<1> HIDE DEF x
<1>2. /\ IsFiniteSet(UpTo(w, v)) /\ Cardinality(UpTo(w, v)) \in Nat
      /\ Cardinality(Above(w, v)) = Cardinality(DOMAIN w) - Cardinality(UpTo(w, v))
      /\ IsFiniteSet(Below(w, x)) /\ Cardinality(Below(w, x)) \in Nat
      /\ Cardinality(UpTo(w, x)) \in Nat /\ Cardinality(DOMAIN w) \in Nat
  BY <1>1, Counts DEF FinitelyMany
<1>3. x > v => Cardinality(UpTo(w, v)) < k
  <2>1. x > v => UpTo(w, v) \subseteq Below(w, x)
    BY <1>1 DEF UpTo, Below, FinitelyMany
  <2>2. x > v => Cardinality(UpTo(w, v)) <= Cardinality(Below(w, x))
    BY <2>1, <1>2, Grows
  <2>3. QED
    BY <2>2, <1>1, <1>2
<1>4. ~(x > v) => Cardinality(UpTo(w, v)) >= k
  <2>1. ~(x > v) => UpTo(w, x) \subseteq UpTo(w, v)
    BY <1>1 DEF UpTo, FinitelyMany
  <2>2. ~(x > v) => Cardinality(UpTo(w, x)) <= Cardinality(UpTo(w, v))
    BY <2>1, <1>2, Grows
  <2>3. QED
    BY <2>2, <1>1, <1>2
<1>5. x > v <=> Cardinality(UpTo(w, v)) < k
  BY <1>3, <1>4, <1>2
<1>6. QED
  BY <1>5, <1>2 DEF x

(* The median exceeds v when most of the values do, and only if at least     *)
(* half of them do.                                                          *)
LEMMA MedianSays ==
  ASSUME NEW w, FinitelyMany(w), Cardinality(DOMAIN w) # 0, NEW v \in Nat
  PROVE  LET b == AnyLine!Median(w)
             c == Cardinality(Above(w, v))
         IN  /\ v * b.den < b.num => 2 * c >= Cardinality(DOMAIN w)
             /\ 2 * c >= Cardinality(DOMAIN w) + 1 => v * b.den < b.num
<1> DEFINE n == Cardinality(DOMAIN w)
           c == Cardinality(Above(w, v))
           b == AnyLine!Median(w)
           k == n \div 2
<1>1. n \in Nat /\ n # 0 /\ c \in Nat /\ n = AnyLine!Cardinality(DOMAIN w)
  BY Counts, AnyCardinality DEF FinitelyMany
<1>2. CASE n % 2 = 1
  <2>1. b.num = AnyLine!Smallest(w, k + 1) /\ b.den = 1
    BY <1>1, <1>2 DEF AnyLine!Median
  <2>2. k \in Nat /\ k + 1 \in Nat /\ 1 <= k + 1 /\ k + 1 <= n /\ n = 2 * k + 1
    <3> HIDE DEF n
    <3> QED BY <1>1, <1>2
  <2> HIDE DEF k
  <2>3. /\ AnyLine!Smallest(w, k + 1) > v <=> c >= n - (k + 1) + 1
        /\ AnyLine!Smallest(w, k + 1) \in Nat
    BY <2>2, SmallestExceeds, SmallestIs
  <2> HIDE DEF n, c, b
  <2>4. QED
    <3>1. PICK x \in Nat : x = AnyLine!Smallest(w, k + 1)
      BY <2>3
    <3>2. (x > v <=> c >= k + 1) /\ b.num = x /\ b.den = 1
      BY <2>1, <2>2, <2>3, <3>1, <1>1
    <3>3. v * b.den < b.num <=> c >= k + 1
      BY <3>1, <3>2
    <3>4. QED
      BY <3>3, <2>2, <1>1 DEF n, c, b
<1>3. CASE n % 2 # 1
  <2>1. /\ b.num = AnyLine!Smallest(w, k) + AnyLine!Smallest(w, k + 1)
        /\ b.den = 2
    BY <1>1, <1>3 DEF AnyLine!Median
  <2>2. k \in Nat /\ 1 <= k /\ k + 1 \in Nat /\ 1 <= k + 1 /\ k <= n /\ k + 1 <= n /\ n = 2 * k
    <3> HIDE DEF n
    <3> QED BY <1>1, <1>3
  <2> HIDE DEF k
  <2>3. /\ AnyLine!Smallest(w, k) > v <=> c >= n - k + 1
        /\ AnyLine!Smallest(w, k) \in Nat
    BY <2>2, SmallestExceeds, SmallestIs
  <2>4. /\ AnyLine!Smallest(w, k + 1) > v <=> c >= n - (k + 1) + 1
        /\ AnyLine!Smallest(w, k + 1) \in Nat
    BY <2>2, SmallestExceeds, SmallestIs
  <2>5. QED
    <3>1. PICK x \in Nat, y \in Nat : x = AnyLine!Smallest(w, k) /\ y = AnyLine!Smallest(w, k + 1)
      BY <2>3, <2>4
    <3> HIDE DEF n, c, b
    <3>2. /\ x > v <=> c >= k + 1
          /\ y > v <=> c >= k
          /\ b.num = x + y /\ b.den = 2
      BY <2>1, <2>2, <2>3, <2>4, <3>1, <1>1
    <3>3. v * b.den < b.num => x > v \/ y > v
      BY <3>1, <3>2
    <3>4. x > v /\ y > v => v * b.den < b.num
      BY <3>1, <3>2
    <3>5. QED
      BY <3>2, <3>3, <3>4, <2>2, <1>1 DEF n, c, b
<1>4. QED
  BY <1>2, <1>3

(* The running sum of TrimmedMean: nothing up to t, then one value after     *)
(* the other.                                                                *)
IsSum(w, t, m, g) ==
  g = [k \in 0..m |-> IF k <= t THEN 0 ELSE g[k - 1] + AnyLine!Smallest(w, k)]

LEMMA SumExists ==
  ASSUME NEW w, NEW t \in Nat, NEW m \in Nat
  PROVE  \E g : IsSum(w, t, m, g)
<1> DEFINE Fails == {j \in Nat : ~\E g : IsSum(w, t, j, g)}
<1> SUFFICES ASSUME Fails # {}
             PROVE  FALSE
  OBVIOUS
<1>1. PICK b \in Fails : \A y \in Fails : b <= y
  <2>1. Fails \in SUBSET Nat
    OBVIOUS
  <2> HIDE DEF Fails
  <2>2. QED
    BY <2>1, Lowest
<1>2. b \in Nat /\ ~\E g : IsSum(w, t, b, g)
  BY <1>1
<1>3. CASE b = 0
  <2>1. IsSum(w, t, 0, [k \in 0..0 |-> 0])
    BY DEF IsSum
  <2>2. QED
    BY <2>1, <1>2, <1>3
<1>4. CASE b # 0
  <2>1. b - 1 \in Nat /\ ~(b <= b - 1)
    BY <1>2, <1>4
  <2>2. b - 1 \notin Fails
    <3> HIDE DEF Fails
    <3> QED BY <1>1, <2>1
  <2>3. PICK g : IsSum(w, t, b - 1, g)
    BY <2>1, <2>2
  <2> DEFINE h == [k \in 0..b |-> IF k <= t THEN 0
                                  ELSE IF k = b THEN g[b - 1] + AnyLine!Smallest(w, b) ELSE g[k]]
  <2>4. \A k \in 0..(b - 1) : g[k] = IF k <= t THEN 0 ELSE g[k - 1] + AnyLine!Smallest(w, k)
    BY <2>3 DEF IsSum
  <2>5. \A k \in 0..(b - 1) : h[k] = g[k]
    <3> SUFFICES ASSUME NEW k \in 0..(b - 1)
                 PROVE  h[k] = g[k]
      OBVIOUS
    <3>1. k \in 0..b /\ k # b
      BY <1>2
    <3>2. QED
      BY <3>1, <2>4
  <2>6. \A k \in 0..b : h[k] = IF k <= t THEN 0 ELSE h[k - 1] + AnyLine!Smallest(w, k)
    <3> SUFFICES ASSUME NEW k \in 0..b, ~(k <= t)
                 PROVE  h[k] = h[k - 1] + AnyLine!Smallest(w, k)
      OBVIOUS
    <3>1. k - 1 \in 0..(b - 1)
      BY <1>2
    <3>2. CASE k = b
      <4>1. h[k] = g[b - 1] + AnyLine!Smallest(w, b)
        BY <3>2
      <4>2. QED
        BY <4>1, <2>5, <3>1, <3>2
    <3>3. CASE k # b
      <4>1. k \in 0..(b - 1)
        BY <3>3, <1>2
      <4>2. QED
        BY <4>1, <2>4, <2>5, <3>1
    <3>4. QED
      BY <3>2, <3>3
  <2>7. IsSum(w, t, b, h)
    <3>1. h = [k \in 0..b |-> h[k]]
      OBVIOUS
    <3> HIDE DEF h
    <3>2. QED
      BY <2>6, <3>1 DEF IsSum
  <2>8. QED
    BY <2>7, <1>2
<1>5. QED
  BY <1>3, <1>4

(* The sum stays within that of as many lowest, or highest, values.          *)
LEMMA SumBounds ==
  ASSUME NEW w, NEW t \in Nat, NEW m \in Nat, t <= m, NEW g, IsSum(w, t, m, g),
         NEW lo \in Nat, NEW hi \in Nat,
         \A k \in 1..m : AnyLine!Smallest(w, k) \in lo..hi
  PROVE  g[m] \in Nat /\ lo * (m - t) <= g[m] /\ g[m] <= hi * (m - t)
<1> DEFINE Good(j) == g[j] \in Nat /\ lo * (j - t) <= g[j] /\ g[j] <= hi * (j - t)
           Fails   == {j \in t..m : ~Good(j)}
<1> SUFFICES ASSUME Fails # {}
             PROVE  FALSE
  <2>1. m \in t..m
    OBVIOUS
  <2>2. QED
    BY <2>1
<1>1. PICK b \in Fails : \A y \in Fails : b <= y
  <2>1. Fails \in SUBSET Nat
    OBVIOUS
  <2> HIDE DEF Fails
  <2>2. QED
    BY <2>1, Lowest
<1>2. b \in t..m /\ ~Good(b) /\ b \in 0..m /\ b \in Nat
  BY <1>1
<1>3. CASE b = t
  <2>1. g[b] = 0 /\ b - t = 0
    BY <1>2, <1>3 DEF IsSum
  <2>2. QED
    BY <1>2, <2>1
<1>4. CASE b # t
  <2>1. b - 1 \in t..m /\ ~(b <= b - 1) /\ ~(b <= t) /\ b \in 1..m
    BY <1>2, <1>4
  <2>2. b - 1 \notin Fails
    <3> HIDE DEF Fails
    <3> QED BY <1>1, <2>1
  <2>3. Good(b - 1)
    BY <2>1, <2>2
  <2>4. g[b] = g[b - 1] + AnyLine!Smallest(w, b)
    BY <1>2, <2>1 DEF IsSum
  <2>5. PICK x \in Nat, y \in Nat, d \in Nat :
          x = g[b - 1] /\ y = AnyLine!Smallest(w, b) /\ d = (b - 1) - t
    BY <2>1, <2>3, <1>2
  <2>6. lo <= y /\ y <= hi /\ lo * d <= x /\ x <= hi * d /\ b - t = d + 1 /\ g[b] = x + y
    BY <2>1, <2>3, <2>4, <2>5, <1>2
  <2>7. lo * (d + 1) = lo * d + lo /\ hi * (d + 1) = hi * d + hi
    BY <2>5
  <2>8. lo * d \in Nat /\ hi * d \in Nat
    BY <2>5
  <2>9. x + y \in Nat /\ lo * (d + 1) <= x + y /\ x + y <= hi * (d + 1)
    <3>1. PICK p \in Nat, q \in Nat : p = lo * d /\ q = hi * d
      BY <2>8
    <3>2. p + lo <= x + y /\ x + y <= q + hi
      BY <2>5, <2>6, <3>1
    <3>3. QED
      BY <2>5, <2>7, <3>1, <3>2
  <2>10. QED
    BY <2>6, <2>9, <1>2
<1>5. QED
  BY <1>3, <1>4

(* The mean of what is left after trimming exceeds v when all values do, and *)
(* only if at least one does.                                                *)
LEMMA MeanSays ==
  ASSUME NEW w, FinitelyMany(w), Cardinality(DOMAIN w) # 0, NEW v \in Nat
  PROVE  LET b == AnyLine!TrimmedMean(w)
             c == Cardinality(Above(w, v))
         IN  /\ v * b.den < b.num => c >= 1
             /\ c >= Cardinality(DOMAIN w) => v * b.den < b.num
<1> DEFINE n == Cardinality(DOMAIN w)
           c == Cardinality(Above(w, v))
           b == AnyLine!TrimmedMean(w)
           t == n \div 10
           m == n - t
<1>1. n \in Nat /\ n # 0 /\ c \in Nat /\ n = AnyLine!Cardinality(DOMAIN w)
  BY Counts, AnyCardinality DEF FinitelyMany
<1>2. t \in Nat /\ m \in Nat /\ t <= m /\ m <= n /\ m - t = n - 2 * t /\ m - t \in Nat /\ m - t > 0
  <2> HIDE DEF n
  <2> QED BY <1>1
<1>3. PICK g : IsSum(w, t, m, g) /\ b = [num |-> g[m], den |-> n - 2 * t]
  <2> DEFINE S == CHOOSE sum : IsSum(w, t, m, sum)
  <2>1. b = [num |-> S[m], den |-> n - 2 * t]
    BY AnyCardinality DEF AnyLine!TrimmedMean, IsSum
  <2>2. IsSum(w, t, m, S)
    <3> HIDE DEF t, m
    <3> QED BY SumExists, <1>2
  <2> HIDE DEF S, t, m, n, b
  <2>3. QED
    BY <2>1, <2>2
<1>4. b.num = g[m] /\ b.den = m - t
  <2> HIDE DEF n, t, m, b
  <2> QED BY <1>2, <1>3
<1>5. \A k \in 1..m : k \in Nat /\ 1 <= k /\ k <= n
  <2> HIDE DEF n, t, m
  <2> QED BY <1>1, <1>2
<1> HIDE DEF t, m, b
<1>6. \A k \in 1..m : /\ AnyLine!Smallest(w, k) \in Nat
                      /\ \A u \in Nat : AnyLine!Smallest(w, k) > u
                                          <=> Cardinality(Above(w, u)) >= n - k + 1
  <2> SUFFICES ASSUME NEW k \in 1..m, NEW u \in Nat
               PROVE  /\ AnyLine!Smallest(w, k) \in Nat
                      /\ AnyLine!Smallest(w, k) > u <=> Cardinality(Above(w, u)) >= n - k + 1
    OBVIOUS
  <2>1. k \in Nat /\ 1 <= k /\ k <= Cardinality(DOMAIN w)
    BY <1>5
  <2>2. QED
    BY <2>1, SmallestIs, SmallestExceeds
<1>7. ASSUME v * b.den < b.num
      PROVE  c >= 1
  <2>1. SUFFICES ASSUME c = 0
                 PROVE  FALSE
    <3> HIDE DEF c
    <3> QED BY <1>1
  <2>2. \A k \in 1..m : AnyLine!Smallest(w, k) \in 0..v
    <3> SUFFICES ASSUME NEW k \in 1..m
                 PROVE  AnyLine!Smallest(w, k) \in 0..v
      OBVIOUS
    <3>1. AnyLine!Smallest(w, k) \in Nat /\ (AnyLine!Smallest(w, k) > v <=> c >= n - k + 1)
      BY <1>6
    <3> HIDE DEF c, n
    <3>2. QED
      BY <3>1, <2>1, <1>5, <1>1
  <2>3. g[m] \in Nat /\ g[m] <= v * (m - t)
    BY <2>2, <1>2, <1>3, SumBounds
  <2>4. v * (m - t) \in Nat
    BY <1>2
  <2>5. QED
    BY <2>3, <2>4, <1>4, <1>7
<1>8. ASSUME c >= n
      PROVE  v * b.den < b.num
  <2>1. PICK j \in DOMAIN w : \A i \in DOMAIN w : w[i] <= w[j]
    <3>1. DOMAIN w # {}
      BY <1>1, FS_EmptySet
    <3>2. QED
      BY <3>1, Greatest
  <2>2. PICK hi \in Nat : hi = w[j]
    BY DEF FinitelyMany
  <2>3. Above(w, hi) = {}
    BY <2>1, <2>2 DEF Above, FinitelyMany
  <2>4. Cardinality(Above(w, hi)) = 0
    BY <2>3, FS_EmptySet
  <2>5. \A k \in 1..m : AnyLine!Smallest(w, k) \in (v + 1)..hi
    <3> SUFFICES ASSUME NEW k \in 1..m
                 PROVE  AnyLine!Smallest(w, k) \in (v + 1)..hi
      OBVIOUS
    <3>1. PICK x \in Nat : x = AnyLine!Smallest(w, k)
      BY <1>6
    <3>2. (x > v <=> c >= n - k + 1) /\ (x > hi <=> 0 >= n - k + 1)
      BY <1>6, <2>4, <3>1
    <3> HIDE DEF c, n
    <3>3. x > v /\ ~(x > hi)
      BY <3>2, <1>1, <1>5, <1>8
    <3>4. QED
      BY <3>1, <3>3
  <2>6. v + 1 \in Nat
    OBVIOUS
  <2>7. g[m] \in Nat /\ (v + 1) * (m - t) <= g[m]
    BY <2>5, <2>6, <1>2, <1>3, SumBounds
  <2>8. PICK d \in Nat : d = m - t
    BY <1>2
  <2>9. v * d \in Nat /\ (v + 1) * d = v * d + d /\ d > 0
    BY <2>8, <1>2
  <2>10. QED
    BY <2>7, <2>8, <2>9, <1>4
<1>9. QED
  BY <1>7, <1>8 DEF b

(* The tests that are faster than the double of mbps in direction d, of those *)
(* of the baseline that ends at until, and what is asked of their number.     *)
Base(until)            == AnyLine!Qualifying(until)
Faster(until, mbps, d) == {i \in Base(until) : 2 * mbps[d] < samples[i].mbps[d]}
Least(I)               == IF metric = "median" THEN Cardinality(I) ELSE 2
Enough(I)              == IF metric = "median" THEN Cardinality(I) + 1 ELSE 2 * Cardinality(I)

(* What makes FlagNeedsMajority inductive: samples, scope and metric are what *)
(* the program stores and accepts.                                            *)
FlagInv ==
  /\ samples \in Seq(AnyLine!Sample) /\ scope \subseteq {1, 2}
  /\ metric \in {"median", "trimmed_mean"}
  /\ AnyLine!FlagNeedsMajority

LEMMA BaseFinite ==
  ASSUME samples \in Seq(AnyLine!Sample), Speed \subseteq [{1, 2} -> Nat], NEW until,
         NEW d \in {1, 2}
  PROVE  /\ Base(until) \subseteq 1..Len(samples) /\ IsFiniteSet(Base(until))
         /\ Cardinality(Base(until)) \in Nat
         /\ FinitelyMany(AnyLine!Values(Base(until), d))
         /\ DOMAIN AnyLine!Values(Base(until), d) = Base(until)
<1>1. Base(until) \subseteq 1..Len(samples) /\ Len(samples) \in Nat
  BY DEF Base, AnyLine!Qualifying, AnyLine!Tests
<1>2. IsFiniteSet(Base(until)) /\ Cardinality(Base(until)) \in Nat
  <2>1. IsFiniteSet(1..Len(samples))
    BY <1>1, FS_Interval
  <2>2. IsFiniteSet(Base(until))
    BY <1>1, <2>1, FS_Subset
  <2>3. QED
    BY <2>2, FS_CardinalityType
<1>3. \A i \in Base(until) : samples[i].mbps[d] \in Nat
  <2> SUFFICES ASSUME NEW i \in Base(until)
               PROVE  samples[i].mbps[d] \in Nat
    OBVIOUS
  <2>1. samples[i] \in AnyLine!Sample
    BY <1>1
  <2>2. samples[i].mbps \in Speed \/ samples[i].mbps = <<0, 0>>
    BY <2>1 DEF AnyLine!Sample
  <2>3. CASE samples[i].mbps \in Speed
    BY <2>3
  <2>4. CASE samples[i].mbps = <<0, 0>>
    BY <2>4
  <2>5. QED
    BY <2>2, <2>3, <2>4
<1>4. QED
  <2> DEFINE w == AnyLine!Values(Base(until), d)
  <2>1. w = [i \in Base(until) |-> samples[i].mbps[d]]
    BY DEF AnyLine!Values
  <2> HIDE DEF w
  <2>2. FinitelyMany(w) /\ DOMAIN w = Base(until)
    BY <2>1, <1>2, <1>3 DEF FinitelyMany
  <2>3. QED
    BY <2>2, <1>1, <1>2 DEF w

(* The flag of a test is decided by most of the tests that count.            *)
LEMMA MajorityDecides ==
  ASSUME FlagInv, Speed \subseteq [{1, 2} -> Nat], NEW mbps \in Speed
  PROVE  LET I    == Base(Len(samples) + 1)
             F(d) == Cardinality(Faster(Len(samples) + 1, mbps, d))
             full == Cardinality(I) >= MinSamples
         IN  /\ AnyLine!Derated(mbps, TRUE) => full /\ \E d \in scope : 2 * F(d) >= Least(I)
             /\ full /\ (\E d \in scope : 2 * F(d) >= Enough(I)) => AnyLine!Derated(mbps, TRUE)
<1> DEFINE until == Len(samples) + 1
           I     == Base(until)
           w(d)  == AnyLine!Values(I, d)
           F(d)  == Cardinality(Faster(until, mbps, d))
           full  == Cardinality(I) >= MinSamples
           b(d)  == IF metric = "trimmed_mean" THEN AnyLine!TrimmedMean(w(d))
                    ELSE AnyLine!Median(w(d))
           Slow(d) == 2 * mbps[d] * b(d).den < b(d).num
<1>1. Cardinality(I) \in Nat /\ MinSamples \in Nat \ {0} /\ scope \subseteq {1, 2}
      /\ samples \in Seq(AnyLine!Sample) /\ metric \in {"median", "trimmed_mean"}
  <2>1. scope \subseteq {1, 2} /\ samples \in Seq(AnyLine!Sample)
        /\ metric \in {"median", "trimmed_mean"}
    BY DEF FlagInv
  <2>2. Cardinality(Base(until)) \in Nat
    BY <2>1, BaseFinite
  <2>3. QED
    BY <2>1, <2>2
<1>2. AnyLine!Derated(mbps, TRUE) <=> full /\ \E d \in scope : Slow(d)
  <2>1. AnyLine!Direction = {1, 2} /\ AnyLine!Cardinality(I) = Cardinality(I)
    BY AnyCardinality DEF AnyLine!Direction
  <2>2. CASE full
    <3> DEFINE f == [d \in {1, 2} |-> b(d)]
    <3>1. AnyLine!ComputeBandwidthBaseline(until) = {f}
      BY <2>1, <2>2, <1>1 DEF AnyLine!ComputeBandwidthBaseline, Base
    <3>2. \A d \in scope : f[d] = b(d)
      <4> HIDE DEF b
      <4> QED BY <1>1
    <3> HIDE DEF f, b
    <3>3. AnyLine!Derated(mbps, TRUE) <=> \E d \in scope : 2 * mbps[d] * f[d].den < f[d].num
      BY <3>1 DEF AnyLine!Derated
    <3>4. QED
      BY <3>2, <3>3, <2>2
  <2>3. CASE ~full
    <3>1. AnyLine!ComputeBandwidthBaseline(until) = {}
      BY <2>1, <2>3, <1>1 DEF AnyLine!ComputeBandwidthBaseline, Base
    <3>2. QED
      BY <3>1, <2>3 DEF AnyLine!Derated
  <2>4. QED
    BY <2>2, <2>3
<1>3. ASSUME full, NEW d \in scope
      PROVE  /\ Slow(d) => 2 * F(d) >= Least(I)
             /\ 2 * F(d) >= Enough(I) => Slow(d)
  <2>1. d \in {1, 2} /\ mbps[d] \in Nat
    BY <1>1
  <2>2. PICK v \in Nat : v = 2 * mbps[d]
    BY <2>1
  <2>3. FinitelyMany(w(d)) /\ DOMAIN w(d) = I /\ Cardinality(DOMAIN w(d)) # 0
    BY <2>1, <1>1, <1>3, BaseFinite
  <2>4. Faster(until, mbps, d) = Above(w(d), v)
    <3>1. \A i \in I : w(d)[i] = samples[i].mbps[d] /\ w(d)[i] \in Nat
      BY <2>3 DEF AnyLine!Values, FinitelyMany
    <3>2. QED
      <4> HIDE DEF w
      <4> QED BY <3>1, <2>2, <2>3 DEF Faster, Above
  <2>5. F(d) \in Nat
    BY <2>3, <2>4, Counts
  <2>6. CASE metric = "median"
    <3>1. LET m == AnyLine!Median(w(d)) IN
          /\ v * m.den < m.num => 2 * F(d) >= Cardinality(I)
          /\ 2 * F(d) >= Cardinality(I) + 1 => v * m.den < m.num
      <4> HIDE DEF w
      <4> QED BY <2>3, <2>4, MedianSays
    <3>2. b(d) = AnyLine!Median(w(d))
      BY <2>6
    <3> HIDE DEF b, w, F
    <3>3. QED
      BY <3>1, <3>2, <2>2, <2>6 DEF Least, Enough
  <2>7. CASE metric = "trimmed_mean"
    <3>1. LET m == AnyLine!TrimmedMean(w(d)) IN
          /\ v * m.den < m.num => F(d) >= 1
          /\ F(d) >= Cardinality(I) => v * m.den < m.num
      <4> HIDE DEF w
      <4> QED BY <2>3, <2>4, MeanSays
    <3>2. b(d) = AnyLine!TrimmedMean(w(d))
      BY <2>7
    <3> HIDE DEF b, w, F
    <3>3. /\ Slow(d) => F(d) >= 1
          /\ F(d) >= Cardinality(I) => Slow(d)
      BY <3>1, <3>2, <2>2
    <3> HIDE DEF Slow
    <3>4. QED
      BY <3>3, <2>5, <2>7, <1>1 DEF Least, Enough
  <2>8. QED
    BY <2>6, <2>7, <1>1
<1>4. QED
  <2> HIDE DEF Slow, F, full, I
  <2>1. /\ AnyLine!Derated(mbps, TRUE) => full /\ \E d \in scope : 2 * F(d) >= Least(I)
        /\ full /\ (\E d \in scope : 2 * F(d) >= Enough(I)) => AnyLine!Derated(mbps, TRUE)
    BY <1>2, <1>3
  <2>2. QED
    BY <2>1 DEF F, full, I

(* A further test is one the baseline before it does not have.               *)
LEMMA BaseKept ==
  ASSUME samples \in Seq(AnyLine!Sample), NEW x \in AnyLine!Sample, samples' = Append(samples, x)
  PROVE  \E n \in Nat \ {0} : /\ n = Len(samples) + 1 /\ Len(samples') = n /\ samples'[n] = x
                              /\ (AnyLine!Qualifying(n))' \ {n} = Base(n)
                              /\ \A i \in Base(n) : samples'[i] = samples[i]
<1>1. /\ Len(samples') = Len(samples) + 1 /\ Len(samples) \in Nat
      /\ samples'[Len(samples) + 1] = x
      /\ \A i \in 1..Len(samples) : samples'[i] = samples[i]
  OBVIOUS
<1>2. PICK n \in Nat \ {0} : n = Len(samples) + 1
  BY <1>1
<1>3. 1..Len(samples') = (1..Len(samples)) \cup {n} /\ n \notin 1..Len(samples)
  BY <1>1, <1>2
<1>4. (AnyLine!Qualifying(n))' \ {n} = Base(n)
  BY <1>1, <1>3 DEF AnyLine!Qualifying, Base, AnyLine!Tests
<1>5. Base(n) \subseteq 1..Len(samples)
  BY DEF Base, AnyLine!Qualifying, AnyLine!Tests
<1>6. QED
  BY <1>1, <1>2, <1>4, <1>5

LEMMA FlagTest ==
  ASSUME FlagInv, Speed \subseteq [{1, 2} -> Nat], NEW mbps \in Speed, NEW got \in BOOLEAN,
         AnyLine!RecordTest(mbps, got)
  PROVE  FlagInv'
<1> DEFINE x == [ok |-> TRUE, mbps |-> mbps, flag |-> AnyLine!Derated(mbps, got), read |-> got]
<1>1. /\ samples \in Seq(AnyLine!Sample) /\ x \in AnyLine!Sample /\ samples' = Append(samples, x)
      /\ UNCHANGED <<scope, metric>>
  <2>1. AnyLine!Derated(mbps, got) \in BOOLEAN
    BY DEF AnyLine!Derated
  <2>2. QED
    BY <2>1 DEF FlagInv, AnyLine!RecordTest, AnyLine!Sample
<1>2. PICK n \in Nat \ {0} :
        /\ n = Len(samples) + 1 /\ Len(samples') = n /\ samples'[n] = x
        /\ (AnyLine!Qualifying(n))' \ {n} = Base(n)
        /\ \A i \in Base(n) : samples'[i] = samples[i]
  <2> HIDE DEF x
  <2> QED BY <1>1, BaseKept
<1>3. samples' \in Seq(AnyLine!Sample) /\ scope' \subseteq {1, 2}
      /\ metric' \in {"median", "trimmed_mean"}
  <2> HIDE DEF x
  <2> QED BY <1>1 DEF FlagInv
<1>4. AnyLine!FlagNeedsMajority'
  <2>1. AnyLine!LatestBandwidthSample' = samples'[n] /\ x.read = got /\ x.mbps = mbps
        /\ (x.flag <=> AnyLine!Derated(mbps, got))
    BY <1>2 DEF AnyLine!LatestBandwidthSample, AnyLine!Last
  <2>2. SUFFICES ASSUME got = TRUE
                 PROVE  AnyLine!FlagNeedsMajority'
    <3> HIDE DEF x
    <3>1. got = FALSE => ~AnyLine!LatestBandwidthSample'.read
      BY <2>1, <1>2
    <3>2. got = FALSE => AnyLine!FlagNeedsMajority'
      BY <3>1 DEF AnyLine!FlagNeedsMajority
    <3>3. QED
      BY <3>2
  <2>3. \A d : {i \in Base(n) : 2 * samples'[n].mbps[d] < samples'[i].mbps[d]}
                 = Faster(n, mbps, d)
    <3> HIDE DEF x
    <3> QED BY <1>2, <2>1 DEF Faster
  <2>4. LET F(d) == Cardinality(Faster(n, mbps, d))
            full == Cardinality(Base(n)) >= MinSamples
        IN  /\ AnyLine!Derated(mbps, got) => full /\ \E d \in scope : 2 * F(d) >= Least(Base(n))
            /\ full /\ (\E d \in scope : 2 * F(d) >= Enough(Base(n))) => AnyLine!Derated(mbps, got)
    BY <1>2, <2>2, MajorityDecides
  <2>5. /\ Least(Base(n)) = IF metric' = "median" THEN Cardinality(Base(n)) ELSE 2
        /\ Enough(Base(n)) = IF metric' = "median" THEN Cardinality(Base(n)) + 1
                             ELSE 2 * Cardinality(Base(n))
        /\ scope' = scope
    BY <1>1 DEF Least, Enough
  <2> HIDE DEF x
  <2>6. (AnyLine!Qualifying(Len(samples)))' \ {Len(samples')} = Base(n)
    <3>1. (AnyLine!Qualifying(Len(samples)))' = (AnyLine!Qualifying(n))'
      BY <1>2 DEF AnyLine!Qualifying, AnyLine!Tests
    <3>2. QED
      BY <1>2, <3>1
  <2>7. /\ samples'[n].flag =>
             /\ Cardinality(Base(n)) >= MinSamples
             /\ \E d \in scope : 2 * Cardinality(Faster(n, mbps, d)) >= Least(Base(n))
        /\ /\ Cardinality(Base(n)) >= MinSamples
           /\ \E d \in scope : 2 * Cardinality(Faster(n, mbps, d)) >= Enough(Base(n))
           => samples'[n].flag
    BY <1>2, <2>1, <2>4
  <2>8. AnyLine!FlagNeedsMajority'
             <=> (samples' # <<>> /\ samples'[n].read =>
                    LET I    == Base(n)
                        G(d) == Cardinality({i \in I : 2 * samples'[n].mbps[d] < samples'[i].mbps[d]})
                        l    == IF metric' = "median" THEN Cardinality(I) ELSE 2
                        e    == IF metric' = "median" THEN Cardinality(I) + 1 ELSE 2 * Cardinality(I)
                        full == Cardinality(I) >= MinSamples
                    IN  /\ samples'[n].flag => full /\ \E d \in scope' : 2 * G(d) >= l
                        /\ full /\ (\E d \in scope' : 2 * G(d) >= e) => samples'[n].flag)
    BY <1>2, <2>1, <2>6, AnyCardinality DEF AnyLine!FlagNeedsMajority
  <2>9. QED
    BY <2>3, <2>5, <2>7, <2>8
<1>5. QED
  BY <1>3, <1>4 DEF FlagInv

(* A test is flagged for being slower than half of what at least half of the *)
(* tests that count measured, and it is flagged when more than half of them  *)
(* say so; with the mean, one is needed and all suffice (derated, median,    *)
(* trimmedMean): for any speeds, window, floor and number of tests.          *)
THEOREM OutliersDoNotDecide ==
  Speed \subseteq [{1, 2} -> Nat] => (AnyLine!Spec => []FlagNeedsMajority)
<1> SUFFICES ASSUME Speed \subseteq [{1, 2} -> Nat]
             PROVE  AnyLine!Spec => []FlagNeedsMajority
  OBVIOUS
<1>1. AnyLine!Init => FlagInv
  BY DEF AnyLine!Init, AnyLine!Direction, FlagInv, AnyLine!FlagNeedsMajority
<1>2. FlagInv /\ [AnyLine!Next]_(AnyLine!vars) => FlagInv'
  <2> SUFFICES ASSUME FlagInv, [AnyLine!Next]_(AnyLine!vars)
               PROVE  FlagInv'
    OBVIOUS
  <2>1. ASSUME NEW mbps \in Speed, NEW got \in BOOLEAN, AnyLine!RecordTest(mbps, got)
        PROVE  FlagInv'
    BY <2>1, FlagTest
  <2>2. CASE AnyLine!RecordFailure
    <3> DEFINE x == [ok |-> FALSE, mbps |-> <<0, 0>>, flag |-> FALSE, read |-> FALSE]
    <3>1. /\ samples \in Seq(AnyLine!Sample) /\ x \in AnyLine!Sample /\ samples' = Append(samples, x)
          /\ UNCHANGED <<scope, metric>> /\ ~x.read
      BY <2>2 DEF FlagInv, AnyLine!RecordFailure, AnyLine!Sample
    <3> HIDE DEF x
    <3>2. samples' \in Seq(AnyLine!Sample) /\ AnyLine!LatestBandwidthSample' = x
      BY <3>1 DEF AnyLine!LatestBandwidthSample, AnyLine!Last
    <3>3. AnyLine!FlagNeedsMajority'
      BY <3>1, <3>2 DEF AnyLine!FlagNeedsMajority
    <3>4. QED
      BY <3>1, <3>2, <3>3 DEF FlagInv
  <2>3. ASSUME UNCHANGED <<samples, scope, metric>>
        PROVE  FlagInv'
    BY <2>3 DEF FlagInv, AnyLine!FlagNeedsMajority, AnyLine!LatestBandwidthSample, AnyLine!Last,
                AnyLine!Qualifying, AnyLine!Tests
  <2>4. QED
    BY <2>1, <2>2, <2>3
       DEF AnyLine!Next, AnyLine!ClearDismissal, AnyLine!HandleBandwidthDerateStatus,
           AnyLine!Dismiss, AnyLine!HandleDismissal, AnyLine!vars
<1>3. FlagInv => FlagNeedsMajority
  <2>1. \A S : AnyLine!Cardinality(S) = Line!Cardinality(S)
    BY DEF AnyLine!Cardinality, Line!Cardinality
  <2>2. \A until : AnyLine!Qualifying(until) = Line!Qualifying(until)
    BY SameLine DEF AnyLine!Qualifying, Line!Qualifying, AnyLine!Direction, Line!Direction
  <2>3. AnyLine!LatestBandwidthSample = Line!LatestBandwidthSample
    BY DEF AnyLine!LatestBandwidthSample, Line!LatestBandwidthSample, AnyLine!Last, Line!Last
  <2>4. QED
    BY <2>1, <2>2, <2>3
       DEF FlagInv, FlagNeedsMajority, AnyLine!FlagNeedsMajority, Line!FlagNeedsMajority
<1>4. QED
  BY <1>1, <1>2, <1>3, PTL DEF AnyLine!Spec

-----------------------------------------------------------------------------
(* ProbeUpdate, with any requests and any faults.                            *)

CONSTANT Ops

Rollouts == INSTANCE ProbeUpdate

LEMMA SomeProbe == Rollouts!AnyProbe \in Probe /\ 0 \in Rollouts!Version
BY DEF Rollouts!AnyProbe, Rollouts!Version

LEMMA LineInit == Rollouts!Init => Rollouts!LineInv
<1> SUFFICES ASSUME Rollouts!Init
             PROVE  Rollouts!LineInv
  OBVIOUS
<1> USE SomeProbe DEF Rollouts!Init
<1>1. Rollouts!FleetType
  BY DEF Rollouts!FleetType
<1>2. Rollouts!BeatInv
  BY DEF Rollouts!BeatInv, Rollouts!RowState
<1>3. Rollouts!RowInv
  BY DEF Rollouts!RowInv, Rollouts!RowState
<1>4. Rollouts!RollInv
  BY DEF Rollouts!RollInv
<1>5. QED
  BY <1>1, <1>2, <1>3, <1>4 DEF Rollouts!LineInv

LEMMA LineFleet ==
  ASSUME Rollouts!LineInv, [Rollouts!Next]_(Rollouts!vars)
  PROVE  Rollouts!FleetType' /\ bad' = bad /\ (latest # 0 => latest' # 0)
<1> USE DEF Rollouts!LineInv, Rollouts!FleetType
<1>0. UNCHANGED <<latest, bad, seen, registered, running, disk, ucmd, backup>>
        => Rollouts!FleetType' /\ bad' = bad /\ (latest # 0 => latest' # 0)
  OBVIOUS
<1>1. ASSUME NEW b \in Beat, Rollouts!HandleIngestHeartbeat(b)
      PROVE  Rollouts!FleetType' /\ bad' = bad /\ latest' = latest
  BY <1>1 DEF Rollouts!HandleIngestHeartbeat, Rollouts!UpsertProbeHeartbeat, Rollouts!BeatInv,
              Rollouts!probeVars
<1>2. ASSUME NEW b \in Beat, Rollouts!OnCommand(b)
      PROVE  Rollouts!FleetType' /\ bad' = bad /\ latest' = latest
  BY <1>2 DEF Rollouts!OnCommand, Rollouts!BeatInv, Rollouts!tableVars
<1>3. ASSUME NEW p \in Probe,
             \/ Rollouts!Apply(p) \/ Rollouts!SetcapFails(p) \/ Rollouts!RestartFails(p)
             \/ Rollouts!ProbeCrash(p)
      PROVE  Rollouts!FleetType' /\ bad' = bad /\ latest' = latest
  <2> USE SomeProbe DEF Rollouts!tableVars
  <2>1. CASE Rollouts!ReportApplying(p) \/ Rollouts!ApplyFails(p)
    BY <2>1 DEF Rollouts!ReportApplying, Rollouts!ApplyFails
  <2>2. CASE Rollouts!Install(p)
    BY <2>2 DEF Rollouts!Install
  <2>3. CASE Rollouts!SetcapFails(p)
    BY <2>3 DEF Rollouts!SetcapFails
  <2>4. CASE Rollouts!RestartFails(p)
    BY <2>4 DEF Rollouts!RestartFails
  <2>5. CASE Rollouts!NewProcess(p)
    BY <2>5 DEF Rollouts!NewProcess
  <2>6. QED
    BY <1>3, <2>1, <2>2, <2>3, <2>4, <2>5 DEF Rollouts!Apply, Rollouts!Restart, Rollouts!ProbeCrash
<1>4. ASSUME NEW p \in Probe, Rollouts!ForgetProbe(p)
      PROVE  Rollouts!FleetType' /\ bad' = bad /\ latest' = latest
  BY <1>4 DEF Rollouts!ForgetProbe, Rollouts!DeleteProbe, Rollouts!probeVars
<1>5. CASE Rollouts!Release
  BY <1>5 DEF Rollouts!Release, Rollouts!Version, Rollouts!probeVars
<1>6. CASE UNCHANGED <<latest, bad, seen, registered, running, disk, ucmd, backup>>
  BY <1>0, <1>6
<1>7. \/ \E b \in Beat : Rollouts!HandleIngestHeartbeat(b) \/ Rollouts!OnCommand(b)
      \/ \E p \in Probe : \/ Rollouts!Apply(p) \/ Rollouts!SetcapFails(p)
                          \/ Rollouts!RestartFails(p) \/ Rollouts!ProbeCrash(p)
                          \/ Rollouts!ForgetProbe(p)
      \/ Rollouts!Release
      \/ UNCHANGED <<latest, bad, seen, registered, running, disk, ucmd, backup>>
  BY DEF Rollouts!Next, Rollouts!vars, Rollouts!tableVars, Rollouts!probeVars, Rollouts!Heartbeat,
         Rollouts!HandleUpdateStatus, Rollouts!StatusLost, Rollouts!CommandUpdate,
         Rollouts!CancelUpdate, Rollouts!Handler, Rollouts!HeartbeatUpdateFor, Rollouts!BeatLost,
         Rollouts!FinishRequest, Rollouts!CommandFails, Rollouts!Rollout, Rollouts!RolloutWrite,
         Rollouts!RolloutPoll, Rollouts!RolloutGivesUp, Rollouts!RolloutCommand,
         Rollouts!StartRollout, Rollouts!Clock, Rollouts!CentralRestart
<1>8. QED
  BY <1>1, <1>2, <1>3, <1>4, <1>5, <1>6, <1>7

(* Only a build that runs reports its version.                               *)
LEMMA LineBeats ==
  ASSUME Rollouts!LineInv, [Rollouts!Next]_(Rollouts!vars)
  PROVE  Rollouts!BeatInv'
<1> USE DEF Rollouts!LineInv
<1>b. bad' = bad /\ 0 \in Rollouts!Version /\ Rollouts!AnyProbe \in Probe
      /\ 0 \notin bad /\ "none" \in Rollouts!RowState
  BY LineFleet, SomeProbe DEF Rollouts!FleetType, Rollouts!RowState
<1>1. ASSUME NEW p \in Probe, NEW b \in Beat, Rollouts!Heartbeat(p, b)
      PROVE  Rollouts!BeatInv'
  <2>1. running[p] \in Rollouts!Version /\ running[p] \notin bad
    BY <1>1 DEF Rollouts!Heartbeat, Rollouts!LoopFree, Rollouts!FleetType
  <2>2. QED
    BY <1>1, <1>b, <2>1 DEF Rollouts!Heartbeat, Rollouts!SetBeat, Rollouts!BeatInv
<1>2. ASSUME NEW b \in Beat, Rollouts!HandleIngestHeartbeat(b)
      PROVE  Rollouts!BeatInv'
  BY <1>2, <1>b DEF Rollouts!HandleIngestHeartbeat, Rollouts!SetBeat, Rollouts!GetProbeUpdate,
                    Rollouts!BeatInv, Rollouts!RowInv
<1>3. ASSUME NEW b \in Beat, Rollouts!HeartbeatUpdateFor(b)
      PROVE  Rollouts!BeatInv'
  <2>1. PICK c \in {0, btarget[b]} : bcmd' = [bcmd EXCEPT ![b] = c]
    BY <1>3 DEF Rollouts!HeartbeatUpdateFor, Rollouts!SetBeat
  <2>2. c \in Rollouts!Version
    BY <2>1, <1>b DEF Rollouts!BeatInv
  <2>3. UNCHANGED <<bprobe, bver, bseen, btarget>>
    BY <1>3 DEF Rollouts!HeartbeatUpdateFor
  <2>4. QED
    BY <2>1, <2>2, <2>3, <1>b DEF Rollouts!BeatInv
<1>4. ASSUME NEW b \in Beat, Rollouts!FreeBeat(b)
      PROVE  Rollouts!BeatInv'
  BY <1>4, <1>b DEF Rollouts!FreeBeat, Rollouts!BeatInv
<1>5. CASE Rollouts!CentralRestart
  BY <1>5, <1>b DEF Rollouts!CentralRestart, Rollouts!BeatInv
<1>6. CASE UNCHANGED <<bprobe, bver, bseen, btarget, bcmd>>
  BY <1>6, <1>b DEF Rollouts!BeatInv
<1>7. \/ \E b \in Beat : \/ Rollouts!HandleIngestHeartbeat(b) \/ Rollouts!HeartbeatUpdateFor(b)
                         \/ Rollouts!FreeBeat(b)
      \/ \E p \in Probe, b \in Beat : Rollouts!Heartbeat(p, b)
      \/ Rollouts!CentralRestart
      \/ UNCHANGED <<bprobe, bver, bseen, btarget, bcmd>>
  BY DEF Rollouts!Next, Rollouts!vars, Rollouts!beatVars, Rollouts!Apply, Rollouts!ReportApplying,
         Rollouts!ApplyFails, Rollouts!Install, Rollouts!SetcapFails, Rollouts!RestartFails,
         Rollouts!Restart, Rollouts!ProbeCrash, Rollouts!NewProcess,
         Rollouts!HandleUpdateStatus, Rollouts!StatusLost, Rollouts!CommandUpdate,
         Rollouts!CancelUpdate, Rollouts!ForgetProbe, Rollouts!Handler, Rollouts!OnCommand,
         Rollouts!BeatLost, Rollouts!FinishRequest, Rollouts!CommandFails, Rollouts!Rollout,
         Rollouts!RolloutWrite, Rollouts!RolloutPoll, Rollouts!RolloutGivesUp,
         Rollouts!RolloutCommand, Rollouts!StartRollout, Rollouts!Release, Rollouts!Clock
<1>8. QED
  BY <1>1, <1>2, <1>3, <1>4, <1>5, <1>6, <1>7

(* A row is applied only on the report of a release that runs.               *)
LEMMA LineRows ==
  ASSUME Rollouts!LineInv, [Rollouts!Next]_(Rollouts!vars)
  PROVE  Rollouts!RowInv'
<1> USE DEF Rollouts!LineInv
<1>b. bad' = bad /\ 0 \in Rollouts!Version
  BY LineFleet, SomeProbe
<1>s. ASSUME NEW p \in Probe, NEW st \in Rollouts!RowState, Rollouts!SetProbeUpdateState(p, st),
             st = "applied" => Rollouts!SomeRuns
      PROVE  Rollouts!RowInv'
  BY <1>s, <1>b DEF Rollouts!SetProbeUpdateState, Rollouts!RowInv, Rollouts!SomeRuns,
                    Rollouts!RowState, Rollouts!rowVars
<1>c. ASSUME NEW p \in Probe, NEW v \in Rollouts!Version, v # 0, Rollouts!CommandProbeUpdate(p, v)
      PROVE  Rollouts!RowInv'
  BY <1>c, <1>b DEF Rollouts!CommandProbeUpdate, Rollouts!RowInv, Rollouts!SomeRuns,
                    Rollouts!RowState
<1>e. ASSUME NEW p \in Probe, Rollouts!ClearProbeUpdate(p)
      PROVE  Rollouts!RowInv'
  BY <1>e, <1>b DEF Rollouts!ClearProbeUpdate, Rollouts!RowInv, Rollouts!SomeRuns,
                    Rollouts!RowState
<1>u. CASE UNCHANGED <<upd, target>>
  BY <1>u, <1>b DEF Rollouts!RowInv, Rollouts!SomeRuns
<1>1. ASSUME NEW b \in Beat, Rollouts!HeartbeatUpdateFor(b)
      PROVE  Rollouts!RowInv'
  <2> DEFINE p == bprobe[b]
  <2>p. p \in Probe /\ {"applied", "failed"} \subseteq Rollouts!RowState
    BY DEF Rollouts!BeatInv, Rollouts!RowState
  <2>1. CASE Rollouts!Succeeded(b) /\ Rollouts!SetProbeUpdateState(p, "applied")
    <3>1. bver[b] # 0 /\ bver[b] \in Rollouts!Version /\ bver[b] \notin bad
      BY <2>1 DEF Rollouts!Succeeded, Rollouts!BeatInv
    <3>2. bver[b] \in 1..MaxVersion
      BY <3>1 DEF Rollouts!Version
    <3>3. Rollouts!SomeRuns
      BY <3>1, <3>2 DEF Rollouts!SomeRuns
    <3>4. QED
      BY <2>1, <2>p, <3>3, <1>s
  <2>2. CASE Rollouts!SetProbeUpdateState(p, "failed")
    BY <2>2, <2>p, <1>s
  <2>3. CASE Rollouts!CountDelivery(p)
    BY <2>3, <2>p, <1>b DEF Rollouts!CountDelivery, Rollouts!RowInv, Rollouts!SomeRuns
  <2>4. CASE UNCHANGED Rollouts!rowVars
    BY <2>4, <1>u DEF Rollouts!rowVars
  <2>5. QED
    BY <1>1, <2>1, <2>2, <2>3, <2>4 DEF Rollouts!HeartbeatUpdateFor
<1>2. ASSUME NEW p \in Probe, NEW r \in Rollouts!Report, Rollouts!HandleUpdateStatus(p, r)
      PROVE  Rollouts!RowInv'
  BY <1>2, <1>s DEF Rollouts!HandleUpdateStatus, Rollouts!Report, Rollouts!RowState
<1>3. CASE Rollouts!FinishRequest
  <2>1. opProbe \in Probe /\ opTarget \in Rollouts!Version /\ (op = "write" => opTarget # 0)
    BY DEF Rollouts!RollInv
  <2>2. CASE op = "write"
    <3>1. Rollouts!CommandProbeUpdate(opProbe, opTarget)
      BY <1>3, <2>2 DEF Rollouts!FinishRequest
    <3>2. QED
      BY <3>1, <2>1, <2>2, <1>c
  <2>3. CASE op # "write"
    <3>1. Rollouts!ClearProbeUpdate(opProbe)
      BY <1>3, <2>3 DEF Rollouts!FinishRequest
    <3>2. QED
      BY <3>1, <2>1, <1>e
  <2>4. QED
    BY <2>2, <2>3
<1>4. CASE Rollouts!RolloutWrite
  <2>1. rcur \in Probe /\ rtarget \in Rollouts!Version /\ rtarget # 0
        /\ Rollouts!CommandProbeUpdate(rcur, rtarget)
    BY <1>4 DEF Rollouts!RolloutWrite, Rollouts!RollInv
  <2>2. QED
    BY <2>1, <1>c
<1>5. CASE Rollouts!RolloutGivesUp
  <2>1. rcur \in Probe /\ Rollouts!SetProbeUpdateState(rcur, "failed")
    BY <1>5 DEF Rollouts!RolloutGivesUp, Rollouts!RollInv
  <2>2. "failed" \in Rollouts!RowState
    BY DEF Rollouts!RowState
  <2>3. QED
    BY <2>1, <2>2, <1>s
<1>6. \/ \E b \in Beat : Rollouts!HeartbeatUpdateFor(b)
      \/ \E p \in Probe, r \in Rollouts!Report : Rollouts!HandleUpdateStatus(p, r)
      \/ Rollouts!FinishRequest \/ Rollouts!RolloutWrite \/ Rollouts!RolloutGivesUp
      \/ UNCHANGED <<upd, target>>
  BY DEF Rollouts!Next, Rollouts!vars, Rollouts!rowVars, Rollouts!Heartbeat, Rollouts!Apply,
         Rollouts!ReportApplying, Rollouts!ApplyFails, Rollouts!Install, Rollouts!SetcapFails,
         Rollouts!RestartFails, Rollouts!Restart, Rollouts!ProbeCrash, Rollouts!NewProcess,
         Rollouts!StatusLost, Rollouts!CommandUpdate, Rollouts!CancelUpdate, Rollouts!ForgetProbe,
         Rollouts!Handler, Rollouts!HandleIngestHeartbeat, Rollouts!OnCommand, Rollouts!BeatLost,
         Rollouts!CommandFails, Rollouts!Rollout, Rollouts!RolloutPoll, Rollouts!RolloutCommand,
         Rollouts!StartRollout, Rollouts!Release, Rollouts!Clock, Rollouts!CentralRestart
<1>7. QED
  BY <1>1, <1>2, <1>3, <1>4, <1>5, <1>6, <1>u

(* The rollout moves on from an applied row only.                            *)
LEMMA LineRolls ==
  ASSUME Rollouts!LineInv, [Rollouts!Next]_(Rollouts!vars)
  PROVE  Rollouts!RollInv'
<1> USE DEF Rollouts!LineInv
<1>b. /\ bad' = bad /\ (latest # 0 => latest' # 0) /\ latest \in Rollouts!Version
      /\ 0 \in Rollouts!Version /\ Rollouts!AnyProbe \in Probe
      /\ \A p \in Probe : seen[p] \in Rollouts!Version
  BY LineFleet, SomeProbe DEF Rollouts!FleetType
<1>n. \A p \in Probe : latest > seen[p] => latest # 0
  BY <1>b DEF Rollouts!Version
<1> USE DEF Rollouts!RollInv, Rollouts!SomeRuns
<1>1. ASSUME NEW p \in Probe,
             Rollouts!CommandUpdate(p) \/ Rollouts!CancelUpdate(p) \/ Rollouts!ForgetProbe(p)
      PROVE  Rollouts!RollInv'
  BY <1>1, <1>b, <1>n DEF Rollouts!CommandUpdate, Rollouts!CancelUpdate, Rollouts!ForgetProbe,
                          Rollouts!Begin, Rollouts!rollVars
<1>2. CASE Rollouts!FinishRequest \/ Rollouts!CommandFails
  BY <1>2, <1>b DEF Rollouts!FinishRequest, Rollouts!CommandFails, Rollouts!rollVars
<1>3. ASSUME NEW C \in SUBSET Probe, Rollouts!StartRollout(C)
      PROVE  Rollouts!RollInv'
  <2>1. latest # 0
    BY <1>3, <1>b DEF Rollouts!StartRollout, Rollouts!Version
  <2>2. QED
    BY <1>3, <1>b, <2>1 DEF Rollouts!StartRollout, Rollouts!opVars
<1>4. ASSUME NEW p \in Probe, Rollouts!RolloutCommand(p)
      PROVE  Rollouts!RollInv'
  BY <1>4, <1>b DEF Rollouts!RolloutCommand, Rollouts!RolloutIdle, Rollouts!opVars
<1>5. CASE Rollouts!RolloutWrite
  BY <1>5, <1>b DEF Rollouts!RolloutWrite, Rollouts!opVars
<1>6. CASE Rollouts!RolloutPoll
  <2>1. rdone' = rdone \/ Rollouts!SomeRuns
    BY <1>6 DEF Rollouts!RolloutPoll, Rollouts!MovesOn, Rollouts!RowInv
  <2>2. /\ rst' \in {"idle", "command", "giveup"} /\ rtodo' \subseteq Probe
        /\ rcur' \in Probe /\ rtarget' \in Rollouts!Version /\ UNCHANGED <<op, opProbe, opTarget, latest>>
    BY <1>6, <1>b DEF Rollouts!RolloutPoll, Rollouts!RolloutIdle, Rollouts!opVars, Rollouts!tableVars
  <2>3. latest # 0
    BY <1>6 DEF Rollouts!RolloutPoll
  <2>4. QED
    BY <2>1, <2>2, <2>3, <1>b
<1>7. CASE Rollouts!RolloutGivesUp
  BY <1>7, <1>b DEF Rollouts!RolloutGivesUp, Rollouts!RolloutIdle, Rollouts!opVars
<1>8. CASE Rollouts!CentralRestart
  BY <1>8, <1>b DEF Rollouts!CentralRestart, Rollouts!RolloutIdle
<1>9. CASE UNCHANGED <<op, opProbe, opTarget, rst, rtodo, rcur, rtarget, rdone>>
  BY <1>9, <1>b
<1>10. \/ \E p \in Probe : \/ Rollouts!CommandUpdate(p) \/ Rollouts!CancelUpdate(p)
                           \/ Rollouts!ForgetProbe(p) \/ Rollouts!RolloutCommand(p)
       \/ Rollouts!FinishRequest \/ Rollouts!CommandFails
       \/ \E C \in SUBSET Probe : Rollouts!StartRollout(C)
       \/ Rollouts!RolloutWrite \/ Rollouts!RolloutPoll \/ Rollouts!RolloutGivesUp
       \/ Rollouts!CentralRestart
       \/ UNCHANGED <<op, opProbe, opTarget, rst, rtodo, rcur, rtarget, rdone>>
  BY DEF Rollouts!Next, Rollouts!vars, Rollouts!opVars, Rollouts!rollVars, Rollouts!Heartbeat,
         Rollouts!Apply, Rollouts!ReportApplying, Rollouts!ApplyFails, Rollouts!Install,
         Rollouts!SetcapFails, Rollouts!RestartFails, Rollouts!Restart, Rollouts!ProbeCrash,
         Rollouts!NewProcess, Rollouts!HandleUpdateStatus, Rollouts!StatusLost, Rollouts!Handler,
         Rollouts!HandleIngestHeartbeat, Rollouts!HeartbeatUpdateFor, Rollouts!OnCommand,
         Rollouts!BeatLost, Rollouts!Rollout, Rollouts!Release, Rollouts!Clock
<1>11. QED
  BY <1>1, <1>2, <1>3, <1>4, <1>5, <1>6, <1>7, <1>8, <1>9, <1>10

(* A failure stops the line (runRollout): with one release, for any number   *)
(* of probes and heartbeats, any requests and any faults, a rollout leaves   *)
(* a probe behind as done only if the build on it runs.                      *)
THEOREM LineStops == MaxVersion = 1 => (Rollouts!Spec => []BadBuildStopsLine)
<1> SUFFICES ASSUME MaxVersion = 1
             PROVE  Rollouts!Spec => []BadBuildStopsLine
  OBVIOUS
<1>1. Rollouts!LineInv => BadBuildStopsLine
  <2> SUFFICES ASSUME Rollouts!LineInv, NEW p \in rdone
               PROVE  disk[p] \notin bad
    BY DEF BadBuildStopsLine, Fleet!BadBuildStopsLine
  <2>1. bad \subseteq 1..1 /\ bad # 1..1
    BY DEF Rollouts!LineInv, Rollouts!FleetType, Rollouts!RollInv, Rollouts!SomeRuns
  <2>2. 1..1 = {1}
    OBVIOUS
  <2>3. QED
    BY <2>1, <2>2
<1>2. Rollouts!LineInv /\ [Rollouts!Next]_(Rollouts!vars) => Rollouts!LineInv'
  BY LineFleet, LineBeats, LineRows, LineRolls DEF Rollouts!LineInv
<1>3. QED
  BY <1>1, <1>2, LineInit, PTL DEF Rollouts!Spec

(* The beats that have read the row of p as pending and will count.          *)
Readers(p) == {b \in Beat : bst[b] = "read" /\ bseen[b] = "pending" /\ bprobe[b] = p}

(* A pending row has been handed out no more often than allowed.  Any other  *)
(* row may still be counted by the beats that read it while it was pending.  *)
Within(p) ==
  IF upd[p] = "pending" THEN deliveries[p] <= MaxDeliveries
  ELSE deliveries[p] + Cardinality(Readers(p)) <= MaxDeliveries + Cardinality(Beat)

DeliveryInv ==
  /\ deliveries \in [Probe -> Nat]
  /\ bst \in [Beat -> {"free", "sent", "read", "reply"}]
  /\ \A p \in Probe : Within(p)

LEMMA ReadersFinite ==
  ASSUME NEW p
  PROVE  /\ IsFiniteSet(Readers(p)) /\ IsFiniteSet(Readers(p)')
         /\ Cardinality(Readers(p)) \in 0..Cardinality(Beat)
         /\ Cardinality(Readers(p)') \in 0..Cardinality(Beat)
         /\ Cardinality(Beat) \in Nat
<1>1. Readers(p) \subseteq Beat /\ Readers(p)' \subseteq Beat
  BY DEF Readers
<1> HIDE DEF Readers
<1>2. IsFiniteSet(Readers(p)) /\ IsFiniteSet(Readers(p)')
      /\ Cardinality(Readers(p)) <= Cardinality(Beat)
      /\ Cardinality(Readers(p)') <= Cardinality(Beat)
  BY <1>1, FS_Subset
<1>3. Cardinality(Readers(p)) \in Nat /\ Cardinality(Readers(p)') \in Nat /\ Cardinality(Beat) \in Nat
  BY <1>2, FS_CardinalityType
<1>4. QED
  BY <1>2, <1>3

(* Nothing is counted, and no beat more has read the row as pending.         *)
LEMMA StaysWithin ==
  ASSUME NEW p \in Probe, Within(p), deliveries[p] \in Nat,
         deliveries'[p] = deliveries[p],
         upd'[p] = upd[p] \/ upd'[p] # "pending", Readers(p)' \subseteq Readers(p)
  PROVE  Within(p)'
<1> DEFINE r == Cardinality(Readers(p))
           s == Cardinality(Readers(p)')
           n == Cardinality(Beat)
<1>1. r \in 0..n /\ s \in 0..n /\ n \in Nat
  BY ReadersFinite
<1>2. s <= r
  BY ReadersFinite, FS_Subset
<1>3. Within(p)' <=> IF upd'[p] = "pending" THEN deliveries'[p] <= MaxDeliveries
                     ELSE deliveries'[p] + s <= MaxDeliveries + n
  BY DEF Within
<1>4. IF upd[p] = "pending" THEN deliveries[p] <= MaxDeliveries
      ELSE deliveries[p] + r <= MaxDeliveries + n
  BY DEF Within
<1> HIDE DEF r, s, n
<1>5. CASE upd[p] = "pending"
  BY <1>1, <1>3, <1>4, <1>5
<1>6. CASE upd[p] # "pending"
  <2>1. upd'[p] # "pending" /\ deliveries[p] + r <= MaxDeliveries + n
    BY <1>4, <1>6
  <2>2. QED
    BY <1>1, <1>2, <1>3, <2>1
<1>7. QED
  BY <1>5, <1>6

(* One of the beats that read the row as pending counts.                     *)
LEMMA CountsWithin ==
  ASSUME NEW p \in Probe, NEW b \in Readers(p), Within(p), deliveries[p] \in Nat,
         deliveries'[p] = deliveries[p] + 1,
         upd'[p] = (IF deliveries[p] + 1 > MaxDeliveries THEN "failed" ELSE upd[p]),
         Readers(p)' \subseteq Readers(p) \ {b}
  PROVE  Within(p)'
<1> DEFINE r == Cardinality(Readers(p))
           s == Cardinality(Readers(p)')
           n == Cardinality(Beat)
<1>1. r \in 0..n /\ s \in 0..n /\ n \in Nat
  BY ReadersFinite
<1>2. s <= r - 1
  <2>1. IsFiniteSet(Readers(p) \ {b}) /\ Cardinality(Readers(p) \ {b}) = r - 1
    BY ReadersFinite, FS_RemoveElement
  <2>2. QED
    BY <2>1, FS_Subset
<1>3. Within(p)' <=> IF upd'[p] = "pending" THEN deliveries'[p] <= MaxDeliveries
                     ELSE deliveries'[p] + s <= MaxDeliveries + n
  BY DEF Within
<1>4. IF upd[p] = "pending" THEN deliveries[p] <= MaxDeliveries
      ELSE deliveries[p] + r <= MaxDeliveries + n
  BY DEF Within
<1> HIDE DEF r, s, n
<1>5. CASE upd[p] = "pending" /\ deliveries[p] + 1 > MaxDeliveries
  <2>1. upd'[p] # "pending" /\ deliveries[p] <= MaxDeliveries
    BY <1>4, <1>5
  <2>2. QED
    BY <1>1, <1>2, <1>3, <2>1
<1>6. CASE upd[p] = "pending" /\ ~(deliveries[p] + 1 > MaxDeliveries)
  BY <1>1, <1>3, <1>6
<1>7. CASE upd[p] # "pending"
  <2>1. upd'[p] # "pending" /\ deliveries[p] + r <= MaxDeliveries + n
    BY <1>4, <1>7
  <2>2. QED
    BY <1>1, <1>2, <1>3, <2>1
<1>8. QED
  BY <1>5, <1>6, <1>7

(* A row written anew starts from nought, whoever has read the old one.      *)
LEMMA FreshWithin ==
  ASSUME NEW p \in Probe, deliveries'[p] = 0
  PROVE  Within(p)'
<1> DEFINE s == Cardinality(Readers(p)')
           n == Cardinality(Beat)
<1>1. s \in 0..n /\ n \in Nat
  BY ReadersFinite
<1>2. Within(p)' <=> IF upd'[p] = "pending" THEN deliveries'[p] <= MaxDeliveries
                     ELSE deliveries'[p] + s <= MaxDeliveries + n
  BY DEF Within
<1> HIDE DEF s, n
<1>3. QED
  BY <1>1, <1>2

LEMMA DeliveryInit == Rollouts!Init => DeliveryInv
<1> SUFFICES ASSUME Rollouts!Init
             PROVE  DeliveryInv
  OBVIOUS
<1>1. deliveries = [p \in Probe |-> 0] /\ upd = [p \in Probe |-> "none"] /\ bst = [b \in Beat |-> "free"]
  BY DEF Rollouts!Init
<1>2. ASSUME NEW p \in Probe
      PROVE  Within(p)
  <2>1. upd[p] # "pending" /\ deliveries[p] = 0
    BY <1>1
  <2>2. Cardinality(Readers(p)) \in 0..Cardinality(Beat) /\ Cardinality(Beat) \in Nat
    BY ReadersFinite
  <2>3. deliveries[p] + Cardinality(Readers(p)) <= MaxDeliveries + Cardinality(Beat)
    BY <2>1, <2>2
  <2>4. QED
    BY <2>1, <2>3 DEF Within
<1>3. QED
  BY <1>1, <1>2 DEF DeliveryInv

(* Whatever the beats do, a row is counted by those alone that have read it. *)
LEMMA DeliveryStep ==
  ASSUME Rollouts!LineInv, DeliveryInv, [Rollouts!Next]_(Rollouts!vars)
  PROVE  DeliveryInv'
<1>i. /\ deliveries \in [Probe -> Nat] /\ bst \in [Beat -> {"free", "sent", "read", "reply"}]
      /\ \A p \in Probe : Within(p)
  BY DEF DeliveryInv
<1>t. /\ upd \in [Probe -> Rollouts!RowState] /\ bprobe \in [Beat -> Probe]
      /\ bseen \in [Beat -> Rollouts!RowState]
  BY DEF Rollouts!LineInv, Rollouts!RowInv, Rollouts!BeatInv
<1>r. /\ opProbe \in Probe /\ rcur \in Probe
  BY DEF Rollouts!LineInv, Rollouts!RollInv
<1>1. ASSUME UNCHANGED <<upd, deliveries>>, bst' \in [Beat -> {"free", "sent", "read", "reply"}],
             \A p \in Probe : Readers(p)' \subseteq Readers(p)
      PROVE  DeliveryInv'
  <2>1. \A p \in Probe : Within(p)'
    BY <1>1, <1>i, StaysWithin
  <2>2. QED
    BY <1>1, <1>i, <2>1 DEF DeliveryInv
(* A row is written, and the beats stay or one of them goes on.              *)
<1>2. ASSUME NEW p \in Probe, NEW st, st # "pending", Rollouts!SetProbeUpdateState(p, st),
             bst' \in [Beat -> {"free", "sent", "read", "reply"}],
             \A q \in Probe : Readers(q)' \subseteq Readers(q)
      PROVE  DeliveryInv'
  <2>1. deliveries' = deliveries /\ (upd' = upd \/ upd' = [upd EXCEPT ![p] = st])
    BY <1>2 DEF Rollouts!SetProbeUpdateState, Rollouts!rowVars
  <2>2. \A q \in Probe : upd'[q] = upd[q] \/ upd'[q] # "pending"
    BY <1>2, <1>t, <2>1
  <2>3. \A q \in Probe : Within(q)'
    BY <1>2, <1>i, <2>1, <2>2, StaysWithin
  <2>4. QED
    BY <1>2, <1>i, <2>1, <2>3 DEF DeliveryInv
<1>3. ASSUME NEW p \in Probe, deliveries' = [deliveries EXCEPT ![p] = 0],
             \A q \in Probe \ {p} : upd'[q] = upd[q], UNCHANGED <<bst, bseen, bprobe>>
      PROVE  DeliveryInv'
  <2>1. \A q \in Probe : Readers(q)' = Readers(q)
    BY <1>3 DEF Readers
  <2>2. Within(p)'
    BY <1>3, <1>i, FreshWithin
  <2>3. ASSUME NEW q \in Probe, q # p
        PROVE  Within(q)'
    <3>1. upd'[q] = upd[q] /\ deliveries'[q] = deliveries[q] /\ deliveries[q] \in Nat
      BY <1>3, <2>3, <1>i
    <3>2. QED
      BY <3>1, <2>1, <1>i, StaysWithin
  <2>4. QED
    BY <1>3, <1>i, <2>2, <2>3 DEF DeliveryInv
<1>4. ASSUME NEW p \in Probe, NEW b \in Beat, Rollouts!Heartbeat(p, b)
      PROVE  DeliveryInv'
  <2>1. /\ UNCHANGED <<upd, deliveries, bseen>> /\ bst' = [bst EXCEPT ![b] = "sent"]
        /\ bprobe' = [bprobe EXCEPT ![b] = p]
    BY <1>4 DEF Rollouts!Heartbeat, Rollouts!SetBeat, Rollouts!rowVars
  <2>2. \A q \in Probe : Readers(q)' \subseteq Readers(q)
    BY <2>1, <1>i, <1>t DEF Readers
  <2>3. QED
    BY <1>1, <1>i, <2>1, <2>2
<1>5. ASSUME NEW b \in Beat, Rollouts!HandleIngestHeartbeat(b)
      PROVE  DeliveryInv'
  <2>p. PICK p \in Probe : p = bprobe[b]
    BY <1>t
  <2>1. /\ UNCHANGED <<upd, deliveries, bprobe>> /\ bst' = [bst EXCEPT ![b] = "read"]
        /\ bseen' = [bseen EXCEPT ![b] = upd[p]]
    BY <1>5, <2>p DEF Rollouts!HandleIngestHeartbeat, Rollouts!SetBeat, Rollouts!GetProbeUpdate, Rollouts!rowVars
  <2>3. \A q \in Probe : q # p \/ upd[p] # "pending" => Readers(q)' \subseteq Readers(q)
    BY <2>1, <2>p, <1>i, <1>t DEF Readers
  <2>4. ASSUME NEW q \in Probe
        PROVE  Within(q)'
    <3>1. CASE q # p \/ upd[p] # "pending"
      BY <3>1, <2>1, <2>3, <1>i, StaysWithin
    <3>2. CASE q = p /\ upd[p] = "pending"
      <4>1. deliveries[q] <= MaxDeliveries
        BY <3>2, <1>i DEF Within
      <4>2. upd'[q] = "pending" /\ deliveries'[q] <= MaxDeliveries
        BY <4>1, <3>2, <2>1
      <4>3. QED
        BY <4>2 DEF Within
    <3>3. QED
      BY <3>1, <3>2
  <2>5. QED
    BY <2>1, <2>4, <1>i DEF DeliveryInv
<1>6. ASSUME NEW b \in Beat, Rollouts!HeartbeatUpdateFor(b)
      PROVE  DeliveryInv'
  <2>p. PICK p \in Probe : p = bprobe[b]
    BY <1>t
  <2>1. /\ bst[b] = "read" /\ bst' = [bst EXCEPT ![b] = "reply"] /\ UNCHANGED <<bprobe, bseen>>
    BY <1>6 DEF Rollouts!HeartbeatUpdateFor, Rollouts!SetBeat
  <2>2. \A q \in Probe : Readers(q)' \subseteq Readers(q) \ {b}
    BY <2>1, <1>i, <1>t DEF Readers
  <2>3. CASE Rollouts!SetProbeUpdateState(p, "applied") \/ Rollouts!SetProbeUpdateState(p, "failed")
    BY <2>3, <2>1, <2>2, <1>2, <1>i
  <2>4. CASE UNCHANGED Rollouts!rowVars
    BY <2>4, <2>1, <2>2, <1>1, <1>i DEF Rollouts!rowVars
  <2>5. CASE bseen[b] = "pending" /\ Rollouts!CountDelivery(p)
    <3>1. /\ deliveries' = [deliveries EXCEPT ![p] = @ + 1]
          /\ upd' = IF deliveries[p] + 1 > MaxDeliveries THEN [upd EXCEPT ![p] = "failed"] ELSE upd
      BY <2>5 DEF Rollouts!CountDelivery, Rollouts!TooMany
    <3>2. b \in Readers(p)
      BY <2>1, <2>5, <2>p DEF Readers
    <3>3. deliveries'[p] = deliveries[p] + 1 /\ deliveries[p] \in Nat
      BY <3>1, <1>i
    <3>4. upd'[p] = (IF deliveries[p] + 1 > MaxDeliveries THEN "failed" ELSE upd[p])
      BY <3>1, <1>t
    <3>5. Within(p)'
      BY <3>2, <3>3, <3>4, <2>2, <1>i, CountsWithin
    <3>6. ASSUME NEW q \in Probe, q # p
          PROVE  Within(q)'
      <4>1. deliveries'[q] = deliveries[q] /\ deliveries[q] \in Nat /\ upd'[q] = upd[q]
        BY <3>1, <3>6, <1>i, <1>t
      <4>2. QED
        BY <4>1, <2>2, <1>i, StaysWithin
    <3>7. deliveries' \in [Probe -> Nat]
      BY <3>1, <1>i
    <3>8. QED
      BY <2>1, <3>5, <3>6, <3>7, <1>i DEF DeliveryInv
  <2>6. QED
    BY <1>6, <2>p, <2>3, <2>4, <2>5 DEF Rollouts!HeartbeatUpdateFor
<1>7. ASSUME NEW b \in Beat, Rollouts!FreeBeat(b), UNCHANGED Rollouts!rowVars
      PROVE  DeliveryInv'
  <2>1. /\ bst' = [bst EXCEPT ![b] = "free"] /\ bprobe' = [bprobe EXCEPT ![b] = Rollouts!AnyProbe]
        /\ bseen' = [bseen EXCEPT ![b] = "none"] /\ UNCHANGED <<upd, deliveries>>
    BY <1>7 DEF Rollouts!FreeBeat, Rollouts!rowVars
  <2>2. \A q \in Probe : Readers(q)' \subseteq Readers(q)
    BY <2>1, <1>i, <1>t DEF Readers
  <2>3. QED
    BY <1>1, <1>i, <2>1, <2>2
<1>8. ASSUME NEW p \in Probe, NEW r \in Rollouts!Report, Rollouts!HandleUpdateStatus(p, r)
      PROVE  DeliveryInv'
  <2>1. r # "pending" /\ Rollouts!SetProbeUpdateState(p, r) /\ UNCHANGED <<bst, bseen, bprobe>>
    BY <1>8 DEF Rollouts!HandleUpdateStatus, Rollouts!Report, Rollouts!beatVars
  <2>2. \A q \in Probe : Readers(q)' \subseteq Readers(q)
    BY <2>1 DEF Readers
  <2>3. QED
    BY <1>2, <1>i, <2>1, <2>2
<1>9. CASE Rollouts!FinishRequest \/ Rollouts!RolloutWrite
  <2>1. UNCHANGED <<bst, bseen, bprobe>>
    BY <1>9 DEF Rollouts!FinishRequest, Rollouts!RolloutWrite, Rollouts!beatVars
  <2>2. PICK p \in Probe : /\ deliveries' = [deliveries EXCEPT ![p] = 0]
                           /\ \/ upd' = [upd EXCEPT ![p] = "none"]
                              \/ upd' = [upd EXCEPT ![p] = "pending"]
    BY <1>9, <1>r DEF Rollouts!FinishRequest, Rollouts!RolloutWrite, Rollouts!CommandProbeUpdate,
                      Rollouts!ClearProbeUpdate
  <2>3. \A q \in Probe \ {p} : upd'[q] = upd[q]
    BY <2>2, <1>t
  <2>4. QED
    BY <1>3, <2>1, <2>2, <2>3
<1>10. CASE Rollouts!RolloutGivesUp
  <2>1. Rollouts!SetProbeUpdateState(rcur, "failed") /\ UNCHANGED <<bst, bseen, bprobe>>
    BY <1>10 DEF Rollouts!RolloutGivesUp, Rollouts!beatVars
  <2>2. \A q \in Probe : Readers(q)' \subseteq Readers(q)
    BY <2>1 DEF Readers
  <2>3. QED
    BY <1>2, <1>i, <1>r, <2>1, <2>2
<1>11. CASE Rollouts!CentralRestart
  <2>1. UNCHANGED <<upd, deliveries>> /\ bst' = [b \in Beat |-> "free"]
    BY <1>11 DEF Rollouts!CentralRestart, Rollouts!rowVars
  <2>2. \A q \in Probe : Readers(q)' \subseteq Readers(q)
    BY <2>1 DEF Readers
  <2>3. QED
    BY <1>1, <2>1, <2>2
<1>12. CASE UNCHANGED <<upd, deliveries, bst, bseen, bprobe>>
  <2>1. \A q \in Probe : Readers(q)' \subseteq Readers(q)
    BY <1>12 DEF Readers
  <2>2. QED
    BY <1>1, <1>12, <1>i, <2>1
<1>13. \/ \E p \in Probe, b \in Beat : Rollouts!Heartbeat(p, b)
       \/ \E b \in Beat : \/ Rollouts!HandleIngestHeartbeat(b) \/ Rollouts!HeartbeatUpdateFor(b)
                          \/ Rollouts!FreeBeat(b) /\ UNCHANGED Rollouts!rowVars
       \/ \E p \in Probe, r \in Rollouts!Report : Rollouts!HandleUpdateStatus(p, r)
       \/ Rollouts!FinishRequest \/ Rollouts!RolloutWrite \/ Rollouts!RolloutGivesUp
       \/ Rollouts!CentralRestart
       \/ UNCHANGED <<upd, deliveries, bst, bseen, bprobe>>
  BY DEF Rollouts!Next, Rollouts!vars, Rollouts!rowVars, Rollouts!beatVars, Rollouts!Apply,
         Rollouts!ReportApplying, Rollouts!ApplyFails, Rollouts!Install, Rollouts!SetcapFails,
         Rollouts!RestartFails, Rollouts!Restart, Rollouts!ProbeCrash, Rollouts!NewProcess,
         Rollouts!StatusLost, Rollouts!CommandUpdate, Rollouts!CancelUpdate, Rollouts!ForgetProbe,
         Rollouts!Handler, Rollouts!OnCommand, Rollouts!BeatLost, Rollouts!CommandFails,
         Rollouts!Rollout, Rollouts!RolloutPoll, Rollouts!RolloutCommand, Rollouts!StartRollout,
         Rollouts!Release, Rollouts!Clock
<1>14. QED
  BY <1>4, <1>5, <1>6, <1>7, <1>8, <1>9, <1>10, <1>11, <1>12, <1>13

(* The ranges LineInv and DeliveryInv leave open.                            *)
ProgressType ==
  /\ ust \in [Probe -> {"idle", "started", "working", "installed"}]
  /\ status \in [Probe -> SUBSET Rollouts!Report]
  /\ blate \in [Beat -> BOOLEAN] /\ bwaits \in [Beat -> BOOLEAN]

TimeType ==
  /\ age \in [Probe -> 0..ApplyTimeout + 1] /\ rwait \in 0..Deadline

RequestType ==
  /\ op \in {"idle", "write", "clear"}
  /\ rst \in {"idle", "command", "write", "poll", "giveup"} /\ rdone \subseteq Probe

LEMMA ProgressStep ==
  ASSUME Rollouts!LineInv, ProgressType, [Rollouts!Next]_(Rollouts!vars)
  PROVE  ProgressType'
<1> USE DEF ProgressType
<1>t. bprobe \in [Beat -> Probe] /\ upd \in [Probe -> Rollouts!RowState]
  BY DEF Rollouts!LineInv, Rollouts!RowInv, Rollouts!BeatInv
<1>1. ASSUME NEW p \in Probe, NEW b \in Beat, Rollouts!Heartbeat(p, b)
      PROVE  ProgressType'
  BY <1>1 DEF Rollouts!Heartbeat, Rollouts!probeVars
<1>2. ASSUME NEW b \in Beat, Rollouts!HandleIngestHeartbeat(b)
      PROVE  ProgressType'
  <2>1. PICK l \in BOOLEAN : blate' = [blate EXCEPT ![b] = l]
    BY <1>2 DEF Rollouts!HandleIngestHeartbeat
  <2>2. QED
    BY <1>2, <2>1 DEF Rollouts!HandleIngestHeartbeat, Rollouts!probeVars
<1>3. ASSUME NEW b \in Beat, Rollouts!OnCommand(b)
      PROVE  ProgressType'
  <2>1. ust' \in [Probe -> {"idle", "started", "working", "installed"}] /\ status' = status
    BY <1>3, <1>t DEF Rollouts!OnCommand
  <2>2. blate' = [blate EXCEPT ![b] = FALSE] /\ bwaits' = [bwaits EXCEPT ![b] = FALSE]
    BY <1>3 DEF Rollouts!OnCommand, Rollouts!FreeBeat
  <2>3. QED
    BY <2>1, <2>2
<1>4. ASSUME NEW b \in Beat, Rollouts!BeatLost(b)
      PROVE  ProgressType'
  <2>1. bwaits' = [bwaits EXCEPT ![b] = FALSE] /\ (blate' = blate \/ blate' = [blate EXCEPT ![b] = FALSE])
    BY <1>4 DEF Rollouts!BeatLost, Rollouts!FreeBeat
  <2>2. QED
    BY <1>4, <2>1 DEF Rollouts!BeatLost, Rollouts!probeVars
<1>5. ASSUME NEW p \in Probe,
             \/ Rollouts!ReportApplying(p) \/ Rollouts!ApplyFails(p) \/ Rollouts!Install(p)
             \/ Rollouts!SetcapFails(p) \/ Rollouts!RestartFails(p)
      PROVE  ProgressType'
  <2>1. ust' \in [Probe -> {"idle", "started", "working", "installed"}] /\ UNCHANGED <<blate, bwaits>>
    BY <1>5 DEF Rollouts!ReportApplying, Rollouts!ApplyFails, Rollouts!Install, Rollouts!SetcapFails,
                Rollouts!RestartFails, Rollouts!Progress, Rollouts!beatVars
  <2>2. status' \in [Probe -> SUBSET Rollouts!Report]
    BY <1>5 DEF Rollouts!ReportApplying, Rollouts!ApplyFails, Rollouts!Install, Rollouts!SetcapFails,
                Rollouts!RestartFails, Rollouts!PostStatus, Rollouts!Report
  <2>3. QED
    BY <2>1, <2>2
<1>6. ASSUME NEW p \in Probe, Rollouts!NewProcess(p)
      PROVE  ProgressType'
  <2>1. ust' = [ust EXCEPT ![p] = "idle"] /\ UNCHANGED <<status, blate>>
        /\ bwaits' = [b \in Beat |-> bwaits[b] /\ bprobe[b] # p]
    BY <1>6 DEF Rollouts!NewProcess
  <2>2. \A b \in Beat : (bwaits[b] /\ bprobe[b] # p) \in BOOLEAN
    OBVIOUS
  <2>3. QED
    BY <2>1, <2>2
<1>7. ASSUME NEW p \in Probe, NEW r \in Rollouts!Report,
             Rollouts!HandleUpdateStatus(p, r) \/ Rollouts!StatusLost(p, r)
      PROVE  ProgressType'
  BY <1>7 DEF Rollouts!HandleUpdateStatus, Rollouts!StatusLost, Rollouts!probeVars, Rollouts!beatVars
<1>8. CASE Rollouts!CentralRestart
  BY <1>8 DEF Rollouts!CentralRestart, Rollouts!probeVars
<1>9. CASE UNCHANGED <<ust, status, blate, bwaits>>
  BY <1>9
<1>10. \/ \E p \in Probe, b \in Beat : Rollouts!Heartbeat(p, b)
       \/ \E b \in Beat : \/ Rollouts!HandleIngestHeartbeat(b) \/ Rollouts!OnCommand(b)
                          \/ Rollouts!BeatLost(b)
       \/ \E p \in Probe : \/ Rollouts!ReportApplying(p) \/ Rollouts!ApplyFails(p) \/ Rollouts!Install(p)
                           \/ Rollouts!SetcapFails(p) \/ Rollouts!RestartFails(p) \/ Rollouts!NewProcess(p)
       \/ \E p \in Probe, r \in Rollouts!Report : \/ Rollouts!HandleUpdateStatus(p, r)
                                                  \/ Rollouts!StatusLost(p, r)
       \/ Rollouts!CentralRestart
       \/ UNCHANGED <<ust, status, blate, bwaits>>
  BY DEF Rollouts!Next, Rollouts!vars, Rollouts!probeVars, Rollouts!beatVars, Rollouts!Apply,
         Rollouts!Restart, Rollouts!ProbeCrash, Rollouts!CommandUpdate, Rollouts!CancelUpdate,
         Rollouts!ForgetProbe, Rollouts!Handler, Rollouts!HeartbeatUpdateFor, Rollouts!FinishRequest,
         Rollouts!CommandFails, Rollouts!Rollout, Rollouts!RolloutWrite, Rollouts!RolloutPoll,
         Rollouts!RolloutGivesUp, Rollouts!RolloutCommand, Rollouts!StartRollout,
         Rollouts!Release, Rollouts!Clock
<1>11. QED
  BY <1>1, <1>2, <1>3, <1>4, <1>5, <1>6, <1>7, <1>8, <1>9, <1>10

LEMMA TimeStep ==
  ASSUME Rollouts!LineInv, TimeType, [Rollouts!Next]_(Rollouts!vars)
  PROVE  TimeType'
<1> USE DEF TimeType
<1>t. bprobe \in [Beat -> Probe] /\ opProbe \in Probe /\ rcur \in Probe
      /\ 0 \in 0..ApplyTimeout + 1 /\ 0 \in 0..Deadline
  BY DEF Rollouts!LineInv, Rollouts!BeatInv, Rollouts!RollInv
<1>1. CASE Rollouts!Clock
  <2>1. \A p \in Probe : age[p] <= ApplyTimeout => age[p] + 1 \in 0..ApplyTimeout + 1
    OBVIOUS
  <2>2. age' \in [Probe -> 0..ApplyTimeout + 1]
    BY <1>1, <2>1 DEF Rollouts!Clock
  <2>3. (rwait' = rwait + 1 /\ rwait < Deadline) \/ rwait' = rwait
    BY <1>1 DEF Rollouts!Clock
  <2>4. QED
    BY <2>2, <2>3
<1>2. ASSUME NEW p \in Probe, age' = age \/ age' = [age EXCEPT ![p] = 0], rwait' \in {0, rwait}
      PROVE  TimeType'
  BY <1>2, <1>t
<1>3. ASSUME NEW b \in Beat, Rollouts!HeartbeatUpdateFor(b)
      PROVE  TimeType'
  <2>1. PICK p \in Probe : p = bprobe[b]
    BY <1>t
  <2>2. age' = age \/ age' = [age EXCEPT ![p] = 0]
    BY <1>3, <2>1 DEF Rollouts!HeartbeatUpdateFor, Rollouts!SetProbeUpdateState, Rollouts!CountDelivery,
                      Rollouts!rowVars
  <2>3. rwait' = rwait
    BY <1>3 DEF Rollouts!HeartbeatUpdateFor, Rollouts!rollVars
  <2>4. QED
    BY <2>2, <2>3, <1>2
<1>4. ASSUME NEW p \in Probe, NEW r \in Rollouts!Report, Rollouts!HandleUpdateStatus(p, r)
      PROVE  TimeType'
  BY <1>4, <1>2 DEF Rollouts!HandleUpdateStatus, Rollouts!SetProbeUpdateState, Rollouts!rowVars,
                    Rollouts!rollVars
<1>5. CASE Rollouts!FinishRequest
  BY <1>5, <1>t DEF Rollouts!FinishRequest, Rollouts!CommandProbeUpdate, Rollouts!ClearProbeUpdate,
                    Rollouts!rollVars
<1>6. CASE Rollouts!RolloutWrite
  BY <1>6, <1>t DEF Rollouts!RolloutWrite, Rollouts!CommandProbeUpdate
<1>7. CASE Rollouts!RolloutGivesUp
  BY <1>7, <1>t DEF Rollouts!RolloutGivesUp, Rollouts!RolloutIdle, Rollouts!SetProbeUpdateState,
                    Rollouts!rowVars
<1>8. CASE age' = age /\ rwait' \in {0, rwait}
  BY <1>8, <1>t
<1>9. \/ Rollouts!Clock
      \/ \E b \in Beat : Rollouts!HeartbeatUpdateFor(b)
      \/ \E p \in Probe, r \in Rollouts!Report : Rollouts!HandleUpdateStatus(p, r)
      \/ Rollouts!FinishRequest \/ Rollouts!RolloutWrite \/ Rollouts!RolloutGivesUp
      \/ age' = age /\ rwait' \in {0, rwait}
  BY DEF Rollouts!Next, Rollouts!vars, Rollouts!rowVars, Rollouts!rollVars, Rollouts!Heartbeat,
         Rollouts!Apply, Rollouts!ReportApplying, Rollouts!ApplyFails, Rollouts!Install,
         Rollouts!SetcapFails, Rollouts!RestartFails, Rollouts!Restart, Rollouts!ProbeCrash,
         Rollouts!NewProcess, Rollouts!StatusLost, Rollouts!CommandUpdate, Rollouts!CancelUpdate,
         Rollouts!ForgetProbe, Rollouts!Handler, Rollouts!HandleIngestHeartbeat, Rollouts!OnCommand,
         Rollouts!BeatLost, Rollouts!CommandFails, Rollouts!Rollout, Rollouts!RolloutPoll,
         Rollouts!RolloutCommand, Rollouts!RolloutIdle, Rollouts!StartRollout, Rollouts!Release,
         Rollouts!CentralRestart
<1>10. QED
  BY <1>1, <1>3, <1>4, <1>5, <1>6, <1>7, <1>8, <1>9

LEMMA RequestStep ==
  ASSUME Rollouts!LineInv, RequestType, [Rollouts!Next]_(Rollouts!vars)
  PROVE  RequestType'
<1>t. rcur \in Probe
  BY DEF Rollouts!LineInv, Rollouts!RollInv
<1>1. op' \in {"idle", "write", "clear"}
  BY DEF RequestType, Rollouts!Next, Rollouts!vars, Rollouts!opVars, Rollouts!Heartbeat,
         Rollouts!Apply, Rollouts!ReportApplying, Rollouts!ApplyFails, Rollouts!Install,
         Rollouts!SetcapFails, Rollouts!RestartFails, Rollouts!Restart, Rollouts!ProbeCrash,
         Rollouts!NewProcess, Rollouts!HandleUpdateStatus, Rollouts!StatusLost,
         Rollouts!CommandUpdate, Rollouts!CancelUpdate, Rollouts!ForgetProbe, Rollouts!Begin,
         Rollouts!Handler, Rollouts!HandleIngestHeartbeat, Rollouts!HeartbeatUpdateFor,
         Rollouts!OnCommand, Rollouts!BeatLost, Rollouts!FinishRequest, Rollouts!CommandFails,
         Rollouts!Rollout, Rollouts!RolloutWrite, Rollouts!RolloutPoll, Rollouts!RolloutGivesUp,
         Rollouts!RolloutCommand, Rollouts!StartRollout, Rollouts!Release, Rollouts!Clock,
         Rollouts!CentralRestart
<1>2. CASE Rollouts!RolloutPoll
  BY <1>1, <1>2, <1>t DEF RequestType, Rollouts!RolloutPoll, Rollouts!RolloutIdle
<1>3. \/ Rollouts!RolloutPoll
      \/ rst' \in {"idle", "command", "write", "poll", "giveup"} /\ rdone' \in {{}, rdone}
  BY DEF RequestType, Rollouts!Next, Rollouts!vars, Rollouts!rollVars, Rollouts!Heartbeat,
         Rollouts!Apply, Rollouts!ReportApplying, Rollouts!ApplyFails, Rollouts!Install,
         Rollouts!SetcapFails, Rollouts!RestartFails, Rollouts!Restart, Rollouts!ProbeCrash,
         Rollouts!NewProcess, Rollouts!HandleUpdateStatus, Rollouts!StatusLost,
         Rollouts!CommandUpdate, Rollouts!CancelUpdate, Rollouts!ForgetProbe,
         Rollouts!Handler, Rollouts!HandleIngestHeartbeat, Rollouts!HeartbeatUpdateFor,
         Rollouts!OnCommand, Rollouts!BeatLost, Rollouts!FinishRequest, Rollouts!CommandFails,
         Rollouts!Rollout, Rollouts!RolloutWrite, Rollouts!RolloutGivesUp, Rollouts!RolloutIdle,
         Rollouts!RolloutCommand, Rollouts!StartRollout, Rollouts!Release, Rollouts!Clock,
         Rollouts!CentralRestart
<1>4. QED
  BY <1>1, <1>2, <1>3 DEF RequestType

(* A command is not handed out for ever: whatever heartbeats overlap, are    *)
(* lost or come late, and however many releases follow each other, a row is  *)
(* counted at most once per heartbeat in progress beyond maxUpdateDeliveries *)
(* (heartbeatUpdateFor), and every variable stays in its range.              *)
THEOREM DeliveriesAreBounded == Rollouts!Spec => []Rollouts!TypeOK
<1> DEFINE Inv == /\ Rollouts!LineInv /\ DeliveryInv
                  /\ ProgressType /\ TimeType /\ RequestType
<1>1. Rollouts!Init => Inv
  <2> SUFFICES ASSUME Rollouts!Init
               PROVE  Inv
    OBVIOUS
  <2>1. ProgressType /\ TimeType /\ RequestType
    BY DEF Rollouts!Init, ProgressType, TimeType, RequestType
  <2>2. QED
    BY <2>1, LineInit, DeliveryInit
<1>2. Inv /\ [Rollouts!Next]_(Rollouts!vars) => Inv'
  BY LineFleet, LineBeats, LineRows, LineRolls, DeliveryStep, ProgressStep, TimeStep, RequestStep
  DEF Rollouts!LineInv
<1>3. Inv => Rollouts!TypeOK
  <2> SUFFICES ASSUME Inv
               PROVE  Rollouts!TypeOK
    OBVIOUS
  <2>1. Rollouts!Cardinality(Beat) = Cardinality(Beat)
    BY DEF Rollouts!Cardinality, Cardinality
  <2>2. deliveries \in [Probe -> 0..MaxDeliveries + Rollouts!Cardinality(Beat)]
    <3>1. deliveries \in [Probe -> Nat] /\ \A p \in Probe : Within(p)
      BY DEF DeliveryInv
    <3>2. ASSUME NEW p \in Probe
          PROVE  deliveries[p] <= MaxDeliveries + Cardinality(Beat)
      <4>1. Cardinality(Readers(p)) \in 0..Cardinality(Beat) /\ Cardinality(Beat) \in Nat
        BY ReadersFinite
      <4>2. deliveries[p] \in Nat /\ \/ deliveries[p] <= MaxDeliveries
                                     \/ deliveries[p] + Cardinality(Readers(p)) <= MaxDeliveries + Cardinality(Beat)
        BY <3>1 DEF Within
      <4>3. QED
        BY <4>1, <4>2
    <3>3. Cardinality(Beat) \in Nat
      BY FS_CardinalityType
    <3>4. QED
      BY <3>1, <3>2, <3>3, <2>1
  <2>3. bad \subseteq Rollouts!Version
    BY DEF Rollouts!LineInv, Rollouts!FleetType, Rollouts!Version
  <2>4. QED
    BY <2>2, <2>3 DEF Rollouts!TypeOK, Rollouts!LineInv, Rollouts!FleetType, Rollouts!BeatInv,
       Rollouts!RowInv, Rollouts!RollInv, DeliveryInv, ProgressType, TimeType, RequestType
<1>4. QED
  BY <1>1, <1>2, <1>3, PTL DEF Rollouts!Spec

=============================================================================
