------------------------------ MODULE Backup -------------------------------
(***************************************************************************)
(* Backups of the live database, and restores of them into another one.    *)
(* The players go on writing while these scripts run: a dump is one        *)
(* snapshot, but the row counts of its manifest are read afterwards, table *)
(* after table.  A script may be cut short between any two of its steps,   *)
(* and an archive may be damaged on disk.                                  *)
(***************************************************************************)
EXTENDS Naturals, Sequences

CONSTANTS
    Tables,         \* CRITICAL_TABLES, in their order: a sequence of names
    Spares,         \* the databases a restore may create and fill
    MaxWrites,      \* bound: writes of the players
    MaxArchives     \* bound: backups taken

ASSUME BackupAssumption == "live" \notin Spares /\ MaxArchives \in Nat \ {0}

TableNames == {Tables[i] : i \in 1..Len(Tables)}
Databases == {"live"} \cup Spares
Archives == 1..MaxArchives

VARIABLES
    contents,   \* [Databases -> what the database holds, or Absent]
    archive,    \* [Archives -> the file, or Absent]
    manifest,   \* [Archives -> the file beside it, or Absent]
    metric,     \* the backup that gobblet_backup.prom names, 0 for none
    backup,     \* the backup script under way
    restore,    \* the restore script under way, or its end
    dumped      \* history: [Archives -> the content pg_dump read, or Absent]

backupVars == <<contents, archive, manifest, metric, backup, restore, dumped>>

\* A content is a moment of the live database, so two contents may have equal
\* counts and yet differ.
Content(at, rows) == [at |-> at, rows |-> rows, damaged |-> FALSE]
Absent == Content(0, [t \in TableNames |-> 100])
\* The sha256 of a file is a different one for different bytes.
digestOf(file) == file
NoRows == [t \in TableNames |-> 0]
NoManifest == [digest |-> Absent, rows |-> NoRows]

IdleBackup == [step |-> "idle", n |-> 0, left |-> <<>>, rows |-> NoRows]
NoRestore == [step |-> "idle", a |-> 1, m |-> 1, target |-> "live"]

BackupInit ==
    /\ contents = [d \in Databases |-> IF d = "live" THEN Content(1, NoRows) ELSE Absent]
    /\ archive = [n \in Archives |-> Absent]
    /\ manifest = [n \in Archives |-> NoManifest]
    /\ metric = 0
    /\ backup = IdleBackup /\ restore = NoRestore
    /\ dumped = [n \in Archives |-> Absent]

Live == contents["live"]

\* A player's request adds a row to a table, or removes one.
Write(t) ==
    /\ Live.at <= MaxWrites
    /\ \E rows \in {Live.rows[t] + 1} \cup (IF Live.rows[t] > 0 THEN {Live.rows[t] - 1} ELSE {}) :
          contents' = [contents EXCEPT !["live"] = Content(Live.at + 1, [Live.rows EXCEPT ![t] = rows])]
    /\ UNCHANGED <<archive, manifest, metric, backup, restore, dumped>>

-----------------------------------------------------------------------------
(* createBackup *)

Taken(n) == dumped[n] # Absent

Dump(n) ==
    /\ backup.step = "idle" /\ ~Taken(n) /\ \A k \in 1..(n - 1) : Taken(k)
    /\ archive' = [archive EXCEPT ![n] = Live]
    /\ dumped' = [dumped EXCEPT ![n] = Live]
    /\ backup' = [step |-> "count", n |-> n, left |-> Tables, rows |-> NoRows]
    /\ UNCHANGED <<contents, manifest, metric, restore>>

\* readRowCounts asks one table after the other, each at its own moment.
Count ==
    /\ backup.step = "count" /\ backup.left # <<>>
    /\ backup' = [backup EXCEPT !.rows[Head(backup.left)] = Live.rows[Head(backup.left)], !.left = Tail(@)]
    /\ UNCHANGED <<contents, archive, manifest, metric, restore, dumped>>

WriteManifest ==
    /\ backup.step = "count" /\ backup.left = <<>>
    /\ manifest' = [manifest EXCEPT ![backup.n] = [digest |-> digestOf(archive[backup.n]), rows |-> backup.rows]]
    /\ backup' = [backup EXCEPT !.step = "metric"]
    /\ UNCHANGED <<contents, archive, metric, restore, dumped>>

MetricIsDue == backup.step = "metric"

WriteMetric ==
    /\ MetricIsDue
    /\ metric' = backup.n /\ backup' = IdleBackup
    /\ UNCHANGED <<contents, archive, manifest, restore, dumped>>

\* The script is killed, or one of its commands fails.
BackupDies ==
    /\ backup.step # "idle" /\ backup' = IdleBackup
    /\ UNCHANGED <<contents, archive, manifest, metric, restore, dumped>>

\* The disk damages an archive whose manifest is written, while no restore
\* is between reading its digest and reading it again.
Damage(n) ==
    /\ manifest[n] # NoManifest /\ restore.step # "fill" /\ ~archive[n].damaged
    /\ archive' = [archive EXCEPT ![n].damaged = TRUE]
    /\ UNCHANGED <<contents, manifest, metric, backup, restore, dumped>>

-----------------------------------------------------------------------------
(* restoreBackup: the caller names an archive, a manifest and a target *)

\* Every archive here is one of the live database, and the command never
\* sets allowSameDatabase.
TargetAllowed(target) == target # "live"

\* Mutant: the digest is not compared.
DigestIgnored(a, m) == manifest[m] # NoManifest

DigestMatches(a, m) == manifest[m] # NoManifest /\ digestOf(archive[a]) = manifest[m].digest

BeginRestore(a, m, target) ==
    /\ restore.step \in {"idle", "restored", "refused"}
    /\ archive[a] # Absent /\ manifest[m] # NoManifest
    /\ restore' = [step |-> IF TargetAllowed(target) /\ DigestMatches(a, m) THEN "fill" ELSE "refused",
                   a |-> a, m |-> m, target |-> target]
    /\ UNCHANGED <<contents, archive, manifest, metric, backup, dumped>>

\* pg_restore --clean drops what the archive holds before it fills it.
Restored(old, file) == file

\* A database created for the restore, or filled by an earlier drill, takes
\* the archive; one that dies on the way is left with nothing to trust.
Fill ==
    /\ restore.step = "fill"
    /\ LET file == archive[restore.a]
           old == contents[restore.target]
       IN  \/ /\ contents' = [contents EXCEPT ![restore.target] = Restored(old, file)]
              /\ restore' = [restore EXCEPT !.step = "compare"]
           \/ /\ contents' = [contents EXCEPT ![restore.target] = Content(0, NoRows)]
              /\ restore' = [restore EXCEPT !.step = "refused"]
    /\ UNCHANGED <<archive, manifest, metric, backup, dumped>>

Compare ==
    /\ restore.step = "compare"
    /\ restore' = [restore EXCEPT !.step =
          IF contents[restore.target].rows = manifest[restore.m].rows THEN "restored" ELSE "mismatch"]
    /\ UNCHANGED <<contents, archive, manifest, metric, backup, dumped>>

BackupNext ==
    \/ \E t \in TableNames : Write(t)
    \/ \E n \in Archives : Dump(n) \/ Damage(n)
    \/ Count \/ WriteManifest \/ WriteMetric \/ BackupDies
    \/ \E a, m \in Archives, target \in Databases : BeginRestore(a, m, target)
    \/ Fill \/ Compare

BackupSpec == BackupInit /\ [][BackupNext]_backupVars

-----------------------------------------------------------------------------
(* Properties *)

\* A restore that reports success filled its target with exactly what the
\* dump named by its manifest read, and never the database it came from:
\* neither another archive nor a damaged one passes, even with equal counts.
RestoredIsTheDump ==
    restore.step = "restored" => restore.target # "live" /\ contents[restore.target] = dumped[restore.m]

\* The manifest of a backup nobody wrote behind fits its dump, and so does
\* what comes back: a restore of it fails at the digest or not at all, also
\* into a database an earlier drill has filled.
QuietBackupsComeBack ==
    \A n \in Archives :
        manifest[n] # NoManifest /\ manifest[n].rows = dumped[n].rows /\ restore.m = n => restore.step # "mismatch"

\* The metric the alert watches names a backup that can be restored: its
\* archive and its manifest are there, whenever the script was killed.
MetricMeansBackup == metric # 0 => manifest[metric] # NoManifest

\* A backup is what its manifest and its metric say: what is restored from it is what it
\* dumped, or the restore says that it failed (backup.ts, cli/backup.ts, cli/restore.ts).
BackupsAreKept == RestoredIsTheDump /\ QuietBackupsComeBack /\ MetricMeansBackup
=============================================================================
