------------------------------- MODULE Backups -------------------------------
(***************************************************************************)
(* The copies of the database: the daemon's daily ones and their rotation, *)
(* and `tm restore`, which saves the current database, removes it and      *)
(* copies a backup into its place.  A daemon and a restore only see each   *)
(* other through the PID file.                                             *)
(***************************************************************************)
EXTENDS SequencesExt

CONSTANTS
  Keep,       \* autoBackupKeep (4)
  MaxAutos,   \* bound: automatic backups begun
  MaxRuns     \* bound: restores

ASSUME BackupsAssumption == Keep \in Nat \ {0} /\ {MaxAutos, MaxRuns} \subseteq Nat

VARIABLES
  dbFile,   \* what is at the path of the database
  autos,    \* auto-*.db, oldest first: [id, whole]
  begun,    \* automatic backups begun
  recent,   \* the newest of them is younger than autoBackupMinAge
  backer,   \* the daemon: "off", "idle", "copying" or "rotating"
  restorer, \* `tm restore`
  source,   \* id of the backup that is restored
  saved,    \* contents of the whole pre-restore-*.db
  runs,     \* restores begun
  everWhole \* history: an automatic backup was completed

backupVars == <<dbFile, autos, begun, recent, backer, restorer, source, saved, runs, everWhole>>

Content == {"data", "fresh", "restored"}

BackupsTypeOK ==
  /\ dbFile \in Content \cup {"absent", "partial"}
  /\ \A i \in DOMAIN autos : autos[i].id \in 1 .. begun /\ autos[i].whole \in BOOLEAN
  /\ begun \in 0 .. MaxAutos
  /\ recent \in BOOLEAN /\ everWhole \in BOOLEAN
  /\ backer \in {"off", "idle", "copying", "rotating"}
  /\ restorer \in {"none", "stop", "save", "remove", "copy", "copying"}
  /\ source \in 0 .. MaxAutos
  /\ saved \subseteq Content
  /\ runs \in 0 .. MaxRuns

BackupsInit ==
  /\ dbFile = "data"
  /\ autos = <<>>
  /\ begun = 0
  /\ recent = FALSE
  /\ backer = "idle"
  /\ restorer = "none"
  /\ source = 0
  /\ saved = {}
  /\ runs = 0
  /\ everWhole = FALSE

restoreVars == <<restorer, source, saved, runs>>

\* The daemon starts; any command that opens the database creates a missing one.
DaemonStarts ==
  /\ backer = "off" /\ dbFile # "partial"
  /\ backer' = "idle"
  /\ dbFile' = IF dbFile = "absent" THEN "fresh" ELSE dbFile
  /\ UNCHANGED <<autos, begun, recent, restoreVars, everWhole>>

\* It ends, in the middle of a backup or not.
DaemonEnds ==
  /\ backer # "off"
  /\ backer' = "off"
  /\ UNCHANGED <<dbFile, autos, begun, recent, restoreVars, everWhole>>

DayPasses ==
  /\ recent /\ recent' = FALSE
  /\ UNCHANGED <<dbFile, autos, begun, backer, restoreVars, everWhole>>

\* runAutoBackup: not while the newest file is recent, whole or not.  VACUUM
\* INTO makes the file before it fills it.
AutoBackupBegins ==
  /\ backer = "idle" /\ ~recent /\ begun < MaxAutos
  /\ begun' = begun + 1
  /\ autos' = Append(autos, [id |-> begun + 1, whole |-> FALSE])
  /\ recent' = TRUE
  /\ backer' = "copying"
  /\ UNCHANGED <<dbFile, restoreVars, everWhole>>

AutoBackupDone ==
  /\ backer = "copying"
  /\ autos' = [autos EXCEPT ![Len(autos)].whole = TRUE]
  /\ everWhole' = TRUE
  /\ backer' = "rotating"
  /\ UNCHANGED <<dbFile, begun, recent, restoreVars>>

\* BackupTo fails: no rotation, and what it wrote stays.
AutoBackupFails ==
  /\ backer = "copying"
  /\ backer' = "idle"
  /\ UNCHANGED <<dbFile, autos, begun, recent, restoreVars, everWhole>>

\* Faulty variant: the files are removed before the new one is whole.
RotateAnyTime ==
  /\ backer \in {"copying", "rotating"}
  /\ IF Len(autos) > Keep
     THEN autos' = SubSeq(autos, Len(autos) - Keep + 1, Len(autos)) /\ UNCHANGED backer
     ELSE backer' = (IF backer = "rotating" THEN "idle" ELSE backer) /\ UNCHANGED autos
  /\ UNCHANGED <<dbFile, begun, recent, restoreVars, everWhole>>

\* rotateBackups: all but the newest files are removed, newest first.
RotateBackups ==
  /\ backer = "rotating"
  /\ IF Len(autos) > Keep
     THEN autos' = RemoveAt(autos, Len(autos) - Keep) /\ UNCHANGED backer
     ELSE backer' = "idle" /\ UNCHANGED autos
  /\ UNCHANGED <<dbFile, begun, recent, restoreVars, everWhole>>

-----------------------------------------------------------------------------
(* runRestore.                                                             *)

daemonVars == <<autos, begun, recent, backer, everWhole>>

\* ValidateSQLiteBackup: only a whole database is accepted.
RestoreBegins ==
  /\ restorer = "none" /\ runs < MaxRuns
  /\ \E i \in DOMAIN autos : autos[i].whole /\ source' = autos[i].id
  /\ restorer' = "stop"
  /\ runs' = runs + 1
  /\ UNCHANGED <<dbFile, saved, daemonVars>>

\* stopDaemonForRestore: no daemon, or the user has it stopped and it ends in
\* time; otherwise the restore is given up.  The database may still be open.
RestoreStopsDaemon ==
  /\ restorer = "stop"
  /\ \/ restorer' = "save" /\ backer' = "off"
     \/ restorer' = "none" /\ UNCHANGED backer
  /\ UNCHANGED <<dbFile, source, saved, runs, autos, begun, recent, everWhole>>

\* Faulty variant: a pre-restore backup that fails does not end the restore.
RestoreSavesOrNot ==
  /\ restorer = "save"
  /\ restorer' = "remove"
  /\ saved' \in {saved, saved \cup ({dbFile} \cap Content)}
  /\ UNCHANGED <<dbFile, source, runs, daemonVars>>

\* preRestoreBackup: skipped when there is no database, fatal when it fails.
RestoreSaves ==
  /\ restorer = "save"
  /\ \/ dbFile = "absent" /\ restorer' = "remove" /\ UNCHANGED saved
     \/ dbFile \in Content /\ restorer' = "remove" /\ saved' = saved \cup {dbFile}
     \/ dbFile # "absent" /\ restorer' = "none" /\ UNCHANGED saved
  /\ UNCHANGED <<dbFile, source, runs, daemonVars>>

\* replaceDBFile removes the database and its -wal and -shm.
RestoreRemoves ==
  /\ restorer = "remove"
  /\ dbFile' = "absent"
  /\ restorer' = "copy"
  /\ UNCHANGED <<source, saved, runs, daemonVars>>

\* copyFile: the source must still be there, and the destination must not be
\* there again.
RestoreCopies ==
  /\ restorer = "copy"
  /\ IF dbFile = "absent" /\ \E i \in DOMAIN autos : autos[i].id = source
     THEN dbFile' = "partial" /\ restorer' = "copying"
     ELSE UNCHANGED dbFile /\ restorer' = "none"
  /\ UNCHANGED <<source, saved, runs, daemonVars>>

RestoreDone ==
  /\ restorer = "copying"
  /\ dbFile' = "restored"
  /\ restorer' = "none"
  /\ UNCHANGED <<source, saved, runs, daemonVars>>

\* The copy fails, or the command is interrupted anywhere.
RestoreEnds ==
  /\ restorer # "none"
  /\ restorer' = "none"
  /\ UNCHANGED <<dbFile, source, saved, runs, daemonVars>>

BackupsNext ==
  \/ DaemonStarts \/ DaemonEnds \/ DayPasses
  \/ AutoBackupBegins \/ AutoBackupDone \/ AutoBackupFails \/ RotateBackups
  \/ RestoreBegins \/ RestoreStopsDaemon \/ RestoreSaves \/ RestoreRemoves
  \/ RestoreCopies \/ RestoreDone \/ RestoreEnds

-----------------------------------------------------------------------------

\* Whatever fails, is killed or starts in between: what the database held is
\* still in it or in a whole pre-restore copy; and once there has been a whole
\* automatic backup, there is one.
DataSurvives ==
  /\ dbFile = "data" \/ "data" \in saved
  /\ everWhole => \E i \in DOMAIN autos : autos[i].whole

=============================================================================
