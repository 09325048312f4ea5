----------------------------- MODULE LogRotation -----------------------------
(***************************************************************************)
(* The daemon's log: one file that is appended to and, past a size, moved  *)
(* through numbered backups by one rename after the other.  A rename may   *)
(* fail, and the process may end between two of them; a later process goes *)
(* on with the files as they are.  There is one at a time: a daemon opens  *)
(* its log before it takes the lock, so this leaves out a second one that  *)
(* is about to find the lock taken.                                        *)
(***************************************************************************)
EXTENDS SequencesExt

CONSTANTS
  MaxBackups,   \* daemonLogMaxBackups (5)
  MaxBytes,     \* lines a file may hold before it is rotated
  MaxLogLines,  \* bound: lines written
  MaxMishaps    \* bound: failed renames and ends of the process

ASSUME RotationAssumption ==
  /\ MaxBackups \in Nat \ {0}
  /\ {MaxBytes, MaxLogLines, MaxMishaps} \subseteq Nat

VARIABLES
  logFile,  \* logFile[i]: lines of daemon.log.<i>, of daemon.log for 0; or Absent
  lines,    \* lines written so far; each is its number
  writer,   \* the rotatingLogWriter: "closed" (file = nil), "open" or "rotating"
  turn,     \* the file rotateIfNeeded is about to move
  mishaps

rotationVars == <<logFile, lines, writer, turn, mishaps>>

Absent == <<0>>
File == 0 .. MaxBackups

RotationTypeOK ==
  /\ \A i \in File : logFile[i] = Absent \/ logFile[i] \in Seq(1 .. lines)
  /\ lines \in 0 .. MaxLogLines
  /\ writer \in {"closed", "open", "rotating"}
  /\ turn \in File
  /\ mishaps \in 0 .. MaxMishaps

RotationInit ==
  /\ logFile = [i \in File |-> Absent]
  /\ lines = 0
  /\ writer = "closed"
  /\ turn = 0
  /\ mishaps = 0

\* open: created, or appended to.
OpenLog ==
  /\ writer = "closed"
  /\ writer' = "open"
  /\ logFile' = [logFile EXCEPT ![0] = IF @ = Absent THEN <<>> ELSE @]
  /\ UNCHANGED <<lines, turn, mishaps>>

\* Write, and the size check of rotateIfNeeded behind it.
WriteLine ==
  /\ writer = "open" /\ lines < MaxLogLines
  /\ lines' = lines + 1
  /\ logFile' = [logFile EXCEPT ![0] = Append(@, lines + 1)]
  /\ IF Len(logFile'[0]) > MaxBytes
     THEN writer' = "rotating" /\ turn' = MaxBackups
     ELSE UNCHANGED <<writer, turn>>
  /\ UNCHANGED mishaps

Moved(from, to) == [logFile EXCEPT ![to] = logFile[from], ![from] = Absent]

NextTurn ==
  /\ turn' = IF turn = 0 THEN 0 ELSE turn - 1
  /\ writer' = IF turn = 0 THEN "closed" ELSE "rotating"
  /\ UNCHANGED <<lines, mishaps>>

\* Faulty variant: the newest file is moved first.
RotateAscending ==
  /\ writer = "rotating"
  /\ LET i == MaxBackups - turn IN
       logFile' = IF i < MaxBackups /\ logFile[i] # Absent THEN Moved(i, i + 1) ELSE logFile
  /\ NextTurn

\* One turn of the loop of rotateIfNeeded, oldest file first: the last backup
\* is removed, if that can be; every other file takes the next number.
RotateNext ==
  /\ writer = "rotating"
  /\ IF turn = MaxBackups
     THEN logFile' \in {logFile, [logFile EXCEPT ![turn] = Absent]}
     ELSE logFile' = IF logFile[turn] # Absent THEN Moved(turn, turn + 1) ELSE logFile
  /\ NextTurn

\* A rename fails: the rotation ends with the file closed.
RenameFails ==
  /\ writer = "rotating" /\ turn < MaxBackups /\ logFile[turn] # Absent
  /\ mishaps < MaxMishaps /\ mishaps' = mishaps + 1
  /\ writer' = "closed"
  /\ UNCHANGED <<logFile, lines, turn>>

\* The process ends, wherever the writer is.
LoggerDies ==
  /\ writer # "closed"
  /\ mishaps < MaxMishaps /\ mishaps' = mishaps + 1
  /\ writer' = "closed"
  /\ UNCHANGED <<logFile, lines, turn>>

RotationNext == OpenLog \/ WriteLine \/ RotateNext \/ RenameFails \/ LoggerDies

-----------------------------------------------------------------------------

\* The files from the oldest to the newest.
WholeLog ==
  FlattenSeq([k \in 1 .. MaxBackups + 1 |->
                LET f == logFile[MaxBackups + 1 - k] IN IF f = Absent THEN <<>> ELSE f])

\* Read from the last backup to the current file, the log is always the end of
\* what was written, in order and without a gap, in the middle of a rotation
\* and after one that failed or was cut short.
LogIsSuffix == IsSuffix(WholeLog, [i \in 1 .. lines |-> i])

=============================================================================
