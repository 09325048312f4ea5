--------------------------- MODULE DaemonSingleton ---------------------------
(***************************************************************************)
(* How processes agree that one of them is the daemon.  The PID file is a  *)
(* hint, read and written with nothing held; the lock file is what counts: *)
(* under its flock the two socket files are replaced, served and removed.  *)
(* A process may be killed between any two steps; the kernel then drops    *)
(* its flock and its listeners, and the files stay.                        *)
(***************************************************************************)
EXTENDS FiniteSets, Naturals

CONSTANTS
  Process,     \* runs of `tm daemon`, `tm web` and `tm doctor --fix`
  IsDashboard, \* those of `tm web`: they go on without a daemon of their own
  Socket,      \* the command socket and the subscribers' socket
  Nobody,      \* no process
  MaxKills     \* bound: processes that are killed

ASSUME SingletonAssumption ==
  /\ Nobody \notin Process
  /\ IsDashboard \subseteq Process
  /\ IsFiniteSet(Socket) /\ Socket # {}
  /\ MaxKills \in Nat

VARIABLES
  at,        \* at[p]: the step p is about to take
  pidFile,   \* whose PID daemon.pid holds
  locked,    \* who holds the flock
  sockFile,  \* sockFile[s]: whose listener the file leads to
  listening, \* listening[s]: processes whose listener is open
  kills      \* how much of MaxKills is used

singletonVars == <<at, pidFile, locked, sockFile, listening, kills>>

Dead == {"none", "ended", "killed"}
LivePid(p) == at[p] \notin Dead

SingletonTypeOK ==
  /\ at \in [Process -> Dead \cup {"stale", "lock", "listen", "bind", "writePid", "serve", "client",
                                   "close", "clean", "unlock", "removePid", "closeDB", "fix"}]
  /\ pidFile \in Process \cup {Nobody}
  /\ locked \in Process \cup {Nobody}
  /\ sockFile \in [Socket -> Process \cup {Nobody}]
  /\ listening \in [Socket -> SUBSET Process]
  /\ kills \in 0 .. MaxKills

SingletonInit ==
  /\ at = [p \in Process |-> "none"]
  /\ pidFile = Nobody
  /\ locked = Nobody
  /\ sockFile = [s \in Socket |-> Nobody]
  /\ listening = [s \in Socket |-> {}]
  /\ kills = 0

Goto(p, step) == at' = [at EXCEPT ![p] = step]
GiveUp(p) == IF p \in IsDashboard THEN "client" ELSE "ended"

\* IsRunning: the PID is read and its process sought.
CheckPid(p) ==
  /\ at[p] = "none"
  /\ Goto(p, IF pidFile = Nobody THEN "lock"
             ELSE IF LivePid(pidFile) THEN GiveUp(p)
             ELSE "stale")
  /\ UNCHANGED <<pidFile, locked, sockFile, listening, kills>>

\* IsRunning removes the file of a dead process, whoever's it is by now.
RemoveStale(p) ==
  /\ at[p] = "stale"
  /\ pidFile' = Nobody
  /\ Goto(p, "lock")
  /\ UNCHANGED <<locked, sockFile, listening, kills>>

\* acquireSocketLock does not wait.
Lock(p) ==
  /\ at[p] = "lock"
  /\ IF locked = Nobody
     THEN locked' = p /\ Goto(p, "listen")
     ELSE UNCHANGED locked /\ Goto(p, GiveUp(p))
  /\ UNCHANGED <<pidFile, sockFile, listening, kills>>

\* The socket file listenSocket is about to make, one after the other.
Missing(p) == {s \in Socket : p \notin listening[s]}

\* Start fails: what it has opened is closed and removed.
AbandonStart(p) ==
  /\ listening' = [s \in Socket |-> listening[s] \ {p}]
  /\ sockFile' = [s \in Socket |-> IF p \in listening[s] THEN Nobody ELSE sockFile[s]]
  /\ locked' = Nobody
  /\ Goto(p, GiveUp(p))
  /\ UNCHANGED <<pidFile, kills>>

\* listenSocket: a file somebody answers behind ends it; another is removed.
ProbeSocket(p) ==
  /\ at[p] = "listen"
  /\ \E s \in Missing(p) :
       IF sockFile[s] # Nobody /\ sockFile[s] \in listening[s]
       THEN AbandonStart(p)
       ELSE /\ sockFile' = [sockFile EXCEPT ![s] = Nobody]
            /\ Goto(p, "bind")
            /\ UNCHANGED <<pidFile, locked, listening, kills>>

\* listenSocket: net.Listen fails when the file is there again, or otherwise.
BindSocket(p) ==
  /\ at[p] = "bind"
  /\ \E s \in Missing(p) :
       \/ /\ sockFile[s] = Nobody
          /\ sockFile' = [sockFile EXCEPT ![s] = p]
          /\ listening' = [listening EXCEPT ![s] = @ \cup {p}]
          /\ Goto(p, IF Missing(p) = {s} THEN "writePid" ELSE "listen")
          /\ UNCHANGED <<pidFile, locked, kills>>
       \/ AbandonStart(p)

WritePid(p) ==
  /\ at[p] = "writePid"
  /\ pidFile' = p
  /\ Goto(p, "serve")
  /\ UNCHANGED <<locked, sockFile, listening, kills>>

\* A signal ends the daemon; Stop begins.  A dashboard without one just ends.
Signal(p) ==
  /\ at[p] \in {"serve", "client"}
  /\ Goto(p, IF at[p] = "serve" THEN "close" ELSE "ended")
  /\ UNCHANGED <<pidFile, locked, sockFile, listening, kills>>

\* Stop closes its listeners; a Go listener removes its file when it closes.
CloseListeners(p) ==
  /\ at[p] = "close"
  /\ listening' = [s \in Socket |-> listening[s] \ {p}]
  /\ sockFile' = [s \in Socket |-> IF p \in listening[s] THEN Nobody ELSE sockFile[s]]
  /\ Goto(p, "clean")
  /\ UNCHANGED <<pidFile, locked, kills>>

\* Faulty variant: the lock is given back before the files are removed.
UnlockFirst(p) ==
  \/ /\ at[p] = "clean" /\ locked = p
     /\ locked' = Nobody
     /\ UNCHANGED <<at, pidFile, sockFile, listening, kills>>
  \/ /\ at[p] = "clean" /\ locked # p
     /\ sockFile' = [s \in Socket |-> Nobody]
     /\ Goto(p, "removePid")
     /\ UNCHANGED <<pidFile, locked, listening, kills>>

\* At the end of Stop, cleanupSocket removes both files, whoever's they are.
CleanSockets(p) ==
  /\ at[p] = "clean"
  /\ sockFile' = [s \in Socket |-> Nobody]
  /\ Goto(p, "unlock")
  /\ UNCHANGED <<pidFile, locked, listening, kills>>

Unlock(p) ==
  /\ at[p] = "unlock"
  /\ locked' = Nobody
  /\ Goto(p, "removePid")
  /\ UNCHANGED <<pidFile, sockFile, listening, kills>>

\* The deferred RemovePID removes the file, whoever's it is by now.
RemovePid(p) ==
  /\ at[p] = "removePid"
  /\ pidFile' = Nobody
  /\ Goto(p, "closeDB")
  /\ UNCHANGED <<locked, sockFile, listening, kills>>

CloseDB(p) ==
  /\ at[p] = "closeDB"
  /\ Goto(p, "ended")
  /\ UNCHANGED <<pidFile, locked, sockFile, listening, kills>>

\* SIGKILL, a power failure, or the second signal's "force quit".
Kill(p) ==
  /\ LivePid(p) /\ kills < MaxKills
  /\ kills' = kills + 1
  /\ Goto(p, "killed")
  /\ locked' = IF locked = p THEN Nobody ELSE locked
  /\ listening' = [s \in Socket |-> listening[s] \ {p}]
  /\ UNCHANGED <<pidFile, sockFile>>

\* `tm doctor --fix` checks the PID file, and removes it after all its checks.
DoctorLooks(p) ==
  /\ at[p] = "none" /\ p \notin IsDashboard
  /\ pidFile # Nobody /\ ~LivePid(pidFile)
  /\ Goto(p, "fix")
  /\ UNCHANGED <<pidFile, locked, sockFile, listening, kills>>

DoctorRemoves(p) ==
  /\ at[p] = "fix"
  /\ pidFile' = Nobody
  /\ Goto(p, "ended")
  /\ UNCHANGED <<locked, sockFile, listening, kills>>

SingletonNext ==
  \E p \in Process :
    \/ CheckPid(p) \/ RemoveStale(p) \/ Lock(p) \/ ProbeSocket(p) \/ BindSocket(p)
    \/ WritePid(p) \/ Signal(p) \/ CloseListeners(p) \/ CleanSockets(p) \/ Unlock(p)
    \/ RemovePid(p) \/ CloseDB(p) \/ Kill(p) \/ DoctorLooks(p) \/ DoctorRemoves(p)

-----------------------------------------------------------------------------

Holding == {"listen", "bind", "writePid", "serve", "close", "clean", "unlock"}
Serving(p) == at[p] \in {"writePid", "serve"}

\* There is never more than one daemon, and while there is one, both socket
\* files lead to it: a client that finds a socket never talks to a dead or to
\* another daemon, whoever started, stopped or was killed meanwhile.
OneDaemon ==
  /\ \A p \in Process : at[p] \in Holding <=> locked = p
  /\ \A p, q \in Process : Serving(p) /\ Serving(q) => p = q
  /\ \A p \in Process, s \in Socket : Serving(p) => sockFile[s] = p /\ listening[s] = {p}

=============================================================================
