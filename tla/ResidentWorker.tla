--------------------------- MODULE ResidentWorker ---------------------------
(***************************************************************************)
(* The resident encoder worker (ane_whole_worker_resident.py): a detached  *)
(* daemon that outlives the client processes, reached through two FIFOs,   *)
(* a pid file, a meta file and a lock file in one directory.               *)
(*                                                                         *)
(* A spawn makes a fresh pair of FIFOs and one daemon that holds it, so    *)
(* both carry the same number; a number is used again once nothing refers  *)
(* to it.  The daemon itself (the --serve worker) is external.  A daemon   *)
(* that dies stays a zombie, which os.kill(pid, 0) takes for alive, until  *)
(* the process that spawned it waits for it or ends.                       *)
(***************************************************************************)
EXTENDS Integers, SequencesExt

CONSTANTS
  Clients,      \* the client processes
  Bundles,      \* the model bundles clients ask for
  Pairs,        \* bound: the numbers of FIFO pairs and daemons
  Locks,        \* bound: the inodes the lock file has
  Jobs,         \* bound: the job numbers
  InterruptAt,  \* the program points at which a client may be interrupted
  None

ASSUME PairsAssumption == Pairs \subseteq Nat /\ Locks \subseteq Nat /\ Jobs \subseteq Nat
ASSUME NoneAssumption == None \notin Clients \cup Bundles \cup Pairs \cup Locks \cup Jobs

VARIABLES
  fifo,      \* the pair that the paths "in" and "out" name
  pidFile,   \* the daemon that worker.pid names
  metaFile,  \* the bundle that daemon.meta names
  lockFile,  \* the inode that session.lock names
  daemon,    \* the daemons
  req,       \* what is in the "in" FIFO of a pair
  resp,      \* what is in the "out" FIFO of a pair
  pc,        \* where a client is
  call,      \* the job and the bundle of its call
  pid,       \* the daemon it spawned
  then,      \* where it goes after killing the daemon
  lockFd,    \* the inode of its lock file
  held,      \* the inodes its process has locked
  conn,      \* the pair it has open
  results,   \* the output it received
  ret        \* how its last call ended

files == <<fifo, pidFile, metaFile, lockFile>>
pipes == <<req, resp>>
session == <<lockFd, held, conn, results>>
vars == <<files, daemon, pipes, pc, call, pid, then, session, ret>>

Daemon(st, b, c, j) == [st |-> st, bundle |-> b, parent |-> c, job |-> j]
NoDaemon == Daemon("gone", None, None, None)
NoCall == [job |-> None, bundle |-> None]

Running(d) == daemon[d].st \in {"load", "ready", "busy"}

(* _pid_alive: a zombie counts.  daemon_pid: the pid file's daemon.        *)
PidAlive(d) == d # None /\ daemon[d].st # "gone"
DaemonPid == IF PidAlive(pidFile) THEN pidFile ELSE None

(* The daemon's process ends.                                              *)
Died(d) ==
  Daemon(IF d.parent = None THEN "gone" ELSE "zombie", d.bundle, d.parent, None)
(* A process waits for the daemons it spawned that have died.              *)
Reaped(c) ==
  [d \in Pairs |->
     IF daemon[d].st = "zombie" /\ daemon[d].parent = c THEN NoDaemon ELSE daemon[d]]

(* A FIFO keeps what is in it while a process has it open.                 *)
Open(p) == Running(p) \/ \E c \in Clients : conn[c] = p
Kept(q) == [p \in Pairs |-> IF Open(p) THEN q[p] ELSE <<>>]

FreshPairs ==
  {p \in Pairs : /\ p \notin {fifo, pidFile}
                 /\ daemon[p].st = "gone"
                 /\ \A c \in Clients : p \notin {conn[c], pid[c]}}
FreshLocks ==
  {i \in Locks : \A c \in Clients : i # lockFd[c] /\ i \notin held[c]}
FreshJobs ==
  {j \in Jobs :
     /\ \A c \in Clients : j # call[c].job /\ (results[c] # None => j # results[c].job)
     /\ \A p \in Pairs : Open(p) => /\ j # daemon[p].job
                                    /\ \A l \in ToSet(req[p] \o resp[p]) : l.job # j}
(* A number nothing refers to, if the bound leaves one.                    *)
Fresh(S) == CHOOSE n \in S : TRUE

Init ==
  /\ fifo = None /\ pidFile = None /\ metaFile = None /\ lockFile = None
  /\ daemon = [p \in Pairs |-> NoDaemon]
  /\ req = [p \in Pairs |-> <<>>] /\ resp = [p \in Pairs |-> <<>>]
  /\ pc = [c \in Clients |-> "idle"] /\ call = [c \in Clients |-> NoCall]
  /\ pid = [c \in Clients |-> None] /\ then = [c \in Clients |-> "idle"]
  /\ lockFd = [c \in Clients |-> None] /\ held = [c \in Clients |-> {}]
  /\ conn = [c \in Clients |-> None] /\ results = [c \in Clients |-> None]
  /\ ret = [c \in Clients |-> "none"]

Goto(c, l) == pc' = [pc EXCEPT ![c] = l]
Return(c, r) == Goto(c, "idle") /\ ret' = [ret EXCEPT ![c] = r]

(* A line in a FIFO.                                                       *)
Line(k, j, b) == [kind |-> k, job |-> j, bundle |-> b]

-----------------------------------------------------------------------------
(* AneIsland.submit is called.                                             *)
Submit(c, b) ==
  /\ pc[c] = "idle" /\ FreshJobs # {}
  /\ Goto(c, "ensure")
  /\ call' = [call EXCEPT ![c] = [job |-> Fresh(FreshJobs), bundle |-> b]]
  /\ results' = [results EXCEPT ![c] = None]
  /\ ret' = [ret EXCEPT ![c] = "none"]
  /\ UNCHANGED <<files, daemon, pipes, pid, then, lockFd, held, conn>>

(* The running daemon is used if it was spawned for the same configuration *)
(* and respawned if not; a version that uses whatever daemon runs.         *)
AnyConfig(b) == TRUE
SameConfig(b) == metaFile = b

EnsureDaemon(c) ==
  /\ pc[c] = "ensure"
  /\ LET keep == DaemonPid # None /\ SameConfig(call[c].bundle)
     IN  Goto(c, IF keep THEN "lock"
                 ELSE IF DaemonPid # None THEN "signal" ELSE "spawn")
  /\ then' = [then EXCEPT ![c] = "spawn"]
  /\ UNCHANGED <<files, daemon, pipes, call, pid, session, ret>>

(* The daemon of the pid file got SIGTERM, or SIGKILL after five seconds;  *)
(* and a version that only removes its files.                              *)
NotTerminated == daemon
Terminated ==
  IF DaemonPid = None THEN daemon ELSE [daemon EXCEPT ![DaemonPid] = Died(@)]

(* _kill_daemon: the daemon is terminated ...                              *)
KillSignal(c) ==
  /\ pc[c] = "signal"
  /\ daemon' = Terminated
  /\ Goto(c, "unlink")
  /\ UNCHANGED <<files, pipes, call, pid, then, session, ret>>

(* ... and every file is removed, the lock file included.                  *)
KillUnlink(c) ==
  /\ pc[c] = "unlink"
  /\ fifo' = None /\ pidFile' = None /\ metaFile' = None /\ lockFile' = None
  /\ Goto(c, then[c])
  /\ ret' = [ret EXCEPT ![c] = IF then[c] = "idle" THEN "killed" ELSE @]
  /\ UNCHANGED <<daemon, pipes, call, pid, then, session>>

(* spawn_daemon: new FIFOs replace the old ones.                           *)
SpawnFifos(c) ==
  /\ pc[c] = "spawn" /\ FreshPairs # {}
  /\ LET p == Fresh(FreshPairs) IN
       /\ fifo' = p
       /\ pid' = [pid EXCEPT ![c] = p]
  /\ req' = Kept(req) /\ resp' = Kept(resp)
  /\ Goto(c, "popen")
  /\ UNCHANGED <<pidFile, metaFile, lockFile, daemon, call, then, session, ret>>

(* Popen waits for the children that have died before it starts another.   *)
SpawnPopen(c) ==
  /\ pc[c] = "popen"
  /\ daemon' = [Reaped(c) EXCEPT ![pid[c]] = Daemon("load", call[c].bundle, c, None)]
  /\ Goto(c, "pidfile")
  /\ UNCHANGED <<files, pipes, call, pid, then, session, ret>>

SpawnWritePid(c) ==
  /\ pc[c] = "pidfile"
  /\ pidFile' = pid[c] /\ metaFile' = call[c].bundle
  /\ Goto(c, "check")
  /\ UNCHANGED <<fifo, lockFile, daemon, pipes, call, pid, then, session, ret>>

(* A daemon that exited at once is waited for, and ResidentDead goes to    *)
(* the caller: ensure_daemon is not inside the try of submit.              *)
SpawnCheck(c) ==
  /\ pc[c] = "check"
  /\ pid' = [pid EXCEPT ![c] = None]
  /\ IF Running(pid[c])
     THEN Goto(c, "lock") /\ UNCHANGED <<daemon, ret>>
     ELSE Return(c, "raised") /\ daemon' = Reaped(c)
  /\ UNCHANGED <<files, pipes, call, then, session>>

(* ResidentSession.__enter__: the lock file is opened, and created if it   *)
(* does not exist, ...                                                     *)
OpenLock(c) ==
  /\ pc[c] = "lock" /\ (lockFile = None => FreshLocks # {})
  /\ lockFile' = IF lockFile = None THEN Fresh(FreshLocks) ELSE lockFile
  /\ lockFd' = [lockFd EXCEPT ![c] = lockFile']
  /\ Goto(c, "flock")
  /\ UNCHANGED <<fifo, pidFile, metaFile, daemon, pipes, call, pid, then, held, conn,
                 results, ret>>

(* ... its inode is locked ...                                             *)
Flock(c) ==
  /\ pc[c] = "flock"
  /\ \A o \in Clients : lockFd[c] \notin held[o]
  /\ held' = [held EXCEPT ![c] = @ \cup {lockFd[c]}]
  /\ Goto(c, "open")
  /\ UNCHANGED <<files, daemon, pipes, call, pid, then, lockFd, conn, results, ret>>

(* A FIFO can be opened once its other end is: by the daemon, or by a      *)
(* client that is about to start it.                                       *)
OtherEnd(p) == Running(p) \/ \E o \in Clients : pid[o] = p /\ pc[o] = "popen"

(* ... and the FIFOs are opened.  Without them the error goes to the       *)
(* caller, and the lock stays with the process.                            *)
OpenFifos(c) ==
  /\ pc[c] = "open"
  /\ IF fifo = None
     THEN /\ Return(c, "raised")
          /\ lockFd' = [lockFd EXCEPT ![c] = None]
          /\ UNCHANGED conn
     ELSE /\ OtherEnd(fifo)
          /\ conn' = [conn EXCEPT ![c] = fifo]
          /\ Goto(c, "write")
          /\ UNCHANGED <<lockFd, ret>>
  /\ UNCHANGED <<files, daemon, pipes, call, pid, then, held, results>>

(* ResidentSession.__exit__.                                               *)
CloseSession(c) ==
  /\ conn' = [conn EXCEPT ![c] = None]
  /\ lockFd' = [lockFd EXCEPT ![c] = None]
  /\ held' = [held EXCEPT ![c] = @ \ {lockFd[c]}]

(* ResidentSession.submit: the job is written; without a reader the write  *)
(* raises BrokenPipeError, which is not a ResidentDead.                    *)
WriteJob(c) ==
  /\ pc[c] = "write"
  /\ IF OtherEnd(conn[c])
     THEN /\ req' = [req EXCEPT ![conn[c]] = Append(@, Line("submit", call[c].job, None))]
          /\ Goto(c, "read")
          /\ UNCHANGED <<lockFd, held, conn, ret>>
     ELSE CloseSession(c) /\ Return(c, "raised") /\ UNCHANGED req
  /\ UNCHANGED <<files, daemon, resp, call, pid, then, results>>

(* A response line that means the daemon is broken: the session is closed, *)
(* and after that the daemon is killed; a version that leaves it running.  *)
DeadIgnored(c) == Return(c, "killed") /\ UNCHANGED then
Dead(c) == Goto(c, "signal") /\ then' = [then EXCEPT ![c] = "idle"] /\ UNCHANGED ret

(* The next line of the response: the banner is skipped, an output kept,   *)
(* and the status ends the submission.                                     *)
ReadLine(c) ==
  /\ pc[c] = "read" /\ resp[conn[c]] # <<>>
  /\ LET line == Head(resp[conn[c]]) IN
       \/ /\ line.kind = "banner"
          /\ UNCHANGED <<pc, then, lockFd, held, conn, results, ret>>
       \/ /\ line.kind = "out"
          /\ results' = [results EXCEPT ![c] = [job |-> line.job, bundle |-> line.bundle]]
          /\ UNCHANGED <<pc, then, lockFd, held, conn, ret>>
       \/ /\ line.kind = "status0"
          /\ CloseSession(c)
          /\ Return(c, IF results[c] # None THEN "ok" ELSE "raised")
          /\ UNCHANGED <<then, results>>
       \/ /\ line.kind \in {"failed", "released"}
          /\ CloseSession(c) /\ Dead(c)
          /\ UNCHANGED results
  /\ resp' = [resp EXCEPT ![conn[c]] = Tail(@)]
  /\ UNCHANGED <<files, daemon, req, call, pid>>

(* The deadline passes, or the daemon's end of the FIFO is closed.         *)
ReadGivesUp(c) ==
  /\ pc[c] = "read" /\ resp[conn[c]] = <<>>
  /\ CloseSession(c) /\ Dead(c)
  /\ UNCHANGED <<files, daemon, pipes, call, pid, results>>

-----------------------------------------------------------------------------
(* shutdown_daemon: stale files are removed, or a daemon is asked to quit. *)
Shutdown(c) ==
  /\ pc[c] = "idle"
  /\ then' = [then EXCEPT ![c] = "idle"]
  /\ IF DaemonPid = None
     THEN Goto(c, "signal") /\ UNCHANGED <<conn, req, ret>>
     ELSE IF fifo = None \/ ~OtherEnd(fifo)
     THEN Return(c, "raised") /\ UNCHANGED <<conn, req>>
     ELSE /\ conn' = [conn EXCEPT ![c] = fifo]
          /\ req' = [req EXCEPT ![fifo] = Append(@, Line("quit", None, None))]
          /\ Goto(c, "quit")
          /\ UNCHANGED ret
  /\ UNCHANGED <<files, daemon, resp, call, pid, lockFd, held, results>>

(* It reads, whoever the lines are for, until the daemon has released the  *)
(* device, and gives up after a while.                                     *)
ShutdownRead(c) ==
  /\ pc[c] = "quit" /\ resp[conn[c]] # <<>>
  /\ resp' = [resp EXCEPT ![conn[c]] = Tail(@)]
  /\ Goto(c, IF Head(resp[conn[c]]).kind = "released" THEN "quitted" ELSE "quit")
  /\ UNCHANGED <<files, daemon, req, call, pid, then, session, ret>>

ShutdownKill(c) ==
  /\ \/ pc[c] = "quitted"
     \/ pc[c] = "quit" /\ resp[conn[c]] = <<>>
  /\ conn' = [conn EXCEPT ![c] = None]
  /\ Goto(c, "signal")
  /\ UNCHANGED <<files, daemon, pipes, call, pid, then, lockFd, held, results, ret>>

(* A client process ends, interrupted or between two calls, and another    *)
(* one takes its place.  Its locks are released and its children inherited *)
(* by init.                                                                *)
ProcessEnds(c) ==
  /\ pc[c] \in InterruptAt \cup {"idle"}
  /\ daemon' = [d \in Pairs |->
       IF daemon[d].parent # c THEN daemon[d]
       ELSE IF daemon[d].st = "zombie" THEN NoDaemon
       ELSE Daemon(daemon[d].st, daemon[d].bundle, None, daemon[d].job)]
  /\ Return(c, "none")
  /\ call' = [call EXCEPT ![c] = NoCall] /\ results' = [results EXCEPT ![c] = None]
  /\ pid' = [pid EXCEPT ![c] = None]
  /\ lockFd' = [lockFd EXCEPT ![c] = None] /\ held' = [held EXCEPT ![c] = {}]
  /\ conn' = [conn EXCEPT ![c] = None]
  /\ UNCHANGED <<files, pipes, then>>

-----------------------------------------------------------------------------
(* The daemon (external): it reports what it loaded, then answers one      *)
(* request after the other; it may die at any time.                        *)
Becomes(d, st, j) ==
  daemon' = [daemon EXCEPT ![d] = Daemon(st, @.bundle, @.parent, j)]
Say(d, lines) == resp' = [resp EXCEPT ![d] = @ \o lines]

DaemonLoads(d) ==
  /\ daemon[d].st = "load"
  /\ Becomes(d, "ready", None)
  /\ Say(d, <<Line("banner", None, None)>>)
  /\ UNCHANGED req

DaemonTakes(d) ==
  /\ daemon[d].st = "ready" /\ req[d] # <<>>
  /\ req' = [req EXCEPT ![d] = Tail(@)]
  /\ IF Head(req[d]).kind = "quit"
     THEN /\ daemon' = [daemon EXCEPT ![d] = Died(@)]
          /\ Say(d, <<Line("released", None, None)>>)
     ELSE /\ Becomes(d, "busy", Head(req[d]).job)
          /\ UNCHANGED resp

DaemonAnswers(d) ==
  /\ daemon[d].st = "busy"
  /\ Becomes(d, "ready", None)
  /\ \/ Say(d, << Line("out", daemon[d].job, daemon[d].bundle),
                  Line("status0", daemon[d].job, None) >>)
     \/ Say(d, << Line("failed", daemon[d].job, None) >>)
  /\ UNCHANGED req

DaemonDies(d) ==
  /\ Running(d)
  /\ daemon' = [daemon EXCEPT ![d] = Died(@)]
  /\ UNCHANGED pipes

DaemonServes(d) == DaemonLoads(d) \/ DaemonTakes(d) \/ DaemonAnswers(d)
DaemonStep(d) ==
  /\ DaemonServes(d) \/ DaemonDies(d)
  /\ UNCHANGED <<files, pc, call, pid, then, session, ret>>

-----------------------------------------------------------------------------
ClientStep(c) ==
  \/ EnsureDaemon(c) \/ KillSignal(c) \/ KillUnlink(c)
  \/ SpawnFifos(c) \/ SpawnPopen(c) \/ SpawnWritePid(c) \/ SpawnCheck(c)
  \/ OpenLock(c) \/ Flock(c) \/ OpenFifos(c)
  \/ WriteJob(c) \/ ReadLine(c) \/ ReadGivesUp(c)
  \/ ShutdownRead(c) \/ ShutdownKill(c)

Next ==
  \/ \E c \in Clients : \/ \E b \in Bundles : Submit(c, b)
                        \/ Shutdown(c) \/ ProcessEnds(c) \/ ClientStep(c)
  \/ \E d \in Pairs : DaemonStep(d)

Spec == Init /\ [][Next]_vars

-----------------------------------------------------------------------------
(* A call that returns has the output of its own job, computed by a daemon *)
(* that runs the bundle the caller asked for.                              *)
OwnResult == \A c \in Clients : ret[c] = "ok" => results[c] = call[c]

(* A connection has no pending bytes but the banner before its job is      *)
(* written (comment of _consume_banner).                                   *)
WarmConnectionClean ==
  \A c \in Clients : pc[c] = "write" =>
    /\ req[conn[c]] = <<>>
    /\ \A l \in ToSet(resp[conn[c]]) : l.kind = "banner"

(* No daemon runs that the pid file does not lead to, so that a shutdown   *)
(* always releases the device: the pid file is only behind while a client  *)
(* is between Popen and writing it.                                        *)
NoOrphan ==
  \A d \in Pairs : Running(d) =>
    pidFile = d \/ \E c \in Clients : pid[c] = d /\ pc[c] = "pidfile"

(* Once a failed submission has cleaned up, nothing of the daemon is left: *)
(* the next client starts a fresh one (module comment).                    *)
FailureCleans ==
  \A c \in Clients : ret[c] = "killed" =>
    /\ \A d \in Pairs : ~Running(d)
    /\ fifo = None /\ pidFile = None /\ metaFile = None

(* The session lock serializes clients (module comment).                   *)
SessionsSerial ==
  \A c, o \in Clients : c # o /\ conn[c] # None /\ conn[c] = conn[o] =>
    "quit" \in {pc[c], pc[o]} \/ "quitted" \in {pc[c], pc[o]}

=============================================================================
