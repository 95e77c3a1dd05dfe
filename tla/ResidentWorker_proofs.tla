------------------------ MODULE ResidentWorker_proofs ------------------------
(***************************************************************************)
(* What the resident worker guarantees a client that has it to itself, for *)
(* any bundles and any number of calls, processes and daemons.             *)
(*                                                                         *)
(* The argument follows one daemon.  The pid file leads to the only daemon *)
(* that may run; it runs the bundle of the meta file; and between calls    *)
(* its FIFOs are clean.  A submission owns the FIFOs from the line it      *)
(* writes to the status line it reads, and whoever leaves in between kills *)
(* the daemon before the next call looks for one.                          *)
(***************************************************************************)
EXTENDS ResidentWorker, SequenceTheorems, TLAPS

(* One client process at a time, ...                                       *)
Alone(c) == Clients = {c}
(* ... which may be interrupted anywhere but between Popen and the pid     *)
(* file, and between a request and the end of the daemon that may not have *)
(* answered it.                                                            *)
NothingPending == InterruptAt \cap {"pidfile", "read", "quit", "signal"} = {}

Bn == Line("banner", None, None)
Out(c) == Line("out", call[c].job, call[c].bundle)
Done(c) == Line("status0", call[c].job, None)
Failed(c) == Line("failed", call[c].job, None)
Ask(c) == Line("submit", call[c].job, None)
Quit == Line("quit", None, None)

Labels == {"idle", "ensure", "signal", "unlink", "spawn", "popen", "pidfile", "check",
           "lock", "flock", "open", "write", "read", "quit", "quitted"}
(* A submission is under way; ... and it has the daemon it asked for.      *)
Submitting == {"ensure", "spawn", "popen", "pidfile", "check", "lock", "flock", "open",
               "write", "read"}
Ensured == {"check", "lock", "flock", "open", "write", "read"}
(* Nobody waits for an answer of a daemon.                                 *)
Quiet == {"idle", "ensure", "pidfile", "check", "lock", "flock", "open", "write"}
(* No daemon runs.                                                         *)
Silent == {"unlink", "spawn", "popen", "quitted"}

TypeInv ==
  /\ fifo \in Pairs \cup {None} /\ pidFile \in Pairs \cup {None}
  /\ DOMAIN daemon = Pairs /\ DOMAIN req = Pairs /\ DOMAIN resp = Pairs
  /\ pc \in [Clients -> Labels]
  /\ call \in [Clients -> [job : Jobs \cup {None}, bundle : Bundles \cup {None}]]
  /\ pid \in [Clients -> Pairs \cup {None}]
  /\ conn \in [Clients -> Pairs \cup {None}]
  /\ then \in [Clients -> {"idle", "spawn"}]
  /\ DOMAIN results = Clients
  /\ ret \in [Clients -> {"none", "ok", "raised", "killed"}]

(* A call that has ended left its mark, one that has not has none.         *)
RetInv(c) ==
  /\ pc[c] \in Submitting => ret[c] = "none"
  /\ pc[c] \in {"signal", "unlink"} /\ then[c] = "spawn" => ret[c] = "none"
  /\ pc[c] \in {"quit", "quitted"} => then[c] = "idle"
  /\ ret[c] = "ok" => results[c] = call[c]

(* The daemon that a client is starting, and the one it started.           *)
SpawnInv(c) ==
  /\ pc[c] \in {"popen", "pidfile", "check"} => pid[c] \in Pairs
  /\ pc[c] = "popen" => req[pid[c]] = <<>> /\ resp[pid[c]] = <<>>
  /\ pc[c] = "pidfile" => daemon[pid[c]].bundle = call[c].bundle
  /\ pc[c] = "check" => pidFile = pid[c]
  /\ pc[c] \in Ensured => metaFile = call[c].bundle

(* The only daemon that may run, and what it runs.                         *)
DaemonInv(c) ==
  /\ \A d \in Pairs : Running(d) =>
       IF pc[c] = "pidfile" THEN pid[c] = d
       ELSE pidFile = d /\ metaFile = daemon[d].bundle
  /\ pc[c] \in Silent => \A d \in Pairs : ~Running(d)
  /\ ret[c] = "killed" => /\ \A d \in Pairs : ~Running(d)
                          /\ fifo = None /\ pidFile = None /\ metaFile = None

(* At most the banner is in the FIFOs.                                     *)
OnlyBanner(d) ==
  /\ daemon[d].st = "load" => resp[d] = <<>>
  /\ resp[d] = <<>> \/ resp[d] = <<Bn>>
Clean(d) == req[d] = <<>> /\ daemon[d].st # "busy" /\ OnlyBanner(d)

(* Where the request of a submission is: not taken yet, worked on,         *)
(* answered, half of the answer read, or lost with the daemon.             *)
Asked(c, d) ==
  /\ req[d] = <<Ask(c)>> /\ daemon[d].st # "busy" /\ OnlyBanner(d) /\ results[c] = None
Working(c, d) ==
  /\ req[d] = <<>> /\ daemon[d].st = "busy" /\ daemon[d].job = call[c].job
  /\ OnlyBanner(d) /\ results[c] = None
Answered(c, d) ==
  /\ req[d] = <<>> /\ daemon[d].st \notin {"busy", "load"} /\ results[c] = None
  /\ \/ resp[d] = <<Out(c), Done(c)>> \/ resp[d] = <<Bn, Out(c), Done(c)>>
     \/ resp[d] = <<Failed(c)>> \/ resp[d] = <<Bn, Failed(c)>>
HalfRead(c, d) ==
  /\ req[d] = <<>> /\ daemon[d].st \notin {"busy", "load"}
  /\ resp[d] = <<Done(c)>> /\ results[c] = call[c]
Lost(c, d) ==
  /\ req[d] = <<>> /\ ~Running(d) /\ OnlyBanner(d) /\ results[c] = None

(* What is in the FIFOs, at each point of a client.                        *)
PipeInv(c) ==
  /\ pc[c] \in {"write", "read", "quit"} => conn[c] \in Pairs /\ conn[c] = pidFile
  /\ pc[c] \in Quiet => \A d \in Pairs : Running(d) => Clean(d)
  /\ \/ pc[c] \in Submitting \ {"read"}
     \/ pc[c] \in {"signal", "unlink"} /\ then[c] = "spawn"
     => results[c] = None
  /\ pc[c] = "write" => Clean(conn[c])
  /\ pc[c] = "read" => LET d == conn[c] IN
       Asked(c, d) \/ Working(c, d) \/ Answered(c, d) \/ HalfRead(c, d) \/ Lost(c, d)
  /\ pc[c] = "quit" =>
       \/ ~Running(conn[c])
       \/ req[conn[c]] = <<Quit>> /\ daemon[conn[c]].st # "busy" /\ OnlyBanner(conn[c])

IInv(c) == TypeInv /\ RetInv(c) /\ SpawnInv(c) /\ DaemonInv(c) /\ PipeInv(c)

-----------------------------------------------------------------------------
(* Sequences of up to three lines.                                         *)
LEMMA ConcatTwo == ASSUME NEW a, NEW b PROVE <<a>> \o <<b>> = <<a, b>>
<1> DEFINE s == <<a>> \o <<b>>
           t == <<a, b>>
<1>1. <<a>> \in Seq({a, b}) /\ <<b>> \in Seq({a, b}) /\ t \in Seq({a, b})
  OBVIOUS
<1>2. s \in Seq({a, b}) /\ Len(s) = 2 /\ s[1] = a /\ s[2] = b
  BY <1>1, ConcatProperties
<1>3. Len(t) = 2 /\ t[1] = a /\ t[2] = b
  OBVIOUS
<1> HIDE DEF s, t
<1>4. s = t
  BY <1>1, <1>2, <1>3, SeqEqual
<1> QED
  BY <1>4 DEF s, t

LEMMA ConcatThree == ASSUME NEW a, NEW b, NEW d PROVE <<a>> \o <<b, d>> = <<a, b, d>>
<1> DEFINE s == <<a>> \o <<b, d>>
           t == <<a, b, d>>
           S == {a, b, d}
<1>1. <<a>> \in Seq(S) /\ <<b, d>> \in Seq(S) /\ t \in Seq(S)
  OBVIOUS
<1>2. s \in Seq(S) /\ Len(s) = 3 /\ s[1] = a /\ s[2] = b /\ s[3] = d
  BY <1>1, ConcatProperties
<1>3. Len(t) = 3 /\ t[1] = a /\ t[2] = b /\ t[3] = d
  OBVIOUS
<1> HIDE DEF s, t, S
<1>4. s = t
  BY <1>1, <1>2, <1>3, SeqEqual
<1> QED
  BY <1>4 DEF s, t

LEMMA Fresh1 == ASSUME NEW S, S # {} PROVE Fresh(S) \in S
  BY DEF Fresh

(* Every step is one of the client's, or one of a daemon's.                *)
LEMMA Steps ==
  ASSUME NEW c, Alone(c), [Next]_vars
  PROVE  \/ \E b \in Bundles : Submit(c, b)
         \/ Shutdown(c) \/ ProcessEnds(c) \/ ClientStep(c)
         \/ \E d \in Pairs : DaemonStep(d)
         \/ UNCHANGED vars
  BY DEF Alone, Next

(* A step of a daemon that runs leaves its bundle and the other daemons as *)
(* they are.                                                               *)
LEMMA DaemonStepFacts ==
  ASSUME NEW d \in Pairs, DaemonStep(d), DOMAIN daemon = Pairs
  PROVE  /\ Running(d)
         /\ DOMAIN daemon' = Pairs
         /\ \A e \in Pairs : daemon'[e].bundle = daemon[e].bundle
         /\ \A e \in Pairs : e # d => daemon'[e] = daemon[e]
<1>1. Running(d)
  BY DEF DaemonStep, DaemonServes, DaemonLoads, DaemonTakes, DaemonAnswers, DaemonDies, Running
<1>2. \E r : daemon' = [daemon EXCEPT ![d] = r] /\ r.bundle = daemon[d].bundle
  BY DEF DaemonStep, DaemonServes, DaemonLoads, DaemonTakes, DaemonAnswers, DaemonDies,
    Becomes, Died, Daemon
<1> QED
  BY <1>1, <1>2

LEMMA TypeStep ==
  ASSUME NEW c, Alone(c), IInv(c), [Next]_vars
  PROVE  TypeInv'
<1> USE DEF IInv, TypeInv, Alone, files, pipes, session, Goto, Return
<1>1. ASSUME NEW b \in Bundles, Submit(c, b) PROVE TypeInv'
  <2>1. Fresh(FreshJobs) \in Jobs
    BY <1>1, Fresh1 DEF Submit, FreshJobs
  <2> QED
    BY <1>1, <2>1 DEF Submit, Labels
<1>2. CASE Shutdown(c)
  BY <1>2 DEF Shutdown, Labels
<1>3. CASE ProcessEnds(c)
  BY <1>3 DEF ProcessEnds, Labels, NoDaemon, NoCall
<1>4. CASE EnsureDaemon(c)
  BY <1>4 DEF EnsureDaemon, Labels
<1>5. CASE KillSignal(c)
  BY <1>5 DEF KillSignal, Labels, Terminated, DaemonPid, PidAlive
<1>6. CASE KillUnlink(c)
  BY <1>6 DEF KillUnlink, Labels
<1>7. CASE SpawnFifos(c)
  <2>1. Fresh(FreshPairs) \in Pairs
    BY <1>7, Fresh1 DEF SpawnFifos, FreshPairs
  <2> QED
    BY <1>7, <2>1 DEF SpawnFifos, Labels, Kept
<1>8. CASE SpawnPopen(c)
  BY <1>8 DEF SpawnPopen, Labels, Reaped, NoDaemon
<1>9. CASE SpawnWritePid(c)
  BY <1>9 DEF SpawnWritePid, Labels
<1>10. CASE SpawnCheck(c)
  BY <1>10 DEF SpawnCheck, Labels, Reaped, NoDaemon
<1>11. CASE OpenLock(c)
  BY <1>11 DEF OpenLock, Labels
<1>12. CASE Flock(c)
  BY <1>12 DEF Flock, Labels
<1>13. CASE OpenFifos(c)
  BY <1>13 DEF OpenFifos, Labels
<1>14. CASE WriteJob(c)
  BY <1>14 DEF WriteJob, CloseSession, Labels
<1>15. CASE ReadLine(c)
  BY <1>15 DEF ReadLine, CloseSession, Dead, Labels
<1>16. CASE ReadGivesUp(c)
  BY <1>16 DEF ReadGivesUp, CloseSession, Dead, Labels
<1>17. CASE ShutdownRead(c)
  BY <1>17 DEF ShutdownRead, Labels
<1>18. CASE ShutdownKill(c)
  BY <1>18 DEF ShutdownKill, Labels
<1>19. ASSUME NEW d \in Pairs, DaemonStep(d) PROVE TypeInv'
  <2> USE DEF Becomes, Say, DaemonStep
  <2>1. CASE DaemonLoads(d)
    BY <1>19, <2>1 DEF DaemonLoads
  <2>2. CASE DaemonTakes(d)
    BY <1>19, <2>2 DEF DaemonTakes
  <2>3. CASE DaemonAnswers(d)
    BY <1>19, <2>3 DEF DaemonAnswers
  <2>4. CASE DaemonDies(d)
    BY <1>19, <2>4 DEF DaemonDies
  <2> QED
    BY <1>19, <2>1, <2>2, <2>3, <2>4 DEF DaemonServes
<1>20. CASE UNCHANGED vars
  BY <1>20 DEF vars
<1> QED
  BY Steps, <1>1, <1>2, <1>3, <1>4, <1>5, <1>6, <1>7, <1>8, <1>9, <1>10, <1>11, <1>12, <1>13,
    <1>14, <1>15, <1>16, <1>17, <1>18, <1>19, <1>20 DEF ClientStep

(* The next line that a submission reads, and what it leaves.              *)
ReadCase(c, d, l, r) ==
  \/ l = Bn /\ r = <<>> /\ (Asked(c, d) \/ Working(c, d) \/ Lost(c, d))
  \/ l = Bn /\ r = <<Out(c), Done(c)>> /\ Answered(c, d)
  \/ l = Bn /\ r = <<Failed(c)>> /\ Answered(c, d)
  \/ l = Out(c) /\ r = <<Done(c)>> /\ Answered(c, d)
  \/ l = Failed(c) /\ r = <<>> /\ Answered(c, d)
  \/ l = Done(c) /\ r = <<>> /\ HalfRead(c, d)

LEMMA ReadCases ==
  ASSUME NEW c, IInv(c), pc[c] = "read", resp[conn[c]] # <<>>
  PROVE  ReadCase(c, conn[c], Head(resp[conn[c]]), Tail(resp[conn[c]]))
<1> DEFINE d == conn[c]
<1>1. CASE Asked(c, d) \/ Working(c, d) \/ Lost(c, d)
  <2>1. resp[d] = <<Bn>>
    BY <1>1 DEF Asked, Working, Lost, OnlyBanner
  <2> QED
    BY <1>1, <2>1 DEF ReadCase
<1>2. CASE Answered(c, d)
  <2>1. CASE resp[d] = <<Out(c), Done(c)>>
    BY <1>2, <2>1 DEF ReadCase
  <2>2. CASE resp[d] = <<Bn, Out(c), Done(c)>>
    BY <1>2, <2>2 DEF ReadCase
  <2>3. CASE resp[d] = <<Failed(c)>>
    BY <1>2, <2>3 DEF ReadCase
  <2>4. CASE resp[d] = <<Bn, Failed(c)>>
    BY <1>2, <2>4 DEF ReadCase
  <2> QED
    BY <1>2, <2>1, <2>2, <2>3, <2>4 DEF Answered
<1>3. CASE HalfRead(c, d)
  BY <1>3 DEF ReadCase, HalfRead
<1> QED
  BY <1>1, <1>2, <1>3 DEF IInv, PipeInv

LEMMA LineKinds ==
  ASSUME NEW c
  PROVE  /\ Bn.kind = "banner" /\ Quit.kind = "quit" /\ Ask(c).kind = "submit"
         /\ Ask(c).job = call[c].job
         /\ Out(c).kind = "out" /\ Done(c).kind = "status0" /\ Failed(c).kind = "failed"
         /\ Out(c).job = call[c].job /\ Out(c).bundle = call[c].bundle
  BY DEF Line, Bn, Quit, Ask, Out, Done, Failed

LEMMA RetStep ==
  ASSUME NEW c, Alone(c), IInv(c), [Next]_vars
  PROVE  RetInv(c)'
<1> USE DEF IInv, TypeInv, RetInv, Alone, files, pipes, session, Goto, Return, Submitting
<1>1. ASSUME NEW b \in Bundles, Submit(c, b) PROVE RetInv(c)'
  BY <1>1 DEF Submit
<1>2. CASE Shutdown(c)
  BY <1>2 DEF Shutdown
<1>3. CASE ProcessEnds(c)
  BY <1>3 DEF ProcessEnds
<1>4. CASE EnsureDaemon(c)
  BY <1>4 DEF EnsureDaemon
<1>5. CASE KillSignal(c)
  BY <1>5 DEF KillSignal
<1>6. CASE KillUnlink(c)
  BY <1>6 DEF KillUnlink
<1>7. CASE SpawnFifos(c)
  BY <1>7 DEF SpawnFifos
<1>8. CASE SpawnPopen(c)
  BY <1>8 DEF SpawnPopen
<1>9. CASE SpawnWritePid(c)
  BY <1>9 DEF SpawnWritePid
<1>10. CASE SpawnCheck(c)
  BY <1>10 DEF SpawnCheck
<1>11. CASE OpenLock(c)
  BY <1>11 DEF OpenLock
<1>12. CASE Flock(c)
  BY <1>12 DEF Flock
<1>13. CASE OpenFifos(c)
  BY <1>13 DEF OpenFifos
<1>14. CASE WriteJob(c)
  BY <1>14 DEF WriteJob, CloseSession
<1>15. CASE ReadLine(c)
  <2>1. Head(resp[conn[c]]).kind = "status0" => results[c] = call[c]
    BY <1>15, ReadCases, LineKinds DEF ReadLine, ReadCase, HalfRead
  <2> QED
    BY <1>15, <2>1 DEF ReadLine, CloseSession, Dead
<1>16. CASE ReadGivesUp(c)
  BY <1>16 DEF ReadGivesUp, CloseSession, Dead
<1>17. CASE ShutdownRead(c)
  BY <1>17 DEF ShutdownRead
<1>18. CASE ShutdownKill(c)
  BY <1>18 DEF ShutdownKill
<1>19. ASSUME NEW d \in Pairs, DaemonStep(d) PROVE RetInv(c)'
  BY <1>19 DEF DaemonStep
<1>20. CASE UNCHANGED vars
  BY <1>20 DEF vars
<1> QED
  BY Steps, <1>1, <1>2, <1>3, <1>4, <1>5, <1>6, <1>7, <1>8, <1>9, <1>10, <1>11, <1>12, <1>13,
    <1>14, <1>15, <1>16, <1>17, <1>18, <1>19, <1>20 DEF ClientStep

LEMMA SpawnStep ==
  ASSUME NEW c, Alone(c), IInv(c), [Next]_vars
  PROVE  SpawnInv(c)'
<1> USE DEF IInv, TypeInv, SpawnInv, Alone, files, pipes, session, Goto, Return, Ensured
<1>1. ASSUME NEW b \in Bundles, Submit(c, b) PROVE SpawnInv(c)'
  BY <1>1 DEF Submit
<1>2. CASE Shutdown(c)
  BY <1>2 DEF Shutdown
<1>3. CASE ProcessEnds(c)
  BY <1>3 DEF ProcessEnds
<1>4. CASE EnsureDaemon(c)
  BY <1>4 DEF EnsureDaemon, SameConfig
<1>5. CASE KillSignal(c)
  BY <1>5 DEF KillSignal
<1>6. CASE KillUnlink(c)
  BY <1>6 DEF KillUnlink
<1>7. CASE SpawnFifos(c)
  <2> DEFINE p == Fresh(FreshPairs)
  <2>1. p \in FreshPairs
    BY <1>7, Fresh1 DEF SpawnFifos
  <2>2. p \in Pairs /\ ~Open(p)
    BY <2>1 DEF FreshPairs, Open, Running
  <2> HIDE DEF p
  <2>3. /\ pc' = [pc EXCEPT ![c] = "popen"] /\ pid' = [pid EXCEPT ![c] = p]
        /\ req' = Kept(req) /\ resp' = Kept(resp)
    BY <1>7 DEF SpawnFifos, p
  <2> QED
    BY <2>2, <2>3 DEF Kept
<1>8. CASE SpawnPopen(c)
  BY <1>8 DEF SpawnPopen, Reaped, Daemon
<1>9. CASE SpawnWritePid(c)
  BY <1>9 DEF SpawnWritePid
<1>10. CASE SpawnCheck(c)
  BY <1>10 DEF SpawnCheck
<1>11. CASE OpenLock(c)
  BY <1>11 DEF OpenLock
<1>12. CASE Flock(c)
  BY <1>12 DEF Flock
<1>13. CASE OpenFifos(c)
  BY <1>13 DEF OpenFifos
<1>14. CASE WriteJob(c)
  BY <1>14 DEF WriteJob, CloseSession
<1>15. CASE ReadLine(c)
  BY <1>15 DEF ReadLine, CloseSession, Dead
<1>16. CASE ReadGivesUp(c)
  BY <1>16 DEF ReadGivesUp, CloseSession, Dead
<1>17. CASE ShutdownRead(c)
  BY <1>17 DEF ShutdownRead
<1>18. CASE ShutdownKill(c)
  BY <1>18 DEF ShutdownKill
<1>19. ASSUME NEW d \in Pairs, DaemonStep(d) PROVE SpawnInv(c)'
  BY <1>19, DaemonStepFacts DEF DaemonStep, DaemonInv, Silent
<1>20. CASE UNCHANGED vars
  BY <1>20 DEF vars
<1> QED
  BY Steps, <1>1, <1>2, <1>3, <1>4, <1>5, <1>6, <1>7, <1>8, <1>9, <1>10, <1>11, <1>12, <1>13,
    <1>14, <1>15, <1>16, <1>17, <1>18, <1>19, <1>20 DEF ClientStep

(* A client has no FIFO open to a daemon that is not there yet.            *)
LEMMA OtherEndRuns ==
  ASSUME NEW c, Alone(c), pc[c] # "popen", NEW p
  PROVE  OtherEnd(p) <=> Running(p)
  BY DEF Alone, OtherEnd

LEMMA DaemonInvStep ==
  ASSUME NEW c, Alone(c), NothingPending, IInv(c), [Next]_vars
  PROVE  DaemonInv(c)'
<1> USE DEF IInv, TypeInv, RetInv, DaemonInv, Alone, files, pipes, session, Goto, Return,
            Silent, Running
<1>1. ASSUME NEW b \in Bundles, Submit(c, b) PROVE DaemonInv(c)'
  BY <1>1 DEF Submit
<1>2. CASE Shutdown(c)
  BY <1>2, NoneAssumption DEF Shutdown, DaemonPid, PidAlive
<1>3. CASE ProcessEnds(c)
  <2>1. \A e \in Pairs : /\ Running(e)' <=> Running(e)
                         /\ Running(e)' => daemon'[e].bundle = daemon[e].bundle
    BY <1>3 DEF ProcessEnds, NoDaemon, Daemon
  <2>2. pc[c] # "pidfile"
    BY <1>3 DEF ProcessEnds, NothingPending
  <2> QED
    BY <1>3, <2>1, <2>2 DEF ProcessEnds
<1>4. CASE EnsureDaemon(c)
  BY <1>4, NoneAssumption DEF EnsureDaemon, DaemonPid, PidAlive
<1>5. CASE KillSignal(c)
  <2>1. \A e \in Pairs : ~Running(e)'
    BY <1>5, NoneAssumption DEF KillSignal, Terminated, DaemonPid, PidAlive, Died, Daemon
  <2> QED
    BY <1>5, <2>1 DEF KillSignal
<1>6. CASE KillUnlink(c)
  BY <1>6 DEF KillUnlink
<1>7. CASE SpawnFifos(c)
  BY <1>7 DEF SpawnFifos, Submitting
<1>8. CASE SpawnPopen(c)
  <2>1. \A e \in Pairs : Running(e)' => e = pid[c]
    BY <1>8 DEF SpawnPopen, Reaped, NoDaemon, Daemon
  <2>2. daemon'[pid[c]].bundle = call[c].bundle
    BY <1>8 DEF SpawnPopen, Reaped, Daemon, SpawnInv
  <2> QED
    BY <1>8, <2>1, <2>2 DEF SpawnPopen, Submitting
<1>9. CASE SpawnWritePid(c)
  BY <1>9 DEF SpawnWritePid, Submitting, SpawnInv
<1>10. CASE SpawnCheck(c)
  <2>1. \A e \in Pairs : Running(e)' => Running(e) /\ daemon'[e].bundle = daemon[e].bundle
    BY <1>10 DEF SpawnCheck, Reaped, NoDaemon, Daemon
  <2> QED
    BY <1>10, <2>1 DEF SpawnCheck, Submitting
<1>11. CASE OpenLock(c)
  BY <1>11 DEF OpenLock
<1>12. CASE Flock(c)
  BY <1>12 DEF Flock
<1>13. CASE OpenFifos(c)
  BY <1>13 DEF OpenFifos
<1>14. CASE WriteJob(c)
  BY <1>14 DEF WriteJob, CloseSession
<1>15. CASE ReadLine(c)
  BY <1>15 DEF ReadLine, CloseSession, Dead
<1>16. CASE ReadGivesUp(c)
  BY <1>16 DEF ReadGivesUp, CloseSession, Dead
<1>17. CASE ShutdownRead(c)
  <2>1. Head(resp[conn[c]]).kind = "released" => \A e \in Pairs : ~Running(e)
    BY <1>17, LineKinds DEF ShutdownRead, PipeInv, OnlyBanner
  <2> QED
    BY <1>17, <2>1 DEF ShutdownRead
<1>18. CASE ShutdownKill(c)
  BY <1>18 DEF ShutdownKill
<1>19. ASSUME NEW d \in Pairs, DaemonStep(d) PROVE DaemonInv(c)'
  BY <1>19, DaemonStepFacts DEF DaemonStep
<1>20. CASE UNCHANGED vars
  BY <1>20 DEF vars
<1> QED
  BY Steps, <1>1, <1>2, <1>3, <1>4, <1>5, <1>6, <1>7, <1>8, <1>9, <1>10, <1>11, <1>12, <1>13,
    <1>14, <1>15, <1>16, <1>17, <1>18, <1>19, <1>20 DEF ClientStep

LEMMA PipeClientStep ==
  ASSUME NEW c, Alone(c), NothingPending, IInv(c), [Next]_vars,
         ~\E d \in Pairs : DaemonStep(d)
  PROVE  PipeInv(c)'
<1> USE DEF IInv, TypeInv, PipeInv, Alone, files, pipes, session, Goto, Return, Quiet, Submitting
<1>1. ASSUME NEW b \in Bundles, Submit(c, b) PROVE PipeInv(c)'
  BY <1>1 DEF Submit, Clean, OnlyBanner, Running
<1>2. CASE Shutdown(c)
  <2>1. CASE UNCHANGED req
    BY <1>2, <2>1 DEF Shutdown, Clean, OnlyBanner, Running
  <2>2. CASE ~UNCHANGED req
    <3>1. /\ fifo \in Pairs /\ OtherEnd(fifo)
          /\ conn'[c] = fifo /\ pc'[c] = "quit"
          /\ req' = [req EXCEPT ![fifo] = Append(@, Quit)]
      BY <1>2, <2>2 DEF Shutdown, Quit
    <3>2. Running(fifo) /\ pidFile = fifo /\ Clean(fifo)
      BY <1>2, <3>1, OtherEndRuns DEF Shutdown, DaemonInv
    <3>3. req'[fifo] = <<Quit>>
      BY <3>1, <3>2 DEF Clean
    <3>4. UNCHANGED <<daemon, resp, pidFile>>
      BY <1>2 DEF Shutdown
    <3> QED
      BY <3>1, <3>2, <3>3, <3>4 DEF Clean, OnlyBanner, Bn, Line, Running, Quit
  <2> QED
    BY <2>1, <2>2
<1>3. CASE ProcessEnds(c)
  <2>1. \A e \in Pairs : Running(e)' => Running(e) /\ daemon'[e].st = daemon[e].st
    BY <1>3 DEF ProcessEnds, NoDaemon, Daemon, Running
  <2>2. pc[c] \in Quiet \/ \A e \in Pairs : ~Running(e)
    BY <1>3 DEF ProcessEnds, NothingPending, DaemonInv, Silent, Labels
  <2> QED
    BY <1>3, <2>1, <2>2 DEF ProcessEnds, Clean, OnlyBanner, Bn, Line
<1>4. CASE EnsureDaemon(c)
  BY <1>4 DEF EnsureDaemon, Clean, OnlyBanner, Running, Bn, Line
<1>5. CASE KillSignal(c)
  BY <1>5 DEF KillSignal
<1>6. CASE KillUnlink(c)
  BY <1>6 DEF KillUnlink, DaemonInv, Silent, Running
<1>7. CASE SpawnFifos(c)
  BY <1>7 DEF SpawnFifos
<1>8. CASE SpawnPopen(c)
  <2>1. \A e \in Pairs : Running(e)' => e = pid[c]
    BY <1>8 DEF SpawnPopen, Reaped, NoDaemon, Daemon, DaemonInv, Silent, Running
  <2>2. Clean(pid[c])'
    BY <1>8 DEF SpawnPopen, Reaped, Daemon, SpawnInv, Clean, OnlyBanner
  <2> QED
    BY <1>8, <2>1, <2>2 DEF SpawnPopen
<1>9. CASE SpawnWritePid(c)
  BY <1>9 DEF SpawnWritePid, Clean, OnlyBanner, Running, Bn, Line
<1>10. CASE SpawnCheck(c)
  <2>1. \A e \in Pairs : Running(e)' => Running(e) /\ daemon'[e] = daemon[e]
    BY <1>10 DEF SpawnCheck, Reaped, NoDaemon, Daemon, Running
  <2> QED
    BY <1>10, <2>1 DEF SpawnCheck, Clean, OnlyBanner, Bn, Line
<1>11. CASE OpenLock(c)
  BY <1>11 DEF OpenLock, Clean, OnlyBanner, Running, Bn, Line
<1>12. CASE Flock(c)
  BY <1>12 DEF Flock, Clean, OnlyBanner, Running, Bn, Line
<1>13. CASE OpenFifos(c)
  BY <1>13, OtherEndRuns DEF OpenFifos, Clean, OnlyBanner, Running, Bn, Line, DaemonInv
<1>14. CASE WriteJob(c)
  BY <1>14, OtherEndRuns DEF WriteJob, CloseSession, Clean, OnlyBanner, Running, Bn, Line, Asked, Ask, DaemonInv
<1>15. CASE ReadLine(c)
  <2>0. PICK d : d = conn[c]
    OBVIOUS
  <2> DEFINE l == Head(resp[d])
             r == Tail(resp[d])
  <2>1. ReadCase(c, d, l, r) /\ d \in Pairs /\ d = pidFile /\ d = conn[c]
    BY <1>15, <2>0, ReadCases DEF ReadLine
  <2>2. UNCHANGED <<daemon, req, call, pidFile>> /\ resp' = [resp EXCEPT ![d] = r]
    BY <1>15, <2>0 DEF ReadLine
  <2>3. UNCHANGED <<Out(c), Done(c), Failed(c), Ask(c)>>
    BY <2>2 DEF Out, Done, Failed, Ask
  <2>4. resp'[d] = r
    BY <2>1, <2>2
  <2>5. CASE l = Bn
    <3>1. UNCHANGED <<pc, conn, results>>
      BY <1>15, <2>0, <2>5, LineKinds DEF ReadLine
    <3>2. CASE r = <<>> /\ (Asked(c, d) \/ Working(c, d) \/ Lost(c, d))
      BY <1>15, <2>1, <2>2, <2>3, <2>4, <3>1, <3>2
        DEF ReadLine, Asked, Working, Lost, OnlyBanner, Running
    <3>3. CASE (r = <<Out(c), Done(c)>> \/ r = <<Failed(c)>>) /\ Answered(c, d)
      BY <1>15, <2>1, <2>2, <2>3, <2>4, <3>1, <3>3 DEF ReadLine, Answered
    <3> QED
      BY <2>1, <2>5, <3>2, <3>3, LineKinds DEF ReadCase
  <2>6. CASE l = Out(c)
    <3>1. results'[c] = call[c] /\ UNCHANGED <<pc, conn>>
      BY <1>15, <2>0, <2>6, LineKinds DEF ReadLine
    <3>2. r = <<Done(c)>> /\ Answered(c, d)
      BY <2>1, <2>6, LineKinds DEF ReadCase
    <3> QED
      BY <1>15, <2>1, <2>2, <2>3, <2>4, <3>1, <3>2 DEF ReadLine, Answered, HalfRead
  <2>7. CASE l = Failed(c)
    BY <1>15, <2>0, <2>7, LineKinds DEF ReadLine, CloseSession, Dead
  <2>8. CASE l = Done(c)
    <3>1. r = <<>> /\ HalfRead(c, d)
      BY <2>1, <2>8, LineKinds DEF ReadCase
    <3>2. Clean(d)'
      BY <2>2, <2>4, <3>1 DEF Clean, OnlyBanner, HalfRead
    <3>3. pc'[c] = "idle"
      BY <1>15, <2>0, <2>8, LineKinds DEF ReadLine, CloseSession
    <3>4. \A e \in Pairs : Running(e)' => e = d
      BY <1>15, <2>1, <2>2 DEF ReadLine, DaemonInv, Running
    <3> QED
      BY <3>2, <3>3, <3>4
  <2> QED
    BY <2>1, <2>5, <2>6, <2>7, <2>8 DEF ReadCase
<1>16. CASE ReadGivesUp(c)
  BY <1>16 DEF ReadGivesUp, CloseSession, Dead
<1>17. CASE ShutdownRead(c)
  <2>1. PICK d : d = conn[c]
    OBVIOUS
  <2>2. /\ pc[c] = "quit" /\ pc'[c] \in {"quit", "quitted"} /\ d \in Pairs /\ resp[d] # <<>>
        /\ resp'[d] = Tail(resp[d]) /\ UNCHANGED <<daemon, req, conn, pidFile, results, then>>
    <3>1. d \in Pairs
      BY <1>17, <2>1 DEF ShutdownRead
    <3> QED
      BY <1>17, <2>1, <3>1 DEF ShutdownRead
  <2>3. OnlyBanner(d) => OnlyBanner(d)'
    <3>1. Tail(<<Bn>>) = <<>>
      OBVIOUS
    <3>2. OnlyBanner(d) => resp'[d] = <<>>
      BY <2>2, <3>1 DEF OnlyBanner
    <3> QED
      BY <3>2 DEF OnlyBanner
  <2>4. \/ ~Running(d)'
        \/ req'[d] = <<Quit>> /\ daemon'[d].st # "busy" /\ OnlyBanner(d)'
    BY <2>1, <2>2, <2>3 DEF Running
  <2> HIDE DEF IInv, TypeInv
  <2> QED
    BY <2>1, <2>2, <2>4 DEF IInv
<1>18. CASE ShutdownKill(c)
  BY <1>18 DEF ShutdownKill, RetInv
<1>19. CASE UNCHANGED vars
  BY <1>19 DEF vars, Clean, OnlyBanner, Running, Bn, Line, Asked, Ask, Working, Answered, HalfRead,
     Lost, Out, Done, Failed, Quit
<1> QED
  BY Steps, <1>1, <1>2, <1>3, <1>4, <1>5, <1>6, <1>7, <1>8, <1>9, <1>10, <1>11, <1>12, <1>13,
    <1>14, <1>15, <1>16, <1>17, <1>18, <1>19 DEF ClientStep

LEMMA PipeDaemonStep ==
  ASSUME NEW c, Alone(c), IInv(c), NEW d \in Pairs, DaemonStep(d)
  PROVE  PipeInv(c)'
<1> USE DEF IInv, TypeInv, PipeInv, Alone, files, session, Quiet, Submitting
<1>1. /\ UNCHANGED <<pc, conn, pidFile, results, then, call>>
      /\ \A e \in Pairs : e # d => daemon'[e] = daemon[e]
      /\ Running(d) /\ pc[c] \notin Silent
      /\ pc[c] # "pidfile" => pidFile = d
      /\ \A e \in Pairs : Running(e) => e = d
  BY DaemonStepFacts DEF DaemonStep, DaemonInv
<1>2. UNCHANGED <<Out(c), Done(c), Failed(c), Ask(c)>>
  BY <1>1 DEF Out, Done, Failed, Ask
<1>3. \A e \in Pairs : Running(e)' => e = d
  BY <1>1 DEF Running
<1>4. CASE pc[c] \in Quiet
  <2>1. Clean(d)
    BY <1>1, <1>4
  <2>2. Clean(d)'
    <3>1. CASE DaemonLoads(d)
      BY <2>1, <3>1 DEF DaemonLoads, Clean, OnlyBanner, Becomes, Daemon, Say, Bn
    <3>2. CASE DaemonDies(d)
      BY <2>1, <3>2 DEF DaemonDies, Clean, OnlyBanner, Died, Daemon, pipes
    <3> QED
      BY <2>1, <3>1, <3>2 DEF DaemonStep, DaemonServes, DaemonTakes, DaemonAnswers, Clean
  <2> QED
    BY <1>1, <1>3, <1>4, <2>2
<1>5. CASE pc[c] = "read"
  <2>1. d = conn[c]
    BY <1>1, <1>5
  <2>2. CASE DaemonLoads(d)
    <3>1. Asked(c, d)
      BY <1>5, <2>1, <2>2 DEF DaemonLoads, Working, Answered, HalfRead, Lost, Running
    <3>2. Asked(c, d)'
      BY <1>1, <1>2, <2>2, <3>1 DEF DaemonLoads, Asked, OnlyBanner, Becomes, Daemon, Say, Bn
    <3> QED
      BY <1>1, <1>5, <2>1, <3>2
  <2>3. CASE DaemonTakes(d)
    <3>1. Asked(c, d)
      BY <1>5, <2>1, <2>3 DEF DaemonTakes, Working, Answered, HalfRead, Lost, Running
    <3>2. Head(req[d]) = Ask(c) /\ Tail(req[d]) = <<>>
      BY <3>1 DEF Asked
    <3>3. Working(c, d)'
      BY <1>1, <2>3, <3>1, <3>2, LineKinds
        DEF DaemonTakes, Asked, Working, OnlyBanner, Becomes, Daemon
    <3> QED
      BY <1>1, <1>5, <2>1, <3>3
  <2>4. CASE DaemonAnswers(d)
    <3>1. Working(c, d)
      BY <1>5, <2>1, <2>4 DEF DaemonAnswers, Asked, Answered, HalfRead, Lost, Running
    <3>2. daemon[d].bundle = call[c].bundle
      BY <1>1, <1>5 DEF DaemonInv, SpawnInv, Ensured
    <3>3. /\ Line("out", daemon[d].job, daemon[d].bundle) = Out(c)
          /\ Line("status0", daemon[d].job, None) = Done(c)
          /\ Line("failed", daemon[d].job, None) = Failed(c)
      BY <3>1, <3>2 DEF Working, Out, Done, Failed
    <3>4. \/ resp'[d] = resp[d] \o <<Out(c), Done(c)>>
          \/ resp'[d] = resp[d] \o <<Failed(c)>>
      BY <2>4, <3>3 DEF DaemonAnswers, Say
    <3>5. \/ resp'[d] = <<Out(c), Done(c)>> \/ resp'[d] = <<Bn, Out(c), Done(c)>>
          \/ resp'[d] = <<Failed(c)>> \/ resp'[d] = <<Bn, Failed(c)>>
      <4>1. CASE resp[d] = <<>>
        BY <3>4, <4>1
      <4>2. CASE resp[d] = <<Bn>>
        BY <3>4, <4>2, ConcatTwo, ConcatThree
      <4> QED
        BY <3>1, <4>1, <4>2 DEF Working, OnlyBanner
    <3>6. Answered(c, d)'
      BY <1>1, <1>2, <2>4, <3>1, <3>5
        DEF DaemonAnswers, Working, Answered, Becomes, Daemon
    <3> QED
      BY <1>1, <1>5, <2>1, <3>6
  <2>5. CASE DaemonDies(d)
    <3>1. ~Running(d)' /\ daemon'[d].st \notin {"busy", "load"} /\ UNCHANGED <<req, resp>>
      BY <2>5 DEF DaemonDies, Died, Daemon, pipes, Running
    <3>2. Asked(c, d)' \/ Answered(c, d)' \/ HalfRead(c, d)' \/ Lost(c, d)'
      BY <1>1, <1>2, <1>5, <2>1, <3>1 DEF Asked, Working, Answered, HalfRead, Lost, OnlyBanner
    <3> QED
      BY <1>1, <1>5, <2>1, <3>2
  <2> QED
    BY <2>2, <2>3, <2>4, <2>5 DEF DaemonStep, DaemonServes
<1>6. CASE pc[c] = "quit"
  <2>1. d = conn[c] /\ req[d] = <<Quit>> /\ daemon[d].st # "busy" /\ OnlyBanner(d)
    BY <1>1, <1>6
  <2>2. CASE DaemonLoads(d)
    BY <1>1, <1>6, <2>1, <2>2 DEF DaemonLoads, OnlyBanner, Becomes, Daemon, Say, Bn
  <2>3. CASE DaemonTakes(d)
    <3>1. Head(req[d]).kind = "quit"
      BY <2>1, LineKinds
    <3>2. ~Running(d)'
      BY <2>3, <3>1 DEF DaemonTakes, Died, Daemon, Running
    <3> QED
      BY <1>1, <1>6, <2>1, <3>2
  <2>4. CASE DaemonDies(d)
    <3>1. ~Running(d)'
      BY <2>4 DEF DaemonDies, Died, Daemon, Running
    <3> QED
      BY <1>1, <1>6, <2>1, <3>1
  <2> QED
    BY <2>1, <2>2, <2>3, <2>4 DEF DaemonStep, DaemonServes, DaemonAnswers
<1>7. CASE pc[c] = "signal"
  BY <1>1, <1>7
<1> QED
  BY <1>1, <1>4, <1>5, <1>6, <1>7 DEF Labels, Silent

LEMMA Inductive ==
  ASSUME NEW c, Alone(c), NothingPending
  PROVE  Spec => []IInv(c)
<1>1. Init => IInv(c)
  BY NoneAssumption DEF Init, IInv, TypeInv, RetInv, SpawnInv, DaemonInv, PipeInv, Alone,
    Labels, Submitting, Ensured, Quiet, Silent, NoCall, NoDaemon, Daemon, Running
<1>2. IInv(c) /\ [Next]_vars => IInv(c)'
  <2> SUFFICES ASSUME IInv(c), [Next]_vars PROVE IInv(c)'
    OBVIOUS
  <2>1. PipeInv(c)'
    BY PipeClientStep, PipeDaemonStep
  <2> QED
    BY <2>1, TypeStep, RetStep, SpawnStep, DaemonInvStep DEF IInv
<1> QED
  BY <1>1, <1>2, PTL DEF Spec

-----------------------------------------------------------------------------
(* A client that has the worker to itself: one at a time, interrupted only *)
(* where nothing of it is pending.                                         *)
Serial == NothingPending /\ \E c : Alone(c)

(* AneIsland.submit returns the output of its own job, computed with the   *)
(* bundle it asked for, however often daemons die, fail, are replaced or   *)
(* are shut down in between.                                               *)
THEOREM OwnResultHolds == Serial => (Spec => []OwnResult)
<1> SUFFICES ASSUME Serial PROVE Spec => []OwnResult
  OBVIOUS
<1>1. PICK c : Alone(c)
  BY DEF Serial
<1>2. IInv(c) => OwnResult
  BY <1>1 DEF IInv, RetInv, OwnResult, Alone
<1>3. Spec => []IInv(c)
  BY <1>1, Inductive DEF Serial
<1> QED
  BY <1>2, <1>3, PTL

(* A job is written only to a connection with no bytes of an earlier one:  *)
(* what _consume_banner relies on.                                         *)
THEOREM WarmConnectionCleanHolds == Serial => (Spec => []WarmConnectionClean)
<1> SUFFICES ASSUME Serial PROVE Spec => []WarmConnectionClean
  OBVIOUS
<1>1. PICK c : Alone(c)
  BY DEF Serial
<1>2. IInv(c) => WarmConnectionClean
  <2>1. ToSet(<<>>) = {} /\ ToSet(<<Bn>>) = {Bn}
    BY DEF ToSet
  <2> QED
    BY <1>1, <2>1, LineKinds DEF IInv, PipeInv, Clean, OnlyBanner, WarmConnectionClean, Alone
<1>3. Spec => []IInv(c)
  BY <1>1, Inductive DEF Serial
<1> QED
  BY <1>2, <1>3, PTL

(* No daemon runs that the pid file, or the client about to write it, does *)
(* not lead to: a shutdown always finds the daemon that holds the device.  *)
THEOREM NoOrphanHolds == Serial => (Spec => []NoOrphan)
<1> SUFFICES ASSUME Serial PROVE Spec => []NoOrphan
  OBVIOUS
<1>1. PICK c : Alone(c)
  BY DEF Serial
<1>2. IInv(c) => NoOrphan
  BY <1>1 DEF IInv, DaemonInv, NoOrphan, Alone
<1>3. Spec => []IInv(c)
  BY <1>1, Inductive DEF Serial
<1> QED
  BY <1>2, <1>3, PTL

(* A submission that failed leaves no daemon and none of its files behind. *)
THEOREM FailureCleansHolds == Serial => (Spec => []FailureCleans)
<1> SUFFICES ASSUME Serial PROVE Spec => []FailureCleans
  OBVIOUS
<1>1. PICK c : Alone(c)
  BY DEF Serial
<1>2. IInv(c) => FailureCleans
  BY <1>1 DEF IInv, DaemonInv, FailureCleans, Alone
<1>3. Spec => []IInv(c)
  BY <1>1, Inductive DEF Serial
<1> QED
  BY <1>2, <1>3, PTL

=============================================================================
