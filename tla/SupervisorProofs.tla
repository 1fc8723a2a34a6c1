-------------------------- MODULE SupervisorProofs --------------------------
(***************************************************************************)
(* Proofs about Supervisor, for any number of restart attempts, of health  *)
(* checks and of processes.                                                *)
(***************************************************************************)
EXTENDS Supervisor, TLAPS

USE SupervisorAssumption DEF Procs

-----------------------------------------------------------------------------
(* The invariant.                                                          *)

\* Where the monitor is, in the order of the code: watching a process, in an
\* attempt that has not started one yet, in one that has, or at its end.
Watching == {"wait", "read"}
Before == {"mark", "backoff", "spawn", "fork"}
After == HealthLoop \cup {"spawned", "healthy", "unhealthy"}

\* No monitor runs before Start has recorded the process it watches.
BootFirst ==
  /\ boot.pc \in {"start", "spawned"} => mon.pc = "none"
  /\ mon.pc = "none" => boot.pc \in {"start", "spawned", "failed"}
  /\ boot.pc = "start" => started = 0
  /\ boot.pc = "spawned" => started = 1
  /\ mon.pc = "none" => mon.attempt = 0 /\ cmd = 0

\* The loops of waitReady and restart stay within their tables of delays.
Counted ==
  /\ boot.pc = "get" => boot.tries < HealthTries
  /\ mon.pc = "get" => mon.tries < HealthTries
  /\ mon.pc \notin {"giveup", "ended"} => mon.attempt < RestartTries
  /\ mon.pc \in Watching => mon.attempt = 0

\* Processes are numbered as they are started, and one exits by itself only if
\* as many numbers as attempts are left.
ProcsAgree ==
  /\ \A p \in Procs : p > started => proc[p] = "none"
  /\ ~llamaDone => \A p \in Procs : proc[p] = "exited" => p <= MaxProcs - RestartTries

\* restart waits for the process it has recorded.
Recorded ==
  /\ cmd <= started
  /\ mon.pc \in HealthLoop \cup {"healthy"} => cmd = started

\* There is a number left for every process a restart may still start.
Room ==
  /\ mon.pc = "read" /\ ~llamaDone => started <= MaxProcs - RestartTries
  /\ mon.pc \in Before \ {"fork"} /\ ~llamaDone =>
       started <= MaxProcs - RestartTries + mon.attempt
  /\ mon.pc = "fork" => started <= MaxProcs - RestartTries + mon.attempt
  /\ mon.pc \in After => started <= MaxProcs - RestartTries + mon.attempt + 1

\* A FATAL supervisor has no monitor.
FatalEnded == state = "FATAL" => mon.pc = "ended"

Bounds == BootFirst /\ Counted /\ ProcsAgree /\ Recorded /\ Room
IInv == SupTypeOK /\ Bounds /\ WatchedIsCurrent /\ FatalEnded

-----------------------------------------------------------------------------
(* What the records of the two goroutines may become.                      *)

BootRecord == [pc : BootSteps, tries : 0..HealthTries]
MonRecord == [pc : MonSteps, proc : 0..MaxProcs, attempt : 0..RestartTries, tries : 0..HealthTries]

\* waitReady goes from one of its places to another, and looks at the context
\* between two health checks.
LEMMA WaitReadyIs ==
  ASSUME NEW t, NEW done \in BOOLEAN, NEW u \in WaitReadyStep(t, done)
  PROVE  \/ /\ t.pc = "check"
            /\ \/ u = [t EXCEPT !.pc = "unhealthy"]
               \/ u = [t EXCEPT !.pc = "get"] /\ ~done /\ t.tries # HealthTries
         \/ /\ t.pc = "get"
            /\ u = [t EXCEPT !.pc = "check", !.tries = @ + 1] \/ u = [t EXCEPT !.pc = "healthy"]
<1>1. CASE t.pc = "check"
  BY <1>1 DEF WaitReadyStep
<1>2. CASE t.pc = "get"
  BY <1>2 DEF WaitReadyStep
<1>3. CASE t.pc \notin {"check", "get"}
  BY <1>3 DEF WaitReadyStep
<1> QED
  BY <1>1, <1>2, <1>3

LEMMA WaitReadyBoot ==
  ASSUME NEW t \in BootRecord, NEW done \in BOOLEAN, NEW u \in WaitReadyStep(t, done),
         t.pc = "get" => t.tries < HealthTries
  PROVE  /\ u \in BootRecord
         /\ t.pc \in HealthLoop /\ u.pc \in HealthLoop \cup {"healthy", "unhealthy"}
         /\ u.pc = "get" => u.tries < HealthTries
<1> USE DEF BootRecord, HealthLoop, BootSteps
<1>1. CASE t.pc = "check" /\ u = [t EXCEPT !.pc = "unhealthy"]
  BY <1>1
<1>2. CASE t.pc = "check" /\ u = [t EXCEPT !.pc = "get"] /\ t.tries # HealthTries
  <2>1. u.tries = t.tries /\ u.pc = "get" /\ u \in BootRecord
    BY <1>2
  <2> QED
    BY <1>2, <2>1
<1>3. CASE t.pc = "get" /\ u = [t EXCEPT !.pc = "check", !.tries = @ + 1]
  <2>1. t.tries + 1 \in 0..HealthTries
    BY <1>3
  <2> QED
    BY <1>3, <2>1
<1>4. CASE t.pc = "get" /\ u = [t EXCEPT !.pc = "healthy"]
  BY <1>4
<1> QED
  BY <1>1, <1>2, <1>3, <1>4, WaitReadyIs

LEMMA WaitReadyMon ==
  ASSUME NEW t \in MonRecord, NEW done \in BOOLEAN, NEW u \in WaitReadyStep(t, done),
         t.pc = "get" => t.tries < HealthTries
  PROVE  /\ u \in MonRecord
         /\ t.pc \in HealthLoop /\ u.pc \in HealthLoop \cup {"healthy", "unhealthy"}
         /\ u.pc = "get" => u.tries < HealthTries /\ t.pc = "check" /\ ~done
         /\ u.pc = "healthy" => t.pc = "get"
         /\ u.proc = t.proc /\ u.attempt = t.attempt
<1> USE DEF MonRecord, HealthLoop, MonSteps
<1>1. CASE t.pc = "check" /\ u = [t EXCEPT !.pc = "unhealthy"]
  BY <1>1
<1>2. CASE t.pc = "check" /\ u = [t EXCEPT !.pc = "get"] /\ ~done /\ t.tries # HealthTries
  <2>1. u.tries = t.tries /\ u.pc = "get" /\ u \in MonRecord
    BY <1>2
  <2> QED
    BY <1>2, <2>1
<1>3. CASE t.pc = "get" /\ u = [t EXCEPT !.pc = "check", !.tries = @ + 1]
  <2>1. t.tries + 1 \in 0..HealthTries
    BY <1>3
  <2> QED
    BY <1>3, <2>1
<1>4. CASE t.pc = "get" /\ u = [t EXCEPT !.pc = "healthy"]
  BY <1>4
<1> QED
  BY <1>1, <1>2, <1>3, <1>4, WaitReadyIs

\* The next attempt, or the last one has been made.
LEMMA NextAttemptIs ==
  ASSUME mon \in MonRecord, mon.attempt < RestartTries
  PROVE  /\ NextAttempt \in MonRecord
         /\ NextAttempt.attempt = mon.attempt + 1 /\ NextAttempt.proc = mon.proc
         /\ NextAttempt.pc \in {"mark", "giveup"}
         /\ NextAttempt.pc = "mark" => mon.attempt + 1 < RestartTries
<1> DEFINE to == IF mon.attempt + 1 = RestartTries THEN "giveup" ELSE "mark"
<1>1. mon.attempt + 1 \in 0..RestartTries
  BY DEF MonRecord
<1>2. to \in {"mark", "giveup"} /\ (to = "mark" => mon.attempt + 1 < RestartTries)
  BY DEF MonRecord
<1>3. NextAttempt = [mon EXCEPT !.attempt = @ + 1, !.pc = to]
  BY Zenon DEF NextAttempt
<1> HIDE DEF to
<1> QED
  BY <1>1, <1>2, <1>3 DEF MonRecord, MonSteps
-----------------------------------------------------------------------------
(* Steps of the monitor that only move it on.                              *)

\* A step of the monitor that changes its place and nothing else of it.
LEMMA MonGotoIs ==
  ASSUME mon \in MonRecord, NEW from, NEW to \in MonSteps, MonGoto(from, to)
  PROVE  /\ mon.pc = from /\ mon'.pc = to /\ mon' \in MonRecord
         /\ mon'.proc = mon.proc /\ mon'.attempt = mon.attempt /\ mon'.tries = mon.tries
         /\ UNCHANGED <<baseDone, llamaDone, boot>>
BY DEF MonGoto, MonRecord

\* Marking, starting and giving up only set the state on their way.
LEMMA MonSetsIs ==
  ASSUME mon \in MonRecord
  PROVE  /\ RestartMarks =>
              /\ MonGoto("mark", "backoff") /\ state' = "RESTARTING"
              /\ UNCHANGED <<cmd, started, proc>>
         /\ RestartStarting =>
              /\ MonGoto("backoff", "spawn") /\ state' = "STARTING"
              /\ UNCHANGED <<cmd, started, proc>>
         /\ MonitorGivesUp =>
              /\ MonGoto("giveup", "ended") /\ state' = "FATAL"
              /\ UNCHANGED <<cmd, started, proc>>
BY DEF RestartMarks, RestartStarting, MonitorGivesUp, MonSets

LEMMA BootGotoIs ==
  ASSUME boot \in BootRecord, NEW to \in BootSteps, BootGoto(to)
  PROVE  boot' \in BootRecord /\ boot'.pc = to /\ boot'.tries = boot.tries
BY DEF BootGoto, BootRecord

-----------------------------------------------------------------------------
(* Types are preserved.                                                    *)

ProcStates == {"none", "loading", "serving", "exited"}

LEMMA SpawnType ==
  ASSUME proc \in [Procs -> ProcStates], started \in 0..(MaxProcs - 1), Spawn
  PROVE  started' \in 0..MaxProcs /\ proc' \in [Procs -> ProcStates]
BY DEF Spawn, ProcStates

LEMMA TypeNext == SupTypeOK /\ Bounds /\ [SupNext]_supVars => SupTypeOK'
<1> SUFFICES ASSUME SupTypeOK, Bounds, [SupNext]_supVars PROVE SupTypeOK'
  OBVIOUS
<1>0. /\ proc \in [Procs -> ProcStates] /\ boot \in BootRecord /\ mon \in MonRecord
      /\ state \in States /\ cmd \in 0..MaxProcs /\ started \in 0..MaxProcs
      /\ baseDone \in BOOLEAN /\ llamaDone \in BOOLEAN
  BY DEF SupTypeOK, ProcStates, BootRecord, MonRecord
<1> DEFINE T == /\ proc' \in [Procs -> ProcStates] /\ boot' \in BootRecord /\ mon' \in MonRecord
                /\ state' \in States /\ cmd' \in 0..MaxProcs /\ started' \in 0..MaxProcs
                /\ baseDone' \in BOOLEAN /\ llamaDone' \in BOOLEAN
<1>t. SUFFICES T
  BY DEF SupTypeOK, ProcStates, BootRecord, MonRecord
<1> USE DEF States, MonSteps, BootSteps, HealthLoop
<1>1. CASE StartSpawns
  <2>1. started \in 0..(MaxProcs - 1)
    BY <1>1, <1>0 DEF StartSpawns, Bounds, BootFirst
  <2> QED
    BY <1>0, <1>1, <2>1, SpawnType, BootGotoIs DEF StartSpawns
<1>2. CASE StartFails
  BY <1>0, <1>2, BootGotoIs DEF StartFails
<1>3. CASE StartMonitors
  <2>1. mon' \in MonRecord
    BY <1>0, <1>3 DEF StartMonitors, MonRecord
  <2> QED
    BY <1>0, <1>3, <2>1, BootGotoIs DEF StartMonitors
<1>4. CASE BootWaits
  <2>1. boot' \in BootRecord
    BY <1>0, <1>4, WaitReadyBoot DEF BootWaits, Bounds, Counted
  <2> QED
    BY <1>0, <1>4, <2>1 DEF BootWaits
<1>5. CASE WaitReadyReturns
  BY <1>0, <1>5, BootGotoIs DEF WaitReadyReturns
<1>6. CASE MonitorNotices \/ MonitorReads
  BY <1>0, <1>6, MonGotoIs DEF MonitorNotices, MonitorReads
<1>7. CASE RestartMarks \/ RestartStarting \/ MonitorGivesUp
  BY <1>0, <1>7, MonSetsIs, MonGotoIs
<1>8. CASE RestartCancelled \/ RestartForks
  BY <1>0, <1>8, MonGotoIs DEF RestartCancelled, RestartForks
<1>9. CASE RestartSpawnFails \/ RestartUnhealthy
  <2>1. mon.attempt < RestartTries
    BY <1>9 DEF RestartSpawnFails, RestartUnhealthy, Bounds, Counted
  <2> QED
    BY <1>0, <1>9, <2>1, NextAttemptIs DEF RestartSpawnFails, RestartUnhealthy
<1>10. CASE RestartSpawns
  <2>1. MonGoto("fork", "spawned") /\ Spawn /\ UNCHANGED <<state, cmd>>
    BY <1>10 DEF RestartSpawns
  <2>2. mon.pc = "fork"
    BY <2>1 DEF MonGoto
  <2>3. mon.attempt < RestartTries /\ started <= MaxProcs - RestartTries + mon.attempt
    BY <2>2 DEF Bounds, Counted, Room
  <2>4. started \in 0..(MaxProcs - 1)
    BY <1>0, <2>3 DEF MonRecord
  <2> QED
    BY <1>0, <2>1, <2>4, SpawnType, MonGotoIs
<1>11. CASE RestartRecords
  <2>1. mon' = [mon EXCEPT !.pc = "check", !.tries = 0] /\ 0 \in 0..HealthTries
    BY <1>11 DEF RestartRecords
  <2>2. mon' \in MonRecord
    BY <1>0, <2>1 DEF MonRecord
  <2> QED
    BY <1>0, <1>11, <2>2 DEF RestartRecords
<1>12. CASE RestartWaits
  <2>1. mon' \in MonRecord
    BY <1>0, <1>12, WaitReadyMon DEF RestartWaits, Bounds, Counted
  <2> QED
    BY <1>0, <1>12, <2>1 DEF RestartWaits
<1>13. CASE RestartSucceeds
  <2>1. mon' \in MonRecord
    BY <1>0, <1>13 DEF RestartSucceeds, MonRecord
  <2> QED
    BY <1>0, <1>13, <2>1 DEF RestartSucceeds
<1>14. CASE Stop \/ CancelBase
  <2>1. proc' \in [Procs -> ProcStates]
    BY <1>0, <1>14 DEF Stop, CancelBase, ProcStates
  <2> QED
    BY <1>0, <1>14, <2>1 DEF Stop, CancelBase
<1>15. ASSUME NEW p \in Procs, ContextKills(p) \/ Loaded(p) \/ Exits(p) PROVE T
  <2>1. proc' \in [Procs -> ProcStates]
    BY <1>0, <1>15 DEF ContextKills, Loaded, Exits, ProcStates
  <2> QED
    BY <1>0, <1>15, <2>1 DEF ContextKills, Loaded, Exits
<1>16. CASE UNCHANGED supVars
  BY <1>0, <1>16 DEF supVars
<1> QED
  BY <1>1, <1>2, <1>3, <1>4, <1>5, <1>6, <1>7, <1>8, <1>9, <1>10, <1>11, <1>12, <1>13, <1>14,
     <1>15, <1>16 DEF SupNext, Boot, Monitor, ProcessSteps
-----------------------------------------------------------------------------
(* The invariant is preserved.                                             *)

Inv == Bounds /\ WatchedIsCurrent /\ FatalEnded

\* Starting a process takes the next number.
LEMMA SpawnIs ==
  ASSUME SupTypeOK, ProcsAgree, started < MaxProcs, Spawn, UNCHANGED llamaDone
  PROVE  ProcsAgree' /\ started' = started + 1
<1>1. /\ started' = started + 1 /\ started + 1 \in Procs /\ started \in Nat
      /\ proc' = [proc EXCEPT ![started + 1] = "loading"]
      /\ proc \in [Procs -> ProcStates]
  BY DEF Spawn, SupTypeOK, ProcStates
<1> QED
  BY <1>1 DEF ProcsAgree

\* Stop, cancel() and the processes themselves leave the two goroutines alone.
LEMMA ProcessFrame ==
  ASSUME Stop \/ CancelBase \/ ProcessSteps
  PROVE  /\ UNCHANGED <<cmd, started, boot, mon>>
         /\ llamaDone => llamaDone'
         /\ state' \in {state, "STOPPED"}
<1>1. CASE Stop
  BY <1>1 DEF Stop
<1>2. CASE CancelBase
  BY <1>2 DEF CancelBase
<1>3. CASE ProcessSteps
  BY <1>3 DEF ProcessSteps, ContextKills, Loaded, Exits
<1> QED
  BY <1>1, <1>2, <1>3

\* A process that exits before the context is done has numbers left behind it.
LEMMA ProcessExits ==
  ASSUME SupTypeOK, ProcsAgree, Stop \/ CancelBase \/ ProcessSteps, cmd <= started
  PROVE  ProcsAgree'
<1>0. proc \in [Procs -> ProcStates] /\ llamaDone \in BOOLEAN /\ cmd \in Nat /\ started \in Nat
  BY DEF SupTypeOK, ProcStates
<1>1. CASE Stop
  <2>1. CASE state = "STOPPED"
    BY <1>1, <2>1 DEF Stop, ProcsAgree
  <2>2. CASE state # "STOPPED"
    <3>1. llamaDone' /\ started' = started
      BY <1>1, <2>2 DEF Stop
    <3>2. proc' = proc \/ (Running(cmd) /\ cmd # 0 /\ proc' = [proc EXCEPT ![cmd] = "exited"])
      BY <1>1, <2>2 DEF Stop
    <3> QED
      BY <1>0, <3>1, <3>2 DEF ProcsAgree
  <2> QED
    BY <2>1, <2>2
<1>2. CASE CancelBase
  BY <1>2 DEF CancelBase, ProcsAgree
<1>3. ASSUME NEW p \in Procs, ContextKills(p) \/ Loaded(p) \/ Exits(p) PROVE ProcsAgree'
  <2>1. p <= started
    BY <1>0, <1>3 DEF ContextKills, Loaded, Exits, Running, ProcsAgree
  <2> QED
    BY <1>0, <1>3, <2>1 DEF ContextKills, Loaded, Exits, ProcsAgree
<1> QED
  BY <1>1, <1>2, <1>3 DEF ProcessSteps

LEMMA InvNext == SupTypeOK /\ Inv /\ [SupNext]_supVars => Inv'
<1> SUFFICES ASSUME SupTypeOK, Inv, [SupNext]_supVars PROVE Inv'
  OBVIOUS
<1>0. /\ boot \in BootRecord /\ mon \in MonRecord /\ llamaDone \in BOOLEAN /\ baseDone \in BOOLEAN
      /\ cmd \in 0..MaxProcs /\ started \in 0..MaxProcs
      /\ mon.attempt \in Nat /\ mon.proc \in Nat /\ mon.pc \in MonSteps
  BY DEF SupTypeOK, BootRecord, MonRecord
<1> USE DEF Inv, Bounds, BootFirst, Counted, Recorded, Room, WatchedIsCurrent, FatalEnded,
            Watching, Before, After, HealthLoop, MonSteps, BootSteps
<1>1. CASE StartSpawns
  <2>1. started = 0 /\ 0 < MaxProcs
    BY <1>1 DEF StartSpawns
  <2>2. boot'.pc = "spawned" /\ UNCHANGED <<mon, cmd, llamaDone>> /\ state' = "STARTING"
    BY <1>0, <1>1, BootGotoIs DEF StartSpawns
  <2>3. ProcsAgree' /\ started' = started + 1
    BY <1>1, <2>1, SpawnIs DEF StartSpawns
  <2> QED
    BY <1>0, <1>1, <2>1, <2>2, <2>3 DEF StartSpawns
<1>2. CASE StartFails
  BY <1>0, <1>2, BootGotoIs DEF StartFails, ProcsAgree
<1>3. CASE StartMonitors
  <2>1. /\ boot.pc = "spawned" /\ boot'.pc = "check"
        /\ mon'.pc = "wait" /\ mon'.proc = started /\ mon'.attempt = mon.attempt
        /\ cmd' = started /\ UNCHANGED <<state, started, proc, llamaDone>>
    BY <1>0, <1>3, BootGotoIs DEF StartMonitors, MonRecord
  <2> QED
    BY <1>0, <2>1 DEF ProcsAgree
<1>4. CASE BootWaits
  <2>1. /\ boot'.pc \in HealthLoop \cup {"healthy", "unhealthy"} /\ boot.pc \in HealthLoop
        /\ boot'.pc = "get" => boot'.tries < HealthTries
    BY <1>0, <1>4, WaitReadyBoot DEF BootWaits
  <2> QED
    BY <1>0, <1>4, <2>1 DEF BootWaits, ProcsAgree
<1>5. CASE WaitReadyReturns
  <2>1. boot.pc \in {"healthy", "unhealthy"} /\ boot'.pc \in {"ready", "failed"} /\ state' # "FATAL"
    BY <1>0, <1>5, BootGotoIs DEF WaitReadyReturns
  <2> QED
    BY <1>0, <1>5, <2>1 DEF WaitReadyReturns, ProcsAgree
<1>6. CASE MonitorNotices
  <2>1. MonGoto("wait", "read") /\ UNCHANGED <<state, cmd, started, proc>>
    BY <1>6 DEF MonitorNotices
  <2>2. mon.pc = "wait" /\ mon.proc \in Procs /\ proc[mon.proc] = "exited"
    BY <1>0, <1>6, <2>1 DEF MonitorNotices, MonGoto, MonRecord
  <2>3. ~llamaDone => started <= MaxProcs - RestartTries
    BY <2>2 DEF ProcsAgree
  <2> QED
    BY <1>0, <2>1, <2>3, MonGotoIs DEF ProcsAgree
<1>7. CASE MonitorReads
  BY <1>0, <1>7, MonGotoIs DEF MonitorReads, ProcsAgree
<1>8. CASE RestartMarks
  BY <1>0, <1>8, MonSetsIs, MonGotoIs DEF ProcsAgree
<1>9. CASE RestartStarting
  BY <1>0, <1>9, MonSetsIs, MonGotoIs DEF ProcsAgree
<1>10. CASE MonitorGivesUp
  BY <1>0, <1>10, MonSetsIs, MonGotoIs DEF ProcsAgree
<1>11. CASE RestartCancelled
  <2>1. MonGoto("backoff", "giveup") /\ UNCHANGED <<state, cmd, started, proc>>
    BY <1>11 DEF RestartCancelled
  <2>2. mon.pc = "backoff" /\ mon'.pc = "giveup" /\ UNCHANGED <<llamaDone, boot>>
    BY <1>0, <2>1, MonGotoIs
  <2> QED
    BY <1>0, <2>1, <2>2 DEF ProcsAgree
<1>12. CASE RestartForks
  BY <1>0, <1>12, MonGotoIs DEF RestartForks, ProcsAgree
<1>13. CASE RestartSpawnFails \/ RestartUnhealthy
  <2>1. mon' = NextAttempt /\ UNCHANGED <<state, cmd, started, proc, llamaDone, boot>>
    BY <1>13 DEF RestartSpawnFails, RestartUnhealthy
  <2>2. mon.pc \in {"spawn", "fork", "unhealthy"}
    BY <1>13 DEF RestartSpawnFails, RestartUnhealthy
  <2>3. /\ mon'.attempt = mon.attempt + 1 /\ mon'.pc \in {"mark", "giveup"}
        /\ mon'.pc = "mark" => mon'.attempt < RestartTries
    BY <1>0, <2>1, <2>2, NextAttemptIs
  <2> QED
    BY <1>0, <2>1, <2>2, <2>3 DEF ProcsAgree
<1>14. CASE RestartSpawns
  <2>1. MonGoto("fork", "spawned") /\ Spawn /\ UNCHANGED <<state, cmd, llamaDone, boot>>
    BY <1>14 DEF RestartSpawns, MonGoto
  <2>2. /\ mon.pc = "fork" /\ mon'.pc = "spawned"
        /\ mon'.attempt = mon.attempt /\ mon'.proc = mon.proc
    BY <1>0, <2>1, MonGotoIs
  <2>3. started < MaxProcs
    BY <1>0, <2>2
  <2>4. ProcsAgree' /\ started' = started + 1
    BY <2>1, <2>3, SpawnIs
  <2> QED
    BY <1>0, <2>1, <2>2, <2>4
<1>15. CASE RestartRecords
  <2>1. /\ mon.pc = "spawned" /\ mon'.pc = "check" /\ cmd' = started
        /\ mon'.attempt = mon.attempt /\ mon'.proc = mon.proc
        /\ UNCHANGED <<state, started, proc, llamaDone, boot>>
    BY <1>0, <1>15 DEF RestartRecords, MonRecord
  <2> QED
    BY <1>0, <2>1 DEF ProcsAgree
<1>16. CASE RestartWaits
  <2>1. /\ mon.pc \in HealthLoop /\ mon'.pc \in HealthLoop \cup {"healthy", "unhealthy"}
        /\ mon'.pc = "get" => mon'.tries < HealthTries
        /\ mon'.proc = mon.proc /\ mon'.attempt = mon.attempt
    BY <1>0, <1>16, WaitReadyMon DEF RestartWaits
  <2>2. UNCHANGED <<state, cmd, started, proc, llamaDone, boot>>
    BY <1>16 DEF RestartWaits
  <2> QED
    BY <1>0, <2>1, <2>2 DEF ProcsAgree
<1>17. CASE RestartSucceeds
  <2>1. /\ mon.pc = "healthy" /\ state' = "READY" /\ UNCHANGED <<cmd, started, proc, llamaDone, boot>>
        /\ mon'.pc = "wait" /\ mon'.proc = started /\ mon'.attempt = 0
    BY <1>17 DEF RestartSucceeds
  <2> QED
    BY <1>0, <2>1 DEF ProcsAgree
<1>18. CASE Stop \/ CancelBase \/ ProcessSteps
  <2>1. ProcsAgree'
    BY <1>18, ProcessExits
  <2> QED
    BY <1>0, <1>18, <2>1, ProcessFrame
<1>19. CASE UNCHANGED supVars
  BY <1>0, <1>19 DEF supVars, ProcsAgree
<1> QED
  BY <1>1, <1>2, <1>3, <1>4, <1>5, <1>6, <1>7, <1>8, <1>9, <1>10, <1>11, <1>12, <1>13, <1>14,
     <1>15, <1>16, <1>17, <1>18, <1>19 DEF SupNext, Boot, Monitor

-----------------------------------------------------------------------------
(* The theorems.                                                           *)

LEMMA InitInv == SupInit => IInv
<1>1. SupInit => SupTypeOK
  <2> HAVE SupInit
  <2>1. boot \in BootRecord /\ mon \in MonRecord
    BY DEF SupInit, BootRecord, MonRecord, BootSteps, MonSteps, HealthLoop
  <2>2. state \in States /\ cmd \in 0..MaxProcs /\ started \in 0..MaxProcs
    BY DEF SupInit, States
  <2>3. proc \in [Procs -> {"none", "loading", "serving", "exited"}]
    BY DEF SupInit
  <2>4. baseDone \in BOOLEAN /\ llamaDone \in BOOLEAN
    BY DEF SupInit
  <2> QED
    BY <2>1, <2>2, <2>3, <2>4 DEF SupTypeOK, BootRecord, MonRecord
<1>2. SupInit => Bounds
  BY DEF SupInit, Bounds, BootFirst, Counted, ProcsAgree, Recorded, Room, Watching, Before,
     After, HealthLoop
<1>3. SupInit => WatchedIsCurrent /\ FatalEnded
  BY DEF SupInit, WatchedIsCurrent, FatalEnded
<1> QED
  BY <1>1, <1>2, <1>3 DEF IInv

THEOREM Inductive == SupSpec => []IInv
<1>1. SupInit => IInv
  BY InitInv
<1>2. IInv /\ [SupNext]_supVars => IInv'
  BY TypeNext, InvNext DEF IInv, Inv
<1> QED
  BY <1>1, <1>2, PTL DEF SupSpec

\* Every variable of the supervisor keeps its type: the attempts stay within the
\* tables of delays, and the numbers of processes suffice.
THEOREM TypeCorrect == SupSpec => []SupTypeOK
<1>1. IInv => SupTypeOK
  BY DEF IInv
<1> QED
  BY <1>1, Inductive, PTL

\* The monitor waits for the process that Stop would kill, and that is the last
\* one started (Start, monitor and restart each set both).
THEOREM Watched == SupSpec => []WatchedIsCurrent
<1>1. IInv => WatchedIsCurrent
  BY DEF IInv
<1> QED
  BY <1>1, Inductive, PTL

\* No restart follows FATAL: its monitor has ended, and only Stop or a
\* WaitReady that was still waiting changes the state.
THEOREM FatalStays == SupSpec => FatalIsFinal
<1>1. IInv /\ [SupNext]_supVars =>
        [state = "FATAL" /\ state' # "FATAL" =>
           state' = "STOPPED" \/ boot.pc \in {"healthy", "unhealthy"}]_supVars
  <2> SUFFICES ASSUME IInv, SupNext, state = "FATAL", state' # "FATAL"
               PROVE  state' = "STOPPED" \/ boot.pc \in {"healthy", "unhealthy"}
    BY DEF supVars
  <2>1. mon.pc = "ended" /\ boot.pc # "start"
    BY DEF IInv, FatalEnded, Bounds, BootFirst
  <2>2. ~Monitor
    <3>1. mon \in MonRecord
      BY DEF IInv, SupTypeOK, MonRecord
    <3> QED
      BY <2>1, <3>1, MonSetsIs, WaitReadyIs
         DEF Monitor, MonitorNotices, MonitorReads, RestartCancelled, RestartSpawnFails,
         RestartForks, RestartSpawns, RestartRecords, RestartWaits, RestartUnhealthy,
         RestartSucceeds, MonGoto, IInv, SupTypeOK
  <2>3. CASE Boot
    BY <2>1, <2>3 DEF Boot, StartSpawns, StartFails, StartMonitors, BootWaits, WaitReadyReturns
  <2>4. CASE Stop \/ CancelBase \/ ProcessSteps
    BY <2>4, ProcessFrame
  <2> QED
    BY <2>2, <2>3, <2>4 DEF SupNext
<1> QED
  BY <1>1, Inductive, PTL DEF SupSpec, FatalIsFinal

=============================================================================
