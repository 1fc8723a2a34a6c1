------------------------- MODULE OrchestratorProofs -------------------------
(***************************************************************************)
(* Proofs about Orchestrator, for any clients and any bounds of the        *)
(* supervisor: its steps are steps of the supervisor by itself, so that    *)
(* what is proved of Supervisor holds in the process, and a process that   *)
(* ends after a cancellation leaves the socket file only when its Accept   *)
(* failed, and not the llama-server in use.                                *)
(***************************************************************************)
EXTENDS Orchestrator, SupervisorProofs

USE SupervisorAssumption DEF Procs

-----------------------------------------------------------------------------
(* The invariants.                                                         *)

\* main passes the supervisor only when WaitReady has returned, and stops only
\* after the handler was installed.
Passed == {"setup", "wait", "stop", "return"}

LifeType ==
  /\ main \in {"boot", "fail", "setup", "wait", "stop", "return", "exiting", "exited"}
  /\ handler \in {"none", "wait", "cancel", "close", "stop", "finish", "ended"}
  /\ accept \in {"none", "accept", "serve", "spin", "ended"}
  /\ done \in BOOLEAN
  /\ closed \in BOOLEAN
  /\ sock \in BOOLEAN
  /\ conn \in Clients \cup {NoClient}
  /\ client \in [Clients -> {"none", "connected", "gone"}]

LifeOrder ==
  /\ handler = "none" => main \notin {"wait", "stop", "return"} /\ accept = "none"
  /\ handler # "none" => main \notin {"boot", "fail", "setup"}
  /\ main \in Passed \/ handler # "none" => boot.pc = "ready"
  /\ main = "fail" => boot.pc \in {"ready", "failed"}
  /\ main \in {"boot", "fail", "setup"} => ~llamaDone
  /\ main \in {"stop", "return"} => done
  /\ handler # "none" /\ main \in {"exiting", "exited"} => done
  /\ handler \in {"stop", "finish"} => closed
  /\ closed => handler # "none" /\ ~sock
  /\ accept \in {"none", "accept"} => conn = NoClient
  /\ done => closed \/ (accept = "ended" /\ conn = NoClient)

\* The monitor waits for the process in use, or is about to; a restart that has
\* looked at the context does not come here again.
Settled ==
  \/ mon.pc \in {"wait", "read", "mark", "backoff", "spawn"} /\ mon.attempt = 0
  \/ mon.pc \in {"get", "healthy"}

\* What Stop achieves, for good.
Stopped == llamaDone /\ (Settled => ~Running(cmd))

StopInv ==
  /\ llamaDone => boot.pc \in {"ready", "failed"}
  /\ mon.pc # "none" => cmd # 0
  /\ state = "STOPPED" /\ boot.pc # "start" => Stopped

\* Once main has stopped the supervisor nothing starts it again; without a
\* handler, main cancels only by the Stop of a start that failed.
ExitInv ==
  main \in {"return", "exiting", "exited"} /\ (handler # "none" \/ llamaDone) => Stopped

LifeInv == LifeType /\ LifeOrder /\ StopInv /\ ExitInv

-----------------------------------------------------------------------------
(* The steps of the process are steps of the supervisor.                   *)

\* Nobody calls Stop or cancel() before WaitReady has returned.
LEMMA StepsOfSupervisor == LifeOrder /\ [Next]_vars => [SupNext]_supVars
<1> SUFFICES ASSUME LifeOrder, [Next]_vars PROVE [SupNext]_supVars
  OBVIOUS
<1>1. CASE Main
  <2>1. CASE FailStops
    BY <2>1 DEF FailStops, MainGoto, LifeOrder, SupNext
  <2>2. CASE MainStops
    BY <2>2 DEF MainStops, MainGoto, LifeOrder, Passed, SupNext
  <2>3. CASE MainReturns
    BY <2>3 DEF MainReturns, MainGoto, LifeOrder, Passed, SupNext
  <2>4. CASE BootFailed \/ Listen \/ Notify \/ MainWakes \/ MainExits
    BY <2>4 DEF BootFailed, Listen, Notify, MainWakes, MainExits
  <2> QED
    BY <1>1, <2>1, <2>2, <2>3, <2>4 DEF Main
<1>2. CASE Handler
  <2>1. CASE HandlerCancels \/ HandlerStops
    BY <2>1 DEF HandlerCancels, HandlerStops, HandlerGoto, LifeOrder, SupNext
  <2>2. CASE HandlerLeaves \/ HandlerCloses \/ HandlerFinishes
    BY <2>2 DEF HandlerLeaves, HandlerCloses, HandlerFinishes
  <2> QED
    BY <1>2, <2>1, <2>2 DEF Handler
<1>3. CASE Terminate \/ AcceptGoroutine \/ ServeEnds
  BY <1>3 DEF Terminate, AcceptGoroutine, Accept, AcceptFails, ServeSpins, ServeEnds, AcceptGoto
<1>4. CASE Boot \/ Monitor \/ (\E p \in Procs : ContextKills(p) \/ Loaded(p) \/ Exits(p))
  BY <1>4 DEF SupNext, ProcessSteps
<1>5. CASE \E c \in Clients : Connects(c) \/ Leaves(c)
  BY <1>5 DEF Connects, Leaves
<1>6. CASE UNCHANGED vars
  BY <1>6 DEF vars
<1> QED
  BY <1>1, <1>2, <1>3, <1>4, <1>5, <1>6 DEF Next

\* The goroutine in Start and WaitReady ends with their result.
LEMMA BootOver ==
  ASSUME SupTypeOK, boot.pc \in {"ready", "failed"}
  PROVE  ~Boot
<1>1. ~BootWaits
  <2> SUFFICES ASSUME BootWaits PROVE FALSE
    OBVIOUS
  <2>1. boot' \in WaitReadyStep(boot, baseDone) /\ baseDone \in BOOLEAN
    BY DEF BootWaits, SupTypeOK
  <2> QED
    BY <2>1, WaitReadyIs
<1> QED
  BY <1>1 DEF Boot, StartSpawns, StartFails, StartMonitors, WaitReadyReturns

LEMMA BootEnds ==
  ASSUME SupTypeOK, [SupNext]_supVars, boot.pc \in {"ready", "failed"}
  PROVE  UNCHANGED boot
<1>1. ~Boot
  BY BootOver
<1>2. CASE Monitor
  <2>1. CASE MonitorNotices \/ MonitorReads \/ RestartCancelled \/ RestartForks \/ RestartSpawns
    BY <2>1 DEF MonitorNotices, MonitorReads, RestartCancelled, RestartForks, RestartSpawns, MonGoto
  <2>2. CASE RestartMarks \/ RestartStarting \/ MonitorGivesUp
    BY <2>2 DEF RestartMarks, RestartStarting, MonitorGivesUp, MonSets, MonGoto
  <2>3. CASE RestartSpawnFails \/ RestartRecords \/ RestartWaits \/ RestartUnhealthy \/ RestartSucceeds
    BY <2>3 DEF RestartSpawnFails, RestartRecords, RestartWaits, RestartUnhealthy, RestartSucceeds
  <2> QED
    BY <1>2, <2>1, <2>2, <2>3 DEF Monitor
<1>3. CASE Stop \/ CancelBase \/ ProcessSteps
  BY <1>3, ProcessFrame
<1>4. CASE UNCHANGED supVars
  BY <1>4 DEF supVars
<1> QED
  BY <1>1, <1>2, <1>3, <1>4 DEF SupNext

-----------------------------------------------------------------------------
(* The order of main, the handler and the socket.                          *)

LEMMA LifeTypeNext == LifeType /\ [Next]_vars => LifeType'
<1> SUFFICES ASSUME LifeType, [Next]_vars PROVE LifeType'
  OBVIOUS
<1> USE DEF LifeType
<1>1. CASE Main
  BY <1>1 DEF Main, BootFailed, Listen, FailStops, Notify, MainWakes, MainStops, MainReturns,
              MainExits, MainGoto
<1>2. CASE Handler
  BY <1>2 DEF Handler, HandlerLeaves, HandlerCancels, HandlerCloses, HandlerStops,
              HandlerFinishes, HandlerGoto
<1>3. CASE Terminate \/ AcceptGoroutine \/ ServeEnds
  BY <1>3 DEF Terminate, AcceptGoroutine, Accept, AcceptFails, ServeSpins, ServeEnds, AcceptGoto
<1>4. CASE \E c \in Clients : Connects(c) \/ Leaves(c)
  BY <1>4 DEF Connects, Leaves
<1>5. CASE UNCHANGED lifeVars
  BY <1>5 DEF lifeVars
<1> QED
  BY <1>1, <1>2, <1>3, <1>4, <1>5 DEF Next, vars

\* Who cancels the context of llama-server.
LEMMA CancelledBy ==
  ASSUME [Next]_vars
  PROVE  \/ UNCHANGED llamaDone
         \/ FailStops \/ MainStops \/ MainReturns
         \/ HandlerCancels \/ HandlerStops
<1>1. CASE Main
  BY <1>1 DEF Main, BootFailed, Listen, Notify, MainWakes, MainExits, supVars
<1>2. CASE Handler
  BY <1>2 DEF Handler, HandlerLeaves, HandlerCloses, HandlerFinishes, supVars
<1>3. CASE Terminate \/ AcceptGoroutine \/ ServeEnds
  BY <1>3 DEF Terminate, AcceptGoroutine, Accept, AcceptFails, ServeSpins, ServeEnds, AcceptGoto,
              supVars
<1>4. CASE Boot
  BY <1>4 DEF Boot, StartSpawns, StartFails, StartMonitors, BootWaits, WaitReadyReturns
<1>5. CASE Monitor
  <2>1. CASE MonitorNotices \/ MonitorReads \/ RestartCancelled \/ RestartForks \/ RestartSpawns
    BY <2>1 DEF MonitorNotices, MonitorReads, RestartCancelled, RestartForks, RestartSpawns, MonGoto
  <2>2. CASE RestartMarks \/ RestartStarting \/ MonitorGivesUp
    BY <2>2 DEF RestartMarks, RestartStarting, MonitorGivesUp, MonSets, MonGoto
  <2>3. CASE RestartSpawnFails \/ RestartRecords \/ RestartWaits \/ RestartUnhealthy \/ RestartSucceeds
    BY <2>3 DEF RestartSpawnFails, RestartRecords, RestartWaits, RestartUnhealthy, RestartSucceeds
  <2> QED
    BY <1>5, <2>1, <2>2, <2>3 DEF Monitor
<1>6. CASE \E p \in Procs : ContextKills(p) \/ Loaded(p) \/ Exits(p)
  BY <1>6 DEF ContextKills, Loaded, Exits
<1>7. CASE \E c \in Clients : Connects(c) \/ Leaves(c)
  BY <1>7 DEF Connects, Leaves, supVars
<1>8. CASE UNCHANGED vars
  BY <1>8 DEF vars, supVars
<1> QED
  BY <1>1, <1>2, <1>3, <1>4, <1>5, <1>6, <1>7, <1>8 DEF Next

\* The context is not cancelled before the handler is installed, but by the Stop
\* of a start that failed.
LEMMA StartsUncancelled ==
  ASSUME LifeType, LifeOrder, [Next]_vars, main' \in {"boot", "fail", "setup"}
  PROVE  ~llamaDone'
<1>1. main \in {"boot", "fail", "setup"} /\ ~llamaDone /\ handler = "none"
  <2>1. CASE Main
    BY <2>1 DEF Main, BootFailed, Listen, FailStops, Notify, MainWakes, MainStops, MainReturns,
                MainExits, MainGoto, LifeOrder
  <2>2. CASE Handler \/ Terminate \/ AcceptGoroutine \/ ServeEnds
    BY <2>2 DEF Handler, HandlerLeaves, HandlerCancels, HandlerCloses, HandlerStops,
                HandlerFinishes, HandlerGoto, Terminate, AcceptGoroutine, Accept, AcceptFails,
                ServeSpins, ServeEnds, AcceptGoto, LifeOrder
  <2>3. CASE (\E c \in Clients : Connects(c) \/ Leaves(c)) \/ UNCHANGED lifeVars
    BY <2>3 DEF Connects, Leaves, lifeVars, LifeOrder
  <2> QED
    BY <2>1, <2>2, <2>3 DEF Next, vars
<1>2. ~(MainStops \/ MainReturns \/ HandlerCancels \/ HandlerStops)
  BY <1>1 DEF MainStops, MainReturns, MainGoto, HandlerCancels, HandlerStops, HandlerGoto
<1>3. ~FailStops
  BY DEF FailStops, MainGoto
<1> QED
  BY <1>1, <1>2, <1>3, CancelledBy

LEMMA LifeOrderNext == SupTypeOK /\ LifeType /\ LifeOrder /\ [Next]_vars => LifeOrder'
<1> SUFFICES ASSUME SupTypeOK, LifeType, LifeOrder, [Next]_vars PROVE LifeOrder'
  OBVIOUS
<1>0. boot.pc \in {"ready", "failed"} => UNCHANGED boot
  BY BootEnds, StepsOfSupervisor
<1>6. main' \in {"boot", "fail", "setup"} => ~llamaDone'
  BY StartsUncancelled
<1> USE DEF LifeOrder, Passed
<1>1. CASE Main
  BY <1>0, <1>6, <1>1 DEF Main, BootFailed, Listen, FailStops, Notify, MainWakes, MainStops,
                    MainReturns, MainExits, MainGoto
<1>2. CASE Handler
  BY <1>0, <1>6, <1>2 DEF Handler, HandlerLeaves, HandlerCancels, HandlerCloses, HandlerStops,
                    HandlerFinishes, HandlerGoto
<1>3. CASE Terminate \/ AcceptGoroutine \/ ServeEnds
  BY <1>0, <1>6, <1>3 DEF Terminate, AcceptGoroutine, Accept, AcceptFails, ServeSpins, ServeEnds,
                    AcceptGoto
<1>4. CASE \E c \in Clients : Connects(c) \/ Leaves(c)
  BY <1>0, <1>6, <1>4 DEF Connects, Leaves
<1>5. CASE UNCHANGED lifeVars
  BY <1>0, <1>6, <1>5 DEF lifeVars
<1> QED
  BY <1>1, <1>2, <1>3, <1>4, <1>5 DEF Next, vars

-----------------------------------------------------------------------------
(* Stop is for good.                                                       *)

\* Stop leaves the process in use not running.
LEMMA StopKills ==
  ASSUME SupTypeOK, StopInv, boot.pc \in {"ready", "failed"}, Stop
  PROVE  Stopped'
<1>1. UNCHANGED <<cmd, boot, mon>>
  BY DEF Stop
<1>2. CASE state = "STOPPED"
  <2>1. Stopped /\ UNCHANGED <<llamaDone, proc>>
    BY <1>2 DEF Stop, StopInv
  <2> QED
    BY <1>1, <2>1 DEF Stopped, Settled, Running
<1>3. CASE state # "STOPPED"
  <2>1. llamaDone'
    BY <1>3 DEF Stop
  <2>2. cmd # 0 => ~Running(cmd)'
    <3> SUFFICES ASSUME cmd # 0 PROVE ~Running(cmd)'
      OBVIOUS
    <3>1. cmd \in Procs /\ proc \in [Procs -> ProcStates]
      BY DEF SupTypeOK, ProcStates
    <3>2. CASE Running(cmd)
      BY <1>1, <1>3, <3>1, <3>2 DEF Stop, Running
    <3>3. CASE ~Running(cmd)
      BY <1>1, <1>3, <3>3 DEF Stop, Running
    <3> QED
      BY <3>2, <3>3
  <2>3. Settled' => cmd # 0
    BY <1>1 DEF Settled, StopInv
  <2> QED
    BY <2>1, <2>2, <2>3 DEF Stopped
<1> QED
  BY <1>2, <1>3

\* A process that does not run is never started again.
LEMMA DeadStaysDead ==
  ASSUME SupTypeOK, ProcsAgree, Stop \/ CancelBase \/ ProcessSteps, cmd # 0, ~Running(cmd)
  PROVE  ~Running(cmd)'
<1>0. proc \in [Procs -> ProcStates] /\ cmd \in Procs /\ UNCHANGED cmd
  BY ProcessFrame DEF SupTypeOK, ProcStates
<1>1. CASE Stop \/ CancelBase
  BY <1>0, <1>1 DEF Stop, CancelBase, Running
<1>2. ASSUME NEW p \in Procs, ContextKills(p) \/ Loaded(p) \/ Exits(p) PROVE ~Running(cmd)'
  BY <1>0, <1>2 DEF ContextKills, Loaded, Exits, Running
<1> QED
  BY <1>1, <1>2 DEF ProcessSteps

\* A step of the monitor from one of these places, to one of them or to its end.
LEMMA GotoSettled ==
  ASSUME mon \in MonRecord, NEW from \in {"wait", "read", "mark", "backoff", "spawn", "giveup"},
         NEW to \in {"read", "mark", "backoff", "spawn", "fork", "giveup", "ended"},
         from = "giveup" => to = "ended", MonGoto(from, to)
  PROVE  (Settled' => Settled) /\ UNCHANGED llamaDone
<1>1. to \in MonSteps
  BY DEF MonSteps
<1>2. mon.pc = from /\ mon'.pc = to /\ mon'.attempt = mon.attempt /\ UNCHANGED llamaDone
  BY <1>1, MonGotoIs
<1> QED
  BY <1>2 DEF Settled

LEMMA StoppedStays ==
  ASSUME SupTypeOK, Bounds, StopInv, Stopped, [SupNext]_supVars
  PROVE  Stopped'
<1>0. /\ llamaDone /\ boot.pc \in {"ready", "failed"} /\ ~Boot
      /\ mon \in MonRecord /\ llamaDone \in BOOLEAN
  BY BootOver DEF Stopped, StopInv, SupTypeOK, MonRecord
<1>1. CASE MonitorNotices \/ MonitorReads \/ RestartCancelled \/ RestartForks
  <2>1. UNCHANGED <<cmd, proc>>
    BY <1>1 DEF MonitorNotices, MonitorReads, RestartCancelled, RestartForks
  <2>2. \/ MonGoto("wait", "read") \/ MonGoto("backoff", "giveup") \/ MonGoto("spawn", "fork")
        \/ MonGoto("read", "ended") \/ MonGoto("read", "mark")
    BY <1>1 DEF MonitorNotices, MonitorReads, RestartCancelled, RestartForks
  <2>3. (Settled' => Settled) /\ UNCHANGED llamaDone
    BY <1>0, <2>2, GotoSettled
  <2> QED
    BY <2>1, <2>3 DEF Stopped, Running
<1>2. CASE RestartMarks \/ RestartStarting \/ MonitorGivesUp
  <2>1. /\ UNCHANGED <<cmd, proc>>
        /\ MonGoto("mark", "backoff") \/ MonGoto("backoff", "spawn") \/ MonGoto("giveup", "ended")
    BY <1>0, <1>2, MonSetsIs
  <2>2. (Settled' => Settled) /\ UNCHANGED llamaDone
    BY <1>0, <2>1, GotoSettled
  <2> QED
    BY <2>1, <2>2 DEF Stopped, Running
<1>3. CASE RestartSpawnFails \/ RestartUnhealthy
  <2>1. llamaDone' /\ mon.attempt < RestartTries /\ mon' = NextAttempt
    BY <1>0, <1>3 DEF RestartSpawnFails, RestartUnhealthy, Bounds, Counted
  <2>2. mon'.attempt # 0 /\ mon'.pc \in {"mark", "giveup"}
    BY <1>0, <2>1, NextAttemptIs DEF MonRecord
  <2> QED
    BY <2>1, <2>2 DEF Stopped, Settled
<1>4. CASE RestartSpawns
  <2>1. llamaDone' /\ mon'.pc = "spawned"
    BY <1>0, <1>4, MonGotoIs DEF RestartSpawns, MonSteps
  <2> QED
    BY <2>1 DEF Stopped, Settled
<1>5. CASE RestartRecords
  <2>1. llamaDone' /\ mon'.pc = "check"
    BY <1>0, <1>5 DEF RestartRecords, MonRecord
  <2> QED
    BY <2>1 DEF Stopped, Settled
<1>6. CASE RestartWaits
  <2>1. llamaDone' /\ UNCHANGED <<cmd, proc>> /\ mon' \in WaitReadyStep(mon, llamaDone)
    BY <1>0, <1>6 DEF RestartWaits
  <2>2. mon.pc = "get" => mon.tries < HealthTries
    BY DEF Bounds, Counted
  <2>3. mon'.pc \in {"check", "get", "healthy", "unhealthy"} /\ mon'.pc # "get"
        /\ (mon'.pc = "healthy" => mon.pc = "get")
    BY <1>0, <2>1, <2>2, WaitReadyMon DEF HealthLoop
  <2> QED
    BY <2>1, <2>3 DEF Stopped, Settled, Running
<1>7. CASE RestartSucceeds
  BY <1>0, <1>7 DEF RestartSucceeds, Stopped, Settled, Running
<1>8. CASE Stop \/ CancelBase \/ ProcessSteps
  <2>1. llamaDone' /\ UNCHANGED <<cmd, mon>>
    BY <1>0, <1>8, ProcessFrame
  <2>2. CASE Settled
    <3>1. cmd # 0 /\ ~Running(cmd)
      BY <2>2 DEF Stopped, StopInv, Settled
    <3>2. ~Running(cmd)'
      BY <1>8, <3>1, DeadStaysDead DEF Bounds
    <3> QED
      BY <2>1, <3>2 DEF Stopped
  <2>3. CASE ~Settled
    BY <2>1, <2>3 DEF Stopped, Settled
  <2> QED
    BY <2>2, <2>3
<1>9. CASE UNCHANGED supVars
  BY <1>0, <1>9 DEF supVars, Stopped, Settled, Running
<1> QED
  BY <1>0, <1>1, <1>2, <1>3, <1>4, <1>5, <1>6, <1>7, <1>8, <1>9 DEF SupNext, Monitor

\* Before Start, the process in use, and the state that Stop leaves.
LEMMA StopInvNext == SupTypeOK /\ Bounds /\ StopInv /\ [SupNext]_supVars => StopInv'
<1> SUFFICES ASSUME SupTypeOK, Bounds, StopInv, [SupNext]_supVars PROVE StopInv'
  OBVIOUS
<1>0. /\ mon \in MonRecord /\ boot \in BootRecord /\ llamaDone \in BOOLEAN
      /\ cmd \in Nat /\ started \in Nat
  BY DEF SupTypeOK, MonRecord, BootRecord
<1>1. boot.pc \in {"ready", "failed"} => UNCHANGED boot
  BY BootEnds
<1>2. /\ llamaDone' => llamaDone \/ boot.pc \in {"ready", "failed"}
      /\ mon'.pc # "none" => (mon.pc # "none" /\ cmd' \in {cmd, started}) \/ StartMonitors
      /\ state' = "STOPPED" =>
           (state = "STOPPED" /\ (UNCHANGED boot \/ boot.pc # "start")) \/ (Stop /\ boot.pc \in {"ready", "failed"})
  <2>1. CASE Boot
    BY <2>1 DEF Boot, StartSpawns, StartFails, StartMonitors, BootWaits, WaitReadyReturns, WaitReadyStep
  <2>2. CASE Monitor
    <3>1. CASE MonitorNotices \/ MonitorReads \/ RestartCancelled \/ RestartForks \/ RestartSpawns
      BY <3>1 DEF MonitorNotices, MonitorReads, RestartCancelled, RestartForks, RestartSpawns, MonGoto
    <3>2. CASE RestartMarks \/ RestartStarting \/ MonitorGivesUp
      BY <3>2 DEF RestartMarks, RestartStarting, MonitorGivesUp, MonSets, MonGoto
    <3>3. CASE RestartSpawnFails \/ RestartRecords \/ RestartUnhealthy \/ RestartSucceeds
      BY <3>3 DEF RestartSpawnFails, RestartRecords, RestartUnhealthy, RestartSucceeds
    <3>4. CASE RestartWaits
      BY <3>4 DEF RestartWaits, WaitReadyStep
    <3> QED
      BY <2>2, <3>1, <3>2, <3>3, <3>4 DEF Monitor
  <2>3. CASE ProcessSteps
    BY <2>3 DEF ProcessSteps, ContextKills, Loaded, Exits
  <2>4. CASE boot.pc \in {"ready", "failed"} /\ (Stop \/ CancelBase)
    BY <2>4 DEF Stop, CancelBase
  <2>5. CASE UNCHANGED supVars
    BY <2>5 DEF supVars
  <2> QED
    BY <2>1, <2>2, <2>3, <2>4, <2>5 DEF SupNext
<1>3. llamaDone' => boot'.pc \in {"ready", "failed"}
  BY <1>1, <1>2 DEF StopInv
<1>4. mon'.pc # "none" => cmd' # 0
  <2>1. CASE StartMonitors
    BY <2>1 DEF StartMonitors, Bounds, BootFirst
  <2>2. mon.pc # "none" => cmd # 0 /\ started # 0
    BY <1>0 DEF StopInv, Bounds, Recorded
  <2> QED
    BY <1>2, <2>1, <2>2
<1>5. state' = "STOPPED" /\ boot'.pc # "start" => Stopped'
  <2>1. CASE Stop /\ boot.pc \in {"ready", "failed"}
    BY <2>1, StopKills
  <2>2. CASE state = "STOPPED" /\ boot.pc # "start"
    BY <2>2, StoppedStays DEF StopInv
  <2> QED
    BY <1>2, <2>1, <2>2
<1> QED
  BY <1>3, <1>4, <1>5 DEF StopInv

\* An end after a cancellation goes through a Stop of main.
LEMMA ExitNext ==
  ASSUME SupTypeOK, Bounds, StopInv, LifeType, LifeOrder, ExitInv, [Next]_vars
  PROVE  ExitInv'
<1>1. [SupNext]_supVars
  BY StepsOfSupervisor
<1>2. CASE Stopped
  <2>1. Stopped'
    BY <1>1, <1>2, StoppedStays
  <2> QED
    BY <2>1 DEF ExitInv
<1>3. CASE MainStops
  <2>1. boot.pc = "ready" /\ Stop
    BY <1>3 DEF MainStops, MainGoto, LifeOrder, Passed
  <2> QED
    BY <2>1, StopKills DEF ExitInv
<1>5. CASE FailStops
  <2>1. boot.pc \in {"ready", "failed"} /\ Stop
    BY <1>5 DEF FailStops, MainGoto, LifeOrder
  <2> QED
    BY <2>1, StopKills DEF ExitInv
<1>4. CASE ~Stopped /\ ~MainStops /\ ~FailStops
  <2>1. main \notin {"return", "exiting", "exited"} \/ (handler = "none" /\ ~llamaDone)
    BY <1>4 DEF ExitInv
  <2>7. handler = "none" => UNCHANGED llamaDone
    BY <1>4, CancelledBy
       DEF MainReturns, MainGoto, HandlerCancels, HandlerStops, HandlerGoto, LifeOrder
  <2>8. main \in {"boot", "fail", "setup"} => handler = "none" /\ ~llamaDone
    BY DEF LifeOrder
  <2>2. CASE Main
    BY <1>4, <2>1, <2>7, <2>8, <2>2
       DEF Main, BootFailed, Listen, Notify, MainWakes, MainReturns, MainExits, MainGoto,
           LifeOrder, ExitInv
  <2>3. CASE Handler
    BY <2>1, <2>3 DEF Handler, HandlerLeaves, HandlerCancels, HandlerCloses, HandlerStops,
                      HandlerFinishes, HandlerGoto, LifeOrder, ExitInv
  <2>4. CASE Terminate \/ AcceptGoroutine \/ ServeEnds
    BY <2>1, <2>7, <2>8, <2>4
       DEF Terminate, AcceptGoroutine, Accept, AcceptFails, ServeSpins, ServeEnds, AcceptGoto,
           LifeOrder, ExitInv
  <2>5. CASE \E c \in Clients : Connects(c) \/ Leaves(c)
    BY <2>1, <2>7, <2>5 DEF Connects, Leaves, ExitInv
  <2>6. CASE UNCHANGED lifeVars
    BY <2>1, <2>7, <2>6 DEF lifeVars, ExitInv
  <2> QED
    BY <2>2, <2>3, <2>4, <2>5, <2>6 DEF Next, vars
<1> QED
  BY <1>2, <1>3, <1>4, <1>5

-----------------------------------------------------------------------------
(* The theorems.                                                           *)

THEOREM LifeInductive == Spec => [](IInv /\ LifeInv)
<1>1. Init => IInv /\ LifeInv
  <2> SUFFICES ASSUME Init PROVE IInv /\ LifeInv
    OBVIOUS
  <2>1. SupInit /\ IInv
    BY InitInv DEF Init
  <2>2. LifeType
    BY DEF Init, LifeType
  <2>3. LifeOrder /\ StopInv /\ ExitInv
    BY <2>1 DEF Init, SupInit, LifeOrder, Passed, StopInv, ExitInv
  <2> QED
    BY <2>1, <2>2, <2>3 DEF LifeInv
<1>2. IInv /\ LifeInv /\ [Next]_vars => IInv' /\ LifeInv'
  <2> SUFFICES ASSUME IInv, LifeInv, [Next]_vars PROVE IInv' /\ LifeInv'
    OBVIOUS
  <2>1. SupTypeOK /\ Bounds /\ LifeType /\ LifeOrder /\ StopInv /\ ExitInv
    BY DEF IInv, LifeInv
  <2>2. [SupNext]_supVars
    BY <2>1, StepsOfSupervisor
  <2>3. IInv'
    BY <2>2, TypeNext, InvNext DEF IInv, Inv
  <2>4. LifeType' /\ LifeOrder' /\ StopInv' /\ ExitInv'
    BY <2>1, <2>2, LifeTypeNext, LifeOrderNext, StopInvNext, ExitNext
  <2> QED
    BY <2>3, <2>4 DEF LifeInv
<1> QED
  BY <1>1, <1>2, PTL DEF Spec

\* The process implements the supervisor by itself: initial states map to initial
\* states, and a step of main, of the handler or of the goroutine that accepts is
\* a step of the supervisor or leaves it alone.
THEOREM Refines == Spec => ImplementsSupervisor
<1>1. Init => SupInit
  BY DEF Init
<1>2. LifeInv /\ [Next]_vars => [SupNext]_supVars
  BY StepsOfSupervisor DEF LifeInv
<1> QED
  BY <1>1, <1>2, LifeInductive, PTL DEF Spec, SupSpec, ImplementsSupervisor

\* What is proved of the supervisor by itself holds in the process.
THEOREM SupervisorInProcess == Spec => []WatchedIsCurrent /\ FatalIsFinal
BY Refines, Watched, FatalStays, PTL DEF ImplementsSupervisor

\* Every variable of the process keeps its type.
THEOREM LifeTypeCorrect == Spec => []TypeOK
<1>1. IInv /\ LifeInv => TypeOK
  BY DEF IInv, LifeInv, LifeType, TypeOK
<1> QED
  BY <1>1, LifeInductive, PTL

\* A process that ends after it has cancelled its context, by a start that failed,
\* a signal that was handled or an Accept that failed, has no client when it leaves
\* the socket file, and has stopped the llama-server in use unless a restart was
\* past its look at the context.
THEOREM ExitIsOrderly == Spec => []OrderlyExit
<1>1. IInv /\ LifeInv => OrderlyExit
  <2> SUFFICES ASSUME IInv, LifeInv, main = "exited", llamaDone
               PROVE  /\ sock => conn = NoClient
                      /\ mon.pc \in {"wait", "read", "mark", "backoff", "spawn"} /\ mon.attempt = 0
                           => ~Running(cmd)
    BY DEF OrderlyExit
  <2>1. handler = "none" => conn = NoClient
    BY DEF LifeInv, LifeOrder
  <2>2. handler # "none" => done /\ (closed => ~sock)
    BY DEF LifeInv, LifeOrder
  <2>3. sock => conn = NoClient
    BY <2>1, <2>2 DEF LifeInv, LifeOrder
  <2>4. Stopped
    BY DEF LifeInv, ExitInv
  <2> QED
    BY <2>3, <2>4 DEF Stopped, Settled
<1> QED
  BY <1>1, LifeInductive, PTL
=============================================================================
