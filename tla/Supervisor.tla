----------------------------- MODULE Supervisor -----------------------------
(***************************************************************************)
(* The supervisor of llama-server (internal/supervisor/supervisor.go): the *)
(* goroutine that calls Start and WaitReady, the monitor goroutine with    *)
(* its restarts, Stop, and the llama-server processes they start.          *)
(*                                                                         *)
(* A process is named by the order it was started in.  Only one monitor    *)
(* runs at a time: restart ends by starting the next one.                  *)
(***************************************************************************)
EXTENDS Integers

CONSTANTS
  RestartTries,  \* len(backoff) of restart: 3 in the code
  HealthTries,   \* len(backoff) of waitReady: 4 in the code
  MaxProcs       \* bound: processes started

ASSUME SupervisorAssumption ==
  /\ RestartTries \in Nat \ {0}
  /\ HealthTries \in Nat \ {0}
  /\ MaxProcs \in Nat /\ MaxProcs > RestartTries

Procs == 1..MaxProcs

VARIABLES
  state,     \* s.state
  cmd,       \* s.cmd, 0 for nil
  started,   \* number of processes started
  proc,      \* what each process does
  baseDone,  \* the context of main is cancelled
  llamaDone, \* llamaCtx is cancelled
  boot,      \* the goroutine in Start and WaitReady
  mon        \* the monitor goroutine

supVars == <<state, cmd, started, proc, baseDone, llamaDone, boot, mon>>

States == {"STOPPED", "STARTING", "READY", "FAILED", "RESTARTING", "FATAL"}

\* The loop of waitReady: about to look at the context, about to GET /health.
HealthLoop == {"check", "get"}
BootSteps == HealthLoop \cup {"start", "spawned", "healthy", "unhealthy", "ready", "failed"}
MonSteps == HealthLoop \cup
  {"none", "wait", "read", "mark", "backoff", "spawn", "fork", "spawned",
   "healthy", "unhealthy", "giveup", "ended"}

Running(p) == proc[p] \in {"loading", "serving"}

SupTypeOK ==
  /\ state \in States
  /\ cmd \in 0..MaxProcs
  /\ started \in 0..MaxProcs
  /\ proc \in [Procs -> {"none", "loading", "serving", "exited"}]
  /\ baseDone \in BOOLEAN
  /\ llamaDone \in BOOLEAN
  /\ boot \in [pc : BootSteps, tries : 0..HealthTries]
  /\ mon \in [pc : MonSteps, proc : 0..MaxProcs,
              attempt : 0..RestartTries, tries : 0..HealthTries]

SupInit ==
  /\ state = "STOPPED"
  /\ cmd = 0
  /\ started = 0
  /\ proc = [p \in Procs |-> "none"]
  /\ baseDone = FALSE
  /\ llamaDone = FALSE
  /\ boot = [pc |-> "start", tries |-> 0]
  /\ mon = [pc |-> "none", proc |-> 0, attempt |-> 0, tries |-> 0]

Spawn ==
  /\ started' = started + 1
  /\ proc' = [proc EXCEPT ![started + 1] = "loading"]

-----------------------------------------------------------------------------
(* waitReady, for the goroutine whose record is t and whose context is done *)
(* or not: the records it may have after its next step.  Neither the GET    *)
(* nor the sleep after it looks at the context.                             *)

Healthy == \E p \in Procs : proc[p] = "serving"

WaitReadyStep(t, done) ==
  CASE t.pc = "check" ->
         {[t EXCEPT !.pc = IF t.tries = HealthTries \/ done THEN "unhealthy" ELSE "get"]}
    [] t.pc = "get" ->
         {[t EXCEPT !.pc = "check", !.tries = @ + 1]} \cup
         (IF Healthy THEN {[t EXCEPT !.pc = "healthy"]} ELSE {})
    [] OTHER -> {}

-----------------------------------------------------------------------------
(* Start and WaitReady, called by main one after the other.                *)

BootGoto(pc) == boot' = [boot EXCEPT !.pc = pc]

StartSpawns ==
  /\ boot.pc = "start"
  /\ Spawn
  /\ state' = "STARTING"
  /\ BootGoto("spawned")
  /\ UNCHANGED <<cmd, baseDone, llamaDone, mon>>

\* cmd.Start fails: no such binary.
StartFails ==
  /\ boot.pc = "start"
  /\ state' = "FAILED"
  /\ BootGoto("failed")
  /\ UNCHANGED <<cmd, started, proc, baseDone, llamaDone, mon>>

StartMonitors ==
  /\ boot.pc = "spawned"
  /\ cmd' = started
  /\ mon' = [mon EXCEPT !.pc = "wait", !.proc = started]
  /\ BootGoto("check")
  /\ UNCHANGED <<state, started, proc, baseDone, llamaDone>>

BootWaits ==
  /\ boot' \in WaitReadyStep(boot, baseDone)
  /\ UNCHANGED <<state, cmd, started, proc, baseDone, llamaDone, mon>>

\* WaitReady records the result it got, whatever became of the process since.
WaitReadyReturns ==
  /\ \/ boot.pc = "healthy"   /\ state' = "READY"  /\ BootGoto("ready")
     \/ boot.pc = "unhealthy" /\ state' = "FAILED" /\ BootGoto("failed")
  /\ UNCHANGED <<cmd, started, proc, baseDone, llamaDone, mon>>

Boot == StartSpawns \/ StartFails \/ StartMonitors \/ BootWaits \/ WaitReadyReturns

-----------------------------------------------------------------------------
(* monitor and restart.                                                    *)

MonGoto(from, to) ==
  /\ mon.pc = from
  /\ mon' = [mon EXCEPT !.pc = to]
  /\ UNCHANGED <<baseDone, llamaDone, boot>>

MonSets(from, to, st) ==
  /\ MonGoto(from, to)
  /\ state' = st
  /\ UNCHANGED <<cmd, started, proc>>

\* cmd.Wait returns.
MonitorNotices ==
  /\ MonGoto("wait", "read")
  /\ mon.proc # 0 /\ proc[mon.proc] = "exited"
  /\ UNCHANGED <<state, cmd, started, proc>>

MonitorReads ==
  /\ MonGoto("read", IF state = "STOPPED" THEN "ended" ELSE "mark")
  /\ UNCHANGED <<state, cmd, started, proc>>

RestartMarks == MonSets("mark", "backoff", "RESTARTING")

RestartCancelled ==
  /\ llamaDone
  /\ MonGoto("backoff", "giveup")
  /\ UNCHANGED <<state, cmd, started, proc>>

\* The backoff has passed.
RestartStarting == MonSets("backoff", "spawn", "STARTING")

\* Mutant: one attempt too many.
NextAttempt_OffByOne ==
  [mon EXCEPT !.attempt = @ + 1,
              !.pc = IF mon.attempt = RestartTries THEN "giveup" ELSE "mark"]

NextAttempt ==
  [mon EXCEPT !.attempt = @ + 1,
              !.pc = IF mon.attempt + 1 = RestartTries THEN "giveup" ELSE "mark"]

\* Mutant: an attempt that could not start its process is not counted.
RestartSpawnFails_Uncounted ==
  /\ mon.pc \in {"spawn", "fork"}
  /\ mon' = [mon EXCEPT !.pc = "mark"]
  /\ UNCHANGED <<state, cmd, started, proc, baseDone, llamaDone, boot>>

\* cmd.Start fails: the context is done, or the binary cannot be started.
RestartSpawnFails ==
  /\ mon.pc \in {"spawn", "fork"}
  /\ mon' = NextAttempt
  /\ UNCHANGED <<state, cmd, started, proc, baseDone, llamaDone, boot>>

\* cmd.Start finds the context not done, and goes on to fork.
RestartForks ==
  /\ ~llamaDone
  /\ MonGoto("spawn", "fork")
  /\ UNCHANGED <<state, cmd, started, proc>>

RestartSpawns ==
  /\ MonGoto("fork", "spawned")
  /\ Spawn
  /\ UNCHANGED <<state, cmd>>

\* Mutant: the new process does not become the one that Stop kills.
RestartRecords_Forgets ==
  /\ mon.pc = "spawned"
  /\ mon' = [mon EXCEPT !.pc = "check", !.tries = 0]
  /\ UNCHANGED <<cmd, state, started, proc, baseDone, llamaDone, boot>>

RestartRecords ==
  /\ mon.pc = "spawned"
  /\ mon' = [mon EXCEPT !.pc = "check", !.tries = 0]
  /\ cmd' = started
  /\ UNCHANGED <<state, started, proc, baseDone, llamaDone, boot>>

RestartWaits ==
  /\ mon' \in WaitReadyStep(mon, llamaDone)
  /\ UNCHANGED <<state, cmd, started, proc, baseDone, llamaDone, boot>>

\* The health check failed: the next attempt, and the process is left alone.
RestartUnhealthy ==
  /\ mon.pc = "unhealthy"
  /\ mon' = NextAttempt
  /\ UNCHANGED <<state, cmd, started, proc, baseDone, llamaDone, boot>>

\* READY, and go s.monitor(ctx, cmd).
RestartSucceeds ==
  /\ mon.pc = "healthy"
  /\ state' = "READY"
  /\ mon' = [pc |-> "wait", proc |-> started, attempt |-> 0, tries |-> 0]
  /\ UNCHANGED <<cmd, started, proc, baseDone, llamaDone, boot>>

\* Mutant: the loop of restart goes on after FATAL.
MonitorGivesUp_GoesOn == MonSets("giveup", "mark", "FATAL")

MonitorGivesUp == MonSets("giveup", "ended", "FATAL")

Monitor ==
  \/ MonitorNotices \/ MonitorReads \/ RestartMarks \/ RestartCancelled
  \/ RestartStarting \/ RestartSpawnFails \/ RestartForks \/ RestartSpawns
  \/ RestartRecords \/ RestartWaits \/ RestartUnhealthy \/ RestartSucceeds \/ MonitorGivesUp

-----------------------------------------------------------------------------
(* Stop, the contexts and the processes.                                   *)

\* Stop, one critical section; main and the signal handler call it.
Stop ==
  /\ state' = "STOPPED"
  /\ IF state = "STOPPED" THEN UNCHANGED <<llamaDone, proc>>
     ELSE /\ llamaDone' = TRUE
          /\ proc' = IF cmd # 0 /\ Running(cmd) THEN [proc EXCEPT ![cmd] = "exited"] ELSE proc
  /\ UNCHANGED <<cmd, started, baseDone, boot, mon>>

\* cancel() of main: llamaCtx is derived from its context.
CancelBase ==
  /\ baseDone' = TRUE
  /\ llamaDone' = TRUE
  /\ UNCHANGED <<state, cmd, started, proc, boot, mon>>

\* A goroutine of os/exec kills a process whose context is done.
ContextKills(p) ==
  /\ llamaDone /\ Running(p)
  /\ proc' = [proc EXCEPT ![p] = "exited"]
  /\ UNCHANGED <<state, cmd, started, baseDone, llamaDone, boot, mon>>

\* llama-server has loaded the model and answers; the port is held by one.
Loaded(p) ==
  /\ proc[p] = "loading" /\ ~Healthy
  /\ proc' = [proc EXCEPT ![p] = "serving"]
  /\ UNCHANGED <<state, cmd, started, baseDone, llamaDone, boot, mon>>

\* llama-server exits by itself: a crash, the port taken.  Bound: the last
\* processes do not, so that a restart always finds a number left.
Exits(p) ==
  /\ Running(p) /\ p <= MaxProcs - RestartTries
  /\ proc' = [proc EXCEPT ![p] = "exited"]
  /\ UNCHANGED <<state, cmd, started, baseDone, llamaDone, boot, mon>>

ProcessSteps == \E p \in Procs : ContextKills(p) \/ Loaded(p) \/ Exits(p)

\* Goroutines run; the backoff and the health checks end.  This holds until the
\* context is cancelled: main then exits, and with it the monitor and the
\* goroutines of os/exec, wherever they are.
SupFairness == WF_supVars(~llamaDone /\ Boot) /\ WF_supVars(~llamaDone /\ Monitor)

\* The supervisor by itself: main stops it when WaitReady has failed, and
\* cancels and stops it at any time after WaitReady has returned.
SupNext ==
  \/ Boot \/ Monitor \/ ProcessSteps
  \/ boot.pc \in {"ready", "failed"} /\ (Stop \/ CancelBase)

SupSpec == SupInit /\ [][SupNext]_supVars
SupFairSpec == SupSpec /\ SupFairness

-----------------------------------------------------------------------------
(* Properties.                                                             *)

\* The process that a Stop kills is the one the monitor waits for, and the last
\* one started: whoever replaces the process tells both.
WatchedIsCurrent ==
  mon.pc \in {"wait", "read", "mark"} /\ mon.attempt = 0 => mon.proc = cmd /\ cmd = started

\* FATAL is final: only Stop leaves it, or a WaitReady that was still running.
FatalIsFinal ==
  [][state = "FATAL" /\ state' # "FATAL" =>
       state' = "STOPPED" \/ boot.pc \in {"healthy", "unhealthy"}]_supVars

\* A restart ends with a process that is watched or for good, unless the context
\* is cancelled, and the whole program with it.
RestartSettles == mon.pc # "none" ~> mon.pc \in {"wait", "ended"} \/ llamaDone

\* orchestrator.md, 2: one instance of llama-server.
OneInstance == \A p, q \in Procs : Running(p) /\ Running(q) => p = q
=============================================================================
