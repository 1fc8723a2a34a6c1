--------------------------- MODULE BackendProcess ---------------------------
(***************************************************************************)
(* The Qt side of the orchestrator's life (src/backendprocess.cpp): the    *)
(* process it starts, the connection it tries again and again, and the     *)
(* status the user interface follows.  The front end is one thread: a step *)
(* is one handler with everything it calls; only the destructor, which     *)
(* waits for the orchestrator, takes several.  The orchestrator is seen    *)
(* from outside: it boots, listens, closes and dies, or does not.          *)
(***************************************************************************)
EXTENDS Integers

CONSTANT MaxRetries  \* the bound in tryConnect and onError: 10 in the code

ASSUME MaxRetriesAssumption == MaxRetries \in Nat

VARIABLES
  app,        \* the front end: running, in a wait of its destructor, or ended
  status,     \* m_status
  m_process,  \* null, or the state of the QProcess, as Qt knows it
  m_socket,   \* null or connected: connecting takes no time on a local socket
  timer,      \* m_retryTimer is active
  retryCount, \* m_retryCount
  orch,       \* the orchestrator
  killed,     \* a signal ended it: QProcess calls that a crash
  peer        \* the orchestrator's end of the connection

vars == <<app, status, m_process, m_socket, timer, retryCount, orch, killed, peer>>

TypeOK ==
  /\ app \in {"running", "terminating", "killing", "deleting", "quit", "crashed"}
  /\ status \in {"stopped", "starting", "connecting", "ready", "busy", "error"}
  /\ m_process \in {"null", "Starting", "Running"}
  /\ m_socket \in {"null", "connected"}
  /\ timer \in BOOLEAN
  /\ retryCount \in 0..(MaxRetries + 1)
  /\ orch \in {"none", "boot", "listen", "closing", "dead"}
  /\ killed \in BOOLEAN
  /\ peer \in {"none", "open", "closed"}

\* Aseek.qml has just called start().
Init ==
  /\ app = "running"
  /\ status = "starting"
  /\ m_process = "Starting"
  /\ m_socket = "null"
  /\ timer = FALSE
  /\ retryCount = 0
  /\ orch = "none" /\ killed = FALSE /\ peer = "none"

-----------------------------------------------------------------------------
(* The orchestrator, from outside.                                         *)

OrchUnchanged == UNCHANGED <<orch, killed>>
AppUnchanged == UNCHANGED <<app, status, m_process, m_socket, timer, retryCount>>

\* NewServer: llama-server was ready.
Listens == orch = "boot" /\ orch' = "listen" /\ UNCHANGED <<killed, peer>> /\ AppUnchanged

Hangup == IF peer = "open" THEN "closed" ELSE peer

\* ipcSrv.Close(), on a signal.
Closes == orch = "listen" /\ orch' = "closing" /\ peer' = Hangup /\ UNCHANGED killed /\ AppUnchanged

\* QProcess has forked, and the child executes the binary.
Execs ==
  /\ orch = "none" /\ m_process = "Starting"
  /\ orch' = "boot"
  /\ UNCHANGED <<killed, peer>> /\ AppUnchanged

\* The process ends: os.Exit, the end of main, or a signal.
Dies(bySignal) ==
  /\ orch \in {"boot", "listen", "closing"}
  /\ orch' = "dead" /\ killed' = bySignal /\ peer' = Hangup
  /\ AppUnchanged

OrchestratorSteps == Execs \/ Listens \/ Closes \/ \E bySignal \in BOOLEAN : Dies(bySignal)

-----------------------------------------------------------------------------
(* stop(), and the retries.                                                *)

Disconnects == timer' = FALSE /\ m_socket' = "null" /\ peer' = Hangup

\* The rest of stop(), once the process has ended or was given up.
Forgets == m_process' = "null" /\ status' = "stopped"

\* stop() from a handler: the process is dead, or was never started.
Stop == Disconnects /\ Forgets /\ OrchUnchanged

\* A method is called on a null m_process: the front end goes on or crashes.
NullUse(end) == app' \in {end, "crashed"}

\* Mutant: the attempts are not counted.
RetryConnect_Uncounted == timer' = TRUE /\ UNCHANGED retryCount

RetryConnect == timer' = TRUE /\ retryCount' = retryCount + 1

\* The condition of onError, m_process as it is when the socket fails.
MayRetry == m_process = "Running" /\ retryCount <= MaxRetries

-----------------------------------------------------------------------------
(* Handlers of the process's signals.                                      *)

OnOrchestratorStarted ==
  /\ m_process = "Starting" /\ orch # "none"
  /\ m_process' = "Running"
  /\ timer' = TRUE /\ retryCount' = 1
  /\ UNCHANGED <<app, status, m_socket, orch, killed, peer>>

\* onOrchestratorError with FailedToStart: the state is NotRunning in stop.
OrchestratorFailsToStart ==
  /\ m_process = "Starting" /\ orch = "none"
  /\ Stop
  /\ UNCHANGED <<app, retryCount>>

\* onOrchestratorError with Crashed calls stop(), and QProcess then goes on to
\* emit finished(): onOrchestratorFinished uses the m_process that stop() reset.
OrchestratorCrashed ==
  /\ m_process = "Running" /\ orch = "dead" /\ killed
  /\ Stop
  /\ NullUse("running")
  /\ UNCHANGED retryCount

\* Mutant: the status is left alone.
OnOrchestratorFinished_Silent ==
  /\ m_process = "Running" /\ orch = "dead" /\ ~killed
  /\ m_process' = "null"
  /\ m_socket' = "null"
  /\ UNCHANGED <<app, status, timer, retryCount, orch, killed, peer>>

\* The timer is left alone.
OnOrchestratorFinished ==
  /\ m_process = "Running" /\ orch = "dead" /\ ~killed
  /\ m_process' = "null"
  /\ m_socket' = "null"
  /\ status' = "stopped"
  /\ UNCHANGED <<app, timer, retryCount, orch, killed, peer>>

-----------------------------------------------------------------------------
(* Handlers of the timer and the socket.                                   *)

\* tryConnect gives up: no process, or too many attempts.
TryGivesUp ==
  /\ timer
  /\ m_process # "Running" \/ retryCount > MaxRetries
  /\ timer' = FALSE
  /\ status' = "error"
  /\ UNCHANGED <<app, m_process, m_socket, retryCount, orch, killed, peer>>

\* Mutant: the timer is not single-shot.
TryConnects_Again ==
  /\ timer
  /\ m_process = "Running" /\ retryCount <= MaxRetries
  /\ orch = "listen"
  /\ m_socket' = "connected" /\ peer' = "open"
  /\ status' = "ready"
  /\ UNCHANGED <<app, m_process, timer, retryCount, orch, killed>>

\* connectToServer, and onConnected before it returns.
TryConnects ==
  /\ timer
  /\ m_process = "Running" /\ retryCount <= MaxRetries
  /\ orch = "listen"
  /\ timer' = FALSE
  /\ m_socket' = "connected" /\ peer' = "open"
  /\ status' = "ready"
  /\ UNCHANGED <<app, m_process, retryCount, orch, killed>>

\* Mutant: tryConnect retries as well as onError.
TryFails_Twice ==
  /\ timer
  /\ m_process = "Running" /\ retryCount <= MaxRetries
  /\ orch # "listen"
  /\ retryCount' = retryCount + 2
  /\ status' = "connecting"
  /\ UNCHANGED <<app, m_process, m_socket, timer, orch, killed, peer>>

\* connectToServer, and onError before it returns: nobody listens.  Here onError
\* always retries, as tryConnect has just made sure of its condition.
TryFails ==
  /\ timer
  /\ m_process = "Running" /\ retryCount <= MaxRetries
  /\ orch # "listen"
  /\ RetryConnect
  /\ status' = "connecting"
  /\ UNCHANGED <<app, m_process, m_socket, orch, killed, peer>>

\* Mutant: no retry.
PeerCloses_NoRetry ==
  /\ m_socket = "connected" /\ peer = "closed"
  /\ m_socket' = "null"
  /\ IF MayRetry THEN UNCHANGED <<timer, retryCount, status>>
     ELSE status' = "error" /\ UNCHANGED <<timer, retryCount>>
  /\ UNCHANGED <<app, m_process, orch, killed, peer>>

\* onError with PeerClosedError, then onDisconnected, which finds no socket.
\* The status stays what it was until the timer fires.
PeerCloses ==
  /\ m_socket = "connected" /\ peer = "closed"
  /\ m_socket' = "null"
  /\ IF MayRetry THEN RetryConnect /\ UNCHANGED status
     ELSE status' = "error" /\ UNCHANGED <<timer, retryCount>>
  /\ UNCHANGED <<app, m_process, orch, killed, peer>>

-----------------------------------------------------------------------------
(* Queries.                                                                *)

\* Without a socket sendMessage drops the query, and the status is busy all the same.
SendQuery ==
  /\ status = "ready"
  /\ status' = "busy"
  /\ UNCHANGED <<app, m_process, m_socket, timer, retryCount, orch, killed, peer>>

\* Done or Error: what the chat of ChatSession does in detail.
Answered ==
  /\ status = "busy" /\ m_socket = "connected"
  /\ status' = "ready"
  /\ UNCHANGED <<app, m_process, m_socket, timer, retryCount, orch, killed, peer>>

-----------------------------------------------------------------------------
(* The destructor: stop(), with its two waits, then that of the QProcess,  *)
(* a child of this object.  No other handler runs meanwhile.               *)

KeepsProcess == UNCHANGED <<status, m_process>>

\* Up to the first wait: terminate(), when Qt knows that the process runs.
Quit ==
  /\ Disconnects
  /\ \/ m_process = "Running"  /\ app' = "terminating" /\ KeepsProcess
     \/ m_process = "Starting" /\ app' = "deleting" /\ Forgets
     \/ m_process = "null"     /\ app' = "quit" /\ Forgets
  /\ OrchUnchanged /\ UNCHANGED retryCount

StopGoto(from, to) ==
  app = from /\ app' = to /\ UNCHANGED <<m_socket, timer, retryCount, peer>>

\* waitForFinished sees the end of the process and runs onOrchestratorFinished,
\* after a signal onOrchestratorError too, inside stop(), which then uses the
\* m_process that they reset.
StopNotices ==
  /\ app \in {"terminating", "killing"} /\ orch = "dead"
  /\ Forgets
  /\ NullUse("quit")
  /\ OrchUnchanged /\ UNCHANGED <<m_socket, timer, retryCount, peer>>

\* Mutant: the first wait has no limit.
StopTimesOut_Never ==
  /\ StopGoto("terminating", "killing")
  /\ orch = "dead" /\ KeepsProcess /\ OrchUnchanged

\* Five seconds after terminate() the process still runs: kill().
StopTimesOut ==
  /\ StopGoto("terminating", "killing")
  /\ orch # "dead" /\ KeepsProcess /\ OrchUnchanged

\* Mutant: the QProcess is not a child of this object, which takes it along.
KillTimesOut_Leaves ==
  /\ StopGoto("killing", "quit")
  /\ orch # "dead" /\ Forgets /\ OrchUnchanged

\* Three more seconds have passed, and stop() gives up.
KillTimesOut ==
  /\ StopGoto("killing", "deleting")
  /\ orch # "dead" /\ Forgets /\ OrchUnchanged

\* The destructor of the QProcess kills and waits again.  The 30 seconds of
\* that wait are taken to be enough for a process that was killed.
QProcessDeleted ==
  /\ StopGoto("deleting", "quit")
  /\ orch \in {"none", "dead"} /\ KeepsProcess /\ OrchUnchanged

\* SIGKILL takes effect, some time after it was sent.
Killed ==
  /\ app \in {"killing", "deleting"} /\ orch \notin {"none", "dead"}
  /\ orch' = "dead" /\ killed' = TRUE /\ peer' = Hangup
  /\ AppUnchanged

StopSteps == StopNotices \/ StopTimesOut \/ KillTimesOut \/ QProcessDeleted

Handlers ==
  \/ OnOrchestratorStarted \/ OrchestratorFailsToStart
  \/ OrchestratorCrashed \/ OnOrchestratorFinished
  \/ TryGivesUp \/ TryConnects \/ TryFails \/ PeerCloses

Next ==
  \/ app = "running" /\ (Handlers \/ SendQuery \/ Answered \/ Quit)
  \/ StopSteps
  \/ OrchestratorSteps \/ Killed

Spec == Init /\ [][Next]_vars

\* The event loop runs, waits with a limit end and SIGKILL takes effect; nothing
\* else is assumed of the orchestrator, which may ignore SIGTERM, nor of the user.
Fairness ==
  /\ WF_vars(app = "running" /\ Handlers)
  /\ WF_vars(StopSteps) /\ WF_vars(Killed)

FairSpec == Spec /\ Fairness

-----------------------------------------------------------------------------
(* Properties.                                                             *)

\* A front end that says it is ready or busy has a connection, or is going to
\* find out that it has none.
UsableOrRetrying ==
  app = "running" /\ status \in {"ready", "busy"} => m_socket = "connected" \/ timer

\* No attempt to connect while there is a connection: tryConnect never replaces
\* the socket of a running request.
OneSocket == timer => m_socket = "null"

\* Starting and connecting end, whatever the orchestrator does.
ConnectSettles ==
  status \in {"starting", "connecting"} ~>
    status \in {"ready", "busy", "stopped", "error"} \/ app # "running"

\* The death of the orchestrator is noticed, and for good.
DeathSettles ==
  orch = "dead" ~> [](m_socket = "null" /\ status \in {"stopped", "error"}) \/ app # "running"

\* The front end leaves no orchestrator behind, whichever of the waits in stop()
\* and in the destructor of its QProcess saw the end of it, if any.
QuitStopsOrchestrator == app \in {"quit", "crashed"} => orch \in {"none", "dead"}

\* The front end ends though the orchestrator ignores SIGTERM.
QuitEnds == app \in {"terminating", "killing", "deleting"} ~> app \in {"quit", "crashed"}
=============================================================================
