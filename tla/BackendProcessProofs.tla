------------------------ MODULE BackendProcessProofs ------------------------
(***************************************************************************)
(* Proofs about BackendProcess, for any number of retries.                 *)
(***************************************************************************)
EXTENDS BackendProcess, TLAPS

USE MaxRetriesAssumption

\* A process that is starting has no connection: start() is called once, and
\* the process leaves the state Starting for good.
NoSocketYet == m_process = "Starting" => m_socket = "null" /\ ~timer

\* Where the process stands in each part of the destructor, and that a process
\* is forgotten when it has ended, or is left to the destructor of QProcess.
Reaped ==
  /\ app \in {"terminating", "killing"} => m_process = "Running"
  /\ m_process = "null" /\ app # "deleting" => orch \in {"none", "dead"}
  /\ app \in {"deleting", "quit", "crashed"} => m_process = "null"

IInv == TypeOK /\ NoSocketYet /\ UsableOrRetrying /\ OneSocket /\ Reaped

-----------------------------------------------------------------------------
(* What the parts of a step leave alone.                                   *)

\* A handler runs in a front end that is alive.
LEMMA StepIs ==
  ASSUME [Next]_vars
  PROVE  \/ app = "running" /\ (Handlers \/ SendQuery \/ Answered \/ Quit)
         \/ StopSteps
         \/ OrchestratorSteps \/ Killed
         \/ UNCHANGED vars
BY DEF Next

\* The orchestrator does not touch the front end, is started by a QProcess that
\* is starting, and once dead stays dead.
LEMMA OrchestratorFrame ==
  ASSUME OrchestratorSteps \/ Killed
  PROVE  /\ UNCHANGED <<app, status, m_process, m_socket, timer, retryCount>>
         /\ orch = "none" => m_process = "Starting"
         /\ orch # "dead"
BY DEF OrchestratorSteps, Execs, Listens, Closes, Dies, Killed, AppUnchanged

\* stop() leaves nothing connected or waiting, and the process to itself.
LEMMA StopIs ==
  ASSUME Stop
  PROVE  /\ ~timer' /\ m_socket' = "null" /\ m_process' = "null" /\ status' = "stopped"
         /\ orch' = orch
BY DEF Stop, Disconnects, Forgets, OrchUnchanged

\* The steps of the destructor: nothing is connected any more, and the process
\* is forgotten when it is dead or handed to the destructor of QProcess.
LEMMA StopStepIs ==
  ASSUME StopSteps
  PROVE  /\ UNCHANGED <<m_socket, timer, retryCount, peer, orch, killed>>
         /\ \/ /\ app = "terminating" /\ app' = "killing"
               /\ UNCHANGED <<status, m_process>>
            \/ /\ app \in {"terminating", "killing"} /\ orch = "dead"
               /\ app' \in {"quit", "crashed"} /\ m_process' = "null" /\ status' = "stopped"
            \/ /\ app = "killing" /\ app' = "deleting"
               /\ m_process' = "null" /\ status' = "stopped"
            \/ /\ app = "deleting" /\ app' = "quit" /\ orch \in {"none", "dead"}
               /\ UNCHANGED <<status, m_process>>
BY DEF StopSteps, StopNotices, StopTimesOut, KillTimesOut, QProcessDeleted, StopGoto, KeepsProcess,
   Forgets, NullUse, OrchUnchanged

-----------------------------------------------------------------------------
(* Types.                                                                  *)

LEMMA HangupType ==
  ASSUME peer \in {"none", "open", "closed"}
  PROVE  Hangup \in {"none", "open", "closed"}
BY DEF Hangup

LEMMA TypeNext == TypeOK /\ [Next]_vars => TypeOK'
<1> SUFFICES ASSUME TypeOK, [Next]_vars PROVE TypeOK'
  OBVIOUS
<1> USE DEF TypeOK
<1>1. CASE OnOrchestratorStarted
  BY <1>1 DEF OnOrchestratorStarted
<1>2. CASE OrchestratorFailsToStart
  BY <1>2, HangupType DEF OrchestratorFailsToStart, Stop, Disconnects, Forgets, OrchUnchanged
<1>3. CASE OrchestratorCrashed
  BY <1>3, HangupType
     DEF OrchestratorCrashed, Stop, Disconnects, Forgets, OrchUnchanged, NullUse
<1>4. CASE OnOrchestratorFinished
  BY <1>4 DEF OnOrchestratorFinished
<1>5. CASE TryGivesUp \/ TryConnects
  BY <1>5 DEF TryGivesUp, TryConnects
<1>6. CASE TryFails
  BY <1>6 DEF TryFails, RetryConnect
<1>7. CASE PeerCloses
  <2>1. retryCount' \in 0..(MaxRetries + 1)
    BY <1>7 DEF PeerCloses, RetryConnect, MayRetry
  <2>2. timer' \in BOOLEAN /\ status' \in {status, "error"}
    BY <1>7, Zenon DEF PeerCloses, RetryConnect
  <2> QED
    BY <1>7, <2>1, <2>2 DEF PeerCloses
<1>8. CASE SendQuery \/ Answered
  BY <1>8 DEF SendQuery, Answered
<1>9. CASE Quit
  BY <1>9, HangupType DEF Quit, Disconnects, Forgets, KeepsProcess, OrchUnchanged
<1>10. CASE OrchestratorSteps \/ Killed
  BY <1>10, HangupType
     DEF OrchestratorSteps, Execs, Listens, Closes, Dies, Killed, AppUnchanged
<1>11. CASE StopSteps
  BY <1>11, StopStepIs
<1>12. CASE UNCHANGED vars
  BY <1>12 DEF vars
<1> QED
  BY <1>1, <1>2, <1>3, <1>4, <1>5, <1>6, <1>7, <1>8, <1>9, <1>10, <1>11, <1>12
     DEF Next, Handlers

-----------------------------------------------------------------------------
(* The invariant.                                                          *)

\* Each handler keeps the status, the socket and the timer in step.
LEMMA ConnectionNext ==
  TypeOK /\ NoSocketYet /\ UsableOrRetrying /\ OneSocket /\ Reaped /\ [Next]_vars
    => NoSocketYet' /\ UsableOrRetrying' /\ OneSocket'
<1> SUFFICES ASSUME TypeOK, NoSocketYet, UsableOrRetrying, OneSocket, Reaped, [Next]_vars
             PROVE  NoSocketYet' /\ UsableOrRetrying' /\ OneSocket'
  OBVIOUS
<1> USE DEF NoSocketYet, UsableOrRetrying, OneSocket
<1>1. CASE OnOrchestratorStarted
  BY <1>1 DEF OnOrchestratorStarted
<1>2. CASE OrchestratorFailsToStart \/ OrchestratorCrashed
  BY <1>2, StopIs DEF OrchestratorFailsToStart, OrchestratorCrashed
<1>9. CASE Quit
  BY <1>9 DEF Quit, Disconnects, Forgets
<1>10. CASE StopSteps
  BY <1>10, StopStepIs DEF Reaped
<1>3. CASE OnOrchestratorFinished
  BY <1>3 DEF OnOrchestratorFinished
<1>4. CASE TryGivesUp \/ TryConnects
  BY <1>4 DEF TryGivesUp, TryConnects
<1>5. CASE TryFails
  BY <1>5 DEF TryFails, RetryConnect
<1>6. CASE PeerCloses
  BY <1>6 DEF PeerCloses, RetryConnect, MayRetry, TypeOK
<1>7. CASE SendQuery \/ Answered
  BY <1>7 DEF SendQuery, Answered
<1>8. CASE OrchestratorSteps \/ Killed \/ UNCHANGED vars
  BY <1>8, OrchestratorFrame DEF vars
<1> QED
  BY <1>1, <1>2, <1>3, <1>4, <1>5, <1>6, <1>7, <1>8, <1>9, <1>10 DEF Next, Handlers

\* A process is forgotten by a handler that was told of its end, by the step of
\* stop() that saw it, or by one that leaves it to the destructor of QProcess.
LEMMA ReapedNext == TypeOK /\ Reaped /\ [Next]_vars => Reaped'
<1> SUFFICES ASSUME TypeOK, Reaped, [Next]_vars PROVE Reaped'
  OBVIOUS
<1> USE DEF Reaped
<1>1. CASE app = "running" /\ (OrchestratorFailsToStart \/ OrchestratorCrashed)
  BY <1>1, StopIs DEF OrchestratorFailsToStart, OrchestratorCrashed, NullUse
<1>2. CASE app = "running" /\ (OnOrchestratorStarted \/ OnOrchestratorFinished)
  BY <1>2 DEF OnOrchestratorStarted, OnOrchestratorFinished
<1>3. CASE app = "running" /\ (TryGivesUp \/ TryConnects \/ TryFails \/ PeerCloses)
  BY <1>3 DEF TryGivesUp, TryConnects, TryFails, PeerCloses
<1>4. CASE app = "running" /\ (SendQuery \/ Answered)
  BY <1>4 DEF SendQuery, Answered
<1>5. CASE app = "running" /\ Quit
  BY <1>5 DEF Quit, Forgets, KeepsProcess, OrchUnchanged, TypeOK
<1>6. CASE StopSteps
  BY <1>6, StopStepIs
<1>7. CASE OrchestratorSteps \/ Killed
  <2>1. UNCHANGED <<app, m_process>>
    BY <1>7, OrchestratorFrame
  <2>2. m_process = "null" => orch \notin {"none", "dead"}
    BY <1>7, OrchestratorFrame
  <2>3. app = "deleting" \/ m_process # "null"
    BY <2>2
  <2> QED
    BY <2>1, <2>3
<1>8. CASE UNCHANGED vars
  BY <1>8 DEF vars
<1> QED
  BY <1>1, <1>2, <1>3, <1>4, <1>5, <1>6, <1>7, <1>8, StepIs DEF Handlers

THEOREM Inductive == Spec => []IInv
<1>1. Init => IInv
  <2>1. Init => retryCount \in 0..(MaxRetries + 1)
    BY DEF Init
  <2> QED
    BY <2>1
       DEF Init, IInv, TypeOK, NoSocketYet, UsableOrRetrying, OneSocket, Reaped
<1>2. IInv /\ [Next]_vars => IInv'
  BY TypeNext, ConnectionNext, ReapedNext DEF IInv
<1> QED
  BY <1>1, <1>2, PTL DEF Spec

-----------------------------------------------------------------------------
(* The theorems.                                                           *)

\* Every variable of the back end object keeps its type; the attempts are
\* bounded by the test in tryConnect and onError.
THEOREM TypeCorrect == Spec => []TypeOK
<1>1. IInv => TypeOK
  BY DEF IInv
<1> QED
  BY <1>1, Inductive, PTL

\* A usable status is backed by a connection or by an armed retry timer, for
\* any limit on the retries (onConnected, onError, onOrchestratorFinished).
THEOREM Usable == Spec => []UsableOrRetrying
<1>1. IInv => UsableOrRetrying
  BY DEF IInv
<1> QED
  BY <1>1, Inductive, PTL

\* tryConnect never replaces a socket that is connected.
THEOREM SocketKept == Spec => []OneSocket
<1>1. IInv => OneSocket
  BY DEF IInv
<1> QED
  BY <1>1, Inductive, PTL

\* The destructor leaves no orchestrator behind, though terminate(), both waits
\* and kill() may all come to nothing before the destructor of the QProcess runs.
THEOREM NothingLeft == Spec => []QuitStopsOrchestrator
<1>1. IInv => QuitStopsOrchestrator
  BY DEF IInv, Reaped, QuitStopsOrchestrator
<1> QED
  BY <1>1, Inductive, PTL

=============================================================================
