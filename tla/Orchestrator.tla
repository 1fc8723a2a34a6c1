---------------------------- MODULE Orchestrator ----------------------------
(***************************************************************************)
(* The life of the orchestrator process (main.go): main, the goroutine     *)
(* that waits for a signal, the one that accepts and serves the client,    *)
(* with the IPC server (internal/ipc/server.go) and the supervisor that    *)
(* they share.  The requests themselves are RequestManager's.              *)
(***************************************************************************)
EXTENDS Supervisor

CONSTANT Clients  \* processes that connect to the socket

NoClient == "no client"
ASSUME NoClientAssumption == NoClient \notin Clients

VARIABLES
  main,     \* where main is
  handler,  \* the goroutine of the signal handler
  accept,   \* the goroutine that accepts and serves
  done,     \* the channel done is closed
  closed,   \* s.closed of the IPC server
  sock,     \* the socket file exists
  conn,     \* s.conn: the client that was accepted
  client    \* what each client process does

lifeVars == <<main, handler, accept, done, closed, sock, conn, client>>
vars == <<supVars, lifeVars>>

TypeOK ==
  /\ SupTypeOK
  /\ main \in {"boot", "fail", "setup", "wait", "stop", "return", "exiting", "exited"}
  /\ handler \in {"none", "wait", "cancel", "close", "stop", "finish", "ended"}
  /\ accept \in {"none", "accept", "serve", "spin", "ended"}
  /\ done \in BOOLEAN
  /\ closed \in BOOLEAN
  /\ sock \in BOOLEAN
  /\ conn \in Clients \cup {NoClient}
  /\ client \in [Clients -> {"none", "connected", "gone"}]

Init ==
  /\ SupInit
  /\ main = "boot" /\ handler = "none" /\ accept = "none"
  /\ done = FALSE /\ closed = FALSE /\ sock = FALSE
  /\ conn = NoClient
  /\ client = [c \in Clients |-> "none"]

Alive == main # "exited"

-----------------------------------------------------------------------------
(* main                                                                    *)

MainGoto(from, to) == main = from /\ main' = to

\* Start or WaitReady has failed: os.Exit(1), after Stop in the second case.
BootFailed ==
  /\ boot.pc = "failed"
  /\ MainGoto("boot", IF cmd = 0 THEN "exiting" ELSE "fail")
  /\ UNCHANGED <<supVars, handler, accept, done, closed, sock, conn, client>>

\* Mutant: main listens without waiting for WaitReady.
Listen_Early ==
  /\ boot.pc \notin {"start", "failed"}
  /\ \/ MainGoto("boot", "setup") /\ sock' = TRUE
     \/ MainGoto("boot", "fail") /\ UNCHANGED sock
  /\ UNCHANGED <<supVars, handler, accept, done, closed, conn, client>>

\* NewServer removes what is at the path and listens.
Listen ==
  /\ boot.pc = "ready"
  /\ \/ MainGoto("boot", "setup") /\ sock' = TRUE
     \/ MainGoto("boot", "fail") /\ UNCHANGED sock
  /\ UNCHANGED <<supVars, handler, accept, done, closed, conn, client>>

FailStops ==
  /\ MainGoto("fail", "exiting")
  /\ Stop
  /\ UNCHANGED <<handler, accept, done, closed, sock, conn, client>>

\* signal.Notify and the two goroutines.
Notify ==
  /\ MainGoto("setup", "wait")
  /\ handler' = "wait"
  /\ accept' = "accept"
  /\ UNCHANGED <<supVars, done, closed, sock, conn, client>>

MainWakes ==
  /\ done
  /\ MainGoto("wait", "stop")
  /\ UNCHANGED <<supVars, handler, accept, done, closed, sock, conn, client>>

MainStops ==
  /\ MainGoto("stop", "return")
  /\ Stop
  /\ UNCHANGED <<handler, accept, done, closed, sock, conn, client>>

\* The deferred cancel().
MainReturns ==
  /\ MainGoto("return", "exiting")
  /\ CancelBase
  /\ UNCHANGED <<handler, accept, done, closed, sock, conn, client>>

\* The process ends, with every goroutine.
MainExits ==
  /\ MainGoto("exiting", "exited")
  /\ UNCHANGED <<supVars, handler, accept, done, closed, sock, conn, client>>

Main ==
  \/ BootFailed \/ Listen \/ FailStops \/ Notify \/ MainWakes
  \/ MainStops \/ MainReturns \/ MainExits

\* SIGINT or SIGTERM: the handler takes the first one; until it is installed,
\* the default action ends the process.
Terminate ==
  /\ \/ main \in {"boot", "fail", "setup"} /\ main' = "exited" /\ UNCHANGED handler
     \/ main = "wait" /\ handler = "wait" /\ handler' = "cancel" /\ UNCHANGED main
  /\ UNCHANGED <<supVars, accept, done, closed, sock, conn, client>>

-----------------------------------------------------------------------------
(* The goroutine of the signal handler.                                    *)

HandlerGoto(from, to) == handler = from /\ handler' = to /\ UNCHANGED <<main, accept, conn, client>>

HandlerLeaves == done /\ HandlerGoto("wait", "ended") /\ UNCHANGED <<supVars, done, closed, sock>>
HandlerCancels == HandlerGoto("cancel", "close") /\ CancelBase /\ UNCHANGED <<done, closed, sock>>

\* Mutant: the socket is not closed.
HandlerCloses_Not == HandlerGoto("close", "stop") /\ UNCHANGED <<supVars, done, closed, sock>>

\* ipcSrv.Close(): the listener removes its file, then Close does.
HandlerCloses ==
  /\ HandlerGoto("close", "stop")
  /\ closed' = TRUE /\ sock' = FALSE
  /\ UNCHANGED <<supVars, done>>

HandlerStops == HandlerGoto("stop", "finish") /\ Stop /\ UNCHANGED <<done, closed, sock>>

\* Mutant: main is not told.
HandlerFinishes_Silent == HandlerGoto("finish", "ended") /\ UNCHANGED <<supVars, done, closed, sock>>

HandlerFinishes ==
  /\ HandlerGoto("finish", "ended")
  /\ done' = TRUE
  /\ UNCHANGED <<supVars, closed, sock>>

Handler == HandlerLeaves \/ HandlerCancels \/ HandlerCloses \/ HandlerStops \/ HandlerFinishes

-----------------------------------------------------------------------------
(* The goroutine that accepts one client and serves it.  Accept is called  *)
(* once, so its branch that rejects a second client is never taken.        *)

AcceptGoto(from, to) == accept = from /\ accept' = to /\ UNCHANGED <<supVars, main, handler, closed, sock, client>>

Accept(c) ==
  /\ AcceptGoto("accept", "serve")
  /\ ~closed /\ client[c] \in {"connected", "gone"}
  /\ conn' = c
  /\ UNCHANGED done

\* The listener was closed, or Accept fails of itself: no file descriptor left.
AcceptFails == AcceptGoto("accept", "ended") /\ done' = TRUE /\ UNCHANGED conn

\* ReadMessage fails: the client is gone, five minutes have passed without a
\* message, or Close closed the connection.
ServeEnds == AcceptGoto("serve", "ended") /\ UNCHANGED <<done, conn>>

\* Serve finds the server closed, returns nil, and is called again, for ever.
ServeSpins == closed /\ AcceptGoto("serve", "spin") /\ UNCHANGED <<done, conn>>

AcceptGoroutine == (\E c \in Clients : Accept(c)) \/ AcceptFails \/ ServeSpins

-----------------------------------------------------------------------------
(* Clients.                                                                *)

\* connect() succeeds as soon as the socket listens; Accept comes later.
Connects(c) ==
  /\ sock /\ Alive /\ client[c] = "none"
  /\ client' = [client EXCEPT ![c] = "connected"]
  /\ UNCHANGED <<supVars, main, handler, accept, done, closed, sock, conn>>

Leaves(c) ==
  /\ client[c] = "connected"
  /\ client' = [client EXCEPT ![c] = "gone"]
  /\ UNCHANGED <<supVars, main, handler, accept, done, closed, sock, conn>>

Next ==
  \/ Alive /\ (Main \/ Terminate \/ Handler \/ AcceptGoroutine \/ ServeEnds)
  \/ Alive /\ (Boot \/ Monitor \/ \E p \in Procs : ContextKills(p)) /\ UNCHANGED lifeVars
  \/ (\E p \in Procs : Loaded(p) \/ Exits(p)) /\ UNCHANGED lifeVars
  \/ \E c \in Clients : Connects(c) \/ Leaves(c)

Spec == Init /\ [][Next]_vars

\* Goroutines that can run do, while the process lives; a read of a client that
\* is gone fails, and so does Accept of a listener that is closed, never another.
Fairness ==
  /\ WF_vars(Alive /\ Main) /\ WF_vars(Alive /\ Handler)
  /\ WF_vars(Alive /\ ((\E c \in Clients : Accept(c)) \/ (closed /\ AcceptFails) \/ ServeSpins))
  /\ WF_vars(Alive /\ ServeEnds /\ (closed \/ client[conn] = "gone"))
  /\ WF_vars(Alive /\ Boot /\ UNCHANGED lifeVars)
  /\ WF_vars(Alive /\ Monitor /\ UNCHANGED lifeVars)

FairSpec == Spec /\ Fairness

-----------------------------------------------------------------------------
(* Properties.                                                             *)

\* The end of a process that has cancelled its context: a failed start, a signal
\* the handler took, or an Accept that failed.  The socket file is left only by the
\* last, which no client has got past, and the llama-server in use does not run.
\* A restart past its look at the context, or in a later attempt, is the exception:
\* the llama-server it starts or has just started survives.
OrderlyExit ==
  main = "exited" /\ llamaDone =>
    /\ sock => conn = NoClient
    /\ mon.pc \in {"wait", "read", "mark", "backoff", "spawn"} /\ mon.attempt = 0 => ~Running(cmd)

\* Refinement: the process does to the supervisor only what Supervisor does by
\* itself; Stop and cancel() come from main and the handler at any time after
\* WaitReady has returned, and never before.
ImplementsSupervisor == SupSpec

\* A signal the handler takes ends the process.
SignalStops == handler = "cancel" ~> main = "exited"

\* README.md, lifecycle 5, and orchestrator.md, 3.3: the orchestrator stops
\* llama-server when it ends.
NoOrphan == main = "exited" => \A p \in Procs : ~Running(p)

\* orchestrator.md, 3.3: the orchestrator ends when its client disconnects.
ClientGoneStops == \A c \in Clients : conn = c /\ client[c] = "gone" ~> main = "exited"
=============================================================================
