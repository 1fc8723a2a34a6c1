--------------------------- MODULE RequestManager ---------------------------
(***************************************************************************)
(* The request manager of the orchestrator (internal/request/manager.go)   *)
(* with the goroutines one query sets in motion: the serve goroutine that  *)
(* runs every handler, the pipeline goroutine of a request, the generator  *)
(* goroutine that reads the llama-server stream, and the streaming engine  *)
(* that batches its tokens into messages.                                  *)
(*                                                                         *)
(* A request is named by its generation (genID).  A step is what one       *)
(* goroutine does between two points where another can be seen: a critical *)
(* section of m.mu, a Send on the connection, a channel operation, an HTTP *)
(* call that returns.                                                      *)
(***************************************************************************)
EXTENDS Integers, Sequences

CONSTANTS
  MaxQueries,   \* bound: Query messages the client sends
  MaxControl,   \* bound: other messages the client sends
  MaxTokens,    \* bound: tokens of one answer
  Profiles,     \* names of the loaded profiles
  NServers,     \* number of search servers of each profile
  RagUsable     \* rag.txt can be rendered (it names a template variable)

ASSUME BoundsAssumption ==
  /\ MaxQueries \in Nat \ {0}
  /\ MaxControl \in Nat
  /\ MaxTokens \in Nat
ASSUME ProfilesAssumption ==
  /\ Profiles # {}
  /\ NServers \in [Profiles -> Nat]
  /\ RagUsable \in BOOLEAN

Gens == 1..MaxQueries
NoProfile == "no profile"
ASSUME NoProfileAssumption == NoProfile \notin Profiles

VARIABLES
  active,       \* m.active
  currentReqID, \* m.currentReqID
  currentGen,   \* m.currentGen
  cancel,       \* m.cancel: the generation whose context it cancels, 0 for nil
  profile,      \* the active profile of the profile manager
  baseDone,     \* baseCtx is cancelled: the orchestrator shuts down
  cancelled,    \* the contexts that m.cancel() cancelled
  conn,         \* the client connection
  wire,         \* the messages written to the connection, oldest first
  spc, reply,   \* serve goroutine: where it is, the message it is about to send
  lastId, nCtl, \* the client: last request id used, control messages sent
  pc, reqId,    \* pipeline goroutines: where each one is, the request it answers
  prompt,       \* profile the system prompt of a request was taken from
  servers,      \* profile the search servers of a request were taken from
  search,       \* locals of ExecuteWithCallback: servers tried, errors, any document
  gen,          \* generator goroutine: where it is, tokens read, genErrCh
  buf,          \* the streaming engine's buffer
  verdict       \* history: how the pipeline ended the request

serveVars == <<spc, reply, lastId, nCtl>>
slotVars  == <<active, currentReqID, currentGen, cancel>>
jobVars   == <<pc, reqId, prompt, servers, search, gen, buf, verdict>>
envVars   == <<baseDone, conn>>
vars == <<slotVars, serveVars, jobVars, envVars, profile, cancelled, wire>>

PipelineSteps == {"prompt", "servers", "search", "http", "rerank", "build",
                  "stream", "await", "sources", "done", "fail", "release"}
GenSteps == {"none", "start", "connect", "scan", "offer", "returned", "closed"}

\* Mutant: the answer echoes the wrong request id.
Msg_WrongId(type, id, by) == [type |-> type, id |-> id - 1, by |-> by, text |-> <<>>]

\* by tells a handler's message from a pipeline's; the client cannot see it.
Msg(type, id, by) == [type |-> type, id |-> id, by |-> by, text |-> <<>>]
NoMsg == Msg("none", 0, "serve")
MsgTypes == {"none", "Token", "Error", "Busy", "Done", "Pong", "Sources"}
Messages == [type : MsgTypes, id : Nat, by : {"serve", "pipeline"}, text : Seq(Nat)]

Live(g) == pc[g] \in PipelineSteps
CtxDone(g) == baseDone \/ cancelled[g]

\* A write to a closed connection fails and leaves nothing on the wire.
Send(m) == wire' = IF conn = "open" THEN Append(wire, m) ELSE wire

FlagTypeOK ==
  /\ active \in BOOLEAN
  /\ baseDone \in BOOLEAN
  /\ cancelled \in [Gens -> BOOLEAN]

SlotTypeOK ==
  /\ currentReqID \in 0..MaxQueries
  /\ currentGen \in 0..MaxQueries
  /\ cancel \in 0..MaxQueries

ServeTypeOK ==
  /\ spc \in {"idle", "install", "reply", "ended"}
  /\ reply \in Messages
  /\ lastId \in 0..MaxQueries
  /\ nCtl \in 0..MaxControl

JobTypeOK ==
  /\ pc \in [Gens -> PipelineSteps \cup {"none", "exit"}]
  /\ reqId \in [Gens -> 0..MaxQueries]
  /\ prompt \in [Gens -> Profiles \cup {NoProfile}]
  /\ servers \in [Gens -> Profiles \cup {NoProfile}]
  /\ search \in [Gens -> [tried : Nat, errors : Nat, found : BOOLEAN]]
  /\ gen \in [Gens -> [pc : GenSteps, made : 0..MaxTokens,
                       err : {"none", "nil", "error"}]]
  /\ buf \in [Gens -> Seq(Nat)]
  /\ verdict \in [Gens -> {"none", "answered", "failed"}]

TypeOK ==
  /\ FlagTypeOK /\ SlotTypeOK /\ ServeTypeOK /\ JobTypeOK
  /\ profile \in Profiles
  /\ conn \in {"open", "gone"}
  /\ wire \in Seq(Messages)

Init ==
  /\ active = FALSE
  /\ currentReqID = 0
  /\ currentGen = 0
  /\ cancel = 0
  /\ profile \in Profiles
  /\ baseDone = FALSE
  /\ cancelled = [g \in Gens |-> FALSE]
  /\ conn = "open"
  /\ wire = <<>>
  /\ spc = "idle"
  /\ reply = NoMsg
  /\ lastId = 0
  /\ nCtl = 0
  /\ pc = [g \in Gens |-> "none"]
  /\ reqId = [g \in Gens |-> 0]
  /\ prompt = [g \in Gens |-> NoProfile]
  /\ servers = [g \in Gens |-> NoProfile]
  /\ search = [g \in Gens |-> [tried |-> 0, errors |-> 0, found |-> FALSE]]
  /\ gen = [g \in Gens |-> [pc |-> "none", made |-> 0, err |-> "none"]]
  /\ buf = [g \in Gens |-> <<>>]
  /\ verdict = [g \in Gens |-> "none"]

-----------------------------------------------------------------------------
(* The serve goroutine: one message at a time, each handler to its end.    *)

\* The client's next message has arrived and Serve hands it to the handler;
\* what a client wrote before it went away is still read.
CanReceive == spc = "idle"

\* The handler has let go of m.mu and goes on to send its answer.
Answer(type, id) ==
  /\ spc' = "reply"
  /\ reply' = Msg(type, id, "serve")

ReceivesQuery ==
  /\ CanReceive
  /\ lastId < MaxQueries
  /\ lastId' = lastId + 1
  /\ UNCHANGED <<nCtl, jobVars, envVars, profile, cancelled, wire, cancel>>

ReceivesControl ==
  /\ CanReceive
  /\ nCtl < MaxControl
  /\ nCtl' = nCtl + 1
  /\ UNCHANGED <<lastId, slotVars, jobVars, envVars, wire>>

QueryBusy ==
  /\ ReceivesQuery
  /\ active
  /\ Answer("Busy", lastId')
  /\ UNCHANGED <<active, currentReqID, currentGen>>

\* The supervisor's state is read at this point and may be any: nothing that
\* this component does changes it.
QueryNotReady ==
  /\ ReceivesQuery
  /\ ~active
  /\ Answer("Error", lastId')
  /\ UNCHANGED <<active, currentReqID, currentGen>>

\* Mutant: m.active is not tested.
QueryAdmit_Unchecked ==
  /\ ReceivesQuery
  /\ active' = TRUE
  /\ currentReqID' = lastId'
  /\ currentGen' = currentGen + 1
  /\ spc' = "install"
  /\ UNCHANGED reply

QueryAdmit ==
  /\ ReceivesQuery
  /\ ~active
  /\ active' = TRUE
  /\ currentReqID' = lastId'
  /\ currentGen' = currentGen + 1
  /\ spc' = "install"
  /\ UNCHANGED reply

\* The second critical section of handleQuery, and go m.runPipeline.
QueryInstall ==
  /\ spc = "install"
  /\ cancel' = currentGen
  /\ pc' = [pc EXCEPT ![currentGen] = "prompt"]
  /\ reqId' = [reqId EXCEPT ![currentGen] = currentReqID]
  /\ spc' = "idle"
  /\ UNCHANGED <<active, currentReqID, currentGen, reply, lastId, nCtl, prompt, servers,
                 search, gen, buf, verdict, envVars, profile, cancelled, wire>>

\* Mutant: a cancelled request gives its slot away at once.
Cancel_Frees ==
  /\ spc = "idle" /\ nCtl < MaxControl /\ nCtl' = nCtl + 1
  /\ cancelled' = IF cancel # 0 THEN [cancelled EXCEPT ![cancel] = TRUE] ELSE cancelled
  /\ active' = FALSE
  /\ Answer("Done", lastId)
  /\ UNCHANGED <<profile, lastId, currentReqID, currentGen, cancel, jobVars, envVars, wire>>

\* m.cancel() cancels the context of the request that installed it.
Cancel ==
  /\ ReceivesControl
  /\ cancelled' = IF cancel # 0 THEN [cancelled EXCEPT ![cancel] = TRUE] ELSE cancelled
  /\ Answer("Done", lastId)
  /\ UNCHANGED profile

SwitchRefused ==
  /\ ReceivesControl
  /\ active
  /\ Answer("Error", lastId)
  /\ UNCHANGED <<profile, cancelled>>

\* Mutant: the profile is switched under a running request.
SwitchTo_Unguarded(p) ==
  /\ ReceivesControl
  /\ profile' = p
  /\ Answer("Pong", lastId)
  /\ UNCHANGED cancelled

SwitchTo(p) ==
  /\ ReceivesControl
  /\ ~active
  /\ profile' = p
  /\ Answer("Pong", lastId)
  /\ UNCHANGED cancelled

\* Ping and ProfileList; a message of unknown type, a switch whose payload does
\* not parse or that names no profile: an answer and nothing else.
OtherRequest ==
  /\ ReceivesControl
  /\ Answer("Pong", lastId) \/ Answer("Error", lastId)
  /\ UNCHANGED <<profile, cancelled>>

SendReply ==
  /\ spc = "reply"
  /\ Send(reply)
  /\ spc' = "idle"
  /\ reply' = NoMsg
  /\ UNCHANGED <<lastId, nCtl, slotVars, jobVars, envVars, profile, cancelled>>

\* ReadMessage fails: the client is gone.
ReadFails ==
  /\ spc = "idle"
  /\ conn = "gone"
  /\ spc' = "ended"
  /\ UNCHANGED <<reply, lastId, nCtl, slotVars, jobVars, envVars, profile, cancelled, wire>>

\* ReadMessage fails: five minutes without a message.  The connection stays open.
ReadDeadline ==
  /\ CanReceive
  /\ spc' = "ended"
  /\ UNCHANGED <<reply, lastId, nCtl, slotVars, jobVars, envVars, profile, cancelled, wire>>

Serve ==
  \/ QueryBusy \/ QueryNotReady \/ QueryAdmit \/ QueryInstall
  \/ Cancel \/ SwitchRefused \/ OtherRequest
  \/ \E p \in Profiles : SwitchTo(p)
  \/ SendReply \/ ReadFails \/ ReadDeadline

-----------------------------------------------------------------------------
(* The pipeline goroutine of request g: runPipeline, with the search,      *)
(* reranking and streaming it calls.  The Stage messages it sends on the   *)
(* way are progress notices whose send errors are only logged: they are    *)
(* left off the wire.                                                      *)

Goto(g, from, to) ==
  /\ pc[g] = from
  /\ pc' = [pc EXCEPT ![g] = to]
  /\ UNCHANGED <<serveVars, envVars, profile, cancelled, reqId>>

ReadPrompt(g) ==
  /\ Goto(g, "prompt", "servers")
  /\ prompt' = [prompt EXCEPT ![g] = profile]
  /\ UNCHANGED <<slotVars, servers, search, gen, buf, verdict, wire>>

ReadServers(g) ==
  /\ servers' = [servers EXCEPT ![g] = profile]
  /\ Goto(g, "servers", IF NServers[profile] = 0 THEN "fail" ELSE "search")
  /\ UNCHANGED <<slotVars, prompt, search, gen, buf, verdict, wire>>

AllTried(g) == search[g].tried = NServers[servers[g]]
AllFailed(g) == ~search[g].found /\ search[g].errors = NServers[servers[g]]

\* The head of the loop over the servers, and what follows the loop.
SearchNext(g) ==
  /\ pc[g] = "search"
  /\ \/ ~AllTried(g) /\ CtxDone(g)  /\ Goto(g, "search", "fail")
     \/ ~AllTried(g) /\ ~CtxDone(g) /\ Goto(g, "search", "http")
     \/ AllTried(g)  /\ AllFailed(g)  /\ Goto(g, "search", "fail")
     \/ AllTried(g)  /\ ~AllFailed(g) /\ Goto(g, "search", "rerank")
  /\ UNCHANGED <<slotVars, prompt, servers, search, gen, buf, verdict, wire>>

\* A search server answers, fails, times out, or the context ends the call.
SearchReply(g, ok, docs) ==
  /\ Goto(g, "http", "search")
  /\ search' = [search EXCEPT ![g] =
                  [tried  |-> @.tried + 1,
                   errors |-> IF ok THEN @.errors ELSE @.errors + 1,
                   found  |-> @.found \/ (ok /\ docs)]]
  /\ UNCHANGED <<slotVars, prompt, servers, gen, buf, verdict, wire>>

\* The reranker's answer or any failure of it leaves as many documents, up to
\* the top three; the context cannot fail the request here.  The reranker is
\* taken to return no more results than it was given documents: of one that does,
\* rerank indexes out of range, and the panic ends the orchestrator.
Rerank(g) ==
  /\ Goto(g, "rerank", "build")
  /\ UNCHANGED <<slotVars, prompt, servers, search, gen, buf, verdict, wire>>

\* BuildRAGPrompt; with no document it renders the template that has none.
BuildFails(g) ==
  /\ search[g].found
  /\ ~RagUsable
  /\ Goto(g, "build", "fail")
  /\ UNCHANGED <<slotVars, prompt, servers, search, gen, buf, verdict, wire>>

\* The prompt is built, and the generator goroutine started.
SpawnGenerator(g) ==
  /\ search[g].found => RagUsable
  /\ Goto(g, "build", "stream")
  /\ gen' = [gen EXCEPT ![g].pc = "start"]
  /\ UNCHANGED <<slotVars, prompt, servers, search, buf, verdict, wire>>

\* The branch of Stream's select that receives a token: tokenCh is
\* unbuffered, so the generator goes on in the same step.
StreamToken(g) ==
  /\ pc[g] = "stream"
  /\ gen[g].pc = "offer"
  /\ buf' = [buf EXCEPT ![g] = Append(@, gen[g].made)]
  /\ gen' = [gen EXCEPT ![g].pc = "scan"]
  /\ UNCHANGED <<slotVars, serveVars, envVars, profile, cancelled, wire,
                 pc, reqId, prompt, servers, search, verdict>>

\* Stream's flush: nothing for an empty buffer, else one Token message.
FlushOk(g) == buf[g] = <<>> \/ conn = "open"
\* Mutant: the buffer is not reset after it is sent.
Flush_Keeps(g) ==
  /\ UNCHANGED buf
  /\ IF buf[g] = <<>> THEN UNCHANGED wire
     ELSE Send([Msg("Token", reqId[g], "pipeline") EXCEPT !.text = buf[g]])

Flush(g) ==
  /\ buf' = IF FlushOk(g) THEN [buf EXCEPT ![g] = <<>>] ELSE buf
  /\ IF buf[g] = <<>> THEN UNCHANGED wire
     ELSE Send([Msg("Token", reqId[g], "pipeline") EXCEPT !.text = buf[g]])

StreamTick(g) ==
  /\ buf[g] # <<>>
  /\ Goto(g, "stream", IF FlushOk(g) THEN "stream" ELSE "await")
  /\ Flush(g)
  /\ UNCHANGED <<slotVars, prompt, servers, search, gen, verdict>>

StreamEnds(g) ==
  /\ Goto(g, "stream", "await")
  /\ Flush(g)
  /\ UNCHANGED <<slotVars, prompt, servers, search, gen, verdict>>

StreamCtxDone(g) == CtxDone(g) /\ StreamEnds(g)
\* Mutant: the last tokens are not flushed when the channel is closed.
StreamClosed_NoFlush(g) ==
  /\ gen[g].pc = "closed"
  /\ Goto(g, "stream", "await")
  /\ UNCHANGED <<slotVars, prompt, servers, search, gen, buf, verdict, wire>>

StreamClosed(g) == gen[g].pc = "closed" /\ StreamEnds(g)

\* <-genErrCh
AwaitGenerator(g) ==
  /\ \/ gen[g].err = "nil"   /\ Goto(g, "await", "sources")
     \/ gen[g].err = "error" /\ Goto(g, "await", "fail")
  /\ UNCHANGED <<slotVars, prompt, servers, search, gen, buf, verdict, wire>>

SendSources(g) ==
  /\ Goto(g, "sources", "done")
  /\ Send(Msg("Sources", reqId[g], "pipeline"))
  /\ UNCHANGED <<slotVars, prompt, servers, search, gen, buf, verdict>>

SendDone(g) ==
  /\ Goto(g, "done", "release")
  /\ Send(Msg("Done", reqId[g], "pipeline"))
  /\ verdict' = [verdict EXCEPT ![g] = "answered"]
  /\ UNCHANGED <<slotVars, prompt, servers, search, gen, buf>>

\* Mutant: no release after an error.
SendError_Leaks(g) ==
  /\ Goto(g, "fail", "exit")
  /\ Send(Msg("Error", reqId[g], "pipeline"))
  /\ verdict' = [verdict EXCEPT ![g] = "failed"]
  /\ UNCHANGED <<slotVars, prompt, servers, search, gen, buf>>

\* Mutant: no return after an error, the sources and Done follow.
SendError_GoesOn(g) ==
  /\ Goto(g, "fail", "sources")
  /\ Send(Msg("Error", reqId[g], "pipeline"))
  /\ UNCHANGED <<slotVars, prompt, servers, search, gen, buf, verdict>>

SendError(g) ==
  /\ Goto(g, "fail", "release")
  /\ Send(Msg("Error", reqId[g], "pipeline"))
  /\ verdict' = [verdict EXCEPT ![g] = "failed"]
  /\ UNCHANGED <<slotVars, prompt, servers, search, gen, buf>>

\* Mutant: m.cancel is not reset.
Release_KeepsCancel(g) ==
  /\ Goto(g, "release", "exit")
  /\ active' = IF currentGen = g THEN FALSE ELSE active
  /\ UNCHANGED <<cancel, currentReqID, currentGen, prompt, servers, search, gen, buf, verdict, wire>>

\* The deferred function of runPipeline.
Release(g) ==
  /\ Goto(g, "release", "exit")
  /\ IF currentGen = g
     THEN active' = FALSE /\ cancel' = 0
     ELSE UNCHANGED <<active, cancel>>
  /\ UNCHANGED <<currentReqID, currentGen, prompt, servers, search, gen, buf, verdict, wire>>

PipelineOwn(g) ==
  \/ ReadPrompt(g) \/ ReadServers(g) \/ SearchNext(g)
  \/ BuildFails(g) \/ SpawnGenerator(g)
  \/ StreamToken(g) \/ StreamTick(g) \/ StreamClosed(g)
  \/ AwaitGenerator(g) \/ SendSources(g) \/ SendDone(g) \/ SendError(g) \/ Release(g)

SearchReturns(g) ==
  \/ \E docs \in BOOLEAN : SearchReply(g, TRUE, docs)
  \/ SearchReply(g, FALSE, FALSE)

Pipeline(g) == PipelineOwn(g) \/ StreamCtxDone(g) \/ SearchReturns(g) \/ Rerank(g)

-----------------------------------------------------------------------------
(* The generator goroutine of request g: llama.Client.Generate and the     *)
(* closure that stores its error and closes tokenCh.                       *)

GenGoto(g, from, to) ==
  /\ gen[g].pc = from
  /\ gen' = [gen EXCEPT ![g].pc = to]
  /\ UNCHANGED <<slotVars, serveVars, envVars, profile, cancelled, wire,
                 pc, reqId, prompt, servers, search, buf, verdict>>

GenReturn(g, from, err) ==
  /\ gen[g].pc = from
  /\ gen' = [gen EXCEPT ![g].pc = "returned", ![g].err = err]
  /\ UNCHANGED <<slotVars, serveVars, envVars, profile, cancelled, wire,
                 pc, reqId, prompt, servers, search, buf, verdict>>

\* client.Do fails at once when the context is done, else sends the request.
GenStart(g) ==
  IF CtxDone(g) THEN GenReturn(g, "start", "error") ELSE GenGoto(g, "start", "connect")

GenConnect(g) == GenGoto(g, "connect", "scan")

\* The scanner yields a chunk with a token; Generate offers it on tokenCh.
GenToken(g) ==
  /\ gen[g].pc = "scan"
  /\ gen[g].made < MaxTokens
  /\ gen' = [gen EXCEPT ![g].pc = "offer", ![g].made = @ + 1]
  /\ UNCHANGED <<slotVars, serveVars, envVars, profile, cancelled, wire,
                 pc, reqId, prompt, servers, search, buf, verdict>>

\* [DONE], or the end of the body: scanner.Err() is nil.
GenEnd(g) == GenReturn(g, "scan", "nil")

\* The request or the body fails: an error status, llama-server gone.
GenFail(g) == \E from \in {"connect", "scan"} : GenReturn(g, from, "error")

\* Mutant: a token is offered without a select on the context.
GenAbort_Stuck(g) ==
  /\ CtxDone(g)
  /\ \E from \in {"connect", "scan"} : GenReturn(g, from, "error")

\* The context ends the request, the read, or the offer of a token.
GenAbort(g) ==
  /\ CtxDone(g)
  /\ \E from \in {"connect", "scan", "offer"} : GenReturn(g, from, "error")

\* Mutant: tokenCh is not closed.
GenClose_Never(g) == gen[g].pc = "closed" /\ UNCHANGED vars

GenClose(g) == GenGoto(g, "returned", "closed")

LlamaAnswers(g) == GenConnect(g) \/ GenToken(g) \/ GenEnd(g)
Generator(g) == GenStart(g) \/ LlamaAnswers(g) \/ GenFail(g) \/ GenAbort(g) \/ GenClose(g)

-----------------------------------------------------------------------------
(* The rest of the orchestrator and the client.                            *)

Shutdown ==
  /\ ~baseDone
  /\ baseDone' = TRUE
  /\ UNCHANGED <<conn, slotVars, serveVars, jobVars,
                 profile, cancelled, wire>>

ConnectionLost ==
  /\ conn = "open"
  /\ conn' = "gone"
  /\ UNCHANGED <<baseDone, slotVars, serveVars, jobVars,
                 profile, cancelled, wire>>

Environment == Shutdown \/ ConnectionLost

Next ==
  \/ Serve
  \/ \E g \in Gens : Pipeline(g) \/ Generator(g)
  \/ Environment

Spec == Init /\ [][Next]_vars

-----------------------------------------------------------------------------
(* Fairness.  Goroutines that can run do run; a search or rerank call ends *)
(* at the latest with its client timeout; a call whose context is done     *)
(* ends.  Nothing is assumed of the client, nor of llama-server: its HTTP  *)
(* client has no timeout.                                                  *)

Fairness ==
  /\ WF_vars(QueryInstall) /\ WF_vars(SendReply) /\ WF_vars(ReadFails)
  /\ \A g \in Gens :
       /\ WF_vars(PipelineOwn(g)) /\ WF_vars(StreamCtxDone(g))
       /\ WF_vars(SearchReturns(g)) /\ WF_vars(Rerank(g))
       /\ WF_vars(GenStart(g)) /\ WF_vars(GenAbort(g)) /\ WF_vars(GenClose(g))

FairSpec == Spec /\ Fairness

\* llama-server answers every request and ends every answer.
LlamaFairness == \A g \in Gens : WF_vars(LlamaAnswers(g))

-----------------------------------------------------------------------------
(* Safety.                                                                 *)

\* A pipeline goroutine that runs owns the slot: active is set, the current
\* generation is its own, and m.cancel cancels its context.  So two pipelines
\* never run together, no release is refused by the generation guard, and a
\* Cancel always reaches the request that runs.
Ownership ==
  \A g \in Gens :
    Live(g) => active /\ currentGen = g /\ cancel = g /\ spc # "install"

\* The slot is never leaked: when active is set, a pipeline runs that will
\* clear it, or handleQuery is between its two critical sections.
SlotHeld == active => spc = "install" \/ \E g \in Gens : Live(g)

\* runPipeline takes the prompt of the profile and its search servers in two
\* separate reads of the profile manager; both see the same profile.
OneProfilePerRequest ==
  \A g \in Gens : servers[g] # NoProfile => prompt[g] = servers[g]

Terminal == {"Done", "Error"}

\* What the pipelines write is a sequence of whole answers: requests in the
\* order they were admitted, and nothing of a request after its terminal
\* message.
AnswersInOrder ==
  \A i, j \in DOMAIN wire :
    i < j /\ wire[i].by = "pipeline" /\ wire[j].by = "pipeline" =>
      \/ wire[i].id < wire[j].id
      \/ wire[i].id = wire[j].id /\ wire[i].type \notin Terminal

\* A Cancel that finds a running pipeline cancels that pipeline's context, and
\* no other one.
CancelReachesLive ==
  [][reply'.type = "Done" =>
       \A g \in Gens : cancelled'[g] = (cancelled[g] \/ Live(g))]_reply

(* Liveness.                                                               *)

\* A cancelled request lets go of the slot, whatever llama-server, the search
\* servers and the client do (orchestrator.md, 9.2).
CancelReleases ==
  \A g \in Gens : CtxDone(g) /\ Live(g) ~> pc[g] = "exit"

\* While the client stays, every admitted request ends and frees the slot, if
\* llama-server ends its answers.
Completes ==
  LlamaFairness => \A g \in Gens : Live(g) ~> pc[g] = "exit" \/ conn = "gone"

(* Refinement.                                                             *)

Admitted(g) == Live(g) \/ (spc = "install" /\ g = currentGen)

Phase == [g \in Gens |->
           CASE Admitted(g)    -> "running"
             [] ~Admitted(g) /\ pc[g] = "none" -> "absent"
             [] OTHER           -> verdict[g]]

\* A profile a running request has not read yet is the one it is going to read.
Used == [g \in Gens |->
          IF Phase[g] = "absent" THEN {}
          ELSE {IF p = NoProfile THEN profile ELSE p : p \in {prompt[g], servers[g]}}]

Promise == INSTANCE SingleFlight WITH
             Requests <- Gens, phase <- Phase, used <- Used

\* The request manager implements the single-flight service.
ImplementsSingleFlight == Promise!Spec

(* What the documents promise and the code does not do.                    *)

\* orchestrator.md, 3.3: when the client goes, its request is cancelled.
LossReleases == LlamaFairness => (conn = "gone" ~> ~active)
=============================================================================
