----------------------- MODULE RequestManagerProofs -----------------------
(***************************************************************************)
(* Proofs about RequestManager, for any number of queries, controls,       *)
(* tokens and profiles.                                                    *)
(***************************************************************************)
EXTENDS RequestManager, TLAPS

USE BoundsAssumption, ProfilesAssumption, NoProfileAssumption DEF Gens

-----------------------------------------------------------------------------
(* Types.                                                                  *)

\* What Send writes is a message.
LEMMA MsgType ==
  ASSUME NEW type \in MsgTypes, NEW id \in Nat, NEW by \in {"serve", "pipeline"}
  PROVE  Msg(type, id, by) \in Messages
BY DEF Msg, Messages

LEMMA TokenMsgType ==
  ASSUME NEW id \in Nat, NEW text \in Seq(Nat)
  PROVE  [Msg("Token", id, "pipeline") EXCEPT !.text = text] \in Messages
BY DEF Msg, Messages, MsgTypes

LEMMA SendType ==
  ASSUME wire \in Seq(Messages), NEW m \in Messages, Send(m)
  PROVE  wire' \in Seq(Messages)
BY DEF Send

THEOREM InitTypeOK == Init => TypeOK
<1> SUFFICES ASSUME Init PROVE TypeOK
  OBVIOUS
<1>1. SlotTypeOK
  BY DEF Init, SlotTypeOK
<1>2. ServeTypeOK
  <2>1. NoMsg \in Messages
    BY MsgType DEF NoMsg, MsgTypes
  <2> QED
    BY <2>1 DEF Init, ServeTypeOK
<1>3. JobTypeOK
  <2>1. search \in [Gens -> [tried : Nat, errors : Nat, found : BOOLEAN]]
    BY DEF Init
  <2>2. gen \in [Gens -> [pc : GenSteps, made : 0..MaxTokens, err : {"none", "nil", "error"}]]
    BY DEF Init, GenSteps
  <2>3. buf \in [Gens -> Seq(Nat)]
    BY DEF Init
  <2>4. pc \in [Gens -> PipelineSteps \cup {"none", "exit"}]
    BY DEF Init
  <2>5. prompt \in [Gens -> Profiles \cup {NoProfile}] /\ servers \in [Gens -> Profiles \cup {NoProfile}]
    BY DEF Init
  <2>6. reqId \in [Gens -> 0..MaxQueries]
    BY DEF Init
  <2>7. verdict \in [Gens -> {"none", "answered", "failed"}]
    BY DEF Init
  <2> QED
    BY <2>1, <2>2, <2>3, <2>4, <2>5, <2>6, <2>7 DEF JobTypeOK
<1>4. FlagTypeOK
  BY DEF Init, FlagTypeOK
<1>5. wire \in Seq(Messages)
  BY DEF Init
<1> QED
  BY <1>1, <1>2, <1>3, <1>4, <1>5 DEF Init, TypeOK

\* Every action keeps the flags Boolean and the slot and the counters in range.
LEMMA FlagType == TypeOK /\ [Next]_vars => FlagTypeOK'
<1> SUFFICES ASSUME TypeOK, [Next]_vars PROVE FlagTypeOK'
  OBVIOUS
<1> USE DEF TypeOK, FlagTypeOK
<1>1. CASE Serve
  <2>1. CASE QueryBusy
    BY <2>1 DEF QueryBusy, ReceivesQuery, envVars
  <2>2. CASE QueryNotReady
    BY <2>2 DEF QueryNotReady, ReceivesQuery, envVars
  <2>3. CASE QueryAdmit
    BY <2>3 DEF QueryAdmit, ReceivesQuery, envVars
  <2>4. CASE QueryInstall
    BY <2>4 DEF QueryInstall, envVars
  <2>5. CASE Cancel
    BY <2>5 DEF Cancel, ReceivesControl, envVars, slotVars
  <2>6. CASE SwitchRefused
    BY <2>6 DEF SwitchRefused, ReceivesControl, envVars, slotVars
  <2>7. CASE OtherRequest
    BY <2>7 DEF OtherRequest, ReceivesControl, envVars, slotVars
  <2>8. ASSUME NEW p \in Profiles, SwitchTo(p) PROVE FlagTypeOK'
    BY <2>8 DEF SwitchTo, ReceivesControl, envVars, slotVars
  <2>9. CASE SendReply
    BY <2>9 DEF SendReply, envVars, slotVars
  <2>10. CASE ReadFails
    BY <2>10 DEF ReadFails, envVars, slotVars
  <2>11. CASE ReadDeadline
    BY <2>11 DEF ReadDeadline, envVars, slotVars
  <2> QED
    BY <1>1, <2>1, <2>2, <2>3, <2>4, <2>5, <2>6, <2>7, <2>8, <2>9, <2>10, <2>11 DEF Serve
<1>2. ASSUME NEW g \in Gens, Pipeline(g) PROVE FlagTypeOK'
  <2>1. CASE Release(g)
    BY <2>1 DEF Release, Goto, envVars
  <2>2. CASE Pipeline(g) /\ UNCHANGED <<active, baseDone, cancelled>>
    BY <2>2
  <2> QED
    BY <1>2, <2>1, <2>2 DEF Pipeline, PipelineOwn, SearchReturns, ReadPrompt, ReadServers,
       SearchNext, SearchReply, Rerank, BuildFails, SpawnGenerator, StreamToken, StreamTick,
       StreamEnds, StreamCtxDone, StreamClosed, AwaitGenerator, SendSources, SendDone,
       SendError, Goto, envVars, slotVars
<1>3. ASSUME NEW g \in Gens, Generator(g) PROVE FlagTypeOK'
  BY <1>3 DEF Generator, GenStart, LlamaAnswers, GenConnect, GenToken, GenEnd, GenFail,
     GenAbort, GenClose, GenGoto, GenReturn, envVars, slotVars
<1>4. CASE Environment
  BY <1>4 DEF Environment, Shutdown, ConnectionLost, slotVars
<1>5. CASE UNCHANGED vars
  BY <1>5 DEF vars, slotVars, envVars
<1> QED
  BY <1>1, <1>2, <1>3, <1>4, <1>5 DEF Next

-----------------------------------------------------------------------------
(* Frames: what the goroutines leave alone.                                *)

Others == <<serveVars, envVars, profile, cancelled>>

\* A pipeline touches nothing of the serve goroutine, and leaves the slot alone
\* until it releases it.
LEMMA PipelineFrame ==
  ASSUME NEW g \in Gens, Pipeline(g)
  PROVE  UNCHANGED Others /\ (UNCHANGED slotVars \/ Release(g))
<1> USE DEF Others, Goto
<1>1. CASE ReadPrompt(g) \/ ReadServers(g) \/ BuildFails(g) \/ SpawnGenerator(g)
  BY <1>1 DEF ReadPrompt, ReadServers, BuildFails, SpawnGenerator
<1>2. CASE SearchNext(g)
  BY <1>2 DEF SearchNext
<1>3. CASE SearchReturns(g) \/ Rerank(g)
  BY <1>3 DEF SearchReturns, SearchReply, Rerank
<1>4. CASE StreamToken(g) \/ StreamTick(g) \/ StreamCtxDone(g) \/ StreamClosed(g)
  BY <1>4 DEF StreamToken, StreamTick, StreamCtxDone, StreamClosed, StreamEnds
<1>5. CASE AwaitGenerator(g) \/ SendSources(g) \/ SendDone(g) \/ SendError(g)
  BY <1>5 DEF AwaitGenerator, SendSources, SendDone, SendError
<1>6. CASE Release(g)
  BY <1>6 DEF Release
<1> QED
  BY <1>1, <1>2, <1>3, <1>4, <1>5, <1>6 DEF Pipeline, PipelineOwn

\* A generator changes nothing but its own state.
LEMMA GeneratorFrame ==
  ASSUME NEW g \in Gens, Generator(g)
  PROVE  UNCHANGED <<Others, slotVars, wire, pc, reqId, prompt, servers, search, buf, verdict>>
BY DEF Others, Generator, GenStart, LlamaAnswers, GenConnect, GenToken, GenEnd, GenFail,
   GenAbort, GenClose, GenGoto, GenReturn

\* The handlers leave the pipelines alone, but for the one handleQuery starts.
LEMMA ServeFrame ==
  ASSUME Serve
  PROVE  UNCHANGED envVars /\ (UNCHANGED jobVars \/ QueryInstall)
BY DEF Serve, QueryBusy, QueryNotReady, QueryAdmit, QueryInstall, Cancel, SwitchRefused,
   OtherRequest, SwitchTo, SendReply, ReadFails, ReadDeadline, ReceivesQuery, ReceivesControl

LEMMA EnvironmentFrame ==
  ASSUME Environment
  PROVE  UNCHANGED <<slotVars, serveVars, jobVars, profile, cancelled, wire>>
BY DEF Environment, Shutdown, ConnectionLost

-----------------------------------------------------------------------------
(* Types are preserved.                                                    *)

\* Each admitted request has taken one request id of the client.
GenBound == currentGen <= lastId

LEMMA SlotType == TypeOK /\ GenBound /\ [Next]_vars => SlotTypeOK' /\ GenBound'
<1> SUFFICES ASSUME TypeOK, GenBound, [Next]_vars PROVE SlotTypeOK' /\ GenBound'
  OBVIOUS
<1> USE DEF TypeOK, SlotTypeOK, ServeTypeOK, GenBound
<1>1. CASE QueryAdmit
  BY <1>1 DEF QueryAdmit, ReceivesQuery
<1>2. CASE QueryBusy \/ QueryNotReady
  BY <1>2 DEF QueryBusy, QueryNotReady, ReceivesQuery
<1>3. CASE QueryInstall
  BY <1>3 DEF QueryInstall
<1>4. CASE Cancel \/ SwitchRefused \/ OtherRequest \/ \E p \in Profiles : SwitchTo(p)
  BY <1>4 DEF Cancel, SwitchRefused, OtherRequest, SwitchTo, ReceivesControl, slotVars
<1>5. CASE SendReply \/ ReadFails \/ ReadDeadline
  BY <1>5 DEF SendReply, ReadFails, ReadDeadline, slotVars
<1>6. ASSUME NEW g \in Gens, Pipeline(g) PROVE SlotTypeOK' /\ GenBound'
  <2>1. lastId' = lastId
    BY <1>6, PipelineFrame DEF Others, serveVars
  <2>2. currentReqID' = currentReqID /\ currentGen' = currentGen /\ cancel' \in {cancel, 0}
    BY <1>6, PipelineFrame DEF Release, slotVars
  <2> QED
    BY <2>1, <2>2
<1>7. ASSUME NEW g \in Gens, Generator(g) PROVE SlotTypeOK' /\ GenBound'
  BY <1>7, GeneratorFrame DEF Others, slotVars, serveVars
<1>8. CASE Environment \/ UNCHANGED vars
  BY <1>8, EnvironmentFrame DEF vars, slotVars, serveVars
<1> QED
  BY <1>1, <1>2, <1>3, <1>4, <1>5, <1>6, <1>7, <1>8 DEF Next, Serve

LEMMA AnswerType ==
  ASSUME NEW type \in MsgTypes, NEW id \in Nat, Answer(type, id)
  PROVE  spc' = "reply" /\ reply' \in Messages
BY MsgType DEF Answer

LEMMA ServeType == TypeOK /\ [Next]_vars => ServeTypeOK'
<1> SUFFICES ASSUME TypeOK, [Next]_vars PROVE ServeTypeOK'
  OBVIOUS
<1> USE DEF TypeOK, SlotTypeOK, ServeTypeOK
<1>1. CASE QueryBusy
  BY <1>1, AnswerType DEF QueryBusy, ReceivesQuery, MsgTypes
<1>2. CASE QueryNotReady
  BY <1>2, AnswerType DEF QueryNotReady, ReceivesQuery, MsgTypes
<1>3. CASE QueryAdmit
  BY <1>3 DEF QueryAdmit, ReceivesQuery
<1>4. CASE QueryInstall
  BY <1>4 DEF QueryInstall
<1>5. CASE Cancel
  BY <1>5, AnswerType DEF Cancel, ReceivesControl, MsgTypes
<1>6. CASE SwitchRefused
  BY <1>6, AnswerType DEF SwitchRefused, ReceivesControl, MsgTypes
<1>7. CASE OtherRequest
  BY <1>7, AnswerType DEF OtherRequest, ReceivesControl, MsgTypes
<1>8. ASSUME NEW p \in Profiles, SwitchTo(p) PROVE ServeTypeOK'
  BY <1>8, AnswerType DEF SwitchTo, ReceivesControl, MsgTypes
<1>9. CASE SendReply
  BY <1>9, MsgType DEF SendReply, NoMsg, MsgTypes
<1>10. CASE ReadFails \/ ReadDeadline
  BY <1>10 DEF ReadFails, ReadDeadline
<1>11. ASSUME NEW g \in Gens, Pipeline(g) \/ Generator(g) PROVE ServeTypeOK'
  BY <1>11, PipelineFrame, GeneratorFrame DEF Others, serveVars
<1>12. CASE Environment \/ UNCHANGED vars
  BY <1>12, EnvironmentFrame DEF vars, serveVars
<1> QED
  BY <1>1, <1>2, <1>3, <1>4, <1>5, <1>6, <1>7, <1>8, <1>9, <1>10, <1>11, <1>12 DEF Next, Serve

LEMMA WireType == TypeOK /\ [Next]_vars => (wire \in Seq(Messages))'
<1> SUFFICES ASSUME TypeOK, [Next]_vars PROVE wire' \in Seq(Messages)
  OBVIOUS
<1> USE DEF TypeOK, SlotTypeOK, ServeTypeOK
<1>1. CASE SendReply
  BY <1>1, SendType DEF SendReply
<1>2. CASE Serve /\ ~SendReply
  BY <1>2 DEF Serve, QueryBusy, QueryNotReady, QueryAdmit, QueryInstall, Cancel, SwitchRefused,
     OtherRequest, SwitchTo, ReadFails, ReadDeadline, ReceivesQuery, ReceivesControl
<1>3. ASSUME NEW g \in Gens, Pipeline(g) PROVE wire' \in Seq(Messages)
  <2>1. reqId[g] \in Nat /\ buf[g] \in Seq(Nat)
    BY DEF JobTypeOK
  <2>2. CASE SendSources(g) \/ SendDone(g) \/ SendError(g)
    BY <2>1, <2>2, SendType, MsgType DEF SendSources, SendDone, SendError, MsgTypes
  <2>3. CASE Flush(g)
    BY <2>1, <2>3, SendType, TokenMsgType DEF Flush
  <2>4. CASE wire' = wire
    BY <2>4
  <2>5. ~(SendSources(g) \/ SendDone(g) \/ SendError(g)) /\ ~Flush(g) => wire' = wire
    BY <1>3 DEF Pipeline, PipelineOwn, SearchReturns, ReadPrompt, ReadServers,
       SearchNext, SearchReply, Rerank, BuildFails, SpawnGenerator, StreamToken, StreamTick,
       StreamEnds, StreamCtxDone, StreamClosed, AwaitGenerator, Release
  <2> QED
    BY <2>2, <2>3, <2>4, <2>5
<1>4. ASSUME NEW g \in Gens, Generator(g) PROVE wire' \in Seq(Messages)
  BY <1>4, GeneratorFrame
<1>5. CASE Environment \/ UNCHANGED vars
  BY <1>5, EnvironmentFrame DEF vars
<1> QED
  BY <1>1, <1>2, <1>3, <1>4, <1>5 DEF Next

Progress == [tried : Nat, errors : Nat, found : BOOLEAN]
GenState == [pc : GenSteps, made : 0..MaxTokens, err : {"none", "nil", "error"}]

LEMMA ProgressStep ==
  ASSUME NEW s \in Progress, NEW ok \in BOOLEAN, NEW docs \in BOOLEAN
  PROVE  [tried  |-> s.tried + 1,
          errors |-> IF ok THEN s.errors ELSE s.errors + 1,
          found  |-> s.found \/ (ok /\ docs)] \in Progress
<1>1. s.tried + 1 \in Nat /\ s.errors \in Nat /\ s.errors + 1 \in Nat
  BY DEF Progress
<1>2. (IF ok THEN s.errors ELSE s.errors + 1) \in Nat
  BY <1>1
<1>3. (s.found \/ (ok /\ docs)) \in BOOLEAN
  OBVIOUS
<1> QED
  BY <1>1, <1>2, <1>3, Zenon DEF Progress

LEMMA TokenStep ==
  ASSUME NEW s \in GenState, s.made < MaxTokens
  PROVE  [s EXCEPT !.pc = "offer", !.made = @ + 1] \in GenState
<1>1. s.made + 1 \in 0..MaxTokens
  BY DEF GenState
<1> QED
  BY <1>1 DEF GenState, GenSteps

\* A flush takes the buffer of one request away, or nothing.
LEMMA FlushType ==
  ASSUME buf \in [Gens -> Seq(Nat)], NEW g \in Gens, Flush(g)
  PROVE  buf' \in [Gens -> Seq(Nat)]
<1>1. <<>> \in Seq(Nat)
  OBVIOUS
<1>2. buf' = [buf EXCEPT ![g] = <<>>] \/ buf' = buf
  BY DEF Flush
<1>3. CASE buf' = [buf EXCEPT ![g] = <<>>]
  BY <1>1, <1>3
<1>4. CASE buf' = buf
  BY <1>4
<1> QED
  BY <1>2, <1>3, <1>4

LEMMA JobType == TypeOK /\ [Next]_vars => JobTypeOK'
<1> SUFFICES ASSUME TypeOK, [Next]_vars PROVE JobTypeOK'
  OBVIOUS
<1> USE DEF TypeOK, SlotTypeOK, ServeTypeOK, JobTypeOK
<1>1. CASE QueryInstall
  BY <1>1 DEF QueryInstall, PipelineSteps
<1>2. ASSUME NEW g \in Gens, Pipeline(g) PROVE JobTypeOK'
  <2> USE DEF Goto, PipelineSteps
  <2>1. CASE ReadPrompt(g)
    BY <2>1 DEF ReadPrompt
  <2>2. CASE ReadServers(g)
    BY <2>2 DEF ReadServers
  <2>3. CASE SearchNext(g)
    BY <2>3 DEF SearchNext
  <2>4. ASSUME NEW ok \in BOOLEAN, NEW docs \in BOOLEAN, SearchReply(g, ok, docs) PROVE JobTypeOK'
    <3> DEFINE r == [tried  |-> search[g].tried + 1,
                     errors |-> IF ok THEN search[g].errors ELSE search[g].errors + 1,
                     found  |-> search[g].found \/ (ok /\ docs)]
    <3>1. search[g] \in Progress /\ search \in [Gens -> Progress]
      BY DEF Progress
    <3>2. r \in Progress
      BY <3>1, ProgressStep
    <3>3. search' = [search EXCEPT ![g] = r]
      BY <2>4, Zenon DEF SearchReply
    <3> HIDE DEF r
    <3>4. search' \in [Gens -> Progress]
      BY <3>1, <3>2, <3>3
    <3> QED
      BY <2>4, <3>4 DEF SearchReply, Progress
  <2>5. CASE Rerank(g) \/ BuildFails(g)
    BY <2>5 DEF Rerank, BuildFails
  <2>6. CASE SpawnGenerator(g)
    BY <2>6 DEF SpawnGenerator, GenSteps
  <2>7. CASE StreamToken(g)
    <3>1. gen[g].made \in Nat /\ gen[g] \in [pc : GenSteps, made : 0..MaxTokens, err : {"none", "nil", "error"}]
      OBVIOUS
    <3>2. buf' \in [Gens -> Seq(Nat)]
      BY <2>7, <3>1 DEF StreamToken
    <3>3. gen' \in [Gens -> [pc : GenSteps, made : 0..MaxTokens, err : {"none", "nil", "error"}]]
      BY <2>7, <3>1 DEF StreamToken, GenSteps
    <3> QED
      BY <2>7, <3>2, <3>3 DEF StreamToken
  <2>8. CASE StreamTick(g)
    <3>1. buf' \in [Gens -> Seq(Nat)]
      BY <2>8, FlushType DEF StreamTick
    <3>2. pc' \in [Gens -> PipelineSteps \cup {"none", "exit"}]
      BY <2>8 DEF StreamTick
    <3> QED
      BY <2>8, <3>1, <3>2 DEF StreamTick
  <2>9. CASE StreamCtxDone(g) \/ StreamClosed(g)
    <3>1. StreamEnds(g)
      BY <2>9 DEF StreamCtxDone, StreamClosed
    <3>2. buf' \in [Gens -> Seq(Nat)]
      BY <3>1, FlushType DEF StreamEnds
    <3> QED
      BY <3>1, <3>2 DEF StreamEnds
  <2>10. CASE AwaitGenerator(g) \/ SendSources(g) \/ Release(g)
    BY <2>10 DEF AwaitGenerator, SendSources, Release
  <2>11. CASE SendDone(g) \/ SendError(g)
    BY <2>11 DEF SendDone, SendError
  <2> QED
    BY <1>2, <2>1, <2>2, <2>3, <2>4, <2>5, <2>6, <2>7, <2>8, <2>9, <2>10, <2>11
       DEF Pipeline, PipelineOwn, SearchReturns
<1>3. ASSUME NEW g \in Gens, Generator(g) PROVE JobTypeOK'
  <2>1. gen' \in [Gens -> GenState]
    <3>0. gen[g] \in GenState /\ gen \in [Gens -> GenState]
      BY DEF GenState
    <3>1. ASSUME NEW from \in GenSteps, NEW to \in GenSteps, GenGoto(g, from, to)
          PROVE  gen' \in [Gens -> GenState]
      BY <3>0, <3>1 DEF GenGoto, GenState
    <3>2. ASSUME NEW from \in GenSteps, NEW err \in {"nil", "error"}, GenReturn(g, from, err)
          PROVE  gen' \in [Gens -> GenState]
      BY <3>0, <3>2 DEF GenReturn, GenState, GenSteps
    <3>3. CASE GenToken(g)
      <4> DEFINE r == [gen[g] EXCEPT !.pc = "offer", !.made = @ + 1]
      <4>1. r \in GenState
        BY <3>0, <3>3, TokenStep DEF GenToken
      <4>2. gen' = [gen EXCEPT ![g] = r]
        BY <3>3 DEF GenToken
      <4> HIDE DEF r
      <4> QED
        BY <3>0, <4>1, <4>2
    <3>4. CASE GenStart(g) \/ GenConnect(g) \/ GenEnd(g) \/ GenFail(g) \/ GenAbort(g) \/ GenClose(g)
      BY <3>1, <3>2, <3>4 DEF GenStart, GenConnect, GenEnd, GenFail, GenAbort, GenClose, GenSteps
    <3> QED
      BY <1>3, <3>3, <3>4 DEF Generator, LlamaAnswers
  <2> QED
    BY <1>3, <2>1, GeneratorFrame DEF GenState
<1>4. CASE Serve /\ ~QueryInstall
  BY <1>4, ServeFrame DEF jobVars
<1>5. CASE Environment \/ UNCHANGED vars
  BY <1>5, EnvironmentFrame DEF vars, jobVars
<1> QED
  BY <1>1, <1>2, <1>3, <1>4, <1>5 DEF Next

-----------------------------------------------------------------------------
(* The slot and the profile of a request.                                  *)

\* Between the critical sections of handleQuery, the new generation has no
\* pipeline and no cancel function yet.
Installing ==
  spc = "install" => /\ active /\ cancel = 0
                     /\ currentGen \in Gens /\ pc[currentGen] = "none"

FreeSlot == ~active => cancel = 0

\* No pipeline of a generation to come.
Fresh == \A g \in Gens : g > currentGen => pc[g] = "none"

\* When the profile is read, and that a pipeline that runs holds the active one.
ProfileRead ==
  \A g \in Gens :
    /\ prompt[g] = NoProfile <=> pc[g] \in {"none", "prompt"}
    /\ servers[g] = NoProfile <=> pc[g] \in {"none", "prompt", "servers"}
    /\ Live(g) => prompt[g] \in {NoProfile, profile} /\ servers[g] \in {NoProfile, profile}

\* A pipeline that is about to release the slot, or has, has a verdict.
Decided == \A g \in Gens : pc[g] \in {"release", "exit"} => verdict[g] # "none"

SlotInv == Ownership /\ SlotHeld /\ Installing /\ FreeSlot /\ Fresh
DataInv == OneProfilePerRequest /\ ProfileRead /\ Decided
IInv == TypeOK /\ GenBound /\ SlotInv /\ DataInv

\* The steps of a pipeline but for the reads of the profile, the verdict and
\* the release.
Middle == PipelineSteps \ {"prompt", "servers", "release"}

LEMMA PipelineStep ==
  ASSUME TypeOK, NEW g \in Gens, Pipeline(g)
  PROVE  \/ ReadPrompt(g) \/ ReadServers(g) \/ SendDone(g) \/ SendError(g) \/ Release(g)
         \/ /\ pc[g] \in Middle
            /\ \E to \in Middle : pc' = [pc EXCEPT ![g] = to]
            /\ UNCHANGED <<prompt, servers, verdict>>
<1> USE DEF TypeOK, JobTypeOK, PipelineSteps, Middle, Goto
<1>1. CASE SearchNext(g) \/ SearchReturns(g) \/ Rerank(g)
  BY <1>1 DEF SearchNext, SearchReturns, SearchReply, Rerank
<1>2. CASE BuildFails(g) \/ SpawnGenerator(g)
  BY <1>2 DEF BuildFails, SpawnGenerator
<1>3. CASE StreamToken(g)
  <2>1. pc[g] = "stream" /\ pc' = [pc EXCEPT ![g] = "stream"]
    BY <1>3 DEF StreamToken
  <2> QED
    BY <1>3, <2>1 DEF StreamToken
<1>4. CASE StreamTick(g) \/ StreamCtxDone(g) \/ StreamClosed(g)
  BY <1>4 DEF StreamTick, StreamCtxDone, StreamClosed, StreamEnds
<1>5. CASE AwaitGenerator(g) \/ SendSources(g)
  BY <1>5 DEF AwaitGenerator, SendSources
<1> QED
  BY <1>1, <1>2, <1>3, <1>4, <1>5 DEF Pipeline, PipelineOwn

LEMMA SlotInvInit == Init => SlotInv
BY DEF Init, SlotInv, Ownership, SlotHeld, Installing, FreeSlot, Fresh, Live, PipelineSteps

LEMMA SlotInvNext == IInv /\ [Next]_vars => SlotInv'
<1> SUFFICES ASSUME IInv, [Next]_vars PROVE SlotInv'
  OBVIOUS
<1> USE DEF IInv, SlotInv, Ownership, SlotHeld, Installing, FreeSlot, Fresh, Live
<1>0. /\ pc \in [Gens -> PipelineSteps \cup {"none", "exit"}]
      /\ currentGen \in Nat /\ cancel \in Nat /\ lastId \in Nat /\ GenBound
  BY DEF TypeOK, JobTypeOK, SlotTypeOK, ServeTypeOK
<1>1. CASE QueryAdmit
  <2>1. currentGen' \in Gens /\ currentGen' = currentGen + 1
    BY <1>0, <1>1 DEF QueryAdmit, ReceivesQuery, GenBound, TypeOK, ServeTypeOK
  <2> QED
    BY <1>0, <1>1, <2>1 DEF QueryAdmit, ReceivesQuery, CanReceive, jobVars, PipelineSteps
<1>2. CASE QueryInstall
  BY <1>0, <1>2 DEF QueryInstall, PipelineSteps
<1>3. CASE QueryBusy \/ QueryNotReady
  BY <1>3 DEF QueryBusy, QueryNotReady, ReceivesQuery, CanReceive, Answer, jobVars
<1>4. CASE Cancel \/ SwitchRefused \/ OtherRequest \/ \E p \in Profiles : SwitchTo(p)
  BY <1>4 DEF Cancel, SwitchRefused, OtherRequest, SwitchTo, ReceivesControl, CanReceive,
              Answer, slotVars, jobVars
<1>5. CASE SendReply \/ ReadFails \/ ReadDeadline
  BY <1>5 DEF SendReply, ReadFails, ReadDeadline, CanReceive, slotVars, jobVars
<1>6. ASSUME NEW g \in Gens, Pipeline(g) PROVE SlotInv'
  <2>1. spc' = spc
    BY <1>6, PipelineFrame DEF Others, serveVars
  <2>2. CASE Release(g)
    BY <1>0, <2>1, <2>2 DEF Release, Goto, PipelineSteps
  <2>3. CASE ~Release(g)
    <3>1. UNCHANGED slotVars
      BY <1>6, <2>3, PipelineFrame
    <3>2. Live(g) /\ \E to \in PipelineSteps : pc' = [pc EXCEPT ![g] = to]
      BY <1>6, <2>3, PipelineStep DEF ReadPrompt, ReadServers, SendDone, SendError, Goto,
         PipelineSteps, Middle
    <3> QED
      BY <1>0, <2>1, <3>1, <3>2 DEF slotVars, PipelineSteps
  <2> QED
    BY <2>2, <2>3
<1>7. ASSUME NEW g \in Gens, Generator(g) PROVE SlotInv'
  BY <1>7, GeneratorFrame DEF Others, slotVars, serveVars
<1>8. CASE Environment \/ UNCHANGED vars
  BY <1>8, EnvironmentFrame DEF vars, slotVars, serveVars, jobVars
<1> QED
  BY <1>1, <1>2, <1>3, <1>4, <1>5, <1>6, <1>7, <1>8 DEF Next, Serve

LEMMA DataInvInit == Init => DataInv
BY DEF Init, DataInv, OneProfilePerRequest, ProfileRead, Decided, Live, PipelineSteps

LEMMA DataInvNext == IInv /\ [Next]_vars => DataInv'
<1> SUFFICES ASSUME IInv, [Next]_vars PROVE DataInv'
  OBVIOUS
<1> USE DEF IInv, DataInv, OneProfilePerRequest, ProfileRead, Decided, Live
<1>0. /\ pc \in [Gens -> PipelineSteps \cup {"none", "exit"}]
      /\ prompt \in [Gens -> Profiles \cup {NoProfile}]
      /\ servers \in [Gens -> Profiles \cup {NoProfile}]
      /\ verdict \in [Gens -> {"none", "answered", "failed"}]
      /\ profile \in Profiles
  BY DEF TypeOK, JobTypeOK
<1>1. CASE QueryInstall
  <2>1. currentGen \in Gens /\ pc[currentGen] = "none"
    BY <1>1 DEF QueryInstall, SlotInv, Installing
  <2>2. pc' = [pc EXCEPT ![currentGen] = "prompt"] /\ UNCHANGED <<prompt, servers, verdict, profile>>
    BY <1>1 DEF QueryInstall
  <2> QED
    BY <1>0, <2>1, <2>2 DEF PipelineSteps
<1>2. ASSUME NEW p \in Profiles, SwitchTo(p) PROVE DataInv'
  <2>1. \A g \in Gens : ~Live(g)
    BY <1>2 DEF SwitchTo, SlotInv, Ownership
  <2>2. UNCHANGED <<pc, prompt, servers, verdict>>
    BY <1>2 DEF SwitchTo, ReceivesControl, jobVars
  <2> QED
    BY <2>1, <2>2
<1>3. CASE Serve /\ ~QueryInstall /\ ~\E p \in Profiles : SwitchTo(p)
  <2>1. profile' = profile
    BY <1>3 DEF Serve, QueryBusy, QueryNotReady, QueryAdmit, Cancel, SwitchRefused, OtherRequest,
       SendReply, ReadFails, ReadDeadline, ReceivesQuery
  <2> QED
    BY <1>3, <2>1, ServeFrame DEF jobVars
<1>4. ASSUME NEW g \in Gens, Pipeline(g) PROVE DataInv'
  <2>1. profile' = profile
    BY <1>4, PipelineFrame DEF Others
  <2> USE DEF Goto
  <2>2. CASE ReadPrompt(g)
    BY <1>0, <2>1, <2>2, NoProfileAssumption DEF ReadPrompt, PipelineSteps
  <2>3. CASE ReadServers(g)
    <3>1. pc[g] = "servers" /\ \E to \in {"fail", "search"} : pc' = [pc EXCEPT ![g] = to]
      BY <2>3 DEF ReadServers
    <3>2. servers' = [servers EXCEPT ![g] = profile] /\ UNCHANGED <<prompt, verdict>>
      BY <2>3 DEF ReadServers
    <3>3. prompt[g] = profile
      BY <3>1 DEF PipelineSteps
    <3> QED
      BY <1>0, <2>1, <3>1, <3>2, <3>3, NoProfileAssumption DEF PipelineSteps
  <2>4. CASE SendDone(g) \/ SendError(g)
    BY <1>0, <2>1, <2>4 DEF SendDone, SendError, PipelineSteps
  <2>5. CASE Release(g)
    BY <1>0, <2>1, <2>5 DEF Release, PipelineSteps
  <2>6. CASE /\ pc[g] \in Middle
             /\ \E to \in Middle : pc' = [pc EXCEPT ![g] = to]
             /\ UNCHANGED <<prompt, servers, verdict>>
    BY <1>0, <2>1, <2>6 DEF PipelineSteps, Middle
  <2> QED
    BY <1>4, <2>2, <2>3, <2>4, <2>5, <2>6, PipelineStep
<1>5. ASSUME NEW g \in Gens, Generator(g) PROVE DataInv'
  BY <1>5, GeneratorFrame DEF Others
<1>6. CASE Environment \/ UNCHANGED vars
  BY <1>6, EnvironmentFrame DEF vars, jobVars
<1> QED
  BY <1>1, <1>2, <1>3, <1>4, <1>5, <1>6 DEF Next, Serve

-----------------------------------------------------------------------------
(* The theorems.                                                           *)

LEMMA TypeNext == TypeOK /\ GenBound /\ [Next]_vars => TypeOK' /\ GenBound'
<1> SUFFICES ASSUME TypeOK, GenBound, [Next]_vars PROVE TypeOK' /\ GenBound'
  OBVIOUS
<1>1. FlagTypeOK' /\ SlotTypeOK' /\ GenBound' /\ ServeTypeOK' /\ JobTypeOK' /\ wire' \in Seq(Messages)
  BY FlagType, SlotType, ServeType, JobType, WireType
<1>2. profile' \in Profiles
  <2>1. CASE Serve
    BY <2>1 DEF Serve, QueryBusy, QueryNotReady, QueryAdmit, QueryInstall, Cancel, SwitchRefused,
       OtherRequest, SwitchTo, SendReply, ReadFails, ReadDeadline, ReceivesQuery, TypeOK
  <2>2. CASE ~Serve
    BY <2>2, PipelineFrame, GeneratorFrame, EnvironmentFrame DEF Next, Others, vars, TypeOK
  <2> QED
    BY <2>1, <2>2
<1>3. conn' \in {"open", "gone"}
  BY PipelineFrame, GeneratorFrame, ServeFrame
     DEF Next, Environment, Shutdown, ConnectionLost, Others, envVars, vars, TypeOK
<1> QED
  BY <1>1, <1>2, <1>3 DEF TypeOK

THEOREM Inductive == Spec => []IInv
<1>1. Init => IInv
  <2>1. Init => GenBound
    BY DEF Init, GenBound
  <2> QED
    BY <2>1, InitTypeOK, SlotInvInit, DataInvInit DEF IInv
<1>2. IInv /\ [Next]_vars => IInv'
  BY TypeNext, SlotInvNext, DataInvNext DEF IInv
<1> QED
  BY <1>1, <1>2, PTL DEF Spec

\* Every variable of the request manager keeps its type.
THEOREM TypeCorrect == Spec => []TypeOK
<1>1. IInv => TypeOK
  BY DEF IInv
<1> QED
  BY <1>1, Inductive, PTL

\* One pipeline at a time, and it owns the slot and the cancel function
\* (handleQuery, handleCancel and the deferred release of runPipeline).
THEOREM SlotOwned == Spec => []Ownership
<1>1. IInv => Ownership
  BY DEF IInv, SlotInv
<1> QED
  BY <1>1, Inductive, PTL

\* The slot is free, or someone is there who will free it.
THEOREM SlotNotLeaked == Spec => []SlotHeld
<1>1. IInv => SlotHeld
  BY DEF IInv, SlotInv
<1> QED
  BY <1>1, Inductive, PTL

\* A request is answered from one profile, whatever switches the client asks for.
THEOREM ProfileStable == Spec => []OneProfilePerRequest
<1>1. IInv => OneProfilePerRequest
  BY DEF IInv, DataInv
<1> QED
  BY <1>1, Inductive, PTL

\* A Cancel that finds a pipeline running cancels its context, and only that one
\* (handleCancel).
THEOREM CancelHits == Spec => CancelReachesLive
<1>1. IInv /\ [Next]_vars =>
        [reply'.type = "Done" =>
           \A g \in Gens : cancelled'[g] = (cancelled[g] \/ Live(g))]_reply
  <2> SUFFICES ASSUME IInv, [Next]_vars, reply' # reply, reply'.type = "Done", NEW g \in Gens
               PROVE  cancelled'[g] = (cancelled[g] \/ Live(g))
    OBVIOUS
  <2>1. Cancel
    <3> USE DEF Answer, Msg
    <3>1. Serve
      BY PipelineFrame, GeneratorFrame, EnvironmentFrame DEF Next, Others, serveVars, vars
    <3>2. ~QueryBusy /\ ~QueryNotReady /\ ~SwitchRefused /\ ~OtherRequest
      BY DEF QueryBusy, QueryNotReady, SwitchRefused, OtherRequest
    <3>3. ~\E p \in Profiles : SwitchTo(p)
      BY DEF SwitchTo
    <3>4. ~SendReply
      BY DEF SendReply, NoMsg
    <3>5. ~QueryAdmit /\ ~QueryInstall /\ ~ReadFails /\ ~ReadDeadline
      BY DEF QueryAdmit, QueryInstall, ReadFails, ReadDeadline
    <3> QED
      BY <3>1, <3>2, <3>3, <3>4, <3>5 DEF Serve
  <2>2. cancel \in Nat /\ cancelled \in [Gens -> BOOLEAN]
    BY DEF IInv, TypeOK, SlotTypeOK, FlagTypeOK
  <2>3. spc # "install"
    BY <2>1 DEF Cancel, ReceivesControl, CanReceive
  <2>4. Live(g) <=> cancel = g
    BY <2>2, <2>3 DEF IInv, SlotInv, Ownership, SlotHeld, FreeSlot
  <2>5. cancel # 0 => cancel \in Gens
    BY <2>3 DEF IInv, SlotInv, Ownership, SlotHeld, FreeSlot
  <2>6. cancelled' = IF cancel # 0 THEN [cancelled EXCEPT ![cancel] = TRUE] ELSE cancelled
    BY <2>1 DEF Cancel
  <2>7. CASE cancel = g
    <3>1. g # 0
      OBVIOUS
    <3> QED
      BY <2>2, <2>4, <2>6, <2>7, <3>1
  <2>8. CASE cancel # g
    BY <2>2, <2>4, <2>5, <2>6, <2>8
  <2> QED
    BY <2>7, <2>8
<1> QED
  BY <1>1, Inductive, PTL DEF Spec, CancelReachesLive

-----------------------------------------------------------------------------
(* Refinement: the request manager implements SingleFlight.                *)

\* A running request is answered from the active profile, a finished one from
\* what it read.
ByPhase == [g \in Gens |-> IF Phase[g] = "absent" THEN {}
                           ELSE IF Phase[g] = "running" THEN {profile}
                           ELSE {prompt[g], servers[g]}]

LEMMA UsedIs == IInv => Used = ByPhase
<1> SUFFICES ASSUME IInv, NEW g \in Gens
             PROVE  Used[g] = IF Phase[g] = "absent" THEN {}
                              ELSE IF Phase[g] = "running" THEN {profile}
                              ELSE {prompt[g], servers[g]}
  BY DEF Used, ByPhase
<1> USE DEF Used, IInv, DataInv, ProfileRead
<1>1. CASE Phase[g] = "running"
  <2>1. prompt[g] \in {NoProfile, profile} /\ servers[g] \in {NoProfile, profile}
    <3>1. Admitted(g)
      BY <1>1 DEF Phase, TypeOK, JobTypeOK
    <3> QED
      BY <3>1 DEF Admitted, SlotInv, Installing
  <2> QED
    BY <1>1, <2>1
<1>2. CASE Phase[g] \notin {"running", "absent"}
  <2>1. prompt[g] # NoProfile /\ servers[g] # NoProfile
    BY <1>2 DEF Phase, Admitted, Live, PipelineSteps, TypeOK, JobTypeOK
  <2> QED
    BY <1>2, <2>1
<1> QED
  BY <1>1, <1>2

LEMMA UsedNext == IInv' => Used' = ByPhase'
<1>1. IInv' => (Used = ByPhase)'
  BY UsedIs, PTL
<1> QED
  BY <1>1

LEMMA PhaseIs ==
  ASSUME IInv, NEW g \in Gens
  PROVE  /\ Phase[g] = "running" <=> Admitted(g)
         /\ ~Admitted(g) /\ pc[g] = "none" => Phase[g] = "absent"
         /\ ~Admitted(g) /\ pc[g] = "exit" => Phase[g] = verdict[g]
BY DEF Phase, IInv, TypeOK, JobTypeOK

\* At most one request is admitted, and only while the slot is taken.
LEMMA AdmittedIs ==
  ASSUME IInv, NEW g \in Gens, Admitted(g)
  PROVE  active /\ currentGen = g
BY DEF IInv, SlotInv, Ownership, Installing, Admitted

\* A step that moves no request into or out of the slot, and leaves the profile
\* and the verdicts of finished requests alone, is a stutter.
LEMMA Stutter ==
  ASSUME IInv, IInv', profile' = profile,
         \A g \in Gens :
           /\ Admitted(g)' <=> Admitted(g)
           /\ ~Admitted(g) =>
                pc'[g] = pc[g] /\ UNCHANGED <<verdict[g], prompt[g], servers[g]>>
  PROVE  UNCHANGED <<Phase, Used, profile>>
<1>1. Phase' = Phase
  BY DEF Phase
<1>2. \A g \in Gens : ~(Phase[g] \in {"running", "absent"}) =>
          prompt'[g] = prompt[g] /\ servers'[g] = servers[g]
  BY PhaseIs
<1>3. Used' = ByPhase'
  BY UsedNext
<1>4. Used' = Used
  BY <1>1, <1>2, <1>3, UsedIs DEF ByPhase
<1> QED
  BY <1>1, <1>4

LEMMA RefinesInit == Init => Promise!Init
BY DEF Init, Promise!Init, Phase, Used, Admitted, Live, PipelineSteps

LEMMA RefinesNext == IInv /\ IInv' /\ [Next]_vars => [Promise!Next]_(Promise!vars)
<1> SUFFICES ASSUME IInv, IInv', [Next]_vars PROVE [Promise!Next]_(Promise!vars)
  OBVIOUS
<1> DEFINE Step == [Promise!Next]_(Promise!vars)
<1> SUFFICES Step
  OBVIOUS
<1>s. UNCHANGED <<Phase, Used, profile>> => Step
  BY DEF Promise!vars
<1>t. TypeOK /\ TypeOK'
  BY DEF IInv
<1> HIDE DEF Step
<1>1. CASE QueryAdmit
  <2> DEFINE n == currentGen + 1
  <2>1. /\ ~active /\ spc = "idle" /\ spc' = "install" /\ currentGen' = n
        /\ UNCHANGED <<profile, pc, prompt, servers, verdict>>
    BY <1>1 DEF QueryAdmit, ReceivesQuery, CanReceive, jobVars
  <2>2. n \in Gens /\ currentGen \in Nat
    BY <2>1, <1>t DEF IInv, SlotInv, Installing, TypeOK, SlotTypeOK
  <2>3. \A g \in Gens : ~Admitted(g) /\ (Admitted(g)' <=> g = n)
    BY <2>1, AdmittedIs DEF Admitted, IInv, SlotInv, Ownership, Live
  <2>4. pc[n] = "none"
    BY <2>1, <2>2 DEF IInv, SlotInv, Installing
  <2>5. Phase[n] = "absent" /\ \A g \in Gens : Phase[g] # "running"
    BY <2>2, <2>3, <2>4, PhaseIs
  <2>6. Phase' = [Phase EXCEPT ![n] = "running"]
    BY <2>1, <2>2, <2>3 DEF Phase
  <2>7. Used' = [Used EXCEPT ![n] = {profile}]
    <3>1. Used' = ByPhase'
      BY UsedNext
    <3>2. Used = ByPhase
      BY UsedIs
    <3>3. ByPhase' = [ByPhase EXCEPT ![n] = {profile}]
      BY <2>1, <2>2, <2>5, <2>6 DEF ByPhase, Phase
    <3> QED
      BY <3>1, <3>2, <3>3
  <2>8. Promise!Admit(n)
    BY <2>1, <2>2, <2>5, <2>6, <2>7 DEF Promise!Admit, Promise!Idle
  <2> QED
    BY <2>2, <2>8 DEF Step, Promise!Next
<1>2. CASE QueryInstall
  <2>1. /\ \A g \in Gens : Admitted(g)' <=> Admitted(g)
        /\ currentGen \in Gens /\ Admitted(currentGen)
    BY <1>2, <1>t DEF QueryInstall, Admitted, Live, PipelineSteps, TypeOK, JobTypeOK, IInv, SlotInv,
                Installing
  <2> QED
    BY <1>2, <1>s, <1>t, <2>1, Stutter DEF QueryInstall, TypeOK, JobTypeOK
<1>3. ASSUME NEW p \in Profiles, SwitchTo(p) PROVE Step
  <2>1. /\ ~active /\ spc # "install" /\ spc' # "install" /\ profile' = p
        /\ UNCHANGED <<currentGen, pc, prompt, servers, verdict>>
    BY <1>3 DEF SwitchTo, ReceivesControl, CanReceive, Answer, slotVars, jobVars
  <2>2. \A g \in Gens : ~Admitted(g) /\ ~Admitted(g)'
    BY <2>1 DEF Admitted, IInv, SlotInv, Ownership, Live
  <2>3. \A g \in Gens : Phase[g] # "running"
    BY <2>2, PhaseIs
  <2>4. Phase' = Phase
    BY <2>1, <2>2 DEF Phase
  <2>5. Used' = Used
    <3>1. Used' = ByPhase'
      BY UsedNext
    <3>2. ByPhase' = ByPhase
      BY <2>1, <2>3, <2>4 DEF ByPhase
    <3> QED
      BY <3>1, <3>2, UsedIs
  <2>6. Promise!Switch(p)
    BY <2>1, <2>3, <2>4, <2>5 DEF Promise!Switch, Promise!Idle
  <2> QED
    BY <2>6 DEF Step, Promise!Next
<1>4. CASE Serve /\ ~QueryAdmit /\ ~QueryInstall /\ ~\E p \in Profiles : SwitchTo(p)
  <2>1. /\ profile' = profile /\ currentGen' = currentGen
        /\ spc # "install" /\ spc' # "install"
    BY <1>4 DEF Serve, QueryBusy, QueryNotReady, Cancel, SwitchRefused, OtherRequest,
       SendReply, ReadFails, ReadDeadline, ReceivesQuery, ReceivesControl, CanReceive, Answer,
       slotVars
  <2> QED
    BY <1>4, <1>s, <2>1, ServeFrame, Stutter DEF jobVars, Admitted, Live
<1>5. ASSUME NEW g \in Gens, Pipeline(g), ~Release(g) PROVE Step
  <2>1. UNCHANGED <<profile, spc, currentGen>>
    BY <1>5, PipelineFrame DEF Others, serveVars, slotVars
  <2>2. /\ Live(g)
        /\ \E to \in PipelineSteps : pc' = [pc EXCEPT ![g] = to]
        /\ \A h \in Gens \ {g} : UNCHANGED <<prompt[h], servers[h], verdict[h]>>
    BY <1>5, <1>t, PipelineStep DEF ReadPrompt, ReadServers, SendDone, SendError, Goto, Live,
       PipelineSteps, Middle, TypeOK, JobTypeOK
  <2> QED
    BY <1>s, <1>t, <2>1, <2>2, Stutter DEF Admitted, Live, TypeOK, JobTypeOK
<1>6. ASSUME NEW g \in Gens, Release(g) PROVE Step
  <2>1. /\ pc[g] = "release" /\ pc' = [pc EXCEPT ![g] = "exit"]
        /\ UNCHANGED <<profile, spc, currentGen, prompt, servers, verdict>>
    BY <1>6 DEF Release, Goto, serveVars
  <2>2. /\ Admitted(g) /\ ~Admitted(g)' /\ verdict[g] \in {"answered", "failed"}
        /\ \A h \in Gens \ {g} : Admitted(h)' <=> Admitted(h)
    BY <2>1, <1>t DEF Admitted, Live, PipelineSteps, TypeOK, JobTypeOK, IInv, DataInv, Decided,
       SlotInv, Ownership
  <2>3. Phase[g] = "running"
    BY <2>2, PhaseIs
  <2>4. Phase' = [Phase EXCEPT ![g] = verdict[g]]
    <3>1. pc'[g] = "exit" /\ \A h \in Gens \ {g} : pc'[h] = pc[h]
      BY <2>1, <1>t DEF TypeOK, JobTypeOK
    <3>2. \A h \in Gens \ {g} : Phase'[h] = Phase[h]
      BY <2>1, <2>2, <3>1 DEF Phase
    <3>3. Phase'[g] = verdict[g]
      BY <2>1, <2>2, <3>1 DEF Phase
    <3>4. Phase = [h \in Gens |-> Phase[h]] /\ Phase' = [h \in Gens |-> Phase'[h]]
      BY DEF Phase
    <3> QED
      BY <3>2, <3>3, <3>4
  <2>5. prompt[g] = profile /\ servers[g] = profile
    BY <2>1 DEF IInv, DataInv, ProfileRead, Live, PipelineSteps
  <2>6. Used' = Used
    <3>1. Used' = ByPhase'
      BY UsedNext
    <3>2. ByPhase' = ByPhase
      <4>1. \A h \in Gens \ {g} : Phase'[h] = Phase[h]
        BY <2>4 DEF Phase
      <4>2. Phase'[g] \in {"answered", "failed"}
        BY <2>2, <2>4 DEF Phase
      <4> QED
        BY <2>1, <2>3, <2>5, <4>1, <4>2 DEF ByPhase
    <3> QED
      BY <3>1, <3>2, UsedIs
  <2>7. Promise!Finish(g, verdict[g])
    BY <2>1, <2>3, <2>4, <2>6 DEF Promise!Finish
  <2> QED
    BY <2>2, <2>7 DEF Step, Promise!Next
<1>7. ASSUME NEW g \in Gens, Generator(g) PROVE Step
  BY <1>7, <1>s, GeneratorFrame, Stutter DEF Others, slotVars, serveVars, Admitted, Live
<1>8. CASE Environment
  BY <1>8, <1>s, EnvironmentFrame, Stutter DEF slotVars, serveVars, jobVars, Admitted, Live
<1>9. CASE UNCHANGED vars
  BY <1>9, <1>s, Stutter DEF vars, slotVars, serveVars, jobVars, Admitted, Live
<1> QED
  BY <1>1, <1>2, <1>3, <1>4, <1>5, <1>6, <1>7, <1>8, <1>9 DEF Next, Serve

\* The request manager implements the single-flight service: one request at a
\* time, from the profile it was admitted with.
THEOREM Refines == Spec => ImplementsSingleFlight
<1> QED
  BY RefinesInit, RefinesNext, Inductive, PTL DEF Spec, ImplementsSingleFlight, Promise!Spec

=============================================================================
