------------------------- MODULE ChatSessionProofs -------------------------
(***************************************************************************)
(* Proofs about ChatSession: that its orchestrator is RequestManager's,    *)
(* and what the front end shows of an answer, for any number of queries    *)
(* and tokens.                                                             *)
(***************************************************************************)
EXTENDS ChatSession, RequestDeliveryProofs

USE BoundsAssumption, ProfilesAssumption, NoProfileAssumption DEF Gens

-----------------------------------------------------------------------------
(* What is on the wire.                                                    *)

\* A request id belongs to a pipeline as soon as it has started.
IdsTaken ==
  /\ \A g \in Gens : pc[g] = "none" <=> reqId[g] = 0
  /\ spc = "install" => currentReqID # 0

\* Handlers answer with neither tokens nor sources, and with Done only a Cancel.
ReplyKind ==
  /\ reply.type \notin {"Token", "Sources"}
  /\ nCtl = 0 => reply.type # "Done"

Consecutive(text) == \E a \in 0..MaxTokens : \A k \in DOMAIN text : text[k] = a + k

\* What a pipeline writes has the id of its request, and Done comes last.
SentBy(m, g) ==
  /\ pc[g] # "none" /\ m.id = reqId[g]
  /\ m.type = "Done" => pc[g] \in {"release", "exit"} /\ verdict[g] = "answered"

WireKind ==
  \A i \in DOMAIN wire :
    /\ wire[i].by = "pipeline" => \E g \in Gens : SentBy(wire[i], g)
    /\ wire[i].type \in {"Token", "Sources"} => wire[i].by = "pipeline"
    /\ wire[i].type = "Done" /\ nCtl = 0 => wire[i].by = "pipeline"
    /\ wire[i].type = "Token" => Consecutive(wire[i].text)

SentInv == IdsTaken /\ ReplyKind /\ WireKind

-----------------------------------------------------------------------------
(* The protocol of a calm chat: one request at a time.                     *)

AllRead == seen = Len(wire)
Resting == \A g \in Gens : Live(g) => pc[g] = "release"
Listening == spc \in {"idle", "ended"}
Quiet == outbox = <<>> /\ Listening /\ Resting
Ends == {"Done", "Error", "Busy"}

\* A query is on its way.
Waiting == Len(outbox) = 1 /\ AllRead /\ Listening /\ Resting

\* handleQuery turns the query down.
Refusing == outbox = <<>> /\ AllRead /\ Resting /\ reply.id = m_reqId /\ reply.type \in {"Busy", "Error"}

\* Between the critical sections of handleQuery.
Starting == outbox = <<>> /\ AllRead /\ currentReqID = m_reqId

\* An answer is being made: it is the one the front end is waiting for.
Working(g) == outbox = <<>> /\ Listening /\ reqId[g] = m_reqId

Filling == item = m_reqId /\ item # 0

Protocol ==
  /\ lastId + Len(outbox) = m_reqId
  /\ item \in {0, m_reqId}
  /\ status = "ready" => AllRead /\ Quiet /\ item = 0
  /\ outbox # <<>> => Waiting /\ Filling
  /\ spc = "reply" => Refusing /\ Filling
  /\ spc = "install" => Starting /\ Filling
  /\ \A g \in Gens : Live(g) /\ pc[g] # "release" => Working(g) /\ Filling
  /\ \A i \in (seen + 1)..Len(wire) :
       /\ wire[i].id = m_reqId /\ Filling
       /\ wire[i].type \in Ends => i = Len(wire) /\ Quiet

\* The tokens of request q that the front end has read.
Heard(q) ==
  UNION {{wire[i].text[k] : k \in DOMAIN wire[i].text} :
           i \in {j \in 1..seen : wire[j].type = "Token" /\ wire[j].id = q}}

\* The bubble that is being filled shows what has been read.
Filled ==
  item # 0 =>
    /\ bubbles[item].text = streamingText
    /\ \A i \in DOMAIN streamingText : streamingText[i] = <<item, i>>
    /\ Heard(item) = 1..Len(streamingText)

\* Bubbles to come are empty.
Untouched == \A q \in 1..MaxQueries : q > m_reqId => bubbles[q].text = <<>>

Own ==
  /\ \A q \in 1..MaxQueries : \A i \in DOMAIN bubbles[q].text : bubbles[q].text[i] = <<q, i>>
  /\ sources.at \in {0, sources.of}

\* A bubble that was left without an error is complete, and its generator has ended.
Shown ==
  \A g \in Gens :
    pc[g] # "none" /\ item # reqId[g] /\ bubbles[reqId[g]].mark = "none" =>
      gen[g].err # "none" /\ Len(bubbles[reqId[g]].text) = gen[g].made

ChatInv == Calm => Protocol /\ Filled /\ Untouched /\ Own /\ Shown
Connected == conn = "open" /\ ~baseDone

-----------------------------------------------------------------------------
(* The orchestrator of the chat is the request manager.                    *)

LEMMA StepsOfManager == [ChatNext]_allVars => [Next]_vars
<1> SUFFICES ASSUME [ChatNext]_allVars PROVE [Next]_vars
  OBVIOUS
<1>1. CASE User
  BY <1>1 DEF User, StartSearch, StopSearch, ChooseProfile
<1>2. CASE ReadMessage
  BY <1>2 DEF ReadMessage, ReadToken, ReadError, ReadBusy, ReadDone, ReadSources, ReadPong, Reads
<1>3. CASE Orchestrator
  BY <1>3 DEF Orchestrator, HandleMessage, SwitchUnknown, Quietly, Next, Serve
<1>4. CASE UNCHANGED allVars
  BY <1>4 DEF allVars
<1> QED
  BY <1>1, <1>2, <1>3, <1>4 DEF ChatNext

THEOREM ImplementsManager == ChatSpec => Spec
BY StepsOfManager, PTL DEF ChatSpec, ChatInit, Spec

\* The client of a chat stays, and nobody shuts the orchestrator down.
LEMMA StaysConnected == ChatSpec => []Connected
<1>1. ChatInit => Connected
  BY DEF ChatInit, Init, Connected
<1>2. Connected /\ [ChatNext]_allVars => Connected'
  <2> SUFFICES ASSUME Connected, [ChatNext]_allVars PROVE UNCHANGED envVars
    BY DEF Connected, envVars
  <2>1. CASE User
    BY <2>1 DEF User, StartSearch, StopSearch, ChooseProfile, vars
  <2>2. CASE ReadMessage
    BY <2>2 DEF ReadMessage, ReadToken, ReadError, ReadBusy, ReadDone, ReadSources, ReadPong, Reads, vars
  <2>3. CASE Orchestrator
    <3>1. Serve \/ \E g \in Gens : Pipeline(g) \/ Generator(g)
      BY <2>3 DEF Orchestrator, HandleMessage, SwitchUnknown, Quietly, Serve
    <3> QED
      BY <3>1, ServeFrame, PipelineFrame, GeneratorFrame DEF Others, envVars
  <2>4. CASE UNCHANGED allVars
    BY <2>4 DEF allVars, vars
  <2> QED
    BY <2>1, <2>2, <2>3, <2>4 DEF ChatNext
<1> QED
  BY <1>1, <1>2, PTL DEF ChatSpec

-----------------------------------------------------------------------------
(* What is on the wire: preserved.                                         *)

LEMMA SentInit == Init => SentInv
BY DEF Init, SentInv, IdsTaken, ReplyKind, WireKind, NoMsg, Msg

LEMMA IdsTakenNext == IInv /\ IdsTaken /\ [Next]_vars => IdsTaken'
<1> SUFFICES ASSUME IInv, IdsTaken, [Next]_vars PROVE IdsTaken'
  OBVIOUS
<1>0. /\ TypeOK /\ lastId \in Nat /\ reqId \in [Gens -> 0..MaxQueries]
      /\ pc \in [Gens -> PipelineSteps \cup {"none", "exit"}]
  BY DEF IInv, TypeOK, ServeTypeOK, JobTypeOK
<1>1. CASE QueryAdmit
  BY <1>0, <1>1 DEF QueryAdmit, ReceivesQuery, jobVars, IdsTaken
<1>2. CASE QueryInstall
  <2>1. /\ spc = "install" /\ spc' = "idle" /\ pc' = [pc EXCEPT ![currentGen] = "prompt"]
        /\ reqId' = [reqId EXCEPT ![currentGen] = currentReqID]
    BY <1>2 DEF QueryInstall
  <2> QED
    BY <1>0, <2>1 DEF IdsTaken
<1>3. CASE ~QueryAdmit /\ ~QueryInstall
  BY <1>0, <1>3, SameIds, StepOn DEF IdsTaken
<1> QED
  BY <1>1, <1>2, <1>3

\* The number of control messages only grows.
LEMMA ControlGrows ==
  ASSUME TypeOK, [Next]_vars
  PROVE  nCtl' = 0 => nCtl = 0
<1>0. nCtl \in Nat
  BY DEF TypeOK, ServeTypeOK
<1>1. CASE Serve
  BY <1>0, <1>1 DEF Serve, QueryBusy, QueryNotReady, QueryAdmit, QueryInstall, Cancel, SwitchRefused,
     OtherRequest, SwitchTo, SendReply, ReadFails, ReadDeadline, ReceivesQuery, ReceivesControl
<1>2. CASE ~Serve
  BY <1>2, PipelineFrame, GeneratorFrame, EnvironmentFrame DEF Next, Others, serveVars, vars
<1> QED
  BY <1>1, <1>2

LEMMA ReplyKindNext == TypeOK /\ ReplyKind /\ [Next]_vars => ReplyKind'
<1> SUFFICES ASSUME TypeOK, ReplyKind, [Next]_vars PROVE ReplyKind'
  OBVIOUS
<1> USE DEF ReplyKind, Answer, Msg
<1>1. CASE QueryBusy \/ QueryNotReady \/ SwitchRefused \/ OtherRequest \/ \E p \in Profiles : SwitchTo(p)
  BY <1>1 DEF QueryBusy, QueryNotReady, SwitchRefused, OtherRequest, SwitchTo
<1>2. CASE Cancel
  BY <1>2 DEF Cancel, ReceivesControl, TypeOK, ServeTypeOK
<1>3. CASE SendReply
  BY <1>3 DEF SendReply, NoMsg
<1>4. CASE reply' = reply
  BY <1>4, ControlGrows
<1>5. QueryAdmit \/ QueryInstall \/ ReadFails \/ ReadDeadline \/ ~Serve => reply' = reply
  BY PipelineFrame, GeneratorFrame, EnvironmentFrame
     DEF Next, Others, serveVars, vars, QueryAdmit, QueryInstall, ReadFails, ReadDeadline
<1> QED
  BY <1>1, <1>2, <1>3, <1>4, <1>5 DEF Serve

\* What the message is that a pipeline writes.
LEMMA PipelineSends ==
  ASSUME IInv, DeliveryInv, NEW g \in Gens, Pipeline(g), wire' # wire
  PROVE  /\ Live(g) /\ pc[g] # "release" /\ pc'[g] # "none" /\ conn = "open"
         /\ \E m \in Messages :
              /\ wire' = Append(wire, m)
              /\ m.by = "pipeline" /\ m.id = reqId[g]
              /\ m.type \in {"Token", "Sources", "Done", "Error"}
              /\ m.type \in Terminal => pc'[g] = "release"
              /\ m.type = "Done" => verdict'[g] = "answered"
              /\ m.type = "Token" => Consecutive(m.text)
<1>0. /\ TypeOK /\ reqId[g] \in Nat /\ buf[g] \in Seq(Nat) /\ gen[g].made \in 0..MaxTokens
      /\ pc \in [Gens -> PipelineSteps \cup {"none", "exit"}]
      /\ verdict \in [Gens -> {"none", "answered", "failed"}]
  <2>1. gen[g].made \in 0..MaxTokens
    BY DEF IInv, TypeOK, JobTypeOK
  <2> QED
    BY <2>1, JobIs DEF TypeOK, JobTypeOK
<1>1. CASE SendSources(g)
  <2>1. Msg("Sources", reqId[g], "pipeline") \in Messages
    BY <1>0, MsgType DEF MsgTypes
  <2> QED
    BY <1>0, <1>1, <2>1 DEF SendSources, Send, Goto, Msg, Live, PipelineSteps, Terminal
<1>2. CASE SendDone(g)
  <2>1. Msg("Done", reqId[g], "pipeline") \in Messages
    BY <1>0, MsgType DEF MsgTypes
  <2> QED
    BY <1>0, <1>2, <2>1 DEF SendDone, Send, Goto, Msg, Live, PipelineSteps
<1>3. CASE SendError(g)
  <2>1. Msg("Error", reqId[g], "pipeline") \in Messages
    BY <1>0, MsgType DEF MsgTypes
  <2> QED
    BY <1>0, <1>3, <2>1 DEF SendError, Send, Goto, Msg, Live, PipelineSteps
<1>4. CASE StreamTick(g) \/ StreamEnds(g)
  <2> DEFINE m == [Msg("Token", reqId[g], "pipeline") EXCEPT !.text = buf[g]]
  <2>1. Flush(g) /\ pc[g] = "stream" /\ pc'[g] \in {"stream", "await"}
    BY <1>0, <1>4 DEF StreamTick, StreamEnds, Goto
  <2>2. m \in Messages
    BY <1>0, TokenMsgType
  <2>3. m.by = "pipeline" /\ m.id = reqId[g] /\ m.type = "Token" /\ m.text = buf[g]
    BY DEF Msg
  <2>4. wire' = Append(wire, m) /\ conn = "open"
    BY <2>1 DEF Flush, Send
  <2>5. Consecutive(buf[g])
    <3>1. PICK n \in 0..gen[g].made : buf[g] = [k \in 1..Len(buf[g]) |-> n + k]
      BY <2>1, <2>4 DEF DeliveryInv, Carries
    <3>2. n \in 0..MaxTokens
      BY <1>0
    <3>3. \A k \in DOMAIN buf[g] : buf[g][k] = n + k
      BY <3>1
    <3> QED
      BY <3>2, <3>3 DEF Consecutive
  <2> HIDE DEF m
  <2> QED
    BY <2>1, <2>2, <2>3, <2>4, <2>5 DEF Live, PipelineSteps, Terminal
<1> QED
  BY <1>1, <1>2, <1>3, <1>4 DEF Pipeline, PipelineOwn, SearchReturns, ReadPrompt, ReadServers,
     SearchNext, SearchReply, Rerank, BuildFails, SpawnGenerator, StreamToken, StreamCtxDone,
     StreamClosed, AwaitGenerator, Release

\* Whatever the orchestrator does, the wire grows by one message at most.
LEMMA WireGrows ==
  ASSUME IInv, OrderInv, DeliveryInv, [Next]_vars
  PROVE  \/ wire' = wire
         \/ \E m \in Messages : wire' = Append(wire, m)
<1>1. CASE \A g \in Gens : ~Pipeline(g)
  BY <1>1, ServeWrites DEF IInv, TypeOK, ServeTypeOK
<1>2. ASSUME NEW g \in Gens, Pipeline(g), wire' # wire
      PROVE  \E m \in Messages : wire' = Append(wire, m)
  BY <1>2, PipelineSends
<1> QED
  BY <1>1, <1>2

\* A pipeline that has answered is at its end.
LEMMA AnsweredStays ==
  ASSUME IInv, [Next]_vars, NEW g \in Gens, pc[g] \in {"release", "exit"}
  PROVE  pc'[g] \in {"release", "exit"} /\ verdict'[g] = verdict[g]
<1>0. TypeOK /\ pc \in [Gens -> PipelineSteps \cup {"none", "exit"}]
  BY JobIs
<1>1. CASE QueryInstall
  BY <1>0, <1>1 DEF QueryInstall, IInv, SlotInv, Installing
<1>2. CASE Pipeline(g)
  <2>1. Release(g)
    BY <1>0, <1>2, PipelineStep DEF ReadPrompt, ReadServers, SendDone, SendError, Goto, Middle, PipelineSteps
  <2> QED
    BY <1>0, <2>1 DEF Release, Goto
<1>3. CASE Generator(g)
  BY <1>3, GeneratorFrame
<1>4. CASE ~QueryInstall /\ ~Pipeline(g) /\ ~Generator(g)
  BY <1>0, <1>4, StepOthers DEF JobOf
<1> QED
  BY <1>1, <1>2, <1>3, <1>4

\* What a request has sent stays its own.
LEMMA SentByStays ==
  ASSUME IInv, [Next]_vars, NEW m, NEW g \in Gens, SentBy(m, g)
  PROVE  /\ pc'[g] # "none" /\ m.id = reqId'[g]
         /\ m.type = "Done" => pc'[g] \in {"release", "exit"} /\ verdict'[g] = "answered"
<1>0. /\ TypeOK /\ reqId \in [Gens -> 0..MaxQueries]
      /\ pc \in [Gens -> PipelineSteps \cup {"none", "exit"}]
  BY DEF IInv, TypeOK, JobTypeOK
<1>1. pc'[g] # "none" /\ reqId'[g] = reqId[g]
  <2>1. CASE QueryInstall
    <3>1. pc[currentGen] = "none"
      BY <2>1 DEF QueryInstall, IInv, SlotInv, Installing
    <3> QED
      BY <1>0, <2>1, <3>1 DEF QueryInstall, SentBy
  <2>2. CASE ~QueryInstall
    BY <1>0, <2>2, StepOn DEF SentBy
  <2> QED
    BY <2>1, <2>2
<1> QED
  BY <1>0, <1>1, AnsweredStays DEF SentBy

LEMMA WireKindNext == IInv /\ OrderInv /\ DeliveryInv /\ SentInv /\ [Next]_vars => WireKind'
<1> SUFFICES ASSUME IInv, OrderInv, DeliveryInv, SentInv, [Next]_vars PROVE WireKind'
  OBVIOUS
<1>0. TypeOK /\ wire \in Seq(Messages) /\ reply \in Messages
  BY DEF IInv, TypeOK, ServeTypeOK
<1> DEFINE Sent(m, g) ==
      /\ pc'[g] # "none" /\ m.id = reqId'[g]
      /\ m.type = "Done" => pc'[g] \in {"release", "exit"} /\ verdict'[g] = "answered"
<1> DEFINE Kind(m) ==
      /\ m.by = "pipeline" => \E g \in Gens : Sent(m, g)
      /\ m.type \in {"Token", "Sources"} => m.by = "pipeline"
      /\ m.type = "Done" /\ nCtl' = 0 => m.by = "pipeline"
      /\ m.type = "Token" => Consecutive(m.text)
<1>1. \A i \in DOMAIN wire : Kind(wire[i])
  <2> SUFFICES ASSUME NEW i \in DOMAIN wire PROVE Kind(wire[i])
    OBVIOUS
  <2>1. ASSUME NEW g \in Gens, SentBy(wire[i], g) PROVE Sent(wire[i], g)
    BY <2>1, SentByStays DEF SentBy
  <2> QED
    BY <1>0, <2>1, ControlGrows DEF SentInv, WireKind
<1>2. ASSUME NEW m \in Messages, wire' = Append(wire, m), Kind(m) PROVE WireKind'
  <2>1. /\ DOMAIN wire' = DOMAIN wire \cup {Len(wire) + 1} /\ wire'[Len(wire) + 1] = m
        /\ \A i \in DOMAIN wire : wire'[i] = wire[i]
    BY <1>0, <1>2, AppendIs
  <2>2. \A i \in DOMAIN wire' : Kind(wire'[i])
    BY <1>1, <1>2, <2>1
  <2> QED
    BY <2>2 DEF WireKind, SentBy, Consecutive
<1>3. CASE wire' = wire
  BY <1>1, <1>3 DEF WireKind, SentBy, Consecutive
<1>4. CASE wire' # wire /\ \A g \in Gens : ~Pipeline(g)
  <2>1. SendReply /\ wire' = Append(wire, reply)
    BY <1>4, ServeWrites
  <2>2. nCtl' = nCtl
    BY <2>1 DEF SendReply
  <2>3. Kind(reply)
    BY <2>2 DEF OrderInv, ReplyIsOwn, SentInv, ReplyKind
  <2> QED
    BY <1>0, <1>2, <2>1, <2>3
<1>5. ASSUME NEW g \in Gens, Pipeline(g), wire' # wire PROVE WireKind'
  <2>1. PICK m \in Messages :
          /\ wire' = Append(wire, m)
          /\ m.by = "pipeline" /\ m.id = reqId[g]
          /\ m.type \in {"Token", "Sources", "Done", "Error"}
          /\ m.type \in Terminal => pc'[g] = "release"
          /\ m.type = "Done" => verdict'[g] = "answered"
          /\ m.type = "Token" => Consecutive(m.text)
    BY <1>5, PipelineSends
  <2>2. pc'[g] # "none" /\ reqId'[g] = reqId[g]
    <3>1. ~QueryInstall
      BY <1>5, PipelineFrame DEF QueryInstall, Others, serveVars
    <3> QED
      BY <1>0, <1>5, <3>1, PipelineSends, StepOn
  <2>3. Sent(m, g)
    BY <2>1, <2>2 DEF Terminal
  <2> QED
    BY <1>2, <2>1, <2>3
<1> QED
  BY <1>3, <1>4, <1>5

LEMMA SentInductive == Spec => [](IInv /\ OrderInv /\ DeliveryInv /\ SentInv)
<1>1. IInv /\ OrderInv /\ DeliveryInv /\ SentInv /\ [Next]_vars => SentInv'
  BY IdsTakenNext, ReplyKindNext, WireKindNext DEF SentInv, IInv
<1> QED
  BY <1>1, SentInit, DeliveryInductive, PTL DEF Spec

\* A generator that has returned makes no more tokens.
LEMMA MadeStays ==
  ASSUME IInv, DeliveryInv, [Next]_vars, NEW g \in Gens, gen[g].err # "none"
  PROVE  gen'[g].err # "none" /\ gen'[g].made = gen[g].made
<1>0. TypeOK /\ gen \in [Gens -> GenState] /\ GenAgrees(g)
  BY DEF IInv, TypeOK, JobTypeOK, GenState, DeliveryInv
<1>1. CASE QueryInstall
  BY <1>1 DEF QueryInstall
<1>2. CASE Pipeline(g)
  <2>1. CASE SpawnGenerator(g) \/ StreamToken(g)
    <3>1. \E to \in GenSteps : gen' = [gen EXCEPT ![g].pc = to]
      BY <2>1 DEF SpawnGenerator, StreamToken, GenSteps
    <3> QED
      BY <1>0, <3>1 DEF GenState
  <2>2. CASE StreamTick(g) \/ StreamEnds(g)
    BY <2>2 DEF StreamTick, StreamEnds
  <2>3. CASE ~SpawnGenerator(g) /\ ~StreamToken(g) /\ ~StreamTick(g) /\ ~StreamEnds(g)
    BY <1>2, <2>3, PipelineRest
  <2> QED
    BY <2>1, <2>2, <2>3
<1>3. CASE Generator(g)
  <2>1. gen[g].pc \in {"returned", "closed"}
    BY <1>0 DEF GenAgrees
  <2> QED
    BY <1>0, <1>3, <2>1, GeneratorStep
<1>4. CASE ~QueryInstall /\ ~Pipeline(g) /\ ~Generator(g)
  BY <1>0, <1>4, StepOthers DEF JobOf
<1> QED
  BY <1>1, <1>2, <1>3, <1>4

-----------------------------------------------------------------------------
(* Types of the front end.                                                 *)

Known == IInv /\ OrderInv /\ DeliveryInv /\ SentInv /\ Connected

\* The types of the wire and of a message on it.
LEMMA WireIs ==
  ASSUME IInv
  PROVE  /\ wire \in Seq(Messages) /\ Len(wire) \in Nat /\ DOMAIN wire = 1..Len(wire)
         /\ \A i \in 1..Len(wire) : wire[i].text \in Seq(Nat) /\ wire[i].id \in Nat
<1>1. wire \in Seq(Messages)
  BY DEF IInv, TypeOK
<1>2. \A m \in Messages : m.text \in Seq(Nat) /\ m.id \in Nat
  BY DEF Messages
<1> QED
  BY <1>1, <1>2

\* A token on the wire is one that the generator of its request has read.
LEMMA TokenIs ==
  ASSUME IInv, OrderInv, DeliveryInv, SentInv, NEW i \in DOMAIN wire, wire[i].type = "Token"
  PROVE  \E g \in Gens :
           /\ pc[g] # "none" /\ reqId[g] = wire[i].id
           /\ \E n \in 0..gen[g].made : Delivered(g, n)
           /\ \A k \in DOMAIN wire[i].text : wire[i].text[k] \in 1..gen[g].made
<1>1. PICK g \in Gens : pc[g] # "none" /\ reqId[g] = wire[i].id
  BY DEF SentInv, WireKind, SentBy
<1>2. PICK n \in 0..gen[g].made : Delivered(g, n)
  BY <1>1 DEF DeliveryInv, Carries
<1>3. \A k \in DOMAIN wire[i].text : wire[i].text[k] \in Got(g)
  BY <1>1 DEF Got, TokenMessages
<1>4. 1..n \subseteq 1..gen[g].made
  BY JobIs
<1> QED
  BY <1>1, <1>2, <1>3, <1>4 DEF Delivered

LEMMA ReadIs ==
  ASSUME IInv, OrderInv, DeliveryInv, SentInv, NEW i \in DOMAIN wire,
         wire[i].type \in {"Token", "Sources"}
  PROVE  /\ wire[i].id \in 1..MaxQueries
         /\ wire[i].type = "Token" =>
              \A k \in DOMAIN wire[i].text : wire[i].text[k] \in 1..MaxTokens
<1>0. reqId \in [Gens -> 0..MaxQueries] /\ \A g \in Gens : gen[g].made \in 0..MaxTokens
  <2>1. \A g \in Gens : gen[g].made \in 0..MaxTokens
    BY DEF IInv, TypeOK, JobTypeOK
  <2> QED
    BY <2>1 DEF IInv, TypeOK, JobTypeOK
<1>1. PICK g \in Gens : pc[g] # "none" /\ reqId[g] = wire[i].id
  BY DEF SentInv, WireKind, SentBy
<1>2. wire[i].id \in 1..MaxQueries
  BY <1>0, <1>1 DEF SentInv, IdsTaken
<1>3. ASSUME wire[i].type = "Token", NEW k \in DOMAIN wire[i].text
      PROVE  wire[i].text[k] \in 1..MaxTokens
  <2>1. PICK h \in Gens : wire[i].text[k] \in 1..gen[h].made
    BY <1>3, TokenIs
  <2>2. gen[h].made \in 0..MaxTokens
    BY <1>0
  <2> QED
    BY <2>1, <2>2
<1> QED
  BY <1>2, <1>3

Bubble == [text : Texts, mark : {"none", "interrupted", "error"}]

LEMMA ChatTypeInit == ChatInit => ChatTypeOK
<1> SUFFICES ASSUME ChatInit PROVE ChatTypeOK
  OBVIOUS
<1>1. <<>> \in Texts
  BY DEF Texts
<1>2. bubbles \in [1..MaxQueries -> Bubble]
  BY <1>1 DEF ChatInit, Bubble
<1>3. sources \in [of : 0..MaxQueries, at : 0..MaxQueries]
  BY DEF ChatInit, NoSources
<1>4. outbox \in Seq(Controls \cup {"Query"})
  BY DEF ChatInit
<1>5. seen \in 0..Len(wire)
  BY DEF ChatInit, Init
<1>6. streaming \in BOOLEAN /\ status \in {"ready", "busy"}
  BY DEF ChatInit
<1>7. streamingText \in Texts /\ m_reqId \in 0..MaxQueries /\ item \in 0..MaxQueries
  BY <1>1 DEF ChatInit
<1> QED
  BY <1>2, <1>3, <1>4, <1>5, <1>6, <1>7, Zenon DEF ChatTypeOK, Bubble

LEMMA UserType == ChatTypeOK /\ User => ChatTypeOK'
<1> SUFFICES ASSUME ChatTypeOK, User PROVE ChatTypeOK'
  OBVIOUS
<1>0. <<>> \in Texts /\ bubbles \in [1..MaxQueries -> Bubble]
  BY DEF ChatTypeOK, Texts, Bubble
<1>1. CASE StartSearch
  <2>1. m_reqId' \in 0..MaxQueries /\ item' \in 0..MaxQueries /\ status' \in {"ready", "busy"}
    BY <1>1 DEF StartSearch, NewBubble, SendQuery, ChatTypeOK
  <2>2. sources' \in [of : 0..MaxQueries, at : 0..MaxQueries]
    BY <1>1 DEF StartSearch, NoSources
  <2>3. outbox' \in Seq(Controls \cup {"Query"})
    BY <1>1 DEF StartSearch, SendQuery, SendMessage, ChatTypeOK
  <2>4. streaming' = FALSE /\ streamingText' \in Texts
    BY <1>0, <1>1 DEF StartSearch, SendQuery
  <2>5. UNCHANGED <<seen, wire, bubbles>>
    BY <1>1 DEF StartSearch, vars
  <2> QED
    BY <2>1, <2>2, <2>3, <2>4, <2>5 DEF ChatTypeOK
<1>2. CASE StopSearch
  <2>1. bubbles' \in [1..MaxQueries -> Bubble]
    <3>1. \A b \in Bubble : [b EXCEPT !.mark = "interrupted"] \in Bubble
      BY DEF Bubble
    <3>2. CASE item = 0
      BY <1>0, <1>2, <3>2 DEF StopSearch
    <3>3. CASE item # 0
      <4>1. item \in 1..MaxQueries
        BY <3>3 DEF ChatTypeOK
      <4>2. bubbles' = [bubbles EXCEPT ![item] = [bubbles[item] EXCEPT !.mark = "interrupted"]]
        BY <1>2, <3>3 DEF StopSearch
      <4> QED
        BY <1>0, <3>1, <4>1, <4>2
    <3> QED
      BY <3>2, <3>3
  <2>2. outbox' \in Seq(Controls \cup {"Query"})
    BY <1>2 DEF StopSearch, SendMessage, ChatTypeOK, Controls
  <2>3. streaming' = FALSE /\ streamingText' \in Texts /\ item' \in 0..MaxQueries
    BY <1>0, <1>2 DEF StopSearch
  <2> QED
    BY <1>2, <2>1, <2>2, <2>3 DEF StopSearch, ChatTypeOK, vars, Bubble
<1>3. CASE ChooseProfile
  <2>1. outbox' \in Seq(Controls \cup {"Query"})
    BY <1>3 DEF ChooseProfile, SendMessage, ChatTypeOK, Controls
  <2> QED
    BY <1>3, <2>1 DEF ChooseProfile, ChatTypeOK, vars
<1> QED
  BY <1>1, <1>2, <1>3 DEF User

\* What a token message adds to the text.
LEMMA OwnedType ==
  ASSUME IInv, OrderInv, DeliveryInv, SentInv, NEW i \in DOMAIN wire, wire[i].type = "Token"
  PROVE  Owned(wire[i]) \in Texts
<1>1. wire[i].text \in Seq(Nat) /\ wire[i].id \in 1..MaxQueries
  BY WireIs, ReadIs
<1>2. \A k \in DOMAIN wire[i].text : wire[i].text[k] \in 1..MaxTokens
  BY ReadIs
<1>3. PICK n \in Nat : DOMAIN wire[i].text = 1..n
  BY <1>1
<1>4. Owned(wire[i]) \in [1..n -> (1..MaxQueries) \X (1..MaxTokens)]
  BY <1>1, <1>2, <1>3 DEF Owned
<1> QED
  BY <1>3, <1>4 DEF Texts

LEMMA ReadType ==
  IInv /\ OrderInv /\ DeliveryInv /\ SentInv /\ ChatTypeOK /\ ReadMessage => ChatTypeOK'
<1> SUFFICES ASSUME IInv, OrderInv, DeliveryInv, SentInv, ChatTypeOK, ReadMessage PROVE ChatTypeOK'
  OBVIOUS
<1>0. <<>> \in Texts /\ bubbles \in [1..MaxQueries -> Bubble] /\ streamingText \in Texts
  BY DEF ChatTypeOK, Texts, Bubble
<1>1. /\ seen < Len(wire) /\ seen' = seen + 1 /\ UNCHANGED <<wire, m_reqId, outbox>>
      /\ seen + 1 \in DOMAIN wire /\ seen' \in 0..Len(wire')
  <2>1. seen < Len(wire) /\ seen' = seen + 1 /\ UNCHANGED <<wire, m_reqId, outbox>>
    BY DEF ReadMessage, ReadToken, ReadError, ReadBusy, ReadDone, ReadSources, ReadPong, Reads, vars
  <2> QED
    BY <2>1, WireIs DEF ChatTypeOK
<1>2. ASSUME NEW b \in Bubble, item = 0 \/ bubbles' = [bubbles EXCEPT ![item] = b],
             item = 0 => bubbles' = bubbles
      PROVE  bubbles' \in [1..MaxQueries -> Bubble]
  BY <1>0, <1>2 DEF ChatTypeOK
<1>3. CASE ReadToken
  <2>1. streamingText' \in Texts
    <3>1. Owned(wire[seen + 1]) \in Texts
      BY <1>1, <1>3, OwnedType DEF ReadToken, Reads, Received
    <3> QED
      BY <1>0, <1>3, <3>1 DEF ReadToken, Received, Texts
  <2>2. bubbles' \in [1..MaxQueries -> Bubble]
    <3>1. CASE item = 0
      BY <1>0, <1>3, <3>1 DEF ReadToken, ShowText
    <3>2. CASE item # 0
      <4>1. item \in 1..MaxQueries
        BY <3>2 DEF ChatTypeOK
      <4>2. [bubbles[item] EXCEPT !.text = streamingText'] \in Bubble
        BY <1>0, <2>1, <4>1 DEF Bubble
      <4>3. bubbles' = [bubbles EXCEPT ![item] = [bubbles[item] EXCEPT !.text = streamingText']]
        BY <1>3, <3>2 DEF ReadToken, ShowText
      <4> QED
        BY <1>0, <4>1, <4>2, <4>3
    <3> QED
      BY <3>1, <3>2
  <2> QED
    BY <1>1, <1>3, <2>1, <2>2 DEF ReadToken, ChatTypeOK, Bubble
<1>4. CASE ReadError \/ ReadBusy
  <2>1. [text |-> <<>>, mark |-> "error"] \in Bubble
    BY <1>0 DEF Bubble
  <2>2. bubbles' \in [1..MaxQueries -> Bubble]
    BY <1>2, <1>4, <2>1 DEF ReadError, ReadBusy, ShowError
  <2>3. streaming' \in BOOLEAN
    BY <1>4, Zenon DEF ReadError, ReadBusy, ChatTypeOK
  <2>4. status' \in {"ready", "busy"} /\ streamingText' \in Texts /\ item' = 0 /\ sources' = sources
    BY <1>0, <1>4 DEF ReadError, ReadBusy, ShowError, ChatTypeOK
  <2> QED
    BY <1>1, <2>2, <2>3, <2>4 DEF ChatTypeOK, Bubble
<1>5. CASE ReadDone \/ ReadPong
  <2>1. streaming' \in BOOLEAN
    BY <1>5, Zenon DEF ReadDone, ReadPong, ChatTypeOK
  <2>2. /\ status' \in {"ready", "busy"} /\ item' \in {0, item}
        /\ UNCHANGED <<streamingText, bubbles, sources>>
    BY <1>5 DEF ReadDone, ReadPong, ChatTypeOK
  <2> QED
    BY <1>1, <2>1, <2>2 DEF ChatTypeOK
<1>6. CASE ReadSources
  <2>1. Received.id \in 0..MaxQueries
    BY <1>1, <1>6, ReadIs DEF ReadSources, Reads, Received
  <2>2. sources' \in [of : 0..MaxQueries, at : 0..MaxQueries]
    BY <1>6, <2>1 DEF ReadSources, ChatTypeOK
  <2> QED
    BY <1>1, <1>6, <2>2 DEF ReadSources, ChatTypeOK
<1> QED
  BY <1>3, <1>4, <1>5, <1>6 DEF ReadMessage

\* The handlers of the orchestrator touch nothing of the front end but take
\* what it has written.
LEMMA ManagerFrame ==
  ASSUME Orchestrator
  PROVE  /\ UNCHANGED <<status, streaming, streamingText, m_reqId, seen, item, bubbles, sources>>
         /\ outbox' = outbox \/ (outbox # <<>> /\ outbox' = Tail(outbox))
BY DEF Orchestrator, HandleMessage, Takes, Quietly, chatVars

LEMMA ChatTypeNext ==
  IInv /\ OrderInv /\ DeliveryInv /\ SentInv /\ ChatTypeOK /\ [ChatNext]_allVars => ChatTypeOK'
<1> SUFFICES ASSUME IInv, OrderInv, DeliveryInv, SentInv, ChatTypeOK, [ChatNext]_allVars
             PROVE  ChatTypeOK'
  OBVIOUS
<1>1. CASE Orchestrator
  <2>1. seen' \in 0..Len(wire')
    <3>1. Len(wire) \in Nat /\ (Len(wire') = Len(wire) \/ Len(wire') = Len(wire) + 1)
      BY WireIs, WireGrows, StepsOfManager
    <3> QED
      BY <1>1, <3>1, ManagerFrame DEF ChatTypeOK
  <2>2. outbox' \in Seq(Controls \cup {"Query"})
    <3> DEFINE S == Controls \cup {"Query"}
    <3>1. outbox \in Seq(S) /\ (outbox' = outbox \/ (outbox # <<>> /\ outbox' = Tail(outbox)))
      BY <1>1, ManagerFrame DEF ChatTypeOK
    <3> HIDE DEF S
    <3>2. outbox' \in Seq(S)
      BY <3>1
    <3> QED
      BY <3>2 DEF S
  <2> QED
    BY <1>1, <2>1, <2>2, ManagerFrame DEF ChatTypeOK
<1>2. CASE UNCHANGED allVars
  BY <1>2 DEF allVars, chatVars, vars, ChatTypeOK
<1> QED
  BY <1>1, <1>2, UserType, ReadType DEF ChatNext

LEMMA ChatTypeInductive == ChatSpec => [](Known /\ ChatTypeOK)
<1>1. ChatSpec => [](IInv /\ OrderInv /\ DeliveryInv /\ SentInv)
  BY ImplementsManager, SentInductive, PTL
<1> QED
  BY <1>1, StaysConnected, ChatTypeInit, ChatTypeNext, PTL DEF ChatSpec, Known

\* Every variable of the front end keeps its type: in particular every token it
\* shows is one that llama-server sent for a request of this client
\* (handleMessage, and the handlers of the chat page).
THEOREM ChatTypeCorrect == ChatSpec => []ChatTypeOK
BY ChatTypeInductive, PTL

-----------------------------------------------------------------------------
(* The steps of a calm chat.                                               *)

\* The orchestrator takes a query.
Turn == Takes("Query") /\ (QueryBusy \/ QueryNotReady \/ QueryAdmit)

Manager ==
  \/ QueryInstall \/ SendReply \/ ReadDeadline
  \/ \E g \in Gens : Pipeline(g) \/ Generator(g)
  \/ UNCHANGED vars

\* Calm is never regained, and while it lasts nobody stops or switches.
LEMMA CalmStep ==
  ASSUME TypeOK, ChatTypeOK, [ChatNext]_allVars, Calm'
  PROVE  /\ Calm
         /\ StartSearch \/ ReadMessage \/ Turn \/ (Manager /\ UNCHANGED chatVars)
<1>0. outbox \in Seq({"Cancel", "Switch", "Query"}) /\ nCtl \in Nat
  BY DEF TypeOK, ServeTypeOK, ChatTypeOK, Controls
<1>s. ASSUME NEW type \in {"Cancel", "Switch", "Query"}, outbox' = Append(outbox, type)
      PROVE  /\ type = "Query"
             /\ \A i \in DOMAIN outbox : outbox[i] = "Query"
  <2>1. /\ Len(outbox) + 1 \in DOMAIN outbox' /\ outbox'[Len(outbox) + 1] = type
        /\ \A i \in DOMAIN outbox : i \in DOMAIN outbox' /\ outbox'[i] = outbox[i]
    BY <1>0, <1>s
  <2> QED
    BY <2>1 DEF Calm
<1>t. ASSUME NEW type \in {"Cancel", "Switch", "Query"}, Takes(type)
      PROVE  type = "Query" => \A i \in DOMAIN outbox : outbox[i] = "Query"
  <2>1. /\ outbox # <<>> /\ outbox[1] = type
        /\ \A i \in DOMAIN outbox \ {1} : i - 1 \in DOMAIN outbox' /\ outbox'[i - 1] = outbox[i]
    BY <1>0, <1>t DEF Takes
  <2> QED
    BY <2>1 DEF Calm
<1>1. CASE User
  <2>1. CASE StartSearch
    BY <1>s, <2>1 DEF StartSearch, SendQuery, SendMessage, Calm, vars, serveVars
  <2>2. CASE StopSearch
    <3>1. outbox' = Append(outbox, "Cancel")
      BY <2>2 DEF StopSearch, SendMessage
    <3> QED
      BY <1>s, <3>1
  <2>3. CASE ChooseProfile
    <3>1. outbox' = Append(outbox, "Switch")
      BY <2>3 DEF ChooseProfile, SendMessage
    <3> QED
      BY <1>s, <3>1
  <2> QED
    BY <1>1, <2>1, <2>2, <2>3 DEF User
<1>2. CASE ReadMessage
  BY <1>2 DEF ReadMessage, ReadToken, ReadError, ReadBusy, ReadDone, ReadSources, ReadPong, Reads,
     Calm, vars, serveVars
<1>3. CASE Orchestrator
  <2>1. CASE Takes("Query") /\ (QueryBusy \/ QueryNotReady \/ QueryAdmit)
    <3>1. nCtl' = nCtl
      BY <2>1 DEF QueryBusy, QueryNotReady, QueryAdmit, ReceivesQuery
    <3> QED
      BY <1>t, <2>1, <3>1 DEF Calm, Turn
  <2>2. ~(Cancel \/ SwitchRefused \/ SwitchUnknown \/ \E p \in Profiles : SwitchTo(p))
    BY <1>0 DEF Cancel, SwitchRefused, SwitchUnknown, OtherRequest, SwitchTo, ReceivesControl, Calm
  <2>3. CASE UNCHANGED chatVars /\ Manager
    <3>1. nCtl' = nCtl
      BY <2>3, PipelineFrame, GeneratorFrame
         DEF Manager, Others, serveVars, vars, QueryInstall, SendReply, ReadDeadline
    <3> QED
      BY <2>3, <3>1 DEF Calm, chatVars
  <2> QED
    BY <1>3, <2>1, <2>2, <2>3 DEF Orchestrator, HandleMessage, Quietly, Manager
<1>4. CASE UNCHANGED allVars
  BY <1>4 DEF allVars, chatVars, vars, serveVars, Calm, Manager
<1> QED
  BY <1>1, <1>2, <1>3, <1>4 DEF ChatNext

\* What a step of the front end reads.
LEMMA ReadStep ==
  ASSUME IInv, ChatTypeOK, ReadMessage
  PROVE  /\ seen + 1 \in DOMAIN wire /\ seen \in Nat /\ seen < Len(wire) /\ Len(wire) \in Nat
         /\ seen' = seen + 1 /\ UNCHANGED <<vars, m_reqId, outbox>>
         /\ ReadToken => wire[seen + 1].type = "Token"
         /\ ReadError => wire[seen + 1].type = "Error"
         /\ ReadBusy => wire[seen + 1].type = "Busy"
         /\ ReadDone => wire[seen + 1].type = "Done"
         /\ ReadSources => wire[seen + 1].type = "Sources"
         /\ ReadPong => wire[seen + 1].type = "Pong"
<1>1. seen < Len(wire) /\ seen' = seen + 1 /\ UNCHANGED <<vars, m_reqId, outbox>>
  BY DEF ReadMessage, ReadToken, ReadError, ReadBusy, ReadDone, ReadSources, ReadPong, Reads
<1>2. seen \in Nat /\ Len(wire) \in Nat /\ seen + 1 \in DOMAIN wire
  BY <1>1, WireIs DEF ChatTypeOK
<1> QED
  BY <1>1, <1>2 DEF ReadMessage, ReadToken, ReadError, ReadBusy, ReadDone, ReadSources, ReadPong,
     Reads, Received

-----------------------------------------------------------------------------
(* The protocol is preserved.                                              *)

LEMMA ProtocolStarts ==
  ASSUME IInv, ChatTypeOK, Protocol, StartSearch
  PROVE  Protocol'
<1>1. /\ AllRead /\ Quiet /\ lastId = m_reqId /\ m_reqId \in Nat /\ seen = Len(wire)
      /\ Len(wire) \in Nat
  <2>1. lastId \in Nat /\ m_reqId \in Nat /\ Len(wire) \in Nat
    BY WireIs DEF IInv, TypeOK, ServeTypeOK, ChatTypeOK
  <2>2. AllRead /\ Quiet /\ lastId + Len(outbox) = m_reqId
    BY DEF StartSearch, Protocol
  <2>3. Len(outbox) = 0
    BY <2>2 DEF Quiet
  <2> QED
    BY <2>1, <2>2, <2>3 DEF AllRead
<1>2. /\ UNCHANGED vars /\ seen' = seen /\ status' = "busy"
      /\ m_reqId' = m_reqId + 1 /\ item' = m_reqId + 1 /\ outbox' = <<"Query">>
  BY <1>1 DEF StartSearch, NewBubble, SendQuery, SendMessage, Quiet
<1>3. UNCHANGED <<wire, pc, spc, lastId, reqId>>
  BY <1>2 DEF vars, serveVars, jobVars
<1>4. Len(outbox') = 1 /\ outbox' # <<>>
  BY <1>2
<1>5. Waiting' /\ Filling'
  BY <1>1, <1>2, <1>3, <1>4 DEF Waiting, Filling, AllRead, Listening, Resting, Quiet, Live
<1>6. spc' \notin {"reply", "install"} /\ \A g \in Gens : ~(Live(g)' /\ pc'[g] # "release")
  BY <1>1, <1>3 DEF Quiet, Listening, Resting, Live
<1>7. (seen' + 1)..Len(wire') = {}
  BY <1>1, <1>2, <1>3
<1> QED
  BY <1>1, <1>2, <1>3, <1>4, <1>5, <1>6, <1>7 DEF Protocol

LEMMA ProtocolReads ==
  ASSUME IInv, ChatTypeOK, Protocol, ReadMessage
  PROVE  Protocol'
<1>1. /\ seen \in Nat /\ seen < Len(wire) /\ Len(wire) \in Nat /\ seen' = seen + 1
      /\ UNCHANGED <<wire, pc, spc, lastId, reqId, reply, currentReqID, m_reqId, outbox>>
  BY ReadStep DEF vars, serveVars, jobVars, slotVars
<1>2. ~AllRead /\ status # "ready" /\ outbox = <<>> /\ Listening /\ Filling
  <2>1. seen + 1 \in (seen + 1)..Len(wire)
    BY <1>1
  <2>2. ~AllRead
    BY <1>1 DEF AllRead
  <2>3. spc \in {"idle", "install", "reply", "ended"}
    BY DEF IInv, TypeOK, ServeTypeOK
  <2> QED
    BY <2>1, <2>2, <2>3 DEF Protocol, Waiting, Refusing, Starting, Listening
<1>3. \A i \in (seen' + 1)..Len(wire') : i \in (seen + 1)..Len(wire)
  BY <1>1
<1>4. spc' \notin {"reply", "install"} /\ outbox' = <<>>
  BY <1>1, <1>2 DEF Listening
<1>5. CASE ReadToken \/ ReadSources \/ ReadPong
  <2>1. UNCHANGED <<status, item>>
    BY <1>5 DEF ReadToken, ReadSources, ReadPong
  <2> QED
    BY <1>1, <1>2, <1>3, <1>4, <2>1 DEF Protocol, Working, Filling, Listening, Quiet, Resting, Live
<1>6. CASE ReadError \/ ReadBusy \/ ReadDone
  <2>1. wire[seen + 1].type \in Ends
    BY <1>6, ReadStep DEF Ends
  <2>2. seen + 1 = Len(wire) /\ Quiet
    BY <1>1, <2>1 DEF Protocol
  <2>3. item' = 0
    BY <1>6 DEF ReadError, ReadBusy, ReadDone, ShowError
  <2>4. AllRead' /\ Quiet' /\ \A g \in Gens : ~(Live(g)' /\ pc'[g] # "release")
    BY <1>1, <2>2 DEF AllRead, Quiet, Listening, Resting, Live
  <2>5. (seen' + 1)..Len(wire') = {}
    BY <1>1, <2>2
  <2>6. lastId' + Len(outbox') = m_reqId'
    BY <1>1 DEF Protocol
  <2> QED
    BY <1>4, <2>3, <2>4, <2>5, <2>6 DEF Protocol
<1> QED
  BY <1>5, <1>6 DEF ReadMessage

LEMMA ProtocolTurns ==
  ASSUME IInv, ChatTypeOK, Protocol, Turn
  PROVE  Protocol'
<1>1. /\ Waiting /\ Filling /\ outbox' = <<>> /\ lastId' = lastId + 1
      /\ UNCHANGED <<status, m_reqId, seen, item, wire, pc, reqId>>
  <2>1. outbox # <<>> /\ outbox' = Tail(outbox) /\ UNCHANGED <<status, m_reqId, seen, item>>
    BY DEF Turn, Takes
  <2>2. Waiting /\ Filling
    BY <2>1 DEF Protocol
  <2>3. outbox' = <<>>
    BY <2>1, <2>2 DEF Waiting, ChatTypeOK
  <2>4. lastId' = lastId + 1 /\ UNCHANGED <<wire, pc, reqId>>
    BY DEF Turn, QueryBusy, QueryNotReady, QueryAdmit, ReceivesQuery, jobVars
  <2> QED
    BY <2>1, <2>2, <2>3, <2>4
<1>2. /\ lastId' = m_reqId /\ Len(outbox') = 0 /\ status # "ready" /\ lastId \in Nat
      /\ Len(wire) \in Nat /\ seen = Len(wire) /\ m_reqId \in Nat
  <2>1. lastId \in Nat /\ m_reqId \in Nat /\ Len(wire) \in Nat
    BY WireIs DEF IInv, TypeOK, ServeTypeOK, ChatTypeOK
  <2>2. Len(outbox) = 1 /\ seen = Len(wire)
    BY <1>1 DEF Waiting, AllRead
  <2>3. lastId + Len(outbox) = m_reqId
    BY DEF Protocol
  <2>4. outbox # <<>>
    BY <2>2
  <2>5. status # "ready"
    BY <2>4 DEF Protocol, Quiet
  <2>6. Len(outbox') = 0
    BY <1>1
  <2> QED
    BY <1>1, <2>1, <2>2, <2>3, <2>5, <2>6
<1>3. \A g \in Gens : ~(Live(g)' /\ pc'[g] # "release")
  BY <1>1 DEF Waiting, Resting, Live
<1>4. (seen' + 1)..Len(wire') = {}
  BY <1>1, <1>2
<1>5. CASE QueryBusy \/ QueryNotReady
  <2>1. spc' = "reply" /\ reply'.id = lastId' /\ reply'.type \in {"Busy", "Error"}
    BY <1>5 DEF QueryBusy, QueryNotReady, Answer, Msg
  <2>2. Refusing' /\ Filling'
    BY <1>1, <1>2, <2>1 DEF Refusing, Filling, Waiting, AllRead, Resting, Live
  <2> QED
    BY <1>1, <1>2, <1>3, <1>4, <2>1, <2>2 DEF Protocol
<1>6. CASE QueryAdmit
  <2>1. spc' = "install" /\ currentReqID' = lastId'
    BY <1>6 DEF QueryAdmit
  <2>2. Starting' /\ Filling'
    BY <1>1, <1>2, <2>1 DEF Starting, Filling, Waiting, AllRead
  <2> QED
    BY <1>1, <1>2, <1>3, <1>4, <2>1, <2>2 DEF Protocol
<1> QED
  BY <1>5, <1>6 DEF Turn

LEMMA ProtocolInstalls ==
  ASSUME IInv, ChatTypeOK, Protocol, QueryInstall, UNCHANGED chatVars
  PROVE  Protocol'
<1>1. /\ spc = "install" /\ spc' = "idle" /\ pc' = [pc EXCEPT ![currentGen] = "prompt"]
      /\ reqId' = [reqId EXCEPT ![currentGen] = currentReqID]
      /\ UNCHANGED <<lastId, wire, status, m_reqId, seen, item, outbox>>
  BY DEF QueryInstall, chatVars
<1>2. /\ currentGen \in Gens /\ \A g \in Gens : ~Live(g)
      /\ pc \in [Gens -> PipelineSteps \cup {"none", "exit"}] /\ reqId \in [Gens -> 0..MaxQueries]
  BY <1>1 DEF IInv, SlotInv, Ownership, Installing, TypeOK, JobTypeOK
<1>3. /\ Starting /\ Filling /\ outbox = <<>> /\ seen = Len(wire) /\ currentReqID = m_reqId
      /\ Len(wire) \in Nat
  BY <1>1, WireIs DEF Protocol, Starting, AllRead
<1>4. status # "ready"
  BY <1>1 DEF Protocol, Quiet, Listening
<1>5. \A g \in Gens : Live(g)' => Working(g)'
  <2> SUFFICES ASSUME NEW g \in Gens, Live(g)' PROVE Working(g)'
    OBVIOUS
  <2>1. g = currentGen
    BY <1>1, <1>2 DEF Live
  <2>2. reqId'[g] = m_reqId
    BY <1>1, <1>2, <1>3, <2>1
  <2> QED
    BY <1>1, <1>3, <2>2 DEF Working, Listening
<1>6. (seen' + 1)..Len(wire') = {}
  BY <1>1, <1>3
<1>7. Filling'
  BY <1>1, <1>3 DEF Filling
<1> QED
  BY <1>1, <1>3, <1>4, <1>5, <1>6, <1>7 DEF Protocol

LEMMA ProtocolReplies ==
  ASSUME IInv, ChatTypeOK, Connected, Protocol, SendReply, UNCHANGED chatVars
  PROVE  Protocol'
<1>1. /\ spc = "reply" /\ spc' = "idle" /\ wire' = Append(wire, reply)
      /\ UNCHANGED <<lastId, pc, status, m_reqId, seen, item, outbox>>
  BY DEF SendReply, Send, Connected, jobVars, chatVars
<1>2. reply \in Messages /\ wire \in Seq(Messages) /\ Len(wire) \in Nat
  BY WireIs DEF IInv, TypeOK, ServeTypeOK
<1>3. /\ Refusing /\ Filling /\ outbox = <<>> /\ seen = Len(wire) /\ Resting
      /\ reply.id = m_reqId
  BY <1>1 DEF Protocol, Refusing, AllRead
<1>4. status # "ready"
  BY <1>1 DEF Protocol, Quiet, Listening
<1>5. Quiet'
  BY <1>1, <1>3 DEF Quiet, Listening, Resting, Live
<1>6. \A g \in Gens : ~(Live(g)' /\ pc'[g] # "release")
  BY <1>1, <1>3 DEF Resting, Live
<1>7. Filling'
  BY <1>1, <1>3 DEF Filling
<1>8. \A i \in (seen' + 1)..Len(wire') : i = Len(wire') /\ wire'[i].id = m_reqId'
  BY <1>1, <1>2, <1>3
<1>9. lastId' + Len(outbox') = m_reqId' /\ item' \in {0, m_reqId'}
  BY <1>1 DEF Protocol
<1> QED
  BY <1>1, <1>3, <1>4, <1>5, <1>6, <1>7, <1>8, <1>9 DEF Protocol

\* Steps that the protocol does not see.
LEMMA ProtocolRests ==
  ASSUME Protocol, UNCHANGED <<pc, wire, reqId, lastId, currentReqID, reply>>, UNCHANGED chatVars,
         spc' = spc \/ (spc = "idle" /\ spc' = "ended")
  PROVE  Protocol'
<1>1. UNCHANGED <<status, m_reqId, seen, item, outbox>>
  BY DEF chatVars
<1> QED
  BY <1>1 DEF Protocol, AllRead, Quiet, Listening, Resting, Waiting, Refusing, Starting, Working,
     Filling, Live

\* A pipeline that makes a step runs, and at its release it does nothing else.
LEMMA PipelineIs ==
  ASSUME IInv, NEW g \in Gens, Pipeline(g)
  PROVE  /\ Live(g) /\ (pc[g] = "release" => Release(g))
         /\ \A h \in Gens : Live(h) => h = g
<1>1. Live(g) /\ (pc[g] = "release" => Release(g))
  BY JobIs, PipelineStep DEF ReadPrompt, ReadServers, SendDone, SendError, Release, Goto, Middle,
     PipelineSteps, Live
<1> QED
  BY <1>1 DEF IInv, SlotInv, Ownership

LEMMA ProtocolPipes ==
  ASSUME Known, ChatTypeOK, Protocol, NEW g \in Gens, Pipeline(g), [Next]_vars, UNCHANGED chatVars
  PROVE  Protocol'
<1>0. /\ IInv /\ DeliveryInv /\ TypeOK /\ wire \in Seq(Messages) /\ Len(wire) \in Nat
      /\ pc \in [Gens -> PipelineSteps \cup {"none", "exit"}] /\ seen \in Nat
  BY JobIs, WireIs DEF Known, ChatTypeOK
<1>1. UNCHANGED <<status, m_reqId, seen, item, outbox, spc, reply, lastId>>
  BY PipelineFrame DEF Others, serveVars, chatVars
<1>2. Live(g) /\ \A h \in Gens : Live(h)' => h = g
  <2>1. ~QueryInstall
    BY <1>1 DEF QueryInstall
  <2> QED
    BY <1>0, <2>1, PipelineIs, StepOn
<1>3. reqId' = reqId /\ currentReqID' = currentReqID
  BY PipelineFrame DEF Pipeline, PipelineOwn, SearchReturns, ReadPrompt, ReadServers, SearchNext,
     SearchReply, Rerank, BuildFails, SpawnGenerator, StreamToken, StreamTick, StreamEnds,
     StreamCtxDone, StreamClosed, AwaitGenerator, SendSources, SendDone, SendError, Release, Goto,
     slotVars
<1>4. CASE pc[g] = "release"
  <2>1. pc'[g] = "exit" /\ wire' = wire
    BY <1>0, <1>4, PipelineIs DEF Release, Goto
  <2>2. \A h \in Gens : ~Live(h)'
    BY <1>2, <2>1 DEF Live, PipelineSteps
  <2>3. Resting'
    BY <2>2 DEF Resting, Live
  <2> QED
    BY <1>1, <1>3, <2>1, <2>2, <2>3
       DEF Protocol, AllRead, Quiet, Listening, Waiting, Refusing, Starting, Filling
<1>5. CASE pc[g] # "release"
  <2>1. Working(g) /\ Filling /\ ~Resting
    BY <1>2, <1>5 DEF Protocol, Resting
  <2>2. outbox = <<>> /\ spc \in {"idle", "ended"} /\ reqId[g] = m_reqId /\ status # "ready"
    BY <2>1 DEF Working, Listening, Protocol, Quiet
  <2>3. Filling' /\ Listening' /\ \A h \in Gens : Live(h)' => Working(h)'
    BY <1>1, <1>2, <1>3, <2>1, <2>2 DEF Filling, Listening, Working
  <2>4. \A i \in (seen + 1)..Len(wire) : wire[i].id = m_reqId /\ wire[i].type \notin Ends
    BY <2>1 DEF Protocol, Quiet
  <2>5. lastId' + Len(outbox') = m_reqId' /\ item' \in {0, m_reqId'}
    BY <1>1 DEF Protocol
  <2>6. ASSUME NEW i \in (seen' + 1)..Len(wire')
        PROVE  /\ wire'[i].id = m_reqId'
               /\ wire'[i].type \in Ends => i = Len(wire') /\ Quiet'
    <3>1. CASE wire' = wire
      BY <1>1, <2>4, <2>6, <3>1
    <3>2. CASE wire' # wire
      <4>1. PICK m \in Messages :
              /\ wire' = Append(wire, m) /\ m.id = reqId[g]
              /\ m.type \in {"Token", "Sources", "Done", "Error"}
              /\ m.type \in Terminal => pc'[g] = "release"
        BY <1>0, <3>2, PipelineSends
      <4>2. /\ i \in (seen + 1)..Len(wire) => wire'[i] = wire[i]
            /\ i \in (seen + 1)..Len(wire) \/ (i = Len(wire') /\ wire'[i] = m)
        BY <1>0, <1>1, <2>6, <4>1
      <4>3. m.type \in Ends => Quiet'
        BY <1>1, <1>2, <2>2, <2>3, <4>1 DEF Ends, Terminal, Quiet, Resting, Live
      <4> QED
        BY <1>1, <2>2, <2>4, <4>1, <4>2, <4>3
    <3> QED
      BY <3>1, <3>2
  <2> QED
    BY <1>1, <2>2, <2>3, <2>5, <2>6 DEF Protocol
<1> QED
  BY <1>4, <1>5

LEMMA ProtocolNext ==
  ASSUME Known, ChatTypeOK, Protocol, [ChatNext]_allVars, Calm'
  PROVE  Protocol'
<1>0. IInv /\ TypeOK /\ Connected /\ [Next]_vars
  BY StepsOfManager DEF Known, IInv
<1>1. CASE UNCHANGED chatVars /\ Manager
  <2>1. CASE ReadDeadline \/ UNCHANGED vars
    BY <1>1, <2>1, ProtocolRests
       DEF ReadDeadline, CanReceive, vars, serveVars, slotVars, jobVars
  <2>2. ASSUME NEW g \in Gens, Generator(g) PROVE Protocol'
    BY <1>1, <2>2, ProtocolRests, GeneratorFrame DEF Others, serveVars, slotVars
  <2> QED
    BY <1>0, <1>1, <2>1, <2>2, ProtocolInstalls, ProtocolReplies, ProtocolPipes DEF Manager
<1> QED
  BY <1>0, <1>1, CalmStep, ProtocolStarts, ProtocolReads, ProtocolTurns

-----------------------------------------------------------------------------
(* What the front end has read.                                            *)

\* The next message of a request has the tokens that come next.
LEMMA NextTokens ==
  ASSUME IInv, OrderInv, DeliveryInv, SentInv, NEW j \in DOMAIN wire, wire[j].type = "Token",
         seen \in Nat, j = seen + 1, NEW s \in Nat, Heard(wire[j].id) = 1..s
  PROVE  \A k \in DOMAIN wire[j].text : wire[j].text[k] = s + k
<1>1. PICK g \in Gens : reqId[g] = wire[j].id /\ \E n \in 0..gen[g].made : Delivered(g, n)
  BY TokenIs
<1>2. PICK n \in Nat : Got(g) = 1..n /\ Ascending(g)
  <2>1. gen[g].made \in Nat
    BY JobIs
  <2>2. PICK n \in 0..gen[g].made : Delivered(g, n)
    BY <1>1
  <2>3. n \in Nat
    BY <2>1
  <2> QED
    BY <2>2, <2>3 DEF Delivered
<1>3. PICK a \in Nat : \A k \in DOMAIN wire[j].text : wire[j].text[k] = a + k
  BY DEF SentInv, WireKind, Consecutive
<1>4. PICK l \in Nat : DOMAIN wire[j].text = 1..l
  <2>1. wire[j].text \in Seq(Nat)
    BY WireIs
  <2> QED
    BY <2>1
<1>5. j \in TokenMessages(g) /\ DOMAIN wire \subseteq Nat
  BY <1>1, WireIs DEF TokenMessages
<1>6. CASE l = 0
  BY <1>4, <1>6
<1>7. CASE l > 0
  <2>1. 1 \in DOMAIN wire[j].text /\ wire[j].text[1] = a + 1
    BY <1>3, <1>4, <1>7
  <2>2. a + 1 \in 1..n
    <3>1. wire[j].text[1] \in {wire[j].text[k] : k \in DOMAIN wire[j].text}
      BY <2>1
    <3>2. wire[j].text[1] \in Got(g)
      BY <1>5, <3>1 DEF Got
    <3> QED
      BY <1>2, <2>1, <3>2
  <2>3. ~(a + 1 <= s)
    <3> SUFFICES ASSUME a + 1 <= s PROVE FALSE
      OBVIOUS
    <3>1. a + 1 \in Heard(wire[j].id)
      OBVIOUS
    <3>2. PICK i \in 1..seen : /\ wire[i].type = "Token" /\ wire[i].id = wire[j].id
                               /\ \E k \in DOMAIN wire[i].text : wire[i].text[k] = a + 1
      BY <3>1 DEF Heard
    <3>3. i \in TokenMessages(g) /\ i < j
      BY <1>1, <3>2, WireIs DEF TokenMessages
    <3>4. \A k \in DOMAIN wire[i].text : wire[i].text[k] < a + 1
      BY <1>2, <1>5, <2>1, <3>3 DEF Ascending
    <3> QED
      BY <3>2, <3>4
  <2>4. ~(a > s)
    <3> SUFFICES ASSUME a > s PROVE FALSE
      OBVIOUS
    <3>1. s + 1 \in Got(g)
      BY <1>2, <2>2
    <3>2. PICK i \in TokenMessages(g) : \E k \in DOMAIN wire[i].text : wire[i].text[k] = s + 1
      BY <3>1 DEF Got
    <3>3. i \in DOMAIN wire /\ i \in Nat /\ wire[i].type = "Token" /\ wire[i].id = wire[j].id
      BY <1>1, <1>5, <3>2 DEF TokenMessages
    <3>4. CASE i < j
      <4>1. i \in 1..seen
        BY <3>3, <3>4, WireIs
      <4>2. s + 1 \in Heard(wire[j].id)
        BY <3>2, <3>3, <4>1 DEF Heard
      <4> QED
        BY <4>2
    <3>5. CASE i = j
      BY <1>3, <1>4, <3>2, <3>5
    <3>6. CASE i > j
      <4>1. \A k \in DOMAIN wire[i].text : a + 1 < wire[i].text[k]
        BY <1>2, <1>5, <2>1, <3>2, <3>6 DEF Ascending
      <4> QED
        BY <3>2, <4>1
    <3> QED
      BY <3>3, <3>4, <3>5, <3>6
  <2>5. a = s
    BY <2>3, <2>4
  <2> QED
    BY <1>3, <2>5
<1> QED
  BY <1>6, <1>7

\* A message that is read, and the tokens read before.
LEMMA HeardRead ==
  ASSUME seen \in Nat, seen' = seen + 1, wire' = wire, NEW q
  PROVE  /\ wire[seen + 1].type = "Token" /\ wire[seen + 1].id = q =>
              Heard(q)' = Heard(q) \cup {wire[seen + 1].text[k] : k \in DOMAIN wire[seen + 1].text}
         /\ ~(wire[seen + 1].type = "Token" /\ wire[seen + 1].id = q) => Heard(q)' = Heard(q)
<1> DEFINE Tokens(i) == {wire[i].text[k] : k \in DOMAIN wire[i].text}
           Of(n) == {j \in 1..n : wire[j].type = "Token" /\ wire[j].id = q}
<1>1. 1..(seen + 1) = 1..seen \cup {seen + 1}
  OBVIOUS
<1>2. Heard(q) = UNION {Tokens(i) : i \in Of(seen)} /\ Heard(q)' = UNION {Tokens(i) : i \in Of(seen + 1)}
  BY DEF Heard
<1>3. CASE wire[seen + 1].type = "Token" /\ wire[seen + 1].id = q
  <2>1. Of(seen + 1) = Of(seen) \cup {seen + 1}
    BY <1>1, <1>3
  <2>2. Heard(q)' = Heard(q) \cup Tokens(seen + 1)
    BY <1>2, <2>1
  <2> QED
    BY <1>3, <2>2
<1>4. CASE ~(wire[seen + 1].type = "Token" /\ wire[seen + 1].id = q)
  <2>1. Of(seen + 1) = Of(seen)
    BY <1>1, <1>4
  <2> QED
    BY <1>2, <1>4, <2>1
<1> QED
  BY <1>3, <1>4

\* Messages that are written later change nothing of what has been read.
LEMMA HeardSame ==
  ASSUME wire \in Seq(Messages), seen \in 0..Len(wire), seen' = seen,
         wire' = wire \/ \E m \in Messages : wire' = Append(wire, m), NEW q
  PROVE  Heard(q)' = Heard(q)
<1>1. \A i \in 1..seen : wire'[i] = wire[i]
  <2>1. 1..seen \subseteq 1..Len(wire)
    OBVIOUS
  <2>2. CASE wire' = wire
    BY <2>2
  <2>3. CASE \E m \in Messages : wire' = Append(wire, m)
    <3>1. PICK m \in Messages : wire' = Append(wire, m)
      BY <2>3
    <3>2. \A i \in 1..Len(wire) : Append(wire, m)[i] = wire[i]
      OBVIOUS
    <3> QED
      BY <2>1, <3>1, <3>2
  <2> QED
    BY <2>2, <2>3
<1> QED
  BY <1>1 DEF Heard

-----------------------------------------------------------------------------
(* What the page shows is preserved.                                       *)

Page == Filled /\ Untouched /\ Own /\ Shown

\* The orchestrator's steps.
LEMMA PageManager ==
  ASSUME Known, ChatTypeOK, Protocol, Page, [Next]_vars,
         UNCHANGED <<streamingText, m_reqId, seen, item, bubbles, sources>>
  PROVE  Page'
<1>0. /\ IInv /\ OrderInv /\ DeliveryInv /\ SentInv /\ TypeOK /\ wire \in Seq(Messages)
      /\ pc \in [Gens -> PipelineSteps \cup {"none", "exit"}] /\ reqId \in [Gens -> 0..MaxQueries]
  BY WireIs DEF Known, IInv, TypeOK, JobTypeOK
<1>1. Heard(item)' = Heard(item)
  <2>1. \A q : Heard(q)' = Heard(q)
    <3>1. wire' = wire \/ \E m \in Messages : wire' = Append(wire, m)
      BY <1>0, WireGrows
    <3>2. seen' = seen /\ seen \in 0..Len(wire)
      BY DEF ChatTypeOK
    <3> QED
      BY <1>0, <3>1, <3>2, HeardSame
  <2>2. PICK q : q = item
    OBVIOUS
  <2>3. Heard(q)' = Heard(q)
    BY <2>1
  <2> QED
    BY <2>2, <2>3 DEF Heard
<1>2. Filled' /\ Untouched' /\ Own'
  BY <1>1 DEF Page, Filled, Untouched, Own
<1>3. ASSUME NEW g \in Gens, pc'[g] # "none", item' # reqId'[g], bubbles'[reqId'[g]].mark = "none"
      PROVE  gen'[g].err # "none" /\ Len(bubbles'[reqId'[g]].text) = gen'[g].made
  <2>1. pc[g] # "none" /\ reqId'[g] = reqId[g]
    <3>1. CASE QueryInstall
      <4>1. /\ spc = "install" /\ pc' = [pc EXCEPT ![currentGen] = "prompt"]
            /\ reqId' = [reqId EXCEPT ![currentGen] = currentReqID]
        BY <3>1 DEF QueryInstall
      <4>2. currentReqID = item
        BY <4>1 DEF Protocol, Starting, Filling
      <4>3. g # currentGen
        BY <1>0, <1>3, <4>1, <4>2
      <4> QED
        BY <1>0, <1>3, <4>1, <4>3
    <3>2. CASE ~QueryInstall
      BY <1>0, <1>3, <3>2, StepOn
    <3> QED
      BY <3>1, <3>2
  <2>2. gen[g].err # "none" /\ Len(bubbles[reqId[g]].text) = gen[g].made
    BY <1>3, <2>1 DEF Page, Shown
  <2> QED
    BY <1>0, <2>1, <2>2, MadeStays
<1>4. Shown'
  BY <1>3 DEF Shown
<1> QED
  BY <1>2, <1>4 DEF Page

\* A new bubble has no text, and nothing has been heard of its query.
LEMMA PageStarts ==
  ASSUME Known, ChatTypeOK, Protocol, Page, StartSearch
  PROVE  Page'
<1>0. /\ IInv /\ OrderInv /\ SentInv /\ TypeOK /\ m_reqId \in Nat /\ m_reqId + 1 \in 1..MaxQueries
  BY DEF Known, IInv, ChatTypeOK, StartSearch
<1>1. /\ UNCHANGED <<wire, pc, reqId, gen, seen, bubbles>> /\ streamingText' = <<>>
      /\ m_reqId' = m_reqId + 1 /\ item' = m_reqId + 1 /\ sources' = NoSources
  BY DEF StartSearch, NewBubble, SendQuery, vars, jobVars
<1>2. item = 0 /\ currentReqID <= m_reqId
  <2>1. status = "ready" /\ outbox = <<>>
    BY DEF StartSearch, Protocol, Quiet
  <2>2. lastId = m_reqId /\ item = 0
    <3>1. Len(outbox) = 0 /\ lastId + Len(outbox) = m_reqId /\ lastId \in Nat
      BY <1>0, <2>1 DEF Protocol, TypeOK, ServeTypeOK
    <3> QED
      BY <2>1, <3>1 DEF Protocol
  <2> QED
    BY <2>2 DEF Known, OrderInv, IdsAscend
<1>3. Heard(m_reqId + 1) = {}
  <2> SUFFICES ASSUME NEW i \in 1..seen, wire[i].type = "Token", wire[i].id = m_reqId + 1
               PROVE  FALSE
    BY DEF Heard
  <2>1. i \in DOMAIN wire
    BY <1>0, WireIs DEF ChatTypeOK
  <2>2. wire[i].id <= currentReqID
    BY <1>0, <2>1 DEF OrderInv, TokensArePipelines, WireBehind
  <2>3. currentReqID \in Nat
    BY <1>0 DEF TypeOK, SlotTypeOK
  <2> QED
    BY <1>0, <1>2, <2>2, <2>3
<1>4. bubbles[m_reqId + 1].text = <<>>
  BY <1>0 DEF Page, Untouched
<1>5. Filled'
  <2>1. Heard(item)' = Heard(m_reqId + 1)
    BY <1>1 DEF Heard
  <2> QED
    BY <1>1, <1>3, <1>4, <2>1 DEF Filled
<1>6. Untouched' /\ Own'
  BY <1>0, <1>1 DEF Page, Untouched, Own, NoSources
<1>7. Shown'
  <2>1. \A g \in Gens : pc[g] # "none" => item # reqId[g]
    BY <1>0, <1>2 DEF SentInv, IdsTaken
  <2> QED
    BY <1>1, <2>1 DEF Page, Shown
<1> QED
  BY <1>5, <1>6, <1>7 DEF Page

LEMMA ConcatIs ==
  ASSUME NEW S, NEW a \in Seq(S), NEW b \in Seq(S)
  PROVE  /\ Len(a \o b) = Len(a) + Len(b) /\ DOMAIN (a \o b) = 1..(Len(a) + Len(b))
         /\ \A i \in 1..(Len(a) + Len(b)) :
              (a \o b)[i] = IF i <= Len(a) THEN a[i] ELSE b[i - Len(a)]
<1>1. a \o b \in Seq(S) /\ Len(a \o b) = Len(a) + Len(b)
  OBVIOUS
<1>2. DOMAIN (a \o b) = 1..(Len(a) + Len(b))
  BY <1>1
<1>3. \A i \in 1..(Len(a) + Len(b)) : (a \o b)[i] = IF i <= Len(a) THEN a[i] ELSE b[i - Len(a)]
  OBVIOUS
<1> QED
  BY <1>1, <1>2, <1>3

\* A token message: the bubble grows by the tokens that come next.
LEMMA PageReadsToken ==
  ASSUME Known, ChatTypeOK, Protocol, Page, ReadMessage, ReadToken
  PROVE  Page'
<1> DEFINE j == seen + 1
<1>0. /\ IInv /\ OrderInv /\ DeliveryInv /\ SentInv
      /\ seen \in Nat /\ seen < Len(wire) /\ Len(wire) \in Nat /\ j \in DOMAIN wire /\ seen' = j
      /\ UNCHANGED <<wire, pc, reqId, gen, m_reqId, item, sources>>
      /\ wire[j].type = "Token"
  BY ReadStep DEF Known, vars, jobVars, ReadToken
<1>1. wire[j].id = item /\ item = m_reqId /\ item \in 1..MaxQueries
  BY <1>0 DEF Protocol, Filling, ChatTypeOK
<1>2. /\ streamingText \in Texts /\ bubbles \in [1..MaxQueries -> Bubble]
      /\ wire[j].text \in Seq(Nat)
  BY <1>0, WireIs DEF ChatTypeOK, Bubble
<1>3. /\ bubbles[item].text = streamingText /\ Heard(item) = 1..Len(streamingText)
      /\ \A i \in DOMAIN streamingText : streamingText[i] = <<item, i>>
  BY <1>1 DEF Page, Filled
<1>4. PICK s \in Nat : s = Len(streamingText) /\ DOMAIN streamingText = 1..s
  BY <1>2 DEF Texts
<1>5. PICK l \in Nat : l = Len(wire[j].text) /\ DOMAIN wire[j].text = 1..l
  BY <1>2
<1>6. \A k \in 1..l : wire[j].text[k] = s + k
  BY <1>0, <1>1, <1>3, <1>4, <1>5, NextTokens
<1>7. PICK own : own = Owned(wire[j]) /\ own \in Texts /\ DOMAIN own = 1..l
                 /\ \A k \in 1..l : own[k] = <<item, s + k>>
  <2>1. Owned(wire[j]) \in Texts
    BY <1>0, OwnedType
  <2>2. Owned(wire[j]) = [i \in 1..l |-> <<item, wire[j].text[i]>>]
    BY <1>1, <1>5 DEF Owned
  <2>3. PICK own : own = Owned(wire[j])
    OBVIOUS
  <2>4. DOMAIN own = 1..l /\ \A k \in 1..l : own[k] = <<item, wire[j].text[k]>>
    BY <2>2, <2>3
  <2>5. \A k \in 1..l : own[k] = <<item, s + k>>
    BY <1>6, <2>4
  <2> QED
    BY <2>1, <2>3, <2>4, <2>5
<1>8. streamingText' = streamingText \o own
  BY <1>7 DEF ReadToken, Received
<1>9. /\ Len(streamingText') = s + l /\ DOMAIN streamingText' = 1..(s + l)
      /\ \A i \in 1..(s + l) : streamingText'[i] = <<item, i>>
  <2>1. Len(own) = l
    BY <1>7 DEF Texts
  <2>2. PICK S : streamingText \in Seq(S) /\ own \in Seq(S)
    BY <1>2, <1>7 DEF Texts
  <2>3. /\ Len(streamingText \o own) = Len(streamingText) + Len(own)
        /\ DOMAIN (streamingText \o own) = 1..(Len(streamingText) + Len(own))
        /\ \A i \in 1..(Len(streamingText) + Len(own)) :
             (streamingText \o own)[i] =
               IF i <= Len(streamingText) THEN streamingText[i] ELSE own[i - Len(streamingText)]
    BY <2>2, ConcatIs
  <2>4. /\ Len(streamingText') = s + l /\ DOMAIN streamingText' = 1..(s + l)
        /\ \A i \in 1..(s + l) : streamingText'[i] = IF i <= s THEN streamingText[i] ELSE own[i - s]
    BY <1>4, <1>8, <2>1, <2>3
  <2>5. \A i \in 1..s : streamingText[i] = <<item, i>>
    BY <1>3, <1>4
  <2>6. ASSUME NEW i \in 1..(s + l), i > s PROVE own[i - s] = <<item, i>>
    <3>1. i - s \in 1..l /\ s + (i - s) = i
      BY <2>6
    <3> QED
      BY <1>7, <3>1
  <2>7. ASSUME NEW i \in 1..(s + l) PROVE streamingText'[i] = <<item, i>>
    <3>1. CASE i <= s
      <4>1. i \in 1..s
        BY <3>1
      <4> QED
        BY <2>4, <2>5, <3>1, <4>1
    <3>2. CASE i > s
      <4>1. ~(i <= s)
        BY <3>2
      <4> QED
        BY <2>4, <2>6, <3>2, <4>1
    <3> QED
      BY <3>1, <3>2
  <2> QED
    BY <2>4, <2>7
<1>10. bubbles' = [bubbles EXCEPT ![item].text = streamingText']
  BY <1>1 DEF ReadToken, ShowText
<1>11. /\ bubbles'[item].text = streamingText'
       /\ \A q \in 1..MaxQueries \ {item} : bubbles'[q] = bubbles[q]
  BY <1>1, <1>2, <1>10 DEF Bubble
<1>12. Filled'
  <2>1. Heard(item)' = 1..(s + l)
    <3>1. PICK q : q = item
      OBVIOUS
    <3>2. Heard(q)' = Heard(q) \cup {wire[j].text[k] : k \in DOMAIN wire[j].text}
      BY <1>0, <1>1, <3>1, HeardRead
    <3>3. Heard(q) = 1..s
      BY <1>3, <1>4, <3>1 DEF Heard
    <3>4. {wire[j].text[k] : k \in DOMAIN wire[j].text} = (s + 1)..(s + l)
      <4>1. \A i \in (s + 1)..(s + l) : i - s \in 1..l /\ s + (i - s) = i
        OBVIOUS
      <4>2. \A k \in 1..l : s + k \in (s + 1)..(s + l)
        OBVIOUS
      <4>3. \A k \in DOMAIN wire[j].text : wire[j].text[k] \in (s + 1)..(s + l)
        BY <1>5, <1>6, <4>2
      <4>4. \A i \in (s + 1)..(s + l) : \E k \in DOMAIN wire[j].text : wire[j].text[k] = i
        BY <1>5, <1>6, <4>1
      <4> QED
        BY <4>3, <4>4
    <3>5. Heard(item)' = Heard(q)'
      BY <1>0, <3>1 DEF Heard
    <3>6. 1..s \cup (s + 1)..(s + l) = 1..(s + l)
      OBVIOUS
    <3> QED
      BY <3>2, <3>3, <3>4, <3>5, <3>6
  <2> QED
    BY <1>0, <1>9, <1>11, <2>1 DEF Filled
<1>13. Untouched' /\ Own'
  <2>1. \A q \in 1..MaxQueries : q > m_reqId => q # item
    BY <1>1
  <2>2. Untouched'
    BY <1>0, <1>11, <2>1 DEF Page, Untouched
  <2>3. Own'
    BY <1>0, <1>1, <1>9, <1>11 DEF Page, Own
  <2> QED
    BY <2>2, <2>3
<1>14. Shown'
  <2>1. reqId \in [Gens -> 0..MaxQueries] /\ \A g \in Gens : pc[g] # "none" => reqId[g] # 0
    BY <1>0 DEF IInv, TypeOK, JobTypeOK, SentInv, IdsTaken
  <2>2. \A g \in Gens : pc[g] # "none" /\ reqId[g] # item => bubbles'[reqId[g]] = bubbles[reqId[g]]
    BY <1>11, <2>1
  <2> QED
    BY <1>0, <2>2 DEF Page, Shown
<1> QED
  BY <1>12, <1>13, <1>14 DEF Page

\* What a message is about that is still unread, and what comes with its reading.
LEMMA ReadsOwn ==
  ASSUME Known, ChatTypeOK, Protocol, ReadMessage
  PROVE  /\ IInv /\ OrderInv /\ DeliveryInv /\ SentInv
         /\ seen + 1 \in DOMAIN wire /\ seen \in Nat /\ seen' = seen + 1
         /\ UNCHANGED <<wire, pc, reqId, gen, m_reqId>>
         /\ wire[seen + 1].id = item /\ item = m_reqId /\ item \in 1..MaxQueries
         /\ bubbles \in [1..MaxQueries -> Bubble]
         /\ \A g \in Gens : pc[g] # "none" => reqId[g] \in 1..MaxQueries
<1>1. /\ IInv /\ OrderInv /\ DeliveryInv /\ SentInv
      /\ seen + 1 \in DOMAIN wire /\ seen \in Nat /\ seen' = seen + 1
      /\ UNCHANGED <<wire, pc, reqId, gen, m_reqId>>
      /\ seen + 1 \in (seen + 1)..Len(wire)
  BY ReadStep DEF Known, vars, jobVars
<1>2. wire[seen + 1].id = item /\ item = m_reqId /\ item \in 1..MaxQueries
  BY <1>1 DEF Protocol, Filling, ChatTypeOK
<1>3. bubbles \in [1..MaxQueries -> Bubble]
  BY DEF ChatTypeOK, Bubble
<1>4. \A g \in Gens : pc[g] # "none" => reqId[g] \in 1..MaxQueries
  <2>1. reqId \in [Gens -> 0..MaxQueries]
    BY <1>1 DEF IInv, TypeOK, JobTypeOK
  <2>2. \A g \in Gens : pc[g] # "none" => reqId[g] # 0
    BY <1>1 DEF SentInv, IdsTaken
  <2>3. \A q \in 0..MaxQueries : q # 0 => q \in 1..MaxQueries
    OBVIOUS
  <2> QED
    BY <2>1, <2>2, <2>3
<1> QED
  BY <1>1, <1>2, <1>3, <1>4

\* An error or a refusal: the bubble is emptied and marked.
LEMMA PageReadsError ==
  ASSUME Known, ChatTypeOK, Protocol, Page, ReadError \/ ReadBusy
  PROVE  Page'
<1>0. ReadMessage
  BY DEF ReadMessage
<1>1. /\ UNCHANGED <<pc, reqId, gen, m_reqId>> /\ item \in 1..MaxQueries
      /\ item = m_reqId /\ bubbles \in [1..MaxQueries -> Bubble]
      /\ \A g \in Gens : pc[g] # "none" => reqId[g] \in 1..MaxQueries
  BY <1>0, ReadsOwn
<1>2. /\ item' = 0 /\ sources' = sources
      /\ bubbles' = [bubbles EXCEPT ![item] = [text |-> <<>>, mark |-> "error"]]
  BY <1>1 DEF ReadError, ReadBusy, ShowError
<1>3. /\ bubbles'[item].text = <<>> /\ bubbles'[item].mark = "error"
      /\ \A q \in 1..MaxQueries \ {item} : bubbles'[q] = bubbles[q]
  BY <1>1, <1>2
<1>4. Filled'
  BY <1>2 DEF Filled
<1>5. Untouched'
  BY <1>1, <1>3 DEF Page, Untouched
<1>6. Own'
  <2>1. DOMAIN bubbles'[item].text = {}
    BY <1>3
  <2> QED
    BY <1>2, <1>3, <2>1 DEF Page, Own
<1>7. Shown'
  <2>1. ASSUME NEW g \in Gens, pc[g] # "none", bubbles'[reqId[g]].mark = "none"
        PROVE  gen[g].err # "none" /\ Len(bubbles'[reqId[g]].text) = gen[g].made
    <3>1. reqId[g] # item /\ bubbles'[reqId[g]] = bubbles[reqId[g]]
      BY <1>1, <1>3, <2>1
    <3> QED
      BY <2>1, <3>1 DEF Page, Shown
  <2> QED
    BY <1>1, <2>1 DEF Shown
<1> QED
  BY <1>4, <1>5, <1>6, <1>7 DEF Page

\* Sources and pongs leave the bubbles alone.
LEMMA PageReadsOther ==
  ASSUME Known, ChatTypeOK, Protocol, Page, ReadSources \/ ReadPong
  PROVE  Page'
<1>0. ReadMessage /\ UNCHANGED <<streamingText, item, bubbles>> /\ wire[seen + 1].type # "Token"
  <2>1. ReadMessage
    BY DEF ReadMessage
  <2> QED
    BY <2>1, ReadStep DEF ReadSources, ReadPong, Known
<1>1. /\ UNCHANGED <<wire, pc, reqId, gen, m_reqId>> /\ wire[seen + 1].id = item
      /\ seen + 1 \in DOMAIN wire /\ seen \in Nat /\ seen' = seen + 1 /\ IInv
  BY <1>0, ReadsOwn
<1>2. Heard(item)' = Heard(item)
  <2>1. PICK q : q = item
    OBVIOUS
  <2>2. Heard(q)' = Heard(q)
    BY <1>0, <1>1, HeardRead
  <2> QED
    BY <1>0, <2>1, <2>2 DEF Heard
<1>3. Filled' /\ Untouched' /\ Shown'
  BY <1>0, <1>1, <1>2 DEF Page, Filled, Untouched, Shown
<1>4. Own'
  <2>1. sources' = sources \/ sources' = [of |-> item, at |-> item]
    BY <1>1 DEF ReadSources, ReadPong, Received
  <2> QED
    BY <1>0, <2>1 DEF Page, Own
<1> QED
  BY <1>3, <1>4 DEF Page

-----------------------------------------------------------------------------
(* The end of an answer.                                                   *)

\* Done in a calm chat: it is the last message, and the pipeline of the query
\* that the front end waits for has delivered every token.
LEMMA DoneIs ==
  ASSUME Known, ChatTypeOK, Protocol, nCtl = 0, ReadDone,
         NEW g \in Gens, pc[g] # "none", reqId[g] = m_reqId
  PROVE  pc[g] \in {"release", "exit"} /\ verdict[g] = "answered" /\ seen + 1 = Len(wire)
<1>0. ReadMessage
  BY DEF ReadMessage
<1>1. /\ OrderInv /\ SentInv /\ TypeOK /\ seen + 1 \in DOMAIN wire /\ seen \in Nat
      /\ wire[seen + 1].id = m_reqId /\ wire[seen + 1].type = "Done"
      /\ wire \in Seq(Messages)
  BY <1>0, ReadsOwn, ReadStep DEF IInv, TypeOK
<1>2. PICK h \in Gens : SentBy(wire[seen + 1], h)
  BY <1>1 DEF SentInv, WireKind
<1>3. pc[h] \in {"release", "exit"} /\ verdict[h] = "answered" /\ pc[h] # "none" /\ reqId[h] = m_reqId
  BY <1>1, <1>2 DEF SentBy
<1>4. currentReqID <= m_reqId
  <2>1. lastId \in Nat /\ currentReqID \in Nat /\ Len(outbox) \in Nat /\ lastId + Len(outbox) = m_reqId
    BY <1>1 DEF TypeOK, ServeTypeOK, SlotTypeOK, ChatTypeOK, Protocol
  <2> QED
    BY <1>1, <2>1 DEF OrderInv, IdsAscend
<1>5. \A k \in Gens : pc[k] # "none" /\ reqId[k] = m_reqId => k = currentGen
  <2>1. currentReqID \in Nat /\ m_reqId \in Nat
    BY <1>1 DEF TypeOK, SlotTypeOK, ChatTypeOK
  <2> QED
    BY <1>1, <1>4, <2>1 DEF OrderInv, IdsAscend
<1>6. g = h
  BY <1>3, <1>5
<1>7. seen + 1 = Len(wire)
  <2>1. seen + 1 \in (seen + 1)..Len(wire)
    BY <1>1
  <2> QED
    BY <1>1, <2>1 DEF Protocol, Ends
<1> QED
  BY <1>3, <1>6, <1>7

\* What has been heard of a request whose last message is about to be read is
\* all that its generator has read.
LEMMA AllHeard ==
  ASSUME Known, seen \in Nat, seen + 1 = Len(wire), wire[seen + 1].type # "Token",
         NEW g \in Gens, pc[g] \in {"release", "exit"}, verdict[g] = "answered"
  PROVE  gen[g].err = "nil" /\ Heard(reqId[g]) = 1..gen[g].made
<1>0. IInv /\ DeliveryInv /\ conn = "open"
  BY DEF Known, Connected
<1>1. buf[g] = <<>> /\ gen[g].err = "nil" /\ pc[g] # "none"
  BY <1>0 DEF DeliveryInv, GenAgrees
<1>2. PICK n \in 0..gen[g].made : Delivered(g, n) /\ Taken(g, n + Len(buf[g]))
  BY <1>0, <1>1 DEF DeliveryInv, Carries
<1>3. n = gen[g].made
  <2>1. n + Len(buf[g]) = n
    BY <1>0, <1>1, JobIs
  <2> QED
    BY <1>1, <1>2, <2>1 DEF Taken
<1>4. TokenMessages(g) = {j \in 1..seen : wire[j].type = "Token" /\ wire[j].id = reqId[g]}
  <2>1. DOMAIN wire = 1..(seen + 1)
    BY <1>0, WireIs
  <2> QED
    BY <2>1 DEF TokenMessages
<1>5. Got(g) = Heard(reqId[g])
  BY <1>4 DEF Got, Heard
<1> QED
  BY <1>1, <1>2, <1>3, <1>5 DEF Delivered

LEMMA PageReadsDone ==
  ASSUME Known, ChatTypeOK, Protocol, Page, nCtl = 0, ReadDone
  PROVE  Page'
<1>0. ReadMessage /\ item' = 0 /\ UNCHANGED <<streamingText, bubbles, sources>>
  BY DEF ReadMessage, ReadDone
<1>1. /\ UNCHANGED <<wire, pc, reqId, gen, m_reqId>> /\ seen \in Nat
      /\ item \in 1..MaxQueries /\ item = m_reqId /\ wire[seen + 1].type = "Done"
      /\ IInv
  BY <1>0, ReadsOwn, ReadStep
<1>2. Filled' /\ Untouched' /\ Own'
  BY <1>0, <1>1 DEF Page, Filled, Untouched, Own
<1>3. ASSUME NEW g \in Gens, pc[g] # "none", bubbles[reqId[g]].mark = "none"
      PROVE  gen[g].err # "none" /\ Len(bubbles[reqId[g]].text) = gen[g].made
  <2>1. CASE reqId[g] # item
    BY <1>3, <2>1 DEF Page, Shown
  <2>2. CASE reqId[g] = item
    <3>1. pc[g] \in {"release", "exit"} /\ verdict[g] = "answered" /\ seen + 1 = Len(wire)
      BY <1>1, <1>3, <2>2, DoneIs
    <3>2. gen[g].err = "nil" /\ Heard(reqId[g]) = 1..gen[g].made
      BY <1>1, <3>1, AllHeard
    <3>3. bubbles[item].text = streamingText /\ Heard(item) = 1..Len(streamingText)
      BY <1>1 DEF Page, Filled
    <3>4. Len(streamingText) \in Nat /\ gen[g].made \in Nat
      BY <1>1, JobIs DEF ChatTypeOK, Texts
    <3>5. 1..Len(streamingText) = 1..gen[g].made
      BY <2>2, <3>2, <3>3
    <3>6. Len(streamingText) = gen[g].made
      BY <3>4, <3>5
    <3> QED
      BY <2>2, <3>2, <3>3, <3>6
  <2> QED
    BY <2>1, <2>2
<1>4. Shown'
  BY <1>0, <1>1, <1>3 DEF Shown
<1> QED
  BY <1>2, <1>4 DEF Page

LEMMA PageNext ==
  ASSUME Known, ChatTypeOK, Protocol, Page, [ChatNext]_allVars, Calm'
  PROVE  Page'
<1>0. TypeOK /\ [Next]_vars
  BY StepsOfManager DEF Known, IInv
<1>1. nCtl = 0 /\ (StartSearch \/ ReadMessage \/ Turn \/ (Manager /\ UNCHANGED chatVars))
  BY <1>0, CalmStep DEF Calm
<1>2. CASE StartSearch
  BY <1>2, PageStarts
<1>3. CASE ReadMessage
  BY <1>1, <1>3, PageReadsToken, PageReadsError, PageReadsOther, PageReadsDone DEF ReadMessage
<1>4. CASE Turn \/ (Manager /\ UNCHANGED chatVars)
  <2>1. UNCHANGED <<streamingText, m_reqId, seen, item, bubbles, sources>>
    BY <1>4 DEF Turn, Takes, chatVars
  <2> QED
    BY <1>0, <2>1, PageManager
<1> QED
  BY <1>1, <1>2, <1>3, <1>4

LEMMA ChatInvInit == ChatInit => ChatInv
<1> SUFFICES ASSUME ChatInit PROVE Protocol /\ Filled /\ Untouched /\ Own /\ Shown
  BY DEF ChatInv
<1>1. Protocol
  BY DEF ChatInit, Init, Protocol, AllRead, Quiet, Listening, Resting, Live, PipelineSteps
<1>2. Filled /\ Untouched /\ Own
  BY DEF ChatInit, Filled, Untouched, Own, NoSources
<1>3. Shown
  BY DEF ChatInit, Init, Shown
<1> QED
  BY <1>1, <1>2, <1>3

LEMMA ChatInvNext == Known /\ ChatTypeOK /\ ChatInv /\ [ChatNext]_allVars => ChatInv'
<1> SUFFICES ASSUME Known, ChatTypeOK, ChatInv, [ChatNext]_allVars, Calm'
             PROVE  Protocol' /\ Page'
  BY DEF ChatInv, Page
<1>1. Protocol /\ Page
  BY CalmStep DEF ChatInv, Page, Known, IInv
<1> QED
  BY <1>1, ProtocolNext, PageNext

-----------------------------------------------------------------------------
(* The theorems.                                                           *)

LEMMA ChatInductive == ChatSpec => [](Known /\ ChatTypeOK /\ ChatInv)
<1>1. ChatSpec => ChatInit /\ [][ChatNext]_allVars
  BY DEF ChatSpec
<1> QED
  BY <1>1, ChatInvInit, ChatInvNext, ChatTypeInductive, PTL

\* While the user has neither stopped a request nor switched the profile, a ready
\* front end has nothing under way: the send button of MainPage.qml is enabled
\* only when the orchestrator has taken every query and its pipeline lets go.
THEOREM ReadyIdle == ChatSpec => []ReadyMeansIdle
<1>1. ChatInv => ReadyMeansIdle
  BY DEF ChatInv, Protocol, Quiet, Resting, ReadyMeansIdle
<1> QED
  BY <1>1, ChatInductive, PTL

\* A bubble shows the tokens of its own query, from the first one on in order, and
\* its own sources, although handleMessage matches no request ids.
THEOREM BubblesOwned == ChatSpec => []BubblesAreOwn
<1>1. ChatInv => BubblesAreOwn
  BY DEF ChatInv, Own, BubblesAreOwn
<1> QED
  BY <1>1, ChatInductive, PTL

\* A bubble that is left without an error shows every token that llama-server sent
\* for its query.
THEOREM AnswersShown == ChatSpec => []AnswerShown
<1>1. Known /\ ChatInv => AnswerShown
  BY DEF Known, SentInv, IdsTaken, ChatInv, Shown, AnswerShown
<1> QED
  BY <1>1, ChatInductive, PTL
=============================================================================
