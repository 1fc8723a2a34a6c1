----------------------- MODULE RequestDeliveryProofs -----------------------
(***************************************************************************)
(* Proofs about what the request manager writes to the client: the answers *)
(* in order, and the tokens of each answer.                                *)
(***************************************************************************)
EXTENDS RequestDelivery, RequestManagerProofs

USE BoundsAssumption, ProfilesAssumption, NoProfileAssumption DEF Gens

-----------------------------------------------------------------------------
(* The order of the answers: the invariant.                                *)

\* Request ids are handed out in ascending order.
IdsAscend ==
  /\ currentReqID <= lastId
  /\ \A g \in Gens : pc[g] # "none" =>
       /\ reqId[g] <= currentReqID
       /\ g # currentGen => reqId[g] < currentReqID
       /\ Live(g) => reqId[g] = currentReqID

\* What a handler sends is told from what a pipeline sends.
ReplyIsOwn == reply.by = "serve" /\ reply.type # "Token"
TokensArePipelines == \A i \in DOMAIN wire : wire[i].type = "Token" => wire[i].by = "pipeline"

\* Nothing is written for a request before its pipeline starts, and nothing
\* terminal before that pipeline is about to release the slot.
WireBehind ==
  \A i \in DOMAIN wire : wire[i].by = "pipeline" =>
    /\ wire[i].id <= currentReqID
    /\ spc = "install" => wire[i].id < currentReqID
    /\ \A g \in Gens : Live(g) /\ pc[g] # "release" /\ wire[i].id = reqId[g] =>
         wire[i].type \notin Terminal

OrderInv == IdsAscend /\ ReplyIsOwn /\ TokensArePipelines /\ WireBehind /\ AnswersInOrder

-----------------------------------------------------------------------------
(* Frames.                                                                 *)

\* No step but the second critical section of handleQuery starts a pipeline.
LEMMA StepOn ==
  ASSUME TypeOK, [Next]_vars, ~QueryInstall, NEW g \in Gens
  PROVE  /\ reqId'[g] = reqId[g]
         /\ pc'[g] # "none" <=> pc[g] # "none"
         /\ Live(g)' => Live(g)
         /\ Live(g)' /\ pc'[g] # "release" => pc[g] # "release"
<1> USE DEF TypeOK, JobTypeOK
<1>1. CASE Serve
  BY <1>1, ServeFrame DEF jobVars, Live
<1>2. ASSUME NEW h \in Gens, Pipeline(h)
      PROVE  /\ Live(h) /\ UNCHANGED reqId
             /\ \E to \in PipelineSteps \cup {"exit"} :
                  pc' = [pc EXCEPT ![h] = to] /\ (pc[h] = "release" => to = "exit")
  <2>1. UNCHANGED reqId
    BY <1>2 DEF Pipeline, PipelineOwn, SearchReturns, ReadPrompt, ReadServers, SearchNext,
       SearchReply, Rerank, BuildFails, SpawnGenerator, StreamToken, StreamTick, StreamEnds,
       StreamCtxDone, StreamClosed, AwaitGenerator, SendSources, SendDone, SendError, Release, Goto
  <2>2. CASE ReadPrompt(h) \/ ReadServers(h) \/ SendDone(h) \/ SendError(h) \/ Release(h)
    BY <2>1, <2>2 DEF ReadPrompt, ReadServers, SendDone, SendError, Release, Goto, Live, PipelineSteps
  <2>3. CASE pc[h] \in Middle /\ \E to \in Middle : pc' = [pc EXCEPT ![h] = to]
    BY <2>1, <2>3 DEF Middle, Live, PipelineSteps
  <2> QED
    BY <1>2, <2>2, <2>3, PipelineStep
<1>3. CASE \E h \in Gens : Pipeline(h)
  BY <1>2, <1>3 DEF Live, PipelineSteps
<1>4. CASE \E h \in Gens : Generator(h)
  BY <1>4, GeneratorFrame DEF Live
<1>5. CASE Environment \/ UNCHANGED vars
  BY <1>5, EnvironmentFrame DEF vars, jobVars, Live
<1> QED
  BY <1>1, <1>3, <1>4, <1>5 DEF Next

\* No step but the admission of a query takes a new request id.
LEMMA SameIds ==
  ASSUME [Next]_vars, ~QueryAdmit
  PROVE  /\ UNCHANGED <<currentReqID, currentGen>>
         /\ spc' = "install" => spc = "install"
         /\ lastId' = lastId \/ lastId' = lastId + 1
<1>1. CASE QueryBusy \/ QueryNotReady
  BY <1>1 DEF QueryBusy, QueryNotReady, ReceivesQuery, Answer
<1>2. CASE QueryInstall
  BY <1>2 DEF QueryInstall
<1>3. CASE Cancel \/ SwitchRefused \/ OtherRequest \/ \E p \in Profiles : SwitchTo(p)
  BY <1>3 DEF Cancel, SwitchRefused, OtherRequest, SwitchTo, ReceivesControl, Answer, slotVars
<1>4. CASE SendReply \/ ReadFails \/ ReadDeadline
  BY <1>4 DEF SendReply, ReadFails, ReadDeadline, slotVars
<1>5. ASSUME NEW g \in Gens, Pipeline(g) \/ Generator(g)
      PROVE  UNCHANGED <<currentReqID, currentGen, spc, lastId>>
  BY <1>5, PipelineFrame, GeneratorFrame DEF Others, serveVars, slotVars, Release
<1>6. CASE Environment \/ UNCHANGED vars
  BY <1>6, EnvironmentFrame DEF vars, slotVars, serveVars
<1> QED
  BY <1>1, <1>2, <1>3, <1>4, <1>5, <1>6 DEF Next, Serve

\* A pipeline writes messages of its own request only, and a terminal one last.
LEMMA PipelineWrites ==
  ASSUME TypeOK, NEW g \in Gens, Pipeline(g), wire' # wire
  PROVE  /\ Live(g) /\ pc[g] # "release"
         /\ \E m \in Messages :
              /\ wire' = Append(wire, m)
              /\ m.by = "pipeline" /\ m.id = reqId[g]
              /\ m.type \in Terminal => pc'[g] = "release"
<1> USE DEF TypeOK, JobTypeOK
<1>0. reqId[g] \in Nat /\ buf[g] \in Seq(Nat)
  OBVIOUS
<1>1. CASE SendSources(g)
  <2>1. Msg("Sources", reqId[g], "pipeline") \in Messages
    BY <1>0, MsgType DEF MsgTypes
  <2> QED
    BY <1>1, <2>1 DEF SendSources, Send, Goto, Msg, Live, PipelineSteps, Terminal
<1>2. CASE SendDone(g)
  <2>1. Msg("Done", reqId[g], "pipeline") \in Messages
    BY <1>0, MsgType DEF MsgTypes
  <2> QED
    BY <1>2, <2>1 DEF SendDone, Send, Goto, Msg, Live, PipelineSteps
<1>3. CASE SendError(g)
  <2>1. Msg("Error", reqId[g], "pipeline") \in Messages
    BY <1>0, MsgType DEF MsgTypes
  <2> QED
    BY <1>3, <2>1 DEF SendError, Send, Goto, Msg, Live, PipelineSteps
<1>4. CASE Flush(g) /\ pc[g] = "stream"
  <2> DEFINE m == [Msg("Token", reqId[g], "pipeline") EXCEPT !.text = buf[g]]
  <2>1. m \in Messages
    BY <1>0, TokenMsgType
  <2>2. m.by = "pipeline" /\ m.id = reqId[g] /\ m.type = "Token"
    BY DEF Msg
  <2>3. wire' = Append(wire, m)
    BY <1>4 DEF Flush, Send
  <2> QED
    BY <1>4, <2>1, <2>2, <2>3 DEF Live, PipelineSteps, Terminal
<1>5. CASE StreamTick(g) \/ StreamCtxDone(g) \/ StreamClosed(g)
  BY <1>4, <1>5 DEF StreamTick, StreamCtxDone, StreamClosed, StreamEnds, Goto
<1> QED
  BY <1>1, <1>2, <1>3, <1>5 DEF Pipeline, PipelineOwn, SearchReturns, ReadPrompt, ReadServers,
     SearchNext, SearchReply, Rerank, BuildFails, SpawnGenerator, StreamToken, AwaitGenerator, Release

\* The serve goroutine writes the reply of a handler.
LEMMA ServeWrites ==
  ASSUME [Next]_vars, wire' # wire, \A g \in Gens : ~Pipeline(g)
  PROVE  SendReply /\ wire' = Append(wire, reply)
<1>1. ~(\E g \in Gens : Generator(g)) /\ ~Environment /\ ~UNCHANGED vars
  BY GeneratorFrame, EnvironmentFrame DEF vars
<1> QED
  BY <1>1 DEF Next, Serve, QueryBusy, QueryNotReady, QueryAdmit, QueryInstall, Cancel, SwitchRefused,
     OtherRequest, SwitchTo, SendReply, Send, ReadFails, ReadDeadline, ReceivesQuery, ReceivesControl

-----------------------------------------------------------------------------
(* The order of the answers is preserved.                                  *)

LEMMA OrderInit == Init => OrderInv
BY DEF Init, OrderInv, IdsAscend, ReplyIsOwn, TokensArePipelines, WireBehind, AnswersInOrder,
   Live, PipelineSteps, NoMsg, Msg

LEMMA IdsNext == IInv /\ IdsAscend /\ [Next]_vars => IdsAscend'
<1> SUFFICES ASSUME IInv, IdsAscend, [Next]_vars PROVE IdsAscend'
  OBVIOUS
<1>0. /\ TypeOK /\ lastId \in Nat /\ currentReqID \in Nat /\ currentGen \in Nat /\ Fresh
      /\ reqId \in [Gens -> 0..MaxQueries]
      /\ pc \in [Gens -> PipelineSteps \cup {"none", "exit"}]
  BY DEF IInv, SlotInv, TypeOK, ServeTypeOK, SlotTypeOK, JobTypeOK
<1>1. CASE QueryAdmit
  <2>1. /\ ~active /\ lastId' = lastId + 1 /\ currentReqID' = lastId + 1
        /\ currentGen' = currentGen + 1 /\ UNCHANGED <<pc, reqId>>
    BY <1>1 DEF QueryAdmit, ReceivesQuery, jobVars
  <2>2. \A g \in Gens : ~Live(g) /\ ~Live(g)'
    BY <2>1 DEF IInv, SlotInv, Ownership, Live
  <2>3. \A g \in Gens : pc[g] # "none" => reqId[g] \in Nat /\ reqId[g] <= lastId
    BY <1>0 DEF IdsAscend
  <2> QED
    BY <1>0, <2>1, <2>2, <2>3 DEF IdsAscend
<1>2. CASE QueryInstall
  <2>1. /\ spc = "install" /\ pc' = [pc EXCEPT ![currentGen] = "prompt"]
        /\ reqId' = [reqId EXCEPT ![currentGen] = currentReqID]
        /\ UNCHANGED <<lastId, currentReqID, currentGen>>
    BY <1>2 DEF QueryInstall
  <2>2. currentGen \in Gens /\ \A g \in Gens : ~Live(g)
    BY <2>1 DEF IInv, SlotInv, Ownership, Installing
  <2>3. \A g \in Gens \ {currentGen} : pc'[g] = pc[g] /\ reqId'[g] = reqId[g] /\ ~Live(g)'
    BY <1>0, <2>1, <2>2 DEF Live
  <2>4. reqId'[currentGen] = currentReqID
    BY <1>0, <2>1, <2>2
  <2> QED
    BY <1>0, <2>1, <2>3, <2>4 DEF IdsAscend
<1>3. CASE ~QueryAdmit /\ ~QueryInstall
  <2>1. /\ UNCHANGED <<currentReqID, currentGen>> /\ lastId' \in {lastId, lastId + 1}
        /\ \A g \in Gens : reqId'[g] = reqId[g] /\ (pc'[g] # "none" => pc[g] # "none")
                           /\ (Live(g)' => Live(g))
    BY <1>0, <1>3, SameIds, StepOn
  <2> QED
    BY <1>0, <2>1 DEF IdsAscend
<1> QED
  BY <1>1, <1>2, <1>3

LEMMA ReplyNext == ReplyIsOwn /\ [Next]_vars => ReplyIsOwn'
<1> SUFFICES ASSUME ReplyIsOwn, [Next]_vars PROVE ReplyIsOwn'
  OBVIOUS
<1> USE DEF ReplyIsOwn, Answer, Msg
<1>1. CASE Serve
  BY <1>1 DEF Serve, QueryBusy, QueryNotReady, QueryAdmit, QueryInstall, Cancel, SwitchRefused,
     OtherRequest, SwitchTo, SendReply, NoMsg, ReadFails, ReadDeadline
<1>2. ASSUME NEW g \in Gens, Pipeline(g) \/ Generator(g) PROVE ReplyIsOwn'
  BY <1>2, PipelineFrame, GeneratorFrame DEF Others, serveVars
<1>3. CASE Environment \/ UNCHANGED vars
  BY <1>3, EnvironmentFrame DEF vars, serveVars
<1> QED
  BY <1>1, <1>2, <1>3 DEF Next

\* The last message of a longer wire, and the others.
LEMMA AppendIs ==
  ASSUME wire \in Seq(Messages), NEW m \in Messages, wire' = Append(wire, m)
  PROVE  /\ DOMAIN wire' = DOMAIN wire \cup {Len(wire) + 1} /\ wire'[Len(wire) + 1] = m
         /\ \A i \in DOMAIN wire : wire'[i] = wire[i] /\ i \in Nat /\ i < Len(wire) + 1
         /\ Len(wire) + 1 \in Nat
OBVIOUS

LEMMA WireNext == IInv /\ OrderInv /\ [Next]_vars => TokensArePipelines' /\ WireBehind' /\ AnswersInOrder'
<1> SUFFICES ASSUME IInv, OrderInv, [Next]_vars
             PROVE  TokensArePipelines' /\ WireBehind' /\ AnswersInOrder'
  OBVIOUS
<1>0. /\ TypeOK /\ lastId \in Nat /\ currentReqID \in Nat /\ wire \in Seq(Messages)
      /\ reqId \in [Gens -> 0..MaxQueries] /\ reply \in Messages
  BY DEF IInv, TypeOK, ServeTypeOK, SlotTypeOK, JobTypeOK
<1>m. \A i \in DOMAIN wire : wire[i] \in Messages /\ wire[i].id \in Nat
  <2>1. \A i \in DOMAIN wire : wire[i] \in Messages
    BY <1>0
  <2> QED
    BY <2>1 DEF Messages
<1> DEFINE Behind(m) == m.by = "pipeline" =>
             /\ m.id <= currentReqID'
             /\ spc' = "install" => m.id < currentReqID'
             /\ \A g \in Gens : Live(g)' /\ pc'[g] # "release" /\ m.id = reqId'[g] =>
                  m.type \notin Terminal
\* What is on the wire stays behind.
<1>1. \A i \in DOMAIN wire : Behind(wire[i])
  <2>1. CASE QueryAdmit
    <3>1. /\ ~active /\ currentReqID' = lastId + 1 /\ UNCHANGED <<pc, reqId>>
      BY <2>1 DEF QueryAdmit, ReceivesQuery, jobVars
    <3>2. \A g \in Gens : ~Live(g)'
      BY <3>1 DEF IInv, SlotInv, Ownership, Live
    <3>3. currentReqID < currentReqID'
      BY <1>0, <3>1 DEF OrderInv, IdsAscend
    <3>4. currentReqID' \in Nat /\ \A i \in DOMAIN wire : wire[i].by = "pipeline" => wire[i].id <= currentReqID
      BY <1>0, <3>1 DEF OrderInv, WireBehind
    <3> QED
      BY <1>0, <1>m, <3>2, <3>3, <3>4
  <2>2. CASE QueryInstall
    <3>1. /\ spc = "install" /\ spc' = "idle" /\ UNCHANGED currentReqID
          /\ pc' = [pc EXCEPT ![currentGen] = "prompt"]
          /\ reqId' = [reqId EXCEPT ![currentGen] = currentReqID]
      BY <2>2 DEF QueryInstall
    <3>2. currentGen \in Gens /\ \A g \in Gens : ~Live(g)
      BY <3>1 DEF IInv, SlotInv, Ownership, Installing
    <3>3. \A g \in Gens : Live(g)' => reqId'[g] = currentReqID
      BY <1>0, <3>1, <3>2 DEF Live, TypeOK, JobTypeOK
    <3>4. \A i \in DOMAIN wire : wire[i].by = "pipeline" => wire[i].id < currentReqID
      BY <3>1 DEF OrderInv, WireBehind
    <3> QED
      BY <1>0, <1>m, <3>1, <3>3, <3>4
  <2>3. CASE ~QueryAdmit /\ ~QueryInstall
    <3>1. /\ UNCHANGED currentReqID /\ (spc' = "install" => spc = "install")
          /\ \A g \in Gens : reqId'[g] = reqId[g] /\ (Live(g)' => Live(g))
                             /\ (Live(g)' /\ pc'[g] # "release" => pc[g] # "release")
      BY <1>0, <2>3, SameIds, StepOn
    <3> QED
      BY <1>m, <3>1 DEF OrderInv, WireBehind
  <2> QED
    BY <2>1, <2>2, <2>3
<1>2. CASE wire' = wire
  BY <1>1, <1>2 DEF OrderInv, TokensArePipelines, WireBehind, AnswersInOrder
\* What is new is behind as well, and comes after.
<1>3. ASSUME NEW m \in Messages, wire' = Append(wire, m), Behind(m),
             m.type = "Token" => m.by = "pipeline",
             m.by = "pipeline" => \A i \in DOMAIN wire : wire[i].by = "pipeline" =>
               wire[i].id < m.id \/ (wire[i].id = m.id /\ wire[i].type \notin Terminal)
      PROVE  TokensArePipelines' /\ WireBehind' /\ AnswersInOrder'
  <2> DEFINE n == Len(wire) + 1
  <2>1. /\ DOMAIN wire' = DOMAIN wire \cup {n} /\ wire'[n] = m /\ n \in Nat
        /\ \A i \in DOMAIN wire : wire'[i] = wire[i] /\ i \in Nat /\ i < n
    BY <1>0, <1>3, AppendIs
  <2> HIDE DEF n
  <2>2. TokensArePipelines'
    BY <1>3, <2>1 DEF OrderInv, TokensArePipelines
  <2>3. WireBehind'
    BY <1>1, <1>3, <2>1 DEF WireBehind
  <2>4. AnswersInOrder'
    <3> SUFFICES ASSUME NEW i \in DOMAIN wire', NEW j \in DOMAIN wire', i < j,
                        wire'[i].by = "pipeline", wire'[j].by = "pipeline"
                 PROVE  \/ wire'[i].id < wire'[j].id
                        \/ wire'[i].id = wire'[j].id /\ wire'[i].type \notin Terminal
      BY DEF AnswersInOrder
    <3>1. i \in DOMAIN wire
      BY <2>1
    <3>2. CASE j \in DOMAIN wire
      BY <2>1, <3>1, <3>2 DEF OrderInv, AnswersInOrder
    <3>3. CASE j = n
      BY <1>3, <2>1, <3>1, <3>3
    <3> QED
      BY <2>1, <3>2, <3>3
  <2> QED
    BY <2>2, <2>3, <2>4
<1>4. CASE wire' # wire /\ \A g \in Gens : ~Pipeline(g)
  <2>1. wire' = Append(wire, reply) /\ reply.by = "serve" /\ reply.type # "Token"
    BY <1>4, ServeWrites DEF OrderInv, ReplyIsOwn
  <2> QED
    BY <1>0, <1>3, <2>1
<1>5. ASSUME NEW g \in Gens, Pipeline(g), wire' # wire
      PROVE  TokensArePipelines' /\ WireBehind' /\ AnswersInOrder'
  <2>1. /\ Live(g) /\ pc[g] # "release"
        /\ \E m \in Messages :
             /\ wire' = Append(wire, m)
             /\ m.by = "pipeline" /\ m.id = reqId[g]
             /\ m.type \in Terminal => pc'[g] = "release"
    BY <1>0, <1>5, PipelineWrites
  <2>2. PICK m \in Messages :
             /\ wire' = Append(wire, m)
             /\ m.by = "pipeline" /\ m.id = reqId[g]
             /\ m.type \in Terminal => pc'[g] = "release"
    BY <2>1
  <2>3. reqId[g] = currentReqID /\ spc # "install" /\ \A h \in Gens : Live(h) => h = g
    BY <1>0, <2>1 DEF OrderInv, IdsAscend, IInv, SlotInv, Ownership, Live, PipelineSteps
  <2>4. UNCHANGED <<currentReqID, spc>> /\ \A h \in Gens : Live(h)' => Live(h)
    <3>1. UNCHANGED <<currentReqID, spc>>
      BY <1>5, PipelineFrame DEF Others, serveVars, slotVars, Release
    <3>2. ~QueryInstall
      BY <2>3 DEF QueryInstall
    <3> QED
      BY <1>0, <3>1, <3>2, StepOn
  <2>5. Behind(m)
    BY <1>0, <2>2, <2>3, <2>4
  <2>6. \A i \in DOMAIN wire : wire[i].by = "pipeline" =>
          wire[i].id < m.id \/ (wire[i].id = m.id /\ wire[i].type \notin Terminal)
    BY <1>0, <1>m, <2>1, <2>2, <2>3 DEF OrderInv, WireBehind
  <2> HIDE DEF Behind
  <2> QED
    BY <1>3, <2>2, <2>5, <2>6
<1> QED
  BY <1>2, <1>4, <1>5

LEMMA OrderNext == IInv /\ OrderInv /\ [Next]_vars => OrderInv'
BY IdsNext, ReplyNext, WireNext DEF OrderInv

THEOREM OrderInductive == Spec => [](IInv /\ OrderInv)
BY OrderInit, OrderNext, Inductive, PTL DEF Spec

\* What the pipelines write is a sequence of whole answers, in the order the
\* requests were admitted (handleQuery, runPipeline, and the Send of server.go).
THEOREM AnswersOrdered == Spec => []AnswersInOrder
<1>1. OrderInv => AnswersInOrder
  BY DEF OrderInv
<1> QED
  BY <1>1, OrderInductive, PTL

-----------------------------------------------------------------------------
(* The tokens of an answer: the invariant.                                 *)

\* The steps of a pipeline that has no generator yet.
Early == {"prompt", "servers", "search", "http", "rerank", "build"}

\* Where the generator of request g is, by what its pipeline does.
GenAgrees(g) ==
  /\ pc[g] \in Early \cup {"none"} => gen[g].pc = "none"
  /\ gen[g].pc = "none" => gen[g].made = 0 /\ buf[g] = <<>>
  /\ gen[g].err # "none" <=> gen[g].pc \in {"returned", "closed"}
  /\ \/ pc[g] \in {"sources", "done"}
     \/ pc[g] \in {"release", "exit"} /\ verdict[g] = "answered"
     => gen[g].err = "nil"
  /\ conn = "open" /\ pc[g] # "stream" => buf[g] = <<>>

\* The engine has taken t tokens: all that the generator has read, but for one
\* that it still offers, or offered when the context ended.
Taken(g, t) ==
  /\ t = gen[g].made \/ t + 1 = gen[g].made
  /\ gen[g].pc = "offer" => t + 1 = gen[g].made
  /\ gen[g].pc \in {"none", "start", "connect", "scan"} \/ gen[g].err = "nil" => t = gen[g].made

\* The first tokens are on the wire, and as long as a client is there, the next
\* ones in the buffer.
Carries(g) ==
  \E n \in 0..gen[g].made :
    /\ Delivered(g, n)
    /\ conn = "open" =>
         /\ buf[g] = [k \in 1..Len(buf[g]) |-> n + k]
         /\ Taken(g, n + Len(buf[g]))

DeliveryInv == \A g \in Gens : GenAgrees(g) /\ (pc[g] # "none" => Carries(g))

-----------------------------------------------------------------------------
(* What a message adds to the delivered tokens.                            *)

\* A message that is no token of request g leaves what g has delivered alone.
LEMMA DeliveredSame ==
  ASSUME wire \in Seq(Messages), NEW g \in Gens, reqId'[g] = reqId[g], NEW n \in Nat,
         \/ wire' = wire
         \/ \E m \in Messages : wire' = Append(wire, m) /\ ~(m.type = "Token" /\ m.id = reqId[g]),
         Delivered(g, n)
  PROVE  Delivered(g, n)'
<1>1. CASE wire' = wire
  BY <1>1 DEF Delivered, Got, Ascending, TokenMessages
<1>2. ASSUME NEW m \in Messages, wire' = Append(wire, m), ~(m.type = "Token" /\ m.id = reqId[g])
      PROVE  Delivered(g, n)'
  <2>1. /\ DOMAIN wire' = DOMAIN wire \cup {Len(wire) + 1} /\ wire'[Len(wire) + 1] = m
        /\ \A i \in DOMAIN wire : wire'[i] = wire[i] /\ i < Len(wire) + 1
    BY <1>2, AppendIs
  <2>2. TokenMessages(g)' = TokenMessages(g)
    BY <1>2, <2>1 DEF TokenMessages
  <2>3. \A i \in TokenMessages(g) : wire'[i] = wire[i]
    BY <2>1 DEF TokenMessages
  <2>4. Got(g)' = Got(g)
    BY <2>2, <2>3 DEF Got
  <2>5. Ascending(g)'
    BY <2>2, <2>3 DEF Delivered, Ascending
  <2> QED
    BY <2>4, <2>5 DEF Delivered
<1> QED
  BY <1>1, <1>2

\* A message with the tokens that come next delivers them.
LEMMA DeliveredMore ==
  ASSUME wire \in Seq(Messages), NEW g \in Gens, reqId'[g] = reqId[g], NEW n \in Nat,
         NEW m \in Messages, wire' = Append(wire, m), m.type = "Token", m.id = reqId[g],
         NEW len \in Nat, DOMAIN m.text = 1..len, \A k \in 1..len : m.text[k] = n + k,
         Delivered(g, n)
  PROVE  Delivered(g, n + len)'
<1>1. PICK last \in Nat :
        /\ DOMAIN wire' = DOMAIN wire \cup {last} /\ wire'[last] = m
        /\ \A i \in DOMAIN wire : wire'[i] = wire[i] /\ i \in Nat /\ i < last
  BY AppendIs
<1>2. TokenMessages(g)' = TokenMessages(g) \cup {last} /\ last \notin TokenMessages(g)
  BY <1>1 DEF TokenMessages
<1>3. \A i \in TokenMessages(g) : wire'[i] = wire[i] /\ i \in Nat /\ i < last
  BY <1>1 DEF TokenMessages
<1>4. \A i \in TokenMessages(g) : \A k \in DOMAIN wire[i].text : wire[i].text[k] \in 1..n
  BY DEF Delivered, Got
<1>5. Got(g)' = 1..(n + len)
  <2>1. Got(g)' = Got(g) \cup {m.text[k] : k \in DOMAIN m.text}
    <3> DEFINE Texts(i) == {wire[i].text[k] : k \in DOMAIN wire[i].text}
    <3>1. Got(g) = UNION {Texts(i) : i \in TokenMessages(g)}
      BY DEF Got
    <3>2. Got(g)' = UNION {Texts(i)' : i \in TokenMessages(g)'}
      BY DEF Got
    <3>3. \A i \in TokenMessages(g) : Texts(i)' = Texts(i)
      BY <1>3
    <3>4. Texts(last)' = {m.text[k] : k \in DOMAIN m.text}
      BY <1>1
    <3> HIDE DEF Texts
    <3> QED
      BY <1>2, <3>1, <3>2, <3>3, <3>4
  <2>2. {m.text[k] : k \in DOMAIN m.text} = {n + k : k \in 1..len}
    OBVIOUS
  <2>3. 1..(n + len) = (1..n) \cup {n + k : k \in 1..len}
    <3>1. ASSUME NEW x \in 1..(n + len), x \notin 1..n PROVE x \in {n + k : k \in 1..len}
      <4>1. x - n \in 1..len /\ x = n + (x - n)
        BY <3>1
      <4> QED
        BY <4>1
    <3>2. \A x \in {n + k : k \in 1..len} : x \in 1..(n + len)
      OBVIOUS
    <3>3. \A x \in 1..n : x \in 1..(n + len)
      OBVIOUS
    <3> QED
      BY <3>1, <3>2, <3>3
  <2> QED
    BY <2>1, <2>2, <2>3 DEF Delivered
<1>6. Ascending(g)'
  <2> SUFFICES ASSUME NEW i \in TokenMessages(g)', NEW j \in TokenMessages(g)',
                      NEW k \in DOMAIN wire'[i].text, NEW l \in DOMAIN wire'[j].text,
                      i < j \/ (i = j /\ k < l)
               PROVE  wire'[i].text[k] < wire'[j].text[l]
    BY DEF Ascending
  <2>1. CASE i \in TokenMessages(g) /\ j \in TokenMessages(g)
    BY <1>3, <2>1 DEF Delivered, Ascending
  <2>2. CASE i \in TokenMessages(g) /\ j = last
    <3>1. wire'[i].text[k] \in 1..n
      BY <1>3, <1>4, <2>2
    <3>2. wire'[j] = m /\ l \in 1..len
      BY <1>1, <2>2
    <3>3. wire'[j].text[l] = n + l
      BY <3>2
    <3>4. \A x \in 1..n : x < n + l
      BY <3>2
    <3> QED
      BY <3>1, <3>3, <3>4
  <2>3. CASE i = last /\ j = last
    <3>1. wire'[i] = m /\ wire'[j] = m /\ k \in 1..len /\ l \in 1..len
      BY <1>1, <2>3
    <3>2. wire'[i].text[k] = n + k /\ wire'[j].text[l] = n + l
      BY <3>1
    <3>3. k < l
      BY <1>1, <2>3
    <3> QED
      BY <3>1, <3>2, <3>3
  <2>4. ~(i = last /\ j \in TokenMessages(g))
    BY <1>1, <1>3
  <2> QED
    BY <1>2, <2>1, <2>2, <2>3, <2>4
<1> QED
  BY <1>5, <1>6 DEF Delivered

-----------------------------------------------------------------------------
(* The tokens of an answer are preserved: frames.                          *)

JobOf(g) == <<pc[g], gen[g], buf[g], verdict[g]>>

\* A pipeline changes what belongs to its own request.
LEMMA PipelineOthers ==
  ASSUME TypeOK, NEW h \in Gens, Pipeline(h), NEW g \in Gens \ {h}
  PROVE  UNCHANGED <<JobOf(g), reqId>>
<1> USE DEF TypeOK, JobTypeOK, JobOf, Goto
<1>1. CASE ReadPrompt(h) \/ ReadServers(h) \/ BuildFails(h) \/ SpawnGenerator(h)
  BY <1>1 DEF ReadPrompt, ReadServers, BuildFails, SpawnGenerator
<1>2. CASE SearchNext(h) \/ SearchReturns(h) \/ Rerank(h)
  BY <1>2 DEF SearchNext, SearchReturns, SearchReply, Rerank
<1>3. CASE StreamToken(h)
  BY <1>3 DEF StreamToken
<1>4. CASE StreamTick(h) \/ StreamCtxDone(h) \/ StreamClosed(h)
  BY <1>4 DEF StreamTick, StreamCtxDone, StreamClosed, StreamEnds, Flush
<1>5. CASE AwaitGenerator(h) \/ SendSources(h) \/ SendDone(h) \/ SendError(h) \/ Release(h)
  BY <1>5 DEF AwaitGenerator, SendSources, SendDone, SendError, Release
<1> QED
  BY <1>1, <1>2, <1>3, <1>4, <1>5 DEF Pipeline, PipelineOwn

\* A step that is not of request g leaves what belongs to it alone.
LEMMA StepOthers ==
  ASSUME TypeOK, [Next]_vars, ~QueryInstall, NEW g \in Gens, ~Pipeline(g), ~Generator(g)
  PROVE  UNCHANGED <<JobOf(g), reqId>>
<1>1. CASE Serve
  BY <1>1, ServeFrame DEF jobVars, JobOf
<1>2. ASSUME NEW h \in Gens \ {g}, Generator(h) PROVE UNCHANGED <<JobOf(g), reqId>>
  <2>1. gen'[g] = gen[g]
    BY <1>2 DEF Generator, GenStart, LlamaAnswers, GenConnect, GenToken, GenEnd, GenFail,
       GenAbort, GenClose, GenGoto, GenReturn, TypeOK, JobTypeOK
  <2> QED
    BY <1>2, <2>1, GeneratorFrame DEF JobOf
<1>3. CASE Environment \/ UNCHANGED vars
  BY <1>3, EnvironmentFrame DEF vars, jobVars, JobOf
<1> QED
  BY <1>1, <1>2, <1>3, PipelineOthers DEF Next

\* A client that is gone does not come back.
LEMMA ConnStep ==
  ASSUME [Next]_vars
  PROVE  conn' = conn \/ conn' = "gone"
BY PipelineFrame, GeneratorFrame, ServeFrame
   DEF Next, Environment, Shutdown, ConnectionLost, Others, envVars, vars

\* Only the pipeline of a request that runs writes its tokens.
LEMMA WireOthers ==
  ASSUME IInv, OrderInv, [Next]_vars, NEW g \in Gens, ~Pipeline(g), pc[g] # "none"
  PROVE  \/ wire' = wire
         \/ \E m \in Messages : wire' = Append(wire, m) /\ ~(m.type = "Token" /\ m.id = reqId[g])
<1>0. TypeOK /\ reply \in Messages
  BY DEF IInv, TypeOK, ServeTypeOK
<1>1. CASE \A h \in Gens : ~Pipeline(h)
  BY <1>0, <1>1, ServeWrites DEF OrderInv, ReplyIsOwn
<1>2. ASSUME NEW h \in Gens \ {g}, Pipeline(h), wire' # wire
      PROVE  \E m \in Messages : wire' = Append(wire, m) /\ ~(m.type = "Token" /\ m.id = reqId[g])
  <2>1. Live(h) /\ \E m \in Messages : wire' = Append(wire, m) /\ m.id = reqId[h]
    BY <1>0, <1>2, PipelineWrites
  <2>2. reqId[h] = currentReqID /\ currentGen = h
    BY <2>1 DEF OrderInv, IdsAscend, IInv, SlotInv, Ownership, Live, PipelineSteps
  <2>3. reqId[g] < currentReqID /\ reqId[g] \in Nat /\ currentReqID \in Nat
    BY <1>0, <2>2 DEF OrderInv, IdsAscend, TypeOK, JobTypeOK, SlotTypeOK
  <2> QED
    BY <2>1, <2>2, <2>3
<1> QED
  BY <1>1, <1>2

\* What a request carries does not change with another's step.
LEMMA CarriesOthers ==
  ASSUME IInv, OrderInv, [Next]_vars, NEW g \in Gens, pc[g] # "none", Carries(g),
         UNCHANGED <<gen[g], buf[g], reqId[g]>>,
         \/ wire' = wire
         \/ \E m \in Messages : wire' = Append(wire, m) /\ ~(m.type = "Token" /\ m.id = reqId[g])
  PROVE  Carries(g)'
<1>0. wire \in Seq(Messages) /\ gen[g].made \in Nat
  BY DEF IInv, TypeOK, JobTypeOK
<1>1. PICK n \in 0..gen[g].made :
        /\ Delivered(g, n)
        /\ conn = "open" => /\ buf[g] = [k \in 1..Len(buf[g]) |-> n + k]
                            /\ Taken(g, n + Len(buf[g]))
  BY DEF Carries
<1>2. Delivered(g, n)'
  BY <1>0, <1>1, DeliveredSame
<1>3. conn' = "open" => conn = "open"
  BY ConnStep
<1>4. Taken(g, n + Len(buf[g])) => Taken(g, n + Len(buf[g]))'
  BY DEF Taken
<1> QED
  BY <1>0, <1>1, <1>2, <1>3, <1>4 DEF Carries

-----------------------------------------------------------------------------
(* The tokens of an answer are preserved: the generator and the pipeline.  *)

\* The types of what belongs to a request.
LEMMA JobIs ==
  ASSUME IInv, NEW g \in Gens
  PROVE  /\ TypeOK /\ wire \in Seq(Messages) /\ reqId[g] \in Nat
         /\ pc \in [Gens -> PipelineSteps \cup {"none", "exit"}]
         /\ buf[g] \in Seq(Nat) /\ Len(buf[g]) \in Nat
         /\ gen[g].made \in Nat /\ gen[g].err \in {"none", "nil", "error"}
<1>1. TypeOK /\ JobTypeOK /\ wire \in Seq(Messages)
  BY DEF IInv, TypeOK
<1>2. reqId[g] \in Nat /\ pc \in [Gens -> PipelineSteps \cup {"none", "exit"}]
  BY <1>1 DEF JobTypeOK
<1>3. buf[g] \in Seq(Nat) /\ Len(buf[g]) \in Nat
  BY <1>1 DEF JobTypeOK
<1>4. gen[g].made \in Nat /\ gen[g].err \in {"none", "nil", "error"}
  BY <1>1 DEF JobTypeOK
<1> QED
  BY <1>1, <1>2, <1>3, <1>4

\* What a step of a generator does to its record.
LEMMA GeneratorStep ==
  ASSUME TypeOK, NEW g \in Gens, Generator(g)
  PROVE  \/ /\ gen[g].pc = "start" /\ gen'[g].pc = "connect"
            /\ gen'[g].made = gen[g].made /\ gen'[g].err = gen[g].err
         \/ /\ gen[g].pc = "connect" /\ gen'[g].pc = "scan"
            /\ gen'[g].made = gen[g].made /\ gen'[g].err = gen[g].err
         \/ /\ gen[g].pc = "returned" /\ gen'[g].pc = "closed"
            /\ gen'[g].made = gen[g].made /\ gen'[g].err = gen[g].err
         \/ /\ gen[g].pc = "scan" /\ gen'[g].pc = "offer"
            /\ gen'[g].made = gen[g].made + 1 /\ gen'[g].err = gen[g].err
         \/ /\ gen[g].pc \in {"start", "connect", "scan", "offer"} /\ gen'[g].pc = "returned"
            /\ gen'[g].made = gen[g].made
            /\ gen'[g].err = "error" \/ (gen'[g].err = "nil" /\ gen[g].pc = "scan")
<1> USE DEF TypeOK, JobTypeOK
<1>1. CASE GenStart(g)
  BY <1>1 DEF GenStart, GenGoto, GenReturn
<1>2. CASE GenConnect(g) \/ GenClose(g)
  BY <1>2 DEF GenConnect, GenClose, GenGoto
<1>3. CASE GenToken(g)
  BY <1>3 DEF GenToken
<1>4. CASE GenEnd(g)
  BY <1>4 DEF GenEnd, GenReturn
<1>5. CASE GenFail(g) \/ GenAbort(g)
  BY <1>5 DEF GenFail, GenAbort, GenReturn
<1> QED
  BY <1>1, <1>2, <1>3, <1>4, <1>5 DEF Generator, LlamaAnswers

\* The delivered tokens and the buffer stay as they are under a step of the
\* generator; so does what the engine has taken.
LEMMA GeneratorCarries ==
  ASSUME IInv, OrderInv, [Next]_vars, NEW g \in Gens, Generator(g), GenAgrees(g),
         pc[g] # "none" => Carries(g)
  PROVE  GenAgrees(g)' /\ (pc'[g] # "none" => Carries(g)')
<1>0. /\ TypeOK /\ wire \in Seq(Messages) /\ gen[g].made \in Nat /\ Len(buf[g]) \in Nat
      /\ UNCHANGED <<wire, pc, reqId, buf, verdict, conn>>
      /\ gen[g].err \in {"none", "nil", "error"}
  BY JobIs, GeneratorFrame DEF Others, envVars
<1>1. GenAgrees(g)'
  BY <1>0, GeneratorStep DEF GenAgrees, Early
<1>2. ASSUME pc'[g] # "none" PROVE Carries(g)'
  <2>1. PICK n \in 0..gen[g].made :
          /\ Delivered(g, n)
          /\ conn = "open" => /\ buf[g] = [k \in 1..Len(buf[g]) |-> n + k]
                              /\ Taken(g, n + Len(buf[g]))
    BY <1>0, <1>2 DEF Carries
  <2>2. Delivered(g, n)' /\ n \in 0..(gen[g].made + 1)
    BY <1>0, <2>1, DeliveredSame
  <2>3. gen'[g].made = gen[g].made \/ gen'[g].made = gen[g].made + 1
    BY <1>0, GeneratorStep
  <2>4. ASSUME NEW t \in Nat, Taken(g, t) PROVE Taken(g, t)'
    BY <1>0, <2>4, GeneratorStep DEF Taken, GenAgrees
  <2>5. n \in 0..gen'[g].made /\ n + Len(buf[g]) \in Nat
    BY <1>0, <2>1, <2>3
  <2>6. conn' = "open" => Taken(g, n + Len(buf[g]))'
    BY <1>0, <2>1, <2>4, <2>5
  <2> QED
    BY <1>0, <2>1, <2>2, <2>5, <2>6 DEF Carries
<1> QED
  BY <1>1, <1>2

\* The steps of a pipeline that neither start the generator nor stream.
LEMMA PipelineRest ==
  ASSUME IInv, NEW g \in Gens, Pipeline(g), ~SpawnGenerator(g), ~StreamToken(g),
         ~StreamTick(g), ~StreamEnds(g)
  PROVE  /\ UNCHANGED <<gen, buf>>
         /\ wire' = wire \/ \E m \in Messages : wire' = Append(wire, m) /\ m.type # "Token"
         /\ \/ /\ pc[g] \in Early /\ pc'[g] \in Early \cup {"fail"} /\ UNCHANGED verdict
            \/ /\ pc[g] = "await" /\ UNCHANGED verdict
               /\ \/ pc'[g] = "sources" /\ gen[g].err = "nil"
                  \/ pc'[g] = "fail"
            \/ pc[g] = "sources" /\ pc'[g] = "done" /\ UNCHANGED verdict
            \/ pc[g] = "done" /\ pc'[g] = "release"
            \/ pc[g] = "fail" /\ pc'[g] = "release" /\ verdict'[g] = "failed"
            \/ pc[g] = "release" /\ pc'[g] = "exit" /\ UNCHANGED verdict
<1>0. /\ TypeOK /\ reqId[g] \in Nat /\ pc \in [Gens -> PipelineSteps \cup {"none", "exit"}]
      /\ verdict \in [Gens -> {"none", "answered", "failed"}]
  BY JobIs DEF TypeOK, JobTypeOK
<1> USE DEF Goto, Early
<1>1. CASE ReadPrompt(g) \/ ReadServers(g) \/ BuildFails(g)
  BY <1>0, <1>1 DEF ReadPrompt, ReadServers, BuildFails
<1>2. CASE SearchNext(g) \/ SearchReturns(g) \/ Rerank(g)
  BY <1>0, <1>2 DEF SearchNext, SearchReturns, SearchReply, Rerank
<1>3. CASE AwaitGenerator(g) \/ Release(g)
  BY <1>0, <1>3 DEF AwaitGenerator, Release
<1>4. CASE SendSources(g)
  <2>1. Msg("Sources", reqId[g], "pipeline") \in Messages
    BY <1>0, MsgType DEF MsgTypes
  <2> QED
    BY <1>0, <1>4, <2>1 DEF SendSources, Send, Msg
<1>5. CASE SendDone(g)
  <2>1. Msg("Done", reqId[g], "pipeline") \in Messages
    BY <1>0, MsgType DEF MsgTypes
  <2> QED
    BY <1>0, <1>5, <2>1 DEF SendDone, Send, Msg
<1>6. CASE SendError(g)
  <2>1. Msg("Error", reqId[g], "pipeline") \in Messages
    BY <1>0, MsgType DEF MsgTypes
  <2> QED
    BY <1>0, <1>6, <2>1 DEF SendError, Send, Msg
<1> QED
  BY <1>1, <1>2, <1>3, <1>4, <1>5, <1>6 DEF Pipeline, PipelineOwn, StreamCtxDone, StreamClosed

LEMMA PipelineAgrees ==
  ASSUME IInv, NEW g \in Gens, Pipeline(g), GenAgrees(g)
  PROVE  GenAgrees(g)'
<1>0. /\ TypeOK /\ conn' = conn /\ pc \in [Gens -> PipelineSteps \cup {"none", "exit"}]
      /\ buf \in [Gens -> Seq(Nat)]
      /\ gen \in [Gens -> GenState]
  BY JobIs, PipelineFrame DEF TypeOK, JobTypeOK, GenState, Others, envVars
<1>1. CASE SpawnGenerator(g)
  <2>1. /\ pc[g] = "build" /\ pc'[g] = "stream" /\ UNCHANGED buf
        /\ gen' = [gen EXCEPT ![g].pc = "start"]
    BY <1>0, <1>1 DEF SpawnGenerator, Goto
  <2>2. gen'[g].pc = "start" /\ gen'[g].made = gen[g].made /\ gen'[g].err = gen[g].err
    BY <1>0, <2>1 DEF GenState
  <2> QED
    BY <2>1, <2>2 DEF GenAgrees, Early
<1>2. CASE StreamToken(g)
  <2>1. /\ pc[g] = "stream" /\ pc'[g] = "stream" /\ gen[g].pc = "offer"
        /\ gen' = [gen EXCEPT ![g].pc = "scan"]
    BY <1>0, <1>2 DEF StreamToken
  <2>2. gen'[g].pc = "scan" /\ gen'[g].made = gen[g].made /\ gen'[g].err = gen[g].err
    BY <1>0, <2>1 DEF GenState
  <2> QED
    BY <2>1, <2>2 DEF GenAgrees, Early
<1>3. CASE StreamTick(g) \/ StreamEnds(g)
  <2>1. /\ pc[g] = "stream" /\ pc'[g] \in {"stream", "await"} /\ Flush(g) /\ UNCHANGED gen
    BY <1>0, <1>3 DEF StreamTick, StreamEnds, Goto
  <2>2. gen[g].pc = "none" => buf[g] = <<>>
    BY DEF GenAgrees
  <2>3. buf'[g] \in {<<>>, buf[g]} /\ (conn = "open" => buf'[g] = <<>>)
    BY <1>0, <2>1 DEF Flush, FlushOk
  <2> QED
    BY <1>0, <2>1, <2>2, <2>3 DEF GenAgrees, Early
<1>4. CASE ~SpawnGenerator(g) /\ ~StreamToken(g) /\ ~StreamTick(g) /\ ~StreamEnds(g)
  BY <1>0, <1>4, PipelineRest DEF GenAgrees, Early
<1> QED
  BY <1>1, <1>2, <1>3, <1>4

LEMMA PipelineCarries ==
  ASSUME IInv, OrderInv, [Next]_vars, NEW g \in Gens, Pipeline(g), GenAgrees(g), Carries(g)
  PROVE  Carries(g)'
<1>0. /\ TypeOK /\ conn' = conn /\ pc[g] # "none" /\ wire \in Seq(Messages)
      /\ reqId[g] \in Nat /\ buf[g] \in Seq(Nat) /\ Len(buf[g]) \in Nat
      /\ gen[g].made \in Nat /\ gen \in [Gens -> GenState] /\ buf \in [Gens -> Seq(Nat)]
  <2>1. pc[g] # "none"
    BY JobIs, PipelineStep DEF ReadPrompt, ReadServers, SendDone, SendError, Release, Goto, Middle, PipelineSteps
  <2> QED
    BY <2>1, JobIs, PipelineFrame DEF TypeOK, JobTypeOK, GenState, Others, envVars
<1>1. PICK n \in 0..gen[g].made :
        /\ Delivered(g, n)
        /\ conn = "open" => /\ buf[g] = [k \in 1..Len(buf[g]) |-> n + k]
                            /\ Taken(g, n + Len(buf[g]))
  BY DEF Carries
<1>2. CASE SpawnGenerator(g)
  <2>1. /\ pc[g] = "build" /\ UNCHANGED <<buf, wire, reqId>>
        /\ gen' = [gen EXCEPT ![g].pc = "start"]
    BY <1>2 DEF SpawnGenerator, Goto
  <2>2. gen'[g].pc = "start" /\ gen'[g].made = gen[g].made /\ gen'[g].err = gen[g].err
    BY <1>0, <2>1 DEF GenState
  <2>3. gen[g].pc = "none"
    BY <2>1 DEF GenAgrees, Early
  <2>4. Delivered(g, n)'
    BY <1>0, <1>1, <2>1, DeliveredSame
  <2>5. conn = "open" => Taken(g, n + Len(buf[g]))'
    BY <1>1, <2>1, <2>2, <2>3 DEF Taken
  <2> QED
    BY <1>0, <1>1, <2>1, <2>2, <2>4, <2>5 DEF Carries
<1>3. CASE StreamToken(g)
  <2>1. /\ gen[g].pc = "offer" /\ UNCHANGED <<wire, reqId>>
        /\ gen' = [gen EXCEPT ![g].pc = "scan"]
        /\ buf' = [buf EXCEPT ![g] = Append(@, gen[g].made)]
    BY <1>3 DEF StreamToken
  <2>2. gen'[g].pc = "scan" /\ gen'[g].made = gen[g].made /\ gen'[g].err = gen[g].err
    BY <1>0, <2>1 DEF GenState
  <2>3. Delivered(g, n)'
    BY <1>0, <1>1, <2>1, DeliveredSame
  <2>4. buf'[g] = Append(buf[g], gen[g].made) /\ Len(buf'[g]) = Len(buf[g]) + 1
    BY <1>0, <2>1
  <2>5. ASSUME conn = "open"
        PROVE  /\ buf'[g] = [k \in 1..Len(buf'[g]) |-> n + k]
               /\ Taken(g, n + Len(buf[g]))'
    <3>1. n + Len(buf[g]) + 1 = gen[g].made
      BY <1>1, <2>1, <2>5 DEF Taken
    <3>2. buf'[g] = [k \in 1..(Len(buf[g]) + 1) |-> n + k]
      <4> DEFINE b == buf[g]
      <4>1. b = [k \in 1..Len(b) |-> n + k] /\ Len(b) \in Nat /\ b \in Seq(Nat)
        BY <1>0, <1>1, <2>5
      <4>2. \A k \in 1..Len(b) : Append(b, gen[g].made)[k] = n + k
        BY <4>1
      <4>3. Append(b, gen[g].made)[Len(b) + 1] = n + (Len(b) + 1)
        BY <1>0, <3>1, <4>1
      <4>4. Append(b, gen[g].made) \in Seq(Nat) /\ Len(Append(b, gen[g].made)) = Len(b) + 1
        BY <1>0, <4>1
      <4> HIDE DEF b
      <4>5. Append(b, gen[g].made) = [k \in 1..(Len(b) + 1) |-> n + k]
        BY <4>1, <4>2, <4>3, <4>4
      <4> QED
        BY <2>4, <4>5 DEF b
    <3>3. Taken(g, n + Len(buf[g]))'
      BY <1>0, <1>1, <2>2, <2>4, <3>1 DEF Taken
    <3> QED
      BY <2>4, <3>2, <3>3
  <2> QED
    BY <1>0, <1>1, <2>2, <2>3, <2>5 DEF Carries
<1>4. CASE StreamTick(g) \/ StreamEnds(g)
  <2>1. Flush(g) /\ UNCHANGED <<gen, reqId>>
    BY <1>4 DEF StreamTick, StreamEnds, Goto
  <2>2. CASE wire' = wire
    <3>1. Delivered(g, n)'
      BY <1>0, <1>1, <2>1, <2>2, DeliveredSame
    <3>2. conn = "open" => buf[g] = <<>> /\ buf'[g] = <<>>
      BY <1>0, <2>1, <2>2 DEF Flush, FlushOk, Send
    <3>3. ASSUME conn = "open"
          PROVE  /\ buf'[g] = [k \in 1..Len(buf'[g]) |-> n + k]
                 /\ Taken(g, n + Len(buf[g]))'
      BY <1>1, <2>1, <3>2, <3>3 DEF Taken
    <3> QED
      BY <1>0, <1>1, <2>1, <3>1, <3>3 DEF Carries
  <2>3. CASE wire' # wire
    <3>1. PICK m \in Messages :
            wire' = Append(wire, m) /\ m.type = "Token" /\ m.id = reqId[g] /\ m.text = buf[g]
      <4> DEFINE m == [Msg("Token", reqId[g], "pipeline") EXCEPT !.text = buf[g]]
      <4>1. wire' = Append(wire, m)
        BY <2>1, <2>3 DEF Flush, Send
      <4>2. m \in Messages /\ m.type = "Token" /\ m.id = reqId[g] /\ m.text = buf[g]
        BY <1>0, TokenMsgType DEF Msg
      <4> QED
        BY <4>1, <4>2
    <3>2. PICK len \in Nat : len = Len(buf[g])
      BY <1>0
    <3>3. conn = "open" /\ buf'[g] = <<>>
      BY <1>0, <2>1, <2>3 DEF Flush, FlushOk, Send
    <3>4. DOMAIN m.text = 1..len /\ \A k \in 1..len : m.text[k] = n + k
      BY <1>0, <1>1, <3>1, <3>2, <3>3
    <3>5. Taken(g, n + len) /\ n + len \in 0..gen[g].made
      BY <1>0, <1>1, <3>2, <3>3 DEF Taken
    <3>6. Delivered(g, n + len)'
      <4>1. n \in Nat /\ reqId'[g] = reqId[g] /\ Delivered(g, n)
        BY <1>0, <1>1, <2>1
      <4> QED
        BY <1>0, <3>1, <3>4, <4>1, DeliveredMore
    <3>7. Taken(g, n + len)'
      BY <2>1, <3>5 DEF Taken
    <3>8. /\ buf'[g] = [k \in 1..Len(buf'[g]) |-> n + len + k]
          /\ n + len + Len(buf'[g]) = n + len
      BY <3>3
    <3> QED
      BY <2>1, <3>5, <3>6, <3>7, <3>8 DEF Carries
  <2> QED
    BY <2>2, <2>3
<1>5. CASE ~SpawnGenerator(g) /\ ~StreamToken(g) /\ ~StreamTick(g) /\ ~StreamEnds(g)
  <2>1. reqId' = reqId
    BY <1>5 DEF Pipeline, PipelineOwn, SearchReturns, ReadPrompt, ReadServers, SearchNext,
       SearchReply, Rerank, BuildFails, StreamCtxDone, StreamClosed, AwaitGenerator, SendSources,
       SendDone, SendError, Release, Goto
  <2> QED
    BY <1>0, <1>5, <2>1, PipelineRest, CarriesOthers
<1> QED
  BY <1>2, <1>3, <1>4, <1>5

-----------------------------------------------------------------------------
(* The theorems on the tokens.                                             *)

LEMMA DeliveryInit == Init => DeliveryInv
<1> SUFFICES ASSUME Init, NEW g \in Gens PROVE GenAgrees(g) /\ pc[g] = "none"
  BY DEF DeliveryInv
<1>1. /\ pc[g] = "none" /\ buf[g] = <<>>
      /\ gen[g] = [pc |-> "none", made |-> 0, err |-> "none"]
  BY DEF Init
<1> QED
  BY <1>1 DEF GenAgrees

LEMMA DeliveryNext == IInv /\ OrderInv /\ DeliveryInv /\ [Next]_vars => DeliveryInv'
<1> SUFFICES ASSUME IInv, OrderInv, DeliveryInv, [Next]_vars, NEW g \in Gens
             PROVE  GenAgrees(g)' /\ (pc'[g] # "none" => Carries(g)')
  BY DEF DeliveryInv
<1>0. GenAgrees(g) /\ (pc[g] # "none" => Carries(g)) /\ TypeOK
  BY DEF DeliveryInv, IInv
<1>1. CASE QueryInstall
  <2>1. /\ spc = "install" /\ pc' = [pc EXCEPT ![currentGen] = "prompt"]
        /\ reqId' = [reqId EXCEPT ![currentGen] = currentReqID]
        /\ UNCHANGED <<gen, buf, verdict, conn, wire>>
    BY <1>1 DEF QueryInstall, envVars
  <2>2. currentGen \in Gens /\ pc[currentGen] = "none"
    BY <2>1 DEF IInv, SlotInv, Installing
  <2>3. CASE g # currentGen
    <3>1. pc'[g] = pc[g] /\ reqId'[g] = reqId[g]
      BY <1>0, <2>1, <2>3 DEF TypeOK, JobTypeOK
    <3>2. GenAgrees(g)'
      BY <1>0, <2>1, <3>1 DEF GenAgrees
    <3> QED
      BY <1>0, <2>1, <3>1, <3>2, CarriesOthers
  <2>4. CASE g = currentGen
    <3>1. pc'[g] = "prompt" /\ reqId'[g] = currentReqID
      BY <1>0, <2>1, <2>2, <2>4 DEF TypeOK, JobTypeOK
    <3>2. gen[g].pc = "none" /\ gen[g].made = 0 /\ buf[g] = <<>>
      BY <1>0, <2>2, <2>4 DEF GenAgrees
    <3>3. GenAgrees(g)'
      BY <1>0, <2>1, <3>1, <3>2 DEF GenAgrees, Early
    <3>4. TokenMessages(g)' = {}
      <4> SUFFICES ASSUME NEW i \in DOMAIN wire, wire[i].type = "Token", wire[i].id = currentReqID
                   PROVE  FALSE
        BY <2>1, <3>1 DEF TokenMessages
      <4>1. wire[i].id < currentReqID
        BY <2>1 DEF OrderInv, TokensArePipelines, WireBehind
      <4>2. currentReqID \in Nat
        BY <1>0 DEF TypeOK, SlotTypeOK
      <4> QED
        BY <4>1, <4>2
    <3>5. Delivered(g, 0)'
      BY <3>4 DEF Delivered, Got, Ascending
    <3>6. Taken(g, 0)'
      BY <2>1, <3>2 DEF Taken
    <3>7. buf'[g] = [k \in 1..Len(buf'[g]) |-> 0 + k] /\ 0 + Len(buf'[g]) = 0
      BY <2>1, <3>2
    <3>8. Carries(g)'
      BY <2>1, <3>2, <3>5, <3>6, <3>7 DEF Carries
    <3> QED
      BY <3>3, <3>8
  <2> QED
    BY <2>3, <2>4
<1>2. CASE Pipeline(g)
  <2>1. pc[g] # "none"
    BY <1>0, <1>2, PipelineStep DEF ReadPrompt, ReadServers, SendDone, SendError, Release, Goto,
       Middle, PipelineSteps
  <2> QED
    BY <1>0, <1>2, <2>1, PipelineAgrees, PipelineCarries
<1>3. CASE Generator(g)
  BY <1>0, <1>3, GeneratorCarries
<1>4. CASE ~QueryInstall /\ ~Pipeline(g) /\ ~Generator(g)
  <2>1. UNCHANGED <<pc[g], gen[g], buf[g], verdict[g], reqId[g]>>
    BY <1>0, <1>4, StepOthers DEF JobOf
  <2>2. GenAgrees(g)'
    BY <1>0, <2>1, ConnStep DEF GenAgrees
  <2>3. pc[g] # "none" => Carries(g)'
    BY <1>0, <1>4, <2>1, WireOthers, CarriesOthers
  <2> QED
    BY <2>1, <2>2, <2>3
<1> QED
  BY <1>1, <1>2, <1>3, <1>4

THEOREM DeliveryInductive == Spec => [](IInv /\ OrderInv /\ DeliveryInv)
BY DeliveryInit, DeliveryNext, OrderInductive, PTL DEF Spec

\* The tokens of a request reach the client in order, each once, none skipped,
\* for any number of requests and of tokens (Stream and its flushes in engine.go).
THEOREM TokensOrdered == Spec => []TokensInOrder
<1>1. IInv /\ DeliveryInv => TokensInOrder
  <2> SUFFICES ASSUME IInv, DeliveryInv, NEW g \in Gens, pc[g] # "none"
               PROVE  \E n \in 0..gen[g].made : Delivered(g, n) /\ (conn = "open" => Holds(g, n))
    BY DEF TokensInOrder
  <2>1. PICK n \in 0..gen[g].made :
          /\ Delivered(g, n)
          /\ conn = "open" => /\ buf[g] = [k \in 1..Len(buf[g]) |-> n + k]
                              /\ Taken(g, n + Len(buf[g]))
    BY DEF DeliveryInv, Carries
  <2>2. gen[g].made \in Nat /\ Len(buf[g]) \in Nat
    BY JobIs
  <2>3. conn = "open" => n + Len(buf[g]) <= gen[g].made
    BY <2>1, <2>2 DEF Taken
  <2> QED
    BY <2>1, <2>3 DEF Holds
<1> QED
  BY <1>1, DeliveryInductive, PTL

\* Done, sent to a client that is there, comes after every token of the answer
\* (the last flush of Stream, the error that Generate returns, and runPipeline).
THEOREM AnswersComplete == Spec => []AnswerComplete
<1>1. IInv /\ DeliveryInv => AnswerComplete
  <2> SUFFICES ASSUME IInv, DeliveryInv, NEW g \in Gens, pc[g] \in {"release", "exit"},
                      verdict[g] = "answered", conn = "open"
               PROVE  Delivered(g, gen[g].made)
    BY DEF AnswerComplete
  <2>1. buf[g] = <<>> /\ gen[g].err = "nil"
    BY DEF DeliveryInv, GenAgrees
  <2>2. PICK n \in 0..gen[g].made : Delivered(g, n) /\ Taken(g, n + Len(buf[g]))
    BY DEF DeliveryInv, Carries
  <2>3. n + Len(buf[g]) = n
    BY <2>1, JobIs
  <2> QED
    BY <2>1, <2>2, <2>3 DEF Taken
<1> QED
  BY <1>1, DeliveryInductive, PTL
=============================================================================
