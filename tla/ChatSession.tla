----------------------------- MODULE ChatSession -----------------------------
(***************************************************************************)
(* A chat between the Qt front end and the request manager: the part of    *)
(* BackendProcess (src/backendprocess.cpp) that sends queries and handles  *)
(* the answers, the chat page that shows them (qml/pages/MainPage.qml),    *)
(* the switch of the profile (qml/Aseek.qml), and the RequestManager that  *)
(* reads what they send.  The connection stays up; it is BackendProcess's. *)
(*                                                                         *)
(* The front end is one thread: a step is one handler with every signal it *)
(* emits.  It ignores the request id of a message; the model keeps it with *)
(* each token to tell whose token a bubble shows.                          *)
(***************************************************************************)
EXTENDS RequestManager

VARIABLES
  status,        \* m_status, ready or busy
  streaming,     \* m_streaming
  streamingText, \* m_streamingText: a sequence of <<request id, token>>
  m_reqId,       \* m_reqId
  outbox,        \* messages written to the socket, not yet read by Serve
  seen,          \* how many messages of the wire the front end has handled
  item,          \* streamingItemIndex: the bubble being filled, 0 for -1
  bubbles,       \* the bot bubble of each query
  sources        \* whose sources are shown, and under which bubble

chatVars == <<status, streaming, streamingText, m_reqId, outbox, seen, item, bubbles, sources>>
allVars == <<vars, chatVars>>

Controls == {"Cancel", "Switch"}
NoSources == [of |-> 0, at |-> 0]
Texts == Seq((1..MaxQueries) \X (1..MaxTokens))

ChatTypeOK ==
  /\ status \in {"ready", "busy"}
  /\ streaming \in BOOLEAN
  /\ streamingText \in Texts
  /\ m_reqId \in 0..MaxQueries
  /\ outbox \in Seq(Controls \cup {"Query"})
  /\ seen \in 0..Len(wire)
  /\ item \in 0..MaxQueries
  /\ bubbles \in [1..MaxQueries -> [text : Texts, mark : {"none", "interrupted", "error"}]]
  /\ sources \in [of : 0..MaxQueries, at : 0..MaxQueries]

ChatInit ==
  /\ Init
  /\ status = "ready"
  /\ streaming = FALSE
  /\ streamingText = <<>>
  /\ m_reqId = 0
  /\ outbox = <<>>
  /\ seen = 0
  /\ item = 0
  /\ bubbles = [q \in 1..MaxQueries |-> [text |-> <<>>, mark |-> "none"]]
  /\ sources = NoSources

-----------------------------------------------------------------------------
(* What the user does.                                                     *)

SendMessage(type) == outbox' = Append(outbox, type)

\* Mutant: the text of the last answer is kept.
SendQuery_KeepsText ==
  /\ UNCHANGED streamingText
  /\ streaming' = FALSE
  /\ m_reqId' = m_reqId + 1
  /\ status' = "busy"
  /\ SendMessage("Query")

\* sendQuery of a backend that is ready.
SendQuery ==
  /\ streamingText' = <<>>
  /\ streaming' = FALSE
  /\ m_reqId' = m_reqId + 1
  /\ status' = "busy"
  /\ SendMessage("Query")

\* Mutant: the index of the bubble is off by one.
NewBubble_OffByOne == item' = m_reqId + 2

\* startSearch appends a bubble for the answer: chatModel.count - 1.
NewBubble == item' = m_reqId + 1

StartSearch ==
  /\ status = "ready"
  /\ m_reqId < MaxQueries
  /\ NewBubble
  /\ sources' = NoSources
  /\ SendQuery
  /\ UNCHANGED <<vars, seen, bubbles>>

\* Bound: control messages.
ControlLeft == nCtl + Len(SelectSeq(outbox, LAMBDA type : type \in Controls)) < MaxControl

\* stopSearch and cancelQuery: the status stays busy until an answer comes.
StopSearch ==
  /\ status = "busy"
  /\ ControlLeft
  /\ bubbles' = IF item = 0 THEN bubbles ELSE [bubbles EXCEPT ![item].mark = "interrupted"]
  /\ item' = 0
  /\ streamingText' = <<>>
  /\ streaming' = FALSE
  /\ SendMessage("Cancel")
  /\ UNCHANGED <<vars, status, m_reqId, seen, sources>>

\* currentProfileIndex changes: switchProfile when the backend is ready.
ChooseProfile ==
  /\ status = "ready"
  /\ ControlLeft
  /\ SendMessage("Switch")
  /\ UNCHANGED <<vars, status, streaming, streamingText, m_reqId, seen, item, bubbles, sources>>

User == StartSearch \/ StopSearch \/ ChooseProfile

-----------------------------------------------------------------------------
(* handleMessage, with what the chat page does on its signals.             *)

Received == wire[seen + 1]

Reads(types) ==
  /\ seen < Len(wire)
  /\ Received.type \in types
  /\ seen' = seen + 1
  /\ UNCHANGED <<vars, m_reqId, outbox>>

\* onStreamingTextChanged
ShowText(text) == bubbles' = IF item = 0 THEN bubbles ELSE [bubbles EXCEPT ![item].text = text]

\* onErrorOccurred
ShowError ==
  /\ bubbles' = IF item = 0 THEN bubbles ELSE [bubbles EXCEPT ![item] = [text |-> <<>>, mark |-> "error"]]
  /\ item' = 0

Owned(m) == [i \in DOMAIN m.text |-> <<m.id, m.text[i]>>]

\* Mutant: the page is told before the text has grown.
ReadToken_ShowsEarly ==
  /\ Reads({"Token"})
  /\ streaming' = TRUE
  /\ streamingText' = streamingText \o Owned(Received)
  /\ ShowText(streamingText)
  /\ UNCHANGED <<status, item, sources>>

ReadToken ==
  /\ Reads({"Token"})
  /\ streaming' = TRUE
  /\ streamingText' = streamingText \o Owned(Received)
  /\ ShowText(streamingText')
  /\ UNCHANGED <<status, item, sources>>

\* Mutant: the status is left alone after an error.
ReadError_StaysBusy ==
  /\ Reads({"Error"})
  /\ streaming' = FALSE
  /\ streamingText' = <<>>
  /\ ShowError
  /\ UNCHANGED <<status, sources>>

ReadError ==
  /\ Reads({"Error"})
  /\ streaming' = FALSE
  /\ streamingText' = <<>>
  /\ status' = "ready"
  /\ ShowError
  /\ UNCHANGED sources

\* The status is left alone.
ReadBusy ==
  /\ Reads({"Busy"})
  /\ ShowError
  /\ UNCHANGED <<status, streaming, streamingText, sources>>

ReadDone ==
  /\ Reads({"Done"})
  /\ streaming' = FALSE
  /\ status' = "ready"
  /\ item' = 0
  /\ UNCHANGED <<streamingText, bubbles, sources>>

\* Mutant: the sources end the request.
ReadSources_Finishes ==
  /\ Reads({"Sources"})
  /\ sources' = [of |-> Received.id, at |-> item]
  /\ status' = "ready"
  /\ UNCHANGED <<streaming, streamingText, item, bubbles>>

ReadSources ==
  /\ Reads({"Sources"})
  /\ sources' = [of |-> Received.id, at |-> item]
  /\ UNCHANGED <<status, streaming, streamingText, item, bubbles>>

ReadPong ==
  /\ Reads({"Pong"})
  /\ UNCHANGED <<status, streaming, streamingText, item, bubbles, sources>>

ReadMessage == ReadToken \/ ReadError \/ ReadBusy \/ ReadDone \/ ReadSources \/ ReadPong

-----------------------------------------------------------------------------
(* The orchestrator, reading what the front end wrote.                     *)

Takes(type) ==
  /\ outbox # <<>> /\ Head(outbox) = type
  /\ outbox' = Tail(outbox)
  /\ UNCHANGED <<status, streaming, streamingText, m_reqId, seen, item, bubbles, sources>>

\* A switch to a profile the orchestrator does not know, or no longer knows.
SwitchUnknown == OtherRequest /\ ~active /\ reply'.type = "Error"

HandleMessage ==
  \/ Takes("Query") /\ (QueryBusy \/ QueryNotReady \/ QueryAdmit)
  \/ Takes("Cancel") /\ Cancel
  \/ Takes("Switch") /\ (SwitchRefused \/ SwitchUnknown \/ \E p \in Profiles : SwitchTo(p))

Quietly(A) == A /\ UNCHANGED chatVars

Orchestrator ==
  \/ HandleMessage
  \/ Quietly(QueryInstall \/ SendReply \/ ReadDeadline)
  \/ Quietly(\E g \in Gens : Pipeline(g) \/ Generator(g))

ChatNext == User \/ ReadMessage \/ Orchestrator

ChatSpec == ChatInit /\ [][ChatNext]_allVars

\* As in RequestManager, llama-server included; the serve goroutine reads what
\* is there, and so does the event loop of the front end.  The user may do nothing.
ChatFairness ==
  /\ WF_allVars(ReadMessage) /\ WF_allVars(HandleMessage)
  /\ WF_allVars(Quietly(QueryInstall)) /\ WF_allVars(Quietly(SendReply))
  /\ \A g \in Gens :
       /\ WF_allVars(Quietly(PipelineOwn(g))) /\ WF_allVars(Quietly(StreamCtxDone(g)))
       /\ WF_allVars(Quietly(SearchReturns(g))) /\ WF_allVars(Quietly(Rerank(g)))
       /\ WF_allVars(Quietly(GenStart(g))) /\ WF_allVars(Quietly(GenAbort(g)))
       /\ WF_allVars(Quietly(GenClose(g))) /\ WF_allVars(Quietly(LlamaAnswers(g)))

ChatFairSpec == ChatSpec /\ ChatFairness

-----------------------------------------------------------------------------
(* Properties.  The front end matches no request ids; while the user has    *)
(* neither stopped a request nor switched the profile, it needs none.      *)

Calm == nCtl = 0 /\ \A i \in DOMAIN outbox : outbox[i] = "Query"

\* A bubble shows the tokens of its own query, from the first one on in order,
\* and has the sources of its own query under it.
BubblesAreOwn ==
  Calm =>
    /\ \A q \in 1..MaxQueries : \A i \in DOMAIN bubbles[q].text : bubbles[q].text[i] = <<q, i>>
    /\ sources.at \in {0, sources.of}

\* A bubble that is left without an error shows every token of its answer.
AnswerShown ==
  Calm =>
    \A g \in Gens :
      LET q == reqId[g] IN
      q # 0 /\ item # q /\ bubbles[q].mark = "none" => Len(bubbles[q].text) = gen[g].made

\* The send button is enabled only while the orchestrator has no request of the
\* front end, or one that is about to let go of the slot.
ReadyMeansIdle ==
  Calm /\ status = "ready" => outbox = <<>> /\ \A g \in Gens : Live(g) => pc[g] = "release"

\* A busy front end becomes ready by itself, stops and switches or not, unless a
\* query was refused with Busy or the orchestrator has stopped reading.
BusyEnds ==
  status = "busy" ~> \/ status = "ready" \/ spc = "ended"
                     \/ \E i \in DOMAIN wire : wire[i].type = "Busy"
=============================================================================
