# Aseek: models, checks and proofs

Aseek is an offline assistant for Aurora OS. A Qt/QML front end starts a Go
*orchestrator*, which starts *llama-server*, searches remote document servers,
builds a prompt, and streams the generated answer back over a Unix socket. This
directory models the parts where processes, goroutines and messages meet, and
the Markdown parser that turns the answer into what the page shows. It checks
them with TLC on small instances, and proves with TLAPS, for every size of
instance, the safety of everything but the parser (the request manager and
what it delivers, what the chat page shows of it, the supervisor alone and
inside the process, the back end object of the front end), and, for every
answer, that of the parser's block phase.

    tlc -workers 2 -config RequestManager_slot.cfg MCRequestManager
    tlc -workers 2 -config Markdown.cfg MCMarkdown
    tlapm RequestManagerProofs.tla      (and the other *Proofs modules)

## 1. Inventory

`G` stands for `src/orchestrator/internal`.

| Component | State | Operations | Talks to | What is hard | What makes it correct |
|---|---|---|---|---|---|
| request manager (`G/request`) | one slot: `active`, `currentReqID`, `currentGen`, `cancel` | Query, Cancel, Ping, ProfileList, ProfileSwitch; the pipeline goroutine and its deferred release | every other part of the orchestrator | serve and pipeline goroutines share the slot and the connection; two critical sections per admission | one owner of the slot, never leaked; Cancel hits the running request; answers whole and in order |
| streaming engine (`G/streaming`) | a byte buffer, a ticker | `Stream` | generator (channel), IPC (send) | `select` between token, tick, context; failed flush | every token once, in order, before Done |
| llama client (`G/llama`) | none | `Generate` | llama-server (HTTP), engine (unbuffered channel) | no timeout, blocking offer | ends on `[DONE]`, error or cancellation |
| search pipeline (`G/pipeline`) | none | search each server, rerank, top three | search servers, reranker | partial failure, cancellation between servers | fails only if all servers fail |
| profile manager (`G/profile`) | list and active profile | read prompt, read servers, switch | request manager | two reads per request | one profile per request |
| prompt builder (`G/prompt`) | templates | system and RAG prompt | request manager | numbering of documents | |
| supervisor (`G/supervisor`) | `state`, `cmd`, `cancel` | Start, WaitReady, Stop; monitor and restart goroutines | llama-server process | Stop, crash, restart and a late WaitReady race | the monitor watches the process that Stop kills; restarts end; FATAL is final |
| orchestrator main | `done`, the contexts | start, signal handler, accept goroutine, exit | all of the above | order of the shutdown; what ends the process | a signal ends it; what an orderly exit leaves behind |
| IPC server, TLV codec (`G/ipc`) | connection, `closed` | Accept, Serve, Send, Close; framing | clients | one client; read deadline; blocking write | |
| Qt back end object (`src/src/backendprocess.cpp`) | status, process, socket, retry timer, streaming text | start, stop, retries, queries, messages | orchestrator, chat page | signals in any order; request ids ignored | busy ends, a usable status has a connection, no orchestrator is left behind |
| chat page (`src/qml/pages/MainPage.qml`) | bubbles, index of the streaming one, sources | search, stop, handlers of the signals | back end object | late messages of an earlier request | a bubble shows its own answer |
| command line client (`src/orchestrator/cmd/cli`) | REPL state | commands, Ctrl+C, Ctrl+D | orchestrator | as the chat page | |
| configuration, logger | read once; none | | | | |
| Markdown converter (`src/src/markdownconverter.cpp`) | none | `toHtml`, `parseToParts` | chat page, md4c | every partial answer is converted again while it streams in: any prefix of a text is an input | no text lost; HTML that nests |
| md4c (`src/src/md4c.c`, `md4c-html.c`, `entity.c`) | per call: the containers, `block_bytes`, the pivot line, reference definitions, `marks`, a budget | lines to blocks; marks to spans; HTML | Markdown converter | passes that share one array of marks; memories of failed searches; rules that restart a loop; blocks that change after the fact | see `Markdown` below |
| `src/old` | the front end before the orchestrator, not built | | | | |

The hazards this leads to are listed in `PROJECT.json` with the line where each
one bites and the properties that cover it.

## 2. Modules

| Module | Models | Proofs |
|---|---|---|
| `SingleFlight` | abstract: requests one at a time, each from one profile | |
| `RequestManager` | request manager, streaming engine, llama client, the control flow of the search pipeline, profile manager | `RequestManagerProofs` |
| `RequestDelivery` | what reaches the client, defined over `RequestManager` | `RequestDeliveryProofs` |
| `Supervisor` | supervisor and the llama-server processes | `SupervisorProofs` |
| `Orchestrator` | main, signal handler, accept goroutine, IPC server; EXTENDS `Supervisor` | `OrchestratorProofs` |
| `ChatSession` | queries and answers of the Qt object and the chat page; EXTENDS `RequestManager` | `ChatSessionProofs` |
| `BackendProcess` | process, connection and retries of the Qt object | `BackendProcessProofs` |
| `MarkdownText` | the text and what is recognised in it: raw HTML, entities, autolinks, labels, targets, titles, reference definitions | |
| `MarkdownBlocks` | the block phase: `md_process_doc`, `md_analyze_line`, `md_process_line` | `MarkdownBlocksProofs` |
| `MarkdownHtml` | the renderer `md4c-html.c` | |
| `MarkdownInlines` | the inline phase: `md_collect_marks`, `md_resolve_links`, `md_analyze_marks`, `md_process_inlines` | |
| `Markdown` | `parseToParts`, `md_parse`, `md_process_all_blocks`, leaf blocks and tables; the properties | `MarkdownProofs` |
| `MC...` | instances for TLC | |

### RequestManager

A step is what one goroutine does between two points where another can see it:
a critical section of `m.mu`, a `Send`, a channel operation, an HTTP call that
returns. `Gens` names requests by generation (`genID`). The serve goroutine
runs one handler to its end before it reads again: `spc` is `install` between
the two critical sections of `handleQuery`, and `reply` between a handler's
critical section and its `Send`. `pc[g]` is the place of the pipeline goroutine
in `runPipeline`, `gen[g]` that of the generator, and `buf[g]` the engine's
buffer. The unbuffered `tokenCh` is the joint step `StreamToken`. `wire` is what
was written to the connection. A write to a lost connection leaves nothing.
Messages carry `by`, which the client cannot see, to tell the handlers' answers
from the pipeline's.

Abstracted: a token is its number; a document only *exists* or not; the
supervisor's state is any at the moment `handleQuery` reads it; Stage notices
are not on the wire, because a failed one is only logged; Ping, ProfileList and
malformed messages share `OtherRequest`. Reranking ends or fails: the panic of
`Rerank` when a reranker returns more results than it was given documents
(`pipeline.go:208-213`) is left to `SearchPipeline` (section 5).

### Supervisor and Orchestrator

Processes are numbered by their start. `boot` is the goroutine of main in
`Start` and `WaitReady`, `mon` the only monitor goroutine. Between the check of
the context inside `cmd.Start` and the fork is a step of its own
(`RestartForks`), because Stop may come there. llama-server loads, serves,
crashes at any time. `Orchestrator` adds main with its deferred `cancel()`, the
handler with its four calls in order, the accept goroutine, which calls `Accept`
once, and clients that connect as soon as the socket listens. `ServeEnds` needs no cause: a lost client,
the five-minute deadline and a closed connection look the same to it. Nor does
`AcceptFails`: main takes any error of `Accept` for the end (`main.go:118-121`),
and then exits without closing the server. The context is cancelled only on the way out, so the
watchers of `os/exec`, which kill a process whose context is done (`ContextKills`), may be
gone with main before they have killed anything.

### ChatSession and BackendProcess

Both are one GUI thread, so a step is one handler with every signal it emits.
`ChatSession` puts the front end on the real wire of `RequestManager`: what the
user writes goes to `outbox`, which Serve reads in order, and `seen` counts the
messages handled. `streamingText` keeps the request id of every token, which the
code drops, so that a property can say whose token a bubble shows.
`BackendProcess` treats the orchestrator as a process that boots, listens,
closes and dies; a connection attempt on a local socket succeeds or fails before
`connectToServer` returns, so an attempt is one step. `stop()` and
`onOrchestratorFinished` use a `m_process` that the other one has reset; that is
undefined, and `NullUse` lets the front end go on or crash. Only the destructor takes
several steps, because the orchestrator goes on while it waits: `Quit` is
`stop()` up to `terminate()`, `StopTimesOut` the end of the five seconds and `kill()`,
`KillTimesOut` the end of the three seconds, after which `stop()` gives the process up,
`StopNotices` a wait that sees the end of the process and runs
`onOrchestratorFinished` inside `stop()`, and `QProcessDeleted` the kill and the wait in
the destructor of the `QProcess`. An orchestrator that Qt still has in `Starting` is
left to the last (`Execs`: it may run already).

### Markdown

A text is a sequence of tokens: a character, or a word of letters and digits,
whose width in bytes (`Width`) counts where the code counts bytes. A position is
an offset plus one, and the token behind the last is `"EOT"`. The modules are
layers: `MarkdownText` has no state but the text, `MarkdownBlocks` adds `line`
(the `MD_LINE_ANALYSIS` and the locals of `md_analyze_line`), `pivot`,
`containers` and `build` (`block_bytes`, `current_block`, the definitions),
`MarkdownInlines` adds `marks`, `memo`, `horizon`, `pairs`, `budget` and the
renderer `out`, and `Markdown` adds the parts of the answer and `todo`, which
stands for the call stack below `md_process_all_blocks`.

`pc` is the place in the parser, and a step is one pass of one of its loops:

| `pc` | Steps | Code |
|---|---|---|
| `part` | `TakePart`, `Shown` | the loop of `parseToParts` |
| `line` | `BeginLine`, `EndText` | the loop of `md_process_doc` and the descent into the containers |
| `rules` | one action for each rule (`CloseFence`, `BlankLine`, `SetextLine`, `HrLine`, `Brother`, `Child`, `TableLine`, ...) | one pass of the `while(TRUE)` of `md_analyze_line`; `Rule` is the order in which the code tries them |
| `tail`, `add` | `EndLine`, `AddBlank`, `AddSingle`, `AddSetextUnderline`, ... | the end of `md_analyze_line`; `md_process_line` |
| `blocks`, `tasks` | `OpenContainer`, `CloseContainer`, `ProcessLeaf`, `EmitEvents`, ... | `md_process_all_blocks`, the leaf blocks, the rows of a table |
| `collect` | one action for each kind of mark | the loop of `md_collect_marks` |
| `links` | `OvertakenPair`, `PlainPair`, `LinkPair`, `AnalyzeRest` | a pair of brackets in `md_resolve_links`; the passes of `md_analyze_marks` |
| `inlines` | `ProcessText`, `BreakLine`, `EndInlines` | the loop of `md_process_inlines` |

The flags are those of the converter, `MD_DIALECT_GITHUB`. Tables of names and
of entities, case folding and the hash of a label are constants; the instance
gives them a few entries, and a word is taken to be of ASCII letters and digits. The rest is
kept: the order of the rules, the early returns, the several memories that keep the
parser linear, the budget, the splitting of delimiters, the limits (32 backquotes,
999 characters of a label, 63 of a part of an e-mail address, and what a permissive
autolink jumps over, 3266-3271) and the errors of the code (see the disagreements).
Section 6 names what is left out.

## 3. Runs

| Run | Shows | Bounds |
|---|---|---|
| `RequestManager_slot` | types, ownership and no leak of the slot, order of the answers, one profile per request, Cancel hits the running request, refinement of `SingleFlight` | 2 queries, 1 control, 1 token, a profile with a server and one without |
| `RequestManager_answer` | tokens in order and complete; cancellation frees the slot; requests end | 1 query, 1 control, 3 tokens, 1 or 2 servers, unusable RAG template |
| `RequestManager_loss` | *violation*: after the client is lost the slot stays taken | 1 query, 2 tokens |
| `Supervisor` | types; the watched process is the one Stop kills; FATAL is final; a restart ends with a watched process or for good | 3 attempts, 2 health checks, 5 processes |
| `Supervisor_instance` | *violation*: two llama-servers run | as above |
| `Orchestrator_exit` | types, the supervisor's among them; what an orderly exit (signal, failed start, failed `Accept`) leaves of the socket file and of the llama-server in use; a signal ends the process; refinement of `Supervisor` | 2 attempts, 2 health checks, 4 processes, 1 client |
| `Orchestrator_gone` | *violation*: the orchestrator outlives its client | 1 attempt, 3 processes |
| `Orchestrator_orphan` | *violation*: an early signal leaves llama-server | 1 attempt, 3 processes |
| `ChatSession` | a bubble shows its own tokens and all of them; ready means idle; busy ends | 2 queries, 1 stop or switch, 1 token |
| `Markdown` | containers and blocks agree; the pivot; the lines of the blocks are in order; what is remembered changes nothing; the output is bounded, nests, loses nothing; every step advances | all sequences of up to 3 of 17 pieces of inline text, all texts of up to 3 of 14 lines, 40 longer ones |
| `Markdown_images` | *violation*: an element is output inside the attribute `alt` of an image | one text |
| `BackendProcess` | a usable status has a connection or a retry; one socket; starting, connecting and the death of the orchestrator settle; the destructor ends and leaves no orchestrator, though that may ignore SIGTERM | 10 retries, as in the code |

Why the bounds are enough. Two queries are needed for one request to meet the
release of the one before, and the slot a third would meet is the one the
second met; one control message can fall on any step of either. Three tokens make a flush
of two, a flush of one and a flush by the end of the stream possible in every
order. Two of the profiles differ in whether they have servers, the only thing a
request does with one. Two health checks are one that fails and one that may
still succeed; the processes are bounded so that a restart never runs out of
numbers. The fixed numbers of the code (three attempts, ten retries) are taken
where they are small. For Markdown, three pieces are an opener, a text or
another opener, and a closer, which is what an overlap of two spans or a wrong
memory needs; three lines are a block, a line that continues, ends or changes
it, and one more; the longer answers reach what needs more (tables, nested
lists, definitions over several lines, a budget that runs out, a comment that is
never closed and one that is). The width of the word `huge` makes three uses of
a definition exceed the budget.

`CHECK_DEADLOCK FALSE` is in every configuration but that of `Markdown`: the
client may stop asking, and the processes end. The parser may only stop when
the answer is shown (`Shown`), so there a deadlock would be a case that no rule
handles.

### Fairness

Goroutines and the Qt event loop run what they can run. A search or rerank call
ends, because its HTTP client has a timeout, and a call ends when its context is
done. Health checks and backoffs end. The supervisor's goroutines are fair only
until its context is cancelled: main does that on its way out and nowhere else, and takes them
along, so nothing is promised of them afterwards, not even that the processes
of the context are killed. In `Orchestrator` the process runs while `Alive`; the
accept goroutine is fair where `Accept` returns for a reason, a client or the close. In
`BackendProcess` a wait with a limit ends and SIGKILL takes effect, within the
30 seconds of the last wait; SIGTERM may be ignored. Nothing is assumed of the user, of signals, of crashes, or of
llama-server, whose HTTP client has no timeout; `Completes` and `LossReleases`
assume its fairness explicitly (`LlamaFairness`), `CancelReleases` does not.
`ChatSession` assumes it throughout.

`Markdown` assumes none: that the parser ends is the action property `Advances`.
`Left` is a tuple of what is left to do (parts, phases, the text, blocks, tasks,
lines, marks), and every step makes it smaller in the lexicographic order.

### Disagreements with the documents

* `RequestManager_loss`: a failed flush ends `Stream`, the generator blocks on
  the unbuffered channel, nothing cancels it (`orchestrator.md`, 3.3).
* `Supervisor_instance`: a restart attempt that fails its health check leaves
  its process (`orchestrator.md`, 2).
* `Orchestrator_gone`: the end of `Serve` does not close `done`
  (`orchestrator.md`, 3.3).
* `Orchestrator_orphan`: signals are handled only after the model is loaded
  (`README.md`, lifecycle).
* `Markdown_images`: an image may begin in the target of a link; it is left but was
  never entered, and behind it the renderer counts one image too few. The level of
  nesting is then negative, and the next image has elements in its `alt`
  (`md4c-html.c:445`, "So lets suppress them and only output the plain text").

In md4c, without a run of their own; the first is excluded from `TagsNest` by
name (`DelimiterInTarget`), the model has all the others as the code does:

* `[a](*u) b*` gives a stray `</em>`. `md_analyze_marks` steps behind a resolved
  link (4048-4061) without moving `last_end`, so the test at 4071, for marks that
  are inside a resolved one (comment at 4070), lets a delimiter in the target pass.
* A row of a table is scanned before its cells, and a closer of raw HTML that was
  not found there is not looked for in the cells, where another one may be
  (1204, "we know there is nothing to see"). In `|<!--a--><!--|b|` the first
  comment is shown. `MemoryAgrees` says that this happens in cells only (`InCell`).
* A definition whose title spans lines and has text behind it on its last line
  is taken, and the text is lost (2206-2226, against the comment at 2206).
* The hash of a label keeps a trailing blank that the comparison ignores
  (1600-1628): with two definitions or more, `[foo ]` is not found.
* `[https://a.com/?a&b](/u)` gives nested links: 3646 tests the first mark where
  the last is meant.
* In a code fence in a block quote, the search for a closing fence moves the
  offset also when it fails, behind what it read outside the quote (5886-5887):
  `> ~~~`, `~~`, `foo` loses the `~~`.
* `<![CDATA[` never starts its kind of HTML block: the test for a declaration
  before it accepts any ASCII character (5481).
* Runs of 32 backquotes are looked for but not remembered (2806 against 2843): behind a
  search that has reached the end of the block none is found. No answer gets
  there, because `parseToParts` splits at three.
* A task mark is not recognised in `- > a`, `- [ ] b` (6194), and an item that is
  only a mark and blanks interrupts a paragraph, against the comment at 6079.

Seen while modelling, without a run of their own: FATAL is never reported, a
second client is never rejected because `Accept` is called once, a query sent
on receiving Done can be answered Busy because Done is written before
the deferred release, and Cancel is answered with Done by the serve goroutine
while the pipeline goroutine still flushes tokens (`cmd/cli/spec.md`, 5.2, takes
Done for the end of the answer): `AnswersInOrder` is about what the pipelines write.
A `WaitReady` that is still polling overwrites FATAL, which `FatalIsFinal` exempts
by name. When main exits while a restart is under way, the
llama-server that it has just started, or starts after its last look at the context,
survives, because the watcher that would kill it ends with main: that is the
exception in `OrderlyExit`. An `Accept` that fails by itself leaves the socket file, which the next start removes. The default prompt opens a document with
`Index+1` and closes it with `Index` (`builder.go:73`).

## 4. Proofs

What the theorems say holds for any number of queries, controls, tokens,
profiles, servers, clients, start attempts, health checks, processes and
retries, and for every set of answers, of any length.

| Module | Theorem | Statement |
|---|---|---|
| `RequestManagerProofs` | `TypeCorrect` | `Spec => []TypeOK` |
| | `SlotOwned` | `Spec => []Ownership` |
| | `SlotNotLeaked` | `Spec => []SlotHeld` |
| | `ProfileStable` | `Spec => []OneProfilePerRequest` |
| | `CancelHits` | `Spec => CancelReachesLive` |
| | `Refines` | `Spec => ImplementsSingleFlight` |
| `RequestDeliveryProofs` | `AnswersOrdered` | `Spec => []AnswersInOrder` |
| | `TokensOrdered` | `Spec => []TokensInOrder` |
| | `AnswersComplete` | `Spec => []AnswerComplete` |
| `ChatSessionProofs` | `ImplementsManager` | `ChatSpec => Spec` |
| | `ChatTypeCorrect` | `ChatSpec => []ChatTypeOK` |
| | `ReadyIdle` | `ChatSpec => []ReadyMeansIdle` |
| | `BubblesOwned` | `ChatSpec => []BubblesAreOwn` |
| | `AnswersShown` | `ChatSpec => []AnswerShown` |
| `SupervisorProofs` | `TypeCorrect` | `SupSpec => []SupTypeOK` |
| | `Watched` | `SupSpec => []WatchedIsCurrent` |
| | `FatalStays` | `SupSpec => FatalIsFinal` |
| `OrchestratorProofs` | `Refines` | `Spec => ImplementsSupervisor` |
| | `SupervisorInProcess` | `Spec => []WatchedIsCurrent /\ FatalIsFinal` |
| | `LifeTypeCorrect` | `Spec => []TypeOK` |
| | `ExitIsOrderly` | `Spec => []OrderlyExit` |
| `BackendProcessProofs` | `TypeCorrect` | `Spec => []TypeOK` |
| | `Usable` | `Spec => []UsableOrRetrying` |
| | `SocketKept` | `Spec => []OneSocket` |
| | `NothingLeft` | `Spec => []QuitStopsOrchestrator` |
| `MarkdownBlocksProofs` | `KillerIsRight` | `Spec => []KillerAgrees` |
| | `ContainersAreOpen` | `Spec => []ContainersMatchBuilt` |
| | `PivotIsOfTheBlock` | `Spec => []PivotIsCurrent` |
| | `LinesAreInOrder` | `Spec => []LinesInOrder` |
| `MarkdownProofs` | `ConversionAdvances` | `Spec => [][~InlinePhase => Precedes(Left', Left)]_vars` |

Assumptions: those the modules state of their constants (bounds are natural
numbers, a profile exists, `NoProfile` and `NoClient` are none of their kind,
an answer is a finite sequence of tokens).

None of the invariants is inductive alone; each module begins with the
strengthening that is, and TLC checked every conjunct on the instances above
before it was proved.

**Request manager.** `IInv` adds to types, ownership and
`SlotHeld` what handlers rely on between their steps: while `handleQuery` is
between its critical sections the slot is taken, no pipeline runs and the
installed generation is fresh; generations above `currentGen` have never
started; with the slot free `m.cancel` is nil; the prompt a running request has
read is the active profile's, because a switch is refused while the slot is
taken; `currentGen` never passes the last request id (`GenBound`); and a request
at its release has a verdict (`Decided`), which the refinement needs to finish
it. The proof has one step per action; `PipelineFrame` and its companions say once
what a goroutine leaves alone. The refinement maps each step to
`Admit`, `Finish`, `Switch` or a stutter: a request is admitted with its first
critical section and finished with its release.

**What reaches the client.** `OrderInv` says why answers do not mix, although
two goroutines write: request ids grow with admission (`IdsAscend`), a handler
never writes a token, and what is on the wire is of requests no newer than the
current one, with a terminal message only once its pipeline is about to release
the slot (`WireBehind`). `DeliveryInv` follows the tokens from the generator to
the wire: the pipeline and the generator agree on where they are (`GenAgrees`),
the engine has taken all that was made but for one on offer (`Taken`), and wire
and buffer together are the first of these, in order (`Carries`). A flush moves
the buffer to the wire (`DeliveredMore`). No induction over sequences is needed,
because `TokensInOrder` is stated by the places of the tokens on the wire rather
than by a concatenation of messages.

**Chat.** A step of `ChatSession` is a step of `RequestManager` or leaves it alone
(`ImplementsManager`), so that every invariant above holds in the chat, and with a
client that stays and a base context that is never cancelled (`Connected`).
`SentInv` says what the front end may find on the wire: a message of a pipeline has
the id of a request that has started, Done means that the pipeline has answered
(`SentBy`), and as long as nothing was cancelled or switched no handler writes Done.
`ChatInv` is about a calm chat, in which the user has neither stopped nor switched;
no step leads back to one (`CalmStep`). Its `Protocol` is why the code needs no ids:
one request is under way at a time, every unread message is the current query's,
the bubble being filled is the current query's while there is one, and a terminal
message is the last of its answer. With it, the
tokens read of a query (`Heard`) are the first ones of its answer and are what its
bubble shows (`Filled`); a new message continues them because `Delivered` holds for
the request (`NextTokens`); and Done is read with nothing behind it, so
that all of the answer has been heard (`DoneIs`, `AllHeard`).

**Supervisor and process.** The invariant of the supervisor says that no monitor
runs before `Start` has recorded a process (`BootFirst`), that the loops stay in
their tables of delays (`Counted`), that the process a restart waits for is the
one it recorded (`Recorded`), and that the bound on processes is no restriction
(`ProcsAgree`, `Room`). `WatchedIsCurrent` and `FatalIsFinal` rest on these.
`Orchestrator` calls the supervisor from main, the signal handler and the end of
the process; that each call is one `Supervisor` allows by itself is a
refinement, so that its theorems hold in the process. `ExitIsOrderly` needs the
order of the shutdown (`LifeOrder`): main stops only when `done` is closed, by a handler that
has closed the server and its socket, or by an `Accept` that has failed and thus let
no client in; a start that fails has no server yet. And it needs that
Stop is for good (`Stopped`, `ExitInv`): it kills the process in use, and
afterwards only a restart that had passed its look at the context, or is in a
later attempt, puts another in its place.

**Back end object.** `UsableOrRetrying` and `OneSocket` are inductive only
together, and with `NoSocketYet`: while the process is starting there is neither
a socket nor a timer, which is why `onOrchestratorStarted` may arm the timer.
`NothingLeft` rests on `Reaped`, which follows the process through the destructor:
`stop()` waits only for a process that Qt knows to run, one that was forgotten
(`m_process` is null) has ended or is left to the destructor of the `QProcess`, and that
one returns when it has ended.

**Markdown.** `KillerAgrees` is about a memory: having looked for a thematic break
in vain, `md_analyze_line` keeps where that search ended (`hr_killer`) and does not
look again before it, although container marks move it on meanwhile. The invariant
`Spared` says that what is kept is the end of a failed search that began at or
before the present position, and that it is kept only while the line has no
pivot any more, so that the scan for a closing fence, which moves the position
too, does not meet it. The rest is about scans: one that begins inside of another
ends where that one ends (`SkipOn`), so that a break inside would be one outside
(`NoBreakInside`). The provers cannot use the library's induction theorems, but
they can use that a nonempty set of natural numbers has a least element
(`LeastNat`), which is enough to show what a scan returns (`SkipIs`) and that the
recursive function which splits an answer at its fences exists and returns texts
(`SplitType`).

`ContainersMatchBuilt` relates two data structures that no code compares: the
array of containers, and `block_bytes`, an append-only log of openers and closers
from which ends of blocks also take entries away. `Unclosed` is what a reader of
the log finds open. The folds that write it (`Leave`, `Enter`, the descent of
`DescendFrom`) and the recursive functions that read it are unrolled with
`LeastNat` as above (`LeaveFold`, `EnterFold`, `IntoFold`, `OpenedExists`,
`PlacesAre`). Then: what is open after a log and one more entry (`UnclosedNext`);
what changes nothing of it, as a leaf, its removal, or the mark of a loose list
(`Keeps`); and each operation of the build, which changes it by just the containers
it is called with (`EnterIs`, `LeaveIs`, `NextItemIs`, `EndBlockIs`).

The invariant `BlocksInv` has a part for each place in the parser. In the middle of a
line `containers` and the log differ, and it says by what: while the line is analysed
(`InRules`, `InTail`), what is open are the first containers, up to the parents; the
children are opened only when the line is added. The container a brother takes
over is a list, so that the item can be closed and opened again; a line that
has met no container mark still has the pivot of the line before. The pivot
fits the block (`PivotFits`): the underlines
of headings and tables occur with a block only; a
block under construction is never a heading, because `md_end_current_block`
ends it in the step that makes it one; and a setext heading that is all
definitions becomes a paragraph, whose pivot is then its text. `AllClosed` is the
rest of the first theorem: `md_process_doc` leaves every container at the end,
and nothing writes to the log afterwards.

`LinesInOrder` needs to know how far the parser is. `Built(b, e)` says that the
lines of a build, those of its current block after all others, are in order,
none ends before it begins, and all end before `e`. The invariant (`OrderInv` of
`MarkdownBlocksProofs`) carries it through a line: while the line is analysed
(`Reading`) the build ends before its first character, every rule leaves the
position at or behind where the line begins, and when it is added (`IsRead`) its
contents are behind the build and end before the next line. Every scan is
bounded for that from both sides (`SkipIs` and its like). What is added to a
build goes behind it (`BuiltOn`); what is taken away, the lines that were reference
definitions or all lines but the last one of a table's head, leaves parts of
what was in order. A definition may end inside a line, which
then begins later than it did, but never behind its end: `EatFold` is unrolled
for that as the other folds are.

`ConversionAdvances` is the part of `Advances` outside of the inline phase. `Left` has
nine components, and the first that changes has to get smaller. In the block phase a rule of
`md_analyze_line` that is tried again has moved the line, or has cleared what made
it apply (`RetryAdvances`); adding the line to a block lowers `Rank`; and a line
that ends moves the position, because `OrderInv` has kept the line at or behind
it. Around the phases it is about the tasks of a leaf block. The
step that replaces a row of a table by its cells makes the list longer: what gets
smaller is the number of rows, if the first task is the row that was analysed
(`RowNext`, which the inline phase leaves alone) and no cell is a row (`CellsFree`).
`TasksInv` carries that, with what a task is; the folds that make the
tasks of a block and of a row are unrolled (`FlattenFold`, `CellsAre`).

Only model-checked: all liveness and what needs fairness (`CancelReleases`,
`Completes`, `RestartSettles`, `SignalStops`, `QuitEnds` and the like), which is outside the prover's reach;
and of `Markdown` the types, what the inline phase does (`MemoryAgrees`,
`TagsNest`, `TextInOrder`), `OutputBounded`, and `Advances` in the inline phase. They
compare what folds and recursive functions over whole texts and marks compute, a
proof the size of a verified parser; that the inline phase advances rests, besides,
on what stands between the lines of a block.

## 5. Plan

In order of importance:

1. done: `RequestManager` with its proofs, `Supervisor`, `Orchestrator`,
   `ChatSession`, `BackendProcess`, `Markdown` with its four layers.
2. `SearchPipeline`: the documents themselves. Concatenation of the servers'
   results, reranking with its holes and its out-of-range writes, top three, the numbers in
   the prompt against the numbers in Sources. Abstract: the three best.
3. `TlvStream`: encoding, `ReadMessage` and the incremental `readHeader` over a
   stream cut anywhere, with a read deadline in the middle of a message.
4. `CliClient`: REPL, Ctrl+C and its three-second timer, Ctrl+D, over
   `RequestManager`, as `ChatSession` does it.
5. The memories of the inline phase (`MemoryAgrees`): a proof on the model of
   `KillerIsRight`.

## 6. Not modelled

Configuration and logger (read once; output only), the previous front end under
`src/old` (not built; its md4c is a copy of the one modelled), in md4c what the
converter's flags turn off (wiki links, formulas, underlining), UTF-16, zero
bytes, carriage returns, letters beyond ASCII and failures of `malloc`, layout in QML, progress notices, a `Write` that blocks on a full socket buffer,
`MkdirAll` and other file-system failures at the start beyond their exit, the
panic of `Rerank` (`SearchPipeline`, section 5), and a QProcess that does not end
within 30 seconds of SIGKILL.
