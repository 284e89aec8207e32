# work9flow in TLA+

work9flow is a daemon, `work9flowd`, that drives *workflow runs* through the
stages of a feature-development workflow. Every stage starts an agent over the
DSH protocol, waits for its verdict and moves the run on. Runs, events,
findings, artifacts and questions are rows of one SQLite database that the
daemon's worker goroutine shares with its HTTP handlers. A terminal client,
`work9flow`, creates, watches, answers and cancels runs.

This directory holds TLA+ models of that system, the TLC configurations that
check them on small instances, and theorems about them with TLAPS proofs.

    tlc -config engine_race.cfg MCRunEngine      # about two minutes
    tlc -config event_stream.cfg EventStream     # about two minutes
    tlapm RunEngineProofs.tla                    # about half a minute
    tlapm EventStreamProofs.tla                  # about two minutes
    tlapm RunDatabaseProofs.tla                  # less than a minute
    tlapm AgentSessionProofs.tla                 # about two minutes
    tlapm TuiWatchProofs.tla                     # about a minute

## Inventory

| component | code | state | operations | what is hard |
|---|---|---|---|---|
| domain | `internal/domain` | none (values) | `CanTransition`, `IsTerminal`, blocking classes, attention life cycle | nothing but its users' discipline |
| workflow | `internal/engine/featuredev` | none (six stages) | a runner and a transition per stage | verdicts that a transition ignores |
| engine | `internal/engine` | none of its own; locals of `Step` | `Step` | a stale copy of the run, discarded errors, crashes |
| worker | `internal/runtime/worker` | the tick's list of runs | `tickOnce` | runs that change while others are stepped |
| storage | `internal/storage` | tables `runs`, `events`, `findings`, `artifacts`, `attentions`, `clarifications` | one or two statements per method | check and write apart, deferred transactions |
| handlers | `internal/runtime/server.go` | none; locals of a request | create, cancel, answer, steer, follow-up, lists | interleaving with the worker and each other |
| event stream | `internal/runtime/ws.go` | subscribers and their buffers | subscribe, publish, replay | duplicates, order, lost events, closed channels |
| agent runner | `internal/agents` | none; locals of `Run` | session, poll, persist | timeouts, partial persistence |
| DSH adapter | `internal/dsh` | none | normalise, HTTP calls | events that are dropped |
| inline DSH | `internal/llm/localdsh` | sessions | create, followup, steer, cancel, events | a completion outside the session's lock |
| terminal client | `cmd/work9flow` | the model of the TUI | messages, keys, watch | messages of a watch that is over |
| daemon | `cmd/work9flowd` | none | start, stop | stop without waiting for the worker |

They interact through the database above all. The worker calls `Engine.Step`,
which calls a stage's runner, which calls the agent runner, which calls DSH and
stores what the agent reports; the handlers write the same rows without any
lock that the worker would respect. Only handlers publish to the event stream.

What makes each correct, in a sentence:

* domain, engine, worker, storage, handlers together: a run moves along the
  edges of the graph, past no review without its verdict, within its budget, and
  ends; a cancellation ends it for good;
* event stream: a watcher of an open stream misses, repeats and reorders no more
  than the code's own shortcuts explain, and never holds up a handler;
* storage: sequence and version numbers have no gap and no duplicate;
* attention: an answer stands once the calls that were under way with it are over;
* agent runner, adapter, inline DSH: what the agent reported for *this*
  instruction is stored once and decides the stage;
* terminal client: it leaks no connection, reads the watch that it relies on, and
  recovers what it missed.

`PROJECT.json` lists every hazard at its line.

## Modules

| module | what it is | code |
|---|---|---|
| `Domain` | states, edges, blocking classes, event kinds | `domain.go` |
| `FeatureDev` | stages, results of runners, routes of transitions | `featuredev/workflow.go`, `resolveNextStage` |
| `RunLifecycle` | abstract specification: create a run, move it along an edge, each in one step, and what the race with a cancellation may do to a terminal state | `CanTransition`, ARCHITECTURE.md |
| `RunStore` | the tables and the statements on them | `repo.go` |
| `RunEngine` | worker, handlers and crashes on that store; the properties | `engine.go`, `worker.go`, `runner.go`, `server.go`, `main.go` |
| `MCRunEngine` | instances for TLC | |
| `RunEngineProofs` | theorems and proofs about `RunEngine` | |
| `EventStream` | the appends of one run's log, the broker and the WebSocket streams; the properties | `ws.go`, the ends of the handlers in `server.go`, `EventsAfter` |
| `EventStreamProofs` | theorems and proofs about `EventStream` | |
| `RunRecords` | abstract specification: a run's append-only events, clarifications and artifacts | `EventLog`, `RunClarifications`, `RunArtifacts` in `domain.go` |
| `RunDatabase` | the same records in SQLite, under concurrent transactions, failures and crashes; answers to attentions; a client that pages through events | `repo.go`, `handleRunEvents` |
| `RunDatabaseProofs` | theorems and proofs about `RunDatabase` | |
| `AgentAttempts` | abstract specification: attempts of a stage, one at a time, each of which stores what its agent said and returns it, or gives up | `Runner.Run`, `Outcome` in `runner.go` |
| `AgentSession` | the agent runner, the DSH client and the DSH they talk to | `runner.go`, `adapter.go`, `localdsh/server.go` |
| `MCAgentSession` | the reports that TLC tries | |
| `AgentSessionProofs` | theorems and proofs about `AgentSession` | |
| `TuiWatch` | the terminal client's model, its commands and its watch | `cmd/work9flow/model.go`, `client.go` |
| `TuiWatchProofs` | theorems and proofs about `TuiWatch` | |

The modules of the engine build on each other by EXTENDS, in that order;
`RunEngine` is their composition. `RunLifecycle` is instantiated by `RunEngine` as
the refinement target. `EventStream` stands alone: what it needs of the engine is
that the worker appends without publishing, and of the database that an append
gives the next number in one step, which `RunDatabase` justifies: it instantiates
`RunRecords`, where an append is one step, as its refinement target. `AgentSession`
opens up what `RunEngine` has as `LaunchAgent`, `AgentCompletes`, `StoreReport` and
`RunnerFails`: it instantiates `AgentAttempts`, whose `Begin`, `Complete`, `Store...` with
`Return`, and `GiveUp` are these four, with the items of a report one by one; that
`RunEngine` assumes no more of the runner is a matter of reading the two side by side. `TuiWatch` is on the other side of the HTTP interface and takes of the
daemon only the number of events that each run has.

### State and code: the engine

| variable | in the code |
|---|---|
| `state`, `stage`, `workflow`, `counters` | the columns of `runs`; `"ABSENT"` is a row that does not exist |
| `findings` | the classes of the unresolved rows of `findings`; only the four blocking classes are kept, because nothing tells the other two apart |
| `attention` | the one row of `attentions` that the engine can create: it never sets an ID, and `""` is a primary key |
| `logged` | the kinds in each run's event log, as a set; numbers and order are the business of a later module |
| `pc`, `job` | where `Engine.Step` is and its local variables (`run`, `stageKey`, `result`, `next`) |
| `queue` | what is left of the tick's list |
| `request` | a handler's place and local variables |
| `faults` | bounds crashes and failing statements |
| `launches`, `approved`, `late` | history, read by properties only: sessions created per stage, the reviews whose last verdict lets the run's latest plan or implementation go on, sessions created since the run became terminal |

An action ends where the code issues its next statement to SQLite or its next
call to an agent. So `UpdateRunState` is two actions, for the worker
(`WorkerCheck`, `WorkerWrite`) as for the cancel handler (`HandleCancel`,
`CancelWrite`): its `SELECT` and its `UPDATE` are two statements without a
transaction. `IncrementIteration` also reads and updates, but nobody else writes
that column, so it is one action. What follows a statement up to the next one,
early returns included, belongs to the action of that statement.

`RunnerFails` is every way in which `agents.Runner.Run` returns an error (no
session, no answer to the follow-up, a failing poll, the poll budget spent).
`WorkerStatementFails` has one disjunct per way in which the code treats a failing
statement: returned, discarded by `_ =`, or a report stored in part. The loss of
the answer to a created session is a launch followed by a failing append.
`Restart` is a crash as well as a shutdown, because `main` does not wait for the
worker.

Left out of the core on purpose: payloads, reasons and times; artifacts and
sequence numbers; the order of the tick's list, on which nothing depends, since
the runs are stepped one after the other whatever their order; the answers to
attentions, which cannot reach the row with the empty ID (the route
`/v1/attentions/{id}/answer` matches no empty segment) and which no stage reads. A
read that fails at the start of `Step` changes nothing and the next tick repeats
it, so it is no action; without a DSH provider the daemon starts no worker.

### State and code: the event stream

| variable | in the code |
|---|---|
| `log` | the rows of `events` of one run: who appended the event with each number; kind and data are left out |
| `handler` | where each HTTP handler is between its `AppendEvent` and its answer: about to publish, or in the loop over `subs`, with the event and what is left of the snapshot |
| `subscribers` | `publishBroker.subscribers[runID]` |
| `place`, `after`, `history` | where each stream's handler is, the client's cursor, what is left of `events` |
| `channel`, `closed` | `sub.ch` |
| `replayed`, `forwarded` | what was written to the connection, before and in the live loop |
| `old`, `upto`, `missed` | history, read by properties only: the events published before the stream subscribed, the last number when it read the log, the events the code skipped for it |

An action ends where another goroutine can come between: after the append, after
the broker's lock is released, after each send, after each write to the
connection. Five handlers (create, cancel, answer, steer, follow-up) end in the
same two steps, append and publish, so one pair of actions stands for all of them.
The lock is held for the snapshot only, so `Publish` is one action and `Send` is
another for every subscriber, in any order, because a map is ranged over.

`StreamEnds` and `CloseChannel` are apart, because `cancel` closes the channel after
it has released the lock: `SendPanics` is what a publisher with an older snapshot
then meets. net/http recovers the panic, the rest of the snapshot is skipped.
`ReadHistory` has a disjunct for a read that fails, whose error the code ignores.

A stream is one request: a client that reconnects is another stream, with the
cursor it likes. A restart of the daemon ends all streams and forgets the broker,
which is in memory, so it shows nothing that the end of every stream does not. An
append that fails makes the handler answer 500 and changes nothing.

### State and code: the database

| variable | in the code |
|---|---|
| `events`, `clarifications`, `artifacts` | the rows of each run, as functions of their primary key; that they stay sequences is part of what is shown |
| `activeVersion` | `runs.active_artifact_ver`, one JSON object that `AddArtifact` rewrites as a whole |
| `attention` | status and answer of each row of `attentions` |
| `writer` | the connection with SQLite's write lock |
| `tx` | what each connection of the pool is doing: nothing, about to answer an attention that it found open, or in a transaction with what it read from its snapshot |
| `cursor`, `seen` | the client of `GET /v1/runs/{id}/events`: `latest_seq` of its last page, which is 0 when the page was empty (`LatestSeq`), and all it was ever given |

An action is a statement. SQLite is modelled by what its WAL mode promises, and by
what the code asks of it: `BeginTx(ctx, nil)` is a deferred transaction, which takes its
snapshot with the first `SELECT` and the lock with the first write; a transaction
whose snapshot is older than the last commit cannot become a writer (`MayWrite`).
A wait for the lock that succeeds is an interleaving in which the statement comes
later, and one that does not is `Fail`, as is every other failing statement. `Crash`
may come anywhere. `Insert` would overwrite a row that has the number: that it never
does follows from `MayWrite`, not from the shape of the table, and the primary key is a
guard of `InsertRow` of its own.

Only one row of `runs` per run matters here, and it exists: nothing deletes runs.

### State and code: the agent's session

| variable | in the code |
|---|---|
| `dsh` | whether `main` was given an endpoint (`external`) or started the inline server |
| `created`, `session` | the sessions: message, canceled and completion of the inline server, the stream of an external one |
| `request` | where the server is with the `GET` of each session's events: the inline one copies the message, lets go of the lock, asks the model and stores what it said |
| `run` | where `Runner.Run` is, with its locals; `late` says that the deadline has passed |
| `result` | what `Run` returned for each session |
| `log`, `artifact`, `finding` | the run's events, artifact versions and findings, each with the session that it is from |

Every call and every append has a disjunct in which it fails, with the two ways in which
the code treats that: returned (`ReturnError`), or discarded for events. The answer to
a call may be lost after DSH has acted on it. An abandoned session goes on: an
external agent emits more events, an inline completion ends and is stored.

Of a report the model keeps its outcome, whether it parses, and which items say enough
to be stored; of the kinds of raw events the one that ends the poll, one that does not,
and one that `Normalize` drops. Follow-ups and reads of events by other HTTP clients
are left out: the inline server listens on a port of its own that only the daemon
knows, and the daemon's own steer and follow-up handlers append an event and do not
call DSH. Steer and cancel are kept, as the two operations that touch a session while
its completion runs.

### State and code: the terminal client

| variable | in the code |
|---|---|
| `view`, `current`, `runs`, `eventSeq` | the fields of `model` of these names |
| `watch` | `wsCancel`, `wsChan` and `wsRunID`; they are not always set together, and the model keeps them apart for that reason |
| `backoff` | `wsBackoffUntil` is in the future |
| `conn` | the WebSockets that were dialled, with the channel that their goroutine fills |
| `pending` | the bag of commands that run and messages that wait: bubbletea runs each command in a goroutine, so their messages come in any order |
| `log` | the number of events of each run in the daemon, which also stands for what the list of the runs shows of it |

`Update` is one action per message, with everything it does up to the commands that it
returns; `RefreshCurrent` is shared by the tick and the answers to actions. Nothing
else in the model decides what is asked next, so the texts, the attentions and the
prompt are left out. `EventsAfter` does what `Client.do` makes of its path: with a cursor
the answer is 404.

## Properties

Kept by the engine (`RunEngine`):

* `TypeOK`: the type invariant.
* `LaunchBudget`: a stage of a run starts at most `IterationLimit` agents.
* `ReviewsAreHeeded`: a run is being implemented only if the gatekeeper let its latest
  plan go on (to the user, if it had questions), and it is `DONE` only if besides the
  reviewer approved its latest implementation. A new plan or implementation takes the
  approval back. The property reads the row, the verdict is in the worker's locals, and
  between them are a question that may collide, failing statements, restarts and
  cancellations that are overwritten.
* `NeverStranded`: stage and state of a row agree until the run ends, and no
  transition that a stage returns is refused. It is the reason why two of the
  errors of `Step` cannot happen, although the cancel handler writes the row
  with a stage that it read before.
* `AtMostOneLateLaunch`: after the end of a run at most one more agent is
  started for it.
* `EventsNeverLie`: `workflow.completed` and `workflow.failed` in the log agree with
  the row, for good, or a cancellation that read the row earlier has marked it
  `CANCELED` since.
* `EveryRunSettles`: a run of the registered workflow ends for good.
* `LifecycleSpec`: `RunEngine` implements `RunLifecycle`. Every write follows an edge of
  the graph from the state that the row has at that moment, except where a cancellation
  and the worker race (`LRace`): then a terminal state is overwritten, and the old or the
  new one is `CANCELED`. So a run that is `DONE` or `FAILED` is never taken up again.

Kept by the event stream (`EventStream`), all of them about every order of appends,
publications, replays and departures:

* `TypeOK`: the type invariant; no buffer outgrows its capacity, and what is on its way to
  a client has the number of a stored event (`Numbered`).
* `NothingLost`: an open stream has delivered, holds, or is about to be sent every
  event after its cursor, except what the code skips (full buffer, failed read of
  the history, publisher that panicked) and what the worker appended after the
  stream read the log. The order of `subscribe` and `EventsAfter` is what it is about.
* `RepeatsOnlyInFlight`: what a client sees a second time, or although its cursor
  says that it has seen it, was not yet published when its stream subscribed; and it
  sees nothing three times.
* `AuthorOrder`: two events of one goroutine reach a client in the order in which
  they were appended. Events of different goroutines may not: two handlers
  overtake each other between append and publish.
* `HandlersReturn`: a handler that publishes gets to the end of its loop, whatever the
  streams do.

Together they say what a client may rely on: numbers may repeat, may be missing and
may come out of order, so it has to keep the largest number it has no gap below, and
the events of the worker come with the next replay only.

Kept by the database (`RunDatabase`):

* `RecordsSpec`: the repository implements `RunRecords`, that is, every commit is one
  `Append` or `Add` of the domain's types, numbers and versions have no gap and no
  duplicate, `prev_seq` is the number before, and nothing uncommitted shows.
* `ActiveIsLatest`: the active pointer of each artifact is its latest version, although
  two artifacts share one JSON object that is read, changed and written back.
* `ReadersMissNothing`: a client that goes on from `latest_seq` has every event up to its
  last one, and goes on from that one or, after an empty page, from the beginning. With
  numbers from a counter outside the transaction this would fail.
* `OverwritesRunOut`: an answered attention stays answered, and only the calls that had
  found it open (`Answering`) can still replace the answer, each of them once. That there
  are such calls at all is `AnswerIsFinal` below.
* `LockReleased`: whoever takes the write lock gives it back.

Kept by the runner (`AgentSession`):

* `LogInOrder`: the run's history has each event of each session once and in order,
  session after session, although every poll reads the stream from its beginning.
* `ReportBeforeVerdict`: when `Run` returns a verdict, all that the agent reported is
  stored, and the last version of each artifact it reported is its own.
* `OwnAnswer`: the inline model's verdict answers the stage's instruction, never
  guidance alone, and a model that could not be asked is a failure.
* `RunReturns`: `Run` comes back, whatever DSH does.
* `AttemptsSpec`: `AgentSession` implements `AgentAttempts`. Each attempt has one completed
  event; what `Run` stores is what this event says, whatever the stream says later, and
  under this attempt; and the verdict is this event's outcome, after all of it is stored.

Kept by the terminal client (`TuiWatch`):

* `NoLeakedWatch`: an open connection is the one that the model can close, and none is
  open on the dashboard and after the end.
* `LiveWatchIsRead`: while the client relies on a watch and does not poll, somebody reads
  its channel, or a message is pending that continues or ends it; nobody reads the
  nil channel.
* `DashboardCatchesUp`: on the dashboard the list becomes what the daemon has.

Stated by the repository and not kept (each has a run that shows it):

* `TerminalAbsorbing` ("Terminal states are absorbing", `domain.go:44`): the worker's
  write overwrites a `CANCELED` that was written after its check. The agents go
  on and the client that got its 204 sees the run move.
* `DoneWithoutBlockingFindings` (`domain.go:259`, BIR-62): findings never hold a run.
* `RefusalsAreHeeded` (`workflow.go:100`, `workflow.go:192`, `engine.go:67`, BIR-62): the
  transitions of discovery, planning and implementing ignore the result, so a failed
  scout or planner and a blocked implementer move their run on as a success would.
  Together with `ReviewsAreHeeded` it says which verdicts count: those of the two reviews
  and no other.
* `AnswerIsFinal` (ARCHITECTURE.md:104, `repo_test.go:282`): `AnswerAttention` checks and
  updates in two statements, so the second of two concurrent answers overwrites the
  first.
* `PollsSkipDelivered` (`api.go:103`): the page after the last event says `latest_seq` 0,
  and the next poll brings every event again.
* `PollingRecovers` (`model.go:129`): the REST fallback of the events view asks for a path
  with an escaped `?` in it and is answered 404 as soon as the client has a cursor.

## Runs and bounds

| run | instance | shows |
|---|---|---|
| `engine_race` | one run, one handler, cancellable, iteration limit 2, one fault, a runner that may fail in plan_review | `TypeOK`, `LaunchBudget`, `ReviewsAreHeeded`, `NeverStranded`, `AtMostOneLateLaunch`, `EventsNeverLie`, `LifecycleSpec`; 2.5 million states |
| `engine_settles` | one run, both workflow ids, iteration limit 1, one fault, runners that may fail in every stage, ambiguity findings that raise questions | `EveryRunSettles` under fairness |
| `cancel_overwritten`, `done_with_findings`, `stage_failure` | one run, no fault | the three divergences of the engine |
| `event_stream` | two handlers, the worker, two streams, buffers of one event, a log of two | the five properties of the event stream, `HandlersReturn` under fairness; 0.8 million states |
| `record_storage` | one run, two connections, artifacts of two names, one attention with two answers, one reader, two records per table | the six properties of the database; 0.3 million states |
| `answer_overwritten`, `cursor_reset` | the same with artifacts of one name | the two divergences of the database |
| `agent_session` | both kinds of DSH, two sessions, streams of up to two events, messages of up to two parts, a report with two artifacts, a finding and two blank items, and one that does not parse | the six properties of the runner; 0.4 million states |
| `tui_watch` | two runs with one event each, two connections, two pending items | the four properties of the terminal client; 0.3 million states |
| `polling_recovers` | one run with two events, one connection | the divergence |

Bounds of the engine, each a constant:

* `Runs`: one. Two runs meet only in the worker's queue, one after the other, and in the
  attention row, where what one sees of the other is a row that is taken; a run that asks
  a second question sees the same. The theorems hold for any number of runs.
* `Handlers`: one handler per run suffices for a race with the worker; two handlers
  on one run can both check and both write `CANCELED`, which is the same write.
* `IterationLimit`: with 2 every stage can be entered, left and revisited, which is
  what budget and order are about; the default of the code is 5.
* `FlakyStages`: runner errors are the same in every stage, so the large run has them
  in a stage that can be revisited and the run of liveness has them everywhere.
* `MaxFaults`: one crash or failing statement at any point. The theorems have no
  bound on it.
* `FindingClasses`: only `REQUIREMENT_AMBIGUITY` changes control flow.

Bounds of the event stream:

* `Handlers`, `MaxEvents`: two events by two handlers are enough for them to overtake
  each other, and by one for its own order; the worker may append either.
* `Streams`: two meet in the snapshot of a publisher, one of them closed; they share
  nothing else.
* `BufferSize`: a buffer of one is filled by the first event and loses the second,
  as one of 64 does with the 65th. The theorems bound none of the four.

Bounds of the others:

* `Connections`: a transaction's snapshot is made stale by one other connection; two
  artifacts of different names meet in the JSON object. `MaxRecords` of two gives each
  table an empty, a first and a next number. The theorems bound none of them.
* `MaxSessions`: one session that is given up and one that takes its place. `MaxEvents`
  of two lets a stream have a completion before or after another event, or twice.
* `MaxWatches`: a connection that is replaced by another one, of the same run or of
  another. `MaxPending` bounds what is under way when a key is hit or the clock ticks:
  with two, one message can overtake another; what a message's own handling starts
  comes on top. One event per run is enough for a message of a watch that is over and
  for a list that is out of date; a cursor with something behind it needs the two events
  of `polling_recovers`.

`engine_settles` also has the findings by which the reviewer raises questions, and runs of a
workflow that is not registered, which every tick refuses.

Deadlock is checked in all runs of the engine and of the database: a tick, or another
statement, is always possible, so none is found. It is not checked where the system
comes to rest: in `event_stream` the log is at its bound, the handlers are done and the
streams are gone or wait; in `agent_session` the sessions are used up; in `tui_watch` the
user may quit.

Fairness: `FairSpec` asks for weak fairness of the worker's steps taken together, no
more. The ticker keeps firing until the daemon stops, the worker is one
goroutine, and each of its calls returns: the poll has a budget of 60 s, every HTTP
request of the DSH client a timeout, and a statement of SQLite ends or fails. Nothing
is asked of clients, of handlers, which may hang at any point, or of agents, whose
verdict and failures are free. Faults stop eventually, which `MaxFaults` says.

In `EventStream` fairness is asked of handlers between append and answer: Go
schedules a goroutine that can run, and publishing calls nothing that waits but the
broker's mutex, which nobody holds across a call. Nothing is asked of streams: a
client may stop reading for ever.

In `RunDatabase` fairness is asked of each connection's method once it has begun: SQLite
and database/sql return, with an error if need be. In `AgentSession` it is asked of the
runner, whose calls have timeouts, and of the clock; nothing is asked of DSH. In
`TuiWatch` it is asked of the clock, the commands and the loop that handles messages;
strong fairness of the calls that get through says that not every one of them fails for
ever. No key is ever due, and no connection need bring anything.

Some definitions have a sibling named `Mutant...` just before them: the same
operator with a plausible bug. Checking a run with the mutant in place of the
original violates the property that `PROJECT.json` pairs it with, which shows
that the property depends on that piece of code.

## Proofs

### The engine

`RunEngineProofs` proves for every set of runs and handlers, every iteration limit,
every bound on faults and every choice of the other constants that satisfies
`RunsAssumption` and `EngineAssumption`:

| theorem | statement |
|---|---|
| `ShapeInvariant` | `Spec => []Shape` |
| `TypeCorrect` | `Spec => []TypeOK` |
| `NeverStrandedHolds` | `Spec => []NeverStranded` |
| `LaunchBudgetHolds` | `Spec => []LaunchBudget` |
| `ReviewsAreHeededHolds` | `Spec => []ReviewsAreHeeded` |
| `AtMostOneLateLaunchHolds` | `Spec => []AtMostOneLateLaunch` |
| `LifecycleHolds` | `Spec => LifecycleSpec` |
| `EventsNeverLieHolds` | `Spec => []EventsNeverLie` |
| `AbsorbingWithoutCancellation` | `Cancellable = {}` gives `Spec => TerminalAbsorbing` |

None of the properties is inductive by itself. `Shape` is the common ground: types;
`JobInv`, what the worker's locals say at each point (the copy's state is the
stage's state, the target is `NextState` of the stage and the result once there
is a result); `RequestInv`; and `RowInv`, that stage and state of a row agree.
`RowInv` survives the race with the cancel handler because that one writes a
terminal state only, and survives the worker's overwriting of `CANCELED` because
the worker writes state and stage together. On top of `Shape` each theorem has a
small invariant of its own:

* `BudgetInv`: launches are paid from the stored counter, and a worker at `"launch"` has
  paid for one that it has not made yet;
* `ReviewInv`: while the worker is on a stage, the row is in the state of the worker's copy
  or canceled, and the approvals that this state needs are there; after the result the
  review's own approval is, too. That is why an overwritten cancellation cannot get a run
  past a review: the argument is about the copy, and the row is only compared with it;
* `LateInv`: late launches happened to terminal rows only, and a worker that is still
  before its launch has not made one;
* `RaceInv`: a cancel request that is about to write has found a row of a run that may be
  canceled, and a worker that is about to write follows an edge from the state the row
  still has, unless a cancellation has come in between;
* `EventsInv`: a closing event that is logged, or about to be, is borne out by the row, and
  the worker is not on a stage of a run that has one.

`LifecycleHolds` and `AbsorbingWithoutCancellation` put a limit to the violation that
`cancel_overwritten` shows. The domain's promise that terminal states are absorbing is
kept as long as nobody cancels; and whoever cancels, the worst that happens to a completed
or failed run is a late mark of a client that read it before.

### The event stream

`EventStreamProofs` proves for any handlers and streams, any capacity and any
length of the log that satisfy `StreamAssumption`:

| theorem | statement |
|---|---|
| `TypeCorrect` | `Spec => []TypeOK` |
| `StreamInvariant` | `Spec => []StreamInv` |
| `NothingLostHolds` | `Spec => []NothingLost` |
| `RepeatsOnlyInFlightHolds` | `Spec => []RepeatsOnlyInFlight` |
| `AuthorOrderHolds` | `Spec => []AuthorOrder` |

The properties speak of what a client was sent, which says nothing about the next
step; the inductive invariant `StreamInv` says where each event can be:

* `HandlerInv`: the event a handler carries is its own last one. So two handlers never
  carry the same event, and a handler never sends an older event after a newer one.
* `PlaceInv`: which place a stream is in decides whether it is in the map, whether its
  channel is closed and what its locals can be.
* `SentInv`: what is in a stream's buffer or was forwarded is in the log, came after it
  subscribed, comes once, and is ordered per author.
* `ReplayInv`: what was replayed and what is left to replay are consecutive numbers
  from the cursor to the end of the log at the read, or nothing.
* `LostInv`: an event of a handler that an open stream subscribed before is in the
  buffer, forwarded, skipped or on its way, unless it was published before the
  stream subscribed, and then it is in the history that the stream reads.

A client's sequence is the replay followed by the live events; each theorem splits
it there. `RepeatsOnlyInFlight` follows because each part has an event once;
`AuthorOrder` because a live event that the replay had not is newer than all of it.

### The database

`RunDatabaseProofs` proves for any sets of runs, names, connections and readers, and any
number of records that satisfy `DatabaseAssumption`:

| theorem | statement |
|---|---|
| `DatabaseTypeCorrect` | `Spec => []TypeOK` |
| `PointersFollowVersions` | `Spec => []ActiveIsLatest` |
| `PagingMissesNothing` | `Spec => []ReadersMissNothing` |
| `RepositoryImplementsRecords` | `Spec => RecordsSpec` |
| `AnswersRunOut` | `Spec => OverwritesRunOut` |

Even the type invariant, that the rows of a run are a sequence, depends on what a
transaction read before it inserted. The inductive invariant `DatabaseInv` therefore
speaks of the transactions: who has inserted holds the lock and has a fresh snapshot
(`LockHeld`), and a fresh snapshot agrees with the tables (`SnapshotFresh`). Two lemmas
carry the induction: a step of one connection that leaves the tables alone needs to be
looked at for that connection only (`OneConnectionMoves`), and a commit makes every other
snapshot stale, so that nothing depends on the changed tables (`CommitMakesStale`).
`CommitAppends` then says what a commit is: one row with the next number at the end
of one table. The refinement follows with `EventsNumbered`, by which `prev_seq`, which
the code takes from the maximum, is the number of the last entry, which the domain
takes from the log.

A page ends at the last event there is and joins what the reader has, whether it goes on
from there or, after an empty page, from the beginning (`PageReadToTheEnd`).

`AnswersRunOut` needs little of all that: no call that begins later finds the attention
open (`NobodyJoins`), and a call that writes is over with it (`WritersLeave`).

### The agent's session

`AgentSessionProofs` proves for any number of sessions and events, and any reports and
texts that satisfy `SessionAssumption`: a message may have at least the instruction, a
report's items are sequences of names, and no report of an agent is one that
`completeWithError` writes, which says that the model could not be asked:

| theorem | statement |
|---|---|
| `SessionTypeCorrect` | `Spec => []TypeOK` |
| `LogTellsSessionsInOrder` | `Spec => []LogInOrder` |
| `ReportIsStoredBeforeVerdict` | `Spec => []ReportBeforeVerdict` |
| `VerdictAnswersInstruction` | `Spec => []OwnAnswer` |
| `RunImplementsAttempts` | `Spec => AttemptsSpec` |

The inductive invariant `SessionInv` follows an answer from DSH to the tables:

* `DshInv`: whatever is on its way from DSH is sound. That an inline completion answers an
  instruction is not a matter of the event alone: the server is only asked for the
  events of a session that had its follow-up, a steer only adds to it, and a stop
  forgets the sessions together with those who asked.
* `RunInv`: `Run` works on the last session, and beyond the poll it has a completed event.
* `LogInv`: besides the order, that the entries of the session at hand are below the
  number of the next one. This is why reading the stream from its beginning at every poll
  repeats nothing: only the last reading is stored.
* `StoreInv`: of the items of the report, those before the one at hand are stored, and the
  versions among them are the latest, since no other session stores anything.
* `VerdictInv`: the sessions that are over keep what they had.

For the refinement an attempt is a session: it is `"running"` until the poll has a
completed event and `"storing"` from then on, and what it says is the event that `Run`
found. Everything that DSH and its clients do is a stutter, and so are the calls, the polls
and the appends to the log. `Finish` is `Return` because of `StoreInv`. A blank item is
a stutter, so the abstract report has the others only.

### The terminal client

`TuiWatchProofs` proves for any number of runs, events and connections that satisfy the
module's assumption, and with no use of the bound on pending items:

| theorem | statement |
|---|---|
| `ClientTypeCorrect` | `Spec => []TypeOK` |
| `WatchesDoNotLeak` | `Spec => []NoLeakedWatch` |
| `WatchedChannelsAreRead` | `Spec => []LiveWatchIsRead` |

`ClientInv` adds to the properties what they rest on. `WatchInv`: the three fields of the
watch are set together where it counts, and there is none where no run is shown; without
that clause the way from the help to the dashboard, which stops nothing, would leak a
connection. `PendingInv`: whatever is pending reads a channel that was made, which rules
out the nil channel, and while the client believes in a watch, the bag has a link of its
chain, which is a read of the watch's channel, an event of its run or a close of it. A
handler that takes such a link out either puts the next one in or gives the watch up,
also when the message was of an older watch of the same run. Two lemmas about bags say
what a handled message leaves (`DoneReplaces`) and what new commands add (`PlusAdds`).

### What is left to the model checker

* `EveryRunSettles`, `HandlersReturn`, `LockReleased`, `RunReturns` and
  `DashboardCatchesUp`: liveness under fairness, which the prover does not reach.
* The six divergences, which a trace shows and a proof cannot.

Every invariant and every action property of a passing run, and the three refinements, are
theorems.

## Plan

1. *Done:* the core, `Domain` to `RunEngineProofs`.
2. *Done:* `EventStream` and `EventStreamProofs`, on a log whose append is atomic.
3. *Done:* `RunRecords`, `RunDatabase` and `RunDatabaseProofs`: the transactions under
   that log, artifact versions, clarifications and answers; the refinement proved.
4. *Done:* `AgentSession`: poll, persist and retry against a DSH that is late, silent,
   steered or canceled.
5. *Done:* `TuiWatch`: the client's watch, messages that come late, the fallback to REST.
6. *Done:* `AgentSessionProofs`, with `AgentAttempts` as what the runner promises.
7. *Done:* `TuiWatchProofs`, `AnswersRunOut`, and how far the race with a cancellation
   goes: `LifecycleHolds` with clients that cancel.
8. `RunEngine` over `AgentAttempts`: the worker's stage as a refinement of an attempt and
   what the engine makes of it, so that the two models of the runner meet in a theorem.
9. What the sequence of a stream's events looks like to a client that reconnects with its
   cursor, over two streams of `EventStream`.

## Not modelled

* The OpenAI client, configuration and providers, and the protocol's shapes: one request,
  files that are read once, and copies of fields, none with state that outlives a call.
  `AgentSession` chooses the result of the model's call.
* Rendering, the prompt's editing and the list of attentions of the terminal client: no
  request depends on them, except through commands that the user types.
* The handlers that only read one statement's rows, and the methods of the engine and the
  repository that nothing in the daemon calls (`Engine.CreateRun`, `Cancel`,
  `RaiseAttention`, `AnswerAttention`; `UpdateRunAgents`, `ResolveFindings`,
  `BlockingFindings`, `ActiveArtifactVersion`).
* What agents do to the repository they work on.
* That a question holds its run, and that a run of an unknown workflow ends: the code has a
  stub for the one and an error on every tick for the other. `RunEngine` models both
  (`SkipWaiting`, `Steppable`), and no property asks for more.
