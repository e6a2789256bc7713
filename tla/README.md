# Verification of OPA API

TLA+ specifications of OPA API, the proxy in `src/` that serves OpenAI, Gemini,
Claude and Codex requests with a pool of upstream credentials, with the TLC
configurations that check them and the TLAPS proofs about them.

The subject is the part of the program that carries its own logic: which
credential may serve which model now and how that is kept consistent in tables
that different goroutines write; what becomes of a request and its answer on
their way through translators, executors and streams; and the queues, relays,
caches, logins and configuration edits around it.

Contents: [the system](#the-system) · [modules and code](#modules-and-code) ·
[runs](#runs) · [what the runs disagree with](#where-the-code-and-its-documentation-disagree) ·
[proofs](#proofs) · [not modelled](#not-modelled) · [plan](#plan)

## The system

A credential is called an *auth*. It comes from a JSON file in the auth
directory, an entry of the config file, a login, or a runtime provider (a websocket
client), and lives in four places at once:

    logins ──► files ──► Watcher ──► dispatcher ──► Service ──► Manager.auths   (the record)
               config    (shadow      (merging       (consumer)    │      │
    edits ──────┘         copy)        buffer)                     │      ├──► scheduler   (who may be picked)
                                                                   │      └──► registry    (which models are offered)
    requests ──► pick ──► execute ──► MarkResult ──────────────────┘
    timer    ──► refresh ─────────────────────────────────────────►│
    operator ──► management API ──────────────────────────────────►│

Each table has its own mutex, and no mutex is held while the next table is
written. Much of what can go wrong is there: two writers of one auth whose
effects arrive in a different order in different tables, and copies that are
read, used for a network call, and written back. A request, for its part, goes

    client ─► handler ─► Manager ─► executor ─► request translator, thinking ─► upstream
           ◄─ forward ◄─ wrapper ◄─ bootstrap ◄─ response translator ◄───────────┘

and its answer may be a stream through four goroutines and as many channels.

| component | code | state | operations | what makes it correct |
|---|---|---|---|---|
| Availability of an auth | `sdk/cliproxy/auth/conductor.go` (`MarkResult` and below), `selector.go` | per model: status, retry time, quota with backoff level; the auth-level aggregate | results with and without a model, enable/disable | the aggregate says what the models say; backoff grows and stays bounded; every block ends |
| Scheduler | `scheduler.go` | shards per provider and model, ready views per priority, cursors | upsert, remove, rebuild, `pickSingle`, `pickMixed` | the incremental indexes equal a rebuild, picks agree with the selectors it replaces, round robin is fair |
| Model registry | `internal/registry/model_registry.go` | clients and models, counters, quota marks, suspensions, cached list | register, unregister, marks, list, count | counters equal recomputed sums, the cache is never stale, a listed model can be served |
| Manager | `conductor.go` | the records, requests under way | pick/execute/report loop, `Update`, `syncScheduler` | scheduler and registry follow the record; requests end; no request is refused an auth that was usable all along |
| Streams and retries | `conductor.go`, `sdk/api/handlers` | one request: rounds, wait, pool of models, wrapper, bootstrap, forwarding | start, open, read, mark, retry, forward, leave | the client gets one whole stream, every upstream call is marked once, nothing is left behind |
| Codex sessions | `internal/runtime/executor/codex_websockets_executor.go` | one upstream connection shared by the turns of a session | turn, dial, send, read, retry, close | an answer belongs to its turn and is whole, one reader per turn, everything ends |
| Responses websocket | `sdk/api/handlers/openai/openai_responses_websocket.go` | last request and output, pinned auth | turn, prewarm, pin, forward | the upstream is given the conversation the client means |
| Executors | `internal/runtime/executor` | the attempts of one request, the usage record, a rate limiter | ask, fall back, retry, stream, count | the record agrees with what the caller got; the next base URL is asked when it helps; the limiter is exact |
| Translators | `internal/translator` | the state of a stream between two formats | request, chunk, end, whole answer | calls and results find each other, the upstream can take the request, a stream is well formed and adds up to the answer not streamed |
| Thinking | `internal/thinking` | none | extract, validate, apply | what is asked for reaches the model, within what it takes |
| Signature cache | `internal/cache/signature_cache.go` | buckets of expiring entries | store, look up, clear, purge | what is valid is found, what is found is current |
| Service | `sdk/cliproxy/service.go` | the update queue | consumer, catalog callback, `RefreshSchedulerEntry` | once all is done, registry and scheduler follow the record |
| Token refresh | `conductor.go` (`checkRefreshes` to `refreshAuth`) | pending marks, slots, failure backoff | rounds, refresh, save | one refresh at a time, no token lost, a due auth is tried |
| Watcher | `internal/watcher` | hash cache, shadow copy, debounce timers | file events, config reload, runtime updates | once all is handled, the service has what the disk has |
| Dispatcher of the watcher | `internal/watcher/dispatcher.go` | merging buffer, order, channel | dispatch, batch loop, stop | the last update of an ID wins and arrives; the loop ends |
| Configuration edits | `internal/api/handlers/management`, `internal/config` | the configuration in memory, the file, the reload timer | PUT, PATCH, DELETE, save, reload | memory and the file hold what the edits amount to; an edit leaves the other entries alone |
| Logins | `internal/api/handlers/management/auth_files.go`, `oauth_sessions.go` | sessions with a time limit, callback ports and files | begin, callback, wait, exchange, save, ask | the client is told what became of its login; ports are released; every login ends |
| Usage queue | `sdk/cliproxy/usage/manager.go` | queue, plugins | publish, register, stop, dispatch | no record lost, doubled or overtaken |
| Websocket relay | `internal/wsrelay` | pending requests with their channels, the session's end | request, dispatch, cleanup | no caller waits for good, answers are whole, nothing leaks |

The behaviours that are hard are listed in `PROJECT.json` under `hazards`, each
at its line with the properties that would catch it: handoffs after an unlock,
snapshots older than what they are compared with, lazily promoted cooldowns,
counters derived from two marks of one event, channels closed by whoever comes
first, debounce windows with nothing behind them, streams that fail between two
retries, mutexes held across a return.

## Modules and code

One action is one critical section, one channel or `sync.Map` operation, or one
look at a shared thing without a lock; where two are merged into a step the
module says so. Mutants (operators such as `Enqueue_silent`, just before the
definition they are a wrong version of) show for every property of every passing
run a plausible bug that it catches.

### Auths and requests

**Cooldown** has the record of an auth, the pure functions over it (`failedState`,
`quotaAfter429`, `nextQuotaCooldown`, `updateAggregatedAvailability`,
`applyAuthFailureState`, `isAuthBlockedForModel`) and its life over time:
`MarkResult`'s critical section with and without a model, enabling and disabling.
It is sequential because the Manager's mutex makes it so. The backoff shift is in
two's complement of `IntWidth` bits.

**Scheduler** follows `authScheduler` operation by operation: per provider the
metas, per provider and model a shard with entries, ready views (flat, grouped
under virtual parents, websocket), cursors and mixed cursors. Selection is
written a second time as the selectors of `selector.go` do it, on the records
themselves, and the two are compared for every request in every state.

**ModelRegistry** models registrations with counts, per-provider counts, quota
marks and suspensions, `RegisterClient`'s reconciliation, the cached list with
its expiry, `GetModelCount`. `LateResults` says whether results of clients that
are no longer registered may arrive.

**Conductor** puts requests and operators side by side. A request picks, executes
and reports; `MarkResult` is four steps (record, scheduler, quota mark,
suspension) and `Update` two, because the code releases the mutex in between.
Of a record it keeps what these steps are about; the rest is Cooldown's. The
scheduler is the copy it was last given; how it picks is Scheduler's.

**StreamRequest** is one request from the handler to the upstream and back, in the
modes of `Execute`, `ExecuteCount` and `ExecuteStream`: the outer rounds with their
wait for a cooldown, the pick of an auth, its pool of models, the first chunk that
is read before anything is promised, `wrapStreamResult` and the drain behind it,
the handler's bootstrap retries, the conversion, and the forwarder with the client
at its end. Each goroutine has a record (`up`, `wrap`, `conv`, `fwd`, `manager`),
each channel holds one thing, closed or not. Other requests set and lift cooldowns.

**CodexSession** is an execution session of Codex over a websocket: turns that
take `reqMu`, dial or reuse a connection, register their channel, read; the read
loop of each connection; the retry after a failed send; `CloseExecutionSession`.
A send on a closed channel is a state (`panic`).

**ResponsesSocket** is the client side of the Responses API over a websocket: how a
turn is put together from the last request and output, or passed on as an
increment, the prewarming request answered on the spot, the pinned auth.

**Executor** goes through a request of every executor: rounds and base URLs, the
statuses that are worth another, the body or stream, the usage record, qwen's
limiter. `StepsOf` has one row for each executor and mode.

**AuthLifecycle** has the three goroutines that write the tables of one auth when
its file or the model catalog changes: the queue's consumer, the catalog
callback, a request's rebuild of the scheduler. **AuthRefresh** has the refresh
rounds against operators and results; its times count down, so that behaviours
go on for ever and liveness is not an artefact of a bound.

### Requests and answers between formats

**Requests** has conversations and what an upstream of each format makes of one;
**RequestsToGemini**, **RequestsToOpenAI** and **RequestTranslation** have the 26 request
translators that change anything, each one operator named as in the code.
**Translation** streams an answer of up to `MaxBlocks` blocks (text, thinking, calls)
through one of 21 response translators of **ToClaude**, **ToChat** and **ToResponses**,
one chunk per step, with the upstream that cuts it into chunks and a client of the
format that adds the events up; the non-streaming translators are beside them.
**Thinking** is `internal/thinking`: levels and budgets, extraction, `ValidateConfig`,
the appliers; **ThinkingRequest** leads a wish from a client's fields or the model
name's suffix through the request translator's section to the upstream's body.
**SignatureCache** is one model group: writers, readers and the cleaner on buckets
that may already be detached from the cache when they are used.

### Files, edits and logins

**AuthDispatch** is the dispatcher: `Enqueue` is `dispatchAuthUpdates`,
`Sleep`/`Woken`/`TakeBatch` are `nextPendingBatch`, `Forward`/`Abandon` the send,
`Cancel`/`Clear`/`Forget` are `stopDispatch`. **Watcher** composes with it by
`INSTANCE`: `HandleEvent` (the goroutine of `processEvents`), `Reload` (a goroutine
of the debounce timer, and `start`), `ReportRuntime`, and `Dispatch`, which calls
`Dispatcher!Enqueue` after the watcher's mutex is released. The environment
writes, truncates, replaces and removes files; `Overlap` and `Hurried` say whether
it does so while a reload runs and within the debounce window of a removal.

**ConfigLists** has the handlers of `config_lists.go` on each of the lists,
**ConfigFile** the sanitizers, the merge into the YAML tree and what loading makes of
the file, **ConfigEdits** two callers, the saving in its steps, and the watcher's reload.

**OAuthSessions** has the logins of seven providers with their sessions, forwarders,
callback files and time limits; **GeminiOnboarding** the project a Gemini login ends in.

### Beside the requests

**UsageLog** is what the usage queue promises: an append-only log dispatched in
order. **UsageQueue** is the code: queue, condition variable, dispatcher, plugin
copies, `Stop`; it implements UsageLog with `log <- accepted`.

**WsRelay** is one websocket session: requesters (`NonStream`, `Stream`), the
goroutine that waits for their context, the read loop with `dispatch`, the
heartbeat and `cleanup`, each loading, deleting and closing in the code's order.
A send on a closed channel is a state (`crashed`), not an excuse.

`*_proofs` modules extend the component's module. `MC*` modules give constants
their values; the four that check several components put them side by side, and a
variable `subject`, chosen at first and never changed, says which of them a
behaviour moves while the others rest: what a run says of a component is what it
would say alone.

## Runs

Bounds are constants of the modules, named there. A type invariant is the first
conjunct of an invariant of most runs (`PicksAsSelector`, `ListsTrue`, `TablesInStep`,
`RefreshedOnce`, `Executed`, `FollowsFiles`, ...); those of Cooldown, UsageQueue,
WsRelay, CodexSession and AuthRefresh are proved.

| run | what it asks | instance | why it is enough |
|---|---|---|---|
| `cooldown` | `LevelBounded`, `AggregateAgrees`, `BackoffKept`, `Recovers` | 2 models, backoff 1, 2, 4 (cap 4), results until time 2, clock to 6 | two models are what "some" and "all" need; repeated 429s at one instant reach and pass the cap; every block can end within the clock after the last result |
| `scheduler` | `PicksAsSelector`, `RotationKept` | 3 auths under 2 virtual parents, 2 providers, 2 priorities, time to 2 | the smallest nested rotation; one auth can move between providers, one between priorities, each can lose and regain the model |
| `registry` (registry) | `ListsTrue`, `NothingStale` | 2 clients, 2 models, 2 providers, a list with a repetition, late results, a window of 2 in time 3, up to symmetry of clients and providers | re-registration meets added, removed and repeated models under a provider change, and marks outlive a window |
| `registry` (thinking) | `Carried` | every route of a client's format, an upstream and a model of each kind in `models.json`; levels, known or not, and budgets at and beyond each edge | thinking keeps no state: each wish is one behaviour of one step, and all are tried |
| `registry` (config) | `ConfigKept`, `OnlyNamed` | each kind of list, 2 edits by 2 callers, the reload between any of their steps | an edit meets a reload, another edit, or what an edit before it left in the file |
| `registry` (socket) | `Heard` | 3 turns, 2 auths that may keep conversations | a turn may be put together from one that failed, one passed on as an increment, and one after that |
| `conductor` (requests) | `TablesInStep`, `RefusalJustified`, `RequestsEnd` | 2 requests, 2 auths, an operator with one change | two handoffs of one auth can overlap, and a rebuild or an update can cross them |
| `conductor` (logins) | `LoginsTrue`, `LoginsEnd` | 2 logins of one provider or of two, callbacks, sweeps, time to 5 (a session lasts 2) | one login can take the port, the session or the file of the other, or outlive its session |
| `conductor` (onboarding) | `LoginsTrue` | lists of up to 3 projects, one of them made by Google, a repetition and a blank among them | each mode meets a list that its answer is not in |
| `stream` | `OneWholeStream`, `Credited`, `AllReleased` | 2 auths, one with 2 models, one bootstrap retry, one wait, answers of 2 chunks, one disturbance of the cooldowns | a failure before and after the first chunk, at each of the three levels of retrying, with the client leaving at any step |
| `codex_session` | `Answers`, `OneReader`, `AllEnd` | 2 turns, 2 connections, answers of one part, a channel of 1 | one turn leaves what the other finds; the second connection is the retry's |
| `translation` (answers) | `Answered` | 21 pairs, up to 3 blocks of up to 2 pieces; of Codex, items of up to 2 parts, empty ones too, and 4 reasons | a block of each kind can stand between two of another; an item can have a part after its first, a reason be known, unknown or missing |
| `translation` (requests) | `Paired`, `Understood` | 26 pairs, up to 6 parts | two calls, their results in either order, and a part between |
| `translation` (executors) | `Executed` | every executor and mode, 1 retry, 3 events of a stream | each answer can come from each base URL of each round |
| `translation` (cache) | `LookupsTrue` | 1 writer, 1 reader, 2 buckets, lifetime 1, time to 3 | an entry expires, is replaced, purged and refreshed; one bucket is detached |
| `files` (watcher) | `FollowsFiles` | 1 file, 1 config entry, 1 runtime auth, 3 edits | files are independent of each other; three edits give remove, come back, change |
| `files` (dispatcher) | `LatestWins`, `Settles` | 2 IDs, channel of 1, no bound on updates | a full channel, a batch of several and a merge all occur; finite without a bound |
| `files` (lifecycle) | `TablesFollow` | 3 file changes, 2 new catalogs | every goroutine can be overtaken twice |
| `background` (relay) | `NoOrphan`, `WholeUnlessLost`, `Returns` | 1 request, answers of up to 3 parts, channel of 2 | the channel can overflow before and at the end; `NoOrphan` is proved for any set of requests |
| `background` (usage) | `NothingLost`, `PluginsComplete`, `Implements` | 2 publishers, 3 records, 2 plugins | a record can arrive in each phase of another's dispatch |
| `background` (refresh) | `RefreshedOnce`, `DueIsTried` | 1 auth, 2 workers, 1 slot, an operator, results | a second worker may start while the first waits for the slot or is in its call; auths only share the slots, so contention between different auths is that between the two workers |
| `refresh_disabled`, `codex_session_lock`, `translation_calls` | `DisabledStays`, `UpgradeFallback`, `CallsAdded`, expected to be violated | as above, smaller | see [below](#where-the-code-and-its-documentation-disagree) |

Some properties of the concurrent modules hold only up to races that the code
does have. Where that is so the race is a history variable of the module or an
assumption about the environment, and the property names it:

- `overlapped` (Conductor): two handoffs of one auth to the same table, or an
  operator's stored copy, crossed. `RefusalJustified` in addition gives up an auth
  whose scheduler copy another process overwrites between a request's rebuild and
  its second pick, because two late handoffs can do that.
- `torn` (AuthLifecycle): a record, a catalog or a removal arrived inside the
  three windows listed at `RegistrationFollows`.
- `crossed` (AuthRefresh): a record changed while another process held a copy of
  it. `RefreshedOnce` in addition excepts a refresh older than the pending mark, which
  the code allows to be started again.
- `Overlap`, `Hurried` (Watcher): edits while a reload runs, and within the debounce
  window of a removal.
- `named` (Cooldown): a result that names no model writes the auth-level view
  itself, after which it summarises nothing.
- `crashed` (WsRelay), `panic` (CodexSession): a send on a closed channel ended the
  process.
- `crossed`, `astray`, `returned` (ConfigEdits): an edit met another in the middle, was
  made in a configuration that a reload replaced, or met a header map of the file.
- `torn` (ResponsesSocket), `Swept` and `Lapsed` (OAuthSessions): the exceptions that
  `Heard` and `Told` state.
- `ReasonDiffers`, `TextsDiffer`, `Empty` (Translation): the answers that a translator
  does not give alike streamed and whole. codex/claude passes a `stop_reason` of the upstream on
  whole, streamed only "stop" and "max_tokens" and none after a call; codex/chat keeps,
  whole, the first part of the last item of a kind. Of these `Answered` leaves out the
  reason or the texts and compares the rest; a Gemini answer with nothing to show it
  leaves out whole.
- `Mispairs`, `LosesSystem`, `Dropped`, `Regroups`, `Misshapes` (RequestTranslation),
  `Unheard`, `Misfits` (ThinkingRequest): the requests a translator does not carry over.
  These properties are equivalences: the exceptions fail, each of them.

Deadlock is checked except where the system may really stop: a request goroutine
that has served its arrivals, a stopped queue or watcher, an ended session, files
that are edited no more, a clock at its bound.

### Fairness

Fairness is assumed of goroutines that the Go scheduler runs and never of users,
requests, providers or operators.

- Cooldown: the clock (weak).
- Conductor: each step of a request that arrived (weak). Upstream calls return
  because HTTP clients have timeouts or contexts.
- StreamRequest: each goroutine's steps (weak); an upstream that was given up ends
  because its context does.
- CodexSession: turns, readers and the close that has begun (weak); the upstream
  need not answer. The read deadline of a connection is a step of the reader.
- OAuthSessions: the goroutine of a login, a handler that writes a callback file, and
  time (weak, of their disjunction); nobody has to bring a callback.
- AuthRefresh: the ticker, the clock, a refresh under way (weak), and taking a
  slot (strong: waiting goroutines queue on a channel, which Go serves in order).
- UsageQueue, AuthDispatch: the dispatcher, publishers in the middle of a call, a
  `Stop` that has begun (weak). Nobody has to call `Stop`.
- WsRelay: the read loop's handling of a message it has, cleanup, requesters
  (weak). The client at the other end need not answer or close.
- SignatureCache: none; its properties are about single steps and their pasts.

`Settles` says what this gives for the dispatcher: an update that is the last of
its ID reaches the service although updates of other IDs never stop.

## Where the code and its documentation disagree

The modules state what docs, comments and tests of the repository say of the
program, also where the code does something else. `refresh_disabled`,
`codex_session_lock` and `translation_calls` are listed as runs and findings in
`PROJECT.json`. The others met while modelling are definitions of their modules; named
as a property in a configuration of the module they have a counterexample within
seconds. Sources are under `src/sdk/cliproxy/` unless a longer path is given.

| definition | what the repository says | what happens |
|---|---|---|
| `DisabledStays` (AuthRefresh) | `auth/types.go:65` "Disabled indicates the auth is intentionally disabled by operator." | `auth/conductor.go:2668` stores the copy a refresh made before its network call: an auth disabled meanwhile is enabled again |
| `UpgradeFallback` (CodexSession) | `src/internal/runtime/executor/codex_websockets_executor.go:42` HTTP is the fallback "for websocket upgrade failures" | lines 430 and 433 return with `reqMu` locked: the turn is served, and every later turn of the session waits for good |
| `CallsAdded` (Translation) | `src/internal/translator/openai/openai/responses/openai_openai-responses_response.go:301` "Only emit item.added once per tool call" | state is kept per choice, not per call: the second of two parallel calls gets no item, and its arguments are appended to the first's |
| `StatesPreserved` (AuthRefresh) | `auth/conductor_update_test.go:40` "expected ModelStates to be preserved" | the store of `DisabledStays` undoes a cooldown recorded during the call |
| `CoolingDisabledMeansNoQuotaCooldown` (Cooldown) | `src/internal/config/config.go:67` "DisableCooling disables quota cooldown scheduling when true." | `auth/conductor.go:1649`: a 429 with Retry-After puts such an auth in quota cooldown |
| `DisabledNotScheduled` (Conductor) | `auth/types.go:65`, as above | `auth/conductor.go:1692` hands over a snapshot after the unlock: a late one schedules a disabled auth again |
| `ErrorTold` (StreamRequest) | `src/sdk/api/handlers/stream_forwarder.go`: a terminal error is written before the stream ends | `src/sdk/api/handlers/claude/code_handlers.go:238` and `:258` end a stream as if complete when the error is not there yet as the data closes |
| `HintKept` (StreamRequest) | `auth/conductor.go:1649`: a Retry-After of the upstream decides the cooldown | `auth/conductor.go:499` builds the result of a failed stream without it |
| `PicksAsSelector` with promotions at other times (Scheduler) | `auth/scheduler.go:611` "reevaluates blocked auths whose retry time has elapsed" | the entry waits for `Quota.NextRecoverAt` although `NextRetryAfter` has passed; a cooldown recorded under a name with a thinking suffix is not seen, shards being keyed by the canonical name; websocket auths that were tried hide the plain auths of their priority (`:659`) |
| `AvailableListed` (ModelRegistry) | `src/internal/registry/model_registry.go:752` "all models that have at least one available client" | a late suspension of a client that is gone is subtracted from those that remain |
| `CountIsAvailable` (ModelRegistry) | `src/internal/registry/model_registry.go:996` "the number of available clients" | one 429 is subtracted twice, as a quota mark and as a suspension |
| `NoStaleRegistration` (AuthLifecycle) | `service.go:1030` "so concurrent auth updates cannot leave stale model registrations behind" | an update between the second reading (1023) and the registration (1034) does |
| `AddedAuthVisible` (AuthLifecycle) | `service.go:314`: without the refresh new auths "are invisible to the scheduler" | `auth/conductor.go:213` rebuilds from an older snapshot after the refresh, and drops the new auth |
| `FollowsDisk` with `Overlap` (Watcher) | `docs/sdk-watcher.md:13` updates "mirror adds, edits, and removals" | `src/internal/watcher/dispatcher.go:85` reads the directory before it takes the mutex, so a file event in between is undone |
| `FollowsConfig` with `Overlap` (Watcher) | `docs/sdk-usage.md:161` "changes to `config.yaml` and `auths/` are picked up automatically" | `src/internal/watcher/config_reload.go:67` remembers an edit made during a reload as loaded |
| `FollowsDisk` with `Hurried` (Watcher) | `docs/sdk-watcher.md:13`, as above | `src/internal/watcher/events.go:93` ignores a removal within a second of a replacement |
| `StopDrains` (UsageQueue) | `usage/manager.go:80` "Stop stops the dispatcher and drains the queue." | `Stop` does not wait: it returns with records still queued |
| `CompletedByEnd` (WsRelay) | `src/internal/wsrelay/message.go:19` "MessageTypeStreamEnd marks the completion of a streaming response." | `src/internal/wsrelay/http.go:59` returns an answer that lost its end, by a full channel, as a success |
| `GracefulStop` (WsRelay) | `src/internal/wsrelay/manager.go:95` "Stop gracefully closes all active websocket sessions." | `src/internal/wsrelay/session.go:176` sends on a channel that a failed request closed: the process ends |
| `OnlyExpiredPurged` (SignatureCache) | `src/internal/cache/signature_cache.go:74` "removes caches with no valid (non-expired) entries" | a bucket that was empty when swept is dropped with a signature stored since |

What the exceptions of the properties say of the code, beyond that table:

- *Codex sessions.* After a turn that was cancelled or cut off, what is left of its
  answer can end the next turn, which then leaves its own answer for the one after.
- *Configuration.* Headers removed from an entry come back at the reload
  (`config.go:1158` merges maps and never removes from nested ones). Deleting the last of
  amp's upstream keys leaves them in the file, `omitempty` hiding the empty list from the merge.
  `error-logs-max-files: 0` is not written and loads as 10. Handlers edit without a
  lock and hold `&h.cfg`'s lists while `SetConfig` swaps the configuration, so an
  acknowledged edit may be lost; a reload that loaded before an edit puts the older
  configuration in place, and remembers a hash it has not loaded. A failed save answers
  500 and keeps the edit in memory. Channels that differ in case or space
  overwrite each other in the order of a Go map.
- *Logins.* The state of a login that expired or was swept by another's success is told as "ok".
  Kimi polls five minutes beyond the life of its session. A callback file read while it
  is written counts as a failure, and a second callback leaves its file behind.
  A port in use answers 500 and leaves the session pending. A second login takes the
  first's forwarder. A login that was swept while it exchanges its code is saved all the same.
  A Gemini onboarding with a project asks without bound while Google says "in progress".
- *Thinking.* Claude's "disabled", and "enabled" without a budget, do not reach the Gemini family.
  A suffix that is not understood sends the body's wish out unchecked.
  `includeThoughts` alone turns thinking on for Claude. Codex thinks "medium"
  unless told otherwise. iFlow keeps no amounts. Unknown levels are dropped on
  the way to a Claude model that takes only budgets.
- *Executors.* Some do not publish a record for an answer without counts; `CountTokens`
  never does. Antigravity's retries multiply: its own rounds inside the Manager's.
- *Responses websocket.* An increment that is served over HTTP, or merged onto an
  increment, has lost the conversation before it. The pin stays on an auth that failed, and later turns fail
  with it. A first turn whose input is a text makes every later merged turn a 400.
- *Response translators.* Several decide per chunk what holds per answer (whether a tool was used), stop
  blocks that an empty text never opened, or end without a stop reason when the upstream sends
  its counts first; the cases are comments at `Same` and `WellFormed`.

## Proofs

`tlapm` proves these for every value of the constants that satisfies the named
assumption of the component's module, and every interleaving. In each case TLC has
checked the inductive invariant on the instance of the run first.

| module | theorem | states | along |
|---|---|---|---|
| `Cooldown_proofs` | `TypeCorrect`, `LevelsBounded` | types, `LevelBounded` | `LInv`: the types are inductive only together with the bound, because the shift in `nextQuotaCooldown` is known to be a cooldown only up to `MaxLevel` |
| | `AggregateCorrect` | `AggregateAgrees` | `AInv`: while every result named a model, the auth-level view is the aggregation of the models as of some time not after now (`AggregateEstablishes`, and `AggregatedLater` for the passing of time) |
| | `MemoryKept` | `BackoffKept` | `GInv`: what a backoff level says of the last cooldown granted |
| `Background_proofs` (usage) | `UsageTypeCorrect`, `NoRecordLost` | types, `NothingLost` | `UsageInv`: with what a publisher about to enqueue holds |
| | `EveryPluginCalled` | `PluginsComplete` | `Calling`: during a dispatch, each plugin has had every record up to this one, and this one if its turn is over |
| | `ImplementsSafety` | the safety part of `Implements` | every step is a step of UsageLog or a stutter |
| `Background_proofs` (relay) | `RelayTypeCorrect`, `NeverOrphaned` | types, `NoOrphan` | `IInv`: a cleanup visits one request at a time; a caller that may still come to wait is in the map, or will find its channel closed |
| | `AnswersWhole` | `WholeUnlessLost` | the answer is followed from the client's wire through the read loop's hand and the channel to the caller: what left is a prefix of what was sent, without a gap unless the channel was full; one session, whose requests are any number, because sessions share nothing |
| `CodexSession_proofs` | `TypeCorrect`, `PanicTakesTwo` | types, `OneReader` | `ReaderInv`: only a reader closes the channel it has captured, on its way out |
| | `AnswersWhole` | `Answers` | `AnswerInv`: the answer is followed from the request at the upstream through the connection, the reader's hand and the channel to the caller; it has no gap but where the turn's channel has been given up, nothing follows its end, and nobody else has any of it unless the turn is one of those `OwnAnswer` excepts |
| `Background_proofs` (refresh) | `OneRefresh` | `RefreshedOnce` | `GuardedAt`, `TokensAt`: for every auth whose copies have not crossed, the record and each copy still to be stored have the mark or a newer token, and an old token anywhere has somebody who is about to replace it |
| `Files_proofs` | `NothingOvertaken` | `LatestWins` | `LatestWins` is inductive with the types and `Coalesced`: a dispatch replaces what the buffer has of an ID and overrides what is ahead of it (`AgreesMerged`), a batch and a send move updates without reordering any (`Shift`), the service applies the oldest (`AgreesTail`) |
| | `TablesFollowRecord` | `TablesFollow` | `LInv`: unless one of the named overlaps has torn them, a difference between the record, the registered models and the scheduler's entry has exactly one goroutine on its way to remove it, and what that goroutine has read is still true |
| | `ServiceFollowsFiles` | `FollowsFiles`, where `Overlap` and `Hurried` are FALSE as in the run | `WInv`, below |
| `ModelRegistry_proofs` | `CountersAreTrue` | `ListsTrue` | `CInv`: each model's counters are sums of occurrences over the clients' lists, which a registration changes at one client (`SumsChange`) by exactly what `reconcile` adds and removes (`ReconcileReg`), repetitions included |
| | `CacheIsFresh` | `NothingStale` | `CInv` with `Current`: while the cache is used, building the list now would give the cached one, because nothing it is built from changes before the first window in it ends |
| `Conductor_proofs` | `TablesCorrect` | `TablesInStep` | `SchedAt`, `RegAt`: unless handoffs overlapped, a table that differs from the record has exactly one process on its way to write it |
| | `RefusalCorrect` | `RefusalJustified` | `RefusalAt`: what the auths were that a request about to be refused has seen usable since its first pick |
| `Conductor_proofs` (logins) | `PortsOwned` | `Owned`, a part of `LoginsTrue` | `OInv`: who has a port open is in the table, about to enter it, or held by the login that replaces it or stops it, and no two hold the same |
| | `ClientIsTold` | `Told`, a part of `LoginsTrue` | `TInv` with `OInv`: what a session says of a login, at every step between its registration and its end |
| `StreamRequest_proofs` | `TypeCorrect`, `OneStream` | types, `OneWholeStream` | `Inv`, below |
| | `MarkedOnce` | `Accounted`, a part of `Credited` | `Accounts`: while a stream is read its call is unmarked, or was marked with the error the wrapper has taken; while the Manager works, its last call is marked |
| | `WaitFindsReady` | `WaitPays`, a part of `Credited` | `Awaited`: a timer never ends before the cooldown it was set for |
| `Translation_proofs` | `SignaturesHold` | `LookupsTrue` | `CacheInv`: the bucket in the cache has what it was given or has lost what had expired (`Remembered`), and what a lookup under way can still find was valid when it began or is among what it has seen come (`Observed`), whatever bucket it holds |
| | `RequestsAccounted` | `RecordAgrees` and `FallsBack`, parts of `Executed` | `ExecInv`: what may have been published before the end (`Recorded`), and that the number of answers so far is that of the rounds and base URLs behind (`Asked`) |

The argument of `OneStream` says most about how the program works. Five goroutines
move one answer. `Owner` says who waits for the Manager, and that it is called
by nobody once a payload was passed on; `Old` that whatever wrapper is left from an
earlier attempt is then out of chunks and out of marks; `Shape` what a wrapper may
hold, with a stream behind it and without; `Order` that every chunk between the
wrapper and the client is of the last upstream call and later than those before it,
up to the number the wrapper has passed (`Passed`), and `Counted` that without the
converter none is missing; `Marks` that a stream which failed has its error still to
be read, and one which ended is marked a success once; `End` that nothing but the end
of the whole stream or an error ends a response while the client is there.
`OneWholeStream` alone is far from inductive: it says nothing of a chunk before the
client has it.

The argument of `ServiceFollowsFiles` follows a change from the disk to the service. What a
file has is what the hash cache has, or an event of it is queued, or the handler of events
is on its way to look (`Known`); the last event of a file, if it is a write, finds the file,
and no queued removal is one that would be ignored (`Sound`); what the handler is about to
do is right or another event will correct it (`Handled`). The shadow copy is what the
hashes, the configuration and the runtime auths make, unless a reload is about to rebuild it
(`Shadowed`), and the configuration is the file's unless a reload is due or under way
(`Configured`). The last update dispatched of an ID is what the shadow copy has of it, unless
one goroutine has that in hand or a reload has forgotten the auth to find it new (`Sent`).
`LatestNext`, proved of a dispatcher for any IDs and auths, carries it to the service. The
two hypotheses are those under which TLC checks the property, and both are needed: with
`Overlap` or `Hurried` the same module has the counterexamples that the table above
lists for `FollowsDisk` and `FollowsConfig`.

Assumptions. `CooldownAssumption`, `LevelAssumption` (the shifted base grows, does not
overflow up to `MaxLevel` and is past the cap there, as 1 s, 30 min and 64 bits do) and
`RunAssumption`; `QueueAssumption`, `RelayAssumption`, `SessionAssumption` and
`StreamAssumption` give bounds and settings their types; `RefreshAssumption` says that a
pending mark ends before a new token is due; `ConductorAssumption` that requests and
operators are finitely many, `RegistryAssumption` that clients are, and that time passes;
`LifecycleAssumption` that there is a catalog; `OAuthAssumption` that a plan names a
provider for each login, and `DispatchAssumption` that IDs are finitely many
(hypotheses of their theorems, which MCConductor, MCFiles and Watcher assume of their instances);
`CacheAssumption` that 0 is no bucket and the time to live a number, and `ExecutorAssumption` that
the executors are among those of `StepsOf` (MCTranslation assumes both of its instances); `WatcherAssumption`
that files, entries, runtime auths and goroutines are told apart, that a missing file or
configuration is no content of one, and that a configuration excludes models or does not. TLC evaluates each on
every run of its module.

Only model-checked:

- Liveness, because the prover has no rules for fairness and ENABLED: `Recovers`,
  `RequestsEnd`, `LoginsEnd`, `AllReleased`, `AllEnd`, `Settles`, `Returns`, `DueIsTried`,
  and the fair part of `RotationKept` and `Implements`.
- What folds and recursive definitions compute, because induction over data is out of
  its reach: the bound of `Credited` is a sum over sets of pools; `Carried`, `Answered`,
  `Paired`, `Understood` and `ConfigKept` are about functions over conversations, streams
  and lists, which TLC evaluates for all inputs within the bounds; `LimiterExact`, the rest
  of `Executed`, and the part of `LoginsTrue` about the onboarding rest on what `SelectSeq`
  leaves of the limiter's stamps and of a list of projects.
- `PicksAsSelector`, `Heard` and `OnlyNamed`: properties of the shards, of conversations
  and of the config file's edits, whose inductive invariants have not been worked out.

## Not modelled

- Torn memory: where the code has a data race on a Go map, a `sync.Map` or a time
  (`session.go:182`, records shared with the scheduler at `conductor.go:817`), the
  access is one step here.
- A failing token store (`conductor.go:2298` ignores its errors) and remote stores.
- In the watcher: a changed auth directory, malformed files, one file that yields
  several auths.
- The HTTP server and its middleware, the amp module, the token stores, the OAuth clients of the
  providers, logging, usage statistics, access control and the TUI: pure I/O or
  sequential code, listed in `PROJECT.json` with the reason.
- Of the translators: the wording of system prompts.

## Plan

The components above are modelled, and the state that several goroutines share is proved
about as well as checked. What is left, in this order:

1. The part of `PicksAsSelector` about metas and membership in shards.
2. A failing store in AuthRefresh; several auths per file in Watcher.
