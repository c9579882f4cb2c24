# A TLA+ model of django-bolt

django-bolt is a web framework for Django whose HTTP server is written in Rust
(actix-web, `src/src/`) and whose handlers, middleware, dependencies and
serializers are Python (`src/python/django_bolt/`); `bolt-mcp` is a server for
the Model Context Protocol on top of it.  This directory holds TLA+
specifications of its parts, TLC configurations that check them on small
instances, and TLAPS proofs of some of their properties for instances of any
size.  `PROJECT.json` lists components, runs, mutants, the source lines every
definition stands for, findings, hazards and theorems.

    tlc -workers 2 -config MCUploads.cfg MCUploads      # check a run
    tlapm UploadsProofs.tla                             # check the proofs

## 1. Inventory

How a request moves: Actix accepts it on a worker thread; `handle_request`
(`handler.rs`) finds the route, coerces parameters, applies the rate limiter,
authentication and guards, reads the body and calls Python's `_dispatch` (or
`_dispatch_sync`) with the id of the handler; Python runs the middleware of the
API that owns it, Django's among it, an injector compiled for the handler's
signature gathers its arguments and resolves its dependencies, an executor
compiled for its annotation calls it and turns the result into a status, headers
and a body; Rust writes the response or the stream, and the CORS and compression
middleware see it on the way out.  WebSocket upgrades take another path
(`websocket/handler.rs`).  The route table that connects the two languages is
built once, when `runbolt` imports the project and merges its APIs.

| Component | State it keeps | Operations | What makes it correct |
|---|---|---|---|
| Rate limiter (`middleware/rate_limit.rs`) | sharded map of token buckets, atomic counter, shared by all workers | check, create, evict | the counter is the size of the map; the map is bounded; a client gets no more than its quota |
| WebSocket admission (`websocket/handler.rs`) | atomic connection counter | upgrade, refuse, abort, stop | every slot is given back; the limit |
| WebSocket connection (`websocket/actor.rs`, `handler.rs`, `websocket/types.py`) | actor, bounded channel, mailbox, state of the Python object, handler task | frames, heartbeat, receive, send, accept, close, cancel | messages in order, none lost unnoticed, one truthful disconnect, nobody waits for ever |
| Synchronous and asynchronous streams (`streaming.rs`) | thread counter; per stream: iterator or forwarder, batch, channel, pings | create, pull, send, await room, close, client leaves | the counter; order and completeness; a dead client frees its thread and closes its generator |
| Uploads (`form_parsing.rs`, `handler.rs`, `datastructures.py`) | parser, current part, spool file, files and handles of the request | part, chunk, spool, accept, refuse, open, cleanup | limits; complete content; temporary files live as long as the request |
| Request pipeline (`handler.rs`, `validation.rs`, `permissions.rs`, `metadata.rs`) | one request: stage, context, status | one per stage and early return | no shortcut lets an unchecked request through |
| CORS middleware (`middleware/cors.rs`, `cors.rs`) | none beyond the response | find configuration, add headers | every status, early errors included, gets the right headers |
| BoltAPI (`api.py`, `router.py`) | tables of routes, metadata and owners; caches of executors | route, view, viewset, include, mount, dispatch | no route lost; exactly its middleware; revoked tokens refused |
| Authentication in Python (`auth/`) | tokens issued; revoked ids in memory, a cache or a table, with an end | issue, revoke, look up, forget | a revoked token is refused for as long as it is valid |
| runbolt (`management/commands/runbolt.py`) | discovered APIs, the merged table | discover, merge, start; worker processes | handler ids stay in step with their metadata |
| Django middleware adapter (`middleware/django_adapter.py`, `django_loader.py`) | Django's request beside Bolt's, the response on its way out | load, stack, wrap, convert, synchronise | Django's order; the handler sees what was set; the answer survives two conversions |
| Dependency injection (`_kwargs/model.py`, `dependencies.py`, `analysis.py`) | metadata shared by routes; per request: cache, tasks, results | register, resolve in gather or in order | a dependency sees what it asks for; arguments are not mixed up |
| Typed parameters (`typing.py`, `params.py`, `_kwargs/`, `middleware/compiler.py`) | compiled fields, extractors, injectors, type hints, the plan Rust binds from | compile, extract, convert, bind | every injector gives a parameter the value its declaration names |
| Responses and errors (`api.py`, `serialization.py`, `responses.py`, `error_handlers.py`) | compiled executors; one call: result, wire response | execute, validate, coerce, stream, handle exceptions | a specialised executor answers what the general one would; blame is put on the right side |
| Serializers (`serializers/`) | per class: tables collected at first use, a flag subclasses inherit; instances | define, subset, construct, validate, load from rows, dump, narrow | a dump shows what was declared; an instance is valid; tasks load as the synchronous way would |
| Pagination (`pagination.py`) | none; the client's cursor | page, limit and offset, cursor | a walk shows every row, once |
| MCP server and transport (`bolt-mcp/`) | tools, resources, prompts; sessions, pending requests to the client, the listen channel | register, expose, dispatch, stream, ask, reply, listen, delete | a reply reaches who asked; a result is delivered; a deleted session is closed |
| MCP OAuth server (`bolt-mcp/oauth/`) | clients, logins, codes and refresh tokens in a database | register, authorize, log in, approve, exchange, rotate, revoke | single use; every grant was approved; a replay ends its family |
| ASGI bridge, static files, compression, development reload, server lifecycle (Rust) | a pump; none; an encoder; a watcher; the event loops | | not modelled, section 8 |
| OpenAPI, views, cookies, logging, health, admin, testing | none of their own | | not modelled, section 8 |

What is hard here: atomic counters loaded, compared and incremented in separate
steps by several worker threads; bounded channels between an OS thread, an event
loop and an actor, any of which can end first; a client that leaves at any
point; a cancelled `receive()`; per-route shortcuts computed at import time that
leave out work at request time; the same job compiled in many specialised
variants; metadata copied between tables by several functions; caches filled by
whoever comes first; statements of two transactions that interleave; processes
that die between them.  `PROJECT.json` lists these as hazards, at the line where
each bites, with the property that would notice.

## 2. Modules

Each module keeps the control of the code (states, guards, early returns, order)
and abstracts the data to what its properties tell apart.  A definition named
`X_Something` right before `X` is a plausible bug of `X`; it is used by nothing
but the mutation runs, which replace `X` by it and must then see the property
fail.

The server:

* **RateLimiter.**  `limiters`, `tokens` are the DashMap, `count` is
  `LIMITER_COUNT`, `pc` and `key` the position of each worker.  `Arrive` derives
  the key and loads the counter, `CleanShard` is one shard of `retain` under its
  lock, `Check` is `entry().or_insert_with()` with `limiter.check()` under the
  shard lock.  `Replenish` stands for the clock of the governor crate.
* **WsAdmission.**  A worker's upgrade: load and compare the counter (`Begin`),
  checks (`Refuse`), increment (`Count`), the failures after it (`Abort`), the
  actor (`Start`, `Stopped`).
* **WsConnection** and **WsSession.**  The actor, its mailbox, the bounded
  channel to Python, the `WebSocket` object and the task of the handler, which
  may receive and send from two coroutines.  WsSession says what a handler is
  promised, in seven small actions; WsConnection implements it under the
  mapping at its end (`Session == INSTANCE WsSession WITH ...`), which is checked
  and proved.
* **SyncStream** and **AsyncStream.**  The first has the creation (`Create`,
  `Count`, `Spawn`, `SpawnFails`, `Retry`) and the thread (`Pull...`, `SendChunk`,
  `SendFails`, `BatchSent`, `CloseIterator`, `Leave`) of each stream; the second
  the forwarder coroutine, try_send and the awaited send, the body with its
  pings, aclose and the closing of the sender.  In both, the client reads or
  leaves.
* **Uploads.**  The multipart loop part by part and chunk by chunk, spooling,
  validation, urlencoded pairs, injection into Python, lazily opened files and
  the three ways out: response, error, client gone.
* **RequestPipeline.**  The stages of `handle_request`, one action per outcome,
  then the CORS middleware.  A route is what `RouteMetadata::from_python` makes
  of it; of a request the model keeps what the stages find out about it.

The framework:

* **Apis.**  Registration calls on APIs and routers, mounting, `merge_apis`, the
  documentation routes, what Rust refuses; then dispatch with the cached
  executors, the revocation check and the middleware one by one.
* **AuthTokens.**  `tokens` are those issued, `entries` what the store holds: a
  set in the memory of each worker, keys of a cache that end by themselves, or
  rows a cleanup task deletes.  Rust accepts a token in one step and
  `_check_revocation` looks it up in a later one; handlers revoke in between.
* **DjangoStack.**  A chain of stacks and wrappers around a handler, run against
  a plan that says of every hook whether it passes, answers or raises.  `Flat` is
  the loop over hooks, `Compatible` and `Nested` the chains built where a class
  has only `__call__`, `Wrapper` is `DjangoMiddleware`; `ToDjango`, `ToBolt` and
  `Sync` are the conversions, each with what it keeps and what it drops.
* **Dependencies.**  Registration of routes (the walk over dependencies, the
  metadata kept per function) and the injector of a request: tasks in `gather`
  that start, suspend and resume in any order, then the loop over parameters.
* **Params**, **Binding**, **Responses** and **HandlerCall.**  Params has the
  markers.  The next two are operators:
  where a parameter's value comes from and how each extractor and injector gets
  it (`Injected` chooses as `compile_argument_injector` does; `InjectAll` is the
  loop the injectors share, in which a parameter passed by position gets its
  `Rank` in the order the fields are handled); what each executor makes of a
  result (`Serialize` is the general way, `DirectDict`,
  `InlineStruct` and the others the specialised ones).  HandlerCall is the call:
  register a route, receive a request, coerce in Rust, bind, run or suspend or
  raise, serialise, handle the exception.  WebSocket handlers use the same
  operators.  **Calls** is HandlerCall with variables and constants named apart, so
  that MCData and the proofs have it beside other components.
* **Serializers.**  `attrs` are the tables of each class, `Define` and
  `DefineSubset` class statements, `LazyCollect` what the first use fills in,
  `PostInit` the checks, `Dump`, `ViewDump` and `Quick` the ways to dump.
* **ModelLoading.**  `FromModel` is `from_model` as an operator; the actions are
  `afrom_model`: tasks of fields that walk relations, share loads through a table
  of futures, nest further calls and fail.
* **Pagination.**  The operators and steps of the three schemes, a client that
  walks through all pages and others that insert and delete rows between the
  queries.  An ordered query is the rows by rank (`Sorted`), one that names no
  order any of `Listings`; `queryset` says which the handler gave and whether its
  items carry the cursor's key.  **Walks** is
  Pagination with its constants and variables named apart, for MCData and the
  proofs.

MCP:

* **McpServer** has the tools, resources, prompts and exposed routes and what
  `dispatch` resolves; **McpSession** the sessions, POST, GET and DELETE, the
  streaming call with its task and its queue, the requests a tool sends to its
  client and their answers.
* **McpOAuth.**  The endpoints over rows of clients, logins, codes and tokens.
  Each statement of a transaction is an action; a claim (`DELETE` or `UPDATE`
  that reports how many rows it changed) is atomic, what a request read before is
  a copy.  Rows expire, accounts change and workers die at any point.

**SampleProjects** holds the projects and routes that runs share; the
**MC\*.tla** modules instantiate the modules; the **\*Proofs.tla** hold the proofs.

Components that share state are composed inside a module: the CORS middleware
with the pipeline, the Python object with the actor, the merge with the dispatch
that relies on it, the generator of a tool with its session.  Three MC modules
(MCStreams, MCRequestPipeline, MCData) run several modules that share no state
in one model: the variable `which` says whose behaviour this is, the variables
of the others rest.  No product of their states is explored, and none is needed,
for none reads what another writes.  MCRequestPipeline declares the constants of
Dependencies and AuthTokens beside its own, with their assumptions, so that its
proofs are about any functions, routes and tokens.  The facts one module takes from another
appear as inputs: whether the limiter admits (RequestPipeline, WsAdmission),
which backend accepted (Apis).

## 3. Runs

| Run | Checks | Instance |
|---|---|---|
| `rate_limiter` | `CountIsSize`, `MapBounded`, `AdmissionBound` | 2 workers, 2 shards, limit 5, keys enough to pass it |
| `ws_admission` | `SlotsAccounted`, `ConnectionsBounded` | 3 workers, limit 2, 5 connections, an upgrade failing at each check |
| `ws_connection` | `ReceivedInOrder`, `CodeIsTheCause`, `SentIsWritten`, the refinement `ImplementsSession`, the liveness of `NobodyWaitsForEver` | channel of 2, 4 frames, 2 messages sent, 1 cancelled receive |
| `streams` | `ThreadsAccounted`, `StreamsInOrder`, the liveness of `LostClientsEnd` | synchronous: 3 streams, 2 workers, 1 thread, batch 2, channel 1; asynchronous: channel of 2, 5 items of which one cannot be sent, 2 pings |
| `uploads` | `AcceptedWithinLimits`, `ContentComplete`, `FilesLiveWithRequest` | 3 parts, chunks up to size 2, thresholds 1 |
| `request_pipeline` | `HandlerWasAllowed`, `HandlerKnowsWho`, `BodyAfterChecks`, `CorsOnEveryStatus` | about 250,000 initial states: route tables times requests times global CORS |
| | `RoutesIntact`, `MiddlewareApplied` (with the lookup of tokens on every way to a handler) | all projects of up to 3 calls from 8 and 4 longer ones; 1 or 2 discovered APIs; 2 requests |
| | `RevokedRefused` | a token in each kind of store: 2 workers, 2 requests, 4 seconds, lives on both sides of the default retention |
| | `ArgumentsAreTheirs` | 6 routes over 6 functions, any registration order |
| `data` | `ParametersAreOwn` | 23 signatures that reach every injector, a WebSocket's among them; requests that carry, lack or misspell each key |
| | `SpecialisedAnswersAlike`, `BlameIsRight` | 19 declared answers, in both colours, on the loop, in a thread and dispatched by Rust, against every kind of result |
| | `DjangoOrder`, `StackIsTransparent` | chains of stacks and wrappers with and without hooks; every plan in which up to two hooks answer or raise; a handler that sets 7 cookies |
| | `DumpsAsDeclared`, `AcceptedIsValid` | 3 classes, one nested in another and one derived from another, 2 subsets, 5 views |
| | `AsyncLikeLoaded` | a row with four relations, 3 classes that share, nest, exceed or lack them, every set of preloaded relations, one failing query |
| | `WalkShowsAll` | 5 rows, pages of 1 to 3, 5 sizes asked for, 2 writes; ordered and unordered querysets (two orders of the database), items with and without their key |
| `mcp_session` | `ReplyReachesAsker`, liveness `ResultIsDelivered`, `DeleteClosesListener` | 2 calls, 1 listener, 1 session, 2 requests to the client, every configuration of sessions and streams |
| `mcp_oauth` | `SpentOnce`, `GrantsWereApproved`, `ReplayEndsFamily` | 2 workers, 1 user, 1 client, 1 code, 3 tokens, 1 change of password |
| `uploads_alias` | finds `DeclaredLimitsHold` violated | as `uploads` |
| `deps_parameters` | finds `ParametersArrive` violated | the routes of `request_pipeline` |
| `nested_mount` | finds `SubAppsKeepMiddleware` violated | the projects of `request_pipeline` |

Why the bounds suffice.  A counter race needs as many workers as can be between
load and increment: two show an overshoot of one, three show that it grows with
the workers and not faster.  A bounded channel is empty, partly full or full
with capacity two, and full at once with capacity one.  Batches of two with four
chunks give a full batch, a partial one and an error inside one.  Three parts
are enough for a file, a second under the same name and a part that fails after
both; chunk sizes 1 and 2 against thresholds of 1 end exactly on, below and
beyond a limit.  Three registration calls nest two mounts or two routers; the
longer projects add what three cannot reach (two mounts beside each other, a
duplicate ASGI prefix, a router in two places).  Two hooks that do not pass give
every pair of an answer or an exception with what runs after it.  Signatures and
results are finite by kind: one of each pattern the code distinguishes.  A class,
a class that nests it and a class that derives from it give every order of first
use.  Two requests of OAuth make every race for a row, and three tokens a family
whose middle one is replayed; that run has one user, one client and one scope, so
that a grant is for the one who approved it rests on the theorem `GrantsAreApproved`
alone.  Bounds that exist only to keep the state space
finite are constants named `Max...` and stand in guards; the proofs do not
depend on their values.

`CHECK_DEADLOCK FALSE`, or a last disjunct that stutters, is used where the
program may stop: a closed connection, an ended stream or walk, an answered
request, a project that refuses to start.

## 4. Fairness

Only steps that the runtime takes by itself are fair.
`WsConnection`: the heartbeat timer fires, the actor handles its mail and runs
`stopped`, and the tasks that fetch from the channel, hand over, return and end
are polled.  Nothing makes a client speak or a handler call.
`SyncStream`: each stream has an OS thread, which is scheduled; `__next__`
returns.  `AsyncStream`: the event loop runs the forwarder when it is not
awaiting; `__anext__` and `aclose()` return; Actix polls the body of a client
that reads.  `McpSession`: the event loop runs the stream of a call and its
tool's task (a tool that is neither asking nor ended goes on) and closes a
listener that was told to.  That iterators, generators and tools go on is an
assumption about the application; one that never does keeps its resources.

## 5. Proofs

Proved with TLAPS for all values of the constants under the named assumptions,
which TLC evaluates on every run: `RateLimiterAssumption`, `WsAdmissionAssumption`,
`SyncStreamAssumption`, `AsyncStreamAssumption`, `UploadsAssumption`,
`LimitAssumption`, `TablesAssumption` (sets of workers, streams and requests are
finite, sizes are natural numbers, shards and workers exist, guards are sequences
of known guards); `WsConnectionAssumption` (a capacity of at least one; a close
code is a positive number, for 0 stands for "none"); `CorsAssumption` (a CORS
configuration is absent or one record with boolean flags, and no client sends
`Origin: *`, which is no origin); `McpOAuthAssumption` (the value for "none" is no
request); `DependenciesAssumption` (parameters are a list, finitely many of a
dependency, and `Depends()` names a function); `TokensAssumption` (durations are
whole seconds); `HandlerCallAssumption` (no two parameters of a signature have one
name, and an empty list fits every schema); `WalksAssumption` (a finite table with
unique cursor keys, orders of the database with one place for each row, and a
page that holds a row).

* **RateLimiterProofs**: `TypeCorrect`, `CounterMatchesMap`,
  `AdmissionIsBounded`, `MapIsBounded`.  `CountIsSize` alone is inductive only
  with the types and finiteness; the admission bound needs `CreditPaid`: requests
  admitted *plus the cells still in the bucket* were paid for by creations and
  intervals.  The bound of the map is the hardest: a worker that cleans up may
  evict nothing, because others emptied each shard just before it came, and still
  inserts.  `SweepInv` therefore speaks of the part of the map such a sweep has
  passed: the buckets there (`Past`) and the workers that may still insert or have
  paid for it (`Coming`) fit the bound (`Room`) for every shard a sweep without
  evictions stands at (`Behind`).
* **WsAdmissionProofs**: `NoSlotLeaks`, `LimitExceededByWorkersOnly`,
  and the types.  The bound on connections is strengthened by counting the
  workers that have passed the comparison and not yet incremented (`Overshoot`).
* **WsConnectionProofs**: `ReceivesInOrder`, `CodeIsRight`, `WritesWhatWasSent`
  and the refinement `RefinesSession`.  The invariant `WsInv` has a part for each
  half of the connection.  Towards Python: data stands before disconnects in the
  channel, and there is no disconnect before the end (`Ordered`), so that nothing
  is taken behind one; messages are numbered and counted (`Numbered`, `Counted`).
  Towards the client: what the coroutine was told agrees with the actor
  (`Talking`), and the data on the wire is what was sent (`Written`).  For the
  code (`CodesInv`): an actor that has left "running" has set `close_code`, or has
  put a notice on its way, or the notice was lost and something records that
  (`Noticed`), because `stopped` puts a second disconnect with 1000 behind the
  first when `close_code` is unset.  `PendingStep` then classifies every step by
  what it does to the messages on their way (taken, ignored, delivered, lost to a
  cancellation, abandoned, left alone), and each class is an action of WsSession
  or a stutter.
* **StreamsProofs**: `ThreadsAreAccounted`, `StreamsAreInOrder`, `WalksShowAll`.  The limit is
  strengthened by the workers that passed the comparison and have not counted
  (`PlacesKept`); the order is that of the concatenation of what the client has,
  the channel and the batch (or the item in the forwarder's hand), which a step
  only moves along or appends to.

  For pages (`WalkInv`): the rows shown by a walk with a cursor are none beyond the
  key it stands at, each once, and, if the items carry the key, among them all that
  were there from the start (`CursorWalk`), which writes on either side of the
  cursor cannot disturb.  On an ordered queryset the other two schemes have shown
  the rows by id up to the next page, which exists (`CountedWalk`), as long as
  nobody wrote: for page numbers, so many pages hold
  all rows and one fewer does not (`WholePages`).  Both rest on what sorting by
  rank yields (`SortedPlaces`).
* **UploadsProofs**: `OnlyFittingFiles`, `FilesAreWhole`,
  `NothingOutlivesRequest`.  The inductive invariant adds that limits hold from
  the moment a file is added (`Limits`), that files in the map belong to earlier
  parts (`Earlier`) and where temporary files are while the parse goes on
  (`Lives`).
* **RequestPipelineProofs**: `OnlyAllowedRun`, `RunsAsWho`, `RefusedUnread`,
  `TypeCorrect`, `CorsIsRight`, `RevokedStayOut`, `ArgumentsAreOwn`,
  `ParametersStayOwn`, `AnswersAlike`, `BlameStaysRight`.  The invariant says, stage by stage, which checks
  have passed; the two lemmas at its centre are that a route the plan lets skip
  authentication has nothing to enforce, and that headers are extracted whenever
  a backend needs them.  For CORS (`CorsInv`): only a response of a route that
  skips CORS is marked, and the configuration found for a method and path is the
  route's own or the global one (`ConfigOfRoute`).

  For tokens (`TokenInv`): while a revoked token is valid and was not shortened,
  there is an entry where the worker looks, and it ends no earlier than the token
  (`EntriesLast`), which needs that ids are not issued twice; a request that knows
  its token revoked was looked up where the revocation went (`KnownRequests`).

  For dependencies (`DepsInv`): a function keeps the metadata it was first
  compiled to (`MetasCompiled`); what the walk over a route's dependencies has
  visited is covered by the needs gathered so far, and what it has not is still on
  its list (`Walked`), so that a finished plan covers all (`Planned`); a call never
  lacks what a marker asks for (`Fed`); and during a request every task, cached
  value and result belongs to a call of that request (`Serving`), through any
  interleaving of `gather`.

  For calls, the arguments and the answer are separate invariants.  `Calling`: a
  running handler has what `Bound` gives it, and what could not be bound is raised
  and answered 422.  That `Bound` is right (`BoundIsOwn`, `WsBoundIsOwn`) rests on
  two facts: an extractor gives a field what is meant for it, source by source
  (`ExtractedIsOwn`), because the maps it reads are those the fields need
  (`NeededSeen`) and hints follow the name (`HintGiven`); and `InjectAll` puts
  every value in the place of its rank, for ranks number the positional parameters
  without gap or repetition under either order (`RankPlaces`, `CallPlaces`) and
  agree with the signature unless a query parameter precedes a path parameter
  (`RanksAgree`).  `Answering`: what was returned is answered as the route's
  executor has it.  The executors are compared with `serialize_response` one by one
  (`DirectAlike`, `StructAlike`, `ListAlike`, `AnswerAlike`), and every failure of an
  answer is one of three exceptions (`AnswerFailures`).  These theorems and
  the run of MCData take HandlerCall from Calls.
* **McpOAuthProofs**: `EachIsSpentOnce`, `GrantsAreApproved`,
  `ReplayRevokesFamily`.  `OAuthInv` says who holds what between two statements:
  a claimed code is gone, unused and in the hand of one request (`CodesHeld`); a
  rotation has its row locked (`Rotating`); a successor is the only one of a
  token marked rotated (`Succession`); a deletion has seen every token of the
  family but those inserted since it began (`Revoking`); and whatever a request
  is about to mint for was approved (`Approvals`).
* **McpSessionProofs**: `RepliesReachTheirAskers`.  The ids of requests that a
  call has sent, has queued or whose client has heard were given out by its
  session (`IdsGiven`), each to one call (`IdsOwned`).

Their type invariants are part of the inductive invariants, so the runs of these
modules do not repeat them.  TLC checked each inductive invariant as an
invariant of the module's run before it was proved.

Only model-checked: all liveness (`NobodyWaitsForEver`, `LostClientsEnd`,
`ResultIsDelivered`, `DeleteClosesListener`), for reasoning with fairness and
ENABLED is beyond the prover; `RoutesIntact` and `MiddlewareApplied`, for Apis
builds its tables by folds over the calls of a project, and what a fold computes
for every input needs induction over data; and what is computed by walks over
chains, classes and relations (`DjangoOrder`, `StackIsTransparent`,
`DumpsAsDeclared`, `AcceptedIsValid`, `AsyncLikeLoaded`), which are RECURSIVE
operators.

## 6. Findings

Runs that expect a violation:

* `uploads_alias`: constraints of a `File` parameter with an alias are registered
  under the parameter's name and looked up under the alias, so none is applied.
* `deps_parameters`: a dependency may be called with `None` for a parameter that
  the request carries, or that is itself a dependency.
* `nested_mount`: `mount` records the mounted app as owner of every route it
  copies, also of those from that app's own sub-apps, whose middleware is lost.

Differences noticed while modelling, followed by the model and not made a run.
Where a property would fail because of one, it excepts it by name.

Server and dispatch:

* A dependency marked as cached that awaits is called once per use when several
  are resolved by `asyncio.gather` (`dependencies.py:47`), although
  `docs/src/topics/dependencies.md:107` says it is called once.
  `ArgumentsAreTheirs` therefore promises one call only outside of gather.
* The preflight of a route without GET is answered with the global CORS
  configuration if there is one, not the route's own or its skip
  (`middleware/cors.rs:188-190`).  `CorsOnEveryStatus` is about other methods.
* The cleanup of the limiter evicts in map order (`rate_limit.rs:128`), not the
  oldest buckets.
* `AllowAny` ends the evaluation of the guards after it (`permissions.rs:30`).
* A WebSocket message that the client sends in fragments is dropped: the actor
  has no case for continuation frames (`actor.rs:227`), nor do they count as a
  sign of life.  `ReceivedInOrder` counts these messages apart.
* A synchronous iterator that raises ends the batch and not the stream
  (`streaming.rs:385`); one that raises on every call keeps its thread.
  `LostClientsEnd` excepts it.  An asynchronous generator whose `__anext__` never
  returns is not closed when its client leaves (`streaming.rs:76`).
* A router included in two routers keeps the middleware of the last only
  (`router.py:199`), and a function with two routes in one API is served with the
  executor of whichever came first; `MiddlewareApplied` excepts both.
* Two revoking backends with one scheme name share the last one's handler
  (`api.py:1576`); `RevokedRefused` excepts them.
* A mounted API is still found by autodiscovery and served at its own paths as
  well; `_BOLT_API_REGISTRY`, from which `mount` removes it, is read by nobody.
* The merged API has no logging middleware, so unhandled exceptions in merged
  projects are answered but not logged (`api.py:2640`).
* Static routes registered twice replace each other; dynamic ones raise.
* Guards and backends that Rust cannot parse are dropped (`metadata.rs:508-525`).
* A route's CORS configuration with no regexes of its own uses the global ones.

Django's middleware:

* `DjangoMiddleware` awaits the rest of the chain and only then copies the
  attributes of Django's request (`django_adapter.py:201`), so the handler behind
  `DjangoMiddleware(SessionMiddleware)` has no session, which
  `docs/src/topics/requests.md:191` promises; the stack copies them first (:704).
* The stack copies them before it calls `process_view` (:704, :709; :571 in the
  compatibility chain), so what a view hook sets, such as the
  `csrf_processing_done` that the copy names (:891), never reaches the handler.
  `StackIsTransparent` says the handler has exactly what was set before.
* A response that passes a layer has its cookies rebuilt in a `SimpleCookie`
  (:986): two cookies of one name with two paths become one, and the later one
  keeps the Max-Age and Expires of the earlier where it gives none itself, so a
  cookie that is deleted and then set in one response stays deleted.  A Max-Age of
  0 is dropped on the way back (:1028); `delete_cookie` still works for it gives a
  date as well (`cookies.py:114`).  The property promises the value and path of
  the last cookie of each name, and the rest of one that is alone.
* A synchronous class with only `__call__` under `DjangoMiddleware` is handed a
  coroutine and fails.  A stack of hooks does not set `_request_context`, so a
  `DjangoMiddleware` inside it makes a fresh Django request.  An exception skips
  `process_response`.  Only a fixed list of attributes is copied, although the
  docstring at `django_adapter.py:858` speaks of all.

Calls and answers:

* `injector_simple` passes path parameters before query parameters
  (`model.py:604`), so `h(q, id)` on `/items/{id}` gets them exchanged;
  `build_handler_arguments` keeps the order (:472).
* A lone parameter named `request` or `req` is given the request, by position,
  whatever source or type it declares (`model.py:176`).  `ParametersAreOwn`
  excepts both.
* A route that declares a Serializer as its answer dumps it, converts the dump
  back and encodes that (`serialization.py:810`): computed fields are lost and
  write-only ones come back, against `docs/src/topics/serializers.md:858`.
* A handler whose only suspension is `async for` is dispatched without a loop and
  answered 500 (`api.py:1744`).
* An int header or cookie that does not parse becomes 0.  Type hints are kept by
  name and miss aliases.  A marker given as default reaches the handler as a
  `Param` object when the value is absent; constraints of markers are not
  enforced.  A second body parameter gets the object of the first.
* The specialised executors of a plain function call `serialize_response_sync`
  where they run (`api.py:2150` to `2305`).  Dispatched by Rust that is a worker
  thread; behind any middleware, signal or revocation handler it is the event
  loop, where Django refuses the query of a returned QuerySet
  (`SynchronousOnlyOperation`, answered 500), while the generic `execute` moves a
  QuerySet to a thread (`api.py:2344`); `extractors.py:832` has it that "sync
  handlers run in thread pool".  A route with several statuses does the same
  (`api.py:1729`), and so does a QuerySet inside a `JSON`.
  `SpecialisedAnswersAlike` excepts the QuerySets evaluated on the loop and says
  what they get: a 500.
* A `File` is opened when it is answered, and what `open()` raises is answered as
  the same exception of a handler would be: 404 for a missing file, 403 where the
  server may not read it (`error_handlers.py:354`), 500 otherwise.  Of the values
  that cannot be answered it is the only kind for which the client is told
  anything but 500; `BlameIsRight` says so.

Serializers and pages:

* A class that is first used after a class it derives from finds the flag of the
  parent set (`base.py:671`) and never collects its own fields: write-only fields
  are dumped and `field()` objects stay as values, against
  `docs/src/topics/serializers.md:690`.
* `subset()` keeps only the last validator of a field (`base.py:1929`) and no
  model validators.  `dump_many` decides by the class it is called on.
  `model_validate` (`base.py:1013`) does not unwrap the error that
  `model_validate_json` unwraps.  A nested `afrom_model` has a table of loads of
  its own, so two levels may load one relation twice.
* Field validators run after the nested and literal checks, and what they return
  is set unchecked (`base.py:818`); model validators run last and may set any
  field (`base.py:905`).  So an instance may hold a value its own types refuse,
  put there by the class's code.  `AcceptedIsValid` speaks of the client's values
  and says of the others that a validator put them there and no later validator
  refused them.
* Page and limit walks slice the queryset as the handler gave it
  (`pagination.py:414`, `502`), with no order of their own: one that is not
  ordered may come in another order at each query (the model takes any of
  `DbOrders`), and its pages then repeat and miss rows even if nobody writes.
* The cursor is read off the last item (`pagination.py:636`): a dict of `values()`
  without the field, a lookup across a relation or a null key gives an answer with
  `has_next` and no `next_cursor`, where the walk ends early (`keyless` in the
  model).  `WalkShowsAll` promises all rows of ordered querysets and of items that
  carry their key only.
* A cursor on a key that is not unique skips equal rows at the border of a page.
  Count and slice are two queries, so page and
  limit walks skip or repeat rows when others write.  Items given as dicts are
  answered with all fields of the struct, write-only ones included.

Authentication:

* An entry of a store ends with the token's `exp` (`revocation.py:22`), while
  `Validation::new` of jsonwebtoken, which `auth.rs:170` uses unchanged, forgives
  a token that has expired for its default leeway of 60 seconds: in that minute
  the store has no entry and the token is still decoded.  `RevokedRefused` is
  about a token before its `exp`.
* Each call of `revoke()` replaces the entry of the last, so a second call without
  `exp=` can shorten it.  The documentation of `revoke()` speaks of 30 days where
  none is given (`revocation.py:68`); `_DEFAULT_TTL_SECONDS` is 7.
* `require_jti` is in the metadata but Rust does not read it; a token without a
  `jti` is refused by `_check_revocation`, that is, where a store is configured.

MCP:

* A session that is terminated leaves the call of a tool that waits for its client
  unended: the `CancelledError` passes the code that makes a result of an
  exception (`_execute.py:57`) and the end of the stream is never queued; a tool
  that asks afterwards waits for a future nobody knows (`context.py:112`).
  `ResultIsDelivered` excepts both.
* A notification or a request of a tool that cannot be encoded
  (`serialization.py:437`) ends the stream of its call: the tool is cancelled or its
  result dropped, and the client, who still reads, gets neither a result nor an
  error.  `ResultIsDelivered` excepts it.
* Nothing but the close message is put on a session's queue, so a listener whose
  client left keeps `get_stream_open` and a reconnect is answered 409 until the
  session is deleted; a client that leaves during a request to it is noticed only
  when the tool goes on.  An `McpError` raised by a notification is a 500, and
  `initialize` without an id makes a session nobody can reach.  Sessions never
  expire.  Exposed routes lose the parameters that are dependencies.
* A rotation that commits while the family of its token is being deleted survives
  the deletion (`store.py:122`, `models.py:55`).  `ReplayEndsFamily` is about the
  tokens that were committed.

## 7. What is abstracted

Paths are sequences of segments; a middleware, a backend, a guard or a message
is a name or a number; formatting and logging are left out.  The decoding of a
JWT, regular expressions and msgspec are facts about the request or the value: it
is right, wrong or vetoed by its class.  A struct is the set of its fields, a
response its status, content type and the form of its body.  The arms of a `CASE`
are read from the top, as TLC evaluates them and as the code's `if` chains are;
where a proof depends on it, the chain is written with `IF`.  Apis leaves out
lifespans, signals, the Django admin routes and a Django wrapper instance given
to two APIs.  WsConnection assumes that a handler accepts before it receives, as
`accept()` documents.  DjangoStack leaves out the thread a hook runs on.  Rows
that two tasks load separately are one object in ModelLoading.  McpOAuth
abstracts pages, hashes and signatures; the verifier of PKCE is hashed by an
operator that is injective.

## 8. Not modelled, and the plan

Not modelled, with the reason: static files, OpenAPI documents, cookies, the
bytes of responses, logging, health checks, admin and nanodjango (formatting, or
routes added by calls that Apis models); class-based views (no state; Apis
registers their methods); the loading of `request.user` (one query, no state); testing utilities (a second driver of the pipeline);
the command line.  Not modelled and worth it, in this order:

1. **DevReload** and worker processes (`dev_reload.rs`, `runbolt.py`), then the
   server's lifespans.
2. **AsgiBridge** (`asgi_http.rs`), the compression encoder and negotiation.

A proof to add: `RoutesIntact` of Apis for any number of APIs and calls, with the
folds over calls replaced by one action per call.
