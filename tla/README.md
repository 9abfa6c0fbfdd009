# Verification of the landing generator

This directory holds a TLA+ model of the landing generator: modules translated
from the code under `src/`, TLC configurations that check them on small
instances, and TLAPS proofs of the properties that matter most for every
instance. `PROJECT.json` maps each definition to the lines it models, lists the
hazards of the code with the properties that guard against them, and names a
plausible bug of the code for every property that a run checks.

## 1. The system

A user registers, logs in, and asks for landing pages. Each page is produced by
an LLM in the background and the user watches it being built over a WebSocket.

| Part | State it keeps | Operations | Talks to |
|---|---|---|---|
| Generation endpoints, `GenerationScheduler` | none of its own | create, list, get | database, broker |
| `GenerationEntity` rows | status, html/css/js, error | create, mark_running, mark_failed, save_result | PostgreSQL |
| `TaskPublisher`, RabbitMQ, Celery | queues `generations` and `emails`, unacknowledged tasks | send_task, deliver, ack, requeue | workers |
| `GenerationExecutor` in `celery_worker` (two processes) | its place in `execute` | the whole of `execute` | database, LLM, notifier |
| `generation_task`, `NotificationPublisher`, engine | connections that outlive a task | publish, close, dispose | event loops |
| LLM plugins (OpenAI, Anthropic) | tool calls under construction | stream_landing | LLM APIs |
| WebSocket gateway, `NotificationSubscriber` | a queue and a forwarder per socket | subscribe, forward, ping, idle timeout | broker, browser |
| `useGenerationSocket` | socket, reconnect timer, ping timer | connect, reconnect, unmount | gateway |
| `GeneratorApp` | form, active generation, result, history | generate, handle event, click in the history | HTTP, WebSocket |
| `App`, `AuthScreen` | user in React state, token in `localStorage` | start, log in, register, log out | HTTP |
| `RegistrationService`, e-mail worker | table `users`, queue `emails` | register, send mail | database, broker, SMTP |
| Login, JWT, current user | none | check password, sign, verify | database |
| Getters of `shared/dependency_provider.py` | the facades each process has cached | build a facade and its parts, once | everything above that is a facade |
| Migrations, compose file | revision and schema of the volume, state of each container | upgrade, downgrade, start in order | PostgreSQL |

Hard behaviours: the worker reads the status of a row and writes it in separate
transactions; the broker delivers at least once; the database, the broker and
the notifier are three systems without a common transaction; pool processes
carry connections from one event loop to the next; a subscriber hears only what
is published after it has bound its queue; React's StrictMode runs every effect
twice with the same refs; answers to requests overtake each other; tabs share a
token but not the user they show; the backend calls the cached getters from many
threads; a volume may come from an earlier release.

What makes each part correct:

* generations: one executor, one paid LLM call, a row that follows its life
  cycle, a feed of events that tells one story which agrees with the row, tasks
  that drain, accepted generations that settle;
* worker process: no task works on a connection of a dead event loop;
* LLM plugins and the facade over them: a stream ends with exactly one done or
  error, its tool events are paired, its result is the arguments of the tools;
* gateway and hook: a socket brings a gap-free piece of what is published, a
  page has one of them, what it holds is released, a lost one is replaced;
* page: it shows what is stored and what it was asked for, and it stops waiting;
* registration: 201 means you own the account, 409 means somebody else does, a
  mail reaches only the account it was meant for;
* sign-in: a tab shows a user only on his password, and acts as the one it shows;
* composition root: a getter builds at most one facade per thread that calls it,
  and the notifier a task publishes through is the one that gets closed;
* schema: nobody meets one between two revisions, nothing that needs the tables
  runs without them, and the stack comes up.

## 2. Modules

| Module | Models | Extends or instantiates |
|---|---|---|
| `GenerationLifecycle` | abstract: the life cycle drawn in `models/status.py` | |
| `Generation` | request, broker, pool and executor | implements `GenerationLifecycle` |
| `GenerationProofs` | theorems about `Generation` and `LiveGeneration` | `LiveGeneration`, TLAPS |
| `Registration`, `RegistrationProofs` | register, unique index, e-mail worker | |
| `WorkerProcess`, `WorkerProcessProofs` | connections of a pool process | |
| `ToolCalls` | tools, events and landing that both LLM services share | |
| `LlmStream` | abstract: the contract of a plugin | |
| `OpenAiStream` | fragments of tool calls become events and a page | `ToolCalls`, implements `LlmStream` |
| `AnthropicStream` | content blocks become events and a page | `ToolCalls`, instance of `LlmStream` |
| `LlmFacade`, `LlmFacadeProofs` | the resolver and the stream of the plugin it picks | `OpenAiStream`, instance of `AnthropicStream`, implements `LlmStream` |
| `Subscription` | abstract: what one socket promises the page | |
| `WsGateway`, `WsGatewayProofs` | hook, endpoint, forwarder and queue, socket by socket | implements `Subscription` |
| `LiveGeneration` | the page composed with the backend | `Generation`, instance of `Subscription` |
| `SignIn`, `SignInProofs` | accounts, token and tabs of one browser | |
| `CompositionRoot`, `CompositionRootProofs` | the cached getters in one process | |
| `Schema`, `SchemaProofs` | revisions, containers and the alembic process | |
| `MC...` | small instances; symmetry sets where they are used | the module they check |

A definition whose comment starts with "Broken:" is a plausible bug of the
definition after it. No specification uses it; substituted for the real
definition it makes TLC violate the property `PROJECT.json` pairs it with.

### Generation

`row[g]` is the row, `req[g]` the POST request, `loc[c]` the place of a task
copy in the broker ("ready", held unacknowledged by a worker, "acked"),
`pc[w]`/`task[w]` a pool process, `feed[g]` everything published about `g`,
`calls[g]` the LLM streams opened. Every await of the code that leaves the
process is one action, so workers interleave at every await and nowhere else.
`feed` and `calls` are history variables: no guard but the bound on tool events
reads them.

| Action | Code |
|---|---|
| `CreateRow`, `PublishTask`, `RequestLost` | `GenerationScheduler.schedule` inside `POST /api/generations` |
| `Deliver`, `Ack`, `Crash`, `Requeue` | Celery with `task_acks_late`, `task_reject_on_worker_lost`, prefetch 1 |
| `FindById` | `execute`, lines 37-41: read and status check |
| `MarkRunning`, `PublishRunning` | lines 43, 44, outside the `try`: an exception leaves the task |
| `OpenStream`, `StreamEvent` | lines 46-56: publish first, then look at the type |
| `SaveResult`, `PublishCompleted` | lines 61-64, inside the `try` |
| `MarkError` | line 57: after an error event, inside the `try` |
| `MarkFailed`, `PublishFailed` | lines 65-70: an exception leaves the task |

Faults are named kinds: a lost or failing `send_task` ("publish"), a doubled one
("duplicate"), a redelivery while the first worker runs on ("requeue"), the death
of a process ("crash"), a session that raises before ("db") or after ("commit")
its commit took effect, a notifier publish that raises, sent or not ("amqp").
Each behaviour has a profile, the set of kinds that may happen in it; Init picks
one of `Profiles`, and `faults` holds it with the number of faults so far, at
most `MaxFaults`. A property names the profiles under which the code can keep it
as its premise (`SingleDelivery`, `CleanFaults`, `NoTaskLost`, `BrokerFaults`,
predicates over `faults.kinds`), so that one run explores several profiles and
one theorem covers all. Section 5 says what happens outside the premises.

The stream is abstracted to what the executor tells apart: tool events, then
done or error. That it ends with one of these is `LlmStream`, which both
translators are proved to implement.

### Registration

`users[a]` is the account of an address and the request that created it (that
is, with whose password), `answer[r]` the place or the HTTP answer of a request,
`loc`, `pc`, `task` the queue `emails` and its workers as above, `mails[r]` the
mails that the SMTP server took. `CreateUser` is the insert under the unique
index. `SendEmail` ends with a mail taken, or (a fault of kind "smtp") with an
exception of `aiosmtplib.send`, raised before or after the server took the mail;
either way the task has ended and `Ack` follows, since Celery acknowledges a
task that failed and nothing here retries it. `refused` are the requests of
which a task ended so.

### WorkerProcess

One slot of the prefork pool. Event loops are numbered; `pool`, `connection`
and `exchange` are the loop that owns the engine's pooled connection,
`NotificationPublisher._connection` and `._exchange`. The control of `execute`
is reduced to which statement uses which resource and where an exception of it
goes. `Publish` is `_ensure_connected` plus the assertion plus the publish; a
failed declare leaves a connection without exchange, as the code does.

### LlmStream, ToolCalls, OpenAiStream, AnthropicStream, LlmFacade

`LlmStream` has the events yielded and whether the stream is open: any number
of tool events, then one done or error, then nothing. `ToolCalls` has what both
services share: the tools, the events, and how contents of tools fill the fields
of the landing (`apply_tool_content`).

`OpenAiStream` handles one fragment of a tool call per action; `newChunk` says
that the fragment is the first of its chunk, so fragments fall into chunks in
every way. `current` is `current_index` of `_translate_chunks` and `local` the
one of `_on_delta`; the code keeps the two apart while it handles one chunk, and
so does the model. `calls` is the dict `tool_calls` in order of insertion. The
provider is free: it may interleave calls, repeat or omit names, send a name
late, cut the arguments anywhere, raise anywhere. Arguments are pieces: a part
of the object, the part that closes it, or a JSON value that is no object. `log`
records the fragments; `FragmentsSpell` computes from it what the page should be.

`FragmentsPaired` is stated for a provider that is orderly (`WellFormed`): calls
one after the other and each named before its arguments. One clause of it is
owed to the code: `_on_delta` does not notice a late name that shares a chunk
with the start of the next call.

`AnthropicStream` has the blocks of the Messages API: one at a time, text or
tool, with its pieces and its stop. The SDK accumulates the final message from
which the page is taken; that is external. Exceptions come anywhere, those of
the extraction included. `BlocksPaired` has no premise.

`LlmFacade` composes the two over the same `out` and `pc`: `Resolve` is
`LlmPluginResolver` with every default and every name asked for, over a registry
`Plugins` that may lack either; then the stream of the plugin runs, the variables
of the other service unchanged. `stream_landing` is an async generator, so what
the resolver raises leaves it in the executor's `try`, before any event
("raised"). Since `out` and the end of the stream are shared, the facade can be
compared with `LlmStream` as a whole (`ContractSpec`).

The consumer's abandoning the generator early is not modelled: `execute` reads
each stream to its last event unless its process dies.

### Subscription, WsGateway

`Subscription` is one socket as the page sees it: nothing, then every
notification in order, until it is closed; or until it goes deaf, which the page
cannot tell from a socket on which nothing happens.

`WsGateway` has one page, the sockets it opens one after the other, and for
each of them four parts: the browser's end (`client`), `ws_endpoint` (`server`),
its task `_forward_amqp_to_socket` (`forwarder`), and the notifications in the
bound queue and on the wire. `timer` is a reconnect that `reconnectTimerRef` can
clear, `strays` those it has lost; `pinging` are the sockets whose interval runs,
`pingRef` the one the shared ref holds. With `strict` the page mounts twice with
the same refs, which is what `main.tsx` asks for in the development build; the
compose file runs that build. Both values are explored.

Glitches: a connection that is lost, a token that is rejected, a `subscribe` or
a forwarder that raises, a page that sleeps. A socket that a glitch has taken the
ping from may time out without a further one.

### LiveGeneration

Adds to `Generation` one page, its requests and its subscription. The page's
handlers run one at a time; the answers to its requests come later, in any
order, or fail. A request for the list is a read (`ReadList`) and a later
`SetHistory`, so lists overtake each other. `CreateRow` of a generation this
page asks for is the same step as the click (`Generate`): what lies between them
concerns nobody. Other pages of the user create generations too, and this
page hears of them. `missed` are the generations whose end was published before
the page knew the id or while it was not bound, `heard` those whose final
status it was told. `LiveInit` is a state that `Generation` can reach: the
generations of `Past` completed before the page was opened. The steps bar and
the preview, which only decorate the same events, are left out. The numbers in
`Gens` are the ids in order of creation, and the list has the newest `Limit` of
the rows (`limit(50)` of the repository, `Recent`); older ones are `Displaced`.

### SignIn

One browser. Tabs share the token in `localStorage`; each has its own `screen`,
`user` and at most one submitted form (`step`, `form`). `Open`/`Startup` are the
effect of `App` that calls `apiMe`, once or (StrictMode) twice; `Submit`,
`Register`, `Login`, `Me` the awaits of `handleSubmit`; `Logout` and `Expire` the
end of a session. A token says whose it is and whether it is still good.
`accounts[a]` is the password of an account. Registration appears by its answers
(201, 409, 500 with or without the account), as module `Registration` has them;
a tab closed while its registration is out may still have made the account.
`entered` (credentials typed in this browser), `disturbed` (tabs whose token
another tab has changed) and `overtaken` are history variables. A tab is
overtaken when, under StrictMode, the second startup answer comes for a token
that is no longer the stored one, or while a form is under way (`Late`).

### CompositionRoot

One process of any service, with the API keys of its environment and `pool`, the
threads that call getters: one, but in the backend those of FastAPI's thread
pool. `cache[f]` is what `lru_cache` holds for getter `f`, `made` the facades
constructed so far, each with the parts it was given, `stack[t]` the getters
thread `t` is in. `lru_cache` holds no lock while the function runs: threads that
miss together all build, the first result stays cached (`Build`), and what raises
is not cached (`Raise`). `Ask` is a route, the socket endpoint or a task that
calls a getter, `AskPart` a getter that calls another one, `Leave` the end of the
request. In `celery_worker` a facade is used too: `Publish` is the executor that
`GenerationFactory.create_executor` gives its own notifier, `Finally` and `Close`
the end of `generation_task`, which asks for the notifier again and closes what it
gets; `connected` are the notifiers with a connection. `Close` may raise, which
leaves the connection with the notifier; `unclosed` (history) are the notifiers
whose last use was such a close. Which getters a service
calls (`Entries`) and which parts a getter asks for (`Parts`) are the code's.

### Schema

`db` is what is committed, the revision and the objects of the schema, and `work`
what the open transaction of the one alembic process sees; `env.py` runs all
revisions in one transaction (`Begin`, `Apply`, then `Commit` or `Rollback`). The
objects are the tables, indexes, the column and the foreign key the three
revisions create and drop. `state` has the containers; `Start` waits for the
conditions of `depends_on`, `Healthcheck` is one that passes, `Fail` a container
that exits (an alembic process dies with postgres or with its own container), `Up`
a further `docker compose up`, `RunDowngrade` an `alembic downgrade -1` by hand,
`Insert` the backend that stores a generation. Init is every volume: any revision,
with rows or without. Docker and alembic's operations are external.

## 3. Runs

| Run | Bounds | Shows |
|---|---|---|
| `single_delivery` | 2 generations, 2 workers, 2 faults of publish, crash, db | one executor, one call, an ordered feed whose last event agrees with the row, refinement of the life cycle |
| `faults` | 1 generation, 2 workers, 3 faults, 4 profiles (all kinds; the broker's; what loses no task; broker and publish) | announced results exist; every queued task is acknowledged; a pending accepted row has a live task, a running row an executor, accepted generations settle |
| `terminal`, `acked` | 1 generation, 1 fault | violations, see section 5 |
| `registration` | 3 requests, 2 addresses, 2 workers, 2 faults of all kinds | who owns an account, who is told what, who gets mail, and that SMTP takes it unless sending it raises |
| `worker_process` | 3 tasks, 3 faults of all kinds | which loop's connections a task can meet |
| `llm` | either plugin; 2 indices, 2 names, 4 fragments; 9 chunks | no lookup fails, the contract is kept, events are paired, the page is what the fragments spell |
| `ws_gateway` | 3 sockets, 2 notifications, 1 glitch, StrictMode or not | sockets are gap-free subscriptions, one per page, released and replaced |
| `live` | 2 generations (one past), 1 worker, 1 fault of publish, crash, db, 2 lists, 2 glitches | the page, its list too, agrees with the rows and stops waiting |
| `sign_in` | 2 tabs, 2 addresses, 2 passwords (one typed here), 2 glitches, StrictMode or not | whose session a tab shows, whose token it uses, that it never hangs |
| `composition` | every service, every set of keys, the backend with 1 or 2 threads | how many facades a race builds, that only a close that raised leaves a connection, which the next close reaches, that each call is answered |
| `schema` | every volume, 2 further commands, 1 failure | nobody meets a schema between revisions, the stack comes up |

Why the bounds suffice. Two workers are what a race needs and what the compose
file runs (`--concurrency=2`); generations share nothing but workers; a task
exists twice at most, and the interesting histories (duplicate, redelivery while
running, redelivery after a crash, failure inside the handler of a failure) need
two or three faults; tool events repeat one step. Three tasks in a process give
a leftover, its victim and a task after that. Two calls of four fragments are
enough to interleave them, to name one late, to cut one off and to chunk them in
every way; nine Anthropic chunks hold two tool blocks with a text block between
them. Three sockets are a loss and two replacements, or the twin sockets of
StrictMode and a replacement. In `live` the past generation is what the user
clicks on in the history while the new one runs, and two lists are enough to
overtake each other; its list has room for both, as the code's has for fifty,
and what happens to a generation that newer ones displace is left to
`HistoryFreshAlways`. Two threads are a race for a getter. A failure, a second
`up` and a downgrade are a migration that is cut off and resumed, and one that
is undone. Two tabs and one typed password out of two give a login that is
refused and one that is not, next to a tab that shares the token. The proofs of
section 4 hold beyond any of these bounds.

Worker and index symmetry is used only where no liveness is checked. The models
stop when all work is done or the bounds are used up, hence
`CHECK_DEADLOCK FALSE`.

Fairness (`FairSpec`, `LiveFairSpec`). A started request goes on, a running
process goes on (an await of the database, the broker or SMTP returns or
raises), and a ready task is handed to some free process. In the gateway, the
browser runs its handlers and its reconnect timer, the endpoint and forwarder of
each socket go on, and the idle minute of a socket that is gone ends. In the
page, the POST and the lists are answered and events are handled; the answers to
clicks in the history need not come. In the tabs, a request is answered or
fails. Weak fairness suffices throughout, since each of these stays enabled
until it happens. Users need do nothing, and no fault is ever obliged to happen.

Threads go on inside a getter; containers whose conditions are met start and
become healthy, and a started alembic process goes on: in `CompositionRoot` and
`Schema` nothing else is obliged to happen.

The type invariants of `Registration`, `WorkerProcess`, `SignIn`, `WsGateway`,
`LiveGeneration` and `Schema` are theorems and no run repeats them; the types on which the
proofs of `LlmFacade` and `CompositionRoot` rest are part of their invariants.

## 4. Proofs

TLAPS proves the following for every set of generations, workers, requests,
tabs, threads, indices and names, for every set of profiles and for every bound;
all proofs rest on the named assumptions of the modules (fault kinds are fault
kinds, bounds are naturals, threads are finitely many, the null values are none
of the real ones). Where a property has a premise over the fault kinds, the
theorem has the same one and no more; only `ImplementsLifecycle` and
`LiveLifecycle` are stated for the profiles they hold under, since a refinement
cannot carry a premise.

### Invariants, action properties and refinements

* Typing: `TypeCorrect` of `Generation`, `Registration`, `WorkerProcess`, `SignIn`,
  `WsGateway` and `Schema`, `LiveTypeCorrect`. In the first, the clause "idle iff no
  task" is what makes it inductive together with the typing of `task`.
* `OneExecutorAlways`, `AtMostOneCallAlways`. The invariant (`DeliveryInv`) says
  that, without doubled or requeued tasks, a copy 2 never leaves "unsent", a busy
  worker's task is held by exactly that worker, and an unsent task belongs to a
  request that has not published. One call follows because a worker between the
  check and the stream is the only one, its row is pending or running by its
  hand, and no call was made before.
* `ImplementsLifecycle`, under lost sends, crashes and sessions that roll back.
  Each action is a step of the life cycle or a stutter; the invariant
  (`StatusKnown`) says which status a row has at each label of its executor.
  With "amqp" or "commit" it is false, see `terminal`.
* `FeedOrderedAlways`, `LastEventAgreesAlways`: `StoryInv` says how far the feed
  has come at each label of the executor, and what it may still say when nobody
  executes; the row follows from `StatusKnown`.
* `FeedTruthfulAlways`, `PendingAccountedForAlways`, `RunningIsExecutedAlways`.
* `CreatedOwnsAddressAlways`, `TakenIsTrueAlways`, `MailHasAccountAlways`: an
  account never changes hands, and a task in the queue belongs to a request that
  owns its account.
* `PaidOnOwnLoopAlways`, `CleanAfterCloseAlways`: a resource belongs to the
  running loop, or the publisher is still the leftover that a failed close left.
* `NoKeyErrorAlways` and `FacadeNoKeyError`: both current indices are keys of
  `tool_calls`, which never loses a key. The model takes each lookup by them to
  succeed; the theorem is why it may.
* `ImplementsContract` of the OpenAI service and `FacadeKeepsContract` of the
  facade over both: an event is a tool event while the stream is open, and the
  step that closes it appends exactly one final event.
* `BlocksPairedAlways`: the last event is a completion unless a tool block is
  open, and then `current_tool` is its name.
* `FragmentsPairedAlways`: `Booked` ties the dict to the fragments received (a
  call for each index that came, named if a fragment named it); `Flowing` says
  that between two fragments of an orderly provider the last event stands inside
  the latest call if that is named, which is then the current one, and is also the
  local one if its first fragment named it. The logs of orderly providers are
  closed under prefixes (`OrderlyBefore`), so `Flowing` may be assumed before
  each fragment; then it is the first of all, one more of the same call, or the
  first of the next call, which completes the one before.
* `FragmentsSpellAlways`: the landing is what the log of fragments spells, calls
  numbered by their first fragments on one side and by insertion on the other.
  The invariant (`Spelled`) says so of the name and the pieces of each index, and
  that the dict is in the order of first fragments; a fragment moves one entry by
  one piece. `LandingInv` takes the page from there when the stream has finished.
  Counting needs no induction: which number a fragment has in a set of them
  (`NthPlace`, `NthKept`) follows by a least counterexample (`LeastNumber`), for
  which the library's theorem on well-founded relations has no operator parameter.
* `OneSocketAlways` of the hook, from the order in which sockets are opened and
  closed (`HookInv`); `GapFreeAlways`: what the page got, what is on the wire and
  what is in the queue are one piece of what was published (`FlowInv`);
  `ImplementsSubscription`: each step is a step of every socket's abstract
  subscription or a stutter.
* `OneAtATimeAlways`, `ResultIsSubjectAlways`: the form, the active generation and
  the requests that are out agree (`FormInv`). `HistoryFreshAlways`: what the page
  was told is in the row, and rows that are settled stay so by the life cycle, so a
  list read later has it (`ToldInv`, `ListInv`) or newer rows in its place: rows
  never vanish, so a displaced one stays displaced (`DisplacedStays`). `ShownIsStoredAlways`: while
  nothing fails, a shown page is stored or its executor is about to store it.
* `BackendGuaranteed`, `LiveLifecycle`: all the invariants of `Generation` hold, and
  its refinement too, when the page is part of the system and opens on a past.
  The inductive invariants of all of them (`BackendInv`) are kept by the steps of
  `Generation`; `CreateRow` together with a click is one of these, the steps of the
  page alone leave its variables as they are, and a past that is over satisfies
  them (`QuietInv`).
* `BuiltOncePerThreadAlways`: getters call each other downwards (`Rank`), so a
  thread is in a getter at most once; facades built plus threads inside the
  getter never exceed the pool, and who finds the cache empty finds none built.
  `NothingLeftOpenAlways`: every caller is given a facade of the kind it asked
  for, with parts of the right kinds (`Wiring`); with one thread there is one
  notifier, and it is the cached one; while it is connected, and not because its
  last close raised, the thread is on its way to `Close` (`Owed`).
* `SchemaFitsAlways`: run to its end, the open transaction leads to the head or
  one revision down (`LeadsTo`), except that a downgrade from the head does not get
  past its first step (`Underway`); so what commits is a whole revision, and once
  `migrate` has completed the revision is the head and stays it (`AtHead`).
  `OnlyStuckRaises`: a plan touches every object once, what it will create is
  absent and what it will drop present (`PassInv`), whatever was cut off before.
  Hence a migration raises only for the two reasons in section 5, and then it never commits.
* `IdentityEarnedAlways`, `ActsAsShownAlways`: every form, token and user is of
  credentials that were entered here; a tab's pending requests carry the token
  that is stored, with two exceptions. Another tab may have changed the token
  (`disturbed`), and of the two startup answers under StrictMode the second may
  come too late (`overtaken`); a first one cannot, since until it has come the
  tab offers nothing that could change its token.

### Safety halves of liveness

Fairness is out of the prover's reach, but a fair step moves nothing unless there
is one to take. These theorems say, for the liveness properties, that what is
waited for is always on its way, in the hands of a request, process, queue or timer
that the fairness condition obliges to go on. That its action is enabled there is
not proved (`ENABLED` is out of reach too); TLC's runs of the liveness show it.

* `HeldIsRunAlways` (for `TasksDrain`), under every kind of fault: whom the broker
  counts as the holder of a task is busy with that very task, and with no other.
* `PendingAccountedForAlways`, `RunningIsExecutedAlways` (for
  `EveryAcceptedSettles`), with the premises of these properties.
* `MailAccountedForAlways` (for `WelcomeArrives`): a welcome mail whose task was
  sent has been taken by SMTP, or sending it has raised, or it is in the queue or in
  the hands of a process about to send it; `MailInv` adds that the broker forgets
  a task only after its mail was tried.
* `NeverStrandedAlways` (for `NeverHangs`): a spinner has a request of its effect
  out, a busy form is on the screen with its credentials.
* `AttendedAlways` (for `StaysConnected` and `QueueReleased`): a page that stays has
  a socket or a reconnect that is due; a forwarder that runs has an endpoint that
  will cancel it, and only a bound queue holds anything.
* `WaitsForSomethingAlways` (for `GeneratingEnds`): the end a page waits for is on its
  way to it once it is published, whatever fails; while nothing has failed,
  the request, the queue or an executor is working towards it (`FlowInv`, about the
  backend alone); `missed` is the exception in both.
* `AnswersFitAlways` (for `EachAnswered`): an answer is a whole facade of the kind
  asked for, and only who asks for generations without both keys is refused
  (`KeyInv`, on top of `Wiring`).
* `OnlyStuckRaises` (for `StackComesUp`), above.

### Model-checked only

The liveness properties themselves: `TasksDrain`, `EveryAcceptedSettles`,
`WelcomeArrives`, `QueueReleased`, `StaysConnected`, `GeneratingEnds`, `NeverHangs`,
`EachAnswered`, `StackComesUp`. That each enabled step is taken in the end, and
that there are finitely many of them, is beyond this prover.

## 5. What the code does not keep

Two runs end in a violation that contradicts the repository's own words:

* `TerminalIsFinal` (run `terminal`): a completed row becomes failed when the
  publish of "completed" raises.
* `AckedIsProcessed` (run `acked`): a crash after `mark_running` leaves the row
  running for ever; the redelivered task is skipped and acknowledged.

Properties of passing runs have premises where the code needs them. What happens
outside, seen while modelling, file by file:

* `generation_scheduler.py:25`: row and task are not saved and published
  atomically, as line 3 has it; a failed publish leaves an orphaned pending row
  (premise of `PendingAccountedFor`).
* `generation_executor.py:44`, `:66`: when the publish of "running" or
  `mark_failed` itself raises, the row stays running (`RunningIsExecuted` and
  `EveryAcceptedSettles` are stated for broker faults).
* `generation_task.py:31`: the facade is asked for before the `try`; when an API
  key is missing the task fails and is acknowledged, and its row stays pending.
  `dependency_provider.py:41`: both keys are needed whichever provider is the
  default (`EachAnswered` says whom this reaches).
* `dependency_provider.py:6` promises one instance of each facade for the life of
  the application; threads of the backend that race build several, of which one
  is kept (`BuiltOncePerThread` says one per thread).
* `ce70c5096fd0...:23`: `user_id` is NOT NULL without a default, so a volume with
  rows below revision 3 can never be upgraded and its stack stays down
  (`Ownerless` in `StackComesUp`). Line 31 drops a constraint without a name: the
  downgrade from the head always raises, which is also all that keeps it from
  taking the schema away under running services (`SchemaFits`).
* `generation_executor.py:53`, `:61`: the page shows a landing at the "done"
  event; when the save after it fails, what it shows is stored nowhere
  (`ShownIsStored` is stated for behaviours without faults).
* `generation_task.py:37`: a failing `close()` skips `engine.dispose()`, so that
  the next task meets connections of a dead loop (`CleanAfterClose` speaks of a
  publisher that was closed), and keeps its own connection, which the next close
  reaches (`NothingLeftOpen`).
* `registration_service.py:36`: the loser of a race for an address gets 500, not
  the 409 of line 19; `:44`: when the mail cannot be queued the answer is 500 for
  an account that exists, and a second try of its owner gets 409.
* `email_sender.py:23`: a task whose sending raises is acknowledged and not
  retried, although `celery_app.py:28` has a task acknowledged only after it
  succeeded; the welcome mail of an account may never arrive (`WelcomeArrives`
  admits just these requests). `email_task.py:21`: a process that dies after the
  SMTP server took the mail sends it twice (`MailHasAccount` does not count).
* `repository.py:55`: the list has the newest 50 generations; the end of an older
  one that the page was told is in no list (`HistoryFresh` exempts it).
* `llm_openai/.../stream_landing_service.py:179`: arguments cut off at the token limit end in a
  done event with an empty page; `interface.py:28` promises a filled one.
* `App.tsx:294`: under StrictMode the page has two sockets for good, and logging
  out closes one of them; `ws/main.py:3` has a client keep one.
* `App.tsx:291`: the sockets of a page share one `pingTimerRef`; the close of one
  can silence another, which the gateway then drops.
* `App.tsx:345`: an error event is followed by no status event, so that a list
  reloaded on it may show "running" until the next reload; `:347`: lists may
  overtake each other (premises of `HistoryFresh`).
* `App.tsx:376`: events that come before the answer to the POST are dropped; with
  an end among them, or one published while no queue was bound, the page waits
  for ever (`missed` in `GeneratingEnds`).
* `App.tsx:394`: the answer to a click in the history replaces whatever is shown
  by then (`ResultIsSubject` admits exactly this).
* `App.tsx:127`: under StrictMode the second answer of `apiMe` may sign a tab out
  after a login, or in after a logout (`overtaken` in `ActsAsShown`, which holds of
  every other tab under StrictMode too); `:32`: a tab that another one has signed
  in or out goes on showing its old user (`disturbed` in `ActsAsShown`). A
  token that expires leaves the page in the application, with failing requests.

## 6. Not modelled

DTOs, prompts and tool schemas (declarations), CI, the steps bar and the preview of
the page (decoration of events that are modelled). Two alembic processes at once,
and an `LLM_PROVIDER` that is no provider, which fails at import. Bcrypt and the
signature of a token are abstracted to their verdict. SMTP, RabbitMQ, PostgreSQL,
the LLM APIs, the Anthropic SDK, docker and alembic's operations appear only by
what the code sees of them. `WsGateway` and `LiveGeneration` have one page each;
two pages of a user share nothing but the exchange. The gateway's connection to
RabbitMQ (`connect_robust`, `ws/main.py:40`) is taken not to drop under a socket:
whether aio-pika then declares the queue again, and the socket would miss what was
published in between, is its own business, and `GapFree` says nothing of it.

## 7. Plan

1. `Generation` composed with `WorkerProcess`: which faults of kind "amqp" and
   "db" come of a leftover connection.
2. Deeper bounds where the runs leave time: a second fault in `live`, a second
   glitch in `ws_gateway`.
