# Verification of open-feature/js-sdk-contrib

TLA+ models of the providers and hooks in this repository that carry state
across asynchronous steps, and of the algorithms they decide with, model-checked
with TLC on small instances; theorems about the core of them are checked by
TLAPS for every value of the constants. Paths are relative to the repository; `flagd/` below is
`libs/providers/flagd/src/lib/`, and so on.

## 1. Inventory

The repository is a collection of packages. Each provider is driven by the
OpenFeature SDK (not in the repository): the SDK calls `initialize()`,
`onContextChange()` and `onClose()`, asks for evaluations, and keeps a *status*
(NOT_READY, READY, STALE, ERROR, FATAL) from the promise of `initialize()` and
from the events a provider emits. JavaScript runs one callback at a time;
everything hard happens between callbacks: at an `await`, at a timer, at an event
of a stream. A promise continuation runs before any timer or other callback.

| Part | State | Operations | Interacts through | Hard behaviour | Correct means |
|---|---|---|---|---|---|
| flagd provider, life cycle (`flagd-provider.ts`) | error flag, grace timer, status at the SDK | initialize, onClose, handleReconnect, handleError, the grace timer | callbacks handed to a Service | timer against reconnect, close and continuation of initialize | one STALE per outage, ERROR only after the grace period, timer never leaked |
| flagd, stream connection (`grpc-service.ts`, `grpc-fetch.ts`, `grpc-util.ts`) | stream, pending waits, retry timers, throttle flag | connect, listen, reconnect, handleError, disconnect | gRPC channel and stream | losses, late callbacks, retry chains, fatal codes | exactly one attempt at a time, no tight loop, an outage ends, quiet after close |
| flagd, remote resolver (`grpc-service.ts`) | LRU cache, calls in flight | resolve, handleFlagsChanged, handleProviderReady | unary calls, evictions on the stream | an eviction overtakes an answer | a cached answer is current or about to be evicted |
| flagd, in-process (`grpc-fetch.ts`, `file-fetch.ts`, `flagd-core/storage.ts`) | flag storage | data, setConfigurations, reads of a watched file | sync stream or file, change events | reordering of payloads and reconnects, reads that overlap | storage follows server, changes announced completely |
| OFREP web provider (`ofrep-web-provider.ts`, `store/storage.ts`) | flag cache, ETag, context revision, polling, SSE manager, localStorage | initialize, onContextChange, polling tick, SSE callbacks, onClose | HTTP, EventSource, localStorage | overlapping fetches for different contexts | flags of the current context; polling or SSE, not both, not neither |
| SSE manager (`sse-manager.ts`) | EventSources, three timers, visibility | connect, disconnect, dispose, handlers | browser, its owner | errors of one of several sources, pauses | sources tracked and closed, notifications passed on |
| multi-provider (`multi-provider/`) | names of the entries, per-evaluation hook contexts, providers' statuses | registration, evaluation under a strategy, status tracker | providers, hooks, SDK | parallel evaluations, partial failures, order of events | strategy's promise, status is the most critical one |
| GO Feature Flag provider (`go-feature-flag/`) | event list, batches, runner, evaluator's flags and ETag, WASM engine | addEvent, publishEvents, start, stop, load, poll, evaluate, dispose | collector, relay proxies, WASM module | list changed during a request, re-armed timers, older answers of a cluster, an engine disposed of under an evaluation | no event lost or doubled, flags never go backwards, an evaluation uses one configuration and answers in its type |
| debounce hook (`hooks/debounce/`) | bounded expiring cache | four stages, get, set | wrapped hook, sync or async | one entry for all stages, write-back after await | a skipped stage repeats its last run |
| flagd-web provider (`flagd-web/`) | stream, retry counter, flags | initialize, connect, retry, fetchAll, onContextChange, onClose | connect-web stream | close, timeout and `provider_ready` share one counter; fetches are not sequenced | one stream, flags of the current context, an outage ends |
| GO Feature Flag web provider (`go-feature-flag-web/`) | web socket, flags, key | initialize, reconnect, setApiKey, onContextChange, fetchAll with retries, onClose | web socket, HTTP | each call replaces the one socket across two awaits | no socket left behind, flags of the last evaluation, a loss is answered |
| its collector (`collector-manager.ts`) | buffer, interval | add, send, close | HTTP | batches overlap, fail and go back | no event lost or doubled |
| flagd core (`shared/flagd-core/`) | flags | parse, resolve, fractional, sem_ver, resolveAll | – | bucket boundaries, weights of zero, nested references | rollouts are proportional and grow monotonically, single and bulk answers agree |
| flagd options (`configuration.ts`) | none | getConfig | environment, options | defaults that depend on each other, texts that are no numbers | every setting is usable |
| multi-provider, web (`multi-provider-web/`) | contexts of the providers, statuses | synchronous evaluation, onContextChange | providers | changes that overlap or reject | strategy's promise, one context for all |
| OFREP server provider (`ofrep/`, `shared/ofrep-core/`) | `notBefore`, abort controller | evaluate, onClose, getConfig | HTTP | the pause after a 429, timeouts, close between two awaits | an answer is the server's for this call, the pause is the server's, every call ends |
| AWS SSM provider (`aws-ssm/`) | LRU cache with age | evaluate | parameter store | requests that overtake each other, one key for several types | a cached answer is recent |
| vendor adapters (LaunchDarkly, Unleash, Flagsmith, ConfigCat, Flipt, GrowthBook, Azure), env-var, localStorage, OpenTelemetry hooks | little or none of their own | conversions | a vendor's client | that client's | not modelled |

`PROJECT.json` lists every component with its status, and under `hazards` each
place where this code is hard to test, with the property that covers it or the
reason none does.

## 2. Modules

    ProviderLifecycle           what an application may see of a flagd provider
         ^ implemented by
    FlagdProvider  <-  GrpcStream  <-  GRPCService                 (remote resolver)
                                   <-  GrpcFetch + MemoryStorage   (in-process, stream)
                       FileFetch + MemoryStorage                   (in-process, file)
                                   GrpcFetch + FileFetch           <-  MCFetch
    Fractional + SemVer <- FlagdCore;  FlagdCore + FlagdConfiguration
                                     + FlagdWebProvider            <-  MCFlagd
    OfrepWebProvider                                               <-  MCOfrepWebProvider
    SseManager + OfrepProvider + OfrepConfiguration                <-  MCOfrep
    MultiProvider + ProviderRegistration
                  (+ StatusTracker, WebMultiProvider)              <-  MCMultiProvider
    EvaluateWasm + InProcessEvaluator <- InProcessEvaluation
    InProcessEvaluation + EventPublisher <- GoFeatureFlagProvider  <-  MCGoFeatureFlag
    GoFeatureFlagWebSocket <- GoFeatureFlagWebProvider             <-  MCGoFeatureFlagWebProvider
    DebounceHook + CollectorManager + AwsSsmProvider               <-  MCHooks

`<-` is EXTENDS; modules in parentheses are INSTANCEd. Components that do not
interact share a run: the MC module has a variable `subject` that says which of
them a behaviour is about, and the variables of the others rest. Every definition
that stands for code is in the `map` of `PROJECT.json` with its file and lines.
The definitions whose comment says "mutant" are faulty variants used only to show
that a property can fail.

### flagd

**FlagdProvider** is the provider object. `handleReconnect`, `handleError` and
the grace timer are synchronous callbacks, so they are operators that the steps
of the connection conjoin, not actions. The promise of `initialize()` is settled
and continued in two steps; `MicrotasksDone` forbids timers and other callbacks
in between, as the event loop does. A handle and the timeouts really pending are
separate variables (`errorTimer`, `graceTimeouts`), so that a leaked timer is a
state and not an impossibility.

**GrpcStream** is the code both gRPC resolvers have in common. `waits` counts
pending `waitForReady` callbacks by the kind of attempt, because the callbacks of
the first attempt close over the promise of `connect()` and those of retries do
not. `retryTimers` counts armed timeouts by delay. The channel, the server's end
of the stream and the messages on their way are external. A stream can also *end*
without an error, which no handler notices.

**GRPCService** adds resolutions: sent, answered, continued. The step from
"answered" caches a STATIC answer, whatever was evicted meanwhile. The history
field `covered` says whether the answer was computed while this client was being
notified and no change of its flag was delivered since.

**GrpcFetch** adds the storage; each payload replaces it (`MemoryStorage`) and the
names of the changed flags are announced if `_initialized`. `announced` is the
copy of an application that reads everything at READY and the named flags at each
change. **FileFetch** is the offline source: the first read, the watcher that
compares stats, reads that overlap, and another provider whose `disconnect()`
removes the listeners of both.

**FlagdCore** is the evaluation: `transform` puts shared evaluators in the place
of references, in the order of the text; `validateStructure`, `evaluate` and
`resolveAll` follow `feature-flag.ts` and `flagd-core.ts`. A configuration is a
record that abstracts its text: a rule has an operation, a variant a type. The loops
over evaluators, over the entries of a rollout and (in OfrepConfiguration) over headers
are recursive functions on the number of turns, so that they can be proved about.
**Fractional** and **SemVer** are the operators flagd adds to json-logic, over a
hash range of any size. **FlagdConfiguration** is `getConfig`: a setting that is
absent, one named without a value and one given are different things, because the
options are spread over the environment.

**FlagdWebProvider** is the browser's provider: one stream, the promise of
`initialize()`, the count of retries that the close callback, the timeout and
`provider_ready` share, and bulk evaluations that nothing sequences.

### OFREP

**OfrepWebProvider** treats each async function as a task whose phase is the
await it is suspended at: `load` (the persisted cache), `sent` (the request), `ok`
and `notModified` (the response has arrived), `store` (hashing and writing the
cache). The generation that decides whether a response is superseded is taken
where `_fetchFlags` is called. Of the SSE manager it keeps what its callbacks
report, and `stray`: whether an EventSource its manager has forgotten is still open.
`onContextChange` may be called while `initialize()` is pending (`raced` remembers
that), and the listener of the visibility is registered where `initialize()` ends,
be it after `onClose()`. A list of streams is `usable` or not, which decides what the
manager that polling was stopped for is connected to.

**SseManager** has an EventSource per URL and generation, the grace, debounce and
inactivity timers with the exact meaning of their handles, and the visibility of
the page.

**OfrepProvider** is the server's provider: each call is in the phase of its await
(`headers`, `fetch`, `body`), with the timer of the request, the shared pause
`notBefore`, and the abort signal that only onClose() of the SDK's provider fires
(`owner` says whether the GO Feature Flag RemoteEvaluator, which closes nothing,
is in between). **OfrepConfiguration** is `getConfig`, the merge of headers and
the options the RemoteEvaluator passes.

### Multi-providers

**MultiProvider** runs one evaluation at a time: each provider goes through
before hooks, provider, after or error hooks, finally hooks, in sequence or in
parallel as the strategy says; `firstOrLast` and `compared` are the strategies'
final results. Contexts are objects: object 0 is the one of the call, and
`hookContextCopy` says which object the hooks of a provider write to and freeze, so
that hooks which share one are a state (and a mutant), not an impossibility. A hook
that meets a frozen object throws. The entries of an object are the providers whose
hooks added to it; what is nested in a context is left out. Calls that overlap share
only maps keyed by the context object.
**StatusTracker** is the tracker plus the status the SDK derives; it does not
meet the evaluations, since strategies skip only statuses the tracker never
records. **ProviderRegistration** makes names and entries of the constructor's
list; `before` is the order `Object.keys` gives the second loop, `indexed` the text of
a name with a number at its end. **WebMultiProvider** is the synchronous evaluation, and `onContextChange`,
which awaits provider after provider.

### GO Feature Flag

**EventPublisher** keeps the list and the batches on their way
(`publishEvents` splices the list before its await and puts a failed batch back);
the runner, `addEvent` and `stop` may each have one on its way.
**InProcessEvaluator** loads and polls the configuration of a cluster of relay
proxies that may answer with older versions, 304, failures and bodies that do not
parse. **EvaluateWasm** is the engine: where its module is found, load and
disposal, and the response at a masked address.
**InProcessEvaluation** lets evaluations run beside polls and the disposal: what
they read before the await of the engine, what they answer.
**GoFeatureFlagProvider** composes these with `initialize()` and `onClose()`. The
polling interval is taken as configured.

**GoFeatureFlagWebSocket** has every call of `connectWebsocket`,
`reconnectWebsocket` and `setApiKey` as a task; they meet only in `_websocket` and
in the handlers of that socket: `onclose` is whoever took it over last, `onerror`
stays once it is there, since no code takes it over. A handler that connects twice
(`errorEvent`) is a composition on the record `World`; a socket that this cuts off
`_websocket` is in `strays`. **GoFeatureFlagWebProvider** adds bulk evaluations,
`initialize()` with the context it was called with (`argument`), and
`onContextChange()`, which the SDK may also call while `initialize()` is pending. **CollectorManager** is the
buffer of events with its interval.

### Other

**DebounceHook** models the cache as the ordered entries of a `Map`, with a clock,
and synchronous and asynchronous wrapped hooks. **AwsSsmProvider** is the
read-through cache with size and age in front of parameters that change.

## 3. Runs

Passing runs (each property has a mutant of the code that breaks it):

| Run | What it asks | Bounds |
|---|---|---|
| `grpc` | one attempt at a time and none at once after an error, outage bookkeeping, cache coverage, refinement of `ProviderLifecycle`, outages end | 2 flags, 2 calls, 1 change per flag, 2 losses, 2 messages on their way, cache of 1 |
| `fetch` | storage follows the server or the file, announcements are complete, convergence | stream: 2 flags, 2 definitions, 2 pushes, 2 losses; file: 2 writes, 2 reads at a time |
| `ofrep_web` | polling does not die and doubles in one case only, the provider keeps watching, flags follow the context, quiet after close | 2 users, 2 tasks at a time, 1 configuration change, 1 fault and 1 or 2 context changes, 3 of these together (`MaxEvents`), 3 option records |
| `ofrep` | streams are tracked, timed and never silently lost; a call gets the server's answer for it with the settings as merged; the pause is the server's; what was asked ends | 2 URLs, 2 generations, 4 connects, 3 errors; 2 calls, pauses to 2 ticks; all settings of up to 2 headers from each source |
| `multi` | status follows the tracker, contexts isolated, answers justified on both platforms, contexts reach every provider, entries distinct, calls settle | 3 providers, 2 values, all strategies and fallbacks, 2 changes of context at a time, all lists of up to 3 providers |
| `goff` | events conserved, closing is complete, evaluations sound, flags never go backwards, everything published and flags converge | 2 events, batches of 2, 2 versions, 1 failed request, 1 failed load, 2 evaluations, addresses of 2 bits, 3 placements of the module |
| `goff_web` | which sockets exist and with which key, whose flags the provider has, that a loss is answered | 2 interchangeable contexts (symmetry: nothing but equality is asked of them), 2 evaluations and 2 tasks at a time, 2 sockets, 1 rotated key, 1 change of flags, 1 fault of each kind, 1 retry |
| `flagd` | every accepted text is answered, operators keep their laws, settings usable, the browser's provider keeps up and its stream comes back | about 2200 texts of flags, all rollouts of 2 or 3 entries with 5 weights over 12 hashes, all triples of 23 versions, environments with 3 variables; 2 contexts, 2 evaluations, 1 retry, 2 faults |
| `hooks` | a skipped stage repeats its last run, once per period; no event of the collector is lost; how old a cached parameter can be | 2 keys, 2 stages, cache of 1 or 2, clock to 3 with a debounce time of 2; 2 requests, 2 failures, 2 initializations; 2 parameters, 3 types, cache of 1 |

Why the bounds are enough for what is asked:

- *Two losses* are the fewest that give an outage within an outage, a loss during
  the retry of the first, and a second outage after a recovery. *Two flags and a
  cache of one* make the cache evict at its maximum; two calls let an answer and
  an eviction of the same or another flag cross.
- *Two tasks* (calls, fetches, requests, reads) let any two asynchronous functions
  overlap, which is all the code guards against: its guards are one flag, one
  handle or one revision. In `ofrep_web`, mode `network-first` allows two context
  changes; with the persisted cache one, beside `initialize()`. Users and tasks are
  symmetric there, and `MCInit` begins with persisted streams like those the server
  offers.
- *Two URLs* are needed for one source to fail beside another, *two generations*
  for an orphan beside its successor.
- *Three providers* give a first, a middle and a last one; the theorems cover any
  number. *Lists of three* are the shortest in which a nameless provider
  separates two of another type, or meets a name that was given.
- *A failed request and a new event* put a batch back while another leaves.
- *Addresses of two bits* have an upper half, where the sign of the mask shows.
- *Twelve hashes* are not a multiple of every sum of the weights, so that buckets
  have to be rounded; a hash range of 2^32 differs in scale only.
- *A clock to 3* passes the debounce time of 2 with one tick to spare, so that
  entries are live, on the boundary and expired.

Violation runs (the code differs from what a comment or the README of the package
says; each is a finding in `PROJECT.json`):

| Run | What the code does |
|---|---|
| `fetch_announced` | After a failed first attempt the in-process resolver never again announces a configuration change (`grpc-fetch.ts:92`; README:221). |
| `ofrep_web_context` | With the persisted cache, the late response of a superseded context replaces the flags of the current one: the generation is read after the await (`ofrep-web-provider.ts:298`). |
| `goff_web_reconnect` | A first connection of the websocket that is refused counts as one that opened, and nothing connects again (`go-feature-flag-web-provider.ts:175`; README:72). |

### Fairness

Fairness is assumed of what the event loop and the environment do eventually:
armed timers fire, settled promises continue, a request on its way is answered or
fails, a lost channel comes back (faults are bounded, so "the server stays
reachable" is what the bound says). Weak fairness suffices everywhere but in
`goff`, where `Converges` needs strong fairness of "the newest configuration is
loaded": a cluster may answer with an older one any finite number of times. No
fairness is assumed of callers, except that `fetch` asks of an application that
it initializes its provider. `multi` assumes that the promises of providers and
hooks settle; `ofrep` that a body which has begun arrives, since nothing in the
code ends the wait for it. Runs without a liveness property use `Spec` alone.

`CHECK_DEADLOCK FALSE` is set where the system may really stop: a provider that
was closed, or a bounded environment that has nothing left to do. `multi` checks
for deadlock: a call or a change can always be made.

## 4. Proofs

TLAPS checks every theorem from the named assumptions on the constants and the
library theorems on sequences, functions, finite sets and well-founded relations. Every
theorem is for any values of the constants; in each module `IInv` (or `...Inv`) is
inductive, one lemma per action, and the properties follow from it. Nothing else is
assumed. Bounds such as `MaxFaults` and `MaxInbox` are arbitrary naturals in the proofs.
Every safety property of the passing runs, invariant or action property, is a theorem.

*Induction over data.* What a loop computes is proved without the library's induction
theorems, which take a predicate as a parameter. `<` on the naturals is well-founded,
so every nonempty set of them has a least element (`LeastNumber`); a set of the turns
of a loop that has the first one and is closed under the next therefore has them all
(`SetInduction`), where the set is that of the turns with the property in question.
`Recursion` builds, in the same way, the function a recursive definition chooses, so that
the definition may be unfolded.

**GrpcStream_proofs.** `ConnectionInv` is inductive for *every* step a resolver
can take on its connection, so both resolvers reuse it. `OneAttempt` and
`OutageTracked` are not inductive alone. That exactly one attempt is pending
needs to know that a wait excludes an open stream (`StreamInv`). That a STALE
status is always timed needs which statuses go with which phase of the promise
(`PromiseInv`: a first attempt is alone until its promise settles; a fatal or
rejected promise finds the status STALE and no stream). What a closed client can
still do is a part of its own. `PreservesConnectionInv` puts the steps together,
`RefinesLifecycle` maps a step under that invariant to a step or stutter of
`ProviderLifecycle`, whose `stopped` is that the connection has given up. What this
gives an application is `FatalIsFinal`: FATAL degrades to ERROR when the grace timer
fires, but a provider that was FATAL is never READY again, since it has stopped and
both ways back need one that has not or a status it no longer has. `StaysQuiet` shows
that a closed client with nothing pending stays so.

**GRPCService_proofs.** Theorems: `TypeCorrect`, `ExactlyOneAttempt` (with the
throttle), `OutageBookkeeping`, `CoveredAreCurrent`, `StaysBounded`,
`QuietOnceClosed`, `Implements`. `CoveredEntriesCurrent` is strengthened by `CoverageInv`: the same
holds of answers still on their way, and nothing is covered while no stream is
open or the server is only opening one, or else the next `provider_ready` would
start with outdated covered entries.

**GrpcFetch_proofs.** *Stream:* `SyncInv` says that while the server notifies, the last
message on its way *is* the server's configuration; with an empty inbox this is
`StorageFollowsServer`. `AnnounceInv` rests on `ChangesComplete`: re-reading the
keys `setConfigurations` names turns the old flags into the new ones.

**MultiProvider_proofs.** For any number of providers and any values. `IInv`
has `ContextIsolated`, about the objects the providers' hooks write to and the one of the
call their copies are made of, and describes how far an evaluation has come: in sequence, a provider that was asked
follows providers that are done and whose results made the strategy go on, and
the ones after it were not asked; in parallel all were. From it the set of
resolutions is an initial segment of the providers, its last element decides, and
`ReturnsJustifiedValue` and `FailsJustified` follow for each strategy;
`EveryCallJustified` joins them to the run's `AnswersJustified`.

The same module holds the proofs of the other components of the run, the tracker and the
web's as instances. What makes `SdkFollowsTracker` inductive is that the tracker never keeps
FATAL or NOT_READY (`OverallIsTracked`), so the SDK's ERROR or FATAL is always the
tracker's ERROR, and that no event counts before `initialize()` has settled
(`SdkFollows`). `WebAnswersJustified` compares the loop of the code, which stops at
the first provider that ends it, with the strategy's comment, which speaks of the
first result of some kind: `WebAnswerInv` says that the outcome is the loop's, and
the lemmas on the providers asked that both find the same one. `ContextsFollow` says
something only when nothing is in flight; `WebContextInv` adds the state in between,
that the one change in flight has the context of the SDK and has given it to every
provider up to where it waits.

`EntriesAlwaysDistinct` is about the registration, for lists of any length. The order of
the second loop is total (`ListOrdered`), so how many providers come before one numbers
them without a gap (`Ranks`): `providerEntries` is the list in another order
(`Positions`). Two providers of one name have different indices since the set of those
up to one grows (`Indices`). Of the texts only this is assumed: a name, a dash and a
number determine the name and the number (`IndexedApart`). Whether such a text is also a
name that was given is left open, and is the one exception the property makes.
`PlainNamesAreKeys` is the case without it.

**GoFeatureFlagProvider_proofs.** The first part holds the lemmas on the lists and
batches of the publisher: adding, taking, confirming and putting back keep every
event in one place (`Placed...`), and removing one batch keeps the others apart
(`OthersKept`); each step of the publisher then keeps its invariant
(`...Keeps`). The second has the invariant of the provider. `StageInv` says what may
run at which stage of `initialize()` and `onClose()`: the runner is not started
twice because no call of it is left before the start, and no poll arms a timer after
a clean close because the handle is reset. `HandedOver` (after the stop the list
holds late events only, unless a request failed) gives `FlushedUnlessFailed`;
`ConfigurationInv` (flags and enrichment of one version, also in what a waiting
evaluation has read; a dated configuration carries its own date) gives
`SoundEvaluations` and `OnlyForwards`.

**GoFeatureFlagWebProvider_proofs.** The calls of `connectWebsocket`,
`reconnectWebsocket` and `setApiKey` are taken step by step as a value, the *world* of
sockets, current socket and tasks, so that each lemma says what one operator makes
of any world. `SocketsConsistent` is not inductive: that a call which makes a socket
leaves no other open rests on `Shaped` (a task that waits does so for the current
socket, which is not closed), and `NeverSilentlyDark` on `Lit` (the close of the
current socket is heard by the call that put its handler there, or reconnects). That
no task of `initialize()` is left behind when it is done, except by a socket that
another call is closing, is `Stranded`. What an error does to a socket that is being
replaced is bounded by `Apart` (whoever took over the close handler of a socket that
still reports errors waits for its close): the socket that is cut off then has no
handlers, so it cannot do it again, and `OneSocket` excepts it and no other. `GoesOn`
names the calls that some event or delay will continue, which is what `Lit` finds. For `FlagsFollow` the states in which an
answer is on its way count (`Follows`): without doubt there is one call at most, for
the context of the SDK, and what it was answered is current while no notice of a
change is under way. The call with which a failed `initialize()` tries again is without
doubt only if the context is still the one it was called with. `NoCollectedEventLost` is about the collector: buffer, requests,
acknowledged and dropped events are a family of lists over `Places`, and adding,
taking, putting back and dropping each move one list behind another (`Spread`).

**Ofrep_proofs.** *Settings:* the loop of `mergeHeaders` leaves under each key the last
value that was set (`SettingsAreMerged`, for any lists of headers); the headers that
`parseHeaders` keeps are those with a key and an equals sign, in their order, so that the
last one with a key in the text is the last one in the list.
`RequestsAreAskedAndAnswered` joins this with the calls.
*Server:* a settled call is `Given` what its response says, so what
was answered stays true whatever other calls do to the pause; that an evaluation is
refused exactly as long as asked (`PauseIsTheServers`) needs that `notBefore` is
forgotten only when nothing is left to wait for (`PauseIsAsked`).
*SSE manager:* `ConnectsOnce`, for any URLs and any number of EventSources.
That a visible page is connected needs to know why a hidden one may not be: its
inactivity timer has fired, and this timer is set only while the page is hidden and
the handler registered (`PauseInv`, `ConnectedOrPaused`). That the manager is never
silently without URLs needs `SpokenToHasUrls`: while none was lost, an EventSource
that speaks is one of the manager's own. `FreshOnes` takes a least element, as the
proofs about data do.
*Web provider:* `PollingTracked` rests on `StreamsInv` (a handle stands for a timer
that is pending, for SSE retries too) and `InitializeInv`: until `initialize()` has its
first flags nothing else runs but what a context change has started meanwhile, and the
one interval there may be is the handle's; `initialize()`, which does not look whether
the provider polls already, can therefore add one and no more. `StaysQuiet` needs that
`onClose` stops what its handles know, which by `OnePoll` is everything unless a context
change overtook `initialize()`.
`GuardMatchesRefresh` counts tasks; `RefreshInv` is the same without the
cardinality. `RequestInv` is what `UncachedFlagsFollow` needs: a request whose
generation is the current revision is for the current context, *unless* it awaited
the persisted cache first, which is the finding of `ofrep_web_context`. `WatchInv`
keeps background refreshes to the persisted cache and SSE retries to providers that
do not poll; without the first `Watches` is false (section 5).

**Clients_proofs.** *fractional:* the sums of the loop never fall, so the hashes that
choose an entry are those whose bucket lies between two of its sums; the lemmas on
quotients (`Multiples`) count them to within one at each end. `SharesAreProportional` and
`RolloutsAreMonotone` hold for any number of entries, any weights and any range of the
hash, the 2^32 of the code included.
*sem_ver:* `compare` is a total order on the parts of the versions, which is all that
`ComparisonsAgree` needs.
*Settings:* `SettingsAreUsable` goes through the settings and what a variable may be.
*flags:* `FlagsAlwaysAnswer` is for any texts and any contexts. Its invariant `Parsed`
says that the storage is what the parser made of a text it accepted. That references
resolve is an induction over the evaluators: once those before one have been put in, the
references that are left name later ones.
*flagd, browser:* `FlagdWebKeepsUp` needs, besides the one stream,
what an evaluation in flight is for (`InFlightIsCurrent`), and that evaluations overlap
only in doubt.
*Debounce hook:* `StagesAreDebounced` is about two steps apart, so the invariant speaks
of the entries in between: an entry keeps of a stage how its last run ended or nothing
(`EntriesRepeat`), and a run that succeeded is kept by an entry that lives as long as
its debounce time, unless it was evicted (`RunsAreKept`). That an entry is found by
its key needs that there is one for a key (`Unique`); `Removed`, `Without` and
`Appended` say what the operations of the `Map` do to a list of entries.
*AWS SSM:* `ParametersAreRecent` needs `Recent` of every text on its way and in the
cache: a text that is overwritten was the parameter's until then, so it stays recent for
requests sent before (`RecentStays`).

**The file source** (in `GrpcFetch_proofs`). `FollowsFile`: while the last stat is of
the file's version, what was read is the file's, also by a read that has not yet
filled the storage (`ReadInv`), as long as no two reads overlapped.

Some assumptions on the constants say what the code takes for granted: a model value
such as "no socket" is not a socket (`PlacesAreNot`, `SendsAreSends`), the model has at
least two places for sockets, one for the old and one for its replacement (`TwoPlaces`),
flags are maps (`FlagsAreRecords`), there are finitely many keys (`KeysFinite`), a time
to live and a size of the SSM cache are positive (0 would mean none to lru-cache). The
rest are bounds, any natural numbers, or say what form inputs have: texts of flags and
rules (`ConfigurationsTyped`), rollouts, versions, environments, headers (`InputsTyped`)
and lists of providers (`ListsTyped`) are of the types the parsers and constructors take,
and NaN is not undefined (`NaNIsSome`).

Only model-checked: liveness under fairness (`OutageEnds`, both `Converges`,
`NothingLeftPending`, `CallsSettle`, `StreamComesBack`), which is out of the prover's
reach, as is everything with ENABLED.

## 5. What was seen and no run claims

The models contain the following behaviours. They are described here because a
reader of the code may be surprised; no run refutes a sentence of the repository
by them, or the sentence is too vague to state.

- flagd, server: a fatal status code met by a *later* attempt ends the retries
  without any event (`gaveUp = "retry"`; `grpc-util.ts:135-143`, README:202). A
  stream that ends without an error is never reopened (README:220).
  `disconnect()` cancels neither a pending wait nor a retry timer; such a retry
  fails on the closed client and is repeated. The grace timer also runs after a
  fatal `initialize()` and then reports a plain ERROR. The cache is keyed by flag
  key whatever type was asked for, and it is usable while the channel is READY,
  also with no live stream (`grpc-service.ts:92-93`).
- flagd, file: a write between the first read and the first stat is not seen; of
  two reads that overlap the one that ends last wins; `unwatchFile` removes the
  listeners of other providers of the same file.
- flagd, options: the default port is that of the resolver the *environment*
  names, also when the option names another (`configuration.ts:276`, README:54-56).
  An option given as `undefined` hides the variable, except `streamDeadlineMs`.
  `maxCacheSize` and `retryGracePeriod` can be NaN.
- flagd, browser: `initialize()` never settles if the first stream fails;
  `onClose()` does not clear the retry timer; a late `provider_ready` resets the
  count of retries; a `maxRetries` of 0 means no limit (`flagd-web-provider.ts:67`), which
  the models take for a number; `_connected` is never reset, although `flagd-web-provider.ts:110`
  speaks of it.
- OFREP web: with the persisted cache, a background refresh that finds no event
  streams leaves the provider without polling (`Watches` fails; the run checks
  `WatchesUncached`). Two overlapping fetches can leave the flags of one beside
  the ETag of the other. A superseded context change can dispose of the newer
  SSE manager. A continuation under way at `onClose()` still starts polling or
  streams, and that of `initialize()` registers the listener of the visibility
  after `onClose()` has removed it (`ofrep-web-provider.ts:126-128`, 234-236), so
  that a closed provider fetches when the page becomes visible. A permanent error
  of one EventSource clears the map without closing the others
  (`sse-manager.ts:202`); their notifications are still acted upon (`stray`), and
  their errors find whatever manager the provider has by then.
- OFREP web, polling: a context change that ends before `initialize()` does may have
  started polling, and `initialize()` starts it again without looking
  (`ofrep-web-provider.ts:121-124`): one interval is then out of reach of
  `stopPolling()`. `OnePoll` allows this and nothing more. Event streams of which
  none has the type `sse` and a URL stop polling for a manager that connects to
  nothing (`ofrep-web-provider.ts:478-500`, `sse-manager.ts:91-112`): the provider
  then neither polls nor listens, although `ofrep-web-provider-options.ts:51` says
  "use SSE when the server advertises event streams, fall back to polling".
  `Watches` allows this state (`sse = "idle"`). The fallback of a network-first
  `initialize()` that a context change overtook replaces the flags of the newer
  context by persisted ones, marked as such.
- OFREP server: neither the timeout nor the close covers the wait for a body. A
  later 429 without Retry-After, or with a shorter one, ends the pause. A map of
  headers, which README:54-80 shows, throws in `mergeHeaders` (`configuration.ts:121`;
  the type allows tuples only). The RemoteEvaluator of GO Feature Flag always
  passes `timeoutMs`, hiding `OFREP_TIMEOUT_MS`, and its `dispose()` closes nothing.
  Metadata of disabled or mismatched flags is returned unfiltered
  (`ofrep-api.ts:271`).
- multi-provider: if one `initialize()` rejects, the SDK shows ERROR while the
  tracker counts that provider as READY once it says so, and the change is not
  passed on. A provider that becomes FATAL while the overall status is ERROR
  changes nothing (`status-tracker.ts:7`). The status skipping of the strategies
  never happens, since the tracker knows neither status. Registration groups
  providers by name, so that A, B, A is asked as A, A, B (README:62), and a name
  with an index can equal a name that was given. Of two overlapping changes of
  context on the web, later providers may keep the older one. An error in a comparison
  fails with all errors, and a flag that nobody has fails with GENERAL
  (`errors.ts:14`), on both platforms; the READMEs say that the result of the fallback
  provider is used when not every provider returns a successful result with the same
  value (README:65-66 of `multi-provider` and `multi-provider-web`), and that the code
  is FLAG_NOT_FOUND (README:46-47). Objects are compared by identity, so that two
  providers with equal objects always disagree. The copy of the hook context is shallow
  (`multi-provider.ts:255`): hooks of several providers share what is nested in the
  context, and the hook data.
- GO Feature Flag, server: `stop()` resolves although its batch failed or another
  is on its way, while the comment at `event-publisher.ts:67-71` says all events are
  published. A body that does not parse leaves no flags under a valid ETag, which
  304s then confirm. `onClose()` during `initialize()` leaves timers running. An
  evaluation after `dispose()` loads the engine again, once per concurrent call
  (`evaluate-wasm.ts:225`). The mask of the address is signed
  (`evaluate-wasm.ts:364`). A custom path that does not exist falls through to the
  bundled modules.
- GO Feature Flag, browser: `onClose()` closes the socket, whose close handler
  reconnects. `onContextChange()` reports READY also if every retry failed, and a
  failed first evaluation still resolves `initialize()`. A connect that times out
  in the loop of reconnects ends it silently. `setApiKey()` during `initialize()`
  can leave that pending for ever. Nothing is fetched after a reconnect. An error of
  a socket that is being replaced makes two sockets, one by the loop it starts and one
  by the call that waits for the close, since `onerror` stays when `onclose` is taken
  over (`go-feature-flag-web-provider.ts:149-152`, 113, 442); the first one is left open
  without handlers. A failed `initialize()` tries again with the context it was called
  with (`:100`), also if the context has changed since, and then has flags of the old
  one. A batch of the collector is lost if it cannot be sent for another reason than a
  `CollectorError`, as an endpoint that is no URL (`collector-manager.ts:72-74`,
  `goff-api.ts:45`); the model has CollectorErrors only.
- debounce: every stage that runs renews the expiry of the whole entry, so that
  stages are not independent of each other (`debounce-hook.ts:66`); the comment at
  `fixed-size-expiring-cache.ts:24` says that the TTL is not updated. Overlapping
  asynchronous runs execute more than once in a period, and their write-back can
  lose what another stage stored or revive an expired entry.
- AWS SSM: the cache knows the key alone, so an evaluation can find a value of
  another type; numbers and objects are never cached; the README's example says
  seconds for `ttl`, its table and the code milliseconds; every error becomes
  GENERAL.

## 6. Plan

Done: every component with state of its own that the inventory lists is modelled, and
every safety property of a passing run has a theorem.

Next, in this order:

1. Refinements of the resolvers' parts: `OfrepWebProvider` and `GoFeatureFlagWebProvider`
   against a specification of what an application may see of a provider for browsers.
2. The Flagsmith client provider, the one adapter whose `initialize` and
   `onContextChange` await a client and emit events.

## 7. Not modelled

- The conversion of values, formatting and logging. In `FlagdCore` the null that
  `starts_with` and `ends_with` give for operands of another number or type than two
  strings (`string-comp.ts:17-30`) is represented by `sem_ver`, which gives it too.
- `wasm_exec.js`, the Go runtime that comes with the WASM module: vendored.
- The adapters of vendors' clients (LaunchDarkly, Unleash, Flagsmith, ConfigCat,
  Flipt, GrowthBook, Azure): their state, streams and retries are in clients that
  are not in the repository; what is here is one call and a conversion.
- env-var and localStorage providers (one synchronous read), OpenTelemetry hooks
  (each stage writes to the telemetry API), the sync metadata hook of flagd.
- The generators under `tools/`, step definitions of end-to-end tests.

Time is abstract except in `DebounceHook`, `AwsSsmProvider` and the pause of
`OfrepProvider`: a timer that is armed may fire at any later step, so every order
of timers and answers is covered, the impossible-looking ones of a slow machine
included.

## Running

    tlc -workers 2 -config GRPCService.cfg GRPCService.tla
    tlapm GRPCService_proofs.tla

Module and configuration of each run are in `PROJECT.json`. The longest runs
(`goff_web`, `ofrep_web`) take two to three minutes.
