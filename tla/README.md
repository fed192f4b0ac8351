# Verification of the DHS HTTP service

The service (`src/DhsTranslator`) wraps the 32 bit `dhsClient` library of the
Gemini Data Handling System in an HTTP interface: an Axis2/C service skeleton
that turns `createImage`, `setParameters` and `setKeywords` requests into calls
of the library. This directory holds TLA+ models of it, the TLC configurations
that check them on small instances, and TLAPS proofs for instances of any size.

## Inventory

| Component | State | Operations | What makes it correct |
|---|---|---|---|
| `MessageCache` | map from image id to list of (timestamp, data), `validAge`, mutex | `purgeOldMessages`, `exists`, `add` | remembers a message for `validAge` seconds, forgets it afterwards, does not keep empty lists |
| `IDhsAdapter` | none (interface; also the `Keyword` value class) | `createImage`, `setImageLifeTime`, `setImageContrib`, `setImageKeywords` | success means that the DHS has done it |
| `DhsAdapter` | `connection`, `isConnected`, one timed mutex (5 s) | the four above, `checkConnection`, constructor, destructor | the library is used by one thread at a time, over one connection; a hung DHS stops only the call that is in it |
| `DhsAdapterSim` | `nextId`, mutex, table of keyword types; the buffer of `localtime` | the four above | ids are unique (they are until the counter wraps or the server is started again) |
| `DhsService` | the singleton, its adapter and its cache; per request: id, keywords, timestamp | the three operations, `checkTransaction`, `recordTransaction` | success means that all of the request was done; a repeated message is not sent twice within `validAge`, a new one is not skipped |
| life cycle (`DhsService.cpp`, `service.cpp`) | `theService`, `dhsAdapter`, `msgCache`, `dhsInitialized`, the event loop of the library | `create`, `stubInitWithConfig`, `remove`, constructors and destructors | everything is deleted once and not while requests use it, as far as the container keeps them apart; what takes itself for connected is; a removal ends |
| request parsing (`DhsService.cpp`, `DhsService.h`) | the fields read so far, the `Keyword` values | the loops over the body, `parseArrayNode`, `parseVal`, `buildKeyword` | a value read is what its type's conversion makes of the text, no item of a list is passed over, the last list of keywords is whole or the request refused |
| `DhsUtil`, `defines.h`, responses | none | names for logging, macros, XML building | |

How they interact: Axis2 calls `stubInvoke` on any of its worker threads; the
singleton dispatches to an operation, which calls the adapter (blocking, through
the virtual interface) and, for `setKeywords`, the cache before and after.
Threads share the adapter and the cache and nothing else. The cache's methods
run each under one mutex. The adapter's calls take its mutex twice, for at most
five seconds each, and call the library, which has threads of its own, with the
mutex held.

What is hard: the duplicate check and the recording of a message are two calls
with the exchange with the DHS between them; times are read long before they
are used, so the cache sees them out of order, while it purges lists from the
front only; `isConnected` is read after the mutex is released; waits for the
mutex may run out at two places; `dhsWait` has no timeout; `createImage` is up to
three calls any of which may fail; nothing keeps requests out while the service
is set up or removed; what was read of a list that breaks off stays in the
request; numbers pass through types of several widths. The list with source
lines is under `hazards` in `PROJECT.json`.

## Modules

| Module | Models | Checked by |
|---|---|---|
| `MessageCache` | `MessageCache.cpp`, `MessageCache.h` | run `cache`; proofs in `MessageCacheProofs` |
| `IDhsAdapter` | what `IDhsAdapter.h` promises | as a property of `DhsAdapter` and `DhsAdapterSim`; proofs in `IDhsAdapterProofs` |
| `DhsAdapter` | `DhsAdapter.cpp`, `DhsAdapter.h` | run `adapter`; proofs in `DhsAdapterProofs` |
| `DhsAdapterSim` | `DhsAdapterSim.cpp`, `DhsAdapterSim.h` | runs `sim`, `sim_ids`; proofs in `DhsAdapterSimProofs` |
| `DhsService` | the request handlers of `DhsService.cpp`, `DhsService.h` | runs `service_keywords`, `service_images`, `final_lost`, `check_race`; proofs in `DhsServiceProofs` |
| `DhsTranslator` | the handlers over the real adapter: `DhsService` and `DhsAdapter` composed | run `translator`; proofs in `DhsTranslatorProofs` |
| `RequestParser` | the loops over the body and over arrays, `parseVal`, `buildKeyword`, `Keyword` | runs `parser`, `parser_types`; proofs in `RequestParserProofs` |
| `LifeCycle` | `create`, `stubInitWithConfig`, `remove`, constructors and destructors of `DhsService.cpp`, `DhsAdapter.cpp`, `service.cpp` | run `lifecycle`; proofs in `LifeCycleProofs` |

An `MC...` module with a `.cfg` file bounds a module for TLC. An operator that a
comment calls a faulty variant is what a plausible mistake would make of the
definition after it; each is there to show that a property notices the mistake,
and nothing else uses it.

`IDhsAdapter` is the abstract specification of an adapter: a call is made
(`Invoke`), may have its effect (`TakeEffect`), gets an answer (`Succeed`, `Fail`)
and is over (`Collect`). `DhsAdapter` and `DhsAdapterSim` implement it.
`DhsService` is over any adapter, so it uses `IDhsAdapter`, and `MessageCache` for
the cache. `DhsTranslator` puts `DhsAdapter` under the handlers and implements
`DhsService`. `RequestParser` is where the records come from that `DhsService`
takes for requests. `LifeCycle` has the objects themselves, and of a request only
what it points to.

### State and actions

`MessageCache`. `cache` is the map, its domain the keys that are present. A method
runs under the mutex from end to end and is one action: `PurgeOldMessages`, `Add`,
and the query `Exists`. `now` is the system clock. `recorded` is a history of the
additions with the time of each. Callers give any time they may have read, up to
`now`, since threads read the time long before they call.

`DhsAdapter`. `pc` has the place of a thread between taking and releasing the
mutex, `status` the local variable of that name, `newId` what `dhsBdName` returned,
`lock` the owner of the mutex. `ConnLock` to `ReadConnected` are `checkConnection`;
`OpLock` to `OpUnlock` are the operation, which all four operations have in the
same form; `Timeout` is `timed_lock` giving up, which it can do only while another
thread has the mutex. `Connect`, `DhsApplies` and `DhsReturns` are the external
library: it may fail, with or without effect, or never return. `newId` is private
to the thread from the return on, although the code copies the id from the
library's memory only after it has unlocked (`DhsAdapter.cpp:88-96`): that
`dhsBdName` answers in memory that belongs to the call alone is assumed. `opened` counts
connections.

`DhsAdapterSim`. Each step of `createImage` that other threads can come between is
an action, down to the single fields of the buffer of `localtime`. `Restart` is a new
process: all but what clients were told starts anew. `turn`, `latches`, `started`
and `created` are history.

`DhsService`. `pc` is the place of a request in its handler; a thread stands still
in `creating`, `settingLifetime`, `settingContributors` and `sending` until the
adapter answers. `Receive` is the server handing over a request, `Respond` the
answer going out. `checkTransaction` is the two actions `Purge` and
`CheckTransaction`, because it makes two calls on the cache, and `timestamp` the
time that was read before both. `effects` is all that the DHS was made to do.

`DhsTranslator`. `place` is the `pc` of the adapter. A step of a handler is one of
`DhsService` that leaves the adapter alone, enters it or takes its answer
(`AdapterSide`); the steps inside of the adapter are those of `DhsAdapter`.

`RequestParser`. One node of the body or one item of an array is a step. A text is
known by what each conversion finds in it; `Narrow` is the conversion between types
of integers, `Stored` what a `Keyword` makes of a value and `GetValue` what comes
out of it. `outcome` is what becomes of the request.

`LifeCycle`. Objects have numbers and `alive` are those not deleted; a pointer is a
number. `container` is where Axis2 is in one of its calls, a step at a time between
the deletions and assignments. The destructor of the adapter finds nothing to
disconnect (`FindUnconnected`) or takes the mutex (`LockToClose`), disconnects
(`Disconnect`) and stops the library (`StopLibrary`). A request that uses a pointer to nothing is lost,
and with it the process. `disturbed`, `initialised` and `again` are history.

## Runs

| Run | Shows |
|---|---|
| `cache` | with times out of order, a message is found for `validAge` seconds, no key outlives its messages, and a purge, whatever time it is made for, leaves nothing that was recorded too long before that |
| `adapter` | two threads with every kind of call, contending for the mutex and timing out: the library is used by one thread at a time, over one connection, and the interface is implemented |
| `service_keywords` | two threads with equal and different `setKeywords` messages while time passes: what success is worth, that nothing is sent again early or skipped late, and that the cache is used as specified |
| `service_images` | `createImage` and `setParameters` with up to three calls, each of which can fail with another request in between, and every request that is refused: what success is worth |
| `sim` | more images than the counter has numbers, over midnight and a restart: an id comes back only after all numbers or the restart; until then the simulator implements the interface |
| `translator` | the handlers over the real adapter implement `DhsService`, each step brings a request closer to its answer, and every request is answered unless the DHS hangs in a call made for it |
| `parser` | every value as every type, and bodies with lists that break off, throw or repeat: what is set is the readable beginning of every list, in order, the last list of keywords is whole, the last id or lifetime counts |
| `lifecycle` | creating, setting up, setting up again and removing in any order, with requests at any point: only a request the container got in the way of uses what is gone, nothing is left over or deleted twice, an adapter that takes itself for connected is, removing ends unless requests or the DHS keep it from ending |
| `final_lost`, `check_race`, `sim_ids`, `parser_types` | four disagreements, below |

Bounds, and why they are enough:

- Two threads throughout: whatever goes wrong here goes wrong between one request
  and one other, over one mutex, one buffer or one cache entry. The proofs have any
  number.
- `cache`: the clock goes to 4 with a `validAge` of 1, so a message can be young,
  just old enough and too old; three messages, two of which may be equal, make
  lists in which an old message stands behind a younger one. Ids and messages are
  interchangeable.
- `adapter` is finite as it is.
- `service_keywords`: `validAge` 1, the clock to 3, and requests until three messages
  are recorded: a message is recorded, repeated, forgotten and sent again.
  `service_images`, `final_lost` and `check_race` do not depend on time (`MaxTime` 0);
  `service_images` has two ids, for the images of two requests.
- `sim`: `MAX_IMAGE_ID` 3, which leaves two numbers, and four images, so the counter
  goes round; two dates with a different day and month; one restart, after an
  image. The setters are called about one id only and not with `final`, which makes
  no difference to the simulator. `sim_ids`: the same with `MAX_IMAGE_ID` 4 and three
  images, so that only the restart brings back an id.
- `translator`: time does not matter to its properties (`MaxTime` 1, `ValidAge` 0).
  The requests are those that make the most calls, well formed; the refused ones
  make none and are in `service_images`. No symmetry, because of liveness.
- `parser`: types of 8, 16 and 32 values stand for 8, 16 and 32 bits, with values at
  the ends of every range and beyond; bodies of up to three elements and lists of
  up to three items, so that lists follow each other and break off at the
  beginning, in the middle and not at all. `parser_types` has the values that are
  whole numbers or no numbers.
- `lifecycle`: six objects are two services with adapter and cache, or one that is
  set up twice.

Fairness. `translator`: each thread's steps in a handler and in the adapter that do
not wait for the DHS are weakly fair (`Fairness`): the threads run, and `timed_lock`
gives up after five seconds. Nothing is assumed of clients, of the clock or of the DHS,
which may hang in any call. `lifecycle`: the steps of requests likewise, but not
`Leave`, which may need the DHS. The container's steps are weakly fair where they
do not call the library (`InLibrary`). The destructor's wait for the mutex is without
limit, and a mutex does not queue those who wait for it: that it is free time and
again is not enough for the destructor to get it. So `RemovalEnds` makes an exception
of requests that go on entering the adapter for ever, besides a thread that hangs
in the DHS with the mutex and the container itself hanging in the library.

The four violation runs `final_lost`, `check_race`, `sim_ids` and `parser_types` show
four places where the code does not do what its documentation or tests say
(`findings` in `PROJECT.json`): a final message without keywords is answered with
success and never delivered; a message that has been processed successfully but
not yet recorded passes the duplicate check; the simulator makes ids again that it
made before the server was restarted; and an `INT8` or `UINT8` keyword takes the
first character of any text for its value. What is left of each promise is proved:
a final message with keywords is delivered (`FinalNeedsKeywords`), a recorded one
does not pass (`NotSentAgainEarly`), and ids are unique until the counter has gone
round or the server is started again (`UniqueInFirstRound`). Of integers of 16 and 32
bits that reach the DHS, `AllKeywordsArrive` says that they are the number their text
begins with, modulo the size of the type where an unsigned one is negative.

Deadlock is checked in every run but those of `LifeCycle` and `RequestParser`; a
parser stops when the body is read.

## Proofs

Assumptions: those of the modules. `NoneAssumption`, `AdapterAssumption` and part
of `RequestsAssumption`: the null value is none of the others. The rest of
`RequestsAssumption`: requests are what parsing can yield, and a list of
contributors may be empty. `ValidAgeAssumption` and `MemoryAssumption`: the
period is an integer, of either sign.

`MessageCacheProofs`: for any ids, messages and `validAge`, the five properties
of run `cache`. They rest on `MinIsLeast` (the least-number principle for the
community modules' `Min`, from the well-foundedness of the naturals),
`PurgedIsSuffix` (what the loop of `PurgeList` leaves), `PurgeKeepsLive` and
`PurgeShifts`. `PurgesForget` is by `InAdditionOrder`: a survivor stands behind
an unexpired message recorded before it. `PurgesExactlyWhenInOrder` is the other
side: while messages are added in the order of their timestamps, which overlapping
requests may break, a purge leaves the messages that have not expired and no other.
Both are about what a purge would leave (`AfterPurge`) in every state and for every
time read so far, so a purge that changes nothing is no exception.

`IDhsAdapterProofs`: `SuccessIsDone` for the interface.

`DhsAdapterProofs`: the inductive invariant `IInv`, which adds to the types that
the mutex is held exactly by the thread between lock and unlock (`LockOwner`),
that connections are counted by `isConnected` (`Connected`), and what the place of
a thread says about its call (`Progress`: without it a success could be returned
for a call that had no effect). From it mutual exclusion, `HasConnection`,
`OneConnection` and that the adapter implements the interface; with that,
`SuccessIsDone` for the adapter.

`DhsServiceProofs`: the properties of the runs `service_keywords` and
`service_images`. `ServiceInv`
is what the place of a thread says about its request and its adapter call; with
`InterfaceInv`, the invariant of the interface, it gives that the service does
to the cache what its specification allows (`ServiceUsesCache`). The theorems
about the cache then hold in the service: `NotSentAgainEarly` is
`NotForgottenEarly` at the check. `SuccessIsReliable` is by `AppliedInv`: every
record of the cache stands for keywords the DHS has (`RecordsApplied`), and a
thread beyond a call of the adapter has the effect of it (`Applied`). Neither
half is inductive alone: a skipped message relies on another thread's record,
and a record on its thread's effect. `SkipsOnlyRecent` is by `FindsRecent`,
which carries what a thread's own purge removed to its check, through the
purges and additions of the others. `RemembersOnlyApplied` and `FinalNeedsKeywords`
follow from `AppliedInv`.

`DhsTranslatorProofs`: a step of the translator is a step of the adapter, or
leaves it alone, so `IInv` holds; and it is a step of the service, because its
adapter side is then a step of the interface (`LocalStepImplements` and
`DhsStepImplements` of `DhsAdapterProofs`). With `DhsService`'s own theorems it
follows that what the whole translator answers with success can be relied on
(`TranslatorSuccessIsReliable`) and that it neither sends again early nor skips late
(`TranslatorNotSentAgainEarly`, `TranslatorSkipsOnlyRecent`). `TranslatorNeverTriesAgain` is the
part of liveness that needs no fairness: a request has a number of steps left, in
its handler and in the call it is in, which each step made for it lowers
(`HandlersGoOn`, `CallsGoOn`) and no other step touches (`OthersUntouched`).

`RequestParserProofs`: the properties of run `parser` for any bodies and any widths
that satisfy `SpanAssumption`. The arithmetic is in lemmas about `Narrow` (it is in
range, and the identity there; narrowing to a `long` first and to a type no wider
afterwards loses nothing), from which what `GetValue` reads is what `IntegersOf`
found. `IInv` says where in the body the parser is and that the items before it in
a list could be read (`InList`), and that `keywordsParsed`, outside of a list, means
that the last list passed is whole (`Parsed`). `Counted` says what has been read: one element
for each of the places passed in the readable beginnings of the lists (`Passed`),
its index the number of such places up to its own. When the body is read, all
places have been passed (`AcceptedArePrefixes`).

`DhsAdapterSimProofs`: `NoEarlyReuse` for any threads, dates, `MAX_IMAGE_ID` and
restarts. The invariant measures how many turns are left until a number comes round
again (`Distance`): a number taken at turn k is at least that far behind, so two
equal ones taken since the last start are a whole round apart (`Numbers`). With every
turn held once (`Turns`) an id made before the counter has gone round or the server
was started again is new, so the simulator implements the interface
(`SimImplementsInterface`) and ids are unique (`UniqueInFirstRound`) until then.
`SimSuccessIsDone` needs no such limit.

`LifeCycleProofs`: the five invariants of run `lifecycle` for any threads and any
number of objects. `Heap` says, for each place of the container, exactly what is
alive, what may be `NULL` and which pointers differ; `Undisturbed` that a request
left in peace is in the service and adapter that are there; `Connection` and
`Library` relate the library to the adapter that counts, from its construction on.

Only model-checked: liveness (`EveryRequestIsAnswered`, `RemovalEnds`), which is
beyond the prover: that a step that is left can be made, and is. Every other property of a passing run is a theorem.

## Not modelled

- The XML of responses, the names of `DhsUtil` used in logs, the macros of
  `defines.h`: they keep no state and choose nothing. `DhsService` has the status
  and the result of a response.
- The skeleton object that `create` makes and `stubFree` and `remove` delete: Axis2
  owns it and nothing of the service is in it.
- The configuration: the number that is made of `memoryPeriod` (the cache is right
  for every period, but one that is no number becomes 0 instead of the default),
  and missing parameters, which are used without a check.
- Memory and its exhaustion, such as the array that `setImageContrib` does not free
  on a timeout.
- Rounding of `FLOAT` and `DOUBLE` keywords; the year in the simulator's ids.
- The client library, which is external. Assumed of it is that `dhsBdName` answers in
  memory that belongs to the call alone (`DhsAdapter.cpp:88-96`), and that
  `dhsEventLoopEnd` and `dhsExit` stop the library when they return
  (`DhsAdapter.cpp:49-50`): the code ignores their status. A connection that drops
  later is not modelled, since the code never looks.
- The Java tests, which are clients.
