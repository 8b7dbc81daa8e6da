# A verification development for statsig-cpp-core

`src/` is a C++ wrapper around Statsig's native core, a Rust library reached
through a C interface (`src/include/libstatsig_ffi.h`). The wrapper evaluates
nothing itself. What can go wrong in it is ownership across the language border,
native threads that call application callbacks while application threads build
and destroy the objects behind them, and values that are converted on the way.
This project models those parts in TLA+, checks them with TLC and proves the
safety properties with TLAPS.

## 1. The system

| component | state | operations | hard behaviour |
|---|---|---|---|
| trampoline slot pool, in `observability_client.cpp` and again in `persistent_storage.cpp` | static array of 32 `shared_ptr`s, one mutex; `slot_`, `ref_`, `callbacks_` of each object | constructor (`claim_slot`, register with the core), destructor (release the ref, `release_slot`), `load_callbacks` | application threads against native threads; an index that is used again; the limit of the pool |
| `ObservabilityClient` | the application's callbacks | `dispatch_init`, `dispatch_metric`, `dispatch_error`, `dispatch_should_enable` | the buffer the core hands over, early returns, exceptions |
| `PersistentStorage` | the application's callbacks, a `thread_local` reply buffer | `dispatch_load`, `dispatch_save`, `dispatch_delete` | calls nest on a thread, a pointer outlives the function that made it |
| `StickyValues` format (`persistent_storage.h`) | ten fields, seven of them optional with no default | `to_json`, `from_json` | missing keys, nulls, wrong types, numbers too wide |
| ownership of native objects (`Statsig`, `User`, `StatsigOptions`) | a ref each | constructors, moves, assignments, `build()`, destructors | long sequences, implicit copies, uninitialized refs |
| evaluation methods of `Statsig` | none of their own | serialize options, call the core, copy and free the result, parse it | who frees, who throws, who falls back; options that mean opposite things and differ in one key |
| asynchronous methods of `Statsig` | none | `initialize`, `initializeWithDetails`, `shutdown`, `flushEvents` | completions that come after the object is gone |
| `Layer` | values, and the ref of an instance it does not own | `get`, which logs an exposure | use after the instance is gone |
| `StatsigOptionsBuilder` | non-owning refs of adapters | setters, `build` | an adapter destroyed before `build` or before the instance |
| result types (`types.h`) | plain values | `to_json`, `from_json` | two key styles of one struct, nulls, keys written that are not read |
| `UserBuilder` | ten optional fields | setters, `from_json`, `to_json`, `build` | a builder that is used again, files that convert in part, integer ranges |
| `logEvent` | none | puts a JSON text together | separators, escaping |

How they interact. The application creates a `PersistentStorage` or
`ObservabilityClient`; its constructor claims an index of the pool and gives the
core the static functions of that index. The builder copies the adapter's ref into
the options, the `Statsig` constructor passes the options to `statsig_create`, and
from then on the core, on any of its threads and also within an evaluation on an
application thread, calls these functions; they find the callbacks again by index.
Nothing but the index connects a function pointer in the core with an object.

The places where each of these is exposed are listed, with the property that
watches them, under `hazards` in `PROJECT.json`.

What makes each component correct:

* pool: the array is not raced; array and objects agree about who owns what;
  callbacks in use are not destroyed, and later they are; a call goes to another
  object only after its own gave up its index; no user code runs under the mutex.
* dispatchers: the argument buffer is freed exactly once on all paths; nothing is
  lost without a reason the owner can know; control returns to the core, no exception
  does; the core reads the reply of its own load.
* sticky values: what the core saves, it gets back; whatever the application has,
  the core can parse.
* ownership: every native object has one owner until it is released once; an
  exposure goes to the instance that evaluated the layer.
* evaluation: each string of the core is freed once on every path; an answer reaches
  the application field by field, whatever its key style; the core sees the options
  that were given; an empty result stands for no answer.
* user: the core gets the user as it was last described.
* builder and options: an instance reports to the adapter chosen for it or to none,
  and does not outlive it in an application that uses objects as local variables.

## 2. Modules

### `SlotPool` (with `SlotPoolProofs`, `MCSlotPool`)

One module for the two copies of the pool, which are the same code. A *client*
is one incarnation of an object (an object built later in the same memory is
another client) and also names the callbacks it allocates; a *call* is one
invocation of a trampoline.

| model | code |
|---|---|
| `slots`, `mutex` | `slots()`, `slots_mutex()` |
| `phase` | how far a constructor or destructor is; the `scanning`, `retracting` and `clearing` phases are inside the critical sections of `claim_slot` and `release_slot` |
| `slot`, `ref` | `slot_`; `ref_ != 0` |
| `holders` | the owners of the `shared_ptr` control block: the member, the slot, each dispatch's local |
| `tramp`, `inUse` | in the core: the index whose functions an adapter holds; the adapters a running instance has cloned |
| `pc`, `origin`, `cbs` | a dispatch: where it is, which adapter was called, its local `cbs` |

Taking the mutex is a step of its own, and what is done under it is a second step
that releases it, so a thread can be between them while others try; `ref_` is
released, the slot cleared and the member dropped in separate steps, in the order
of the destructor. `Attach`, `Detach` and `Enter` are the core's side. A core
that holds a clone of an adapter can call it after the C++ object has released
its ref; without `KeepAlive` the model lets it.

`KeepAlive` is a statement about the application: the rule of the header comments
("Keep the instance alive for as long as the owning Statsig instance is in use").
Most properties are checked and proved *without* it.

### `CallbackRegistry`

What the pool is for, without its mechanism: objects that are absent, built,
registered, retired and gone, and calls that go into the callbacks of the object they
were made for, or into none. There is no index, table, lock or reference count in
it. `SlotPool!Registry` instantiates it with a refinement mapping:

| abstract | in `SlotPool` |
|---|---|
| `life[c]` | "gone" once nothing holds the callbacks, "registered" while the ref is held, else "built" or "retired" after the phase |
| `at[k]` | "called" from the entry of the trampoline to the call of the `std::function` and from its return on; "inside" while it runs |
| `target[k]` | `origin[k]` |
| `inside[k]` | `cbs[k]` while the callback runs |

`ImplementsRegistry` holds for applications that obey the keep-alive rule. Without it,
a call may run the callbacks of another object, which the registry forbids
(`MisroutedOnlyAfterRelease` says what is left of it then).

### `ObservabilityClient`, `PersistentStorage` (with `ObservabilityProofs`, `StorageProofs`)

Both extend the pool: a dispatcher is `LockForLoad` and `LoadCallbacks` followed by
its own body, with one action per exit. The argument text is abstracted to the
classes its dispatcher tells apart. A failed allocation in
`consume_args` is a possible outcome of its own. In the storage, a dispatch that gives up
before it reached the callback ("failed") differs from one whose callback or reply threw
("threw"), so that `NoSilentLoss` can say when a save may end without its callback.
`PersistentStorage` adds a call
stack per thread, since user code in a callback may evaluate a config and so enter
the storage again, the `thread_local` buffer, and the moment between the
return of a dispatcher and the core's copy. User code runs in callbacks, and in
the destructors of what they captured when a dispatch drops the last reference.

### `StickyFormat` (with `StickyFormatProofs`)

Which value is in each field after `from_json`, and which key holds what after
`to_json`. The state machine is a value's journey: core, application, perhaps the
application's disk any number of times, core. It starts with any value of the core,
any struct an application can fill in, or a file that differs from a complete one
in up to `MaxDeviations` fields (missing, null, another value, wrong type). A
struct with `json_value` engaged but null is included. `config_version` is
truncated to `VersionRange` values, as `get<uint32_t>` does.

### `NativeHandles` (with `NativeHandlesProofs`)

*Places* are variables or temporaries that hold a `Statsig`, `User` or
`StatsigOptions`. Statsig's move and assignment operators are modelled as written
(copy assignment leaves the target without an instance). `User` and
`StatsigOptions` have the copy operations the compiler adds and `StatsigOptions`
a default constructor that leaves `ref` uninitialized, which is modelled as any ref
of the kind or 0.
`aliased` is a history variable: the data whose handle was ever copied,
overwritten or found in uninitialized memory.

A `Layer` keeps the `ref_` of the `Statsig` object that returned it, and owns nothing.
`layer` holds that ref, whether there are parameters to read, and where they came
from. `getLayer` may return a filled layer or `Layer()`, which the language
zero-initializes; `Layer layer;` leaves the ref uninitialized, and the free function
`from_json` fills such a layer without setting it. `get` logs an exposure through the
ref after a parameter was found and converted. A copy of a `Layer` has the members of
the original and needs no place of its own.

### `Lifecycle` (with `LifecycleProofs`)

Extends `NativeHandles` by what happens before: adapters, `StatsigOptionsBuilder` and
the options data. An *adapter* is a `PersistentStorage` or an `ObservabilityClient`;
the two settings of a builder are treated alike and independently, so one is modelled.
An adapter is here what the builder sees of it, a `ref()` that is 0 or not; what is
behind it is `SlotPool`. `config` and `uses` are in the core: the adapter found when
the options data, and then the instance, was created. A ref that is gone by then is
not found.

`scoped` says how the application behaves, and is chosen in the initial state.
A scoped one uses an object only with older objects and destroys them
in reverse order (`scope` is that order), as local variables and members are. The
header comment asks the caller to "keep it alive for the lifetime of the resulting
Statsig instance", an obligation that runs through three objects which do not own
each other; `AdaptersOutliveInstances` says that scopes are enough to meet it, also
with moves from an older to a younger object, copies and options built once and
used twice. `ConfiguredAsChosen` is about every application.

### `ResultFormat`, `StatsigApi` (with `StatsigApiProofs`)

`ResultFormat` has the texts the core answers with and what `types.h` and `layer.h`
make of them. A text is a function from keys to what is behind them; a value is named
after the field it belongs in, which is enough to see one go astray. `Spellings` are
the keys a field is read from, in order; `Policy` says how the code reads it (`at`,
`at` unless null, `get_optional`, `value`, only if an object), and with it which finds
throw. What the core writes (`CoreWrites`: two key styles, nulls or missing keys where
it has nothing to say) is external and follows the comments of the readers.

`StatsigApi` is one call of a method at a time: `Ask` serializes the options and calls
the core, `CoreAnswers` gives a string or nullptr, `CopyAndFree`, `Parse`, `Return`
follow. Calls of several threads share nothing in this code but `ref_`, which is
`NativeHandles`' matter, so their interleaving adds nothing. The methods differ in
the options they take, the type they return, and whether they catch. Options that are
not assigned are "unset" where the struct has no initializer, and become either value.
`LogEvent` ends at once; `told` is the event the core understood. Asynchronous calls
leave a completion with the core, which may call it at any time, also after `Destroy`
(`CoreCompletes`); the lambda then ends on its own thread (`Complete`) while other
completions and the object come and go.

### `UserFormat` (with `UserFormatProofs`)

A builder that is changed by setters and by reading files into it, saved, restored and
built. `said` records what the application may expect: the last setter or file decides
about a field; a file without a map of attributes leaves them alone (which is what the
code does); after a file whose reading threw, the old or the new value. Attributes
are single items or lists, and an item is of a kind that converts or of one that does not.
`IntLimit` stands for 2^63.

## 3. Runs

| run | question | bounds |
|---|---|---|
| `pool_churn` | is the pool safe for an application that destroys objects at any time? | 3 clients, 2 calls, 2 slots |
| `observability_dispatch` | buffer and loss, on all paths of all kinds | 2 clients, 2 calls, 1 slot, 4 kinds |
| `observability_escape` | does an exception leave a dispatcher? (violated) | 1 client, 1 call |
| `storage_dispatch` | as above, for the three storage calls, nested | 2 storages, 2 calls, 1 thread |
| `storage_nested` | if the application obeys the rule: does each load reach its storage and the core read its own load's reply, does everything that was started finish, and is the pool a registry? | 2 storages, 2 loads, 2 threads, 1 slot |
| `storage_destructor` | the question of `storage_nested` when the storage is destroyed meanwhile (violated) | 2 storages, 2 loads, 1 thread |
| `storage_leak` | is the core's buffer freed on every path? (violated) | 1 storage, 1 save |
| `handles_ownership` | does each native object have one owner, and does each exposure reach its instance? | 2 Statsig objects, 2 handles, 1 layer, 3 instances, 2 data |
| `lifecycle_scopes` | do scopes keep adapters alive, and does an instance get its adapter? | 2 adapters, 1 builder, 2 handles, 2 Statsig objects, 2 instances, 1 data |
| `sticky_journey` | do sticky values survive? | see below |
| `api_calls` | are strings freed, answers and options passed on, failures what they should be? | every method and option, one key of an answer changed, 2 values of an event, 1 completion |
| `user_builder` | does the core get the user that was described? | 2 attributes, 2 words, 2 changes with saving and building between them |

Why these bounds are enough. Two slots and three clients give the pool both its
cases of interest, exhaustion and an index that passes from one object to the next,
while another object is live; two calls are enough to have one inside a callback,
or waiting for the mutex, while another looks up. The proofs cover the pool for
all sizes. In `storage_nested` two loads nest on one thread or run on two, and two
storages use the one slot after each other; no property relates more than two loads or
storages, and what is safety in it is proved for all sizes.
The same is true of every other run that passes: TLC searches a small instance, and
section 5 says what is proved of all of them.
In `api_calls` the fields of an answer are read independently of each other, so one
changed key in a text the core does not mean to send is enough (both style and
nulls vary in those it does); two values of an event are the fewest with a separator.
In `user_builder` the second change is the one that can see, or lose, what the
first left behind.
Two places of a class suffice for every pair a move, copy or assignment relates (a
place is used again after a destruction, so chains of copies happen); a third instance
is one to create after two are in use. The proofs cover `NativeHandles` for all sizes.
In `lifecycle_scopes` the second adapter allows a builder, or its options, to hold
one while the other is chosen; two instances from one options data relate two Statsig
objects to one adapter.
In `sticky_journey`, one string, two arrays (one of them empty), and two numbers of
which one exceeds `VersionRange` are the distinctions the conversions make; fields are
converted independently of each other, so two deviations at once are enough.

Symmetry is used over clients, calls, threads, places and refs in safety runs;
no definition chooses among them. No liveness run uses it.

Deadlock is checked in every run. In `pool_churn` and `observability_dispatch` it says
that no thread gets stuck on the mutex or in a dispatcher, for applications that break
the keep-alive rule too: the disjuncts with `Settled`, `CallsDone`, `Done` and
`AllDone` are the only states where nothing needs to happen.

**Fairness.** In `storage_nested` only: weak, for a constructor or destructor that has
been started and for each call that has been entered. It says that the operating system schedules
these threads and that user callbacks return; nothing is assumed of the threads
that start new objects or calls. A thread that waits for the mutex does so under
weak fairness only, which suffices because the number of clients and calls is
finite: contention ends. That a thread may starve under endless contention
is outside the model (`std::mutex` promises no fairness).

## 4. What the runs found

* `NothingEscapes`: the comment in `observability_client.cpp:88` promises that all
  exceptions are swallowed. `consume_args` allocates and is called before
  the `try`. `persistent_storage.cpp` has the same functions with
  the `try` around everything.
* `ArgsAlwaysFreed`: in `persistent_storage.cpp` the same failing allocation is
  caught, but skips `free_args`, so the core's buffer leaks.
* `LoadRepliesOwn` under destruction: `buffer.c_str()` is taken before the local
  `cbs` is destroyed. If that is the last reference, destructors of captured
  objects run in between; one that causes a load on this thread overwrites the
  buffer. With storages that are kept alive (`storage_nested`) the reply is right.

The safety properties of the dispatchers name the failing allocation as an
exception, so that all other paths are checked in full.

## 5. Proofs

Every invariant and every action property of a run that passes is also a theorem; the
three liveness properties are not. All proofs are for sets of clients, calls, threads,
places, refs, adapters, keys and values of any size, any number of slots and, unless
`KeepAlive` or `scoped` is named, any application. `PROJECT.json` lists the theorems.

**The pool** (`SlotPoolProofs`). What `pool_churn` checks, and `RoutedToOwner`. The only
assumption is `PoolAssumption` (there is a slot; `None`, clients, calls and the two tags
differ). None of the properties is inductive by itself. `PoolInv` adds what the threads
rely on:

* `MutexInv`: an object holds `mutex` exactly in the phases inside a critical
  section, a call exactly while it looks up;
* `SlotInv`: `SlotOwnership`, and in which phases an object has an index;
* `TrampInv`: a registered object is live, and until it gives its index back the core
  holds exactly that index's functions;
* `HolderInv`: the owners of the callbacks are the member from construction to the
  end of the destructor, the slot while the index is owned, and exactly the calls whose
  `cbs` they are;
* `CallInv`: a call that has begun has an origin that was registered, and if it found
  other callbacks than its origin's, the origin had given its index back;
* `KeepInv`: under the keep-alive rule, instances use live objects only, calls in
  progress have a live origin, and what they found are its callbacks.

Each action preserves each part by a step of its own. `MisroutedOnlyAfterRelease` and
`RoutedToOwner` then follow from `CallInv` and `KeepInv`, `DestroyedOutsideLock` and
`RefusedOnlyWhenFull` from `PoolInv` before the step; the latter needs that the map from
indices to their owners is a bijection.

**The refinement** (also in `SlotPoolProofs`). Under `KeepAlive`, `PoolSpec` implies
`ImplementsRegistry`. `PoolInv` makes the abstract stage of an object a function of its
phase and ref alone (`StageOfLife`): its callbacks are gone exactly when it is dead,
since no call is inside them. Each step then maps to one of the registry or to a
stutter.

**The dispatchers** (`ObservabilityProofs`, `StorageProofs`). Every step of these modules
is a step of the pool or leaves it alone, so `Spec => PoolSpec` (`UsesPool`), and
every theorem about the pool, the refinement included, holds of both. `DispatchInv` adds
what is known of the buffer of a call from how far the call is; `ArgsFreedOnce` and
`NoSilentLoss` are parts of it. `StorageTypes` also says that calls nest as they should:
no two places on the stacks of the threads hold the same call (`OneStack`), which is
inductive with the fact that what is on a stack has been entered on that thread
(`StackInv`). For `LoadRepliesOwn`, `NestInv` says that the calls in
progress on a thread are callbacks that have not answered with one dispatch on top, and
that an answer on a stack is in the thread's buffer; `ReplyInv` relates it to what the core
copied. The step that would break it, user code in a destructor between the answer and
the copy, is excluded by `KeepAlive`, and `storage_destructor` shows it happen without.

**Handles** (`NativeHandlesProofs`). Each instance has exactly one owner, and so has each
native object of a handle that was never copied. The two properties are inductive
together with the types (`OwnerInv`): each operation either moves a ref, leaving none
behind, or releases what it overwrites. `ExposuresReachEvaluator` needs two facts about
layers (`LayerInv`): one with parameters was evaluated or parsed, and an evaluated one
keeps the ref of its evaluator. `HandlesAssumption` is the only assumption: refs of
instances and of data, and 0, differ, and so do the places of the classes.

**Lifecycles** (`LifecycleProofs`). Every step of `Lifecycle` is a step of `NativeHandles`
or leaves its variables alone (`UsesHandles`), so the ownership theorems hold here too.
Neither property of the module is inductive: that an instance does not outlive its
adapter depends on who was created before whom. `LifecycleInv` adds

* `ScopeInv`, for scoped applications: `scope` lists what exists, once
  (`ShapeInv`), and whatever a builder, options data or an instance refers to stands in
  it before the object that holds the ref (`SettingsAge`, `ConfigsAge`, `UsesAge`). Since
  only the last object of `scope` is ever destroyed, an adapter outlives what
  refers to it;
* `ReasonInv`, for any application: a builder, options data or an instance has the adapter
  chosen for it, or none because that one was not registered or is gone, or, for an
  instance, because the data was aliased (`SettingsReason`, `ConfigsReason`,
  `UsesReason`). It needs that a native object is never unused again and that `aliased`
  only grows.

`StepOfScope` and `OrderKept` say what entering and leaving the scope does to the order of
the other objects; with them each action is a matter of the one object it changes.
TLC checked `LifecycleInv` on the instance of `lifecycle_scopes` before it was proved.
`LifecycleAssumption` says that adapters, builders, data, places and the two tags differ,
which in the program they do by their types.

**Calls** (`StatsigApiProofs`). Where a call is determines what its string is
(`CallInv`), which gives `ResultsFreedOnce`; `FailuresExplained` is inductive over it,
and `OptionsReachCore` by itself. These hold whatever the core answers.
The three properties about contents rest on lemmas about the operators of
`ResultFormat`:

* no two fields of a type share a key in a style (`KeysDiffer`), so a reader finds what
  was written for its field, and nothing where the core had nothing to say
  (`FoundAsSaid`); what may be left out is tolerated where it may be left out
  (`OptionalTolerated`). Together: `from_json` inverts what the core writes
  (`Understood`). With `TextInv` (a text the core means to give is what it writes of its
  content) this is `AnswersAsEvaluated`;
* what `to_json` writes is found again, and the second spellings never are
  (`FoundAsWritten`), which with `ValueInv` (a returned struct holds values of its
  fields) gives `Rereadable`;
* in the text of an event the values are at the odd places and commas at the others
  (`Commas`), for any number of values: `EventsArrive`.

`Texts` and `CoreWrites` are what the core is taken to send; the proofs do not look at how
many keys an unexpected answer differs in.

**Sticky values** (`StickyFormatProofs`). `Survival` follows from `JourneyInv`: wherever a
value of the core is on its way, what is there is that value, written in one of the two
ways or read. `AnswersReadable` follows from `ReadableInv`: every struct an application
has is one the core can read, because whatever `from_json` accepts it makes such a
struct (`ReadIsUsable`), a truncated version included. `StickyAssumption` keeps the sets
of JSON values apart; numbers are closed under truncation.

**Users** (`UserFormatProofs`). `BuilderInv` says that each identity field of a builder is
one the application may expect, and each map of attributes what arrives of one it may
expect (`Arrives`). Writing and reading attributes add to an arrival no loss it could not
already have had (`WriteArrives`, `RestoreArrives`), so any number of saves and restores
between setters and files is covered. `UserAssumption` says that words are none of the
three marks for null, missing and wrong.

**Only model-checked.** `CallsAnswered` and `ObjectsSettle`: liveness under
fairness is out of the prover's reach, and so is the absence of deadlock, which TLC
checks in every run. The three runs that end in a violation are counterexamples and have
nothing to prove. That a recursive definition computes what it should for every input
cannot be proved here either, but no module has one.

## 6. Not modelled

* The native core: its side of each call is an external action or operator
  (`Attach`, `Enter`, `CoreResumes`, `CoreReads` ...), from how this code uses it.
  `Detach` waits until the adapter's calls are over, which is what the header comments
  presuppose of an instance that has shut down.
* Destruction of the static array and mutex at process exit, with native threads
  running.
* `std::mutex::lock` failing, and allocation failures other than in `consume_args`.
* Data races inside user callbacks, which are the application's matter.
* Negative and fractional numbers in sticky values, the entries of exposure lists
  and the map from config names to values.
* An uninitialized `ref` of a `StatsigOptions` that is no ref of the kind at all.
* An application that breaks scopes but keeps its adapters alive by other means; the
  other options of the builder (plain values, `SpecAdapterConfig` among them) and the
  conversion of a layer's parameters.
* `initializeBlocking`, `shutdownBlocking`, `flushEventsBlocking` and
  `overrideExperimentByGroupName`: one call of the core each, with nothing before or
  after it. Names and users an evaluation is asked about, which are passed on as they are.
* The numbers in `EvaluationDetails` and the fields of a single `ExperimentGroup`.
* Logging.
* The components marked `not_modelled` in `PROJECT.json`.

## 7. Plan

Done, in this order: `SlotPool` and its proofs, the two dispatch modules over it,
`NativeHandles` and its proofs, `StickyFormat`, `Lifecycle`; then `CallbackRegistry` and
the refinement, the proofs of the dispatch modules, `ResultFormat`, `StatsigApi` with its
proofs, `UserFormat`; then the proofs of `Lifecycle`, `StickyFormat`, `UserFormat` and of
what `StatsigApi` says about contents.

Next:

1. `StickyAssignment`: dispatchers and format together, against an abstract map from
   keys to values, with a proof that it implements the map.
2. The other options of the builder, with the keys `SpecAdapterConfig` is flattened to.
