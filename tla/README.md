# Thistle in TLA+

Specifications, model-checking runs and machine-checked proofs for
`react-native-thistle`: a React Native module that runs GGUF language models on
the device through llama.cpp. Paths are relative to the repository's root;
`ThistleBridge.cpp` is `android/src/main/cpp/ThistleBridge.cpp`.

    tlc -config Android.cfg AndroidBridge         # a run: see "Runs"
    tlapm AndroidBridgeProofs.tla                 # a proof module: see "Proofs"

`PROJECT.json` lists the runs, maps every definition to the lines it stands for,
and lists the hazards of the code with the properties that watch them.

## 1. Inventory

Nearly all of the repository is vendored (`cpp/llama.cpp`). Thistle's own code is
under two thousand lines, and most of what can go wrong in it is concurrency
around one shared resource: a model.

### JavaScript API: `src/index.tsx`, `src/Thistle.nitro.ts`

- State: per `Thistle.init()` a `modelId` and the options, both in closures. The
  model object has no "unloaded" flag.
- Operations: `init` (resolve the asset, `loadModel`, `warmup`), `prompt` (build the
  text, merge the limits, await the native promise), `unload`.
- Interaction: `loadModel`, `warmup` and `unloadModel` are synchronous native calls
  on the JavaScript thread; `prompt` returns a promise and works on a pool thread.
- Hard: prompts run while the application goes on loading and unloading; `init` can
  fail half-way; nothing stops a prompt on, or a second unload of, an unloaded model.
- Correct when: a prompt is answered by its own instance's model, every promise
  settles, and an instance the application cannot reach any more costs no memory.

### Android bridge: `ThistleBridge.cpp`, `Thistle.kt`, `cpp-adapter.cpp`

- State: `models` (id to handle), `next_model_id`, `models_mutex`; the heap of
  `llama_model`s; the models copied into the cache directory.
- Operations: `load_model`, `warmup`, `prompt`, `nativeUnloadModel`,
  `resolveModelPath`.
- Hard: the mutex covers a lookup, not the use of what was found, and a handle's memory
  is used again; the counter must never hand out an id that an old closure still holds;
  a copy can be cut short.
- Correct when: a lookup never yields a deleted handle, nothing is freed twice, "Model
  is not loaded." is true when it is said; what is loaded is the whole of the right
  file.

### iOS bridge: `ios/ThistleBridge.mm`, `ios/Thistle.swift`, `ios/ThistleBridge.h`

- State: none of its own. The `modelId` *is* the address of a `ThistleModel`.
- Operations: `thistle_load_model`, `thistle_warmup`, `thistle_prompt`,
  `thistle_unload_model`; the conversions of `Thistle.swift`.
- Hard: a stale id is a dangling pointer, or a pointer to another model when the
  allocator uses the address again; no lock anywhere; prompts on pool threads swap
  the process-wide logger.
- Correct when: what Android promises, for the applications for which it is promised.

### One generation: `prompt`/`thistle_prompt`, `warmup`/`thistle_warmup`

- State: sizes of the context and the batch, a context, a sampler, the KV cache,
  the loop counter, the response.
- Hard: three limits, two capacities and a prompt size meet at boundaries; eight ways
  out, each with something else to free; a batch that points into the loop body.
- Correct when: the batch always fits, nothing leaks, an answer keeps its limits and
  is not cut short without a reason, and the loop ends.

### From the options to the native call: `index.tsx`, `Thistle.swift`, `Thistle.kt`

- State: none that stays; the limits and the text of one call.
- Hard: limits are doubles that may be left out, falsy, fractional or huge, have
  defaults and overrides, and are converted differently on the two platforms;
  `format_prompt` takes apart by search what `buildPrompt` put together.
- Correct when: the limits that are kept are those the application set, and the model
  is given the request as the request.

### Log capture: `load_model`, `thistle_load_model`, `thistle_prompt`

- State: llama.cpp's two loggers, process-wide and unguarded; a `LoadLog` on the
  stack of each capturing call.
- Hard: save, set, work and restore by several threads, in any order.
- Correct when: the loggers are put back, and no line goes to a call that is gone.

### Setup wizard: `scripts/setup.cjs`

- State: the menu (cursor, selection, raw mode, listeners); on disk
  `.thistle/models.json`, the Gradle file, the Podfile and the copy script.
- Hard: it is run again and again over files that other tools change, it writes
  several files with no transaction, and its prompt shares standard input with
  `readline`.
- Correct when: what is built is what was selected, and running it again is safe.

### Example chat app: `example/src/App.tsx`

- State: `model.current`, `state.status`, the messages, timers.
- Hard: unmounting during `init` or a prompt, a failed prompt, timers that overlap.
- Correct when: no instance is leaked or used after its unload, and the screen never
  stays stuck.

### Others

`scripts/create-assets-folder.cjs` makes one directory. The Gradle, CMake and
podspec files are declarative. The Nitro bindings are generated. llama.cpp is
vendored; it is modelled only where the bridges lean on it.

## 2. Modules

| Module | Models | Composed with |
|---|---|---|
| `ThistleContract` | what a platform promises an application | refined by both bridges |
| `ThistleJs` | the JavaScript thread and the steps of a prompt's life | extended by both bridges |
| `AndroidBridge` | registry, mutex, handles and their memory, heap, pool threads | `ThistleJs`, `ThistleContract` |
| `IosBridge` | raw handles, reused addresses, pool threads | `ThistleJs`, `ThistleContract` |
| `ExampleApp` | the chat screen: mount, unmount, `sendMessage` | extends `AndroidBridge`, implements it |
| `ModelCache` | `resolveModelPath` over crashes and versions | |
| `PromptCall` | limits and text of a call, from `prompt()` to the chat template | extends `Decode`, implements it |
| `Decode` | one prompt or warmup from its checks to its frees | extended by `PromptCall` |
| `LogSwap` | the two loggers and the captures of concurrent calls | |
| `Setup` | `setup.cjs`: menu, writes, and the project's files | |
| `MC...` | values for TLC | the module they name |
| `...Proofs` | theorems | the module they name |

### ThistleJs, AndroidBridge, IosBridge

`op` and `opInst` say which synchronous native call the JavaScript thread is inside
of and for which instance; while `op # "idle"` no JavaScript runs. `life[i]` follows
`Thistle.init()` number `i` (`new`, `loading`, `ready`, `failed`, `unloaded`), and
`modelId[i]` is the number its closures hold. `pc[c]`, `target[c]`, `uses[c]` and
`reason[c]` follow prompt `c`: queued on the pool, looked up (`found`, Android only),
reading `handle->model` (`reading`), at work with a context made from it (`using`),
answered or failed on the native side, then resolved or rejected when the `await`
resumes. `Settle` needs an idle JavaScript thread.

An action is one stretch of code that no other thread can see inside of. On Android
that is a critical section of `models_mutex`, a read through the raw pointer or one
llama.cpp call. An unload is `EraseModel` (under the lock) and then `FreeModel`
(`llama_model_free`, then the handle's `unique_ptr` goes), a load is `LoadModel` and then
`RegisterModel`. A prompt is `PromptFind` (`find_model`), which leaves it a raw pointer in
`held`; then any number of `PromptRead`s of `handle->model`, as lines 147 to 184 of
`ThistleBridge.cpp` read it again and again with no lock, each of which gives the model of
the handle that is at that address *now*; then `PromptEnd`. On iOS there is no lock and no
lookup; freeing the model and deleting its handle are two steps.

On both, `handles` is the memory of the `ThistleModel` objects: an address that was deleted
may be given to the next handle. A read of a deleted one (`PromptDangling`) is undefined
behaviour, and so is the use of a model that was freed; `ub` records both. After it memory
reads as it did, or as nothing, and a prompt may still be answered or fail: a process may do
worse, so the properties are meant up to that point, and those about instances that are
used with care hold beyond it only as far as the process goes on.

`Careful` is the set of instances that are used as `README.md:208-217` shows: their
prompts are awaited before `unload()`, and an unloaded one is left alone. With every
other instance the application does what it likes, since nothing in `src/index.tsx`
prevents it: it unloads during a prompt, prompts after an unload, unloads twice.

`again` in `IosBridge` is history: an instance was unloaded whose handle was no longer
its own. With three instances a second `unload()` of the first can delete the handle of
the second, whose address then goes to the third. Only without that is it true that a
prompt strays only from an instance that was itself unloaded (`StrayOnlyIfUnloaded`), and
that an instance used with care has what the contract promises it, whatever is done with
the others (`CarefulIsolated`, `KeepsContractOnce`).

### ExampleApp

An application instead of any application: `AndroidBridge` with the screen's own
variables beside it. Each mount is one instance, each message one call. `screen` is the
mount whose effect has not been cleaned up, `ref` is `model.current`, `status` the state
machine; `delivered` says whether `init()`'s promise reached its `.then()`, `sending`
where each `sendMessage` is: waiting two frames, awaiting the prompt, or ended. The
screen may be unmounted between any two of these, and mounted anew with new state and
refs; what was pending goes on with those it closed over. `FramesPrompt` reads
`model.current` again, as line 259 does, so it may find it cleared.

### ModelCache

What `Thistle.kt` does to files, and what else happens to them. A copy is known by its
name, the version of the application whose asset it was made of, and how many chunks
of it were written (`written`). `resolveModelPath` is taken apart at every point at
which the process may end or a write fail: `Create` (the output is opened, which makes
an empty file under the final name), `Write`, `CloseCopy`. `Update` installs another
version with assets that were added, changed or removed and keeps the cache;
`CacheCleared` is the system's or the user's clearing; `DirectChanges` a download. A
file is refused by llama.cpp unless all of its tensors are within it
(`llama-model-loader.h:46`), which is `OpensWhole`. `cut` and `updated` are history: the
copies that were cut short and those an update left behind.

### PromptCall

A call in front of `Decode`: the limits are merged (`merged`), made 0 when falsy
(`nativeLimit`), and converted: on iOS with a trap outside of the range
(`FitsInt32`), on Android saturating (`toInt`). A number counts halves, so that
fractions are cut off somewhere; NaN and the infinities are constants. A text is a
sequence of `Pieces`: words, blank lines and the headings `buildPrompt` writes, which the
texts of the application may contain. `Split` is `format_prompt`; whether the model's chat
template takes the messages is left open (`FormatChat`, `FormatPlain`).

### ThistleContract

Instances go from `new` through `loaded` to `gone`; a prompt runs on its own
instance's model, which is not taken away while it runs, or it is refused because
the instance is gone; every prompt comes to an end. The refinement maps a call's
`pc` to the contract's `state`, and an instance's stage to whether its id is in the
registry (Android) or its model is allocated (iOS). It is stated for the instances in
`Careful`: the contract sees those and the calls on them, and nothing of the others. A
bridge that keeps it isolates its instances from one another. Android keeps it always,
iOS until some instance is unloaded a second time.

### LogSwap

A capturing call is `llama_log_get` (which reads ggml's logger), `llama_log_set`
(two stores: ggml's logger, then llama's), the work, and `llama_log_set` again. A
line is logged in two steps as well: the logger is read, then the callback runs.
`PromptsSwap` is the difference between the platforms: on iOS `thistle_prompt`
captures too, on a pool thread. `dead` collects the calls that wrote to the `LoadLog`
of a call that had returned.

### Decode

All of the function's checks, calls and exits in the code's order; text and tokens
are left out and tokens are counted. The prompt's size, the model's trained context
and the three limits are chosen in `Init` and kept in `in`. `Padded` is llama.cpp's
rounding of the context size: a full context does not stop `llama_decode` as soon as
the bridge believes, so the loop's own test is what keeps the limit. A decode, a
context's creation, a tokenisation and a conversion to text may fail whenever they
run. `dangling` marks that `batch.token` points at a variable whose lifetime is over.
`StepsLeft` is the variant of the call: the `Room` the context has left, three steps for
each token, and the steps before and after the loop.

`Decode` stands for what a prompt does from its first `PromptRead` to `PromptEnd` and for the inside of `Warmup` of
the bridges: that it ends (`CallEnds` in `PromptCall`) is what makes it fair to assume
there that a native call returns, and it leaves the bridge's state alone.

### Setup

A file is what the wizard reads of it and writes to it: `models.json` is a selection,
absent or unreadable; the Gradle file has an `android {` or not and the marked blocks
with the models each copies, and the first block has its `END` marker or not (`ended`);
the Podfile counts marked helpers and calls of them, and
has a `post_install` hook as React Native's template writes it, one that names its
parameter otherwise, none, or both. A run is `Start`, the menu's keys, and then the
writes in the code's order, each of them a step, since the wizard may be killed between
any two and `setupAndroid` may throw. They run in one callback, so people, git and other
tools change the files only while the wizard waits for a key or does not run. What they
leave are the states of `ProjectGradle` and `ProjectPodfiles`: wired for any old selection
or not at all, and with any of the block's `END`, the helper and its call lost without the
others; two blocks or two helpers are not among them. `AndroidPackages` and `IosPackages` are what the native builds make
of the files.

## 3. Runs

| Run | Configuration | Result |
|---|---|---|
| `android` | `Android.cfg`: 3 instances of which 1 is careful, 2 prompts | pass |
| `example_app` | `ExampleApp.cfg`: 2 mounts, 3 messages | pass |
| `example_unmount` | `ExampleUnmount.cfg`: 1 mount, 1 message | `UsingAlive` violated |
| `ios_careful` | `IosCareful.cfg`: 3 instances, 2 prompts, 3 addresses, all careful | pass |
| `ios_free` | `IosFree.cfg`: 3 instances, 2 prompts, 3 addresses, 1 careful | pass |
| `ios_double_unload` | `IosDoubleUnload.cfg`: 2 and 1, one careful | `CarefulAlive` violated |
| `log_android` | `LogAndroid.cfg`: 2 loads, 1 warmup, 2 prompts | pass |
| `log_ios_restore` | `LogIosRestore.cfg`: 2 prompts on iOS | `RestoredAtRest` violated |
| `prompt_call` | `PromptCall.cfg`: an int32 that ends at 4, sizes 0 to 4 | pass |
| `decode_stale` | `DecodeStale.cfg`: sizes 0 to 5, limits -1 to 5 | `FedSampled` violated |
| `setup` | `Setup.cfg`: 2 models, any number of runs | pass |
| `model_cache` | `ModelCache.cfg`: 2 names, 3 paths, 2 versions, 2 chunks | pass |

What they show:

- **`android`**. Whatever the application does, the registry works: a prompt
  has its own instance's model in hand for as long as that instance is not unloaded,
  through all its unlocked reads (`OwnModel`), or a true refusal (`NotLoadedIsTrue`), what
  is allocated can still be unloaded unless its warmup failed (`OnlyWarmupOrphans`), and
  every promise settles unless freed memory was used (`PromptsSettle`). A prompt whose own
  instance is unloaded under it has no such promise: it may read the memory of its handle
  as another's. And instances are independent: one that is
  used with care keeps its model for as long as its prompts run (`CarefulAlive`) and
  sees exactly the contract (`KeepsContract`), whatever is done with the two beside it.
- **`example_app`**. The screen's word is good: ready or thinking means that this
  mount's model is loaded and `model.current` refers to it, and thinking means exactly
  one message of its own waits (`StatusIsTrue`). A prompt of a screen that is there runs on
  a model that is still allocated (`PresentAlive`). Whoever reads "Model is not loaded." is
  no longer there (`RefusedOnlyWhenGone`), a model whose screen went before or after
  `init()` was delivered is given back (`GoneGivesBack`), and every message is answered
  or ends in an error (`SendsEnd`), though the thinking bubble then stays.
- **`example_unmount`**. What the registry does not do is keep a model for as
  long as a prompt uses it, and the example unloads on unmount
  (`example/src/App.tsx:211`) without awaiting anything.
- **`ios_careful`, `ios_free`, `ios_double_unload`**. On iOS the id is an address. If
  all instances are used with care, reuse of addresses is harmless and the contract is
  kept. If not, memory is still given back (`UnloadReleases`) and handles that are live
  still have their model (in `IInv`). As long as none is unloaded twice, only a prompt on
  an instance that was unloaded can end up at another's model (in `IInv`), and a careful
  instance has its own model (`CarefulIsolated`) and sees the contract
  (`KeepsContractOnce`), whatever is done with the two beside it. A second `unload()` ends
  that independence: it can free the model of a careful instance under its prompt.
- **`log_android`, `log_ios_restore`**. With captures on the JavaScript thread only,
  the loggers point at no call that returned (`TargetLive`); they are put back, and a
  load's error message quotes no other load or warmup (both follow from `IInv`). The one
  line that can reach a `LoadLog` that is gone is a prompt's that had read its target
  before (in `IInv`).
  Two iOS prompts alone, whose captures overlap, restore in the wrong order and leave the
  loggers pointing into a dead stack frame.
- **`prompt_call`**. An answer keeps every limit the application set for it, as a
  default or an override, however large (`CallerLimitsKept`), and nothing is cut short
  or refused by `maxInputTokens` for one it did not set (`NoLimitInvented`). Falsy values are no limit on
  either platform; what stops the process on iOS is an infinite limit or one beyond an
  int32 (`FalsyIsSafe`). `format_prompt` undoes `buildPrompt`: whatever the request and
  the data contain, the messages are the scaffolding with the data and the request, each
  whole and in its role (`SplitUndoes`); a scaffolding that contains the marker itself
  moves the border, which the property excepts. Then the batch fits both `n_batch` and
  the context (`RoomForBatch`), every way out frees what exists (`Released`), each step
  brings the end nearer (`EndsNearer`), and the call ends (`CallEnds`).
- **`decode_stale`**. The batch of every generated token holds the address of a
  variable of the loop body and is read in the next iteration.
- **`setup`**. A run that completes leaves the saved selection and both platforms in
  step, whatever earlier runs left half done and whichever of its parts were lost since
  (`Configures`); its block and its helper occur once (in `IInv`); a run after it with the same selection
  changes nothing (`RunAgain`); no model is connected whose file was
  gone at the start, even after Ctrl-C (`RemovedGoes`); and what `models.json` has
  selected is not disconnected as a whole without a question (`AsksToDisconnect`).
  `Configures` has three exceptions the code does not repair: a Podfile that lost the call
  and kept the marker (`HookLost`; the wizard says "iOS assets already configured"), one
  that ends up with two `post_install` hooks (`TwoHooks`), and a Gradle file that has the
  `BEGIN` marker and no `END` (`EndLost`; the wizard says "Configured", and `RemovedGoes`
  excepts it too). A call that outlived its helper gets a second one beside it, which does
  no harm: the helper looks for its build phase by name.
- **`model_cache`**. Only a copy that was cut short is refused as incomplete
  (`IncompleteOnlyIfCut`); it stays in the cache until something clears it. No load
  truncates or writes a file that a loaded model has mapped (`MappedWhole`). A load from
  the cache gets the asset of its own name, and of the installed version unless an
  update changed the asset under the copy (`ServesItsOwn`): such a copy is served on.

Deadlock is not checked for the bridges, the log and the generation: an application
that has made all its calls stops, and so does a function that has returned. It is
checked for `Setup` and `ModelCache`.

Each property of a passing run is sensitive to the code: `PROJECT.json` names a
mistaken form of some definition (they are in the modules, marked "Mistaken form")
under which TLC finds it violated.

### Bounds

Every bound is a constant; no guard but `Update`'s (`MaxVersion`) caps a counter.

- *Instances and prompts.* A registry bug needs one instance to be confused with
  another, and a third whose load makes an id or an address come round again; a race
  needs one prompt. Three instances and two prompts, on both platforms. Each instance is
  initialised once and each prompt made once, so `next_model_id` is finite.
- *Addresses.* On iOS as many as instances: an address is used again as soon as it is
  free. On Android an address means nothing but which others it is equal to, so they are
  numbered as they are first used, and no set of them is needed.
- *ExampleApp.* Two mounts: what is pending of a screen that is gone meets the next one.
  Three messages, of which two may be on one screen and one left over from the other.
- *LogSwap.* Two loads are sequential captures, two prompts overlapping ones; a
  restore in the wrong order needs two. Loads and prompts are symmetric, and no
  temporal property is checked there, so the symmetry is sound.
- *PromptCall, Decode.* An int32 from -5 to 4, token counts and trained sizes from 0 to
  4, a context padding of 2 and a warmup context of 3 put every comparison on both sides
  and on the boundary; the code's 256s appear in no other way. The numbers are those at
  and around each boundary, as every pair of a default and an override of one limit; all
  three limits together go through 0 to 4. Texts have each heading in each place. The
  proofs remove the bounds on numbers.
- *Setup.* Models differ in whether they are available, saved, selected and wired; two
  show selections that overlap in part. Runs, kills and changes of files are not
  bounded: the state space is finite. Symmetric in the models, without liveness.
- *ModelCache.* Two names, one of which two paths share and one of which may also be a
  file of its own; two versions, so that an asset changes under a copy; two chunks, so
  that a copy may be empty, cut short or whole. Loads, crashes and clearings are not
  bounded.

### Fairness

`WF` on `NativeStep`: a synchronous native call returns, since llama.cpp's calls
return and the generation loop ends (`CallEnds`). `WF` on `PoolStep`: the pools behind
`Promise.parallel` run what is queued. `SF` on `Settle`: the thread is idle again and
again but not for ever, and the JavaScript event queue is first in, first out, so a
settled promise gets its turn however busy the application is. No fairness is assumed
of the application: it need not unload, and may stop at any time. `PromptCall` has
`WF` on its one thread. `ExampleApp` has the bridge's, and `SF` on what the queue
delivers to the screen (`InitDelivered`, `SendGoesOn`); nobody has to mount, to send or
to unmount. `Setup` and `ModelCache` need none: their temporal properties are action
properties.

## 4. Proofs

`tlapm` checks all of them. They hold for any finite or infinite sets of instances,
prompts and models and for numbers of any size; the assumptions are those the modules
state (`NoInst` is no instance, `Careful` are instances, 0 is no address, padding and
warmup sizes are positive, call sets are disjoint, `Absent` is no selection, no Gradle
file and no copy, NaN and the infinities are no integers, no token count exceeds an
int32), and nothing else.

**AndroidBridgeProofs.** `TypeCorrect`; `Invariance` of `IInv`; from it `OwnModel`,
`RegistryAlive`, `FreedOnce`, `UnloadReleases`, `NotLoadedIsTrue` and
`OnlyWarmupOrphans`; `CarefulAlive` and
`ContractCorrect` for any subset `Careful`: the initial state and every step of the
bridge, seen from those instances, are those of `ThistleContract`. None of the safety
properties is inductive. `OwnModel`, say, needs
that the address a pool thread holds stays its instance's handle until that instance is
unloaded (`CallsAgree`), which needs that an unload deletes no other handle, that an id is given to one instance only, which needs that every id the closures hold
is below the counter, that the registry and the closures agree on who an id belongs to
(`IdsAgree`), and that the JavaScript thread is where the instance's life says
(`OpAgrees`); `FreedOnce` and `RegistryAlive` need the heap and the live handles to be those of the
registered models, give or take the one being loaded or freed (`HeapAgrees`).
`IInv` is the conjunction, checked by TLC in `android` first. The proof has one
lemma per action; `CarefulAlive` adds (`CarefulInv`) that no outstanding prompt is on a
careful instance that was unloaded.

**IosBridgeProofs.** `Invariance` of `IInv` for any application, and from it
`HandleAlive`, `UnloadReleases` and `StrayOnlyIfUnloaded`. Nothing ties an address to
one instance, so the invariant speaks of `Own`: a live handle is at the address of the
instance it was made for, every allocated model belongs to such a one or to a load under
way (`HeapAgrees`), and as long as no instance was unloaded twice an instance that is
ready owns its handle (`OnceAgrees`). For any subset `Careful`, `CarefulInv` adds that no
outstanding prompt is on a careful instance that was unloaded, and that, as long as none
was unloaded twice, a careful instance's prompts use its own model and its unload meets its
own handle. From that `CarefulIsolated` and, step by step as on Android,
`KeepsContractOnce`: what the other instances do, with dangling handles too, leaves the
contract's state alone (`OthersStutter`). If all instances are used with care
(`AllCareful`) none is ever unloaded twice and no deleted handle is used (`CleanInv`),
which gives `OwnModel`, `UsingAlive`, `NoDangling` and `ContractCorrect` outright.

**ExampleAppProofs.** `AppIsApplication`: the chat screen is one of the applications
`AndroidBridge` allows, so all that is proved there of any application is true of it.
`AppInvariance` of `AppInv`, which relates each mount's life to the screen's variables
(`ScreenAgrees`); from it and the bridge's invariant `StatusIsTrue`,
`RefusedOnlyWhenGone` and `PresentAlive`, the latter two because a screen that is there
has not unloaded the model its messages were sent to.

**ModelCacheProofs.** `Invariance` of `IInv`, and from it `MappedWhole` and the
action properties `ServesItsOwn` and `IncompleteOnlyIfCut`. `CopyAgrees` says what a file
in the cache is as long as nothing happened to it: of its own name, of the installed
version, and whole or being copied just now.

**PromptCallProofs.** `PlatformsAgree`: where Swift does not trap, both platforms pass the
same number. `CallIsDecode`: a call does to the generation what `Decode` allows, so
`DecodeProofs` holds of it. From both `CallTypeOK`, `CallerLimitsKept`, `FalsyIsSafe` and
`NoLimitInvented`, for every number and request. `NoLimitInvented` needs to know why a
generation stopped (`StopSaysWhy`, with `Decode`'s invariant), where the context's size
came from (`ContextFits`), and what each conversion does at the boundary
(`LimitConverted`, `OnlyLimitsConverted`). `SplitUndoes` is proved for texts of any length
over any set of words: `PromptParts` gives the prompt as what goes before the request and
the request, `BeforeRequest` says that nothing in the first part is a marker whatever
the data is, since `JSON.stringify` leaves no blank line in it, and `SplitAtBorder` that
the first marker is then the border.

**LogSwapProofs.** `TypeCorrect` for both platforms. `AloneCorrect`, on either platform:
as long as no two captures overlap (`OneCapture`) the loggers are put back
(`RestoredAtRest`), point at no call that returned (`TargetLive`), and a load's error
message quotes no other load and no warmup (`LoadLines`); so overlap is all that goes
wrong in `log_ios_restore`. `AloneInv` says what each logger holds by how far the one
capture there can be has come (`LoggersAgree`), and where a line of the JavaScript thread
can be on its way to (`LinesAgree`). With captures by loads only (`PromptsSwap = FALSE`),
`IInv` adds that only loads are ever inside a capture (`OnlyLoadsSwap`), so that
`OneCapture` follows from the one JavaScript thread (`OneSync`), and that a warmup's lines
go to stderr (`WarmupsAgree`): the three properties and `SyncNotDead` hold on Android
without a condition.

**DecodeProofs.** `Invariance` of `IInv`, and from it all six safety properties, for
sizes and limits without bound. The heart of `IInv` is `LoopAgrees`: at the top of the
loop the cache holds the prompt and all generated tokens but the last, the batch is
the prompt in the first iteration and one token after, and together they are within
`n_ctx`. `SizesAgree` carries the results of the checks into the loop and `LifesAgree`
the life of context and sampler along `pc`. `EndsNearer`: every step lowers the natural
number `StepsLeft`, which begins at most at nine and three for each position the context
has beyond the prompt, so no call goes on for ever; that it does not stop half-way is the
fairness of its thread.

**SetupProofs.** `Invariance` of `IInv`, and from it `Once`, and the action properties
`Configures`, `RemovedGoes`, `AsksToDisconnect` and `RunAgain`. `IInv` says which files
agree with the selection by how far the writes have come; a run completes only from
there, in one of three ways (`CompletesWays`), each of which leaves the files `Wired`
(`CompletesWired`), and from `Wired` files no write of the same selection changes one
(`WiredStays`).

Only model-checked is liveness, which is beyond these provers: `PromptsSettle`,
`GoneGivesBack`, `SendsEnd`, the fairness part of `KeepsContract`, and `CallEnds`, whose
safety half is `EndsNearer`. Every invariant and every action property that a passing run
checks is proved.

## 5. Disagreements between the code and what it says

With a run that shows the disagreement; `PROJECT.json` has the quotations.

1. `example_unmount`: the example unloads a model that a prompt is running on, and
   `unload()` frees it.
2. `ios_double_unload`: on iOS "separate handles" are addresses that come round again.
3. `log_ios_restore`: the logger functions, documented as not thread safe, are called
   by concurrent prompts.
4. `decode_stale`: the batch points at a variable whose lifetime has ended.

Without a run of their own, as exceptions that a property of a passing run names:

5. A warmup that fails after its load leaks the model: the rejected `init()` leaves
   nothing to release (`src/index.tsx:94`; `OnlyWarmupOrphans`), where `README.md:206`
   says to release instances when they are no longer needed.
6. `README.md:65` promises a question before native wiring is cleared; where
   `.thistle/models.json` is missing while the Gradle file and the Podfile are wired,
   `scripts/setup.cjs:142` does not ask (`AsksToDisconnect`).
7. `README.md:63` says that setup is safe to run again after native project changes; a
   Podfile that lost the hook's call is reported as configured (`HookLost`), one whose
   hook names its parameter otherwise gets a second hook (`TwoHooks`), and a Gradle block
   without its `END` is reported as configured and left as it was (`EndLost`).
8. `README.md:174` lists `maxReasoningTokens` among the numeric runtime limits (and line
   184 as reserved): the bridges ignore it.

## 6. Plan

Done: the life of a model on both platforms with its contract, an application of it, the
cache, a call from the options to the last free, the log capture and the setup wizard,
with the theorems above. What could be added:

1. The chat screen on `IosBridge` too: with one instance at a time its unloads meet no
   other instance's handle.
2. `Setup` with the menu's cursor, and a write of one file that is cut short in it.

## 7. Not modelled

- Inference: sampling, weights, chat templates, token text. The bridges treat them as
  calls that return something or fail, and so does `Decode`.
- llama.cpp itself: over ninety-nine hundredths of the repository's lines. It is vendored,
  numerical and mostly sequential; modelled are its loggers, what it asks of a batch, the
  size of a context and the refusal of an incomplete file, at the lines `PROJECT.json`
  names.
- The bytes of an answer: tokens are counted, so an answer that is cut inside of a
  character, and what `NewStringUTF` makes of it, are not seen.
- `maxReasoningTokens`: it is converted, and the bridges ignore it.
- The wording of errors and logs, except which error is given.
- `resolve_model_path` on iOS: reads the file system and the bundle, changes nothing.
- A loss of power that keeps a file's length and loses its contents: in `ModelCache` a
  write that returned stays.
- In `Setup`: the cursor, standard input (after the confirmation is declined the wizard
  goes on or ends), and a write cut short inside one file.
- Nitro's own machinery (reference counts of hybrid objects, conversion of promises):
  generated, and used as documented.
- In `ExampleApp`: the timers that scroll, animate the dots or clear the mark of a copy,
  the list of messages, layout, styles and Markdown; Fast Refresh, which keeps refs.
- The build files.
