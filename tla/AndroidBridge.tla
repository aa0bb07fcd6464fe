---------------------------- MODULE AndroidBridge ----------------------------
(***************************************************************************)
(* The Android half of Thistle: Thistle.kt and the JNI functions of        *)
(* android/src/main/cpp/ThistleBridge.cpp.                                 *)
(*                                                                         *)
(* Models live in a registry keyed by a counter and guarded by a mutex.    *)
(* Each critical section touches only the registry and ends before any     *)
(* other lock is taken, so each is one step here.  What find_model returns *)
(* outlives its critical section: it is a raw pointer to a ThistleModel,   *)
(* which a pool thread goes on reading without the lock, up to the point   *)
(* where it has made a context; unloadModel() deletes that object, and a   *)
(* later load may be given its memory.                                     *)
(*                                                                         *)
(* Reading a deleted handle, or using a freed model, is undefined          *)
(* behaviour: ub records it.  After it memory reads here as it did, or as  *)
(* nothing; a process may do worse, so what the properties say is meant up *)
(* to that point.                                                          *)
(***************************************************************************)
EXTENDS ThistleJs

VARIABLES
  models,          \* the registry: id -> the address of the handle it owns
  next_model_id,   \* the counter ids are taken from
  handles,         \* live ThistleModel objects: address -> instance they were made for
  heap,            \* instances whose llama_model is allocated and not freed
  held,            \* held[c]: the pointer find_model gave the pool thread of c, or 0
  ub               \* TRUE once a deleted handle or a freed model was used

vars == <<jsVars, models, next_model_id, handles, heap, held, ub>>

nativeVars == <<models, next_model_id, handles, heap, held, ub>>

TypeOK ==
  /\ JsTypeOK
  /\ next_model_id \in Nat \ {0}
  /\ DOMAIN models \subseteq 1 .. (next_model_id - 1)
  /\ models \in [DOMAIN models -> Nat \ {0}]
  /\ DOMAIN handles \subseteq 1 .. (next_model_id - 1)
  /\ handles \in [DOMAIN handles -> Instances]
  /\ heap \subseteq Instances
  /\ held \in [Calls -> Nat]
  /\ ub \in BOOLEAN

Init ==
  /\ JsInit
  /\ models = [id \in {} |-> 0]
  /\ next_model_id = 1
  /\ handles = [a \in {} |-> NoInst]
  /\ heap = {}
  /\ held = [c \in Calls |-> 0]
  /\ ub = FALSE

Live(a) == a \in DOMAIN handles

\* What a lookup under models_mutex gives: a raw pointer, or nullptr.
find_model(id) == IF id \in DOMAIN models THEN models[id] ELSE 0

-----------------------------------------------------------------------------
(* nativeLoadModel, on the JavaScript thread. *)

\* The path does not resolve, or llama_model_load_from_file returns null.
LoadModelFails(i) ==
  /\ Inside("load", i)
  /\ LoadThrows(i)
  /\ UNCHANGED nativeVars

\* llama_model_load_from_file returns a model.
LoadModel(i) ==
  /\ Inside("load", i)
  /\ Enter("register", i)
  /\ heap' = heap \cup {i}
  /\ UNCHANGED <<life, modelId, promptVars, models, next_model_id, handles, held, ub>>

\* make_unique: any address that no live handle has, a new one or one that a deleted
\* handle had.  An address has no meaning but which others it is equal to, so they are
\* numbered as they are first used: the n-th handle made has one of the first n.
MakeHandle(i, a) ==
  /\ ~Live(a)
  /\ handles' = [b \in DOMAIN handles \cup {a} |-> IF b = a THEN i ELSE handles[b]]

\* models.emplace(): an id that is taken keeps what it has.
Emplace(id, a) ==
  models' = [k \in DOMAIN models \cup {id} |-> IF k \in DOMAIN models THEN models[k] ELSE a]

\* Mistaken form: the id is the size of the registry, not a counter's value.
RegisterModelBySize(i) ==
  /\ Inside("register", i)
  /\ LET id == Cardinality(DOMAIN models) + 1
     IN  /\ \E a \in 1 .. next_model_id : MakeHandle(i, a) /\ Emplace(id, a)
         /\ LoadReturns(i, id)
  /\ next_model_id' = next_model_id + 1
  /\ UNCHANGED <<heap, held, ub>>

\* A handle is made, which nobody sees before it moves into the registry under a
\* fresh id; the id is returned.
RegisterModel(i) ==
  /\ Inside("register", i)
  /\ \E a \in 1 .. next_model_id : MakeHandle(i, a) /\ Emplace(next_model_id, a)
  /\ next_model_id' = next_model_id + 1
  /\ LoadReturns(i, next_model_id)
  /\ UNCHANGED <<heap, held, ub>>

-----------------------------------------------------------------------------
(* nativeWarmup, on the JavaScript thread. *)

\* The model is found, a context is made and one token decoded.
Warmup(i) ==
  /\ Inside("warmup", i)
  /\ find_model(modelId[i]) # 0
  /\ WarmupReturns(i)
  /\ UNCHANGED nativeVars

\* The model is not found, or the context or the decode fails.
WarmupFails(i) ==
  /\ Inside("warmup", i)
  /\ WarmupThrows(i)
  /\ UNCHANGED nativeVars

-----------------------------------------------------------------------------
(* nativeUnloadModel, on the JavaScript thread. *)

\* No such id: return without doing anything.
UnloadAbsent(i) ==
  /\ Inside("unload", i)
  /\ modelId[i] \notin DOMAIN models
  /\ UnloadReturns(i)
  /\ UNCHANGED nativeVars

\* The thread goes on to delete the handle at address a, and has let go of the lock.
Takes(a) == Live(a) /\ Enter("free", handles[a])

\* Mistaken form: the handle is copied out and its entry left behind.
EraseModelKeepsEntry(i) ==
  /\ Inside("unload", i)
  /\ modelId[i] \in DOMAIN models
  /\ Takes(models[modelId[i]])
  /\ UNCHANGED <<life, modelId, promptVars, nativeVars>>

\* Mistaken form: the whole registry is cleared.
EraseModelClears(i) ==
  /\ Inside("unload", i)
  /\ modelId[i] \in DOMAIN models
  /\ models' = [id \in {} |-> 0]
  /\ Takes(models[modelId[i]])
  /\ UNCHANGED <<life, modelId, promptVars, next_model_id, handles, heap, held, ub>>

\* Mistaken form: the oldest entry goes, not the one that was found.
EraseModelOldest(i) ==
  /\ Inside("unload", i)
  /\ modelId[i] \in DOMAIN models
  /\ LET oldest == CHOOSE id \in DOMAIN models : \A k \in DOMAIN models : id <= k
     IN  /\ models' = [id \in DOMAIN models \ {oldest} |-> models[id]]
         /\ Takes(models[oldest])
  /\ UNCHANGED <<life, modelId, promptVars, next_model_id, handles, heap, held, ub>>

\* The handle moves out of the registry and the lock is released.
EraseModel(i) ==
  /\ Inside("unload", i)
  /\ modelId[i] \in DOMAIN models
  /\ models' = [id \in DOMAIN models \ {modelId[i]} |-> models[id]]
  /\ Takes(models[modelId[i]])
  /\ UNCHANGED <<life, modelId, promptVars, next_model_id, handles, heap, held, ub>>

\* The handle of i is deleted: its unique_ptr goes out of scope.
DeleteHandle(i) ==
  handles' = [a \in {b \in DOMAIN handles : handles[b] # i} |-> handles[a]]

\* Mistaken form: the handle goes out of scope and llama_model_free is forgotten.
FreeModelLeaks(i) ==
  /\ Inside("free", i)
  /\ DeleteHandle(i)
  /\ UnloadReturns(i)
  /\ UNCHANGED <<models, next_model_id, heap, held, ub>>

\* llama_model_free, and then the handle is deleted.  Who reads the handle between
\* the two gets a freed model, as who reads it after the second may: one step.
FreeModel(i) ==
  /\ Inside("free", i)
  /\ heap' = heap \ {i}
  /\ DeleteHandle(i)
  /\ UnloadReturns(i)
  /\ UNCHANGED <<models, next_model_id, held, ub>>

-----------------------------------------------------------------------------
(* nativePrompt, on a pool thread. *)

\* The model that c has in hand was freed.
UsesFreed(c) == uses[c] # NoInst /\ uses[c] \notin heap

\* find_model gives a handle: the pool thread keeps the raw pointer, and the lock is
\* released before anything is read through it.
PromptFind(c) ==
  /\ pc[c] = "queued"
  /\ find_model(modelId[target[c]]) # 0
  /\ pc' = [pc EXCEPT ![c] = "found"]
  /\ held' = [held EXCEPT ![c] = find_model(modelId[target[c]])]
  /\ UNCHANGED <<op, opInst, life, modelId, target, uses, reason>>
  /\ UNCHANGED <<models, next_model_id, handles, heap, ub>>

\* Mistaken form: the pool thread returns early and the promise never settles.
PromptNotLoadedSilent(c) == FALSE /\ Reject(c, "notLoaded") /\ UNCHANGED nativeVars

\* find_model gives nullptr: "Model is not loaded."
PromptNotLoaded(c) ==
  /\ pc[c] = "queued"
  /\ find_model(modelId[target[c]]) = 0
  /\ Reject(c, "notLoaded")
  /\ UNCHANGED nativeVars

\* The pointer is a local variable: nothing when it is not read any more.
KeepsPointer(c) == held' = [held EXCEPT ![c] = IF pc'[c] = "reading" THEN @ ELSE 0]

\* handle->model is read, at any of the places it is read at, and gives the model of
\* the handle that is at that address now.
PromptRead(c) ==
  /\ pc[c] \in {"found", "reading"}
  /\ Live(held[c])
  /\ Reads(c, handles[held[c]])
  /\ ub' = (ub \/ UsesFreed(c))
  /\ KeepsPointer(c)
  /\ UNCHANGED <<models, next_model_id, handles, heap>>

\* The handle was deleted meanwhile: its memory may read as it did, or as nothing.
PromptDangling(c) ==
  /\ pc[c] \in {"found", "reading"}
  /\ ~Live(held[c])
  /\ \/ Reads(c, LastRead(c))
     \/ pc[c] = "found" /\ Reject(c, "notLoaded")
  /\ ub' = TRUE
  /\ KeepsPointer(c)
  /\ UNCHANGED <<models, next_model_id, handles, heap>>

\* The response or an error is handed to the promise, if the model is there to the
\* end.
PromptEnd(c) ==
  /\ Answer(c) \/ Fail(c)
  /\ ub' = (ub \/ UsesFreed(c))
  /\ KeepsPointer(c)
  /\ UNCHANGED <<models, next_model_id, handles, heap>>

-----------------------------------------------------------------------------
JsStep == JsNext /\ UNCHANGED nativeVars

\* The rest of the synchronous native call the JavaScript thread is inside of.
NativeStep(i) ==
  \/ LoadModelFails(i) \/ LoadModel(i) \/ RegisterModel(i)
  \/ Warmup(i) \/ WarmupFails(i)
  \/ UnloadAbsent(i) \/ EraseModel(i) \/ FreeModel(i)

PoolStep(c) ==
  \/ PromptFind(c) \/ PromptNotLoaded(c)
  \/ PromptRead(c) \/ PromptDangling(c) \/ PromptEnd(c)

Next ==
  \/ JsStep
  \/ \E i \in Instances : NativeStep(i)
  \/ \E c \in Calls : PoolStep(c)

Spec == Init /\ [][Next]_vars

\* Native calls return (the decode loop ends: see module Decode), pool threads
\* run, and the JavaScript event queue is first in, first out, so a settled
\* promise gets its turn however often the application keeps the thread busy.
Fairness ==
  /\ \A i \in Instances : WF_vars(NativeStep(i))
  /\ \A c \in Calls : WF_vars(PoolStep(c)) /\ SF_vars(Settle(c) /\ UNCHANGED nativeVars)

FairSpec == Spec /\ Fairness

-----------------------------------------------------------------------------
(* Safety *)

\* As long as its instance is not unloaded, a prompt has that instance's model in
\* hand and no other, whatever is done with the others: an id that was given out
\* never comes to denote another handle (find_model, next_model_id), and no other
\* instance's unload deletes its handle, whose address it keeps (nativePrompt).  A
\* prompt whose own instance was unloaded may read its handle's memory as another's.
OwnModel ==
  \A c \in Calls : Runs(c) /\ life[target[c]] # "unloaded" => uses[c] = target[c]

\* A lookup never yields a deleted handle, or one whose model was freed: the registry
\* entry is gone, under the lock, before llama_model_free runs (nativeUnloadModel).
RegistryAlive == \A id \in DOMAIN models : Live(models[id]) /\ handles[models[id]] \in heap

\* llama_model_free is only ever called on a model that is still allocated,
\* however often unload() is called, and on the model that was asked for.
FreedOnce == op = "free" => opInst \in heap /\ life[opInst] = "unloaded"

\* Once unload() has returned the instance's memory is free.
UnloadReleases ==
  \A i \in Instances : life[i] = "unloaded" /\ opInst # i => i \notin heap

\* "Model is not loaded." is said only of an instance that was unloaded, never
\* because of what happened to another instance.
NotLoadedIsTrue ==
  \A c \in Calls : reason[c] = "notLoaded" => life[target[c]] = "unloaded"

\* The llama_model a pool thread is working on stays allocated until the
\* thread is done with it.
UsingAlive == \A c \in Calls : Runs(c) => uses[c] \in heap

\* What is true of every prompt if all instances are used with care holds of
\* those that are, whatever is done to the others: instances are independent.
CarefulAlive ==
  \A c \in Calls :
    Runs(c) /\ target[c] \in Careful => uses[c] \in heap

\* Every allocated model belongs to an instance the application can still unload
\* or to a native call that is still running, but for the model of an init() that
\* was rejected by its warmup: that one is registered, and nobody has its id.
OnlyWarmupOrphans ==
  \A i \in heap :
    \/ life[i] \in {"loading", "ready"}
    \/ opInst = i
    \/ life[i] = "failed" /\ modelId[i] \in DOMAIN models

-----------------------------------------------------------------------------
(* The strengthening under which the safety properties are inductive. *)

\* What the JavaScript thread is inside of agrees with how far its instance is.
OpAgrees ==
  /\ op = "idle" <=> opInst = NoInst
  /\ op \in {"load", "register", "warmup"} => life[opInst] = "loading"
  /\ op \in {"unload", "free"} => life[opInst] = "unloaded"
  /\ \A i \in Instances : life[i] = "loading" =>
       opInst = i /\ op \in {"load", "register", "warmup"}

\* An id is in the registry exactly while its instance is between registration
\* and unload, and then denotes the handle that was made for that instance.
IdsAgree ==
  /\ \A i \in Instances : modelId[i] < next_model_id
  /\ \A id \in DOMAIN models : modelId[handles[models[id]]] = id
  /\ \A i \in Instances : modelId[i] \in DOMAIN models => handles[models[modelId[i]]] = i
  /\ \A i \in Instances :
       life[i] = "ready" \/ Inside("warmup", i) => modelId[i] \in DOMAIN models
  /\ \A i \in Instances : life[i] = "unloaded" /\ modelId[i] \in DOMAIN models =>
       Inside("unload", i)
  /\ \A i \in Instances : life[i] = "unloaded" => modelId[i] # 0
  /\ \A i \in Instances : Inside("register", i) \/ Inside("load", i) => modelId[i] = 0
  /\ \A i \in Instances : life[i] = "new" => modelId[i] = 0

\* A model is allocated from the load until the free, and its handle is live from the
\* registration until then; no two handles are of one instance.
HeapAgrees ==
  /\ RegistryAlive
  /\ \A i \in Instances : Inside("register", i) => i \in heap
  /\ \A i \in heap : modelId[i] \in DOMAIN models \/ Inside("register", i)
                     \/ Inside("free", i)
  /\ \A a, b \in DOMAIN handles : handles[a] = handles[b] => a = b
  /\ \A a \in DOMAIN handles :
       handles[a] \in heap /\ ~Inside("register", handles[a]) /\ ~Inside("load", handles[a])

\* Prompts are made on instances that were loaded, and hold the address of their
\* instance's handle for as long as it is not unloaded.
CallsAgree ==
  /\ OwnModel
  /\ NotLoadedIsTrue
  /\ \A c \in Calls : pc[c] # "unused" =>
       target[c] # NoInst /\ life[target[c]] \in {"ready", "unloaded"}
  /\ \A c \in Calls : pc[c] = "unused" => target[c] = NoInst /\ reason[c] = "none"
  /\ \A c \in Calls : pc[c] \in {"unused", "queued", "found"} => uses[c] = NoInst
  /\ \A c \in Calls : pc[c] \in {"found", "reading"} /\ life[target[c]] # "unloaded" =>
       Live(held[c]) /\ handles[held[c]] = target[c]

IInv == TypeOK /\ OpAgrees /\ IdsAgree /\ HeapAgrees /\ FreedOnce /\ CallsAgree

-----------------------------------------------------------------------------
(* Liveness and refinement *)

\* Every prompt the application makes settles, with an answer or an error, whatever
\* it unloads meanwhile, unless memory that was freed is used: from then on nothing
\* is promised, to this prompt or to another (the process may have ended).
PromptsSettle ==
  \A c \in Calls : pc[c] = "queued" ~> pc[c] \in {"resolved", "rejected"} \/ ub

\* The contract's view of an instance that is used with care, and of a call: it
\* sees the calls on those instances only.
stageBar ==
  [i \in Careful |->
     IF modelId[i] = 0 THEN "new"
     ELSE IF modelId[i] \in DOMAIN models THEN "loaded" ELSE "gone"]

stateOf(p) ==
  CASE p = "unused" -> "unused"
    [] p \in {"queued", "found"} -> "pending"
    [] p \in {"reading", "using"} -> "running"
    [] p \in {"answered", "resolved"} -> "answered"
    [] p \in {"failed", "rejected"}   -> "rejected"

stateBar == [c \in Calls |-> IF target[c] \in Careful THEN stateOf(pc[c]) ELSE "unused"]
onBar    == [c \in Calls |-> IF target[c] \in Careful THEN target[c] ELSE NoInst]
byBar    == [c \in Calls |-> IF target[c] \in Careful THEN uses[c] ELSE NoInst]

Contract == INSTANCE ThistleContract
              WITH Instances <- Careful, stage <- stageBar, state <- stateBar,
                   on <- onBar, by <- byBar

\* To those who await their prompts before they unload, the bridge keeps the
\* contract, whatever is done with the other instances.
KeepsContract == Contract!Spec
=============================================================================
