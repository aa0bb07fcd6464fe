------------------------------ MODULE IosBridge ------------------------------
(***************************************************************************)
(* The iOS half of Thistle: Thistle.swift and ios/ThistleBridge.mm.        *)
(*                                                                         *)
(* There is no registry.  The modelId is the address of the ThistleModel   *)
(* handle, so nothing tells a live handle from a deleted one, or from a    *)
(* later one the allocator put at the same address.  Addresses are reused  *)
(* freely here, as an allocator may.                                       *)
(*                                                                         *)
(* A dereference of a deleted handle is undefined behaviour: ub records    *)
(* it.  After it memory reads here as it did, or as nothing; a process may *)
(* do worse, so what the properties say is meant up to that point.         *)
(***************************************************************************)
EXTENDS ThistleJs

CONSTANT Addrs       \* addresses operator new may return for a ThistleModel

ASSUME AddrsAssumption == Addrs \subseteq Nat \ {0}

VARIABLES
  handles,   \* live ThistleModel objects: address -> instance they were made for
  heap,      \* instances whose llama_model is allocated and not freed
  ub,        \* TRUE once a deleted handle or a freed model was used
  again      \* TRUE once unload() came to an instance whose handle was deleted before

vars == <<jsVars, handles, heap, ub, again>>

nativeVars == <<handles, heap, ub, again>>

TypeOK ==
  /\ JsTypeOK
  /\ DOMAIN handles \subseteq Addrs
  /\ handles \in [DOMAIN handles -> Instances]
  /\ heap \subseteq Instances
  /\ ub \in BOOLEAN
  /\ again \in BOOLEAN

Init ==
  /\ JsInit
  /\ handles = [a \in {} |-> NoInst]
  /\ heap = {}
  /\ ub = FALSE
  /\ again = FALSE

Live(a) == a \in DOMAIN handles

\* The handle of i is live, and it is the one that was made for i.
Own(i) == Live(modelId[i]) /\ handles[modelId[i]] = i

\* A dereference of a deleted handle.
Dangling(a) == ~Live(a) /\ ub' = TRUE /\ UNCHANGED <<handles, heap>>

-----------------------------------------------------------------------------
(* thistle_load_model, on the JavaScript thread. *)

\* The path is empty, or llama_model_load_from_file returns null.
LoadModelFails(i) ==
  /\ Inside("load", i)
  /\ LoadThrows(i)
  /\ UNCHANGED nativeVars

LoadModel(i) ==
  /\ Inside("load", i)
  /\ Enter("register", i)
  /\ heap' = heap \cup {i}
  /\ UNCHANGED <<life, modelId, promptVars, handles, ub, again>>

\* Mistaken form: one static handle, at one address, serves every model.
NewHandleShared(i) ==
  /\ Inside("register", i)
  /\ LET a == CHOOSE b \in Addrs : TRUE
     IN  /\ handles' = [b \in DOMAIN handles \cup {a} |-> IF b = a THEN i ELSE handles[b]]
         /\ LoadReturns(i, a)
  /\ UNCHANGED <<heap, ub, again>>

\* new ThistleModel{model}: any address that no live handle has.
NewHandle(i) ==
  /\ Inside("register", i)
  /\ \E a \in Addrs \ DOMAIN handles :
       /\ handles' = [b \in DOMAIN handles \cup {a} |-> IF b = a THEN i ELSE handles[b]]
       /\ LoadReturns(i, a)
  /\ UNCHANGED <<heap, ub, again>>

-----------------------------------------------------------------------------
(* thistle_warmup, on the JavaScript thread.  init() calls it with the handle *)
(* it was given a moment ago, which nobody else has.                          *)

Warmup(i) ==
  /\ Inside("warmup", i)
  /\ Live(modelId[i])
  /\ WarmupReturns(i)
  /\ UNCHANGED nativeVars

WarmupFails(i) ==
  /\ Inside("warmup", i)
  /\ WarmupThrows(i)
  /\ UNCHANGED nativeVars

-----------------------------------------------------------------------------
(* thistle_unload_model, on the JavaScript thread. *)

\* Mistaken form: the handle is deleted and its model is not freed.
FreeModelLeaks(i) ==
  /\ Inside("unload", i)
  /\ Live(modelId[i])
  /\ again' = (again \/ ~Own(i))
  /\ Enter("free", i)
  /\ UNCHANGED <<life, modelId, promptVars, handles, heap, ub>>

\* llama_model_free(handle->model), of whatever model is at that address now.
FreeModel(i) ==
  /\ Inside("unload", i)
  /\ Live(modelId[i])
  /\ heap' = heap \ {handles[modelId[i]]}
  /\ again' = (again \/ ~Own(i))
  /\ Enter("free", i)
  /\ UNCHANGED <<life, modelId, promptVars, handles, ub>>

\* Mistaken form: delete is forgotten.
DeleteHandleForgotten(i) ==
  /\ Inside("free", i)
  /\ UnloadReturns(i)
  /\ UNCHANGED nativeVars

\* delete handle.
DeleteHandle(i) ==
  /\ Inside("free", i)
  /\ handles' = [a \in DOMAIN handles \ {modelId[i]} |-> handles[a]]
  /\ UnloadReturns(i)
  /\ UNCHANGED <<heap, ub, again>>

\* The handle was deleted before: its model is read and freed again.
UnloadDangling(i) ==
  /\ Inside("unload", i)
  /\ Dangling(modelId[i])
  /\ again' = TRUE
  /\ UnloadReturns(i)

-----------------------------------------------------------------------------
(* thistle_prompt, on a pool thread. *)

\* The model that c has in hand was freed.
UsesFreed(c) == uses[c] # NoInst /\ uses[c] \notin heap

\* handle->model is read, at any of the places it is read at, and gives the model of
\* the handle that is at that address now.
PromptRead(c) ==
  /\ pc[c] \in {"queued", "reading"}
  /\ LET a == modelId[target[c]]
     IN  Live(a) /\ Reads(c, handles[a])
  /\ ub' = (ub \/ UsesFreed(c))
  /\ UNCHANGED <<handles, heap, again>>

\* The handle was deleted: its memory may read as it did, or as nothing.
PromptDangling(c) ==
  /\ pc[c] \in {"queued", "reading"}
  /\ Dangling(modelId[target[c]])
  /\ \/ Reads(c, LastRead(c))
     \/ pc[c] = "queued" /\ Reject(c, "notLoaded")
  /\ UNCHANGED again

\* The response or an error is handed to the promise, if the model is there to
\* the end.
PromptEnd(c) ==
  /\ Answer(c) \/ Fail(c)
  /\ ub' = (ub \/ UsesFreed(c))
  /\ UNCHANGED <<handles, heap, again>>

-----------------------------------------------------------------------------
JsStep == JsNext /\ UNCHANGED nativeVars

NativeStep(i) ==
  \/ LoadModelFails(i) \/ LoadModel(i) \/ NewHandle(i)
  \/ Warmup(i) \/ WarmupFails(i)
  \/ FreeModel(i) \/ DeleteHandle(i) \/ UnloadDangling(i)

PoolStep(c) == PromptRead(c) \/ PromptDangling(c) \/ PromptEnd(c)

Next ==
  \/ JsStep
  \/ \E i \in Instances : NativeStep(i)
  \/ \E c \in Calls : PoolStep(c)

Spec == Init /\ [][Next]_vars

\* As on Android: native calls return, pool threads run and the JavaScript
\* event queue is first in, first out.
Fairness ==
  /\ \A i \in Instances : WF_vars(NativeStep(i))
  /\ \A c \in Calls : WF_vars(PoolStep(c)) /\ SF_vars(Settle(c) /\ UNCHANGED nativeVars)

FairSpec == Spec /\ Fairness

-----------------------------------------------------------------------------
(* Safety *)

\* A prompt is run on the model of the very instance it was called on, although
\* addresses, and so modelIds, are used again (thistle_prompt reads its handle
\* from the modelId alone).
OwnModel == \A c \in Calls : Runs(c) => uses[c] = target[c]

\* As long as no instance is unloaded a second time, a prompt reaches another
\* instance's model only if its own instance was unloaded, whatever else is used
\* after its unload: the instances that were not are told apart (new ThistleModel
\* in thistle_load_model).
StrayOnlyIfUnloaded ==
  \A c \in Calls :
    ~again /\ Runs(c) /\ uses[c] # target[c] => life[target[c]] = "unloaded"

\* The llama_model a pool thread works on stays allocated until it is done
\* (thistle_prompt against thistle_unload_model).
UsingAlive == \A c \in Calls : Runs(c) => uses[c] \in heap

\* The same of the instances that are used with care, whatever is done to the
\* others.
CarefulAlive ==
  \A c \in Calls :
    Runs(c) /\ target[c] \in Careful => uses[c] \in heap

\* As long as no instance is unloaded a second time, a prompt on an instance that is
\* used with care runs on that instance's model, which stays allocated until the
\* prompt is done, although the others are unloaded under their prompts and prompted
\* after their unload, and their addresses come back as new handles.
CarefulIsolated ==
  \A c \in Calls :
    ~again /\ Runs(c) /\ target[c] \in Careful =>
      uses[c] = target[c] /\ uses[c] \in heap

\* No deleted handle is ever dereferenced and no model used after its free, in
\* any order of calls an application that keeps to the README can make.
NoDangling == ~ub

\* A live handle's model is allocated, but for the moment between
\* llama_model_free and delete in thistle_unload_model.
HandleAlive ==
  \A a \in DOMAIN handles :
    handles[a] \in heap \/ (op = "free" /\ modelId[opInst] = a)

\* Once unload() has returned the instance's memory is free.
UnloadReleases ==
  \A i \in Instances : life[i] = "unloaded" /\ opInst # i => i \notin heap

-----------------------------------------------------------------------------
(* The strengthening under which the safety properties are inductive. *)

\* What the JavaScript thread is inside of agrees with how far its instance is.
OpAgrees ==
  /\ op = "idle" <=> opInst = NoInst
  /\ op \in {"load", "register", "warmup"} => life[opInst] = "loading"
  /\ op \in {"unload", "free"} => life[opInst] = "unloaded"
  /\ op = "warmup" => Own(opInst)
  /\ op = "free" => Live(modelId[opInst])
  /\ \A i \in Instances : life[i] = "loading" =>
       opInst = i /\ op \in {"load", "register", "warmup"}

\* A handle is live from its making until some unload() of its address, and is
\* then the handle of the one instance it was made for.
HandlesAgree ==
  /\ \A a \in DOMAIN handles : modelId[handles[a]] = a
  /\ \A i \in Instances : life[i] = "new" \/ Inside("load", i) \/ Inside("register", i)
                            => modelId[i] = 0
  /\ \A i \in Instances : life[i] \in {"ready", "unloaded"} => modelId[i] \in Addrs
  /\ \A i \in Instances : life[i] = "unloaded" /\ Own(i) =>
       Inside("unload", i) \/ Inside("free", i)

\* A model is allocated from its load until some unload() of its address.
HeapAgrees ==
  /\ HandleAlive
  /\ op = "free" => handles[modelId[opInst]] \notin heap
  /\ \A i \in Instances : Inside("register", i) => i \in heap
  /\ \A i \in heap : Own(i) \/ Inside("register", i)

\* Prompts are made on instances that were loaded.
CallsAgree ==
  /\ \A c \in Calls : pc[c] # "unused" =>
       target[c] # NoInst /\ life[target[c]] \in {"ready", "unloaded"}
  /\ \A c \in Calls : pc[c] = "unused" => target[c] = NoInst
  /\ \A c \in Calls : pc[c] \in {"unused", "queued"} => uses[c] = NoInst

\* As long as no instance is unloaded a second time, no handle is deleted but by
\* its own instance.
OnceAgrees ==
  ~again =>
    /\ \A i \in Instances : life[i] = "ready" \/ Inside("free", i) => Own(i)
    /\ StrayOnlyIfUnloaded

IInv == TypeOK /\ OpAgrees /\ HandlesAgree /\ HeapAgrees /\ CallsAgree /\ OnceAgrees

-----------------------------------------------------------------------------
(* Refinement *)

\* The contract's view of an instance that is used with care, and of a call: it
\* sees the calls on those instances only.
stageBar ==
  [i \in Careful |->
     IF modelId[i] = 0 THEN "new"
     ELSE IF i \in heap THEN "loaded" ELSE "gone"]

stateOf(p) ==
  CASE p = "unused" -> "unused"
    [] p \in {"queued", "found"} -> "pending"
    [] p \in {"reading", "using"} -> "running"
    [] p \in {"answered", "resolved"} -> "answered"
    [] p \in {"failed", "rejected"}   -> "rejected"

stateBar == [c \in Calls |-> IF target[c] \in Careful THEN stateOf(pc[c]) ELSE "unused"]
onBar    == [c \in Calls |-> IF target[c] \in Careful THEN target[c] ELSE NoInst]
byBar    == [c \in Calls |-> IF target[c] \in Careful THEN uses[c] ELSE NoInst]

Contract == INSTANCE ThistleContract
              WITH Instances <- Careful, stage <- stageBar, state <- stateBar,
                   on <- onBar, by <- byBar

\* If all await their prompts before they unload and touch no instance
\* afterwards, raw pointers keep the contract too.
KeepsContract == Contract!Spec

\* If some do not, they keep it to the ones that do, up to the first second unload()
\* of an instance.
KeepsContractOnce == [][~again' => Contract!Next]_Contract!vars
=============================================================================
