------------------------------ MODULE ThistleJs ------------------------------
(***************************************************************************)
(* The JavaScript half of Thistle (src/index.tsx) and the Nitro calls it   *)
(* makes (src/Thistle.nitro.ts).                                           *)
(*                                                                         *)
(* One JavaScript thread runs the application.  loadModel, warmup and      *)
(* unloadModel are synchronous: the thread is inside the native call until *)
(* it returns.  prompt returns a Promise and the native work runs on a     *)
(* pool thread (Promise.parallel on both platforms), so any number of      *)
(* prompts may run while the JavaScript thread goes on.                    *)
(*                                                                         *)
(* The native halves are AndroidBridge and IosBridge, which extend this    *)
(* module and give the steps between a call and its return.                *)
(***************************************************************************)
EXTENDS Naturals, FiniteSets

CONSTANTS
  Instances,   \* calls to Thistle.init(), each making one model object
  Calls,       \* calls to model.prompt()
  NoInst,      \* no instance
  Careful      \* the instances used as README.md:208-217 shows: their prompts are
               \* awaited before unload(), and then they are left alone

ASSUME InstancesAssumption == NoInst \notin Instances
ASSUME CarefulAssumption   == Careful \subseteq Instances

VARIABLES
  op,       \* what the JavaScript thread is inside of
  opInst,   \* the instance that operation is for
  life,     \* life[i]: how far Thistle.init() and unload() got for i
  modelId,  \* modelId[i]: the modelId the closures of i hold, 0 before the load
  pc,       \* pc[c]: where prompt call c is
  target,   \* target[c]: the instance c was made on
  uses,     \* uses[c]: the instance whose llama_model the pool thread of c read last
  reason    \* reason[c]: why c was rejected

jsVars == <<op, opInst, life, modelId, pc, target, uses, reason>>

Ops     == {"idle", "load", "register", "warmup", "unload", "free"}
Lives   == {"new", "loading", "ready", "failed", "unloaded"}
CallPcs == {"unused", "queued", "found", "reading", "using", "answered", "failed",
            "resolved", "rejected"}
Reasons == {"none", "notLoaded", "inference"}

JsTypeOK ==
  /\ op      \in Ops
  /\ opInst  \in Instances \cup {NoInst}
  /\ life    \in [Instances -> Lives]
  /\ modelId \in [Instances -> Nat]
  /\ pc      \in [Calls -> CallPcs]
  /\ target  \in [Calls -> Instances \cup {NoInst}]
  /\ uses    \in [Calls -> Instances \cup {NoInst}]
  /\ reason  \in [Calls -> Reasons]

JsInit ==
  /\ op      = "idle"
  /\ opInst  = NoInst
  /\ life    = [i \in Instances |-> "new"]
  /\ modelId = [i \in Instances |-> 0]
  /\ pc      = [c \in Calls |-> "unused"]
  /\ target  = [c \in Calls |-> NoInst]
  /\ uses    = [c \in Calls |-> NoInst]
  /\ reason  = [c \in Calls |-> "none"]

\* The promise of call c was made and the application has not seen it settle.
Pending(c) == pc[c] \in {"queued", "found", "reading", "using", "answered", "failed"}

Outstanding(i) == {c \in Calls : target[c] = i /\ Pending(c)}

\* A pool thread has read a llama_model from the handle of call c: it may read it
\* again ("reading"), or has made a context from it and reads it no more ("using").
Runs(c) == pc[c] \in {"reading", "using"}

-----------------------------------------------------------------------------
(* The JavaScript thread moves from one operation to the next. *)

Inside(o, i) == op = o /\ opInst = i
Enter(o, i)  == op' = o /\ opInst' = i
Return       == op' = "idle" /\ opInst' = NoInst

promptVars == <<pc, target, uses, reason>>

\* Thistle.init(): the asset does not resolve and the promise is rejected.
InitUnresolved(i) ==
  /\ op = "idle"
  /\ life[i] = "new"
  /\ life' = [life EXCEPT ![i] = "failed"]
  /\ UNCHANGED <<op, opInst, modelId, promptVars>>

\* Thistle.init() enters loadModel().
InitCall(i) ==
  /\ op = "idle"
  /\ life[i] = "new"
  /\ Enter("load", i)
  /\ life' = [life EXCEPT ![i] = "loading"]
  /\ UNCHANGED <<modelId, promptVars>>

\* loadModel() throws, and with it init().
LoadThrows(i) ==
  /\ Return
  /\ life' = [life EXCEPT ![i] = "failed"]
  /\ UNCHANGED <<modelId, promptVars>>

\* loadModel() returns an id and init() enters warmup() with it.
LoadReturns(i, id) ==
  /\ Enter("warmup", i)
  /\ modelId' = [modelId EXCEPT ![i] = id]
  /\ UNCHANGED <<life, promptVars>>

\* warmup() throws, and with it init(): nothing unloads the model.
WarmupThrows(i) ==
  /\ Return
  /\ life' = [life EXCEPT ![i] = "failed"]
  /\ UNCHANGED <<modelId, promptVars>>

\* warmup() returns and init() resolves with the model object.
WarmupReturns(i) ==
  /\ Return
  /\ life' = [life EXCEPT ![i] = "ready"]
  /\ UNCHANGED <<modelId, promptVars>>

\* model.prompt(): the native prompt is queued on the pool.  The model object
\* has no state of its own, so nothing stops a prompt on an unloaded model.
PromptCall(c, i) ==
  /\ op = "idle"
  /\ pc[c] = "unused"
  /\ life[i] \in (IF i \in Careful THEN {"ready"} ELSE {"ready", "unloaded"})
  /\ pc' = [pc EXCEPT ![c] = "queued"]
  /\ target' = [target EXCEPT ![c] = i]
  /\ UNCHANGED <<op, opInst, life, modelId, uses, reason>>

\* model.unload() enters unloadModel(), as often as the application calls it.
UnloadCall(i) ==
  /\ op = "idle"
  /\ \/ i \in Careful /\ life[i] = "ready" /\ Outstanding(i) = {}
     \/ i \notin Careful /\ life[i] \in {"ready", "unloaded"}
  /\ Enter("unload", i)
  /\ life' = [life EXCEPT ![i] = "unloaded"]
  /\ UNCHANGED <<modelId, promptVars>>

UnloadReturns(i) ==
  /\ opInst = i
  /\ Return
  /\ UNCHANGED <<life, modelId, promptVars>>

\* The await in model.prompt() resumes: the response is returned, or the error
\* is logged and thrown on.
Settle(c) ==
  /\ op = "idle"
  /\ \/ pc[c] = "answered" /\ pc' = [pc EXCEPT ![c] = "resolved"]
     \/ pc[c] = "failed"   /\ pc' = [pc EXCEPT ![c] = "rejected"]
  /\ UNCHANGED <<op, opInst, life, modelId, target, uses, reason>>

\* The steps the JavaScript thread takes outside native code.
JsNext ==
  \/ \E i \in Instances : InitUnresolved(i) \/ InitCall(i) \/ UnloadCall(i)
  \/ \E c \in Calls : Settle(c) \/ \E i \in Instances : PromptCall(c, i)

-----------------------------------------------------------------------------
(* What a pool thread does to the state of its call. *)

\* handle->model is read, and gives the model of i.
Reads(c, i) ==
  /\ \E p \in {"reading", "using"} : pc' = [pc EXCEPT ![c] = p]
  /\ uses' = [uses EXCEPT ![c] = i]
  /\ UNCHANGED <<op, opInst, life, modelId, target, reason>>

\* What memory that held the handle of call c may still read as.
LastRead(c) == IF uses[c] = NoInst THEN target[c] ELSE uses[c]

Reject(c, why) ==
  /\ pc' = [pc EXCEPT ![c] = "failed"]
  /\ uses' = [uses EXCEPT ![c] = NoInst]
  /\ reason' = [reason EXCEPT ![c] = why]
  /\ UNCHANGED <<op, opInst, life, modelId, target>>

Answer(c) ==
  /\ pc[c] = "using"
  /\ pc' = [pc EXCEPT ![c] = "answered"]
  /\ uses' = [uses EXCEPT ![c] = NoInst]
  /\ UNCHANGED <<op, opInst, life, modelId, target, reason>>

Fail(c) == Runs(c) /\ Reject(c, "inference")
=============================================================================
