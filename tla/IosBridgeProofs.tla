---------------------------- MODULE IosBridgeProofs ----------------------------
(***************************************************************************)
(* What holds of the iOS bridge for any number of instances and calls and  *)
(* any way addresses are used again: first for every application, then for *)
(* one that uses all its instances with care.                              *)
(***************************************************************************)
EXTENDS IosBridge, TLAPS

\* The strengthened invariant holds before anything is loaded.
LEMMA InitIInv == Init => IInv
<1> SUFFICES ASSUME Init PROVE IInv
  OBVIOUS
<1> USE InstancesAssumption DEF Init, JsInit
<1>1. TypeOK
  BY DEF TypeOK, JsTypeOK, Ops, Lives, CallPcs, Reasons
<1>2. OpAgrees /\ HandlesAgree
  BY AddrsAssumption DEF OpAgrees, HandlesAgree, Inside
<1>3. HeapAgrees
  BY DEF HeapAgrees, HandleAlive, Inside
<1>4. CallsAgree /\ OnceAgrees
  BY DEF CallsAgree, OnceAgrees, StrayOnlyIfUnloaded, Inside, Runs
<1> QED
  BY <1>1, <1>2, <1>3, <1>4 DEF IInv

-----------------------------------------------------------------------------
(* Type correctness *)

\* Every step of the JavaScript thread, the native call it is in, or a pool
\* thread keeps each variable in its range.
LEMMA TypeStep == TypeOK /\ [Next]_vars => TypeOK'
<1> SUFFICES ASSUME TypeOK, [Next]_vars PROVE TypeOK'
  OBVIOUS
<1> USE InstancesAssumption, AddrsAssumption
    DEF TypeOK, JsTypeOK, Ops, Lives, CallPcs, Reasons, promptVars, nativeVars
<1>1. CASE JsStep
  <2>1. ASSUME NEW i \in Instances, InitUnresolved(i) \/ InitCall(i) \/ UnloadCall(i)
        PROVE  TypeOK'
    BY <1>1, <2>1 DEF JsStep, InitUnresolved, InitCall, UnloadCall, Enter
  <2>2. ASSUME NEW c \in Calls, Settle(c) PROVE TypeOK'
    BY <1>1, <2>2 DEF JsStep, Settle
  <2>3. ASSUME NEW c \in Calls, NEW i \in Instances, PromptCall(c, i) PROVE TypeOK'
    BY <1>1, <2>3 DEF JsStep, PromptCall
  <2> QED
    BY <1>1, <2>1, <2>2, <2>3 DEF JsStep, JsNext
<1>2. ASSUME NEW i \in Instances, NativeStep(i) PROVE TypeOK'
  <2>1. CASE LoadModelFails(i)
    BY <2>1 DEF LoadModelFails, LoadThrows, Return
  <2>2. CASE LoadModel(i)
    BY <2>2 DEF LoadModel, Enter
  <2>3. CASE NewHandle(i)
    <3>1. PICK a \in Addrs \ DOMAIN handles :
            /\ handles' = [b \in DOMAIN handles \cup {a} |-> IF b = a THEN i ELSE handles[b]]
            /\ LoadReturns(i, a)
      BY <2>3 DEF NewHandle
    <3> QED
      BY <2>3, <3>1 DEF NewHandle, LoadReturns, Enter
  <2>4. CASE Warmup(i)
    BY <2>4 DEF Warmup, WarmupReturns, Return
  <2>5. CASE WarmupFails(i)
    BY <2>5 DEF WarmupFails, WarmupThrows, Return
  <2>6. CASE FreeModel(i)
    BY <2>6 DEF FreeModel, Enter, Own
  <2>7. CASE DeleteHandle(i)
    BY <2>7 DEF DeleteHandle, UnloadReturns, Return
  <2>8. CASE UnloadDangling(i)
    BY <2>8 DEF UnloadDangling, Dangling, UnloadReturns, Return
  <2> QED
    BY <1>2, <2>1, <2>2, <2>3, <2>4, <2>5, <2>6, <2>7, <2>8 DEF NativeStep
<1>3. ASSUME NEW c \in Calls, PoolStep(c) PROVE TypeOK'
  <2>1. CASE PromptRead(c)
    BY <2>1 DEF PromptRead, Reads, Live, UsesFreed
  <2>2. CASE PromptDangling(c)
    <3>1. LastRead(c) \in Instances \cup {NoInst}
      BY DEF LastRead
    <3> QED
      BY <2>2, <3>1 DEF PromptDangling, Dangling, Reads, Reject
  <2>3. CASE PromptEnd(c)
    BY <2>3 DEF PromptEnd, Answer, Fail, Reject, UsesFreed
  <2> QED
    BY <1>3, <2>1, <2>2, <2>3 DEF PoolStep
<1>4. CASE UNCHANGED vars
  BY <1>4 DEF vars, jsVars
<1> QED
  BY <1>1, <1>2, <1>3, <1>4 DEF Next

-----------------------------------------------------------------------------
(* The strengthened invariant, action by action *)

\* init() that does not resolve its asset touches nothing native.
LEMMA InitUnresolvedKeeps ==
  ASSUME IInv, TypeOK', NEW i \in Instances, InitUnresolved(i), UNCHANGED nativeVars
  PROVE  IInv'
<1> USE InstancesAssumption, AddrsAssumption
    DEF IInv, OpAgrees, HandlesAgree, HeapAgrees, CallsAgree, HandleAlive, Own, Live, Inside,
        Runs, TypeOK, JsTypeOK, Lives, CallPcs, promptVars, nativeVars
<1>1. OpAgrees'
  BY DEF InitUnresolved
<1>2. HandlesAgree'
  BY DEF InitUnresolved
<1>3. HeapAgrees'
  BY DEF InitUnresolved
<1>4. CallsAgree'
  BY DEF InitUnresolved
<1>5. OnceAgrees'
  BY DEF InitUnresolved, OnceAgrees, StrayOnlyIfUnloaded
<1> QED
  BY <1>1, <1>2, <1>3, <1>4, <1>5

\* Entering the load gives the JavaScript thread its operation.
LEMMA InitCallKeeps ==
  ASSUME IInv, TypeOK', NEW i \in Instances, InitCall(i), UNCHANGED nativeVars
  PROVE  IInv'
<1> USE InstancesAssumption, AddrsAssumption
    DEF IInv, OpAgrees, HandlesAgree, HeapAgrees, CallsAgree, HandleAlive, Own, Live, Inside,
        Runs, TypeOK, JsTypeOK, Lives, CallPcs, promptVars, nativeVars
<1>1. OpAgrees'
  BY DEF InitCall, Enter
<1>2. HandlesAgree'
  BY DEF InitCall, Enter
<1>3. HeapAgrees'
  BY DEF InitCall, Enter
<1>4. CallsAgree'
  BY DEF InitCall, Enter
<1>5. OnceAgrees'
  BY DEF InitCall, Enter, OnceAgrees, StrayOnlyIfUnloaded
<1> QED
  BY <1>1, <1>2, <1>3, <1>4, <1>5

\* Entering the unload marks the instance; its handle is as it was.
LEMMA UnloadCallKeeps ==
  ASSUME IInv, TypeOK', NEW i \in Instances, UnloadCall(i), UNCHANGED nativeVars
  PROVE  IInv'
<1> USE InstancesAssumption, AddrsAssumption
    DEF IInv, OpAgrees, HandlesAgree, HeapAgrees, CallsAgree, HandleAlive, Own, Live, Inside,
        Runs, TypeOK, JsTypeOK, Lives, CallPcs, promptVars, nativeVars
<1>1. OpAgrees'
  BY DEF UnloadCall, Enter
<1>2. HandlesAgree'
  BY DEF UnloadCall, Enter
<1>3. HeapAgrees'
  BY DEF UnloadCall, Enter
<1>4. CallsAgree'
  BY DEF UnloadCall, Enter
<1>5. OnceAgrees'
  BY DEF UnloadCall, Enter, OnceAgrees, StrayOnlyIfUnloaded
<1> QED
  BY <1>1, <1>2, <1>3, <1>4, <1>5

\* A settled promise keeps its target.
LEMMA SettleKeeps ==
  ASSUME IInv, TypeOK', NEW c \in Calls, Settle(c), UNCHANGED nativeVars
  PROVE  IInv'
<1> USE InstancesAssumption, AddrsAssumption
    DEF IInv, OpAgrees, HandlesAgree, HeapAgrees, CallsAgree, HandleAlive, Own, Live, Inside,
        Runs, TypeOK, JsTypeOK, Lives, CallPcs, promptVars, nativeVars
<1>1. OpAgrees'
  BY DEF Settle
<1>2. HandlesAgree'
  BY DEF Settle
<1>3. HeapAgrees'
  BY DEF Settle
<1>4. CallsAgree'
  BY DEF Settle
<1>5. OnceAgrees'
  BY DEF Settle, OnceAgrees, StrayOnlyIfUnloaded
<1> QED
  BY <1>1, <1>2, <1>3, <1>4, <1>5

\* A prompt is only ever made on an instance that was loaded.
LEMMA PromptCallKeeps ==
  ASSUME IInv, TypeOK', NEW c \in Calls, NEW i \in Instances, PromptCall(c, i), UNCHANGED nativeVars
  PROVE  IInv'
<1> USE InstancesAssumption, AddrsAssumption
    DEF IInv, OpAgrees, HandlesAgree, HeapAgrees, CallsAgree, HandleAlive, Own, Live, Inside,
        Runs, TypeOK, JsTypeOK, Lives, CallPcs, promptVars, nativeVars
<1>1. OpAgrees'
  BY DEF PromptCall
<1>2. HandlesAgree'
  BY DEF PromptCall
<1>3. HeapAgrees'
  BY DEF PromptCall
<1>4. CallsAgree'
  BY DEF PromptCall
<1>5. OnceAgrees'
  BY DEF PromptCall, OnceAgrees, StrayOnlyIfUnloaded
<1> QED
  BY <1>1, <1>2, <1>3, <1>4, <1>5

\* A load that fails leaves no handle and no memory.
LEMMA LoadModelFailsKeeps ==
  ASSUME IInv, TypeOK', NEW i \in Instances, LoadModelFails(i)
  PROVE  IInv'
<1> USE InstancesAssumption, AddrsAssumption
    DEF IInv, OpAgrees, HandlesAgree, HeapAgrees, CallsAgree, HandleAlive, Own, Live, Inside,
        Runs, TypeOK, JsTypeOK, Lives, CallPcs, promptVars, nativeVars
<1>1. OpAgrees'
  BY DEF LoadModelFails, LoadThrows, Return
<1>2. HandlesAgree'
  BY DEF LoadModelFails, LoadThrows, Return
<1>3. HeapAgrees'
  BY DEF LoadModelFails, LoadThrows, Return
<1>4. CallsAgree'
  BY DEF LoadModelFails, LoadThrows, Return
<1>5. OnceAgrees'
  BY DEF LoadModelFails, LoadThrows, Return, OnceAgrees, StrayOnlyIfUnloaded
<1> QED
  BY <1>1, <1>2, <1>3, <1>4, <1>5

\* The model is allocated before it has a handle.
LEMMA LoadModelKeeps ==
  ASSUME IInv, TypeOK', NEW i \in Instances, LoadModel(i)
  PROVE  IInv'
<1> USE InstancesAssumption, AddrsAssumption
    DEF IInv, OpAgrees, HandlesAgree, HeapAgrees, CallsAgree, HandleAlive, Own, Live, Inside,
        Runs, TypeOK, JsTypeOK, Lives, CallPcs, promptVars, nativeVars
<1>1. OpAgrees'
  BY DEF LoadModel, Enter
<1>2. HandlesAgree'
  BY DEF LoadModel, Enter
<1>3. HeapAgrees'
  BY DEF LoadModel, Enter
<1>4. CallsAgree'
  BY DEF LoadModel, Enter
<1>5. OnceAgrees'
  BY DEF LoadModel, Enter, OnceAgrees, StrayOnlyIfUnloaded
<1> QED
  BY <1>1, <1>2, <1>3, <1>4, <1>5

\* The new handle's address is no live handle's.
LEMMA NewHandleKeeps ==
  ASSUME IInv, TypeOK', NEW i \in Instances, NewHandle(i)
  PROVE  IInv'
<1> USE InstancesAssumption, AddrsAssumption
    DEF IInv, OpAgrees, HandlesAgree, HeapAgrees, CallsAgree, HandleAlive, Own, Live, Inside,
        Runs, TypeOK, JsTypeOK, Lives, CallPcs, promptVars, nativeVars
<1>0. PICK a \in Addrs \ DOMAIN handles :
        /\ handles' = [b \in DOMAIN handles \cup {a} |-> IF b = a THEN i ELSE handles[b]]
        /\ LoadReturns(i, a)
  BY DEF NewHandle
<1>1. OpAgrees'
  BY <1>0 DEF NewHandle, LoadReturns, Enter
<1>2. HandlesAgree'
  BY <1>0 DEF NewHandle, LoadReturns, Enter
<1>3. HeapAgrees'
  BY <1>0 DEF NewHandle, LoadReturns, Enter
<1>4. CallsAgree'
  BY <1>0 DEF NewHandle, LoadReturns, Enter
<1>5. OnceAgrees'
  BY <1>0 DEF NewHandle, LoadReturns, Enter, OnceAgrees, StrayOnlyIfUnloaded
<1> QED
  BY <1>1, <1>2, <1>3, <1>4, <1>5

\* A warm instance has its own handle: nothing came between.
LEMMA WarmupKeeps ==
  ASSUME IInv, TypeOK', NEW i \in Instances, Warmup(i)
  PROVE  IInv'
<1> USE InstancesAssumption, AddrsAssumption
    DEF IInv, OpAgrees, HandlesAgree, HeapAgrees, CallsAgree, HandleAlive, Own, Live, Inside,
        Runs, TypeOK, JsTypeOK, Lives, CallPcs, promptVars, nativeVars
<1>1. OpAgrees'
  BY DEF Warmup, WarmupReturns, Return
<1>2. HandlesAgree'
  BY DEF Warmup, WarmupReturns, Return
<1>3. HeapAgrees'
  BY DEF Warmup, WarmupReturns, Return
<1>4. CallsAgree'
  BY DEF Warmup, WarmupReturns, Return
<1>5. OnceAgrees'
  BY DEF Warmup, WarmupReturns, Return, OnceAgrees, StrayOnlyIfUnloaded
<1> QED
  BY <1>1, <1>2, <1>3, <1>4, <1>5

\* A failed warmup leaves a handle behind, which stays consistent.
LEMMA WarmupFailsKeeps ==
  ASSUME IInv, TypeOK', NEW i \in Instances, WarmupFails(i)
  PROVE  IInv'
<1> USE InstancesAssumption, AddrsAssumption
    DEF IInv, OpAgrees, HandlesAgree, HeapAgrees, CallsAgree, HandleAlive, Own, Live, Inside,
        Runs, TypeOK, JsTypeOK, Lives, CallPcs, promptVars, nativeVars
<1>1. OpAgrees'
  BY DEF WarmupFails, WarmupThrows, Return
<1>2. HandlesAgree'
  BY DEF WarmupFails, WarmupThrows, Return
<1>3. HeapAgrees'
  BY DEF WarmupFails, WarmupThrows, Return
<1>4. CallsAgree'
  BY DEF WarmupFails, WarmupThrows, Return
<1>5. OnceAgrees'
  BY DEF WarmupFails, WarmupThrows, Return, OnceAgrees, StrayOnlyIfUnloaded
<1> QED
  BY <1>1, <1>2, <1>3, <1>4, <1>5

\* The model of the handle at that address goes, whoever's it is.
LEMMA FreeModelKeeps ==
  ASSUME IInv, TypeOK', NEW i \in Instances, FreeModel(i)
  PROVE  IInv'
<1> USE InstancesAssumption, AddrsAssumption
    DEF IInv, OpAgrees, HandlesAgree, HeapAgrees, CallsAgree, HandleAlive, Own, Live, Inside,
        Runs, TypeOK, JsTypeOK, Lives, CallPcs, promptVars, nativeVars
<1>1. OpAgrees'
  BY DEF FreeModel, Enter
<1>2. HandlesAgree'
  BY DEF FreeModel, Enter
<1>3. HeapAgrees'
  BY DEF FreeModel, Enter
<1>4. CallsAgree'
  BY DEF FreeModel, Enter
<1>5. OnceAgrees'
  BY DEF FreeModel, Enter, OnceAgrees, StrayOnlyIfUnloaded
<1> QED
  BY <1>1, <1>2, <1>3, <1>4, <1>5

\* The handle that goes has lost its model.
LEMMA DeleteHandleKeeps ==
  ASSUME IInv, TypeOK', NEW i \in Instances, DeleteHandle(i)
  PROVE  IInv'
<1> USE InstancesAssumption, AddrsAssumption
    DEF IInv, OpAgrees, HandlesAgree, HeapAgrees, CallsAgree, HandleAlive, Own, Live, Inside,
        Runs, TypeOK, JsTypeOK, Lives, CallPcs, promptVars, nativeVars
<1>1. OpAgrees'
  BY DEF DeleteHandle, UnloadReturns, Return
<1>2. HandlesAgree'
  BY DEF DeleteHandle, UnloadReturns, Return
<1>3. HeapAgrees'
  BY DEF DeleteHandle, UnloadReturns, Return
<1>4. CallsAgree'
  BY DEF DeleteHandle, UnloadReturns, Return
<1>5. OnceAgrees'
  BY DEF DeleteHandle, UnloadReturns, Return, OnceAgrees, StrayOnlyIfUnloaded
<1> QED
  BY <1>1, <1>2, <1>3, <1>4, <1>5

\* A handle that is gone is not deleted here a second time.
LEMMA UnloadDanglingKeeps ==
  ASSUME IInv, TypeOK', NEW i \in Instances, UnloadDangling(i)
  PROVE  IInv'
<1> USE InstancesAssumption, AddrsAssumption
    DEF IInv, OpAgrees, HandlesAgree, HeapAgrees, CallsAgree, HandleAlive, Own, Live, Inside,
        Runs, TypeOK, JsTypeOK, Lives, CallPcs, promptVars, nativeVars
<1>1. OpAgrees'
  BY DEF UnloadDangling, Dangling, UnloadReturns, Return
<1>2. HandlesAgree'
  BY DEF UnloadDangling, Dangling, UnloadReturns, Return
<1>3. HeapAgrees'
  BY DEF UnloadDangling, Dangling, UnloadReturns, Return
<1>4. CallsAgree'
  BY DEF UnloadDangling, Dangling, UnloadReturns, Return
<1>5. OnceAgrees'
  BY DEF UnloadDangling, Dangling, UnloadReturns, Return, OnceAgrees, StrayOnlyIfUnloaded
<1> QED
  BY <1>1, <1>2, <1>3, <1>4, <1>5

\* A prompt runs on what is at the address of its instance's handle.
LEMMA PromptReadKeeps ==
  ASSUME IInv, TypeOK', NEW c \in Calls, PromptRead(c)
  PROVE  IInv'
<1> USE InstancesAssumption, AddrsAssumption
    DEF IInv, OpAgrees, HandlesAgree, HeapAgrees, CallsAgree, HandleAlive, Own, Live, Inside,
        Runs, TypeOK, JsTypeOK, Lives, CallPcs, promptVars, nativeVars
<1>1. OpAgrees'
  BY DEF PromptRead, Reads
<1>2. HandlesAgree'
  BY DEF PromptRead, Reads
<1>3. HeapAgrees'
  BY DEF PromptRead, Reads
<1>4. CallsAgree'
  BY DEF PromptRead, Reads
<1>5. OnceAgrees'
  BY DEF PromptRead, Reads, OnceAgrees, StrayOnlyIfUnloaded
<1> QED
  BY <1>1, <1>2, <1>3, <1>4, <1>5

\* Nothing of the bridge's state changes but the call's.
LEMMA PromptDanglingKeeps ==
  ASSUME IInv, TypeOK', NEW c \in Calls, PromptDangling(c)
  PROVE  IInv'
<1> USE InstancesAssumption, AddrsAssumption
    DEF IInv, OpAgrees, HandlesAgree, HeapAgrees, CallsAgree, HandleAlive, Own, Live, Inside,
        Runs, TypeOK, JsTypeOK, Lives, CallPcs, promptVars, nativeVars
<1>1. OpAgrees'
  BY DEF PromptDangling, Dangling, Reads, LastRead, Reject
<1>2. HandlesAgree'
  BY DEF PromptDangling, Dangling, Reads, LastRead, Reject
<1>3. HeapAgrees'
  BY DEF PromptDangling, Dangling, Reads, LastRead, Reject
<1>4. CallsAgree'
  BY DEF PromptDangling, Dangling, Reads, LastRead, Reject
<1>5. OnceAgrees'
  BY DEF PromptDangling, Dangling, Reads, LastRead, Reject, OnceAgrees, StrayOnlyIfUnloaded
<1> QED
  BY <1>1, <1>2, <1>3, <1>4, <1>5

\* The end of a prompt touches its own call only.
LEMMA PromptEndKeeps ==
  ASSUME IInv, TypeOK', NEW c \in Calls, PromptEnd(c)
  PROVE  IInv'
<1> USE InstancesAssumption, AddrsAssumption
    DEF IInv, OpAgrees, HandlesAgree, HeapAgrees, CallsAgree, HandleAlive, Own, Live, Inside,
        Runs, TypeOK, JsTypeOK, Lives, CallPcs, promptVars, nativeVars
<1>1. OpAgrees'
  BY DEF PromptEnd, Answer, Fail, Reject
<1>2. HandlesAgree'
  BY DEF PromptEnd, Answer, Fail, Reject
<1>3. HeapAgrees'
  BY DEF PromptEnd, Answer, Fail, Reject
<1>4. CallsAgree'
  BY DEF PromptEnd, Answer, Fail, Reject
<1>5. OnceAgrees'
  BY DEF PromptEnd, Answer, Fail, Reject, OnceAgrees, StrayOnlyIfUnloaded
<1> QED
  BY <1>1, <1>2, <1>3, <1>4, <1>5

-----------------------------------------------------------------------------
(* What follows for every application *)

\* The strengthened invariant is kept by every step.
LEMMA IInvStep == IInv /\ [Next]_vars => IInv'
<1> SUFFICES ASSUME IInv, [Next]_vars PROVE IInv'
  OBVIOUS
<1>1. TypeOK'
  BY TypeStep DEF IInv
<1>2. CASE JsStep
  BY <1>1, <1>2, InitUnresolvedKeeps, InitCallKeeps, UnloadCallKeeps, SettleKeeps,
     PromptCallKeeps
  DEF JsStep, JsNext
<1>3. ASSUME NEW i \in Instances, NativeStep(i) PROVE IInv'
  BY <1>1, <1>3, LoadModelFailsKeeps, LoadModelKeeps, NewHandleKeeps, WarmupKeeps,
     WarmupFailsKeeps, FreeModelKeeps, DeleteHandleKeeps, UnloadDanglingKeeps
  DEF NativeStep
<1>4. ASSUME NEW c \in Calls, PoolStep(c) PROVE IInv'
  BY <1>1, <1>4, PromptReadKeeps, PromptDanglingKeeps, PromptEndKeeps DEF PoolStep
<1>5. CASE UNCHANGED vars
  BY <1>1, <1>5
  DEF vars, jsVars, IInv, OpAgrees, HandlesAgree, HeapAgrees, CallsAgree, OnceAgrees,
      HandleAlive, StrayOnlyIfUnloaded, Own, Live, Inside, Runs
<1> QED
  BY <1>2, <1>3, <1>4, <1>5 DEF Next

\* The strengthened invariant holds in every state the bridge can reach.
THEOREM Invariance == Spec => []IInv
  BY InitIInv, IInvStep, PTL DEF Spec

\* A live handle has its model, however addresses are used again.
THEOREM HandleAliveCorrect == Spec => []HandleAlive
<1>1. IInv => HandleAlive
  BY DEF IInv, HeapAgrees
<1> QED
  BY <1>1, Invariance, PTL

\* unload() gives the memory back, also among instances that are unloaded twice.
THEOREM UnloadReleasesCorrect == Spec => []UnloadReleases
<1>1. IInv => UnloadReleases
  BY DEF IInv, UnloadReleases, HeapAgrees, HandlesAgree, OpAgrees, Inside
<1> QED
  BY <1>1, Invariance, PTL

\* Until an instance is unloaded a second time, prompts stray only from instances
\* that were unloaded.
THEOREM StrayOnlyIfUnloadedCorrect == Spec => []StrayOnlyIfUnloaded
<1>1. IInv => StrayOnlyIfUnloaded
  BY DEF IInv, OnceAgrees, StrayOnlyIfUnloaded
<1> QED
  BY <1>1, Invariance, PTL

-----------------------------------------------------------------------------
(* Instances that are used with care, among others that are not *)

\* Their prompts are awaited before their unload and made before it.  Until some
\* instance is unloaded a second time, every handle that is looked at for them is
\* their own.
CarefulInv ==
  /\ \A c \in Calls :
       Pending(c) /\ target[c] \in Careful => life[target[c]] = "ready"
  /\ ~again =>
       /\ \A c \in Calls : Runs(c) /\ target[c] \in Careful => uses[c] = target[c]
       /\ op = "unload" /\ opInst \in Careful => Own(opInst)

\* A second unload is never forgotten.
LEMMA AgainStays == ASSUME [Next]_vars, again PROVE again'
<1> USE DEF nativeVars
<1>1. CASE JsStep
  BY <1>1 DEF JsStep
<1>2. ASSUME NEW i \in Instances, NativeStep(i) PROVE again'
  BY <1>2
  DEF NativeStep, LoadModelFails, LoadModel, NewHandle, Warmup, WarmupFails, FreeModel,
      DeleteHandle, UnloadDangling
<1>3. ASSUME NEW c \in Calls, PoolStep(c) PROVE again'
  BY <1>3 DEF PoolStep, PromptRead, PromptDangling, PromptEnd
<1>4. CASE UNCHANGED vars
  BY <1>4 DEF vars
<1> QED
  BY <1>1, <1>2, <1>3, <1>4 DEF Next

\* An instance that is ready has its model.
LEMMA ReadyHasModel ==
  ASSUME IInv, ~again, NEW i \in Instances, life[i] = "ready"
  PROVE  Own(i) /\ i \in heap
<1>1. Own(i)
  BY DEF IInv, OnceAgrees
<1>2. CASE op = "free" /\ modelId[opInst] = modelId[i]
  <2>1. opInst \in Instances /\ Own(opInst)
    BY <1>2 DEF IInv, OnceAgrees, OpAgrees, Inside, TypeOK, JsTypeOK
  <2>2. opInst = i
    BY <1>1, <1>2, <2>1 DEF Own
  <2> QED
    BY <1>2, <2>2 DEF IInv, OpAgrees
<1>3. CASE ~(op = "free" /\ modelId[opInst] = modelId[i])
  BY <1>1, <1>3 DEF IInv, HeapAgrees, HandleAlive, Own, Live
<1> QED
  BY <1>1, <1>2, <1>3

\* So a prompt on such an instance never waits on, or runs from, a deleted handle.
LEMMA AwaitedHasModel ==
  ASSUME IInv, CarefulInv, ~again, NEW c \in Calls, target[c] \in Careful,
         pc[c] \in {"queued", "reading", "using"}
  PROVE  Own(target[c]) /\ target[c] \in heap
  BY ReadyHasModel, CarefulAssumption DEF CarefulInv, Pending

LEMMA CarefulStep == ASSUME IInv, CarefulInv, [Next]_vars PROVE CarefulInv'
<1> USE InstancesAssumption, CarefulAssumption
    DEF CarefulInv, Pending, Runs, IInv, TypeOK, JsTypeOK, Lives, CallPcs, promptVars, nativeVars
<1>1. CASE JsStep
  <2>1. ASSUME NEW i \in Instances, InitUnresolved(i) \/ InitCall(i) PROVE CarefulInv'
    BY <1>1, <2>1 DEF JsStep, InitUnresolved, InitCall, Enter, CallsAgree, Own, Live
  <2>2. ASSUME NEW i \in Instances, UnloadCall(i) PROVE CarefulInv'
    BY <1>1, <2>2, ReadyHasModel DEF JsStep, UnloadCall, Enter, Outstanding, Own, Live
  <2>3. ASSUME NEW c \in Calls, Settle(c) PROVE CarefulInv'
    BY <1>1, <2>3 DEF JsStep, Settle, Own, Live
  <2>4. ASSUME NEW c \in Calls, NEW i \in Instances, PromptCall(c, i) PROVE CarefulInv'
    BY <1>1, <2>4 DEF JsStep, PromptCall, Own, Live
  <2> QED
    BY <1>1, <2>1, <2>2, <2>3, <2>4 DEF JsStep, JsNext
<1>2. ASSUME NEW i \in Instances, NativeStep(i) PROVE CarefulInv'
  <2>1. CASE LoadModelFails(i)
    BY <2>1 DEF LoadModelFails, LoadThrows, Return, Inside, OpAgrees
  <2>2. CASE LoadModel(i)
    BY <2>2 DEF LoadModel, Enter
  <2>3. CASE NewHandle(i)
    BY <2>3 DEF NewHandle, LoadReturns, Enter
  <2>4. CASE Warmup(i)
    BY <2>4 DEF Warmup, WarmupReturns, Return, Inside, OpAgrees
  <2>5. CASE WarmupFails(i)
    BY <2>5 DEF WarmupFails, WarmupThrows, Return, Inside, OpAgrees
  <2>6. CASE FreeModel(i)
    BY <2>6 DEF FreeModel, Enter, Inside
  <2>7. CASE DeleteHandle(i)
    BY <2>7 DEF DeleteHandle, UnloadReturns, Return
  <2>8. CASE UnloadDangling(i)
    BY <2>8 DEF UnloadDangling, Dangling, UnloadReturns, Return, Inside
  <2> QED
    BY <1>2, <2>1, <2>2, <2>3, <2>4, <2>5, <2>6, <2>7, <2>8 DEF NativeStep
<1>3. ASSUME NEW c \in Calls, PoolStep(c) PROVE CarefulInv'
  <2>1. ~again /\ pc[c] \in {"queued", "reading"} /\ target[c] \in Careful => Own(target[c])
    BY AwaitedHasModel
  <2>2. CASE PromptRead(c)
    BY <2>1, <2>2 DEF PromptRead, Reads, Own, Live
  <2>3. CASE PromptDangling(c)
    BY <2>1, <2>3 DEF PromptDangling, Dangling, Reads, Reject, Own, Live
  <2>4. CASE PromptEnd(c)
    BY <2>4 DEF PromptEnd, Answer, Fail, Reject, Own, Live
  <2> QED
    BY <1>3, <2>2, <2>3, <2>4 DEF PoolStep
<1>4. CASE UNCHANGED vars
  BY <1>4 DEF vars, jsVars, Own, Live
<1> QED
  BY <1>1, <1>2, <1>3, <1>4 DEF Next

LEMMA CarefulInvariance == Spec => [](IInv /\ CarefulInv)
<1>1. Init => CarefulInv
  BY DEF Init, JsInit, CarefulInv, Pending, Runs
<1>2. IInv /\ CarefulInv /\ [Next]_vars => (IInv /\ CarefulInv)'
  BY CarefulStep, IInvStep
<1> QED
  BY <1>1, <1>2, InitIInv, PTL DEF Spec

\* Until an instance is unloaded a second time, the prompts on those that are used
\* with care run on their own model, which stays, whatever is done to the others.
THEOREM CarefulIsolatedCorrect == Spec => []CarefulIsolated
<1>1. IInv /\ CarefulInv => CarefulIsolated
  BY AwaitedHasModel DEF CarefulInv, CarefulIsolated, Runs
<1> QED
  BY <1>1, CarefulInvariance, PTL

-----------------------------------------------------------------------------
(* The contract *)

\* What the contract's variables are made of does not change unless one of
\* these does.
LEMMA Stutter == UNCHANGED <<modelId, heap, pc, target, uses>> => UNCHANGED Contract!vars
  BY DEF Contract!vars, stageBar, stateBar, onBar, byBar

\* What becomes of a call on an instance that is used without care is not seen.
LEMMA OthersStutter ==
  ASSUME TypeOK, NEW c \in Calls, target[c] \notin Careful,
         UNCHANGED <<modelId, heap, target>>,
         NEW p, pc' = [pc EXCEPT ![c] = p],
         NEW u, uses' = [uses EXCEPT ![c] = u]
  PROVE  UNCHANGED Contract!vars
  BY DEF Contract!vars, stageBar, stateBar, onBar, byBar, TypeOK, JsTypeOK

\* A step of a call is a step of its state in the contract.
LEMMA StateStep ==
  ASSUME TypeOK, NEW c \in Calls, target[c] \in Careful, UNCHANGED target, NEW p,
         pc' = [pc EXCEPT ![c] = p]
  PROVE  stateBar' = [stateBar EXCEPT ![c] = stateOf(p)] /\ stateBar[c] = stateOf(pc[c])
  BY DEF stateBar, TypeOK, JsTypeOK

\* The contract does not tell a promise that settled from one that is about to.
LEMMA SettleStutters ==
  ASSUME IInv, NEW c \in Calls, Settle(c), UNCHANGED nativeVars
  PROVE  UNCHANGED Contract!vars
<1>1. CASE target[c] \in Careful
  <2>1. stateOf("resolved") = stateOf("answered") /\ stateOf("rejected") = stateOf("failed")
    BY DEF stateOf
  <2>2. stateBar' = [stateBar EXCEPT ![c] = stateBar[c]]
    BY <1>1, <2>1, StateStep DEF IInv, Settle
  <2>3. stateBar' = stateBar
    BY <2>2 DEF stateBar
  <2> QED
    BY <2>3 DEF Contract!vars, stageBar, onBar, byBar, Settle, nativeVars
<1>2. CASE target[c] \notin Careful
  <2>1. stateBar' = stateBar
    BY <1>2 DEF stateBar, Settle, IInv, TypeOK, JsTypeOK
  <2> QED
    BY <2>1 DEF Contract!vars, stageBar, onBar, byBar, Settle, nativeVars
<1> QED
  BY <1>1, <1>2

\* A call on a loaded instance is the contract's Prompt, if it is used with care.
LEMMA PromptCallRefines ==
  ASSUME IInv, NEW c \in Calls, NEW i \in Careful, PromptCall(c, i), UNCHANGED nativeVars
  PROVE  Contract!Prompt(c, i)
<1> USE InstancesAssumption, CarefulAssumption, AddrsAssumption
    DEF IInv, TypeOK, JsTypeOK, PromptCall
<1>1. stateBar' = [stateBar EXCEPT ![c] = "pending"] /\ stateBar[c] = "unused"
  <2>1. stateOf("queued") = "pending" /\ stateOf("unused") = "unused"
    BY DEF stateOf
  <2>2. target'[c] = i /\ pc'[c] = "queued" /\ target[c] \notin Careful
    BY DEF CallsAgree
  <2>3. ASSUME NEW d \in Calls, d # c PROVE target'[d] = target[d] /\ pc'[d] = pc[d]
    BY <2>3
  <2> QED
    BY <2>1, <2>2, <2>3 DEF stateBar
<1>2. stageBar' = stageBar /\ stageBar[i] # "new"
  BY DEF stageBar, nativeVars, HandlesAgree
<1>3. onBar' = [onBar EXCEPT ![c] = i]
  BY DEF onBar
<1>4. byBar' = byBar
  BY DEF byBar, CallsAgree
<1> QED
  BY <1>1, <1>2, <1>3, <1>4 DEF Contract!Prompt

\* And is not seen, if it is not.
LEMMA PromptCallStutters ==
  ASSUME IInv, NEW c \in Calls, NEW i \in Instances \ Careful, PromptCall(c, i),
         UNCHANGED nativeVars
  PROVE  UNCHANGED Contract!vars
<1> USE InstancesAssumption, CarefulAssumption DEF IInv, TypeOK, JsTypeOK, PromptCall
<1>1. target[c] \notin Careful /\ target'[c] \notin Careful
  BY DEF CallsAgree
<1>2. ASSUME NEW d \in Calls, d # c PROVE target'[d] = target[d] /\ pc'[d] = pc[d]
  BY <1>2
<1>3. stateBar' = stateBar /\ onBar' = onBar /\ byBar' = byBar
  BY <1>1, <1>2 DEF stateBar, onBar, byBar
<1> QED
  BY <1>3 DEF Contract!vars, stageBar, nativeVars

\* The handle's making is the contract's Load, or is not seen.
LEMMA NewHandleRefines ==
  ASSUME IInv, NEW i \in Instances, NewHandle(i)
  PROVE  (i \in Careful /\ Contract!Load(i)) \/ UNCHANGED Contract!vars
<1> USE AddrsAssumption, CarefulAssumption DEF IInv, TypeOK, JsTypeOK, promptVars
<1>1. PICK a \in Addrs : LoadReturns(i, a) /\ UNCHANGED heap
  BY DEF NewHandle
<1>2. UNCHANGED <<stateBar, onBar, byBar>>
  BY <1>1 DEF stateBar, onBar, byBar, LoadReturns
<1>3. CASE i \in Careful
  <2>1. stageBar[i] = "new" /\ i \in heap
    BY <1>3 DEF stageBar, NewHandle, HandlesAgree, HeapAgrees
  <2>2. stageBar' = [stageBar EXCEPT ![i] = "loaded"]
    BY <1>1, <1>3, <2>1 DEF stageBar, LoadReturns
  <2> QED
    BY <1>2, <1>3, <2>1, <2>2 DEF Contract!Load
<1>4. CASE i \notin Careful
  <2>1. stageBar' = stageBar
    BY <1>1, <1>4 DEF stageBar, LoadReturns
  <2> QED
    BY <1>2, <2>1 DEF Contract!vars
<1> QED
  BY <1>3, <1>4

\* A load that has no handle yet is not seen.
LEMMA LoadModelStutters ==
  ASSUME IInv, NEW i \in Instances, LoadModel(i)
  PROVE  UNCHANGED Contract!vars
<1> USE CarefulAssumption DEF IInv, TypeOK, JsTypeOK, LoadModel, promptVars
<1>1. modelId[i] = 0
  BY DEF HandlesAgree
<1>2. stageBar' = stageBar
  BY <1>1 DEF stageBar
<1> QED
  BY <1>2 DEF Contract!vars, stateBar, onBar, byBar

\* llama_model_free of the instance's own model is the contract's Unload: no prompt
\* is running on the model.  Of an instance used without care it is not seen.
LEMMA FreeModelRefines ==
  ASSUME IInv, CarefulInv, ~again', NEW i \in Instances, FreeModel(i)
  PROVE  (i \in Careful /\ Contract!Unload(i)) \/ UNCHANGED Contract!vars
<1> USE AddrsAssumption, CarefulAssumption DEF IInv, TypeOK, JsTypeOK, FreeModel, promptVars
<1>1. ~again /\ Own(i) /\ modelId[i] \in Addrs /\ life[i] = "unloaded"
  BY DEF Inside, OpAgrees, HandlesAgree
<1>2. heap' = heap \ {i} /\ i \in heap
  BY <1>1 DEF Own, Live, HeapAgrees, HandleAlive, Inside
<1>3. UNCHANGED <<stateBar, onBar, byBar>>
  BY DEF stateBar, onBar, byBar
<1>4. CASE i \in Careful
  <2>1. stageBar[i] = "loaded" /\ stageBar' = [stageBar EXCEPT ![i] = "gone"]
    BY <1>1, <1>2, <1>4 DEF stageBar
  <2>2. ASSUME NEW c \in Calls, stateBar[c] = "running" PROVE byBar[c] # i
    <3>1. Runs(c) /\ target[c] \in Careful
      BY <2>2 DEF stateBar, stateOf, CallPcs, Runs
    <3>2. life[target[c]] = "ready" /\ uses[c] = target[c]
      BY <1>1, <3>1 DEF CarefulInv, Pending, Runs
    <3> QED
      BY <1>1, <3>1, <3>2 DEF byBar
  <2> QED
    BY <1>3, <1>4, <2>1, <2>2 DEF Contract!Unload
<1>5. CASE i \notin Careful
  <2>1. stageBar' = stageBar
    BY <1>2, <1>5 DEF stageBar
  <2> QED
    BY <1>3, <2>1 DEF Contract!vars
<1> QED
  BY <1>4, <1>5

\* Reading the handle is the contract's Start, and reading it again is not seen.
LEMMA PromptReadRefines ==
  ASSUME IInv, CarefulInv, ~again, NEW c \in Calls, target[c] \in Careful, PromptRead(c)
  PROVE  Contract!Start(c) \/ UNCHANGED Contract!vars
<1> USE CarefulAssumption DEF IInv, TypeOK, JsTypeOK, PromptRead, Reads
<1>1. target[c] \in Instances /\ life[target[c]] = "ready"
  BY DEF CarefulInv, Pending
<1>2. Own(target[c]) /\ target[c] \in heap
  BY AwaitedHasModel
<1>3. PICK p \in {"reading", "using"} : pc' = [pc EXCEPT ![c] = p]
  OBVIOUS
<1>4. stateBar' = [stateBar EXCEPT ![c] = "running"] /\ stateBar[c] = stateOf(pc[c])
  <2>1. stateOf(p) = "running"
    BY DEF stateOf
  <2>2. TypeOK /\ target[c] \in Careful /\ UNCHANGED target
    OBVIOUS
  <2>3. stateBar' = [stateBar EXCEPT ![c] = stateOf(p)] /\ stateBar[c] = stateOf(pc[c])
    BY ONLY <1>3, <2>2, StateStep
  <2> QED
    BY ONLY <2>1, <2>3
<1>5. stageBar' = stageBar /\ onBar' = onBar /\ onBar[c] = target[c]
  BY DEF stageBar, onBar
<1>6. stageBar[target[c]] = "loaded"
  BY <1>1, <1>2, AddrsAssumption DEF stageBar, HandlesAgree
<1>7. byBar' = [byBar EXCEPT ![c] = target[c]]
  BY <1>2 DEF byBar, Own
<1>8. CASE pc[c] = "queued"
  <2>1. stateBar[c] = "pending"
    BY <1>4, <1>8 DEF stateOf
  <2> QED
    BY <1>4, <1>5, <1>6, <1>7, <2>1 DEF Contract!Start
<1>9. CASE pc[c] = "reading"
  <2>1. stateBar[c] = "running" /\ byBar[c] = target[c]
    BY <1>4, <1>9 DEF stateOf, byBar, CarefulInv, Runs
  <2>2. stateBar' = stateBar /\ byBar' = byBar
    BY <1>4, <1>7, <2>1 DEF stateBar, byBar
  <2> QED
    BY <1>5, <2>2 DEF Contract!vars
<1> QED
  BY <1>8, <1>9

\* The end of a generation is the contract's Finish.
LEMMA PromptEndRefines ==
  ASSUME IInv, NEW c \in Calls, target[c] \in Careful, PromptEnd(c)
  PROVE  Contract!Finish(c)
<1> USE CarefulAssumption DEF IInv, TypeOK, JsTypeOK, PromptEnd, Answer, Fail, Reject
<1>1. pc[c] \in {"reading", "using"}
  BY DEF Runs
<1>2. stateBar[c] = "running"
  BY <1>1 DEF stateBar, stateOf
<1>3. \E r \in {"answered", "rejected"} : stateBar' = [stateBar EXCEPT ![c] = r]
  <2>1. stateOf("answered") = "answered" /\ stateOf("failed") = "rejected"
    BY DEF stateOf
  <2> QED
    BY <2>1, StateStep
<1>4. stageBar' = stageBar /\ onBar' = onBar
  BY DEF stageBar, onBar
<1>5. byBar' = [byBar EXCEPT ![c] = NoInst]
  BY DEF byBar
<1> QED
  BY <1>2, <1>3, <1>4, <1>5 DEF Contract!Finish

\* A pool thread's step is the contract's Start or Finish of its call, or is not seen.
LEMMA PoolStepRefines ==
  ASSUME IInv, CarefulInv, ~again, NEW c \in Calls, PoolStep(c)
  PROVE  Contract!Progress(c) \/ UNCHANGED Contract!vars
<1>1. CASE target[c] \in Careful
  <2>1. CASE PromptRead(c)
    BY <1>1, <2>1, PromptReadRefines DEF Contract!Progress
  <2>2. CASE PromptDangling(c)
    BY <1>1, <2>2, AwaitedHasModel DEF PromptDangling, Dangling, Own
  <2>3. CASE PromptEnd(c)
    BY <1>1, <2>3, PromptEndRefines DEF Contract!Progress
  <2> QED
    BY <2>1, <2>2, <2>3 DEF PoolStep
<1>2. CASE target[c] \notin Careful
  <2>1. UNCHANGED <<modelId, heap, target>>
    BY DEF PoolStep, PromptRead, PromptDangling, PromptEnd, Reads, Reject, Dangling, Answer,
           Fail, nativeVars
  <2>2. \E p, u : pc' = [pc EXCEPT ![c] = p] /\ uses' = [uses EXCEPT ![c] = u]
    BY DEF PoolStep, PromptRead, PromptDangling, PromptEnd, Reads, Reject, Answer, Fail
  <2> QED
    BY <1>2, <2>1, <2>2, OthersStutter DEF IInv
<1> QED
  BY <1>1, <1>2

\* Until an instance is unloaded a second time, every step of the bridge is a step of
\* the contract with the instances that are used with care, or leaves it as it is.
LEMMA StepRefines ==
  IInv /\ CarefulInv /\ [Next]_vars => [~again' => Contract!Next]_Contract!vars
<1> SUFFICES ASSUME IInv, CarefulInv, [Next]_vars, ~again'
             PROVE  Contract!Next \/ UNCHANGED Contract!vars
  OBVIOUS
<1>0. ~again
  BY AgainStays
<1>1. CASE JsStep
  <2>1. ASSUME NEW i \in Instances, InitUnresolved(i) \/ InitCall(i) \/ UnloadCall(i)
        PROVE  UNCHANGED Contract!vars
    BY <1>1, <2>1, Stutter
    DEF JsStep, InitUnresolved, InitCall, UnloadCall, promptVars, nativeVars
  <2>2. ASSUME NEW c \in Calls, Settle(c) PROVE UNCHANGED Contract!vars
    BY <1>1, <2>2, SettleStutters DEF JsStep
  <2>3. ASSUME NEW c \in Calls, NEW i \in Instances, PromptCall(c, i)
        PROVE  Contract!Next \/ UNCHANGED Contract!vars
    BY <1>1, <2>3, PromptCallRefines, PromptCallStutters DEF JsStep, Contract!Next
  <2> QED
    BY <1>1, <2>1, <2>2, <2>3 DEF JsStep, JsNext
<1>2. ASSUME NEW i \in Instances, NativeStep(i)
      PROVE  Contract!Next \/ UNCHANGED Contract!vars
  <2>1. CASE NewHandle(i) \/ FreeModel(i)
    BY <2>1, NewHandleRefines, FreeModelRefines DEF Contract!Next
  <2>2. CASE LoadModel(i)
    BY <2>2, LoadModelStutters
  <2>3. CASE LoadModelFails(i) \/ Warmup(i) \/ WarmupFails(i) \/ DeleteHandle(i)
    <3>1. UNCHANGED <<modelId, heap, pc, target, uses>>
      BY <2>3
      DEF LoadModelFails, Warmup, WarmupFails, DeleteHandle, LoadThrows, WarmupReturns,
          WarmupThrows, UnloadReturns, promptVars, nativeVars
    <3> QED
      BY <3>1, Stutter
  <2>4. ~UnloadDangling(i)
    BY DEF UnloadDangling
  <2> QED
    BY <1>2, <2>1, <2>2, <2>3, <2>4 DEF NativeStep
<1>3. ASSUME NEW c \in Calls, PoolStep(c) PROVE Contract!Next \/ UNCHANGED Contract!vars
  BY <1>0, <1>3, PoolStepRefines DEF Contract!Next
<1>4. CASE UNCHANGED vars
  BY <1>4, Stutter DEF vars, jsVars
<1> QED
  BY <1>1, <1>2, <1>3, <1>4 DEF Next

LEMMA InitRefines == Init => Contract!Init
  BY InstancesAssumption, CarefulAssumption
  DEF Init, JsInit, Contract!Init, stageBar, stateBar, stateOf, onBar, byBar

\* The iOS bridge takes no step the contract does not allow with the instances that
\* are used with care, among any others and although its ids are addresses that are
\* used again, until some instance is unloaded a second time.
THEOREM KeepsContractOnceCorrect == Spec => Contract!Init /\ KeepsContractOnce
  BY InitRefines, CarefulInvariance, StepRefines, PTL DEF Spec, KeepsContractOnce

-----------------------------------------------------------------------------
(* Applications that use all their instances with care *)

AllCareful == Careful = Instances

\* Then no instance is unloaded twice and nothing that is gone is used.
CleanInv == ~ub /\ ~again

LEMMA CleanStep == ASSUME AllCareful, IInv, CarefulInv, CleanInv, [Next]_vars PROVE CleanInv'
<1> USE DEF AllCareful, CleanInv, IInv, TypeOK, JsTypeOK, nativeVars
<1>1. CASE JsStep
  BY <1>1 DEF JsStep
<1>2. ASSUME NEW i \in Instances, NativeStep(i) PROVE CleanInv'
  <2>1. CASE LoadModelFails(i) \/ LoadModel(i) \/ NewHandle(i) \/ Warmup(i) \/ WarmupFails(i)
             \/ DeleteHandle(i)
    BY <2>1 DEF LoadModelFails, LoadModel, NewHandle, Warmup, WarmupFails, DeleteHandle
  <2>2. CASE FreeModel(i) \/ UnloadDangling(i)
    <3>1. Own(i)
      BY <2>2 DEF FreeModel, UnloadDangling, Inside, CarefulInv
    <3> QED
      BY <2>2, <3>1 DEF FreeModel, UnloadDangling, Dangling, Own
  <2> QED
    BY <1>2, <2>1, <2>2 DEF NativeStep
<1>3. ASSUME NEW c \in Calls, PoolStep(c) PROVE CleanInv'
  <2>1. target[c] \in Careful /\ pc[c] \in {"queued", "reading", "using"}
    BY <1>3 DEF PoolStep, PromptRead, PromptDangling, PromptEnd, Answer, Fail, Runs, CallsAgree
  <2>2. Own(target[c]) /\ target[c] \in heap
    BY <2>1, AwaitedHasModel
  <2>3. ~UsesFreed(c)
    BY <2>1, <2>2 DEF CarefulInv, UsesFreed, Runs, CallsAgree
  <2> QED
    BY <1>3, <2>2, <2>3
    DEF PoolStep, PromptRead, PromptDangling, PromptEnd, Dangling, Own, Answer, Fail
<1>4. CASE UNCHANGED vars
  BY <1>4 DEF vars
<1> QED
  BY <1>1, <1>2, <1>3, <1>4 DEF Next

LEMMA CleanInvariance == AllCareful /\ Spec => [](AllCareful /\ IInv /\ CarefulInv /\ CleanInv)
<1>1. Init => CleanInv
  BY DEF Init, CleanInv
<1>2. AllCareful /\ IInv /\ CarefulInv /\ CleanInv /\ [Next]_vars => (AllCareful /\ CleanInv)'
  BY CleanStep DEF AllCareful
<1> QED
  BY <1>1, <1>2, CarefulInvariance, PTL DEF Spec

\* Every prompt of such an application runs on its own instance's model.
THEOREM OwnModelCorrect == AllCareful /\ Spec => []OwnModel
<1>1. AllCareful /\ IInv /\ CarefulInv /\ CleanInv => OwnModel
  BY DEF AllCareful, IInv, CallsAgree, CarefulInv, CleanInv, OwnModel, Runs, TypeOK,
         JsTypeOK
<1> QED
  BY <1>1, CleanInvariance, PTL

\* The model a pool thread works on is there until it is done.
THEOREM UsingAliveCorrect == AllCareful /\ Spec => []UsingAlive
<1>1. CleanInv /\ CarefulIsolated /\ OwnModel /\ AllCareful /\ IInv => UsingAlive
  BY DEF CleanInv, CarefulIsolated, OwnModel, AllCareful, UsingAlive, IInv, CallsAgree, Runs,
         TypeOK, JsTypeOK
<1> QED
  BY <1>1, CleanInvariance, CarefulIsolatedCorrect, OwnModelCorrect, PTL

\* Such an application never makes the bridge use what was deleted or freed.
THEOREM NoDanglingCorrect == AllCareful /\ Spec => []NoDangling
<1>1. CleanInv => NoDangling
  BY DEF CleanInv, NoDangling
<1> QED
  BY <1>1, CleanInvariance, PTL

\* To such an application the iOS bridge is the contract, but for its fairness.
THEOREM ContractCorrect ==
  AllCareful /\ Spec => Contract!Init /\ [][Contract!Next]_Contract!vars
<1>1. CleanInv' /\ [~again' => Contract!Next]_Contract!vars => [Contract!Next]_Contract!vars
  BY DEF CleanInv
<1> QED
  BY <1>1, CleanInvariance, KeepsContractOnceCorrect, PTL DEF KeepsContractOnce
=============================================================================
