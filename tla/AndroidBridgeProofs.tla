-------------------------- MODULE AndroidBridgeProofs --------------------------
(***************************************************************************)
(* What holds of the Android bridge for any number of instances, calls and *)
(* any order of init, prompt and unload.                                   *)
(***************************************************************************)
EXTENDS AndroidBridge, TLAPS

\* The strengthened invariant holds before anything is loaded.
LEMMA InitIInv == Init => IInv
<1> SUFFICES ASSUME Init PROVE IInv
  OBVIOUS
<1> USE InstancesAssumption DEF Init, JsInit
<1>1. TypeOK
  <2>1. JsTypeOK
    BY DEF JsTypeOK, Ops, Lives, CallPcs, Reasons
  <2>2. /\ models \in [DOMAIN models -> Nat \ {0}] /\ DOMAIN models \subseteq 1 .. 0
        /\ handles \in [DOMAIN handles -> Instances] /\ DOMAIN handles \subseteq 1 .. 0
    OBVIOUS
  <2>3. held \in [Calls -> Nat] /\ heap \subseteq Instances
    OBVIOUS
  <2>4. ub \in BOOLEAN
    OBVIOUS
  <2>5. next_model_id \in Nat \ {0} /\ next_model_id - 1 = 0
    OBVIOUS
  <2> QED
    BY ONLY <2>1, <2>2, <2>3, <2>4, <2>5 DEF TypeOK
<1>2. OpAgrees /\ IdsAgree /\ HeapAgrees /\ FreedOnce
  BY DEF OpAgrees, IdsAgree, HeapAgrees, FreedOnce, RegistryAlive, Inside
<1>3. CallsAgree
  BY DEF CallsAgree, OwnModel, NotLoadedIsTrue, Runs
<1> QED
  BY <1>1, <1>2, <1>3 DEF IInv

-----------------------------------------------------------------------------
(* Type correctness *)

\* Every step of the JavaScript thread, the native call it is in, or a pool
\* thread keeps each variable in its range.
LEMMA TypeStep == TypeOK /\ [Next]_vars => TypeOK'
<1> SUFFICES ASSUME TypeOK, [Next]_vars PROVE TypeOK'
  OBVIOUS
<1> USE InstancesAssumption
    DEF TypeOK, JsTypeOK, Ops, Lives, CallPcs, Reasons, promptVars, nativeVars
<1>1. CASE JsStep
  <2>1. ASSUME NEW i \in Instances, InitUnresolved(i) \/ InitCall(i) \/ UnloadCall(i)
        PROVE  TypeOK'
    BY <1>1, <2>1 DEF JsStep, InitUnresolved, InitCall, UnloadCall, Enter
  <2>2. ASSUME NEW c \in Calls, Settle(c) PROVE TypeOK'
    BY <1>1, <2>2 DEF JsStep, Settle
  <2>3. ASSUME NEW c \in Calls, NEW i \in Instances, PromptCall(c, i) PROVE TypeOK'
    BY <1>1, <2>3 DEF JsStep, PromptCall
  <2> QED
    BY <1>1, <2>1, <2>2, <2>3 DEF JsStep, JsNext
<1>2. ASSUME NEW i \in Instances, NativeStep(i) PROVE TypeOK'
  <2>1. CASE LoadModelFails(i)
    BY <2>1 DEF LoadModelFails, LoadThrows, Return
  <2>2. CASE LoadModel(i)
    BY <2>2 DEF LoadModel, Enter
  <2>3. CASE RegisterModel(i)
    BY <2>3 DEF RegisterModel, MakeHandle, Emplace, LoadReturns, Enter
  <2>4. CASE Warmup(i)
    BY <2>4 DEF Warmup, WarmupReturns, Return
  <2>5. CASE WarmupFails(i)
    BY <2>5 DEF WarmupFails, WarmupThrows, Return
  <2>6. CASE UnloadAbsent(i)
    BY <2>6 DEF UnloadAbsent, UnloadReturns, Return
  <2>7. CASE EraseModel(i)
    BY <2>7 DEF EraseModel, Takes, Live, Enter
  <2>8. CASE FreeModel(i)
    BY <2>8 DEF FreeModel, DeleteHandle, UnloadReturns, Return
  <2> QED
    BY <1>2, <2>1, <2>2, <2>3, <2>4, <2>5, <2>6, <2>7, <2>8 DEF NativeStep
<1>3. ASSUME NEW c \in Calls, PoolStep(c) PROVE TypeOK'
  <2>1. CASE PromptFind(c)
    BY <2>1 DEF PromptFind, find_model
  <2>2. CASE PromptNotLoaded(c)
    BY <2>2 DEF PromptNotLoaded, Reject
  <2>3. CASE PromptRead(c)
    BY <2>3 DEF PromptRead, Live, Reads, UsesFreed, KeepsPointer
  <2>4. CASE PromptDangling(c)
    <3>1. LastRead(c) \in Instances \cup {NoInst}
      BY DEF LastRead
    <3> QED
      BY <2>4, <3>1 DEF PromptDangling, Reads, Reject, KeepsPointer
  <2>5. CASE PromptEnd(c)
    BY <2>5 DEF PromptEnd, Answer, Fail, Reject, UsesFreed, KeepsPointer
  <2> QED
    BY <1>3, <2>1, <2>2, <2>3, <2>4, <2>5 DEF PoolStep
<1>4. CASE UNCHANGED vars
  BY <1>4 DEF vars, jsVars
<1> QED
  BY <1>1, <1>2, <1>3, <1>4 DEF Next

\* Every variable of the bridge stays in its range, for any number of instances
\* and calls.
THEOREM TypeCorrect == Spec => []TypeOK
<1>1. Init => TypeOK
  BY InitIInv DEF IInv
<1> QED
  BY <1>1, TypeStep, PTL DEF Spec

-----------------------------------------------------------------------------
(* The strengthened invariant, action by action *)

\* init() that does not resolve its asset touches nothing native.
LEMMA InitUnresolvedKeeps ==
  ASSUME IInv, TypeOK', NEW i \in Instances, InitUnresolved(i), UNCHANGED nativeVars
  PROVE  IInv'
<1> USE InstancesAssumption
    DEF OpAgrees, IdsAgree, HeapAgrees, FreedOnce, CallsAgree, RegistryAlive, OwnModel,
        NotLoadedIsTrue, Inside, Live, Runs, TypeOK, JsTypeOK, Ops, Lives, CallPcs, Reasons,
        promptVars, nativeVars
<1>1. OpAgrees'
  BY DEF IInv, InitUnresolved
<1>2. IdsAgree'
  BY DEF IInv, InitUnresolved
<1>3. HeapAgrees'
  BY DEF IInv, InitUnresolved
<1>4. FreedOnce'
  BY DEF IInv, InitUnresolved
<1>5. CallsAgree'
  BY DEF IInv, InitUnresolved
<1> QED
  BY <1>1, <1>2, <1>3, <1>4, <1>5 DEF IInv

\* Entering the load gives the JavaScript thread its operation.
LEMMA InitCallKeeps ==
  ASSUME IInv, TypeOK', NEW i \in Instances, InitCall(i), UNCHANGED nativeVars
  PROVE  IInv'
<1> USE InstancesAssumption
    DEF OpAgrees, IdsAgree, HeapAgrees, FreedOnce, CallsAgree, RegistryAlive, OwnModel,
        NotLoadedIsTrue, Inside, Live, Runs, TypeOK, JsTypeOK, Ops, Lives, CallPcs, Reasons,
        promptVars, nativeVars
<1>1. OpAgrees'
  BY DEF IInv, InitCall, Enter
<1>2. IdsAgree'
  BY DEF IInv, InitCall, Enter
<1>3. HeapAgrees'
  BY DEF IInv, InitCall, Enter
<1>4. FreedOnce'
  BY DEF IInv, InitCall, Enter
<1>5. CallsAgree'
  BY DEF IInv, InitCall, Enter
<1> QED
  BY <1>1, <1>2, <1>3, <1>4, <1>5 DEF IInv

\* Entering the unload marks the instance before its id goes.
LEMMA UnloadCallKeeps ==
  ASSUME IInv, TypeOK', NEW i \in Instances, UnloadCall(i), UNCHANGED nativeVars
  PROVE  IInv'
<1> USE InstancesAssumption
    DEF OpAgrees, IdsAgree, HeapAgrees, FreedOnce, CallsAgree, RegistryAlive, OwnModel,
        NotLoadedIsTrue, Inside, Live, Runs, TypeOK, JsTypeOK, Ops, Lives, CallPcs, Reasons,
        promptVars, nativeVars
<1>1. OpAgrees'
  BY DEF IInv, UnloadCall, Enter
<1>2. IdsAgree'
  BY DEF IInv, UnloadCall, Enter
<1>3. HeapAgrees'
  BY DEF IInv, UnloadCall, Enter
<1>4. FreedOnce'
  BY DEF IInv, UnloadCall, Enter
<1>5. CallsAgree'
  BY DEF IInv, UnloadCall, Enter
<1> QED
  BY <1>1, <1>2, <1>3, <1>4, <1>5 DEF IInv

\* A settled promise keeps its target and its reason.
LEMMA SettleKeeps ==
  ASSUME IInv, TypeOK', NEW c \in Calls, Settle(c), UNCHANGED nativeVars
  PROVE  IInv'
<1> USE InstancesAssumption
    DEF OpAgrees, IdsAgree, HeapAgrees, FreedOnce, CallsAgree, RegistryAlive, OwnModel,
        NotLoadedIsTrue, Inside, Live, Runs, TypeOK, JsTypeOK, Ops, Lives, CallPcs, Reasons,
        promptVars, nativeVars
<1>1. OpAgrees'
  BY DEF IInv, Settle
<1>2. IdsAgree'
  BY DEF IInv, Settle
<1>3. HeapAgrees'
  BY DEF IInv, Settle
<1>4. FreedOnce'
  BY DEF IInv, Settle
<1>5. CallsAgree'
  BY DEF IInv, Settle
<1> QED
  BY <1>1, <1>2, <1>3, <1>4, <1>5 DEF IInv

\* A prompt is only ever made on an instance that was loaded.
LEMMA PromptCallKeeps ==
  ASSUME IInv, TypeOK', NEW c \in Calls, NEW i \in Instances, PromptCall(c, i), UNCHANGED nativeVars
  PROVE  IInv'
<1> USE InstancesAssumption
    DEF OpAgrees, IdsAgree, HeapAgrees, FreedOnce, CallsAgree, RegistryAlive, OwnModel,
        NotLoadedIsTrue, Inside, Live, Runs, TypeOK, JsTypeOK, Ops, Lives, CallPcs, Reasons,
        promptVars, nativeVars
<1>1. OpAgrees'
  BY DEF IInv, PromptCall
<1>2. IdsAgree'
  BY DEF IInv, PromptCall
<1>3. HeapAgrees'
  BY DEF IInv, PromptCall
<1>4. FreedOnce'
  BY DEF IInv, PromptCall
<1>5. CallsAgree'
  BY DEF IInv, PromptCall
<1> QED
  BY <1>1, <1>2, <1>3, <1>4, <1>5 DEF IInv

\* A load that fails leaves no id and no memory.
LEMMA LoadModelFailsKeeps ==
  ASSUME IInv, TypeOK', NEW i \in Instances, LoadModelFails(i)
  PROVE  IInv'
<1> USE InstancesAssumption
    DEF OpAgrees, IdsAgree, HeapAgrees, FreedOnce, CallsAgree, RegistryAlive, OwnModel,
        NotLoadedIsTrue, Inside, Live, Runs, TypeOK, JsTypeOK, Ops, Lives, CallPcs, Reasons,
        promptVars, nativeVars
<1>1. OpAgrees'
  BY DEF IInv, LoadModelFails, LoadThrows, Return
<1>2. IdsAgree'
  BY DEF IInv, LoadModelFails, LoadThrows, Return
<1>3. HeapAgrees'
  BY DEF IInv, LoadModelFails, LoadThrows, Return
<1>4. FreedOnce'
  BY DEF IInv, LoadModelFails, LoadThrows, Return
<1>5. CallsAgree'
  BY DEF IInv, LoadModelFails, LoadThrows, Return
<1> QED
  BY <1>1, <1>2, <1>3, <1>4, <1>5 DEF IInv

\* The model is allocated before it has an id.
LEMMA LoadModelKeeps ==
  ASSUME IInv, TypeOK', NEW i \in Instances, LoadModel(i)
  PROVE  IInv'
<1> USE InstancesAssumption
    DEF OpAgrees, IdsAgree, HeapAgrees, FreedOnce, CallsAgree, RegistryAlive, OwnModel,
        NotLoadedIsTrue, Inside, Live, Runs, TypeOK, JsTypeOK, Ops, Lives, CallPcs, Reasons,
        promptVars, nativeVars
<1>1. OpAgrees'
  BY DEF IInv, LoadModel, Enter
<1>2. IdsAgree'
  BY DEF IInv, LoadModel, Enter
<1>3. HeapAgrees'
  BY DEF IInv, LoadModel, Enter
<1>4. FreedOnce'
  BY DEF IInv, LoadModel, Enter
<1>5. CallsAgree'
  BY DEF IInv, LoadModel, Enter
<1> QED
  BY <1>1, <1>2, <1>3, <1>4, <1>5 DEF IInv

\* The new id is above every id given out, so it denotes this instance alone.
LEMMA RegisterModelKeeps ==
  ASSUME IInv, TypeOK', NEW i \in Instances, RegisterModel(i)
  PROVE  IInv'
<1> USE InstancesAssumption
    DEF OpAgrees, IdsAgree, HeapAgrees, FreedOnce, CallsAgree, RegistryAlive, OwnModel,
        NotLoadedIsTrue, Inside, Live, Runs, TypeOK, JsTypeOK, Ops, Lives, CallPcs, Reasons,
        promptVars, nativeVars
<1>0. PICK a \in 1 .. next_model_id :
        /\ MakeHandle(i, a)
        /\ models' = [id \in DOMAIN models \cup {next_model_id} |->
                        IF id = next_model_id THEN a ELSE models[id]]
  BY DEF IInv, RegisterModel, Emplace
<1>1. OpAgrees'
  BY <1>0 DEF IInv, RegisterModel, MakeHandle, LoadReturns, Enter
<1>2. IdsAgree'
  BY <1>0 DEF IInv, RegisterModel, MakeHandle, LoadReturns, Enter
<1>3. HeapAgrees'
  BY <1>0 DEF IInv, RegisterModel, MakeHandle, LoadReturns, Enter
<1>4. FreedOnce'
  BY <1>0 DEF IInv, RegisterModel, MakeHandle, LoadReturns, Enter
<1>5. CallsAgree'
  BY <1>0 DEF IInv, RegisterModel, MakeHandle, LoadReturns, Enter
<1> QED
  BY <1>1, <1>2, <1>3, <1>4, <1>5 DEF IInv

\* A warm instance has its id in the registry.
LEMMA WarmupKeeps ==
  ASSUME IInv, TypeOK', NEW i \in Instances, Warmup(i)
  PROVE  IInv'
<1> USE InstancesAssumption
    DEF OpAgrees, IdsAgree, HeapAgrees, FreedOnce, CallsAgree, RegistryAlive, OwnModel,
        NotLoadedIsTrue, Inside, Live, Runs, TypeOK, JsTypeOK, Ops, Lives, CallPcs, Reasons,
        promptVars, nativeVars
<1>1. OpAgrees'
  BY DEF IInv, Warmup, WarmupReturns, Return
<1>2. IdsAgree'
  BY DEF IInv, Warmup, WarmupReturns, Return
<1>3. HeapAgrees'
  BY DEF IInv, Warmup, WarmupReturns, Return
<1>4. FreedOnce'
  BY DEF IInv, Warmup, WarmupReturns, Return
<1>5. CallsAgree'
  BY DEF IInv, Warmup, WarmupReturns, Return
<1> QED
  BY <1>1, <1>2, <1>3, <1>4, <1>5 DEF IInv

\* A failed warmup leaves a registered model behind, which stays consistent.
LEMMA WarmupFailsKeeps ==
  ASSUME IInv, TypeOK', NEW i \in Instances, WarmupFails(i)
  PROVE  IInv'
<1> USE InstancesAssumption
    DEF OpAgrees, IdsAgree, HeapAgrees, FreedOnce, CallsAgree, RegistryAlive, OwnModel,
        NotLoadedIsTrue, Inside, Live, Runs, TypeOK, JsTypeOK, Ops, Lives, CallPcs, Reasons,
        promptVars, nativeVars
<1>1. OpAgrees'
  BY DEF IInv, WarmupFails, WarmupThrows, Return
<1>2. IdsAgree'
  BY DEF IInv, WarmupFails, WarmupThrows, Return
<1>3. HeapAgrees'
  BY DEF IInv, WarmupFails, WarmupThrows, Return
<1>4. FreedOnce'
  BY DEF IInv, WarmupFails, WarmupThrows, Return
<1>5. CallsAgree'
  BY DEF IInv, WarmupFails, WarmupThrows, Return
<1> QED
  BY <1>1, <1>2, <1>3, <1>4, <1>5 DEF IInv

\* A second unload finds nothing and changes nothing.
LEMMA UnloadAbsentKeeps ==
  ASSUME IInv, TypeOK', NEW i \in Instances, UnloadAbsent(i)
  PROVE  IInv'
<1> USE InstancesAssumption
    DEF OpAgrees, IdsAgree, HeapAgrees, FreedOnce, CallsAgree, RegistryAlive, OwnModel,
        NotLoadedIsTrue, Inside, Live, Runs, TypeOK, JsTypeOK, Ops, Lives, CallPcs, Reasons,
        promptVars, nativeVars
<1>1. OpAgrees'
  BY DEF IInv, UnloadAbsent, UnloadReturns, Return
<1>2. IdsAgree'
  BY DEF IInv, UnloadAbsent, UnloadReturns, Return
<1>3. HeapAgrees'
  BY DEF IInv, UnloadAbsent, UnloadReturns, Return
<1>4. FreedOnce'
  BY DEF IInv, UnloadAbsent, UnloadReturns, Return
<1>5. CallsAgree'
  BY DEF IInv, UnloadAbsent, UnloadReturns, Return
<1> QED
  BY <1>1, <1>2, <1>3, <1>4, <1>5 DEF IInv

\* The id goes first; the handle taken is the instance's own.
LEMMA EraseModelKeeps ==
  ASSUME IInv, TypeOK', NEW i \in Instances, EraseModel(i)
  PROVE  IInv'
<1> USE InstancesAssumption
    DEF OpAgrees, IdsAgree, HeapAgrees, FreedOnce, CallsAgree, RegistryAlive, OwnModel,
        NotLoadedIsTrue, Inside, Live, Runs, TypeOK, JsTypeOK, Ops, Lives, CallPcs, Reasons,
        promptVars, nativeVars
<1>1. OpAgrees'
  BY DEF IInv, EraseModel, Takes, Enter
<1>2. IdsAgree'
  BY DEF IInv, EraseModel, Takes, Enter
<1>3. HeapAgrees'
  BY DEF IInv, EraseModel, Takes, Enter
<1>4. FreedOnce'
  BY DEF IInv, EraseModel, Takes, Enter
<1>5. CallsAgree'
  BY DEF IInv, EraseModel, Takes, Enter
<1> QED
  BY <1>1, <1>2, <1>3, <1>4, <1>5 DEF IInv

\* The memory goes when no id leads to it any more.
LEMMA FreeModelKeeps ==
  ASSUME IInv, TypeOK', NEW i \in Instances, FreeModel(i)
  PROVE  IInv'
<1> USE InstancesAssumption
    DEF OpAgrees, IdsAgree, HeapAgrees, FreedOnce, CallsAgree, RegistryAlive, OwnModel,
        NotLoadedIsTrue, Inside, Live, Runs, TypeOK, JsTypeOK, Ops, Lives, CallPcs, Reasons,
        promptVars, nativeVars
<1>1. OpAgrees'
  BY DEF IInv, FreeModel, DeleteHandle, UnloadReturns, Return
<1>2. IdsAgree'
  BY DEF IInv, FreeModel, DeleteHandle, UnloadReturns, Return
<1>3. HeapAgrees'
  BY DEF IInv, FreeModel, DeleteHandle, UnloadReturns, Return
<1>4. FreedOnce'
  BY DEF IInv, FreeModel, DeleteHandle, UnloadReturns, Return
<1>5. CallsAgree'
  BY DEF IInv, FreeModel, DeleteHandle, UnloadReturns, Return
<1> QED
  BY <1>1, <1>2, <1>3, <1>4, <1>5 DEF IInv

\* The lookup yields the handle of the instance the prompt was made on.
LEMMA PromptFindKeeps ==
  ASSUME IInv, TypeOK', NEW c \in Calls, PromptFind(c)
  PROVE  IInv'
<1> USE InstancesAssumption
    DEF OpAgrees, IdsAgree, HeapAgrees, FreedOnce, CallsAgree, RegistryAlive, OwnModel,
        NotLoadedIsTrue, Inside, Live, Runs, TypeOK, JsTypeOK, Ops, Lives, CallPcs, Reasons,
        promptVars, nativeVars
<1>1. OpAgrees'
  BY DEF IInv, PromptFind, find_model
<1>2. IdsAgree'
  BY DEF IInv, PromptFind, find_model
<1>3. HeapAgrees'
  BY DEF IInv, PromptFind, find_model
<1>4. FreedOnce'
  BY DEF IInv, PromptFind, find_model
<1>5. CallsAgree'
  BY DEF IInv, PromptFind, find_model
<1> QED
  BY <1>1, <1>2, <1>3, <1>4, <1>5 DEF IInv

\* A lookup fails only after an unload of that instance.
LEMMA PromptNotLoadedKeeps ==
  ASSUME IInv, TypeOK', NEW c \in Calls, PromptNotLoaded(c)
  PROVE  IInv'
<1> USE InstancesAssumption
    DEF OpAgrees, IdsAgree, HeapAgrees, FreedOnce, CallsAgree, RegistryAlive, OwnModel,
        NotLoadedIsTrue, Inside, Live, Runs, TypeOK, JsTypeOK, Ops, Lives, CallPcs, Reasons,
        promptVars, nativeVars
<1>1. OpAgrees'
  BY DEF IInv, PromptNotLoaded, Reject, find_model
<1>2. IdsAgree'
  BY DEF IInv, PromptNotLoaded, Reject, find_model
<1>3. HeapAgrees'
  BY DEF IInv, PromptNotLoaded, Reject, find_model
<1>4. FreedOnce'
  BY DEF IInv, PromptNotLoaded, Reject, find_model
<1>5. CallsAgree'
  BY DEF IInv, PromptNotLoaded, Reject, find_model
<1> QED
  BY <1>1, <1>2, <1>3, <1>4, <1>5 DEF IInv

\* What is read is the instance's own model, if it was not unloaded.
LEMMA PromptReadKeeps ==
  ASSUME IInv, TypeOK', NEW c \in Calls, PromptRead(c)
  PROVE  IInv'
<1> USE InstancesAssumption
    DEF OpAgrees, IdsAgree, HeapAgrees, FreedOnce, CallsAgree, RegistryAlive, OwnModel,
        NotLoadedIsTrue, Inside, Live, Runs, TypeOK, JsTypeOK, Ops, Lives, CallPcs, Reasons,
        promptVars, nativeVars
<1>1. OpAgrees'
  BY DEF IInv, PromptRead, Reads, KeepsPointer
<1>2. IdsAgree'
  BY DEF IInv, PromptRead, Reads, KeepsPointer
<1>3. HeapAgrees'
  BY DEF IInv, PromptRead, Reads, KeepsPointer
<1>4. FreedOnce'
  BY DEF IInv, PromptRead, Reads, KeepsPointer
<1>5. CallsAgree'
  BY DEF IInv, PromptRead, Reads, KeepsPointer
<1> QED
  BY <1>1, <1>2, <1>3, <1>4, <1>5 DEF IInv

\* A handle that is gone is that of an instance that was unloaded.
LEMMA PromptDanglingKeeps ==
  ASSUME IInv, TypeOK', NEW c \in Calls, PromptDangling(c)
  PROVE  IInv'
<1> USE InstancesAssumption
    DEF OpAgrees, IdsAgree, HeapAgrees, FreedOnce, CallsAgree, RegistryAlive, OwnModel,
        NotLoadedIsTrue, Inside, Live, Runs, TypeOK, JsTypeOK, Ops, Lives, CallPcs, Reasons,
        promptVars, nativeVars
<1>1. OpAgrees'
  BY DEF IInv, PromptDangling, Reads, Reject, LastRead, KeepsPointer
<1>2. IdsAgree'
  BY DEF IInv, PromptDangling, Reads, Reject, LastRead, KeepsPointer
<1>3. HeapAgrees'
  BY DEF IInv, PromptDangling, Reads, Reject, LastRead, KeepsPointer
<1>4. FreedOnce'
  BY DEF IInv, PromptDangling, Reads, Reject, LastRead, KeepsPointer
<1>5. CallsAgree'
  BY DEF IInv, PromptDangling, Reads, Reject, LastRead, KeepsPointer
<1> QED
  BY <1>1, <1>2, <1>3, <1>4, <1>5 DEF IInv

\* The end of a prompt touches its own call only.
LEMMA PromptEndKeeps ==
  ASSUME IInv, TypeOK', NEW c \in Calls, PromptEnd(c)
  PROVE  IInv'
<1> USE InstancesAssumption
    DEF OpAgrees, IdsAgree, HeapAgrees, FreedOnce, CallsAgree, RegistryAlive, OwnModel,
        NotLoadedIsTrue, Inside, Live, Runs, TypeOK, JsTypeOK, Ops, Lives, CallPcs, Reasons,
        promptVars, nativeVars
<1>1. OpAgrees'
  BY DEF IInv, PromptEnd, KeepsPointer, Answer, Fail, Reject
<1>2. IdsAgree'
  BY DEF IInv, PromptEnd, KeepsPointer, Answer, Fail, Reject
<1>3. HeapAgrees'
  BY DEF IInv, PromptEnd, KeepsPointer, Answer, Fail, Reject
<1>4. FreedOnce'
  BY DEF IInv, PromptEnd, KeepsPointer, Answer, Fail, Reject
<1>5. CallsAgree'
  BY DEF IInv, PromptEnd, KeepsPointer, Answer, Fail, Reject
<1> QED
  BY <1>1, <1>2, <1>3, <1>4, <1>5 DEF IInv

-----------------------------------------------------------------------------
(* What follows *)

\* The strengthened invariant is kept by every step.
LEMMA IInvStep == IInv /\ [Next]_vars => IInv'
<1> SUFFICES ASSUME IInv, [Next]_vars PROVE IInv'
  OBVIOUS
<1>1. TypeOK'
  BY TypeStep DEF IInv
<1>2. CASE JsStep
  <2>1. ASSUME NEW i \in Instances, InitUnresolved(i) PROVE IInv'
    BY <1>1, <1>2, <2>1, InitUnresolvedKeeps DEF JsStep
  <2>2. ASSUME NEW i \in Instances, InitCall(i) PROVE IInv'
    BY <1>1, <1>2, <2>2, InitCallKeeps DEF JsStep
  <2>3. ASSUME NEW i \in Instances, UnloadCall(i) PROVE IInv'
    BY <1>1, <1>2, <2>3, UnloadCallKeeps DEF JsStep
  <2>4. ASSUME NEW c \in Calls, Settle(c) PROVE IInv'
    BY <1>1, <1>2, <2>4, SettleKeeps DEF JsStep
  <2>5. ASSUME NEW c \in Calls, NEW i \in Instances, PromptCall(c, i) PROVE IInv'
    BY <1>1, <1>2, <2>5, PromptCallKeeps DEF JsStep
  <2> QED
    BY <1>2, <2>1, <2>2, <2>3, <2>4, <2>5 DEF JsStep, JsNext
<1>3. ASSUME NEW i \in Instances, NativeStep(i) PROVE IInv'
  BY <1>1, <1>3, LoadModelFailsKeeps, LoadModelKeeps, RegisterModelKeeps, WarmupKeeps,
     WarmupFailsKeeps, UnloadAbsentKeeps, EraseModelKeeps, FreeModelKeeps
  DEF NativeStep
<1>4. ASSUME NEW c \in Calls, PoolStep(c) PROVE IInv'
  BY <1>1, <1>4, PromptFindKeeps, PromptNotLoadedKeeps, PromptReadKeeps,
     PromptDanglingKeeps, PromptEndKeeps
  DEF PoolStep
<1>5. CASE UNCHANGED vars
  BY <1>1, <1>5
  DEF vars, jsVars, IInv, OpAgrees, IdsAgree, HeapAgrees, FreedOnce, CallsAgree,
      RegistryAlive, OwnModel, NotLoadedIsTrue, Inside, Live, Runs
<1> QED
  BY <1>2, <1>3, <1>4, <1>5 DEF Next

\* The strengthened invariant holds in every state the bridge can reach.
THEOREM Invariance == Spec => []IInv
  BY InitIInv, IInvStep, PTL DEF Spec

\* A prompt whose instance is not unloaded has that instance's model in hand, in any
\* order of loads and unloads of the others and wherever handles are put in memory.
THEOREM OwnModelCorrect == Spec => []OwnModel
<1>1. IInv => OwnModel
  BY DEF IInv, CallsAgree
<1> QED
  BY <1>1, Invariance, PTL

\* A lookup in the registry never yields a handle to freed memory.
THEOREM RegistryAliveCorrect == Spec => []RegistryAlive
<1>1. IInv => RegistryAlive
  BY DEF IInv, HeapAgrees
<1> QED
  BY <1>1, Invariance, PTL

\* No model is freed twice, however often the application unloads.
THEOREM FreedOnceCorrect == Spec => []FreedOnce
<1>1. IInv => FreedOnce
  BY DEF IInv
<1> QED
  BY <1>1, Invariance, PTL

\* When unload() has returned, the memory is free.
THEOREM UnloadReleasesCorrect == Spec => []UnloadReleases
<1>1. IInv => UnloadReleases
  BY DEF IInv, UnloadReleases, HeapAgrees, IdsAgree, Inside
<1> QED
  BY <1>1, Invariance, PTL

\* No model is left allocated that nobody can unload, but those whose warmup failed.
THEOREM OnlyWarmupOrphansCorrect == Spec => []OnlyWarmupOrphans
<1>1. IInv => OnlyWarmupOrphans
  BY DEF IInv, OnlyWarmupOrphans, HeapAgrees, IdsAgree, Inside, TypeOK, JsTypeOK, Lives
<1> QED
  BY <1>1, Invariance, PTL

\* A prompt is told "Model is not loaded." only if its instance was unloaded.
THEOREM NotLoadedIsTrueCorrect == Spec => []NotLoadedIsTrue
<1>1. IInv => NotLoadedIsTrue
  BY DEF IInv, CallsAgree
<1> QED
  BY <1>1, Invariance, PTL

-----------------------------------------------------------------------------
(* Instances that are used with care, among others that are not *)

\* No instance that is used with care is unloaded while it has a prompt
\* outstanding.
CarefulInv ==
  \A c \in Calls : target[c] \in Careful /\ Pending(c) => life[target[c]] = "ready"

\* The prompts on an instance that is used with care find it ready at every
\* step, their own or another's.
LEMMA CarefulStep == IInv /\ CarefulInv /\ [Next]_vars => CarefulInv'
<1> SUFFICES ASSUME IInv, CarefulInv, [Next]_vars PROVE CarefulInv'
  OBVIOUS
<1> USE DEF CarefulInv, Pending, IInv, TypeOK, JsTypeOK, Lives, CallPcs, promptVars, nativeVars
<1>1. CASE JsStep
  <2>1. ASSUME NEW i \in Instances, InitUnresolved(i) \/ InitCall(i) PROVE CarefulInv'
    BY <2>1 DEF InitUnresolved, InitCall, CallsAgree
  <2>2. ASSUME NEW i \in Instances, UnloadCall(i) PROVE CarefulInv'
    BY <2>2 DEF UnloadCall, Outstanding
  <2>3. ASSUME NEW c \in Calls, Settle(c) PROVE CarefulInv'
    BY <2>3 DEF Settle
  <2>4. ASSUME NEW c \in Calls, NEW i \in Instances, PromptCall(c, i) PROVE CarefulInv'
    BY <2>4 DEF PromptCall
  <2> QED
    BY <1>1, <2>1, <2>2, <2>3, <2>4 DEF JsStep, JsNext
<1>2. ASSUME NEW i \in Instances, NativeStep(i) PROVE CarefulInv'
  <2>1. life' = life \/ (opInst = i /\ life[i] = "loading" /\ \E l \in Lives :
                          life' = [life EXCEPT ![i] = l])
    BY <1>2
    DEF NativeStep, LoadModelFails, LoadModel, RegisterModel, Warmup, WarmupFails,
        UnloadAbsent, EraseModel, FreeModel, LoadThrows, LoadReturns, WarmupReturns,
        WarmupThrows, UnloadReturns, Inside, OpAgrees
  <2>2. UNCHANGED <<pc, target>>
    BY <1>2
    DEF NativeStep, LoadModelFails, LoadModel, RegisterModel, Warmup, WarmupFails,
        UnloadAbsent, EraseModel, FreeModel, LoadThrows, LoadReturns, WarmupReturns,
        WarmupThrows, UnloadReturns
  <2> QED
    BY <2>1, <2>2 DEF CallsAgree
<1>3. ASSUME NEW c \in Calls, PoolStep(c) PROVE CarefulInv'
  BY <1>3
  DEF PoolStep, PromptFind, PromptNotLoaded, PromptRead, PromptDangling, PromptEnd, Reads,
      Reject, Answer, Fail, Runs
<1>4. CASE UNCHANGED vars
  BY <1>4 DEF vars, jsVars
<1> QED
  BY <1>1, <1>2, <1>3, <1>4 DEF Next

LEMMA InitCarefulInv == Init => CarefulInv
  BY DEF Init, JsInit, CarefulInv, Pending

\* What a pool thread has in hand, or finds, for an instance that is used with care is
\* that instance's own handle and model.
LEMMA CarefulOwn ==
  ASSUME IInv, CarefulInv, NEW c \in Calls, target[c] \in Careful
  PROVE  /\ pc[c] \in {"queued", "found", "reading", "using"} =>
              modelId[target[c]] \in DOMAIN models /\ target[c] \in heap
         /\ pc[c] \in {"found", "reading"} =>
              Live(held[c]) /\ handles[held[c]] = target[c]
         /\ Runs(c) => uses[c] = target[c]
<1> USE CarefulAssumption DEF IInv, CarefulInv, Pending, TypeOK, JsTypeOK
<1>1. CASE pc[c] \in {"queued", "found", "reading", "using"}
  <2>1. life[target[c]] = "ready" /\ target[c] \in Instances
    BY <1>1
  <2>2. modelId[target[c]] \in DOMAIN models /\ target[c] \in heap
    BY <2>1 DEF IdsAgree, HeapAgrees, RegistryAlive
  <2>3. pc[c] \in {"found", "reading"} => Live(held[c]) /\ handles[held[c]] = target[c]
    BY <2>1 DEF CallsAgree
  <2>4. Runs(c) => uses[c] = target[c]
    BY <2>1 DEF CallsAgree, OwnModel
  <2> QED
    BY <2>2, <2>3, <2>4
<1>2. CASE pc[c] \notin {"queued", "found", "reading", "using"}
  BY <1>2 DEF Runs
<1> QED
  BY <1>1, <1>2

\* The model a pool thread works on for an instance that is used with care is
\* allocated for as long as it works, whatever is unloaded meanwhile.
THEOREM CarefulAliveCorrect == Spec => []CarefulAlive
<1>1. IInv /\ CarefulInv => CarefulAlive
  BY CarefulOwn DEF CarefulAlive, Runs
<1> QED
  BY <1>1, InitCarefulInv, CarefulStep, Invariance, PTL DEF Spec

-----------------------------------------------------------------------------
(* The contract, for the instances that are used with care *)

\* What the contract's variables are made of does not change unless one of
\* these does.
LEMMA Stutter ==
  UNCHANGED <<modelId, models, pc, target, uses>> => UNCHANGED Contract!vars
  BY DEF Contract!vars, stageBar, stateBar, onBar, byBar

\* The contract does not see the calls on other instances.
LEMMA StrangerStutters ==
  ASSUME IInv, NEW c \in Calls, target[c] \notin Careful,
         target' = target, target'[c] \notin Careful,
         UNCHANGED <<modelId, models>>,
         \E p : pc' = [pc EXCEPT ![c] = p], \E u : uses' = [uses EXCEPT ![c] = u]
  PROVE  UNCHANGED Contract!vars
<1> USE DEF IInv, TypeOK, JsTypeOK
<1>1. stageBar' = stageBar /\ onBar' = onBar
  BY DEF stageBar, onBar
<1>2. stateBar' = stateBar
  BY DEF stateBar
<1>3. byBar' = byBar
  BY DEF byBar
<1> QED
  BY <1>1, <1>2, <1>3 DEF Contract!vars

\* A step of a call it does see is a step of its state in the contract.
LEMMA StateStep ==
  ASSUME TypeOK, NEW c \in Calls, target[c] \in Careful, UNCHANGED target, NEW p,
         pc' = [pc EXCEPT ![c] = p]
  PROVE  stateBar' = [stateBar EXCEPT ![c] = stateOf(p)] /\ stateBar[c] = stateOf(pc[c])
  BY DEF stateBar, TypeOK, JsTypeOK

\* The contract does not tell a promise that settled from one that is about to.
LEMMA SettleStutters ==
  ASSUME IInv, NEW c \in Calls, Settle(c), UNCHANGED nativeVars
  PROVE  UNCHANGED Contract!vars
<1> USE DEF Settle, nativeVars
<1>1. CASE target[c] \in Careful
  <2>1. /\ stateOf("resolved") = stateOf("answered")
        /\ stateOf("rejected") = stateOf("failed")
    BY DEF stateOf
  <2>2. stateBar' = [stateBar EXCEPT ![c] = stateBar[c]]
    BY <1>1, <2>1, StateStep DEF IInv
  <2>3. stateBar' = stateBar
    BY <2>2 DEF stateBar
  <2> QED
    BY <2>3 DEF Contract!vars, stageBar, onBar, byBar
<1>2. CASE target[c] \notin Careful
  <2>1. uses' = [uses EXCEPT ![c] = uses[c]]
    BY DEF IInv, TypeOK, JsTypeOK
  <2> QED
    BY <1>2, <2>1, StrangerStutters
<1> QED
  BY <1>1, <1>2

\* A call on a loaded instance is the contract's Prompt.
LEMMA PromptCallRefines ==
  ASSUME IInv, NEW c \in Calls, NEW i \in Careful, PromptCall(c, i), UNCHANGED nativeVars
  PROVE  Contract!Prompt(c, i)
<1> USE CarefulAssumption, InstancesAssumption DEF IInv, TypeOK, JsTypeOK, PromptCall
<1>1. stateBar' = [stateBar EXCEPT ![c] = "pending"] /\ stateBar[c] = "unused"
  <2>1. stateOf("queued") = "pending" /\ stateOf("unused") = "unused"
    BY DEF stateOf
  <2>2. target'[c] = i /\ pc'[c] = "queued" /\ target[c] \notin Careful
    BY DEF CallsAgree
  <2>3. ASSUME NEW d \in Calls, d # c PROVE target'[d] = target[d] /\ pc'[d] = pc[d]
    BY <2>3
  <2> QED
    BY <2>1, <2>2, <2>3 DEF stateBar
<1>2. stageBar' = stageBar /\ stageBar[i] # "new"
  BY DEF stageBar, nativeVars, IdsAgree
<1>3. onBar' = [onBar EXCEPT ![c] = i]
  BY DEF onBar
<1>4. byBar' = byBar
  BY DEF byBar, CallsAgree
<1> QED
  BY <1>1, <1>2, <1>3, <1>4 DEF Contract!Prompt

\* Registration is the contract's Load.
LEMMA RegisterModelRefines ==
  ASSUME IInv, NEW i \in Careful, RegisterModel(i)
  PROVE  Contract!Load(i)
<1> USE CarefulAssumption
    DEF IInv, TypeOK, JsTypeOK, RegisterModel, LoadReturns, promptVars
<1>0. DOMAIN models' = DOMAIN models \cup {next_model_id}
  BY DEF Emplace
<1>1. stageBar[i] = "new"
  BY DEF stageBar, IdsAgree
<1>2. stageBar' = [stageBar EXCEPT ![i] = "loaded"]
  <2> SUFFICES ASSUME NEW j \in Careful
               PROVE  stageBar'[j] = IF j = i THEN "loaded" ELSE stageBar[j]
    BY DEF stageBar
  <2>1. CASE j = i
    BY <1>0, <2>1 DEF stageBar
  <2>2. CASE j # i
    BY <1>0, <2>2 DEF stageBar, IdsAgree
  <2> QED
    BY <2>1, <2>2
<1>3. UNCHANGED <<stateBar, onBar, byBar>>
  BY DEF stateBar, onBar, byBar
<1> QED
  BY <1>1, <1>2, <1>3 DEF Contract!Load

\* The contract does not see another instance's registration ...
LEMMA RegisterStrangerStutters ==
  ASSUME IInv, NEW i \in Instances \ Careful, RegisterModel(i)
  PROVE  UNCHANGED Contract!vars
<1> USE CarefulAssumption
    DEF IInv, TypeOK, JsTypeOK, RegisterModel, LoadReturns, promptVars
<1>0. DOMAIN models' = DOMAIN models \cup {next_model_id}
  BY DEF Emplace
<1>1. stageBar' = stageBar
  <2> SUFFICES ASSUME NEW j \in Careful PROVE stageBar'[j] = stageBar[j]
    BY DEF stageBar
  <2> QED
    BY <1>0 DEF stageBar, IdsAgree
<1> QED
  BY <1>1 DEF Contract!vars, stateBar, onBar, byBar

\* ... or its unload.
LEMMA EraseStrangerStutters ==
  ASSUME IInv, NEW i \in Instances \ Careful, EraseModel(i)
  PROVE  UNCHANGED Contract!vars
<1> USE CarefulAssumption DEF IInv, TypeOK, JsTypeOK, EraseModel, promptVars
<1>1. stageBar' = stageBar
  <2> SUFFICES ASSUME NEW j \in Careful PROVE stageBar'[j] = stageBar[j]
    BY DEF stageBar
  <2> QED
    BY DEF stageBar, IdsAgree
<1> QED
  BY <1>1 DEF Contract!vars, stateBar, onBar, byBar

\* Erasing the id is the contract's Unload: no prompt is running on the model.
LEMMA EraseModelRefines ==
  ASSUME IInv, CarefulInv, NEW i \in Careful, EraseModel(i)
  PROVE  Contract!Unload(i)
<1> USE CarefulAssumption DEF IInv, TypeOK, JsTypeOK, EraseModel, promptVars
<1>1. modelId[i] # 0 /\ life[i] = "unloaded"
  BY DEF OpAgrees, IdsAgree, Inside
<1>2. stageBar[i] = "loaded"
  BY <1>1 DEF stageBar
<1>3. stageBar' = [stageBar EXCEPT ![i] = "gone"]
  <2> SUFFICES ASSUME NEW j \in Careful
               PROVE  stageBar'[j] = IF j = i THEN "gone" ELSE stageBar[j]
    BY DEF stageBar
  <2>1. CASE j = i
    BY <1>1, <2>1 DEF stageBar
  <2>2. CASE j # i
    BY <2>2 DEF stageBar, IdsAgree
  <2> QED
    BY <2>1, <2>2
<1>4. UNCHANGED <<stateBar, onBar, byBar>>
  BY DEF stateBar, onBar, byBar
<1>5. ASSUME NEW c \in Calls, stateBar[c] = "running" PROVE byBar[c] # i
  <2>1. Runs(c) /\ target[c] \in Careful
    BY <1>5 DEF stateBar, stateOf, CallPcs, Runs
  <2>2. life[target[c]] = "ready"
    BY <2>1 DEF CarefulInv, Pending, Runs
  <2> QED
    BY <1>1, <2>1, <2>2, CarefulOwn DEF byBar
<1> QED
  BY <1>2, <1>3, <1>4, <1>5 DEF Contract!Unload

\* What the contract does not see of a call: the lookup ...
LEMMA PromptFindStutters ==
  ASSUME IInv, NEW c \in Calls, target[c] \in Careful, PromptFind(c)
  PROVE  UNCHANGED Contract!vars
<1> USE DEF IInv, PromptFind
<1>1. stateOf("found") = stateOf("queued")
  BY DEF stateOf
<1>2. stateBar' = [stateBar EXCEPT ![c] = stateBar[c]]
  BY <1>1, StateStep
<1>3. stateBar' = stateBar
  BY <1>2 DEF stateBar
<1> QED
  BY <1>3 DEF Contract!vars, stageBar, onBar, byBar

\* ... and every reading of the handle after the first, which is its Start.
LEMMA PromptReadRefines ==
  ASSUME IInv, CarefulInv, NEW c \in Calls, target[c] \in Careful, PromptRead(c)
  PROVE  Contract!Start(c) \/ UNCHANGED Contract!vars
<1> USE CarefulAssumption DEF IInv, TypeOK, JsTypeOK, PromptRead, Reads
<1>1. PICK p \in {"reading", "using"} : pc' = [pc EXCEPT ![c] = p]
  OBVIOUS
<1>2. stateBar' = [stateBar EXCEPT ![c] = "running"] /\ stateBar[c] = stateOf(pc[c])
  <2>1. stateOf(p) = "running"
    BY DEF stateOf
  <2>2. TypeOK /\ target[c] \in Careful /\ UNCHANGED target
    OBVIOUS
  <2>3. stateBar' = [stateBar EXCEPT ![c] = stateOf(p)] /\ stateBar[c] = stateOf(pc[c])
    BY ONLY <1>1, <2>2, StateStep
  <2> QED
    BY ONLY <2>1, <2>3
<1>3. stageBar' = stageBar /\ onBar' = onBar /\ onBar[c] = target[c]
  BY DEF stageBar, onBar
<1>4. stageBar[target[c]] = "loaded"
  BY CarefulOwn DEF stageBar, IdsAgree
<1>5. uses' = [uses EXCEPT ![c] = target[c]]
  BY CarefulOwn
<1>6. byBar' = [byBar EXCEPT ![c] = target[c]]
  BY <1>5 DEF byBar
<1>7. CASE pc[c] = "found"
  <2>1. stateBar[c] = "pending"
    BY <1>2, <1>7 DEF stateOf
  <2> QED
    BY <1>2, <1>3, <1>4, <1>6, <2>1 DEF Contract!Start
<1>8. CASE pc[c] = "reading"
  <2>1. stateBar[c] = "running" /\ byBar[c] = target[c]
    BY <1>2, <1>8, CarefulOwn DEF stateOf, byBar, Runs
  <2>2. stateBar' = stateBar /\ byBar' = byBar
    BY <1>2, <1>6, <2>1 DEF stateBar, byBar
  <2> QED
    BY <1>3, <2>2 DEF Contract!vars
<1> QED
  BY <1>7, <1>8

\* The end of a generation is the contract's Finish.
LEMMA PromptEndRefines ==
  ASSUME IInv, NEW c \in Calls, target[c] \in Careful, PromptEnd(c)
  PROVE  Contract!Finish(c)
<1> USE CarefulAssumption
    DEF IInv, TypeOK, JsTypeOK, PromptEnd, Answer, Fail, Reject, Runs
<1>1. stateBar[c] = "running"
  BY DEF stateBar, stateOf
<1>2. \E r \in {"answered", "rejected"} : stateBar' = [stateBar EXCEPT ![c] = r]
  <2>1. stateOf("answered") = "answered" /\ stateOf("failed") = "rejected"
    BY DEF stateOf
  <2> QED
    BY <2>1, StateStep
<1>3. stageBar' = stageBar /\ onBar' = onBar
  BY DEF stageBar, onBar
<1>4. byBar' = [byBar EXCEPT ![c] = NoInst]
  BY DEF byBar
<1> QED
  BY <1>1, <1>2, <1>3, <1>4 DEF Contract!Finish

\* What a pool thread does for any other prompt the contract does not see.
LEMMA PoolStrangerStutters ==
  ASSUME IInv, NEW c \in Calls, target[c] \notin Careful, PoolStep(c)
  PROVE  UNCHANGED Contract!vars
<1> USE DEF PoolStep, PromptFind, PromptNotLoaded, PromptRead, PromptDangling, PromptEnd, Reads,
            Reject, Answer, Fail, nativeVars
<1>1. \E p : pc' = [pc EXCEPT ![c] = p]
  OBVIOUS
<1>2. \E u : uses' = [uses EXCEPT ![c] = u]
  <2>1. CASE PromptFind(c)
    BY <2>1 DEF IInv, TypeOK, JsTypeOK
  <2>2. CASE ~PromptFind(c)
    BY <2>2
  <2> QED
    BY <2>1, <2>2
<1>3. UNCHANGED <<modelId, models, target>>
  OBVIOUS
<1> QED
  BY <1>1, <1>2, <1>3, StrangerStutters

\* So it does not see a call being made on another instance.
LEMMA PromptCallStutters ==
  ASSUME IInv, NEW c \in Calls, NEW i \in Instances \ Careful, PromptCall(c, i),
         UNCHANGED nativeVars
  PROVE  UNCHANGED Contract!vars
<1> USE CarefulAssumption, InstancesAssumption DEF IInv, TypeOK, JsTypeOK, PromptCall
<1>1. target[c] \notin Careful /\ target'[c] \notin Careful
  BY DEF CallsAgree
<1>2. ASSUME NEW d \in Calls, d # c PROVE target'[d] = target[d] /\ pc'[d] = pc[d]
  BY <1>2
<1> QED
  BY <1>1, <1>2 DEF Contract!vars, stageBar, stateBar, onBar, byBar, nativeVars

\* Every step of the bridge is a step of the contract or leaves it as it is.
LEMMA StepRefines ==
  IInv /\ CarefulInv /\ [Next]_vars => [Contract!Next]_Contract!vars
<1> SUFFICES ASSUME IInv, CarefulInv, [Next]_vars PROVE [Contract!Next]_Contract!vars
  OBVIOUS
<1>1. CASE JsStep
  <2>1. ASSUME NEW i \in Instances, InitUnresolved(i) \/ InitCall(i) \/ UnloadCall(i)
        PROVE  UNCHANGED Contract!vars
    BY <1>1, <2>1, Stutter
    DEF JsStep, InitUnresolved, InitCall, UnloadCall, promptVars, nativeVars
  <2>2. ASSUME NEW c \in Calls, Settle(c) PROVE UNCHANGED Contract!vars
    BY <1>1, <2>2, SettleStutters DEF JsStep
  <2>3. ASSUME NEW c \in Calls, NEW i \in Instances, PromptCall(c, i)
        PROVE  [Contract!Next]_Contract!vars
    <3>1. CASE i \in Careful
      BY <1>1, <2>3, <3>1, PromptCallRefines DEF JsStep, Contract!Next
    <3>2. CASE i \notin Careful
      BY <1>1, <2>3, <3>2, PromptCallStutters DEF JsStep
    <3> QED
      BY <3>1, <3>2
  <2> QED
    BY <1>1, <2>1, <2>2, <2>3 DEF JsStep, JsNext
<1>2. ASSUME NEW i \in Instances, NativeStep(i) PROVE [Contract!Next]_Contract!vars
  <2>1. CASE RegisterModel(i) \/ EraseModel(i)
    BY <2>1, RegisterModelRefines, RegisterStrangerStutters, EraseModelRefines,
       EraseStrangerStutters
    DEF Contract!Next
  <2>2. CASE ~RegisterModel(i) /\ ~EraseModel(i)
    <3>1. UNCHANGED <<modelId, models, pc, target, uses>>
      BY <1>2, <2>2
      DEF NativeStep, LoadModelFails, LoadModel, Warmup, WarmupFails, UnloadAbsent,
          FreeModel, LoadThrows, WarmupReturns, WarmupThrows, UnloadReturns,
          promptVars, nativeVars
    <3> QED
      BY <3>1, Stutter
  <2> QED
    BY <2>1, <2>2
<1>3. ASSUME NEW c \in Calls, PoolStep(c) PROVE [Contract!Next]_Contract!vars
  <2>1. CASE target[c] \notin Careful
    BY <1>3, <2>1, PoolStrangerStutters
  <2>2. CASE target[c] \in Careful /\ PromptFind(c)
    BY <2>2, PromptFindStutters
  <2>3. CASE target[c] \in Careful /\ PromptRead(c)
    BY <2>3, PromptReadRefines DEF Contract!Next, Contract!Progress
  <2>4. CASE target[c] \in Careful /\ PromptEnd(c)
    BY <2>4, PromptEndRefines DEF Contract!Next, Contract!Progress
  <2>5. ~(target[c] \in Careful /\ PromptNotLoaded(c))
    BY CarefulOwn DEF PromptNotLoaded, find_model, IInv, TypeOK
  <2>6. ~(target[c] \in Careful /\ PromptDangling(c))
    BY CarefulOwn DEF PromptDangling
  <2> QED
    BY <1>3, <2>1, <2>2, <2>3, <2>4, <2>5, <2>6 DEF PoolStep
<1>4. CASE UNCHANGED vars
  BY <1>4, Stutter DEF vars, jsVars
<1> QED
  BY <1>1, <1>2, <1>3, <1>4 DEF Next

\* To those who await their prompts before they unload, the Android bridge takes
\* no step the contract does not allow, whatever is done with other instances.
THEOREM ContractCorrect ==
  Spec => Contract!Init /\ [][Contract!Next]_Contract!vars
<1>1. Init => Contract!Init
  BY InstancesAssumption, CarefulAssumption
  DEF Init, JsInit, Contract!Init, stageBar, stateBar, stateOf, onBar, byBar
<1> QED
  BY <1>1, InitCarefulInv, CarefulStep, StepRefines, Invariance, PTL DEF Spec
=============================================================================
