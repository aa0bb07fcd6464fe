---------------------------- MODULE ExampleAppProofs ----------------------------
(***************************************************************************)
(* What holds of the chat screen on the Android bridge for any number of   *)
(* mounts and messages.  The screen is one of the bridge's applications,   *)
(* so all that is proved of the bridge for every application is true here. *)
(***************************************************************************)
EXTENDS ExampleApp, AndroidBridgeProofs

AppIInv == IInv /\ AppInv

-----------------------------------------------------------------------------
(* The screen is an application of the bridge *)

\* Every step of the screen is a step of the bridge, or none.
LEMMA AppStepIsStep == ScreenTypeOK /\ [AppNext]_appVars => [Next]_vars
<1> SUFFICES ASSUME ScreenTypeOK, [AppNext]_appVars PROVE [Next]_vars
  OBVIOUS
<1>1. CASE BridgeStep
  BY <1>1 DEF BridgeStep, Next
<1>2. ASSUME NEW i \in Instances, Mount(i) PROVE Next
  BY <1>2 DEF Mount, Next, JsStep, JsNext
<1>3. ASSUME NEW i \in Instances, InitDelivered(i) PROVE [Next]_vars
  BY <1>3 DEF InitDelivered, ThenKeeps, ThenUnloads, Catch, Next, JsStep, JsNext
<1>4. CASE Unmount
  BY <1>4 DEF Unmount, ScreenTypeOK, Next, JsStep, JsNext
<1>5. ASSUME NEW c \in Calls, Send(c) PROVE UNCHANGED vars
  BY <1>5 DEF Send
<1>6. ASSUME NEW c \in Calls, SendGoesOn(c) PROVE [Next]_vars
  <2>1. CASE FramesPrompt(c)
    BY <2>1 DEF FramesPrompt, ScreenTypeOK, Next, JsStep, JsNext
  <2>2. CASE FramesThrow(c)
    BY <2>2 DEF FramesThrow
  <2>3. CASE PromptRejects(c) \/ PromptAnswers(c)
    BY <2>3 DEF PromptRejects, PromptAnswers, Next, JsStep, JsNext
  <2> QED
    BY <1>6, <2>1, <2>2, <2>3 DEF SendGoesOn
<1>7. CASE UNCHANGED appVars
  BY <1>7 DEF appVars
<1> QED
  BY <1>1, <1>2, <1>3, <1>4, <1>5, <1>6, <1>7 DEF AppNext

\* What goes on in native code leaves loaded models loaded, and takes a prompt
\* nowhere but towards its end.
LEMMA BridgeStepLeaves ==
  ASSUME IInv, BridgeStep
  PROVE  /\ target' = target
         /\ \A i \in Instances :
              \/ life'[i] = life[i]
              \/ life[i] = "loading" /\ life'[i] \in {"loading", "ready", "failed"}
         /\ \A c \in Calls : pc'[c] = pc[c] \/ (Pending(c) /\ Pending(c)')
<1> USE DEF IInv, TypeOK, JsTypeOK, promptVars, nativeVars
<1>1. ASSUME NEW i \in Instances, NativeStep(i)
      PROVE  UNCHANGED <<target, pc>> /\ (life' = life \/
               /\ life[i] = "loading"
               /\ \E l \in {"ready", "failed"} : life' = [life EXCEPT ![i] = l])
  BY <1>1
  DEF NativeStep, LoadModelFails, LoadModel, RegisterModel, Warmup, WarmupFails,
      UnloadAbsent, EraseModel, FreeModel, LoadThrows, LoadReturns, WarmupReturns,
      WarmupThrows, UnloadReturns, Inside, OpAgrees
<1>2. ASSUME NEW c \in Calls, PoolStep(c)
      PROVE  /\ UNCHANGED <<target, life>>
             /\ pc[c] \in {"queued", "found", "reading", "using"}
             /\ \E p \in {"found", "reading", "using", "answered", "failed"} :
                  pc' = [pc EXCEPT ![c] = p]
  BY <1>2
  DEF PoolStep, PromptFind, PromptNotLoaded, PromptRead, PromptDangling, PromptEnd, Reads,
      Reject, Answer, Fail, Runs
<1> QED
  BY <1>1, <1>2 DEF BridgeStep, Pending

-----------------------------------------------------------------------------
(* The screen's invariant, action by action *)

LEMMA InitAppInv == AppInit => AppIInv
<1>1. AppInit => IInv
  BY InitIInv DEF AppInit
<1>2. AppInit => AppInv
  BY InstancesAssumption
  DEF AppInit, Init, JsInit, AppInv, ScreenTypeOK, ScreenAgrees, StatusIsTrue, OnScreen, Busy,
      Pending
<1> QED
  BY <1>1, <1>2 DEF AppIInv

\* Native code does not disturb what the screen says.
LEMMA BridgeStepKeeps ==
  ASSUME AppIInv, IInv', BridgeStep, UNCHANGED screenVars
  PROVE  AppInv'
<1> USE DEF AppIInv, AppInv, screenVars
<1>1. ScreenTypeOK'
  BY DEF ScreenTypeOK
<1>2. ScreenAgrees'
  BY BridgeStepLeaves, InstancesAssumption DEF ScreenAgrees, ScreenTypeOK, OnScreen, Pending
<1>3. StatusIsTrue'
  BY BridgeStepLeaves DEF StatusIsTrue, Busy, ScreenTypeOK
<1> QED
  BY <1>1, <1>2, <1>3

\* A new screen says nothing but that it is loading.
LEMMA MountKeeps ==
  ASSUME AppIInv, IInv', NEW i \in Instances, Mount(i)
  PROVE  AppInv'
<1> USE InstancesAssumption
    DEF AppIInv, AppInv, Mount, InitCall, promptVars, nativeVars, IInv, TypeOK, JsTypeOK
<1>1. ScreenTypeOK'
  BY DEF ScreenTypeOK
<1>2. ScreenAgrees'
  BY DEF ScreenAgrees, ScreenTypeOK, OnScreen, Pending
<1>3. StatusIsTrue'
  BY DEF StatusIsTrue, Busy
<1> QED
  BY <1>1, <1>2, <1>3

\* init()'s promise is seen once, by the screen it is for or by nobody.
LEMMA InitDeliveredKeeps ==
  ASSUME AppIInv, IInv', NEW i \in Instances, InitDelivered(i)
  PROVE  AppInv'
<1> USE InstancesAssumption
    DEF AppIInv, AppInv, Delivers, vars, jsVars, promptVars, nativeVars, IInv, TypeOK, JsTypeOK
<1>1. CASE ThenKeeps(i)
  <2> USE <1>1 DEF ThenKeeps
  <2>1. ScreenTypeOK'
    BY DEF ScreenTypeOK
  <2>2. ScreenAgrees'
    BY DEF ScreenAgrees, ScreenTypeOK, OnScreen, Pending
  <2>3. StatusIsTrue'
    BY DEF StatusIsTrue, Busy, ScreenAgrees
  <2> QED
    BY <2>1, <2>2, <2>3
<1>2. CASE ThenUnloads(i)
  <2> USE <1>2 DEF ThenUnloads, UnloadCall, Enter
  <2>1. ScreenTypeOK'
    BY DEF ScreenTypeOK
  <2>2. ScreenAgrees'
    BY DEF ScreenAgrees, ScreenTypeOK, OnScreen, Pending
  <2>3. StatusIsTrue'
    BY DEF StatusIsTrue, Busy, ScreenAgrees, ScreenTypeOK
  <2> QED
    BY <2>1, <2>2, <2>3
<1>3. CASE Catch(i)
  <2> USE <1>3 DEF Catch
  <2>1. ScreenTypeOK'
    BY DEF ScreenTypeOK
  <2>2. ScreenAgrees'
    BY DEF ScreenAgrees, ScreenTypeOK, OnScreen, Pending
  <2>3. StatusIsTrue'
    BY DEF StatusIsTrue, Busy, ScreenAgrees
  <2> QED
    BY <2>1, <2>2, <2>3
<1> QED
  BY <1>1, <1>2, <1>3 DEF InitDelivered

\* A screen that is gone says nothing.
LEMMA UnmountKeeps == ASSUME AppIInv, IInv', Unmount PROVE AppInv'
<1> USE InstancesAssumption
    DEF AppIInv, AppInv, Unmount, UnloadCall, Enter, vars, jsVars, promptVars, nativeVars,
        IInv, TypeOK, JsTypeOK
<1>1. ScreenTypeOK'
  BY DEF ScreenTypeOK
<1>2. ScreenAgrees'
  BY DEF ScreenAgrees, ScreenTypeOK, OnScreen, Pending
<1>3. StatusIsTrue'
  BY DEF StatusIsTrue
<1> QED
  BY <1>1, <1>2, <1>3

\* Sending starts the one message that is waited for.
LEMMA SendKeeps ==
  ASSUME AppIInv, IInv', NEW c \in Calls, Send(c)
  PROVE  AppInv'
<1> USE InstancesAssumption DEF AppIInv, AppInv, Send, vars, jsVars
<1>1. ScreenTypeOK'
  BY DEF ScreenTypeOK
<1>2. ScreenAgrees'
  <2>1. target[c] = NoInst
    BY DEF ScreenAgrees, IInv, CallsAgree
  <2> QED
    BY <2>1 DEF ScreenAgrees, ScreenTypeOK, OnScreen, Pending
<1>3. StatusIsTrue'
  <2>1. Busy = {} /\ Busy' = {c}
    BY DEF StatusIsTrue, Busy, ScreenTypeOK
  <2> QED
    BY <2>1 DEF StatusIsTrue
<1> QED
  BY <1>1, <1>2, <1>3

\* The prompt is made on this screen's model.
LEMMA FramesPromptKeeps ==
  ASSUME AppIInv, IInv', NEW c \in Calls, FramesPrompt(c)
  PROVE  AppInv'
<1> USE InstancesAssumption
    DEF AppIInv, AppInv, FramesPrompt, PromptCall, nativeVars, IInv, TypeOK, JsTypeOK
<1>1. ScreenTypeOK'
  BY DEF ScreenTypeOK
<1>2. ScreenAgrees'
  BY DEF ScreenAgrees, ScreenTypeOK, OnScreen, Pending
<1>3. StatusIsTrue'
  <2>1. Busy' = Busy
    BY DEF Busy, ScreenTypeOK
  <2> QED
    BY <2>1 DEF StatusIsTrue
<1> QED
  BY <1>1, <1>2, <1>3

\* Only a message of a screen that is gone finds the reference cleared.
LEMMA FramesThrowKeeps ==
  ASSUME AppIInv, IInv', NEW c \in Calls, FramesThrow(c)
  PROVE  AppInv'
<1> USE DEF AppIInv, AppInv, FramesThrow, vars, jsVars
<1>1. ~OnScreen(c)
  BY DEF ScreenAgrees, OnScreen
<1>2. ScreenTypeOK'
  BY DEF ScreenTypeOK
<1>3. ScreenAgrees'
  BY <1>1 DEF ScreenAgrees, ScreenTypeOK, OnScreen, Pending
<1>4. StatusIsTrue'
  <2>1. screen # NoInst => Busy' = Busy
    BY <1>1 DEF Busy, ScreenTypeOK, OnScreen
  <2> QED
    BY <1>1, <2>1 DEF StatusIsTrue
<1> QED
  BY <1>2, <1>3, <1>4

\* When a message of this screen ends, no other is waited for.
LEMMA PromptEndsKeeps ==
  ASSUME AppIInv, IInv', NEW c \in Calls, PromptRejects(c) \/ PromptAnswers(c)
  PROVE  AppInv'
<1> USE InstancesAssumption
    DEF AppIInv, AppInv, PromptRejects, PromptAnswers, Settle, nativeVars,
        IInv, TypeOK, JsTypeOK
<1>1. sending[c] = "prompting" /\ pc'[c] \in {"resolved", "rejected"}
  BY DEF ScreenAgrees, Pending
<1>2. OnScreen(c) => ref = screen /\ life[screen] = "ready" /\ screen \in delivered
  BY DEF ScreenAgrees, OnScreen
<1>3. screen # NoInst => Busy' = IF c \in mine THEN {} ELSE Busy
  BY <1>1 DEF Busy, StatusIsTrue, ScreenTypeOK
<1>4. ScreenTypeOK'
  BY DEF ScreenTypeOK
<1>5. ScreenAgrees'
  BY <1>1, <1>2 DEF ScreenAgrees, ScreenTypeOK, OnScreen, Pending
<1>6. StatusIsTrue'
  <2>1. CASE OnScreen(c)
    BY <1>2, <1>3, <2>1 DEF StatusIsTrue, OnScreen
  <2>2. CASE ~OnScreen(c)
    BY <1>3, <2>2 DEF StatusIsTrue, OnScreen
  <2> QED
    BY <2>1, <2>2
<1> QED
  BY <1>4, <1>5, <1>6

-----------------------------------------------------------------------------
(* What follows *)

\* The screen's invariant, with the bridge's, is kept by every step.
LEMMA AppIInvStep == AppIInv /\ [AppNext]_appVars => AppIInv'
<1> SUFFICES ASSUME AppIInv, [AppNext]_appVars PROVE AppIInv'
  OBVIOUS
<1>1. IInv'
  BY AppStepIsStep, IInvStep DEF AppIInv, AppInv
<1>2. CASE AppNext
  BY <1>1, <1>2, BridgeStepKeeps, MountKeeps, InitDeliveredKeeps, UnmountKeeps, SendKeeps,
     FramesPromptKeeps, FramesThrowKeeps, PromptEndsKeeps
  DEF AppNext, SendGoesOn, AppIInv
<1>3. CASE UNCHANGED appVars
  BY <1>1, <1>3
  DEF appVars, screenVars, vars, jsVars, AppIInv, AppInv, ScreenTypeOK, ScreenAgrees,
      StatusIsTrue, OnScreen, Busy, Pending
<1> QED
  BY <1>2, <1>3

\* The screen's invariant holds whenever it is mounted, left and mounted again.
THEOREM AppInvariance == AppSpec => []AppInv
<1>1. AppIInv => AppInv
  BY DEF AppIInv
<1> QED
  BY <1>1, InitAppInv, AppIInvStep, PTL DEF AppSpec

\* The screen is an application of the bridge: what every application may rely
\* on, this one may, and the contract with it.
THEOREM AppIsApplication == AppSpec => Spec
<1>1. AppInit => Init
  BY DEF AppInit
<1>2. AppIInv => ScreenTypeOK
  BY DEF AppIInv, AppInv
<1> QED
  BY <1>1, <1>2, InitAppInv, AppIInvStep, AppStepIsStep, PTL DEF AppSpec, Spec

\* The screen's status is true of its model and of its messages.
THEOREM StatusIsTrueCorrect == AppSpec => []StatusIsTrue
<1>1. AppInv => StatusIsTrue
  BY DEF AppInv
<1> QED
  BY <1>1, AppInvariance, PTL

\* Nobody who looks at the screen is told that the model is not loaded.
THEOREM RefusedOnlyWhenGoneCorrect == AppSpec => []RefusedOnlyWhenGone
<1>1. AppIInv => RefusedOnlyWhenGone
  <2> SUFFICES ASSUME AppIInv, NEW c \in Calls, reason[c] = "notLoaded", OnScreen(c)
               PROVE  FALSE
    BY DEF RefusedOnlyWhenGone
  <2>1. life[target[c]] = "unloaded" /\ target[c] # NoInst
    BY DEF AppIInv, IInv, CallsAgree, NotLoadedIsTrue, TypeOK, JsTypeOK, CallPcs
  <2>2. target[c] = screen /\ life[screen] = "ready"
    BY <2>1 DEF AppIInv, AppInv, ScreenAgrees, OnScreen
  <2> QED
    BY <2>1, <2>2
<1> QED
  BY <1>1, InitAppInv, AppIInvStep, PTL DEF AppSpec

\* Nobody who looks at the screen waits for a prompt whose model was freed.
THEOREM PresentAliveCorrect == AppSpec => []PresentAlive
<1>1. AppIInv => PresentAlive
  <2> SUFFICES ASSUME AppIInv, NEW c \in Calls, Runs(c), OnScreen(c)
               PROVE  uses[c] = screen /\ screen \in heap
    BY DEF PresentAlive
  <2>1. target[c] # NoInst
    BY DEF AppIInv, IInv, CallsAgree, Runs
  <2>2. target[c] = screen /\ screen \in Instances /\ life[screen] = "ready"
    BY <2>1 DEF AppIInv, AppInv, ScreenAgrees, OnScreen, ScreenTypeOK
  <2>3. uses[c] = screen
    BY <2>2 DEF AppIInv, IInv, CallsAgree, OwnModel
  <2>4. screen \in heap
    BY <2>2 DEF AppIInv, IInv, IdsAgree, HeapAgrees, RegistryAlive
  <2> QED
    BY <2>3, <2>4
<1> QED
  BY <1>1, InitAppInv, AppIInvStep, PTL DEF AppSpec
=============================================================================
