------------------------------ MODULE LogSwapProofs ------------------------------
(***************************************************************************)
(* The log capture for any number of loads, warmups and prompts, in any    *)
(* interleaving: the loggers are put back as long as no two captures       *)
(* overlap, and where only loads capture, which is Android, no two do.     *)
(***************************************************************************)
EXTENDS LogSwap, TLAPS

\* At the start nothing is captured.
LEMMA InitIInv == Init => IInv
  BY CallsAssumption
  DEF Init, IInv, AloneInv, TypeOK, OnlyLoadsSwap, OneSync, LoggersAgree, RestoredAtRest,
      Running, Capturing, Holding, Targets, Stages, Calls, Sync, LinesAgree, LoadLines,
      WarmupsAgree, SyncNotDead

\* Every step keeps each variable in its range.
LEMMA TypeStep == TypeOK /\ [Next]_vars => TypeOK'
<1> SUFFICES ASSUME TypeOK, [Next]_vars PROVE TypeOK'
  OBVIOUS
<1> USE DEF TypeOK, Goto, Stages
<1>1. ASSUME NEW c \in Calls, Start(c) \/ ReturnCall(c) PROVE TypeOK'
  BY <1>1 DEF Start, ReturnCall
<1>2. ASSUME NEW c \in Calls, GetLog(c) \/ SetGgml(c) \/ SetLlama(c) PROVE TypeOK'
  BY <1>2 DEF GetLog, SetGgml, SetLlama, Targets
<1>3. ASSUME NEW c \in Calls, EmitBegin(c) PROVE TypeOK'
  BY <1>3 DEF EmitBegin
<1>4. ASSUME NEW c \in Calls, EmitEnd(c) PROVE TypeOK'
  <2>1. sink' \in [Calls -> Targets \cup {NoLog}]
    BY <1>4 DEF EmitEnd
  <2>2. text' \in [Calls -> SUBSET Calls]
    BY <1>4 DEF EmitEnd
  <2>3. dead' \subseteq Calls
    BY <1>4 DEF EmitEnd
  <2> QED
    BY <1>4, <2>1, <2>2, <2>3 DEF EmitEnd
<1>5. ASSUME NEW c \in Calls, RestoreGgml(c) \/ RestoreLlama(c) PROVE TypeOK'
  BY <1>5 DEF RestoreGgml, RestoreLlama
<1>6. CASE UNCHANGED vars
  BY <1>6 DEF vars
<1> QED
  BY <1>1, <1>2, <1>3, <1>4, <1>5, <1>6 DEF Next, Step

\* Every variable stays in its range, on either platform.
THEOREM TypeCorrect == Spec => []TypeOK
<1>1. Init => TypeOK
  BY InitIInv DEF IInv, AloneInv
<1> QED
  BY <1>1, TypeStep, PTL DEF Spec

-----------------------------------------------------------------------------
(* Captures made one at a time, on either platform *)

\* The JavaScript thread makes its calls one after the other.
LEMMA OneSyncStep == ASSUME TypeOK, OneSync, [Next]_vars PROVE OneSync'
<1> USE DEF TypeOK, OneSync, Running, Goto, Calls, Sync
<1>1. ASSUME NEW c \in Calls, Start(c) PROVE OneSync'
  BY <1>1 DEF Start
<1>2. ASSUME NEW c \in Calls, GetLog(c) \/ SetGgml(c) \/ SetLlama(c) \/ RestoreGgml(c)
                              \/ RestoreLlama(c) \/ ReturnCall(c)
      PROVE  OneSync'
  BY <1>2 DEF GetLog, SetGgml, SetLlama, RestoreGgml, RestoreLlama, ReturnCall
<1>3. ASSUME NEW c \in Calls, EmitBegin(c) \/ EmitEnd(c) PROVE OneSync'
  BY <1>3 DEF EmitBegin, EmitEnd
<1>4. CASE UNCHANGED vars
  BY <1>4 DEF vars
<1> QED
  BY <1>1, <1>2, <1>3, <1>4 DEF Next, Step

\* A capture that is alone finds the loggers at rest and puts them back to rest.
LEMMA LoggersStep ==
  ASSUME TypeOK, LoggersAgree, OneCapture, OneCapture', [Next]_vars
  PROVE  LoggersAgree'
<1> USE CallsAssumption
    DEF TypeOK, LoggersAgree, RestoredAtRest, OneCapture, Capturing, Holding, Goto, Targets
<1>1. ASSUME NEW c \in Calls, Start(c) PROVE LoggersAgree'
  BY <1>1 DEF Start
<1>2. ASSUME NEW c \in Calls, GetLog(c) PROVE LoggersAgree'
  BY <1>2 DEF GetLog
<1>3. ASSUME NEW c \in Calls, SetGgml(c) PROVE LoggersAgree'
  BY <1>3 DEF SetGgml
<1>4. ASSUME NEW c \in Calls, SetLlama(c) PROVE LoggersAgree'
  BY <1>4 DEF SetLlama
<1>5. ASSUME NEW c \in Calls, EmitBegin(c) \/ EmitEnd(c) PROVE LoggersAgree'
  BY <1>5 DEF EmitBegin, EmitEnd
<1>6. ASSUME NEW c \in Calls, RestoreGgml(c) PROVE LoggersAgree'
  BY <1>6 DEF RestoreGgml
<1>7. ASSUME NEW c \in Calls, RestoreLlama(c) PROVE LoggersAgree'
  BY <1>7 DEF RestoreLlama
<1>8. ASSUME NEW c \in Calls, ReturnCall(c) PROVE LoggersAgree'
  BY <1>8 DEF ReturnCall
<1>9. CASE UNCHANGED vars
  BY <1>9 DEF vars
<1> QED
  BY <1>1, <1>2, <1>3, <1>4, <1>5, <1>6, <1>7, <1>8, <1>9 DEF Next, Step

\* A logger that is set to a LoadLog is set to that of the call that captures.
LEMMA TargetCaptures ==
  ASSUME TypeOK, LoggersAgree, NEW t \in {ggml, llama}, t \in Calls
  PROVE  Holding(t)
  BY CallsAssumption DEF TypeOK, LoggersAgree, RestoredAtRest, Holding, Targets

\* A line of the JavaScript thread reaches no load's LoadLog but that load's own.
LEMMA LinesStep ==
  ASSUME AloneInv, OneCapture, [Next]_vars
  PROVE  LinesAgree'
<1> USE CallsAssumption DEF AloneInv, TypeOK, LinesAgree, LoadLines, Goto, Calls
<1>1. ASSUME NEW c \in Calls, Start(c) \/ GetLog(c) \/ SetGgml(c) \/ SetLlama(c)
                              \/ RestoreGgml(c) \/ RestoreLlama(c) \/ ReturnCall(c)
      PROVE  LinesAgree'
  BY <1>1 DEF Start, GetLog, SetGgml, SetLlama, RestoreGgml, RestoreLlama, ReturnCall
<1>2. ASSUME NEW c \in Calls, EmitBegin(c) PROVE LinesAgree'
  <2>1. PICK t \in {ggml, llama} : sink' = [sink EXCEPT ![c] = t]
    BY <1>2 DEF EmitBegin
  <2>2. c \in Loads => t = c /\ pc[c] = "captured"
    BY <1>2, <2>1 DEF EmitBegin, LoggersAgree
  <2>3. ASSUME c \in Warmups, t \in Loads PROVE FALSE
    <3>1. Holding(t) /\ Running(c)
      BY <1>2, <2>3, TargetCaptures DEF EmitBegin, Running
    <3> QED
      BY <2>3, <3>1 DEF OneSync, Sync, Running, Holding
  <2> QED
    BY <1>2, <2>1, <2>2, <2>3 DEF EmitBegin
<1>3. ASSUME NEW c \in Calls, EmitEnd(c) PROVE LinesAgree'
  BY <1>3 DEF EmitEnd, Sync
<1>4. CASE UNCHANGED vars
  BY <1>4 DEF vars
<1> QED
  BY <1>1, <1>2, <1>3, <1>4 DEF Next, Step

LEMMA AloneStep == AloneInv /\ OneCapture /\ OneCapture' /\ [Next]_vars => AloneInv'
  BY TypeStep, OneSyncStep, LoggersStep, LinesStep DEF AloneInv

\* What holds on either platform of captures that do not overlap, which the code
\* sees to on Android only.
LEMMA AloneInvariance == Spec /\ []OneCapture => []AloneInv
<1>1. Init => AloneInv
  BY InitIInv DEF IInv
<1> QED
  BY <1>1, AloneStep, PTL DEF Spec

\* On iOS too the loggers are put back, never point at the LoadLog of a call that
\* returned, and a load's error message quotes no other load and no warmup, if no
\* prompt is called while another call is inside its capture.
THEOREM AloneCorrect == Spec /\ []OneCapture => [](RestoredAtRest /\ TargetLive /\ LoadLines)
<1>1. AloneInv => RestoredAtRest /\ LoadLines
  BY DEF AloneInv, LoggersAgree, LinesAgree
<1>2. AloneInv => TargetLive
  BY TargetCaptures DEF AloneInv, TargetLive, Running, Holding
<1> QED
  BY <1>1, <1>2, AloneInvariance, PTL

-----------------------------------------------------------------------------
(* Android *)

\* Loads are made one at a time, and nothing else captures.
LEMMA LoadsAlone == OnlyLoadsSwap /\ OneSync => OneCapture
  BY DEF OnlyLoadsSwap, OneSync, OneCapture, Capturing, Holding, Running, Calls, Sync

LEMMA OnlyLoadsStep ==
  ASSUME PromptsSwap = FALSE, TypeOK, OnlyLoadsSwap, [Next]_vars
  PROVE  OnlyLoadsSwap'
<1> USE DEF TypeOK, OnlyLoadsSwap, Capturing, Holding, Goto
<1>1. ASSUME NEW c \in Calls, Start(c) PROVE OnlyLoadsSwap'
  BY <1>1 DEF Start, Swaps
<1>2. ASSUME NEW c \in Calls, GetLog(c) \/ SetGgml(c) \/ SetLlama(c) \/ RestoreGgml(c)
                              \/ RestoreLlama(c) \/ ReturnCall(c)
      PROVE  OnlyLoadsSwap'
  BY <1>2 DEF GetLog, SetGgml, SetLlama, RestoreGgml, RestoreLlama, ReturnCall
<1>3. ASSUME NEW c \in Calls, EmitBegin(c) \/ EmitEnd(c) PROVE OnlyLoadsSwap'
  BY <1>3 DEF EmitBegin, EmitEnd
<1>4. CASE UNCHANGED vars
  BY <1>4 DEF vars
<1> QED
  BY <1>1, <1>2, <1>3, <1>4 DEF Next, Step

\* A warmup finds the loggers at rest: no load is running, and nothing else captures.
LEMMA WarmupsStep ==
  ASSUME IInv, [Next]_vars
  PROVE  WarmupsAgree'
<1> USE CallsAssumption
    DEF IInv, AloneInv, TypeOK, WarmupsAgree, SyncNotDead, Goto, Calls, Sync, Targets
<1>1. ASSUME NEW c \in Calls, Start(c) \/ GetLog(c) \/ SetGgml(c) \/ SetLlama(c)
                              \/ RestoreGgml(c) \/ RestoreLlama(c) \/ ReturnCall(c)
      PROVE  WarmupsAgree'
  BY <1>1 DEF Start, GetLog, SetGgml, SetLlama, RestoreGgml, RestoreLlama, ReturnCall
<1>2. ASSUME NEW c \in Calls, EmitBegin(c) PROVE WarmupsAgree'
  <2>1. PICK t \in {ggml, llama} : sink' = [sink EXCEPT ![c] = t]
    BY <1>2 DEF EmitBegin
  <2>2. ASSUME c \in Warmups, t \in Calls PROVE FALSE
    <3>1. Holding(t) /\ Running(c)
      BY <1>2, <2>2, TargetCaptures DEF EmitBegin, Running
    <3>2. t \in Loads
      BY <2>2, <3>1 DEF OnlyLoadsSwap, Capturing
    <3> QED
      BY <2>2, <3>1, <3>2 DEF OneSync, Running, Holding
  <2>3. c \in Warmups => t = Stderr
    BY <2>1, <2>2
  <2> QED
    BY <1>2, <2>1, <2>3 DEF EmitBegin
<1>3. ASSUME NEW c \in Calls, EmitEnd(c) PROVE WarmupsAgree'
  <2>1. CASE c \in Loads
    BY <1>3, <2>1 DEF EmitEnd, LinesAgree
  <2>2. CASE c \notin Loads
    BY <1>3, <2>2 DEF EmitEnd
  <2> QED
    BY <2>1, <2>2
<1>4. CASE UNCHANGED vars
  BY <1>4 DEF vars
<1> QED
  BY <1>1, <1>2, <1>3, <1>4 DEF Next, Step

LEMMA IInvStep ==
  ASSUME PromptsSwap = FALSE
  PROVE  IInv /\ [Next]_vars => IInv'
<1> SUFFICES ASSUME IInv, [Next]_vars PROVE IInv'
  OBVIOUS
<1>1. OnlyLoadsSwap' /\ OneSync'
  BY OnlyLoadsStep, OneSyncStep DEF IInv, AloneInv
<1>2. OneCapture /\ OneCapture'
  BY <1>1
  DEF IInv, AloneInv, OnlyLoadsSwap, OneSync, OneCapture, Capturing, Holding, Running, Calls,
      Sync
<1>3. AloneInv'
  BY <1>2, AloneStep DEF IInv
<1> QED
  BY <1>1, <1>3, WarmupsStep DEF IInv

\* The strengthened invariant holds in every state.
THEOREM Invariance ==
  ASSUME PromptsSwap = FALSE
  PROVE  Spec => []IInv
  BY InitIInv, IInvStep, PTL DEF Spec

\* On Android no two captures overlap, so that whenever no load is inside its capture
\* both loggers write to where they wrote before the first.
THEOREM RestoredAtRestCorrect ==
  ASSUME PromptsSwap = FALSE
  PROVE  Spec => []RestoredAtRest
<1>1. IInv => OneCapture
  BY LoadsAlone DEF IInv, AloneInv
<1> QED
  BY <1>1, AloneCorrect, Invariance, PTL

\* On Android the loggers never point at the LoadLog of a call that returned.
THEOREM TargetLiveCorrect ==
  ASSUME PromptsSwap = FALSE
  PROVE  Spec => []TargetLive
<1>1. IInv => OneCapture
  BY LoadsAlone DEF IInv, AloneInv
<1> QED
  BY <1>1, AloneCorrect, Invariance, PTL

\* On Android a load's error message quotes no other load and no warmup.
THEOREM LoadLinesCorrect ==
  ASSUME PromptsSwap = FALSE
  PROVE  Spec => []LoadLines
<1>1. IInv => LoadLines
  BY DEF IInv, AloneInv, LinesAgree
<1> QED
  BY <1>1, Invariance, PTL

\* On Android only a prompt can write to the LoadLog of a load that returned.
THEOREM SyncNotDeadCorrect ==
  ASSUME PromptsSwap = FALSE
  PROVE  Spec => []SyncNotDead
<1>1. IInv => SyncNotDead
  BY DEF IInv, WarmupsAgree
<1> QED
  BY <1>1, Invariance, PTL
=============================================================================
