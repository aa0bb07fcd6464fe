------------------------------ MODULE DecodeProofs ------------------------------
(***************************************************************************)
(* One generation, for prompts, contexts and limits of any size.           *)
(***************************************************************************)
EXTENDS Decode, TLAPS

\* The arguments of a call are numbers.
LEMMA InputTypes ==
  ASSUME in \in Inputs
  PROVE  /\ in.tokens \in Nat /\ in.trained \in Nat
         /\ in.maxInput \in Int /\ in.maxContext \in Int /\ in.maxOutput \in Int
         /\ in.kind \in {"prompt", "warmup"}
  BY SizesAssumption, LimitsAssumption DEF Inputs

\* Every step keeps each variable in its range.
LEMMA TypeStep == TypeOK /\ [Next]_vars => TypeOK'
<1> SUFFICES ASSUME TypeOK, [Next]_vars PROVE TypeOK'
  OBVIOUS
<1> USE InputTypes, WarmupAssumption
    DEF TypeOK, Pcs, Lifes, Stops, Errors, Goto, Throws, settings, generation
<1>1. CASE TokenizeFails
  BY <1>1 DEF TokenizeFails
<1>2. CASE CheckInput
  BY <1>2 DEF CheckInput
<1>3. CASE SizePrompt
  BY <1>3 DEF SizePrompt, PromptContext, WithinTrained, Lower
<1>4. CASE SizeWarmup
  BY <1>4 DEF SizeWarmup, WithinTrained, Lower
<1>5. CASE MakeContextFails \/ MakeContext \/ MakeSampler
  BY <1>5 DEF MakeContextFails, MakeContext, MakeSampler
<1>6. CASE LoopEnds \/ LoopContinues
  BY <1>6 DEF LoopEnds, LoopContinues
<1>7. CASE DecodeFails
  BY <1>7 DEF DecodeFails
<1>8. CASE Decode
  <2>1. kv' \in Nat
    BY <1>8 DEF Decode
  <2>2. stale' \in BOOLEAN
    BY <1>8, Zenon DEF Decode
  <2> QED
    BY <1>8, <2>1, <2>2 DEF Decode
<1>9. CASE SampleEog
  BY <1>9 DEF SampleEog
<1>10. CASE SamplePieceFails
  BY <1>10 DEF SamplePieceFails
<1>11. CASE Sample
  BY <1>11 DEF Sample
<1>12. CASE FreeSampler \/ FreeContext
  BY <1>12 DEF FreeSampler, FreeContext
<1>13. CASE UNCHANGED vars
  BY <1>13 DEF vars
<1> QED
  BY <1>1, <1>2, <1>3, <1>4, <1>5, <1>6, <1>7, <1>8, <1>9, <1>10, <1>11, <1>12, <1>13
  DEF Next

-----------------------------------------------------------------------------
(* The strengthened invariant, action by action *)

\* Sizes agree and nothing is made when a call comes in.
LEMMA InitIInv == Init => IInv
<1> SUFFICES ASSUME Init PROVE IInv
  OBVIOUS
<1> USE InputTypes DEF Init, Refused, Stopped
<1>1. TypeOK
  BY DEF TypeOK, Pcs, Lifes, Stops, Errors
<1>2. SizesAgree
  BY DEF SizesAgree
<1>3. LoopAgrees
  BY DEF LoopAgrees
<1>4. LifesAgree /\ RefusalIsTrue
  BY DEF LifesAgree, RefusalIsTrue
<1> QED
  BY <1>1, <1>2, <1>3, <1>4 DEF IInv

\* A prompt that cannot be tokenised leaves nothing behind.
LEMMA TokenizeFailsKeeps ==
  ASSUME IInv, TypeOK', TokenizeFails
  PROVE  IInv'
<1> USE InputTypes, WarmupAssumption
    DEF TypeOK, Pcs, Lifes, Stops, Errors, Goto, Throws, settings, generation, Refused,
        Stopped, Cached, InputTooLong, OutputFull, ContextFull, SizesAgree, LoopAgrees,
        LifesAgree, RefusalIsTrue, PromptContext, WithinTrained, Lower
<1>1. SizesAgree'
  BY DEF IInv, TokenizeFails
<1>2. LoopAgrees'
  BY DEF IInv, TokenizeFails
<1>3. LifesAgree'
  BY DEF IInv, TokenizeFails
<1>4. RefusalIsTrue'
  BY DEF IInv, TokenizeFails
<1> QED
  BY <1>1, <1>2, <1>3, <1>4 DEF IInv

\* The check of maxInputTokens decides what is known of the prompt's size.
LEMMA CheckInputKeeps ==
  ASSUME IInv, TypeOK', CheckInput
  PROVE  IInv'
<1> USE InputTypes, WarmupAssumption
    DEF TypeOK, Pcs, Lifes, Stops, Errors, Goto, Throws, settings, generation, Refused,
        Stopped, Cached, InputTooLong, OutputFull, ContextFull, SizesAgree, LoopAgrees,
        LifesAgree, RefusalIsTrue, PromptContext, WithinTrained, Lower
<1>1. SizesAgree'
  BY DEF IInv, CheckInput
<1>2. LoopAgrees'
  BY DEF IInv, CheckInput
<1>3. LifesAgree'
  BY DEF IInv, CheckInput
<1>4. RefusalIsTrue'
  BY DEF IInv, CheckInput
<1> QED
  BY <1>1, <1>2, <1>3, <1>4 DEF IInv

\* The context is sized within what the caller and the model allow, and the prompt within it.
LEMMA SizePromptKeeps ==
  ASSUME IInv, TypeOK', SizePrompt
  PROVE  IInv'
<1> USE InputTypes, WarmupAssumption
    DEF TypeOK, Pcs, Lifes, Stops, Errors, Goto, Throws, settings, generation, Refused,
        Stopped, Cached, InputTooLong, OutputFull, ContextFull, SizesAgree, LoopAgrees,
        LifesAgree, RefusalIsTrue, PromptContext, WithinTrained, Lower
<1>1. SizesAgree'
  BY DEF IInv, SizePrompt
<1>2. LoopAgrees'
  BY DEF IInv, SizePrompt
<1>3. LifesAgree'
  BY DEF IInv, SizePrompt
<1>4. RefusalIsTrue'
  BY DEF IInv, SizePrompt
<1> QED
  BY <1>1, <1>2, <1>3, <1>4 DEF IInv

\* A warmup's context has at least one position.
LEMMA SizeWarmupKeeps ==
  ASSUME IInv, TypeOK', SizeWarmup
  PROVE  IInv'
<1> USE InputTypes, WarmupAssumption
    DEF TypeOK, Pcs, Lifes, Stops, Errors, Goto, Throws, settings, generation, Refused,
        Stopped, Cached, InputTooLong, OutputFull, ContextFull, SizesAgree, LoopAgrees,
        LifesAgree, RefusalIsTrue, PromptContext, WithinTrained, Lower
<1>1. SizesAgree'
  BY DEF IInv, SizeWarmup
<1>2. LoopAgrees'
  BY DEF IInv, SizeWarmup
<1>3. LifesAgree'
  BY DEF IInv, SizeWarmup
<1>4. RefusalIsTrue'
  BY DEF IInv, SizeWarmup
<1> QED
  BY <1>1, <1>2, <1>3, <1>4 DEF IInv

\* A context that cannot be made leaves nothing behind.
LEMMA MakeContextFailsKeeps ==
  ASSUME IInv, TypeOK', MakeContextFails
  PROVE  IInv'
<1> USE InputTypes, WarmupAssumption
    DEF TypeOK, Pcs, Lifes, Stops, Errors, Goto, Throws, settings, generation, Refused,
        Stopped, Cached, InputTooLong, OutputFull, ContextFull, SizesAgree, LoopAgrees,
        LifesAgree, RefusalIsTrue, PromptContext, WithinTrained, Lower
<1>1. SizesAgree'
  BY DEF IInv, MakeContextFails
<1>2. LoopAgrees'
  BY DEF IInv, MakeContextFails
<1>3. LifesAgree'
  BY DEF IInv, MakeContextFails
<1>4. RefusalIsTrue'
  BY DEF IInv, MakeContextFails
<1> QED
  BY <1>1, <1>2, <1>3, <1>4 DEF IInv

\* The first batch is the prompt, or the bos token.
LEMMA MakeContextKeeps ==
  ASSUME IInv, TypeOK', MakeContext
  PROVE  IInv'
<1> USE InputTypes, WarmupAssumption
    DEF TypeOK, Pcs, Lifes, Stops, Errors, Goto, Throws, settings, generation, Refused,
        Stopped, Cached, InputTooLong, OutputFull, ContextFull, SizesAgree, LoopAgrees,
        LifesAgree, RefusalIsTrue, PromptContext, WithinTrained, Lower
<1>1. SizesAgree'
  BY DEF IInv, MakeContext
<1>2. LoopAgrees'
  BY DEF IInv, MakeContext
<1>3. LifesAgree'
  BY DEF IInv, MakeContext
<1>4. RefusalIsTrue'
  BY DEF IInv, MakeContext
<1> QED
  BY <1>1, <1>2, <1>3, <1>4 DEF IInv

\* The loop starts with an empty cache.
LEMMA MakeSamplerKeeps ==
  ASSUME IInv, TypeOK', MakeSampler
  PROVE  IInv'
<1> USE InputTypes, WarmupAssumption
    DEF TypeOK, Pcs, Lifes, Stops, Errors, Goto, Throws, settings, generation, Refused,
        Stopped, Cached, InputTooLong, OutputFull, ContextFull, SizesAgree, LoopAgrees,
        LifesAgree, RefusalIsTrue, PromptContext, WithinTrained, Lower
<1>1. SizesAgree'
  BY DEF IInv, MakeSampler
<1>2. LoopAgrees'
  BY DEF IInv, MakeSampler
<1>3. LifesAgree'
  BY DEF IInv, MakeSampler
<1>4. RefusalIsTrue'
  BY DEF IInv, MakeSampler
<1> QED
  BY <1>1, <1>2, <1>3, <1>4 DEF IInv

\* The loop ends at a limit or at the context's last position.
LEMMA LoopEndsKeeps ==
  ASSUME IInv, TypeOK', LoopEnds
  PROVE  IInv'
<1> USE InputTypes, WarmupAssumption
    DEF TypeOK, Pcs, Lifes, Stops, Errors, Goto, Throws, settings, generation, Refused,
        Stopped, Cached, InputTooLong, OutputFull, ContextFull, SizesAgree, LoopAgrees,
        LifesAgree, RefusalIsTrue, PromptContext, WithinTrained, Lower
<1>1. SizesAgree'
  BY DEF IInv, LoopEnds
<1>2. LoopAgrees'
  BY DEF IInv, LoopEnds
<1>3. LifesAgree'
  BY DEF IInv, LoopEnds
<1>4. RefusalIsTrue'
  BY DEF IInv, LoopEnds
<1> QED
  BY <1>1, <1>2, <1>3, <1>4 DEF IInv

\* The loop goes on only with room left.
LEMMA LoopContinuesKeeps ==
  ASSUME IInv, TypeOK', LoopContinues
  PROVE  IInv'
<1> USE InputTypes, WarmupAssumption
    DEF TypeOK, Pcs, Lifes, Stops, Errors, Goto, Throws, settings, generation, Refused,
        Stopped, Cached, InputTooLong, OutputFull, ContextFull, SizesAgree, LoopAgrees,
        LifesAgree, RefusalIsTrue, PromptContext, WithinTrained, Lower
<1>1. SizesAgree'
  BY DEF IInv, LoopContinues
<1>2. LoopAgrees'
  BY DEF IInv, LoopContinues
<1>3. LifesAgree'
  BY DEF IInv, LoopContinues
<1>4. RefusalIsTrue'
  BY DEF IInv, LoopContinues
<1> QED
  BY <1>1, <1>2, <1>3, <1>4 DEF IInv

\* A failed decode goes to where what exists is freed.
LEMMA DecodeFailsKeeps ==
  ASSUME IInv, TypeOK', DecodeFails
  PROVE  IInv'
<1> USE InputTypes, WarmupAssumption
    DEF TypeOK, Pcs, Lifes, Stops, Errors, Goto, Throws, settings, generation, Refused,
        Stopped, Cached, InputTooLong, OutputFull, ContextFull, SizesAgree, LoopAgrees,
        LifesAgree, RefusalIsTrue, PromptContext, WithinTrained, Lower
<1>1. SizesAgree'
  BY DEF IInv, DecodeFails
<1>2. LoopAgrees'
  BY DEF IInv, DecodeFails
<1>3. LifesAgree'
  BY DEF IInv, DecodeFails
<1>4. RefusalIsTrue'
  BY DEF IInv, DecodeFails
<1> QED
  BY <1>1, <1>2, <1>3, <1>4 DEF IInv

\* A decode moves the cache by the batch.
LEMMA DecodeKeeps ==
  ASSUME IInv, TypeOK', Decode
  PROVE  IInv'
<1> USE InputTypes, WarmupAssumption
    DEF TypeOK, Pcs, Lifes, Stops, Errors, Goto, Throws, settings, generation, Refused,
        Stopped, Cached, InputTooLong, OutputFull, ContextFull, SizesAgree, LoopAgrees,
        LifesAgree, RefusalIsTrue, PromptContext, WithinTrained, Lower
<1>1. SizesAgree'
  BY DEF IInv, Decode
<1>2. LoopAgrees'
  BY DEF IInv, Decode
<1>3. LifesAgree'
  BY DEF IInv, Decode
<1>4. RefusalIsTrue'
  BY DEF IInv, Decode
<1> QED
  BY <1>1, <1>2, <1>3, <1>4 DEF IInv

\* The model's own stop comes with all of the answer decoded.
LEMMA SampleEogKeeps ==
  ASSUME IInv, TypeOK', SampleEog
  PROVE  IInv'
<1> USE InputTypes, WarmupAssumption
    DEF TypeOK, Pcs, Lifes, Stops, Errors, Goto, Throws, settings, generation, Refused,
        Stopped, Cached, InputTooLong, OutputFull, ContextFull, SizesAgree, LoopAgrees,
        LifesAgree, RefusalIsTrue, PromptContext, WithinTrained, Lower
<1>1. SizesAgree'
  BY DEF IInv, SampleEog
<1>2. LoopAgrees'
  BY DEF IInv, SampleEog
<1>3. LifesAgree'
  BY DEF IInv, SampleEog
<1>4. RefusalIsTrue'
  BY DEF IInv, SampleEog
<1> QED
  BY <1>1, <1>2, <1>3, <1>4 DEF IInv

\* A token without text goes to where what exists is freed.
LEMMA SamplePieceFailsKeeps ==
  ASSUME IInv, TypeOK', SamplePieceFails
  PROVE  IInv'
<1> USE InputTypes, WarmupAssumption
    DEF TypeOK, Pcs, Lifes, Stops, Errors, Goto, Throws, settings, generation, Refused,
        Stopped, Cached, InputTooLong, OutputFull, ContextFull, SizesAgree, LoopAgrees,
        LifesAgree, RefusalIsTrue, PromptContext, WithinTrained, Lower
<1>1. SizesAgree'
  BY DEF IInv, SamplePieceFails
<1>2. LoopAgrees'
  BY DEF IInv, SamplePieceFails
<1>3. LifesAgree'
  BY DEF IInv, SamplePieceFails
<1>4. RefusalIsTrue'
  BY DEF IInv, SamplePieceFails
<1> QED
  BY <1>1, <1>2, <1>3, <1>4 DEF IInv

\* The counter moves by one and the next batch is one token.
LEMMA SampleKeeps ==
  ASSUME IInv, TypeOK', Sample
  PROVE  IInv'
<1> USE InputTypes, WarmupAssumption
    DEF TypeOK, Pcs, Lifes, Stops, Errors, Goto, Throws, settings, generation, Refused,
        Stopped, Cached, InputTooLong, OutputFull, ContextFull, SizesAgree, LoopAgrees,
        LifesAgree, RefusalIsTrue, PromptContext, WithinTrained, Lower
<1>1. SizesAgree'
  BY DEF IInv, Sample
<1>2. LoopAgrees'
  BY DEF IInv, Sample
<1>3. LifesAgree'
  BY DEF IInv, Sample
<1>4. RefusalIsTrue'
  BY DEF IInv, Sample
<1> QED
  BY <1>1, <1>2, <1>3, <1>4 DEF IInv

\* The sampler goes before the context.
LEMMA FreeSamplerKeeps ==
  ASSUME IInv, TypeOK', FreeSampler
  PROVE  IInv'
<1> USE InputTypes, WarmupAssumption
    DEF TypeOK, Pcs, Lifes, Stops, Errors, Goto, Throws, settings, generation, Refused,
        Stopped, Cached, InputTooLong, OutputFull, ContextFull, SizesAgree, LoopAgrees,
        LifesAgree, RefusalIsTrue, PromptContext, WithinTrained, Lower
<1>1. SizesAgree'
  BY DEF IInv, FreeSampler
<1>2. LoopAgrees'
  BY DEF IInv, FreeSampler
<1>3. LifesAgree'
  BY DEF IInv, FreeSampler
<1>4. RefusalIsTrue'
  BY DEF IInv, FreeSampler
<1> QED
  BY <1>1, <1>2, <1>3, <1>4 DEF IInv

\* The context goes last.
LEMMA FreeContextKeeps ==
  ASSUME IInv, TypeOK', FreeContext
  PROVE  IInv'
<1> USE InputTypes, WarmupAssumption
    DEF TypeOK, Pcs, Lifes, Stops, Errors, Goto, Throws, settings, generation, Refused,
        Stopped, Cached, InputTooLong, OutputFull, ContextFull, SizesAgree, LoopAgrees,
        LifesAgree, RefusalIsTrue, PromptContext, WithinTrained, Lower
<1>1. SizesAgree'
  BY DEF IInv, FreeContext
<1>2. LoopAgrees'
  BY DEF IInv, FreeContext
<1>3. LifesAgree'
  BY DEF IInv, FreeContext
<1>4. RefusalIsTrue'
  BY DEF IInv, FreeContext
<1> QED
  BY <1>1, <1>2, <1>3, <1>4 DEF IInv

-----------------------------------------------------------------------------
(* What follows *)

\* The strengthened invariant is kept by every step.
LEMMA IInvStep == IInv /\ [Next]_vars => IInv'
<1> SUFFICES ASSUME IInv, [Next]_vars PROVE IInv'
  OBVIOUS
<1>1. TypeOK'
  BY TypeStep DEF IInv
<1>2. CASE Next
  BY <1>1, <1>2, TokenizeFailsKeeps, CheckInputKeeps, SizePromptKeeps, SizeWarmupKeeps,
     MakeContextFailsKeeps, MakeContextKeeps, MakeSamplerKeeps, LoopEndsKeeps,
     LoopContinuesKeeps, DecodeFailsKeeps, DecodeKeeps, SampleEogKeeps,
     SamplePieceFailsKeeps, SampleKeeps, FreeSamplerKeeps, FreeContextKeeps
  DEF Next
<1>3. CASE UNCHANGED vars
  BY <1>1, <1>3
  DEF vars, IInv, SizesAgree, LoopAgrees, LifesAgree, RefusalIsTrue, Refused, Stopped,
      Cached, InputTooLong, OutputFull, ContextFull, PromptContext, WithinTrained, Lower
<1> QED
  BY <1>2, <1>3

\* The strengthened invariant holds in every state of every call.
THEOREM Invariance == Spec => []IInv
  BY InitIInv, IInvStep, PTL DEF Spec

\* llama_decode's assertion on the batch never fails, and there is always room.
THEOREM RoomForBatchCorrect == Spec => []RoomForBatch
<1>1. IInv => RoomForBatch
  BY InputTypes
  DEF IInv, TypeOK, RoomForBatch, SizesAgree, LoopAgrees, Refused, Cached, ContextFull, Lower
<1> QED
  BY <1>1, Invariance, PTL

\* Every way out of the function frees the context and the sampler it made.
THEOREM ReleasedCorrect == Spec => []Released
<1>1. IInv => Released
  BY DEF IInv, Released, LifesAgree
<1> QED
  BY <1>1, Invariance, PTL

\* An answer keeps every limit of the caller and of the model.
THEOREM LimitsKeptCorrect == Spec => []LimitsKept
<1>1. IInv => LimitsKept
  BY InputTypes
  DEF IInv, TypeOK, LimitsKept, Answered, SizesAgree, LoopAgrees, Stopped, Refused,
      InputTooLong, OutputFull, ContextFull, PromptContext, WithinTrained, Lower
<1> QED
  BY <1>1, Invariance, PTL

\* An answer ends because the model stopped or because a limit is used up.
THEOREM StopsForAReasonCorrect == Spec => []StopsForAReason
<1>1. IInv => StopsForAReason
  BY InputTypes
  DEF IInv, TypeOK, StopsForAReason, Answered, SizesAgree, LoopAgrees, Stopped, Refused,
      OutputFull, ContextFull, PromptContext, WithinTrained, Lower
<1> QED
  BY <1>1, Invariance, PTL

\* The cache holds the prompt and all of the answer but a last, undecoded token.
THEOREM CacheInStepCorrect == Spec => []CacheInStep
<1>1. IInv => CacheInStep
  BY InputTypes
  DEF IInv, TypeOK, CacheInStep, Answered, LoopAgrees, Stopped, Cached, OutputFull,
      ContextFull
<1> QED
  BY <1>1, Invariance, PTL

\* A prompt is refused for its length only when it is too long.
THEOREM RefusalIsTrueCorrect == Spec => []RefusalIsTrue
<1>1. IInv => RefusalIsTrue
  BY DEF IInv
<1> QED
  BY <1>1, Invariance, PTL

-----------------------------------------------------------------------------
(* How long a call can go on *)

\* The room for an answer is a number, and depends on the arguments and on the
\* tokens generated.
LEMMA RoomType == TypeOK => Room \in Nat /\ PromptContext \in Nat
  BY InputTypes DEF TypeOK, Room, PromptContext, WithinTrained, Lower

\* A step that samples no token leaves the room as it is.
LEMMA SameRoom == UNCHANGED <<in, generated>> => Room' = Room
  BY DEF Room, PromptContext, WithinTrained, Lower

\* A token that is sampled has room, and takes it.
LEMMA SampleTakesRoom ==
  ASSUME IInv, Sample
  PROVE  Room >= 1 /\ Room' = Room - 1
<1> USE DEF IInv, TypeOK, Sample, Goto, settings
<1>1. in.kind = "prompt"
  BY InputTypes DEF SizesAgree
<1>2. n_ctx = PromptContext /\ in.tokens + generated < n_ctx
  BY <1>1, InputTypes, RoomType DEF SizesAgree, LoopAgrees, Refused, ContextFull
<1>3. PromptContext' = PromptContext /\ PromptContext \in Nat
  BY RoomType DEF PromptContext, WithinTrained, Lower
<1>4. Room = PromptContext - (in.tokens + generated)
  BY <1>1, <1>2, <1>3, InputTypes DEF Room
<1>5. Room' = PromptContext - (in.tokens + generated + 1)
  BY <1>1, <1>2, <1>3, InputTypes DEF Room
<1> QED
  BY <1>2, <1>3, <1>4, <1>5, InputTypes

\* Every step of a call brings its end nearer, whatever the sizes and the limits.
THEOREM EndsNearerCorrect == Spec => EndsNearer
<1>1. IInv /\ [Next]_vars => [StepsLeft' \in Nat /\ StepsLeft' < StepsLeft]_vars
  <2> SUFFICES ASSUME IInv, Next PROVE StepsLeft' \in Nat /\ StepsLeft' < StepsLeft
    OBVIOUS
  <2>1. Room \in Nat
    BY RoomType DEF IInv
  <2>2. CASE Sample
    <3>1. Room >= 1 /\ Room' = Room - 1
      BY <2>2, SampleTakesRoom
    <3> QED
      BY <2>1, <2>2, <3>1 DEF Sample, Goto, StepsLeft
  <2>3. CASE ~Sample
    <3>1. Room' = Room
      BY <2>3, SameRoom
      DEF Next, TokenizeFails, CheckInput, SizePrompt, SizeWarmup, MakeContextFails, MakeContext,
          MakeSampler, LoopEnds, LoopContinues, DecodeFails, Decode, SampleEog,
          SamplePieceFails, FreeSampler, FreeContext, settings, generation
    <3>2. CASE TokenizeFails \/ CheckInput \/ SizePrompt \/ SizeWarmup \/ MakeContextFails
      BY <2>1, <3>1, <3>2
      DEF TokenizeFails, CheckInput, SizePrompt, SizeWarmup, MakeContextFails, Throws, Goto,
          StepsLeft
    <3>3. CASE MakeContext \/ MakeSampler \/ LoopEnds \/ LoopContinues
      BY <2>1, <3>1, <3>3
      DEF MakeContext, MakeSampler, LoopEnds, LoopContinues, Goto, StepsLeft
    <3>4. CASE DecodeFails \/ Decode \/ SampleEog \/ SamplePieceFails
      BY <2>1, <3>1, <3>4
      DEF DecodeFails, Decode, SampleEog, SamplePieceFails, Goto, StepsLeft
    <3>5. CASE FreeSampler \/ FreeContext
      BY <2>1, <3>1, <3>5 DEF FreeSampler, FreeContext, Goto, StepsLeft
    <3> QED
      BY <2>3, <3>2, <3>3, <3>4, <3>5 DEF Next
  <2> QED
    BY <2>2, <2>3
<1> QED
  BY <1>1, Invariance, PTL DEF Spec, EndsNearer
=============================================================================
