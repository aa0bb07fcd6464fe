--------------------------- MODULE PromptCallProofs ---------------------------
(***************************************************************************)
(* What becomes of the application's limits and texts, for any options,    *)
(* any width of integer, any sizes and any texts: the call is one that     *)
(* module Decode describes, so the limits proved there are kept; what is   *)
(* converted is what the application said, and what format_prompt splits   *)
(* is what buildPrompt put together.                                       *)
(***************************************************************************)
EXTENDS PromptCall, DecodeProofs, SequenceTheorems, WellFoundedInduction

-----------------------------------------------------------------------------
(* Conversions *)

\* Where Swift's conversion exists, it gives what Kotlin's gives.
THEOREM PlatformsAgree ==
  ASSUME NEW v \in JsNumbers, FitsInt32(v)
  PROVE  toInt(v) = Truncated(v)
  BY NumbersAssumption, IntAssumption DEF JsNumbers, FitsInt32, toInt

\* What is passed on for a limit the application left out or set.
LEMMA LimitSaid ==
  ASSUME request \in Requests, NEW f \in Passed
  PROVE  /\ f \in Fields
         /\ Said(f) \in JsNumbers
         /\ Limit(f) = IF Said(f) \in {Undefined, NaN} THEN 0 ELSE Said(f)
<1>1. f \in Fields
  BY DEF Passed, Fields
<1>2. Said(f) = merged(f)
  BY RequestsAssumption DEF Said, merged
<1>3. Said(f) \in JsNumbers
  BY <1>1, RequestsAssumption DEF Said
<1> QED
  BY <1>1, <1>2, <1>3 DEF Limit, nativeLimit

\* Cutting off the fraction and saturating leave a number from 1 up above 0, and
\* make it no larger.
LEMMA ConvertedAboveOne ==
  ASSUME NEW v \in Int, v >= 2
  PROVE  toInt(v) \in Int /\ toInt(v) > 0 /\ 2 * toInt(v) <= v
<1>1. v \notin {NaN, Infinity, NegInfinity}
  BY NumbersAssumption
<1>2. Truncated(v) = v \div 2
  BY DEF Truncated
<1>3. v \div 2 \in Int /\ v \div 2 >= 1 /\ 2 * (v \div 2) <= v
  OBVIOUS
<1>4. toInt(v) = IF v \div 2 > MaxInt THEN MaxInt ELSE v \div 2
  BY <1>1, <1>2, <1>3, IntAssumption DEF toInt
<1> QED
  BY <1>3, <1>4, IntAssumption

\* A number from 1 up becomes a limit that is no larger.
LEMMA LimitConverted ==
  ASSUME request \in Requests, NEW f \in Passed, IsLimit(f)
  PROVE  /\ Said(f) \in Int
         /\ toInt(Limit(f)) \in Int
         /\ toInt(Limit(f)) > 0
         /\ 2 * toInt(Limit(f)) <= Said(f)
<1>1. Said(f) \in Int /\ Said(f) >= 2 /\ Limit(f) = Said(f)
  BY LimitSaid DEF IsLimit, JsNumbers
<1> QED
  BY <1>1, ConvertedAboveOne

\* Conversely, only a number from 1 up, or plus infinity, becomes a limit, and it is
\* the number without its fraction or the largest there is.
LEMMA OnlyLimitsConverted ==
  ASSUME request \in Requests, NEW f \in Passed, toInt(Limit(f)) > 0
  PROVE  /\ toInt(Limit(f)) \in 1 .. MaxInt
         /\ toInt(Limit(f)) # MaxInt =>
              IsLimit(f) /\ Said(f) \in Int /\ Said(f) < 2 * (toInt(Limit(f)) + 1)
<1> DEFINE v == Said(f)
<1>1. v \in JsNumbers /\ Limit(f) = IF v \in {Undefined, NaN} THEN 0 ELSE v
  BY LimitSaid
<1>2. IsLimit(f) <=> v \notin {Undefined, NaN, Infinity, NegInfinity} /\ v >= 2
  BY Zenon DEF IsLimit
<1> HIDE DEF v
<1>3. CASE v \in {Undefined, NaN}
  <2>1. toInt(Limit(f)) = 0
    BY <1>1, <1>3, NumbersAssumption, IntAssumption DEF toInt, Truncated
  <2> QED
    BY <2>1
<1>4. CASE v = NegInfinity
  <2>1. toInt(Limit(f)) = 0 - MaxInt - 1
    BY <1>1, <1>4, NumbersAssumption DEF toInt
  <2> QED
    BY <2>1, IntAssumption
<1>5. CASE v = Infinity
  <2>1. toInt(Limit(f)) = MaxInt
    BY <1>1, <1>5, NumbersAssumption DEF toInt
  <2> QED
    BY <2>1, IntAssumption
<1>6. CASE v \in Int
  <2>1. v \notin {Undefined, NaN, Infinity, NegInfinity} /\ Limit(f) = v
    BY <1>1, <1>6, NumbersAssumption
  <2>2. CASE v >= 2
    <3>1. Truncated(v) = v \div 2
      BY <1>6, <2>2 DEF Truncated
    <3>2. v \div 2 \in Int /\ v \div 2 >= 1 /\ v < 2 * (v \div 2 + 1)
      BY <1>6, <2>2
    <3>3. toInt(v) = IF v \div 2 > MaxInt THEN MaxInt ELSE v \div 2
      BY <2>1, <3>1, <3>2, IntAssumption DEF toInt
    <3>4. IsLimit(f)
      BY <1>2, <2>1, <2>2
    <3> QED
      BY <1>6, <2>1, <3>2, <3>3, <3>4, IntAssumption DEF v
  <2>3. CASE v < 2
    <3>1. Truncated(v) <= 0 /\ Truncated(v) \in Int
      <4>1. CASE v >= 0
        BY <1>6, <2>3, <4>1 DEF Truncated
      <4>2. CASE v < 0
        <5>1. (0 - v) \div 2 \in Int /\ (0 - v) \div 2 >= 0
          BY <1>6, <4>2
        <5> QED
          BY <1>6, <4>2, <5>1 DEF Truncated
      <4> QED
        BY <1>6, <4>1, <4>2
    <3>2. toInt(v) <= 0
      BY <2>1, <3>1, IntAssumption DEF toInt
    <3>3. toInt(v) \in Int
      BY <2>1, <3>1, IntAssumption DEF toInt
    <3> QED
      BY <2>1, <3>2, <3>3
  <2> QED
    BY <1>6, <2>2, <2>3
<1> QED
  BY <1>1, <1>3, <1>4, <1>5, <1>6 DEF JsNumbers

-----------------------------------------------------------------------------
(* The call is one of module Decode *)

\* The arguments do not change while the native function runs.
LEMMA NextKeepsIn == Next => in' = in
  BY DEF Next, TokenizeFails, CheckInput, SizePrompt, SizeWarmup, MakeContextFails,
         MakeContext, MakeSampler, LoopEnds, LoopContinues, DecodeFails, Decode, SampleEog,
         SamplePieceFails, Sample, FreeSampler, FreeContext, settings

\* Every step of the call is a step of the native function, or none.
LEMMA CallStepIsStep == [CallNext]_callAllVars => [Next]_vars
  BY DEF CallNext, Convert, FormatChat, FormatPlain, Run, callAllVars

\* All that is proved of Decode is true of the calls the application makes.
THEOREM CallIsDecode == CallSpec => Spec
<1>1. CallInit => Init
  BY DEF CallInit
<1> QED
  BY <1>1, CallStepIsStep, PTL DEF CallSpec, Spec

\* The native function's arguments are what the application said, converted, and
\* the process only stops where they cannot be.
ArgumentsAgree ==
  /\ request \in Requests
  /\ in.kind = request.kind
  /\ in.kind = "prompt" =>
       /\ in.maxInput = toInt(Limit("input"))
       /\ in.maxContext = toInt(Limit("context"))
       /\ in.maxOutput = toInt(Limit("output"))
  /\ in.kind = "warmup" => in.maxInput = 0
  /\ stage = "trapped" => Traps

LEMMA InitAgrees == CallInit => ArgumentsAgree
  BY RequestsAssumption DEF CallInit, Arguments, ArgumentsAgree

LEMMA StepAgrees == ArgumentsAgree /\ [CallNext]_callAllVars => ArgumentsAgree'
<1> SUFFICES ASSUME ArgumentsAgree, [CallNext]_callAllVars PROVE ArgumentsAgree'
  OBVIOUS
<1>1. UNCHANGED <<in, request>>
  BY NextKeepsIn DEF CallNext, Convert, FormatChat, FormatPlain, Run, callAllVars, callVars,
                     vars
<1>2. stage' = "trapped" => Traps
  BY DEF ArgumentsAgree, CallNext, Convert, FormatChat, FormatPlain, Run, callAllVars,
         callVars
<1>3. Traps' = Traps
  BY <1>1 DEF Traps, Passed, FitsInt32, Truncated, Limit, nativeLimit, merged
<1>4. \A f : Limit(f)' = Limit(f)
  BY <1>1 DEF Limit, nativeLimit, merged
<1> QED
  BY <1>1, <1>2, <1>3, <1>4 DEF ArgumentsAgree, toInt, Truncated

-----------------------------------------------------------------------------
(* What follows *)

\* Whatever the application sets as a default or as an override, an answer keeps
\* it, also where its value is cut off or saturates on the way.
THEOREM CallerLimitsKeptCorrect == CallSpec => []CallerLimitsKept
<1>1. IInv /\ LimitsKept /\ ArgumentsAgree => CallerLimitsKept
  <2> SUFFICES ASSUME IInv, LimitsKept, ArgumentsAgree, Answered PROVE CallerLimitsKept
    BY DEF CallerLimitsKept
  <2>1. /\ in.kind = "prompt" /\ request \in Requests
        /\ in.tokens \in Nat /\ generated \in Nat
    BY SizesAssumption DEF Answered, ArgumentsAgree, IInv, TypeOK, Inputs
  <2>2. Passed = Fields /\ {"input", "context", "output"} \subseteq Fields
    BY <2>1 DEF Passed, ArgumentsAgree, Fields
  <2>3. ASSUME IsLimit("input") PROVE 2 * in.tokens <= Said("input")
    BY <2>1, <2>2, <2>3, LimitConverted DEF LimitsKept, ArgumentsAgree
  <2>4. ASSUME IsLimit("context") PROVE 2 * (in.tokens + generated) <= Said("context")
    BY <2>1, <2>2, <2>4, LimitConverted DEF LimitsKept, ArgumentsAgree
  <2>5. ASSUME IsLimit("output") PROVE 2 * generated <= Said("output")
    BY <2>1, <2>2, <2>5, LimitConverted DEF LimitsKept, ArgumentsAgree
  <2> QED
    BY <2>3, <2>4, <2>5 DEF CallerLimitsKept
<1> QED
  BY <1>1, CallIsDecode, Invariance, LimitsKeptCorrect, InitAgrees, StepAgrees, PTL
  DEF CallSpec

\* The process stops at a limit only where that is infinite or beyond an int32.
THEOREM FalsyIsSafeCorrect == CallSpec => []FalsyIsSafe
<1>1. ArgumentsAgree => FalsyIsSafe
  <2> SUFFICES ASSUME ArgumentsAgree, stage = "trapped" PROVE FalsyIsSafe
    BY DEF FalsyIsSafe
  <2>1. PICK f \in Passed : ~FitsInt32(Limit(f))
    BY DEF ArgumentsAgree, Traps
  <2>2. /\ f \in Fields
        /\ Said(f) \in JsNumbers
        /\ Limit(f) = IF Said(f) \in {Undefined, NaN} THEN 0 ELSE Said(f)
    BY LimitSaid DEF ArgumentsAgree
  <2>3. FitsInt32(0)
    BY NumbersAssumption, IntAssumption DEF FitsInt32, Truncated
  <2>4. Limit(f) = Said(f) /\ Said(f) \notin {Undefined, NaN}
    BY <2>1, <2>2, <2>3
  <2>5. CASE Said(f) \in {Infinity, NegInfinity}
    BY <2>2, <2>5 DEF FalsyIsSafe
  <2>6. CASE Said(f) \in Int
    <3> DEFINE v == Said(f)
    <3>1. Truncated(v) \notin (0 - MaxInt - 1) .. MaxInt
      BY <2>1, <2>4, <2>6, NumbersAssumption DEF FitsInt32
    <3> HIDE DEF v
    <3>2. v \in Int
      BY <2>6 DEF v
    <3>3. v \div 2 \notin (0 - MaxInt - 1) .. MaxInt
      BY <3>1, <3>2, IntAssumption DEF Truncated
    <3> QED
      BY <2>2, <2>4, <3>3 DEF FalsyIsSafe, v
  <2> QED
    BY <2>2, <2>4, <2>5, <2>6 DEF JsNumbers
<1> QED
  BY <1>1, InitAgrees, StepAgrees, PTL DEF CallSpec

\* What ended the generation loop holds from there on.
LEMMA StopSaysWhyStep == IInv /\ StopSaysWhy /\ [Next]_vars => StopSaysWhy'
<1> SUFFICES ASSUME IInv, StopSaysWhy, [Next]_vars PROVE StopSaysWhy'
  OBVIOUS
<1>2. CASE LoopEnds
  BY <1>2 DEF LoopEnds, StopSaysWhy, OutputFull, ContextFull, settings
<1>3. CASE Sample
  BY <1>3 DEF Sample, StopSaysWhy, Goto, IInv, SizesAgree
<1>4. CASE SampleEog
  BY <1>4 DEF SampleEog, StopSaysWhy
<1>5. CASE SizePrompt \/ SizeWarmup
  BY <1>5 DEF SizePrompt, SizeWarmup, StopSaysWhy, Goto, generation, IInv, SizesAgree
<1>6. CASE UNCHANGED <<in, n_ctx, generated, stop>>
  BY <1>6 DEF StopSaysWhy, OutputFull, ContextFull
<1> QED
  BY <1>2, <1>3, <1>4, <1>5, <1>6
  DEF Next, TokenizeFails, CheckInput, MakeContextFails, MakeContext, MakeSampler,
      LoopContinues, DecodeFails, Decode, SamplePieceFails, FreeSampler, FreeContext,
      settings, generation, vars

LEMMA StopSaysWhyInit == Init => StopSaysWhy
  BY DEF Init, StopSaysWhy

\* Every prompt that got this far fits an int32, with a token to spare for its own.
LEMMA ContextFits ==
  ASSUME IInv, ArgumentsAgree, Answered, stop # "eog"
  PROVE  /\ in.tokens \in Nat /\ in.tokens > 0 /\ generated \in Nat
         /\ n_ctx = PromptContext /\ n_ctx \in Nat /\ n_ctx <= MaxInt
         /\ in.tokens + generated <= n_ctx
         /\ in.maxOutput > 0 => generated <= in.maxOutput
<1>1. /\ in.kind = "prompt" /\ pc = "returned" /\ error = "none" /\ in \in Inputs
      /\ generated \in Nat
  BY DEF Answered, IInv, TypeOK
<1>2. in.tokens \in Sizes /\ in.trained \in Sizes
  BY <1>1 DEF Inputs
<1>3. in.tokens > 0 /\ n_ctx = PromptContext
  BY <1>1 DEF IInv, SizesAgree, Refused
<1>4. in.tokens + generated <= n_ctx /\ (in.maxOutput > 0 => generated <= in.maxOutput)
  BY <1>1 DEF IInv, LoopAgrees, Stopped
<1>5. in.maxContext = toInt(Limit("context")) /\ request \in Requests /\ "context" \in Passed
  BY <1>1 DEF ArgumentsAgree, Passed, Fields
<1>6. in.maxContext > 0 => in.maxContext \in 1 .. MaxInt
  BY <1>5, OnlyLimitsConverted
<1>7. n_ctx \in Nat /\ n_ctx <= MaxInt
  <2>1. /\ in.tokens \in Nat /\ in.tokens <= MaxInt
        /\ in.trained \in Nat /\ in.trained <= MaxInt
    BY <1>2, SizesAssumption, IntAssumption
  <2>2. in.maxContext > 0 => in.maxContext \in Nat /\ in.maxContext <= MaxInt
    BY <1>6, IntAssumption
  <2> QED
    BY <1>3, <2>1, <2>2 DEF PromptContext, WithinTrained, Lower
<1> QED
  BY <1>1, <1>2, <1>3, <1>4, <1>7, SizesAssumption

\* Nothing is cut short or refused for a limit the application did not set, whatever
\* a falsy, negative, fractional, infinite or enormous number becomes on its way.
THEOREM NoLimitInventedCorrect == CallSpec => []NoLimitInvented
<1>1. IInv /\ StopSaysWhy /\ ArgumentsAgree => NoLimitInvented
  <2> SUFFICES ASSUME IInv, StopSaysWhy, ArgumentsAgree PROVE NoLimitInvented
    OBVIOUS
  <2>1. request \in Requests /\ in \in Inputs /\ in.tokens \in Sizes /\ in.tokens \in Nat
        /\ in.trained \in Sizes /\ in.trained \in Nat /\ in.tokens <= MaxInt
        /\ in.maxContext \in Int /\ in.maxOutput \in Int /\ in.maxInput \in Int
    BY InputTypes, IntAssumption DEF ArgumentsAgree, IInv, TypeOK, Inputs
  <2>2. in.kind = "prompt" => Passed = Fields
    BY DEF Passed, ArgumentsAgree
  <2>3. {"input", "context", "output"} \subseteq Fields
    BY DEF Fields
  <2>4. ASSUME Answered, stop = "limit"
        PROVE  IsLimit("output") /\ Said("output") < 2 * (generated + 1)
    <3>1. in.kind = "prompt" /\ in.maxOutput = toInt(Limit("output")) /\ "output" \in Passed
      BY <2>2, <2>3, <2>4 DEF Answered, ArgumentsAgree
    <3>2. in.maxOutput > 0 /\ generated >= in.maxOutput
      BY <2>4 DEF StopSaysWhy, OutputFull
    <3>3. generated = in.maxOutput /\ in.maxOutput < MaxInt
      BY <2>1, <2>4, <3>2, ContextFits, IntAssumption
    <3> QED
      BY <2>1, <3>1, <3>2, <3>3, OnlyLimitsConverted
  <2>5. ASSUME Answered, stop = "contextFull"
        PROVE  \/ in.tokens + generated = in.trained
               \/ IsLimit("context") /\ Said("context") < 2 * (in.tokens + generated + 1)
               \/ in.tokens + generated = MaxInt
               \/ in.trained = 0 /\ ~IsLimit("context")
    <3>1. in.kind = "prompt" /\ in.maxContext = toInt(Limit("context")) /\ "context" \in Passed
      BY <2>2, <2>3, <2>5 DEF Answered, ArgumentsAgree
    <3>2. in.tokens + generated = PromptContext
      <4>1. in.tokens + generated >= n_ctx
        BY <2>5 DEF StopSaysWhy, ContextFull
      <4>2. in.tokens + generated <= n_ctx /\ n_ctx = PromptContext /\ n_ctx \in Nat
            /\ generated \in Nat
        BY <2>5, ContextFits DEF IInv, TypeOK
      <4> QED
        BY <2>1, <4>1, <4>2
    <3>3. CASE in.maxContext > 0
      <4>1. PromptContext = in.trained \/ PromptContext = in.maxContext
        BY <3>3 DEF PromptContext, WithinTrained, Lower
      <4>2. CASE PromptContext = in.maxContext /\ in.maxContext # MaxInt
        BY <2>1, <3>1, <3>2, <3>3, <4>2, OnlyLimitsConverted
      <4> QED
        BY <3>2, <4>1, <4>2
    <3>4. CASE ~(in.maxContext > 0)
      <4>1. ~IsLimit("context")
        BY <2>1, <3>1, <3>4, LimitConverted
      <4>2. in.trained > 0 => PromptContext = in.trained
        BY <3>4 DEF PromptContext
      <4> QED
        BY <2>1, <3>2, <4>1, <4>2
    <3> QED
      BY <3>3, <3>4
  <2>6. ASSUME error = "maxInputTokens"
        PROVE  IsLimit("input") /\ 2 * in.tokens > Said("input")
    <3>1. in.maxInput > 0 /\ in.tokens > in.maxInput
      BY <2>6 DEF IInv, RefusalIsTrue
    <3>2. in.kind = "prompt"
      BY <2>1, <3>1, InputTypes DEF ArgumentsAgree
    <3>3. in.maxInput = toInt(Limit("input")) /\ "input" \in Passed
      BY <2>2, <2>3, <3>2 DEF ArgumentsAgree
    <3>4. in.maxInput # MaxInt
      BY <2>1, <3>1, IntAssumption
    <3>5. IsLimit("input") /\ Said("input") \in Int /\ Said("input") < 2 * (in.maxInput + 1)
      BY <2>1, <3>1, <3>3, <3>4, OnlyLimitsConverted
    <3> QED
      BY <2>1, <3>1, <3>5
  <2> QED
    BY <2>4, <2>5, <2>6 DEF NoLimitInvented
<1> QED
  BY <1>1, CallIsDecode, Invariance, StopSaysWhyInit, StopSaysWhyStep, InitAgrees, StepAgrees,
     PTL DEF CallSpec, Spec

-----------------------------------------------------------------------------
(* Texts *)

\* A set of numbers with something in it has a least one.
LEMMA MinOf ==
  ASSUME NEW S \in SUBSET Nat, S # {}
  PROVE  Min(S) \in S /\ \A k \in S : Min(S) <= k
<1>1. PICK m \in S : \A k \in S : ~(<<k, m>> \in OpToRel(<, Nat))
  BY NatLessThanWellFounded, WFMin
<1>2. \A k \in S : ~(k < m)
  BY <1>1 DEF OpToRel
<1>3. \A k \in S : m <= k
  BY <1>2
<1> QED
  BY <1>3 DEF Min

\* One that is bounded has a greatest one.
LEMMA MaxOf ==
  ASSUME NEW n \in Nat, NEW S \in SUBSET (0 .. n), S # {}
  PROVE  Max(S) \in S /\ \A k \in S : Max(S) >= k
<1> DEFINE T == {n - k : k \in S}
<1>1. T \in SUBSET Nat /\ T # {}
  <2>1. \A k \in S : n - k \in Nat
    OBVIOUS
  <2> QED
    BY <2>1
<1>2. Min(T) \in T /\ \A j \in T : Min(T) <= j
  BY <1>1, MinOf
<1>3. PICK m \in S : Min(T) = n - m
  BY <1>2
<1>4. \A k \in S : m >= k
  <2> TAKE k \in S
  <2>1. n - m <= n - k
    BY <1>2, <1>3
  <2> QED
    BY <2>1
<1> QED
  BY <1>4 DEF Max

\* Trimming leaves a text.
LEMMA TrimType ==
  ASSUME NEW s \in Seq(Pieces)
  PROVE  Trim(s) \in Seq(Pieces)
<1> DEFINE kept == {k \in DOMAIN s : s[k] # Brk}
<1>1. CASE kept = {}
  BY <1>1, EmptySeq DEF Trim
<1>2. CASE kept # {}
  <2>1. Len(s) \in Nat /\ DOMAIN s = 1 .. Len(s) /\ \A k \in 1 .. Len(s) : s[k] \in Pieces
    BY LenProperties, ElementOfSeq
  <2>2. kept \in SUBSET Nat /\ kept \in SUBSET (0 .. Len(s))
    BY <2>1
  <2>3. Min(kept) \in kept
    BY <1>2, <2>2, MinOf
  <2>4. Max(kept) \in kept
    BY <1>2, <2>1, <2>2, MaxOf
  <2> DEFINE m == Min(kept)
             n == Max(kept)
  <2>5. m \in 1 .. Len(s) /\ n \in 1 .. Len(s)
    BY <2>1, <2>3, <2>4
  <2>6. Trim(s) = SubSeq(s, m, n)
    BY <1>2 DEF Trim
  <2> HIDE DEF m, n, kept
  <2>7. SubSeq(s, m, n) \in Seq(Pieces)
    <3>1. \A k \in m .. n : s[k] \in Pieces
      BY <2>1, <2>5
    <3> QED
      BY <2>1, <2>5, <3>1, SubSeqProperties
  <2> QED
    BY <2>6, <2>7
<1> QED
  BY <1>1, <1>2

\* What JSON.stringify makes of the data is a text without a blank line.
LEMMA StringifyType ==
  ASSUME NEW data \in Seq(Pieces)
  PROVE  /\ Stringify(data) \in Seq(Pieces) /\ Len(Stringify(data)) = Len(data)
         /\ \A k \in 1 .. Len(data) : Stringify(data)[k] # Brk
<1>1. /\ Len(data) \in Nat /\ DOMAIN data = 1 .. Len(data)
      /\ \A k \in 1 .. Len(data) : data[k] \in Pieces
  BY LenProperties, ElementOfSeq
<1>2. Stringify(data) = [k \in 1 .. Len(data) |-> IF data[k] = Brk THEN "escaped" ELSE data[k]]
  BY <1>1 DEF Stringify
<1>3. "escaped" \in Pieces /\ "escaped" # Brk
  BY DEF Pieces, Brk
<1>4. Stringify(data) \in [1 .. Len(data) -> Pieces]
  BY <1>1, <1>2, <1>3
<1>5. \A k \in 1 .. Len(data) : Stringify(data)[k] # Brk
  BY <1>2, <1>3
<1> QED
  BY <1>1, <1>4, <1>5

\* The text c is a followed by b, piece by piece.
IsJoined(c, a, b) ==
  /\ Len(a) \in Nat /\ Len(b) \in Nat
  /\ c \in Seq(Pieces) /\ Len(c) = Len(a) + Len(b)
  /\ \A k \in 1 .. Len(a) : c[k] = a[k]
  /\ \A k \in 1 .. Len(b) : c[Len(a) + k] = b[k]

\* What two texts put together are.
LEMMA Joined ==
  ASSUME NEW a \in Seq(Pieces), NEW b \in Seq(Pieces)
  PROVE  IsJoined(a \o b, a, b)
<1>1. Len(a) \in Nat /\ Len(b) \in Nat
  BY LenProperties
<1> DEFINE c == a \o b
<1>2. /\ c \in Seq(Pieces) /\ Len(c) = Len(a) + Len(b)
      /\ \A k \in 1 .. Len(a) + Len(b) : c[k] = IF k <= Len(a) THEN a[k] ELSE b[k - Len(a)]
  BY ConcatProperties
<1> HIDE DEF c
<1>3. ASSUME NEW k \in 1 .. Len(b) PROVE c[Len(a) + k] = b[k]
  <2>1. Len(a) + k \in 1 .. Len(a) + Len(b) /\ ~(Len(a) + k <= Len(a)) /\ Len(a) + k - Len(a) = k
    BY <1>1
  <2> QED
    BY <1>2, <2>1
<1>4. \A k \in 1 .. Len(a) : c[k] = a[k]
  BY <1>1, <1>2
<1> QED
  BY <1>1, <1>2, <1>3, <1>4 DEF IsJoined, c

\* One piece is a text.
LEMMA OnePiece ==
  ASSUME NEW piece \in Pieces
  PROVE  <<piece>> \in Seq(Pieces) /\ Len(<<piece>>) = 1 /\ <<piece>>[1] = piece
  OBVIOUS

\* So are blank lines and headings.
LEMMA HeadingTypes == {Brk, "Scaffolding", "Context data", "User request"} \subseteq Pieces
  BY DEF Pieces

\* What a marker is.
LEMMA MarkerIs ==
  ASSUME NEW s, NEW k
  PROVE  k \in Markers(s) <=>
           k \in 1 .. Len(s) - 1 /\ s[k] = Brk /\ s[k + 1] = "User request"
  BY Zenon DEF Markers

\* What goes before the request ends where its first marker begins: between its
\* heading, first, and its last blank line it is the system's message.
SplitsAs(before, first, system) ==
  /\ before \in Seq(Pieces) /\ Len(before) >= 2
  /\ before[1] = first /\ before[Len(before)] = Brk /\ Markers(before) = {}
  /\ SubSeq(before, 2, Len(before) - 1) = system

\* A text that begins with the scaffolding's heading and has its first marker where
\* what goes before the request ends is split there.
LEMMA SplitAtBorder ==
  ASSUME NEW before \in Seq(Pieces), NEW asked \in Seq(Pieces),
         NEW system, SplitsAs(before, "Scaffolding", system)
  PROVE  Split(before \o <<"User request">> \o asked) =
           << [role |-> "system", text |-> system],
              [role |-> "user",   text |-> asked] >>
<1> DEFINE n == Len(before)
           heading == "User request"
           first == "Scaffolding"
           mark == <<heading>>
           h == before \o mark
           s == h \o asked
<1>1. n \in Nat /\ Len(asked) \in Nat
  BY LenProperties
<1>2. mark \in Seq(Pieces) /\ Len(mark) = 1 /\ mark[1] = heading
  BY HeadingTypes, OnePiece, Zenon
<1>3. \A q, k : k \in Markers(q) <=> k \in 1 .. Len(q) - 1 /\ q[k] = Brk /\ q[k + 1] = heading
  BY MarkerIs, Zenon
<1>4. /\ before \in Seq(Pieces) /\ n >= 2
      /\ before[1] = first /\ before[n] = Brk /\ Markers(before) = {}
      /\ SubSeq(before, 2, n - 1) = system
  BY Zenon DEF SplitsAs
<1> HIDE DEF mark, heading, first
<1>5. /\ h \in Seq(Pieces) /\ Len(h) = n + 1
      /\ h[n + 1] = heading /\ \A k \in 1 .. n : h[k] = before[k]
  <2>1. IsJoined(h, before, mark)
    BY <1>2, Joined
  <2> HIDE DEF h
  <2> QED
    BY ONLY <1>1, <1>2, <2>1 DEF IsJoined
<1> HIDE DEF h
<1>6. /\ s \in Seq(Pieces) /\ Len(s) = n + 1 + Len(asked)
      /\ \A k \in 1 .. n + 1 : s[k] = h[k]
  <2>1. IsJoined(s, h, asked)
    BY <1>5, Joined
  <2> HIDE DEF s
  <2> QED
    BY ONLY <1>1, <1>5, <2>1 DEF IsJoined
<1> HIDE DEF s
<1>7. s[n] = Brk /\ s[n + 1] = heading /\ s[1] = first
  <2>1. n \in 1 .. n /\ 1 \in 1 .. n /\ n + 1 \in 1 .. n + 1
        /\ n \in 1 .. n + 1 /\ 1 \in 1 .. n + 1
    BY ONLY <1>1, <1>4
  <2> HIDE DEF n
  <2> QED
    BY ONLY <1>4, <1>5, <1>6, <2>1
<1>8. n \in Markers(s) /\ Markers(s) \in SUBSET Nat
  <2>1. n \in 1 .. Len(s) - 1
    BY ONLY <1>1, <1>4, <1>6
  <2>2. n \in Markers(s)
    BY ONLY <1>3, <1>7, <2>1
  <2>3. ASSUME NEW k \in Markers(s) PROVE k \in Nat
    <3>1. k \in 1 .. Len(s) - 1
      BY ONLY <1>3, k \in Markers(s)
    <3> QED
      BY <1>1, <1>6, <3>1
  <2> QED
    BY <2>2, <2>3
<1>9. \A k \in Markers(s) : n <= k
  <2> SUFFICES ASSUME NEW k \in Markers(s), k < n PROVE FALSE
    BY <1>1, <1>8
  <2>1. k \in 1 .. n - 1 /\ s[k] = Brk /\ s[k + 1] = heading
    BY <1>1, <1>3, <1>6
  <2>2. before[k] = Brk /\ before[k + 1] = heading
    BY <1>1, <1>5, <1>6, <2>1
  <2> QED
    BY ONLY <1>1, <1>3, <1>4, <2>1, <2>2
<1>10. SplitMarker(s) = n
  <2>1. Min(Markers(s)) \in Markers(s) /\ \A k \in Markers(s) : Min(Markers(s)) <= k
    BY <1>8, MinOf
  <2> QED
    BY <1>1, <1>8, <1>9, <2>1 DEF SplitMarker
<1>11. SubSeq(s, 2, n - 1) = SubSeq(before, 2, n - 1)
  <2>1. CASE n = 2
    BY <2>1, SubSeqEmpty
  <2>2. CASE n > 2
    <3>1. SubSeq(s, 2, n - 1) = SubSeq(h, 2, n - 1)
      BY <1>1, <1>5, <2>2, SubSeqOfConcat1 DEF s
    <3>2. SubSeq(h, 2, n - 1) = SubSeq(before, 2, n - 1)
      BY <1>1, <1>2, <2>2, SubSeqOfConcat1 DEF h
    <3> QED
      BY <3>1, <3>2
  <2> QED
    BY <1>1, <2>1, <2>2
<1>12. SubSeq(s, n + 2, Len(s)) = asked
  <2>1. CASE asked = <<>>
    BY <1>1, <1>6, <2>1, SubSeqEmpty
  <2>2. CASE asked # <<>>
    <3>1. Len(asked) >= 1
      BY <2>2, EmptySeq
    <3>2. SubSeq(s, n + 2, Len(s)) = SubSeq(asked, n + 2 - Len(h), Len(s) - Len(h))
      BY <1>1, <1>5, <1>6, <3>1, SubSeqOfConcat2 DEF s
    <3>3. n + 2 - Len(h) = 1 /\ Len(s) - Len(h) = Len(asked)
      BY <1>1, <1>5, <1>6
    <3> QED
      BY <3>2, <3>3, SubSeqFull
  <2> QED
    BY <2>1, <2>2
<1>13. Split(s) = << [role |-> "system", text |-> SubSeq(s, 2, SplitMarker(s) - 1)],
                     [role |-> "user",   text |-> SubSeq(s, SplitMarker(s) + 2, Len(s))] >>
  BY <1>7, <1>8, Zenon DEF Split, first
<1> QED
  BY <1>4, <1>10, <1>11, <1>12, <1>13, Zenon DEF s, h, mark, heading

\* The text s is a section: a heading, its body and a blank line.
IsSection(s, heading, body) ==
  /\ Len(body) \in Nat
  /\ s \in Seq(Pieces) /\ Len(s) = Len(body) + 2
  /\ s[1] = heading /\ s[Len(body) + 2] = Brk
  /\ \A k \in 1 .. Len(body) : s[k + 1] = body[k]

\* What buildPrompt puts before the request are sections.
LEMMA Section ==
  ASSUME NEW heading \in Pieces, NEW body \in Seq(Pieces)
  PROVE  IsSection(<<heading>> \o body \o <<Brk>>, heading, body)
<1> DEFINE top == <<heading>>
           blank == <<Brk>>
           h == top \o body
           s == h \o blank
<1>1. /\ top \in Seq(Pieces) /\ Len(top) = 1 /\ top[1] = heading
      /\ blank \in Seq(Pieces) /\ Len(blank) = 1 /\ blank[1] = Brk
      /\ Len(body) \in Nat
  BY HeadingTypes, OnePiece, LenProperties
<1> HIDE DEF top, blank
<1>2. /\ h \in Seq(Pieces) /\ Len(h) = Len(body) + 1 /\ h[1] = heading
      /\ \A k \in 1 .. Len(body) : h[k + 1] = body[k]
  <2>1. IsJoined(h, top, body)
    BY <1>1, Joined
  <2> HIDE DEF h
  <2> QED
    BY ONLY <1>1, <2>1 DEF IsJoined
<1> HIDE DEF h
<1>3. /\ s \in Seq(Pieces) /\ Len(s) = Len(h) + 1
      /\ \A k \in 1 .. Len(h) : s[k] = h[k]
      /\ s[Len(h) + 1] = Brk
  <2>1. IsJoined(s, h, blank)
    BY <1>1, <1>2, Joined
  <2> HIDE DEF s
  <2> QED
    BY ONLY <1>1, <1>2, <2>1 DEF IsJoined
<1> HIDE DEF s
<1>4. IsSection(s, heading, body)
  BY ONLY <1>1, <1>2, <1>3 DEF IsSection
<1> QED
  BY <1>4, Zenon DEF s, h, top, blank

\* What goes before the request does so with a scaffolding alone, and with a scaffolding and data.  (The
\* headings are variables here.)
LEMMA BeforeRequest ==
  ASSUME NEW first \in Pieces, NEW second \in Pieces, NEW heading \in Pieces,
         first # Brk, second # Brk, second # heading, Brk # heading,
         \A s, k : k \in Markers(s) <=>
                     k \in 1 .. Len(s) - 1 /\ s[k] = Brk /\ s[k + 1] = heading,
         NEW scaffolding \in Seq(Pieces), Markers(scaffolding) = {},
         NEW data \in Seq(Pieces), \A k \in 1 .. Len(data) : data[k] # Brk,
         NEW top, IsSection(top, first, scaffolding),
         NEW middle, IsSection(middle, second, data)
  PROVE  /\ SplitsAs(top, first, scaffolding)
         /\ SplitsAs(top \o middle, first, scaffolding \o (<<Brk, second>> \o data))
<1> DEFINE both == top \o middle
           between == <<Brk, second>>
           n == Len(scaffolding)
           m == Len(data)
<1>1. Brk \in Pieces
  BY HeadingTypes
<1>2. \A q, k : k \in Markers(q) <=> k \in 1 .. Len(q) - 1 /\ q[k] = Brk /\ q[k + 1] = heading
  OBVIOUS
<1>3. IsSection(top, first, scaffolding) /\ IsSection(middle, second, data)
  OBVIOUS
<1>4. /\ top \in Seq(Pieces) /\ Len(top) = n + 2 /\ n \in Nat
      /\ top[1] = first /\ top[n + 2] = Brk
      /\ \A k \in 1 .. n : top[k + 1] = scaffolding[k]
  BY ONLY <1>3 DEF IsSection
<1>5. /\ middle \in Seq(Pieces) /\ Len(middle) = m + 2 /\ m \in Nat
      /\ middle[1] = second /\ middle[m + 2] = Brk
      /\ \A k \in 1 .. m : middle[k + 1] = data[k]
  BY ONLY <1>3 DEF IsSection
<1>6. /\ both \in Seq(Pieces) /\ Len(both) = n + m + 4
      /\ \A k \in 1 .. n + 2 : both[k] = top[k]
      /\ \A k \in 1 .. m + 2 : both[n + 2 + k] = middle[k]
  <2>1. IsJoined(both, top, middle)
    BY <1>4, <1>5, Joined
  <2> HIDE DEF both
  <2> QED
    BY ONLY <1>4, <1>5, <2>1 DEF IsJoined
<1> HIDE DEF both
<1>7. /\ between \in Seq(Pieces) /\ Len(between) = 2
      /\ between[1] = Brk /\ between[2] = second
  BY <1>1
<1> DEFINE rest == between \o data
           whole == scaffolding \o rest
<1> HIDE DEF between
<1>8. /\ rest \in Seq(Pieces) /\ Len(rest) = m + 2 /\ rest[1] = Brk /\ rest[2] = second
      /\ \A k \in 1 .. m : rest[k + 2] = data[k]
  <2>1. IsJoined(rest, between, data)
    BY <1>7, Joined
  <2> HIDE DEF rest
  <2>2. /\ rest \in Seq(Pieces) /\ Len(rest) = 2 + m
        /\ \A k \in 1 .. 2 : rest[k] = between[k]
        /\ \A k \in 1 .. m : rest[2 + k] = data[k]
    BY ONLY <1>7, <2>1 DEF IsJoined
  <2>3. \A k \in 1 .. m : rest[k + 2] = data[k]
    <3> TAKE k \in 1 .. m
    <3>1. k + 2 = 2 + k
      BY <1>5
    <3> QED
      BY <2>2, <3>1
  <2> QED
    BY <1>5, <1>7, <2>2, <2>3
<1> HIDE DEF rest
<1>9. /\ whole \in Seq(Pieces) /\ Len(whole) = n + m + 2
      /\ \A k \in 1 .. n : whole[k] = scaffolding[k]
      /\ \A k \in 1 .. m + 2 : whole[n + k] = rest[k]
  <2>1. IsJoined(whole, scaffolding, rest)
    BY <1>8, Joined
  <2> HIDE DEF whole
  <2> QED
    BY ONLY <1>4, <1>5, <1>8, <2>1 DEF IsJoined
<1> HIDE DEF whole
<1>10. Markers(top) = {}
  <2> SUFFICES ASSUME NEW k \in Markers(top) PROVE FALSE
    OBVIOUS
  <2>1. k \in 1 .. n + 1 /\ top[k] = Brk /\ top[k + 1] = heading
    BY ONLY <1>2, <1>4, k \in Markers(top)
  <2>2. k # 1 /\ k # n + 1
    BY <1>4, <2>1
  <2>3. PICK j \in 1 .. n - 1 : k = j + 1
    BY <1>4, <2>1, <2>2
  <2>4. scaffolding[j] = Brk /\ scaffolding[j + 1] = heading
    BY <1>4, <2>1, <2>3
  <2>5. j \in Markers(scaffolding)
    BY <1>2, <2>3, <2>4
  <2> QED
    BY <2>5
<1>11. Markers(both) = {}
  <2> SUFFICES ASSUME NEW k \in Markers(both) PROVE FALSE
    OBVIOUS
  <2>1. k \in 1 .. n + m + 3 /\ both[k] = Brk /\ both[k + 1] = heading
    BY ONLY <1>2, <1>4, <1>5, <1>6, k \in Markers(both)
  <2>2. CASE k <= n + 1
    <3>1. k \in 1 .. n + 1 /\ top[k] = Brk /\ top[k + 1] = heading
      <4>1. k \in 1 .. n + 2 /\ k + 1 \in 1 .. n + 2 /\ k \in 1 .. n + 1
        BY <1>4, <2>1, <2>2
      <4> QED
        BY <1>6, <2>1, <4>1
    <3>2. k \in Markers(top)
      BY ONLY <1>2, <1>4, <3>1
    <3> QED
      BY <1>10, <3>2
  <2>3. CASE k = n + 2
    BY <1>4, <1>5, <1>6, <2>1, <2>3
  <2>4. CASE k = n + 3
    BY <1>4, <1>5, <1>6, <2>1, <2>4
  <2>5. CASE k > n + 3
    <3> DEFINE j == k - n - 3
    <3>1. j \in 1 .. m /\ j + 1 \in 1 .. m + 2 /\ k = n + 2 + (j + 1)
      BY ONLY <1>4, <1>5, <2>1, <2>5
    <3> HIDE DEF j
    <3>2. middle[j + 1] = Brk
      BY ONLY <1>6, <2>1, <3>1
    <3>3. data[j] = Brk
      BY <1>5, <3>1, <3>2
    <3> QED
      BY <3>1, <3>3
  <2> QED
    BY <1>4, <2>1, <2>2, <2>3, <2>4, <2>5
<1>12. SubSeq(top, 2, n + 1) = scaffolding
  <2> DEFINE sub == SubSeq(top, 2, n + 1)
  <2>1. \A k \in 2 .. n + 1 : top[k] \in Pieces
    BY <1>4, ElementOfSeq
  <2>2. /\ sub \in Seq(Pieces) /\ Len(sub) = n
        /\ \A k \in 1 .. n : sub[k] = top[k + 1]
    BY <1>4, <2>1, SubSeqProperties
  <2> HIDE DEF sub
  <2>3. \A k \in 1 .. n : sub[k] = scaffolding[k]
    BY <1>4, <2>2
  <2>4. sub = scaffolding
    BY <2>2, <2>3, SeqEqual
  <2> QED
    BY <2>4 DEF sub
<1>13. SubSeq(both, 2, n + m + 3) = whole
  <2> DEFINE sub == SubSeq(both, 2, n + m + 3)
  <2>1. ASSUME NEW k \in 2 .. n + m + 3 PROVE both[k] \in Pieces
    <3>1. k \in 1 .. Len(both)
      BY <1>4, <1>5, <1>6
    <3> QED
      BY <1>6, <3>1, ElementOfSeq
  <2>2. /\ sub \in Seq(Pieces) /\ Len(sub) = n + m + 2
        /\ \A k \in 1 .. n + m + 2 : sub[k] = both[k + 1]
    BY <1>4, <1>5, <2>1, SubSeqProperties
  <2> HIDE DEF sub
  <2>3. ASSUME NEW k \in 1 .. n PROVE sub[k] = whole[k]
    <3>1. k \in 1 .. n + m + 2 /\ k + 1 \in 1 .. n + 2
      BY <1>4, <1>5
    <3> QED
      BY ONLY <1>4, <1>6, <1>9, <2>2, <3>1, k \in 1 .. n
  <2>4. ASSUME NEW k \in 1 .. m + 2 PROVE sub[n + k] = whole[n + k]
    <3>1. whole[n + k] = rest[k]
      BY <1>9
    <3>2. sub[n + k] = both[n + 1 + k]
      BY <1>4, <1>5, <2>2
    <3>3. CASE k = 1
      BY <1>4, <1>5, <1>6, <1>8, <3>1, <3>2, <3>3
    <3>4. CASE k = 2
      <4>1. both[n + 2 + 1] = middle[1]
        BY <1>5, <1>6
      <4> QED
        BY <1>4, <1>5, <1>8, <3>1, <3>2, <3>4, <4>1
    <3>5. CASE k > 2
      <4>1. PICK j \in 1 .. m : k = j + 2
        BY <1>5, <3>5
      <4>2. both[n + 2 + (j + 1)] = middle[j + 1]
        BY <1>5, <1>6
      <4> QED
        BY <1>4, <1>5, <1>8, <3>1, <3>2, <4>1, <4>2
    <3> QED
      BY <1>5, <3>3, <3>4, <3>5
  <2>5. ASSUME NEW k \in 1 .. n + m + 2 PROVE sub[k] = whole[k]
    <3>1. CASE k <= n
      BY <1>4, <2>3, <3>1
    <3>2. CASE k > n
      <4>1. k - n \in 1 .. m + 2 /\ k = n + (k - n)
        BY <1>4, <1>5, <3>2
      <4> QED
        BY <2>4, <4>1
    <3> QED
      BY <1>4, <3>1, <3>2
  <2>6. sub = whole
    BY <1>9, <2>2, <2>5, SeqEqual
  <2> QED
    BY <2>6 DEF sub
<1>14. both[1] = first /\ both[Len(both)] = Brk
  <2>1. both[n + 2 + (m + 2)] = middle[m + 2]
    BY <1>5, <1>6
  <2> QED
    BY <1>4, <1>5, <1>6, <2>1
<1>15. Len(top) - 1 = n + 1 /\ Len(both) - 1 = n + m + 3 /\ Len(top) >= 2 /\ Len(both) >= 2
  BY <1>4, <1>5, <1>6
<1> QED
  BY <1>4, <1>6, <1>10, <1>11, <1>12, <1>13, <1>14, <1>15
  DEF SplitsAs, both, whole, rest, between

\* What buildPrompt puts before the request, if there is a scaffolding and data.
Scaffolded(scaffolding) == <<"Scaffolding">> \o Trim(scaffolding) \o <<Brk>>
WithData(data) == <<"Context data">> \o Stringify(data) \o <<Brk>>

Before(scaffolding, data) ==
  (IF Trim(scaffolding) = <<>> THEN <<>> ELSE Scaffolded(scaffolding))
  \o (IF data = Undefined THEN <<>> ELSE WithData(data))

\* Both are sections.
LEMMA SectionsOfPrompt ==
  ASSUME NEW scaffolding \in Seq(Pieces)
  PROVE  /\ IsSection(Scaffolded(scaffolding), "Scaffolding", Trim(scaffolding))
         /\ \A data \in Seq(Pieces) :
              IsSection(WithData(data), "Context data", Stringify(data))
<1>1. IsSection(Scaffolded(scaffolding), "Scaffolding", Trim(scaffolding))
  BY HeadingTypes, TrimType, Section, Zenon DEF Scaffolded
<1>2. ASSUME NEW data \in Seq(Pieces)
      PROVE  IsSection(WithData(data), "Context data", Stringify(data))
  BY HeadingTypes, StringifyType, Section, Zenon DEF WithData
<1> QED
  BY <1>1, <1>2

\* Joining something to nothing leaves it.
LEMMA JoinedToNothing ==
  ASSUME NEW s \in Seq(Pieces)
  PROVE  s \o <<>> = s /\ <<>> \o s = s /\ <<>> \in Seq(Pieces) /\ Len(<<>>) = 0
  BY ConcatEmptySeq, EmptySeq

\* The prompt is what goes before the request, and the request.
LEMMA PromptParts ==
  ASSUME NEW text \in Seq(Pieces), NEW scaffolding \in Seq(Pieces), NEW data,
         data = Undefined \/ data \in Seq(Pieces)
  PROVE  /\ Before(scaffolding, data) \in Seq(Pieces)
         /\ buildPrompt(text, scaffolding, data) =
              Before(scaffolding, data) \o <<"User request">> \o Trim(text)
         /\ buildPrompt(text, scaffolding, data) \in Seq(Pieces)
         /\ Trim(scaffolding) = <<>> /\ Before(scaffolding, data) # <<>> =>
              Before(scaffolding, data)[1] = "Context data"
<1> DEFINE before == Before(scaffolding, data)
           top == IF Trim(scaffolding) = <<>> THEN <<>> ELSE Scaffolded(scaffolding)
           middle == IF data = Undefined THEN <<>> ELSE WithData(data)
           heading == "User request"
           second == "Context data"
           prompt == before \o <<heading>> \o Trim(text)
<1>1. buildPrompt(text, scaffolding, data) = prompt
  BY Zenon DEF buildPrompt, Before, Scaffolded, WithData
<1>2. <<>> \in Seq(Pieces) /\ Len(<<>>) = 0
  BY EmptySeq
<1>3. heading \in Pieces /\ second \in Pieces
  BY HeadingTypes
<1> HIDE DEF heading, second
<1>4. top \in Seq(Pieces)
  BY <1>2, SectionsOfPrompt, Zenon DEF IsSection
<1>5. middle = <<>> \/ (middle \in Seq(Pieces) /\ Len(middle) \in Nat /\ middle[1] = second)
  BY SectionsOfPrompt, LenProperties, Zenon DEF IsSection, second
<1>6. Trim(scaffolding) = <<>> => top = <<>>
  OBVIOUS
<1>7. before = top \o middle
  BY Zenon DEF Before
<1> HIDE DEF before, top, middle
<1>8. before \in Seq(Pieces)
  <2>1. middle \in Seq(Pieces)
    BY <1>2, <1>5
  <2> QED
    BY <1>4, <1>7, <2>1, Joined DEF IsJoined
<1>9. Trim(scaffolding) = <<>> => before = middle
  BY <1>2, <1>5, <1>6, <1>7, JoinedToNothing
<1>10. prompt \in Seq(Pieces)
  <2>1. <<heading>> \in Seq(Pieces)
    BY <1>3, OnePiece
  <2>2. before \o <<heading>> \in Seq(Pieces)
    BY <1>8, <2>1, Joined DEF IsJoined
  <2> QED
    BY <2>2, TrimType, Joined DEF IsJoined
<1>11. Trim(scaffolding) = <<>> /\ before # <<>> => before[1] = second
  BY <1>5, <1>9
<1> QED
  BY <1>1, <1>8, <1>10, <1>11, Zenon DEF before, heading, second

\* Without a scaffolding, nothing is split off.
LEMMA UnscaffoldedIsWhole ==
  ASSUME NEW text \in Seq(Pieces), NEW scaffolding \in Seq(Pieces), NEW data,
         data = Undefined \/ data \in Seq(Pieces),
         Trim(scaffolding) = <<>>
  PROVE  LET prompt == buildPrompt(text, scaffolding, data)
         IN  Split(prompt) = << [role |-> "user", text |-> prompt] >>
<1> DEFINE before == Before(scaffolding, data)
           first == "Scaffolding"
           second == "Context data"
           heading == "User request"
           mark == <<heading>>
           h == before \o mark
           prompt == h \o Trim(text)
<1>1. /\ before \in Seq(Pieces)
      /\ buildPrompt(text, scaffolding, data) = prompt
      /\ before # <<>> => before[1] = second
  BY PromptParts, Zenon
<1>2. mark \in Seq(Pieces) /\ Len(mark) = 1 /\ mark[1] = heading
  BY HeadingTypes, OnePiece, Zenon
<1>3. first # second /\ first # heading
  OBVIOUS
<1> HIDE DEF before, mark, first, second, heading
<1>4. h \in Seq(Pieces) /\ Len(h) \in Nat /\ Len(h) >= 1 /\ h[1] # first
  <2>1. IsJoined(h, before, mark)
    BY <1>1, <1>2, Joined
  <2> HIDE DEF h
  <2>2. /\ h \in Seq(Pieces) /\ Len(h) = Len(before) + 1 /\ Len(before) \in Nat
        /\ Len(before) >= 1 => h[1] = before[1]
        /\ Len(before) = 0 => h[1] = heading
    BY ONLY <1>2, <2>1 DEF IsJoined
  <2>3. before # <<>> => Len(before) >= 1
    BY <1>1, EmptySeq
  <2>4. before = <<>> => Len(before) = 0
    BY EmptySeq
  <2> QED
    BY ONLY <1>1, <1>3, <2>2, <2>3, <2>4
<1> HIDE DEF h
<1>5. prompt[1] # first
  <2>1. IsJoined(prompt, h, Trim(text))
    BY <1>4, TrimType, Joined
  <2> HIDE DEF prompt
  <2> QED
    BY ONLY <1>4, <2>1 DEF IsJoined
<1> HIDE DEF prompt
<1>6. Split(prompt) = << [role |-> "user", text |-> prompt] >>
  BY <1>5, Zenon DEF Split, first
<1> QED
  BY <1>1, <1>6, Zenon

\* With one that contains no marker, the messages are what the application gave.
LEMMA ScaffoldedIsSplit ==
  ASSUME NEW text \in Seq(Pieces), NEW scaffolding \in Seq(Pieces), NEW data,
         data = Undefined \/ data \in Seq(Pieces),
         Trim(scaffolding) # <<>>, Markers(Trim(scaffolding)) = {}
  PROVE  Split(buildPrompt(text, scaffolding, data)) =
           << [role |-> "system",
               text |-> Trim(scaffolding)
                        \o (IF data = Undefined THEN <<>>
                            ELSE <<Brk, "Context data">> \o Stringify(data))],
              [role |-> "user", text |-> Trim(text)] >>
<1> DEFINE sc == Trim(scaffolding)
           top == Scaffolded(scaffolding)
           first == "Scaffolding"
           second == "Context data"
           heading == "User request"
<1>1. /\ first \in Pieces /\ second \in Pieces /\ heading \in Pieces
      /\ first # Brk /\ second # Brk /\ second # heading /\ Brk # heading
  BY DEF Pieces, Brk
<1>2. \A s, k : k \in Markers(s) <=> k \in 1 .. Len(s) - 1 /\ s[k] = Brk /\ s[k + 1] = heading
  BY MarkerIs, Zenon
<1>3. sc \in Seq(Pieces) /\ Trim(text) \in Seq(Pieces)
  BY TrimType
<1>4. /\ IsSection(top, first, sc)
      /\ \A d \in Seq(Pieces) : IsSection(WithData(d), second, Stringify(d))
  BY SectionsOfPrompt, Zenon
<1> HIDE DEF sc, top, first, second, heading
<1>5. Markers(sc) = {}
  BY DEF sc
<1>6. CASE data = Undefined
  <2> DEFINE none == <<>>
             middle == <<second>> \o none \o <<Brk>>
  <2>1. none \in Seq(Pieces) /\ \A k \in 1 .. Len(none) : none[k] # Brk
    BY EmptySeq
  <2> HIDE DEF none
  <2>2. IsSection(middle, second, none)
    BY <1>1, <2>1, Section, Zenon
  <2> HIDE DEF middle
  <2>3. SplitsAs(top, first, sc)
    BY ONLY <1>1, <1>2, <1>3, <1>4, <1>5, <2>1, <2>2, BeforeRequest, Zenon
  <2>4. top \o <<>> = top
    BY <2>3, JoinedToNothing, Zenon DEF SplitsAs
  <2>5. Before(scaffolding, data) = top
    BY <1>6, <2>4, Zenon DEF Before, top
  <2>6. buildPrompt(text, scaffolding, data) = top \o <<heading>> \o Trim(text)
    BY <2>5, PromptParts, Zenon DEF heading
  <2>7. Split(top \o <<heading>> \o Trim(text)) =
          << [role |-> "system", text |-> sc], [role |-> "user", text |-> Trim(text)] >>
    BY <1>3, <2>3, SplitAtBorder, Zenon DEF SplitsAs, first, heading
  <2>8. sc \o <<>> = sc
    BY <1>3, JoinedToNothing
  <2> QED
    BY <1>6, <2>6, <2>7, <2>8, Zenon DEF sc
<1>7. CASE data # Undefined
  <2> DEFINE j == Stringify(data)
             middle == WithData(data)
             both == top \o middle
             system == sc \o (<<Brk, second>> \o j)
  <2>1. j \in Seq(Pieces) /\ \A k \in 1 .. Len(j) : j[k] # Brk
    BY <1>7, StringifyType
  <2>2. IsSection(middle, second, j)
    BY <1>4, <1>7, Zenon
  <2> HIDE DEF j, middle
  <2>3. SplitsAs(both, first, system)
    BY ONLY <1>1, <1>2, <1>3, <1>4, <1>5, <2>1, <2>2, BeforeRequest, Zenon
  <2> HIDE DEF both, system
  <2>4. Before(scaffolding, data) = both
    BY <1>7, Zenon DEF Before, both, top, middle
  <2>5. buildPrompt(text, scaffolding, data) = both \o <<heading>> \o Trim(text)
    BY <2>4, PromptParts, Zenon DEF heading
  <2>6. Split(both \o <<heading>> \o Trim(text)) =
          << [role |-> "system", text |-> system], [role |-> "user", text |-> Trim(text)] >>
    BY <1>3, <2>3, SplitAtBorder, Zenon DEF SplitsAs, first, heading
  <2> QED
    BY <1>7, <2>5, <2>6, Zenon DEF sc, j, second, system
<1> QED
  BY <1>6, <1>7

-----------------------------------------------------------------------------
(* The call and its messages *)

Message == [role : {"system", "user", "none"}, text : Seq(Pieces)]

\* Splitting a text leaves texts, wherever it is split.
LEMMA SplitType ==
  ASSUME NEW s \in Seq(Pieces)
  PROVE  Split(s) \in Seq(Message)
<1> DEFINE n == SplitMarker(s)
           system == SubSeq(s, 2, n - 1)
           user == SubSeq(s, n + 2, Len(s))
<1>1. Len(s) \in Nat /\ \A k \in 1 .. Len(s) : s[k] \in Pieces
  BY LenProperties, ElementOfSeq
<1>2. ASSUME Markers(s) # {}
      PROVE  system \in Seq(Pieces) /\ user \in Seq(Pieces)
  <2>1. \A k \in Markers(s) : k \in 1 .. Len(s) - 1
    BY Zenon DEF Markers
  <2>2. Markers(s) \in SUBSET Nat
    BY <1>1, <2>1
  <2>3. n \in Markers(s)
    BY <1>2, <2>2, MinOf DEF SplitMarker
  <2>4. n \in 1 .. Len(s) - 1
    BY <2>1, <2>3
  <2> HIDE DEF n
  <2>5. \A k \in 2 .. n - 1 : s[k] \in Pieces
    BY <1>1, <2>4
  <2>6. \A k \in n + 2 .. Len(s) : s[k] \in Pieces
    BY <1>1, <2>4
  <2> QED
    BY <1>1, <2>4, <2>5, <2>6, SubSeqProperties
<1> HIDE DEF system, user
<1>3. Markers(s) # {} => /\ [role |-> "system", text |-> system] \in Message
                         /\ [role |-> "user", text |-> user] \in Message
  BY <1>2 DEF Message
<1>4. [role |-> "user", text |-> s] \in Message
  BY DEF Message
<1>5. \A a \in Message, b \in Message : <<a>> \in Seq(Message) /\ <<a, b>> \in Seq(Message)
  OBVIOUS
<1>6. Split(s) = IF s[1] = "Scaffolding" /\ Markers(s) # {}
                 THEN << [role |-> "system", text |-> system], [role |-> "user", text |-> user] >>
                 ELSE << [role |-> "user", text |-> s] >>
  BY Zenon DEF Split, system, user, n
<1> QED
  BY <1>3, <1>4, <1>5, <1>6, Zenon

Plain(s) == << [role |-> "none", text |-> s] >>

\* Until its text is formatted a prompt has done nothing, and what is formatted is
\* the text buildPrompt made, split or as it is.
CallAgrees ==
  /\ stage \in {"called", "native", "formatted", "trapped"}
  /\ stage \in {"called", "trapped"} => context = "none" /\ error = "none"
  /\ stage \in {"called", "native"} /\ in.kind = "prompt" => pc = "checkInput"
  /\ messages \in IF stage = "formatted" THEN {Split(Text), Plain(Text)} ELSE {<<>>}

LEMMA InitCallAgrees == CallInit => CallAgrees
  BY DEF CallInit, Init, CallAgrees

LEMMA StepCallAgrees == CallAgrees /\ [CallNext]_callAllVars => CallAgrees'
<1> SUFFICES ASSUME CallAgrees, [CallNext]_callAllVars PROVE CallAgrees'
  OBVIOUS
<1>1. in' = in /\ request' = request
  BY NextKeepsIn DEF CallNext, Convert, FormatChat, FormatPlain, Run, callAllVars, callVars,
                     vars
<1>2. Text' = Text
  BY <1>1 DEF Text
<1>3. Split(Text)' = Split(Text) /\ Plain(Text)' = Plain(Text)
  BY <1>2, Zenon DEF Split, Plain, SplitMarker, Markers
<1>4. CASE Convert
  BY <1>1, <1>4 DEF Convert, CallAgrees, vars
<1>5. CASE FormatChat
  BY <1>1, <1>3, <1>5 DEF FormatChat, CallAgrees, vars
<1>6. CASE FormatPlain
  <2>1. messages' = Plain(Text)
    BY <1>6, Zenon DEF FormatPlain, Plain
  <2> QED
    BY <1>1, <1>3, <1>6, <2>1 DEF FormatPlain, CallAgrees, vars
<1>7. CASE Run
  BY <1>1, <1>3, <1>7 DEF Run, CallAgrees, callVars
<1>8. CASE UNCHANGED callAllVars
  BY <1>1, <1>3, <1>8 DEF CallAgrees, callAllVars, callVars, vars
<1> QED
  BY <1>4, <1>5, <1>6, <1>7, <1>8 DEF CallNext

\* The text of a call is one, and what JavaScript puts before the request is as
\* buildPrompt says.
LEMMA RequestTexts ==
  ASSUME request \in Requests
  PROVE  /\ request.text \in Seq(Pieces) /\ request.scaffolding \in Seq(Pieces)
         /\ request.data = Undefined \/ request.data \in Seq(Pieces)
         /\ Text \in Seq(Pieces)
<1>1. /\ request.text \in Seq(Pieces) /\ request.scaffolding \in Seq(Pieces)
      /\ request.data = Undefined \/ request.data \in Seq(Pieces)
  BY RequestsAssumption
<1>2. Text \in Seq(Pieces)
  BY <1>1, PromptParts, Zenon DEF Text
<1> QED
  BY <1>1, <1>2

\* No prompt does anything before its limits are converted and its text formatted,
\* and what its model is given are texts.
THEOREM CallTypeOKCorrect == CallSpec => []CallTypeOK
<1>1. ArgumentsAgree /\ CallAgrees => CallTypeOK
  <2> SUFFICES ASSUME ArgumentsAgree, CallAgrees PROVE CallTypeOK
    OBVIOUS
  <2>1. request \in Requests /\ request.platform \in {"ios", "android"}
    BY RequestsAssumption DEF ArgumentsAgree
  <2>2. Text \in Seq(Pieces)
    BY <2>1, RequestTexts
  <2>3. Split(Text) \in Seq(Message)
    BY <2>2, SplitType
  <2>4. Plain(Text) \in Seq(Message)
    <3>1. [role |-> "none", text |-> Text] \in Message
      BY <2>2 DEF Message
    <3>2. \A a \in Message : <<a>> \in Seq(Message)
      OBVIOUS
    <3> QED
      BY <3>1, <3>2, Zenon DEF Plain
  <2>5. <<>> \in Seq(Message)
    BY EmptySeq
  <2>6. messages \in Seq(Message)
    BY <2>3, <2>4, <2>5 DEF CallAgrees
  <2> QED
    BY <2>1, <2>6 DEF CallTypeOK, CallAgrees, ArgumentsAgree, Message
<1> QED
  BY <1>1, InitAgrees, StepAgrees, InitCallAgrees, StepCallAgrees, PTL DEF CallSpec

\* Whatever the request and the data contain, format_prompt gives the model what the
\* application gave buildPrompt.
THEOREM SplitUndoesCorrect == CallSpec => []SplitUndoes
<1>1. ArgumentsAgree /\ CallAgrees => SplitUndoes
  <2> SUFFICES ASSUME ArgumentsAgree, CallAgrees, stage = "formatted",
                      messages[1].role # "none", Markers(Trim(request.scaffolding)) = {}
               PROVE  messages =
                        IF Trim(request.scaffolding) = <<>>
                        THEN << [role |-> "user", text |-> Text] >>
                        ELSE << [role |-> "system",
                                 text |-> Trim(request.scaffolding)
                                          \o (IF request.data = Undefined THEN <<>>
                                              ELSE <<Brk, "Context data">>
                                                   \o Stringify(request.data))],
                                [role |-> "user", text |-> Trim(request.text)] >>
    BY Zenon DEF SplitUndoes
  <2>1. /\ request.text \in Seq(Pieces) /\ request.scaffolding \in Seq(Pieces)
        /\ request.data = Undefined \/ request.data \in Seq(Pieces)
    BY RequestTexts DEF ArgumentsAgree
  <2>2. messages = Split(Text)
    <3>1. Plain(Text)[1].role = "none"
      BY DEF Plain
    <3> QED
      BY <3>1, Zenon DEF CallAgrees
  <2>3. CASE Trim(request.scaffolding) = <<>>
    BY <2>1, <2>2, <2>3, UnscaffoldedIsWhole, Zenon DEF Text
  <2>4. CASE Trim(request.scaffolding) # <<>>
    BY <2>1, <2>2, <2>4, ScaffoldedIsSplit, Zenon DEF Text
  <2> QED
    BY <2>3, <2>4
<1> QED
  BY <1>1, InitAgrees, StepAgrees, InitCallAgrees, StepCallAgrees, PTL DEF CallSpec
=============================================================================
