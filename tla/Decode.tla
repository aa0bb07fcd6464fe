-------------------------------- MODULE Decode --------------------------------
(***************************************************************************)
(* One native prompt or warmup: prompt and warmup in                       *)
(* android/src/main/cpp/ThistleBridge.cpp, thistle_prompt and              *)
(* thistle_warmup in ios/ThistleBridge.mm.  The two platforms make the     *)
(* same checks and calls in the same order; they differ in where a failed  *)
(* generation frees its context (here: before the error is returned).      *)
(*                                                                         *)
(* What is kept of llama.cpp is what its caller has to respect: a batch    *)
(* larger than n_batch fails an assertion and aborts the process (here: it *)
(* must never come to that, RoomForBatch), a context without room makes    *)
(* llama_decode fail, and llama_batch_get_one keeps the caller's pointer.  *)
(* Text, tokens and samplers are left out; tokens are counted.             *)
(***************************************************************************)
EXTENDS Integers

CONSTANTS
  Sizes,      \* token counts and limits a call may meet, natural numbers
  Limits,     \* limits as the native side gets them: none when <= 0
  CtxPad,     \* llama.cpp rounds a context's size up to a multiple of this
  WarmupSize  \* the context a warmup asks for at most, 256

ASSUME SizesAssumption  == Sizes \subseteq Nat /\ 0 \in Sizes
ASSUME LimitsAssumption == Limits \subseteq Int
ASSUME PadAssumption    == CtxPad \in Nat \ {0}
ASSUME WarmupAssumption == WarmupSize \in Nat \ {0}

VARIABLES
  in,          \* the call's arguments and what the model makes of them
  pc,
  n_ctx,       \* context_params.n_ctx
  n_batch,     \* context_params.n_batch
  context,     \* "none", "live" or "freed": the llama_context
  sampler,     \* the same for the sampler chain
  kv,          \* positions in the context's KV cache
  batch,       \* batch.n_tokens
  dangling,    \* TRUE when batch.token points at a token variable out of scope
  generated,   \* the loop counter: tokens appended to the response
  stop,        \* why the generation ended well
  error,       \* the error message, or "none"
  stale        \* TRUE once something else than the sampled token was decoded

vars == <<in, pc, n_ctx, n_batch, context, sampler, kv, batch, dangling,
          generated, stop, error, stale>>

\* tokens: the size of the tokenised prompt, 0 when it cannot be tokenised.
\* trained: llama_model_n_ctx_train, 0 when the model does not say.
Inputs ==
  [kind : {"prompt", "warmup"}, tokens : Sizes, trained : Sizes,
   maxInput : Limits, maxContext : Limits, maxOutput : Limits]

Pcs == {"checkInput", "sizeContext", "makeContext", "makeSampler", "loop",
        "decode", "sample", "freeSampler", "freeContext", "returned"}
Lifes  == {"none", "live", "freed"}
Stops  == {"none", "eog", "limit", "contextFull"}
Errors == {"none", "tokenize", "maxInputTokens", "contextWindow", "noContext",
           "evaluate", "piece"}

TypeOK ==
  /\ in \in Inputs
  /\ pc \in Pcs
  /\ n_ctx \in Nat
  /\ n_batch \in Nat
  /\ context \in Lifes
  /\ sampler \in Lifes
  /\ kv \in Nat
  /\ batch \in Nat
  /\ dangling \in BOOLEAN
  /\ generated \in Nat
  /\ stop \in Stops
  /\ error \in Errors
  /\ stale \in BOOLEAN

Init ==
  /\ in \in Inputs
  /\ in.kind = "warmup" => in.tokens = 0 /\ in.maxInput <= 0 /\ in.maxOutput <= 0
  /\ pc = IF in.kind = "prompt" THEN "checkInput" ELSE "sizeContext"
  /\ n_ctx = 0 /\ n_batch = 0 /\ kv = 0 /\ batch = 0 /\ generated = 0
  /\ context = "none" /\ sampler = "none"
  /\ dangling = FALSE /\ stale = FALSE
  /\ stop = "none" /\ error = "none"

Goto(from, to) == pc = from /\ pc' = to
Lower(a, b) == IF a < b THEN a ELSE b

\* What stays as it is in every check before the context exists.
generation == <<context, sampler, kv, batch, dangling, generated, stop, stale>>

\* What stays as it is in the whole of the generation loop.
settings == <<in, n_ctx, n_batch>>

\* std::min with the trained size, when the model has one.
WithinTrained(n) == IF in.trained > 0 THEN Lower(n, in.trained) ELSE n

\* The size llama.cpp gives a context it was asked for n positions.
Padded(n) == ((n + CtxPad - 1) \div CtxPad) * CtxPad

-----------------------------------------------------------------------------
(* The checks before there is anything to free. *)

Throws(e) == pc' = "returned" /\ error' = e

TokenizeFails ==
  /\ pc = "checkInput"
  /\ in.tokens = 0
  /\ Throws("tokenize")
  /\ UNCHANGED <<settings, generation>>

InputTooLong == in.maxInput > 0 /\ in.tokens > in.maxInput

CheckInput ==
  /\ pc = "checkInput"
  /\ in.tokens > 0
  /\ IF InputTooLong THEN Throws("maxInputTokens")
                     ELSE pc' = "sizeContext" /\ UNCHANGED error
  /\ UNCHANGED <<settings, generation>>

\* The size a prompt's context is asked for.
PromptContext ==
  IF in.maxContext > 0 THEN WithinTrained(in.maxContext)
  ELSE IF in.trained > 0 THEN in.trained ELSE in.tokens

\* Mistaken form: maxContextSize replaces the model's own size.
SizePromptUncapped ==
  /\ pc = "sizeContext" /\ in.kind = "prompt"
  /\ n_ctx' = IF in.maxContext > 0 THEN in.maxContext ELSE PromptContext
  /\ IF in.tokens > n_ctx' THEN Throws("contextWindow") /\ UNCHANGED n_batch
                           ELSE pc' = "makeContext" /\ n_batch' = in.tokens
                                /\ UNCHANGED error
  /\ UNCHANGED <<in, generation>>

SizePrompt ==
  /\ pc = "sizeContext" /\ in.kind = "prompt"
  /\ n_ctx' = PromptContext
  /\ IF in.tokens > n_ctx' THEN Throws("contextWindow") /\ UNCHANGED n_batch
                           ELSE pc' = "makeContext" /\ n_batch' = in.tokens
                                /\ UNCHANGED error
  /\ UNCHANGED <<in, generation>>

SizeWarmup ==
  /\ Goto("sizeContext", "makeContext") /\ in.kind = "warmup"
  /\ n_ctx' = WithinTrained(IF in.maxContext > 0 THEN Lower(in.maxContext, WarmupSize)
                                                 ELSE WarmupSize)
  /\ n_batch' = 1
  /\ UNCHANGED <<in, error, generation>>

-----------------------------------------------------------------------------
(* The context and the sampler. *)

MakeContextFails ==
  /\ pc = "makeContext"
  /\ Throws("noContext")
  /\ UNCHANGED <<settings, generation>>

\* A prompt goes on to its sampler, a warmup to decode the bos token.
MakeContext ==
  /\ Goto("makeContext", IF in.kind = "prompt" THEN "makeSampler" ELSE "decode")
  /\ context' = "live"
  /\ batch' = IF in.kind = "prompt" THEN in.tokens ELSE 1
  /\ UNCHANGED <<settings, sampler, kv, dangling, generated, stop, error, stale>>

MakeSampler ==
  /\ Goto("makeSampler", "loop")
  /\ sampler' = "live"
  /\ UNCHANGED <<settings, context, kv, batch, dangling, generated, stop, error, stale>>

-----------------------------------------------------------------------------
(* The generation loop. *)

OutputFull == in.maxOutput > 0 /\ generated >= in.maxOutput

\* Mistaken form: the prompt's share of the context is forgotten.
ContextFullOfAnswer == generated >= n_ctx

ContextFull == in.tokens + generated >= n_ctx

LoopEnds ==
  /\ Goto("loop", "freeSampler")
  /\ OutputFull \/ ContextFull
  /\ stop' = IF OutputFull THEN "limit" ELSE "contextFull"
  /\ UNCHANGED <<settings, context, sampler, kv, batch, dangling, generated, error, stale>>

LoopContinues ==
  /\ Goto("loop", "decode")
  /\ ~OutputFull /\ ~ContextFull
  /\ UNCHANGED <<settings, generation, error>>

\* Mistaken form: a decode that fails is tried again.
DecodeFailsRetried ==
  /\ Goto("decode", "loop")
  /\ UNCHANGED <<settings, generation, error>>

\* Mistaken form: the error path returns at once.
DecodeFailsLeaking ==
  /\ pc = "decode"
  /\ Throws("evaluate")
  /\ UNCHANGED <<settings, generation>>

\* The backend fails, there is no room, or what batch.token points at is no
\* token any more.  A failed generation frees what it made.
DecodeFails ==
  /\ Goto("decode", IF in.kind = "prompt" THEN "freeSampler" ELSE "freeContext")
  /\ error' = "evaluate"
  /\ UNCHANGED <<settings, generation>>

\* The batch goes into the cache: the prompt, or one token, which is read
\* through a pointer whose variable went out of scope with the last iteration:
\* a build may still find it there, or something else.
Decode ==
  /\ Goto("decode", IF in.kind = "prompt" THEN "sample" ELSE "freeContext")
  /\ kv + batch <= Padded(n_ctx)
  /\ kv' = kv + batch
  /\ \/ UNCHANGED stale
     \/ dangling /\ stale' = TRUE
  /\ UNCHANGED <<settings, context, sampler, batch, dangling, generated, stop, error>>

SampleEog ==
  /\ Goto("sample", "freeSampler")
  /\ stop' = "eog"
  /\ UNCHANGED <<settings, context, sampler, kv, batch, dangling, generated, error, stale>>

\* The token's text is longer than the buffer of 256 bytes.
SamplePieceFails ==
  /\ Goto("sample", "freeSampler")
  /\ error' = "piece"
  /\ UNCHANGED <<settings, generation>>

\* The token's text is appended, and llama_batch_get_one(&token, 1) is the next
\* batch; token is a variable of the loop body, which ends here.
Sample ==
  /\ Goto("sample", "loop")
  /\ generated' = generated + 1
  /\ batch' = 1
  /\ dangling' = TRUE
  /\ UNCHANGED <<settings, context, sampler, kv, stop, error, stale>>

-----------------------------------------------------------------------------
FreeSampler ==
  /\ Goto("freeSampler", "freeContext")
  /\ sampler' = "freed"
  /\ UNCHANGED <<settings, context, kv, batch, dangling, generated, stop, error, stale>>

FreeContext ==
  /\ Goto("freeContext", "returned")
  /\ context' = "freed"
  /\ UNCHANGED <<settings, sampler, kv, batch, dangling, generated, stop, error, stale>>

Next ==
  \/ TokenizeFails \/ CheckInput \/ SizePrompt \/ SizeWarmup
  \/ MakeContextFails \/ MakeContext \/ MakeSampler
  \/ LoopEnds \/ LoopContinues
  \/ DecodeFails \/ Decode
  \/ SampleEog \/ SamplePieceFails \/ Sample
  \/ FreeSampler \/ FreeContext

Spec == Init /\ [][Next]_vars

-----------------------------------------------------------------------------
(* Safety *)

\* Whenever llama_decode is called, the batch is within n_batch as llama.cpp
\* caps it, so its assertion holds, and there is room for it in the context.
RoomForBatch ==
  pc = "decode" => batch <= Lower(n_ctx, n_batch) /\ kv + batch <= n_ctx

\* The context and the sampler are there while they are used, and neither is
\* left behind by any way out of the function.
Released ==
  /\ pc \in {"decode", "sample"} => context = "live"
  /\ pc = "sample" => sampler = "live"
  /\ pc = "returned" => context # "live" /\ sampler # "live"

Answered == pc = "returned" /\ in.kind = "prompt" /\ error = "none"

\* A prompt that is answered kept every limit it was given, and the model's own
\* context capacity (README.md:174).
LimitsKept ==
  Answered =>
    /\ in.maxInput   > 0 => in.tokens <= in.maxInput
    /\ in.maxOutput  > 0 => generated <= in.maxOutput
    /\ in.maxContext > 0 => in.tokens + generated <= in.maxContext
    /\ in.trained    > 0 => in.tokens + generated <= in.trained

\* An answer is as long as it may be: generation ends because the model stops,
\* or because a limit or the context is used up to the last token
\* (README.md:183).  A model that does not say its size gets no room at all.
StopsForAReason ==
  Answered =>
    \/ stop = "eog"
    \/ in.maxOutput  > 0 /\ generated = in.maxOutput
    \/ in.maxContext > 0 /\ in.tokens + generated = in.maxContext
    \/ in.trained    > 0 /\ in.tokens + generated = in.trained
    \/ in.maxContext <= 0 /\ in.trained = 0 /\ generated = 0

\* The cache has the prompt and every token of the answer but the last, which is
\* sampled and never decoded; after the model's stop it has all of them.
CacheInStep ==
  Answered =>
    kv = IF stop = "eog" THEN in.tokens + generated
         ELSE IF generated = 0 THEN 0 ELSE in.tokens + generated - 1

\* A prompt is refused for its length only if it exceeds what the caller or the
\* model allows.
RefusalIsTrue ==
  /\ error = "maxInputTokens" => in.maxInput > 0 /\ in.tokens > in.maxInput
  /\ error = "contextWindow"  =>
       \/ in.maxContext > 0 /\ in.tokens > in.maxContext
       \/ in.trained > 0 /\ in.tokens > in.trained

\* Each token fed back is the token that was sampled and put in the response.
FedSampled == ~stale

-----------------------------------------------------------------------------
(* The strengthening under which the safety properties are inductive. *)

Refused == error \in {"tokenize", "maxInputTokens", "contextWindow"}

Stopped == error = "none" /\ pc \in {"freeSampler", "freeContext", "returned"}

\* Past its checks a call has its sizes, and they fit each other.
SizesAgree ==
  /\ in.kind = "prompt" /\ pc # "checkInput" /\ ~Refused =>
       in.tokens > 0 /\ ~InputTooLong
  /\ pc \notin {"checkInput", "sizeContext"} /\ ~Refused =>
       IF in.kind = "prompt"
       THEN n_ctx = PromptContext /\ in.tokens <= n_ctx /\ n_batch = in.tokens
       ELSE n_ctx >= 1 /\ n_batch = 1
  /\ pc \in {"checkInput", "sizeContext", "makeContext", "makeSampler", "loop",
             "decode", "sample"} => error = "none" /\ stop = "none"
  /\ Refused => pc = "returned"
  /\ in.kind = "warmup" => pc \notin {"checkInput", "makeSampler", "loop", "sample",
                                      "freeSampler"}

\* How many positions the cache has when the loop is at its top.
Cached == IF generated = 0 THEN 0 ELSE in.tokens + generated - 1

\* The cache, the batch and the loop counter move together.
LoopAgrees ==
  /\ pc \in {"checkInput", "sizeContext", "makeContext", "makeSampler"} =>
       kv = 0 /\ generated = 0
  /\ pc = "makeSampler" => batch = in.tokens
  /\ in.kind = "warmup" /\ pc = "decode" => kv = 0 /\ batch = 1
  /\ in.kind = "prompt" /\ pc \in {"loop", "decode"} =>
       /\ kv = Cached
       /\ batch = IF generated = 0 THEN in.tokens ELSE 1
       /\ in.tokens + generated <= n_ctx
       /\ in.maxOutput > 0 => generated <= in.maxOutput
  /\ in.kind = "prompt" /\ pc \in {"decode", "sample"} => ~OutputFull /\ ~ContextFull
  /\ pc = "sample" => kv = in.tokens + generated
  /\ in.kind = "prompt" /\ Stopped =>
       \/ stop = "eog" /\ kv = in.tokens + generated /\ ~OutputFull /\ ~ContextFull
       \/ /\ stop \in {"limit", "contextFull"}
          /\ kv = Cached
          /\ OutputFull \/ ContextFull
          /\ in.tokens + generated <= n_ctx
          /\ in.maxOutput > 0 => generated <= in.maxOutput

\* The context and the sampler are live exactly between their making and freeing.
LifesAgree ==
  /\ context = "live" <=> pc \in {"makeSampler", "loop", "decode", "sample",
                                   "freeSampler", "freeContext"}
  /\ sampler = "live" <=>
       \/ pc \in {"loop", "sample", "freeSampler"}
       \/ pc = "decode" /\ in.kind = "prompt"

IInv == TypeOK /\ SizesAgree /\ LoopAgrees /\ LifesAgree /\ RefusalIsTrue

\* What ended the loop still holds: its counter stands still from there on.
StopSaysWhy ==
  /\ stop = "limit" => OutputFull
  /\ stop = "contextFull" => ContextFull /\ ~OutputFull

-----------------------------------------------------------------------------
(* How long a call can go on *)

\* Tokens there is room for after the prompt and what was generated.
Room ==
  IF in.kind = "prompt" /\ in.tokens + generated <= PromptContext
  THEN PromptContext - (in.tokens + generated) ELSE 0

\* No call takes more steps than this, if each step brings it nearer to its end.
StepsLeft ==
  CASE pc = "returned"    -> 0
    [] pc = "freeContext" -> 1
    [] pc = "freeSampler" -> 2
    [] pc = "sample"      -> 3 + 3 * Room
    [] pc = "decode"      -> 4 + 3 * Room
    [] pc = "loop"        -> 5 + 3 * Room
    [] pc = "makeSampler" -> 6 + 3 * Room
    [] pc = "makeContext" -> 7 + 3 * Room
    [] pc = "sizeContext" -> 8 + 3 * Room
    [] pc = "checkInput"  -> 9 + 3 * Room

\* Each step of a call brings its end nearer: whatever the model samples, and without
\* maxOutputTokens too, the generation loop is left after as many rounds as the context
\* has positions beyond the prompt.
EndsNearer == [][StepsLeft' \in Nat /\ StepsLeft' < StepsLeft]_vars
=============================================================================
