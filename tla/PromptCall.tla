------------------------------ MODULE PromptCall ------------------------------
(***************************************************************************)
(* One model.prompt(), or the warmup in Thistle.init(), from the           *)
(* application's options to the native function: src/index.tsx merges the  *)
(* limits and builds the text, Thistle.swift or Thistle.kt converts the    *)
(* limits from doubles, format_prompt splits the text again, and then      *)
(* module Decode runs.                                                     *)
(*                                                                         *)
(* A JavaScript number is an integer counting halves, or one of the        *)
(* constants below.  A text is a sequence of pieces: words, blank lines,   *)
(* and the headings buildPrompt writes, which the application's own texts  *)
(* may contain too.                                                        *)
(***************************************************************************)
EXTENDS Decode, Sequences, FiniteSetsExt

CONSTANTS
  Requests,    \* the calls the application makes
  Words,       \* what texts are made of, besides blank lines and headings
  MaxInt,      \* INT32_MAX
  Undefined, NaN, Infinity, NegInfinity

Fields == {"input", "context", "output", "reasoning"}

\* No token count and no trained size exceeds an int32.
ASSUME IntAssumption == MaxInt \in Nat \ {0} /\ \A n \in Sizes : n <= MaxInt

JsNumbers == Int \cup {Undefined, NaN, Infinity, NegInfinity}

ASSUME NumbersAssumption ==
  /\ Undefined \notin {NaN, Infinity, NegInfinity}
  /\ NaN \notin {Infinity, NegInfinity} /\ Infinity # NegInfinity
  /\ {Undefined, NaN, Infinity, NegInfinity} \cap Int = {}

Brk == "blank line"

\* A text is a sequence of these.
Pieces == Words \cup {Brk, "Scaffolding", "Context data", "User request", "escaped"}

\* Any limit may be left out, and any may be any number; so may the data, and the
\* texts may be any.
ASSUME RequestsAssumption ==
  \A r \in Requests :
    /\ r.kind \in {"prompt", "warmup"} /\ r.platform \in {"ios", "android"}
    /\ r.text \in Seq(Pieces) /\ r.scaffolding \in Seq(Pieces)
    /\ r.data = Undefined \/ r.data \in Seq(Pieces)
    /\ \A f \in Fields : r.defaults[f] \in JsNumbers /\ r.options[f] \in JsNumbers

VARIABLES
  request,   \* the call: its platform, options and texts
  stage,     \* "called", "native", "formatted", or "trapped"
  messages   \* what format_prompt hands to the model's chat template

callVars == <<request, stage, messages>>

-----------------------------------------------------------------------------
(* Limits *)

\* Mistaken form: the default goes before the override.
mergedDefaultFirst(f) ==
  IF request.defaults[f] # Undefined THEN request.defaults[f] ELSE request.options[f]

\* promptOptions.f ?? options.f, or options.f alone in a warmup.
merged(f) ==
  IF request.kind = "prompt" /\ request.options[f] # Undefined
  THEN request.options[f] ELSE request.defaults[f]

\* Mistaken form: value ?? 0.
nativeLimitNullish(value) == IF value = Undefined THEN 0 ELSE value

\* value || 0
nativeLimit(value) == IF value \in {Undefined, NaN} THEN 0 ELSE value

\* A double with its fraction cut off.
Truncated(v) == IF v >= 0 THEN v \div 2 ELSE 0 - ((0 - v) \div 2)

\* Swift's Int32(v) exists; otherwise it stops the process.
FitsInt32(v) ==
  /\ v \notin {NaN, Infinity, NegInfinity}
  /\ Truncated(v) \in (0 - MaxInt - 1) .. MaxInt

\* Mistaken form: by way of a Long, whose upper bits are dropped.
toIntWraps(v) ==
  IF v \in {NaN, Infinity, NegInfinity} THEN 0 - 1
  ELSE ((Truncated(v) + MaxInt + 1) % (2 * MaxInt + 2)) - MaxInt - 1

\* Kotlin's v.toInt(), which saturates.
toInt(v) ==
  CASE v = NaN         -> 0
    [] v = Infinity    -> MaxInt
    [] v = NegInfinity -> 0 - MaxInt - 1
    [] OTHER -> IF Truncated(v) > MaxInt THEN MaxInt
                ELSE IF Truncated(v) < 0 - MaxInt - 1 THEN 0 - MaxInt - 1
                ELSE Truncated(v)

Limit(f) == nativeLimit(merged(f))

\* What is converted: a warmup has a context size only.
Passed == IF request.kind = "prompt" THEN Fields ELSE {"context"}

Traps == request.platform = "ios" /\ \E f \in Passed : ~FitsInt32(Limit(f))

-----------------------------------------------------------------------------
(* Texts *)

Trim(s) ==
  LET kept == {k \in DOMAIN s : s[k] # Brk}
  IN  IF kept = {} THEN <<>> ELSE SubSeq(s, Min(kept), Max(kept))

\* JSON.stringify escapes the line breaks of strings.
Stringify(data) == [k \in DOMAIN data |-> IF data[k] = Brk THEN "escaped" ELSE data[k]]

\* The sections there are, with a blank line between them.
buildPrompt(text, scaffolding, data) ==
  (IF Trim(scaffolding) = <<>> THEN <<>>
   ELSE <<"Scaffolding">> \o Trim(scaffolding) \o <<Brk>>)
  \o (IF data = Undefined THEN <<>> ELSE <<"Context data">> \o Stringify(data) \o <<Brk>>)
  \o <<"User request">> \o Trim(text)

\* Where user_request_marker occurs in a text.
Markers(s) == {k \in 1 .. Len(s) - 1 : s[k] = Brk /\ s[k + 1] = "User request"}

\* Mistaken form: rfind, the last marker.
SplitMarkerLast(s) == Max(Markers(s))

\* text.find(user_request_marker)
SplitMarker(s) == Min(Markers(s))

\* The messages: what is between the prefix and the marker is the system's.
Split(s) ==
  IF s[1] = "Scaffolding" /\ Markers(s) # {}
  THEN << [role |-> "system", text |-> SubSeq(s, 2, SplitMarker(s) - 1)],
          [role |-> "user",   text |-> SubSeq(s, SplitMarker(s) + 2, Len(s))] >>
  ELSE << [role |-> "user", text |-> s] >>

-----------------------------------------------------------------------------
(* The call *)

Text == buildPrompt(request.text, request.scaffolding, request.data)

\* What the native function is given, if it comes to that, and what the model
\* makes of it.
Arguments(tokens, trained) ==
  [kind |-> request.kind, trained |-> trained,
   maxContext |-> toInt(Limit("context")),
   tokens     |-> IF request.kind = "prompt" THEN tokens ELSE 0,
   maxInput   |-> IF request.kind = "prompt" THEN toInt(Limit("input")) ELSE 0,
   maxOutput  |-> IF request.kind = "prompt" THEN toInt(Limit("output")) ELSE 0]

CallInit ==
  /\ request \in Requests
  /\ \E tokens, trained \in Sizes : in = Arguments(tokens, trained)
  /\ Init
  /\ stage = "called" /\ messages = <<>>

\* The limits are converted one after the other, and the native function entered.
Convert ==
  /\ stage = "called"
  /\ stage' = IF Traps THEN "trapped" ELSE "native"
  /\ UNCHANGED <<vars, request, messages>>

\* The model has a chat template that takes the messages.
FormatChat ==
  /\ stage = "native" /\ in.kind = "prompt"
  /\ stage' = "formatted" /\ messages' = Split(Text)
  /\ UNCHANGED <<vars, request>>

\* It has none, or it does not: "Question: ... Answer:".
FormatPlain ==
  /\ stage = "native" /\ in.kind = "prompt"
  /\ stage' = "formatted" /\ messages' = << [role |-> "none", text |-> Text] >>
  /\ UNCHANGED <<vars, request>>

\* Mistaken form: the text is formatted when it is needed, or not at all.
RunUnformatted == stage # "called" /\ Next /\ UNCHANGED callVars

Run ==
  /\ stage = IF in.kind = "prompt" THEN "formatted" ELSE "native"
  /\ Next
  /\ UNCHANGED callVars

CallNext == Convert \/ FormatChat \/ FormatPlain \/ Run

callAllVars == <<vars, callVars>>

CallSpec == CallInit /\ [][CallNext]_callAllVars

\* One thread goes through the call, and every function it calls returns.
CallFairSpec == CallSpec /\ WF_callAllVars(CallNext)

-----------------------------------------------------------------------------
(* Properties *)

\* Each part is in its range, and the native function does nothing before its
\* arguments are converted and its text is formatted.
CallTypeOK ==
  /\ request.kind = in.kind /\ request.platform \in {"ios", "android"}
  /\ stage \in {"called", "native", "formatted", "trapped"}
  /\ messages \in Seq([role : {"system", "user", "none"}, text : Seq(Pieces)])
  /\ stage \in {"called", "trapped"} => context = "none" /\ error = "none"
  /\ stage = "native" /\ in.kind = "prompt" => pc = "checkInput"

\* What the application said of a limit, for this call.
Said(f) ==
  IF request.kind = "warmup" \/ request.options[f] = Undefined
  THEN request.defaults[f] ELSE request.options[f]

\* It is a limit if it is a number from 1 up.
IsLimit(f) == Said(f) \notin {Undefined, NaN, Infinity, NegInfinity} /\ Said(f) >= 2

\* A prompt that is answered kept every limit the application set for it, as an
\* override or as a default, however large and on both platforms.
CallerLimitsKept ==
  Answered =>
    /\ IsLimit("input")   => 2 * in.tokens <= Said("input")
    /\ IsLimit("context") => 2 * (in.tokens + generated) <= Said("context")
    /\ IsLimit("output")  => 2 * generated <= Said("output")

\* No answer is cut short, and no prompt refused by maxInputTokens, for a limit the
\* application did not set: falsy, negative and fractional values below 1 are none,
\* and a limit that is too large for an int32 is no smaller than the largest.
NoLimitInvented ==
  /\ Answered /\ stop = "limit" => IsLimit("output") /\ Said("output") < 2 * (generated + 1)
  /\ Answered /\ stop = "contextFull" =>
       \/ in.tokens + generated = in.trained
       \/ IsLimit("context") /\ Said("context") < 2 * (in.tokens + generated + 1)
       \/ in.tokens + generated = MaxInt
       \/ in.trained = 0 /\ ~IsLimit("context")
  /\ error = "maxInputTokens" => IsLimit("input") /\ 2 * in.tokens > Said("input")

\* A limit stops the process only where it is infinite or beyond an int32, which
\* is on iOS: undefined, NaN and 0 mean no limit on both platforms.
FalsyIsSafe ==
  stage = "trapped" =>
    \E f \in Fields :
      \/ Said(f) \in {Infinity, NegInfinity}
      \/ Said(f) \notin {Undefined, NaN} /\ Said(f) \div 2 \notin (0 - MaxInt - 1) .. MaxInt

\* format_prompt undoes buildPrompt: the user's message is the request, to the last
\* piece, and the system's the scaffolding and the data, whatever the request and the
\* data contain.  (A scaffolding that contains the marker itself moves the border;
\* without one the model is given the whole text as the user's.)
SplitUndoes ==
  LET scaffolding == Trim(request.scaffolding)
      data == IF request.data = Undefined THEN <<>>
              ELSE <<Brk, "Context data">> \o Stringify(request.data)
  IN  stage = "formatted" /\ messages[1].role # "none" /\ Markers(scaffolding) = {} =>
        messages =
          IF scaffolding = <<>> THEN << [role |-> "user", text |-> Text] >>
          ELSE << [role |-> "system", text |-> scaffolding \o data],
                  [role |-> "user",   text |-> Trim(request.text)] >>

\* Every call comes to an end: the application gets an answer or an error, or
\* the process stopped at a limit.
CallEnds == <>(pc = "returned" \/ stage = "trapped")
=============================================================================
