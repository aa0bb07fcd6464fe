------------------------------ MODULE MCPromptCall ------------------------------
(* Calls on both platforms: every pair of numbers as default and override of each *)
(* limit, and texts that contain the headings Thistle itself writes.              *)
EXTENDS PromptCall

MCSizes  == 0 .. MaxInt
MCLimits == (0 - MaxInt - 1) .. MaxInt

\* 0, 1/2, 1, 3/2, 2, the last int32 and the last double that becomes it, the
\* first one beyond, one whose lower bits are those of 1, and negative ones.
MCNumbers ==
  {Undefined, NaN, Infinity, NegInfinity, 0, 1, 2, 3, 4, 2 * MaxInt, 2 * MaxInt + 1,
   2 * MaxInt + 2, 4 * MaxInt + 6, 0 - 3, 0 - 2 * MaxInt - 4}

MCWords == {"word"}

None == [f \in Fields |-> Undefined]

MCCall ==
  [kind |-> "prompt", platform |-> "ios", defaults |-> None, options |-> None,
   scaffolding |-> <<>>, data |-> Undefined, text |-> <<"word">>]

\* One limit, with any default and override.
MCLimitCalls ==
  {[MCCall EXCEPT !.platform = p, !.defaults[f] = d, !.options[f] = o] :
     p \in {"ios", "android"}, f \in Fields, d \in MCNumbers, o \in MCNumbers}

MCWarmups ==
  {[MCCall EXCEPT !.kind = "warmup", !.platform = p, !.defaults["context"] = d] :
     p \in {"ios", "android"}, d \in MCNumbers}

\* Three limits at once.
MCMixedCalls ==
  {[MCCall EXCEPT !.options["input"] = 2 * i, !.options["context"] = 2 * c,
                  !.options["output"] = 2 * o] :
     i \in MCSizes, c \in MCSizes, o \in MCSizes}

MCTexts == {<<>>, <<"word">>, <<Brk, "word", Brk, "User request", "word">>,
            <<"Scaffolding", "word", Brk>>}

MCTextCalls ==
  {[MCCall EXCEPT !.scaffolding = s, !.data = d, !.text = t] :
     s \in MCTexts \cup {<<Brk, "word", Brk, "word">>}, d \in {Undefined} \cup MCTexts,
     t \in MCTexts}

MCRequests == MCLimitCalls \cup MCWarmups \cup MCMixedCalls \cup MCTextCalls
=============================================================================
