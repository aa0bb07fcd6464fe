------------------------------- MODULE LogSwap -------------------------------
(***************************************************************************)
(* The capture of llama.cpp's log around a native operation: load_model    *)
(* (android/src/main/cpp/ThistleBridge.cpp), thistle_load_model and        *)
(* thistle_prompt (ios/ThistleBridge.mm) save the process-wide logger,     *)
(* point it at a LoadLog on their stack, work, and put back what they      *)
(* saved, to have the log's text for their error message.                  *)
(*                                                                         *)
(* There are two loggers, llama's and ggml's.  llama_log_get reads ggml's; *)
(* llama_log_set writes ggml's and then llama's, with nothing to keep      *)
(* another thread out.  A logger is its callback and its user_data, two    *)
(* words; they are one value here, since each callback does nothing with   *)
(* the other's user_data.                                                  *)
(*                                                                         *)
(* loadModel and warmup are synchronous calls on the JavaScript thread;    *)
(* prompts run on pool threads.  Each call stands for one native call and  *)
(* is also the name of the LoadLog on its stack.                           *)
(***************************************************************************)
EXTENDS FiniteSets

CONSTANTS
  Loads,         \* calls of load_model
  Warmups,       \* calls of warmup, which do not capture
  Prompts,       \* calls of prompt
  Stderr,        \* where a logger nobody set sends its lines
  NoLog,         \* no target
  PromptsSwap    \* TRUE on iOS, where thistle_prompt captures as well

Calls == Loads \cup Warmups \cup Prompts
Sync  == Loads \cup Warmups

ASSUME CallsAssumption ==
  /\ Loads \cap Warmups = {}
  /\ Sync \cap Prompts = {}
  /\ Stderr # NoLog
  /\ {Stderr, NoLog} \cap Calls = {}
ASSUME SwitchAssumption == PromptsSwap \in BOOLEAN

VARIABLES
  ggml,    \* the target of ggml's logger: Stderr or a call's LoadLog
  llama,   \* the target of llama's logger
  pc,      \* pc[c]: where call c is
  prev,    \* prev[c]: previous_callback and previous_user_data of c
  sink,    \* sink[c]: the target of the line c is writing, or NoLog
  text,    \* text[c]: the calls whose lines are in the LoadLog of c
  dead     \* the calls a line of which was appended to a LoadLog that is gone

vars == <<ggml, llama, pc, prev, sink, text, dead>>

Targets == Calls \cup {Stderr}

Stages == {"unused", "get", "set", "setLlama", "captured", "restoreLlama",
           "work", "returned"}

TypeOK ==
  /\ ggml  \in Targets
  /\ llama \in Targets
  /\ pc    \in [Calls -> Stages]
  /\ prev  \in [Calls -> Targets]
  /\ sink  \in [Calls -> Targets \cup {NoLog}]
  /\ text  \in [Calls -> SUBSET Calls]
  /\ dead  \subseteq Calls

Init ==
  /\ ggml = Stderr
  /\ llama = Stderr
  /\ pc   = [c \in Calls |-> "unused"]
  /\ prev = [c \in Calls |-> Stderr]
  /\ sink = [c \in Calls |-> NoLog]
  /\ text = [c \in Calls |-> {}]
  /\ dead = {}

Swaps(c)   == c \in Loads \/ (c \in Prompts /\ PromptsSwap)
Running(c) == pc[c] \notin {"unused", "returned"}

\* Between the first store of the capture and the last of the restore.
Holding(c) == pc[c] \in {"setLlama", "captured", "restoreLlama"}

Goto(c, from, to) == pc[c] = from /\ pc' = [pc EXCEPT ![c] = to]

-----------------------------------------------------------------------------
(* A call starts, when its thread is free to make it. *)
Start(c) ==
  /\ pc[c] = "unused"
  /\ c \in Sync => \A d \in Sync : ~Running(d)
  /\ pc' = [pc EXCEPT ![c] = IF Swaps(c) THEN "get" ELSE "work"]
  /\ UNCHANGED <<ggml, llama, prev, sink, text, dead>>

\* llama_log_get(&previous_callback, &previous_user_data)
GetLog(c) ==
  /\ Goto(c, "get", "set")
  /\ prev' = [prev EXCEPT ![c] = ggml]
  /\ UNCHANGED <<ggml, llama, sink, text, dead>>

\* llama_log_set(capture_load_log, &load_log): ggml's logger ...
SetGgml(c) ==
  /\ Goto(c, "set", "setLlama")
  /\ ggml' = c
  /\ UNCHANGED <<llama, prev, sink, text, dead>>

\* ... and llama's.
SetLlama(c) ==
  /\ Goto(c, "setLlama", "captured")
  /\ llama' = c
  /\ UNCHANGED <<ggml, prev, sink, text, dead>>

\* A line is logged, by the load or the context's creation inside the capture,
\* or by the warmup or the generation outside of it: its target is read ...
EmitBegin(c) ==
  /\ pc[c] = "captured" \/ (pc[c] = "work" /\ c \notin Loads)
  /\ sink[c] = NoLog
  /\ \E t \in {ggml, llama} : sink' = [sink EXCEPT ![c] = t]
  /\ UNCHANGED <<ggml, llama, pc, prev, text, dead>>

\* ... and then the callback runs, and capture_load_log appends to the text.
EmitEnd(c) ==
  /\ sink[c] # NoLog
  /\ sink' = [sink EXCEPT ![c] = NoLog]
  /\ IF sink[c] \in Calls
       THEN /\ text' = [text EXCEPT ![sink[c]] = @ \cup {c}]
            /\ dead' = IF pc[sink[c]] = "returned" THEN dead \cup {c} ELSE dead
       ELSE UNCHANGED <<text, dead>>
  /\ UNCHANGED <<ggml, llama, pc, prev>>

\* llama_log_set(previous_callback, previous_user_data): ggml's logger ...
RestoreGgml(c) ==
  /\ sink[c] = NoLog
  /\ Goto(c, "captured", "restoreLlama")
  /\ ggml' = prev[c]
  /\ UNCHANGED <<llama, prev, sink, text, dead>>

\* Mistaken form: the restore reaches ggml's logger only.
RestoreLlamaForgotten(c) ==
  /\ Goto(c, "restoreLlama", "work")
  /\ UNCHANGED <<ggml, llama, prev, sink, text, dead>>

\* ... and llama's.
RestoreLlama(c) ==
  /\ Goto(c, "restoreLlama", "work")
  /\ llama' = prev[c]
  /\ UNCHANGED <<ggml, prev, sink, text, dead>>

\* The call returns, and its LoadLog is gone.
ReturnCall(c) ==
  /\ sink[c] = NoLog
  /\ Goto(c, "work", "returned")
  /\ UNCHANGED <<ggml, llama, prev, sink, text, dead>>

Step(c) ==
  \/ Start(c) \/ GetLog(c) \/ SetGgml(c) \/ SetLlama(c)
  \/ EmitBegin(c) \/ EmitEnd(c)
  \/ RestoreGgml(c) \/ RestoreLlama(c) \/ ReturnCall(c)

Next == \E c \in Calls : Step(c)

Spec == Init /\ [][Next]_vars

-----------------------------------------------------------------------------
(* Safety *)

\* When no call is between its capture and its restore, both loggers are what
\* they were before the first: no capture outlives its call.
RestoredAtRest == (\A c \in Calls : ~Holding(c)) => ggml = Stderr /\ llama = Stderr

\* A logger points at a LoadLog only while the call it belongs to is running.
TargetLive == \A t \in {ggml, llama} : t \in Calls => Running(t)

\* The text a load's error message is made of has lines of its own and of
\* prompts that ran meanwhile, none of another load or of a warmup.
LoadLines == \A l \in Loads : text[l] \subseteq {l} \cup Prompts

\* No line of a load or a warmup is appended to the LoadLog of a call that has
\* returned.
SyncNotDead == dead \cap Sync = {}

-----------------------------------------------------------------------------
(* The strengthening under which the safety properties are inductive, as long as *)
(* captures are made one at a time.                                              *)

\* Between llama_log_get and the last store of the restore.
Capturing(c) == pc[c] = "set" \/ Holding(c)

\* No call captures while another does.  Nothing in the code says so of prompts.
OneCapture == \A c, d \in Calls : Capturing(c) /\ Capturing(d) => c = d

\* The JavaScript thread is inside of one call at a time.
OneSync == \A c, d \in Sync : Running(c) /\ Running(d) => c = d

\* What the loggers hold, by how far the one capture there can be has got.
LoggersAgree ==
  /\ RestoredAtRest
  /\ \A c \in Calls :
       /\ pc[c] = "setLlama"     => ggml = c      /\ llama = Stderr
       /\ pc[c] = "captured"     => ggml = c      /\ llama = c
       /\ pc[c] = "restoreLlama" => ggml = Stderr /\ llama = c
       /\ Capturing(c) => prev[c] = Stderr

\* A line of a load goes to its own LoadLog, and one of a warmup to no load's.
LinesAgree ==
  /\ LoadLines
  /\ \A c \in Loads   : sink[c] # NoLog => sink[c] = c /\ pc[c] = "captured"
  /\ \A w \in Warmups : sink[w] \notin Loads

AloneInv == TypeOK /\ OneSync /\ LoggersAgree /\ LinesAgree

-----------------------------------------------------------------------------
(* The strengthening for a platform on which only loads capture. *)

\* Prompts and warmups are never inside a capture.
OnlyLoadsSwap == \A c \in Calls : Capturing(c) \/ pc[c] = "get" => c \in Loads

\* A line of a warmup goes to stderr.
WarmupsAgree ==
  /\ SyncNotDead
  /\ \A w \in Warmups : sink[w] \in {NoLog, Stderr}

IInv == AloneInv /\ OnlyLoadsSwap /\ WarmupsAgree
=============================================================================
