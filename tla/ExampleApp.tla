------------------------------- MODULE ExampleApp -------------------------------
(***************************************************************************)
(* The chat screen of example/src/App.tsx on the Android bridge: an effect *)
(* that calls Thistle.init() on mount and unloads on unmount, and          *)
(* sendMessage, which awaits two animation frames and then the prompt.     *)
(*                                                                         *)
(* Each mount of the screen makes one instance and each message one call.  *)
(* Between any two steps the screen may be unmounted and mounted anew, as  *)
(* navigation does, or StrictMode before init()'s promise is delivered.    *)
(* Its state and refs are then new ones; what was pending goes on with     *)
(* those it was started with, and sets state that nobody sees.             *)
(***************************************************************************)
EXTENDS AndroidBridge

VARIABLES
  screen,     \* the mount whose `mounted` is true, or NoInst
  ref,        \* model.current of the present screen
  status,     \* state.status of the present screen
  delivered,  \* the mounts whose init() promise was delivered
  sending,    \* sending[c]: how far sendMessage is with message c
  mine        \* the messages that were sent on the present screen

screenVars == <<screen, ref, status, delivered, sending, mine>>
appVars == <<vars, screenVars>>

ScreenTypeOK ==
  /\ screen \in Instances \cup {NoInst}
  /\ ref \in Instances \cup {NoInst}
  /\ status \in {"loading", "ready", "thinking", "error"}
  /\ delivered \subseteq Instances
  /\ sending \in [Calls -> {"unsent", "frames", "prompting", "answered", "failed"}]
  /\ mine \subseteq Calls

AppInit ==
  /\ Init
  /\ screen = NoInst /\ ref = NoInst /\ status = "loading"
  /\ delivered = {} /\ mine = {}
  /\ sending = [c \in Calls |-> "unsent"]

\* What message c sets is state of the screen that is there to be seen.
OnScreen(c) == c \in mine /\ screen # NoInst

\* Messages of this screen whose bubble still says "Thinking" and may yet be answered.
Busy == {c \in mine : sending[c] \in {"frames", "prompting"}}

-----------------------------------------------------------------------------
(* The effect of the mount. *)

\* useState and useRef start anew, and the effect enters Thistle.init().
Mount(i) ==
  /\ screen = NoInst
  /\ InitCall(i) /\ UNCHANGED nativeVars
  /\ screen' = i /\ ref' = NoInst /\ status' = "loading" /\ mine' = {}
  /\ UNCHANGED <<delivered, sending>>

Delivers(i) == op = "idle" /\ i \notin delivered /\ delivered' = delivered \cup {i}

\* .then() on a mounted screen.
ThenKeeps(i) ==
  /\ Delivers(i) /\ life[i] = "ready" /\ screen = i
  /\ ref' = i /\ status' = "ready"
  /\ UNCHANGED <<vars, screen, sending, mine>>

\* Mistaken form: nobody is there to take the model, and it is dropped.
ThenDrops(i) ==
  /\ Delivers(i) /\ life[i] = "ready" /\ screen # i
  /\ UNCHANGED <<vars, screen, ref, status, sending, mine>>

\* .then() after the screen was unmounted: the model is unloaded at once.
ThenUnloads(i) ==
  /\ Delivers(i) /\ life[i] = "ready" /\ screen # i
  /\ UnloadCall(i) /\ UNCHANGED nativeVars
  /\ UNCHANGED <<screen, ref, status, sending, mine>>

\* .catch(): the load or the warmup threw.
Catch(i) ==
  /\ Delivers(i) /\ life[i] = "failed"
  /\ status' = IF screen = i THEN "error" ELSE status
  /\ UNCHANGED <<vars, screen, ref, sending, mine>>

\* Mistaken form: the effect's cleanup runs whenever the screen is drawn again.
UnmountOnRender ==
  /\ screen # NoInst /\ ref # NoInst
  /\ UnloadCall(ref) /\ UNCHANGED nativeVars
  /\ UNCHANGED <<screen, ref, status, delivered, sending, mine>>

\* The cleanup: mounted becomes false, what model.current holds is unloaded, and
\* the reference is cleared; a prompt may be running on it.
Unmount ==
  /\ op = "idle" /\ screen # NoInst
  /\ IF ref # NoInst THEN UnloadCall(ref) /\ UNCHANGED nativeVars ELSE UNCHANGED vars
  /\ screen' = NoInst /\ ref' = NoInst
  /\ UNCHANGED <<status, delivered, sending, mine>>

-----------------------------------------------------------------------------
(* sendMessage. *)

\* Mistaken form: only the reference is looked at.
SendAnytime(c) ==
  /\ op = "idle" /\ screen # NoInst
  /\ sending[c] = "unsent" /\ ref # NoInst
  /\ sending' = [sending EXCEPT ![c] = "frames"]
  /\ status' = "thinking" /\ mine' = mine \cup {c}
  /\ UNCHANGED <<vars, screen, ref, delivered>>

\* The guard holds: the message and its "Thinking" bubble are shown.
Send(c) ==
  /\ op = "idle" /\ screen # NoInst
  /\ sending[c] = "unsent" /\ ref # NoInst /\ status = "ready"
  /\ sending' = [sending EXCEPT ![c] = "frames"]
  /\ status' = "thinking" /\ mine' = mine \cup {c}
  /\ UNCHANGED <<vars, screen, ref, delivered>>

\* Two frames later: model.current is read again, and is still there.
FramesPrompt(c) ==
  /\ sending[c] = "frames" /\ c \in mine /\ ref # NoInst
  /\ PromptCall(c, ref) /\ UNCHANGED nativeVars
  /\ sending' = [sending EXCEPT ![c] = "prompting"]
  /\ UNCHANGED <<screen, ref, status, delivered, mine>>

\* It was cleared meanwhile: reading prompt of null throws.
FramesThrow(c) ==
  /\ op = "idle"
  /\ sending[c] = "frames" /\ ~(c \in mine /\ ref # NoInst)
  /\ sending' = [sending EXCEPT ![c] = "failed"]
  /\ status' = IF OnScreen(c) THEN "error" ELSE status
  /\ UNCHANGED <<vars, screen, ref, delivered, mine>>

\* Mistaken form: the error is logged and the state left as it is.
PromptRejectsQuietly(c) ==
  /\ pc[c] = "failed" /\ Settle(c) /\ UNCHANGED nativeVars
  /\ sending' = [sending EXCEPT ![c] = "failed"]
  /\ UNCHANGED <<screen, ref, status, delivered, mine>>

\* The prompt was rejected: 'error', and the bubble stays as it is.
PromptRejects(c) ==
  /\ pc[c] = "failed" /\ Settle(c) /\ UNCHANGED nativeVars
  /\ sending' = [sending EXCEPT ![c] = "failed"]
  /\ status' = IF OnScreen(c) THEN "error" ELSE status
  /\ UNCHANGED <<screen, ref, delivered, mine>>

\* The answer takes the bubble's place, and the screen is ready again.
PromptAnswers(c) ==
  /\ pc[c] = "answered" /\ Settle(c) /\ UNCHANGED nativeVars
  /\ sending' = [sending EXCEPT ![c] = "answered"]
  /\ status' = IF OnScreen(c) THEN "ready" ELSE status
  /\ UNCHANGED <<screen, ref, delivered, mine>>

-----------------------------------------------------------------------------
BridgeStep == (\E i \in Instances : NativeStep(i)) \/ (\E c \in Calls : PoolStep(c))

InitDelivered(i) == ThenKeeps(i) \/ ThenUnloads(i) \/ Catch(i)

SendGoesOn(c) ==
  FramesPrompt(c) \/ FramesThrow(c) \/ PromptRejects(c) \/ PromptAnswers(c)

AppNext ==
  \/ BridgeStep /\ UNCHANGED screenVars
  \/ \E i \in Instances : Mount(i) \/ InitDelivered(i)
  \/ Unmount
  \/ \E c \in Calls : Send(c) \/ SendGoesOn(c)

AppSpec == AppInit /\ [][AppNext]_appVars

\* Native calls return and pool threads run, as in AndroidBridge; promises and
\* frames get their turn on the JavaScript thread, which is idle again and again.
\* Nobody has to mount, to send or to unmount.
AppFairness ==
  /\ \A i \in Instances :
       WF_appVars(NativeStep(i) /\ UNCHANGED screenVars) /\ SF_appVars(InitDelivered(i))
  /\ \A c \in Calls :
       WF_appVars(PoolStep(c) /\ UNCHANGED screenVars) /\ SF_appVars(SendGoesOn(c))

AppFairSpec == AppSpec /\ AppFairness

-----------------------------------------------------------------------------
(* Properties *)

\* What the screen says is true of the model: if it is ready or thinking, its own
\* mount's model is loaded and model.current refers to it; and it is thinking as
\* long as exactly one message of its own waits for an answer.
StatusIsTrue ==
  screen # NoInst =>
    /\ status \in {"ready", "thinking"} => ref = screen /\ life[screen] = "ready"
    /\ status = "thinking" <=> Busy # {}
    /\ \A c, d \in Busy : c = d

\* No user is ever told "Model is not loaded.": a prompt that is refused was sent on
\* a screen that is gone.
RefusedOnlyWhenGone == \A c \in Calls : reason[c] = "notLoaded" => ~OnScreen(c)

\* As long as the screen that sent it is there, a prompt works on that screen's model,
\* which is allocated: of all the screen does, only its unmount can take the model from
\* under a prompt.
PresentAlive ==
  \A c \in Calls : Runs(c) /\ OnScreen(c) => uses[c] = screen /\ screen \in heap

\* A model that was loaded and warmed up for a screen that is gone is given back,
\* whether the screen went before or after init() was delivered.
GoneGivesBack ==
  \A i \in Instances :
    life[i] = "ready" /\ screen # i ~> life[i] = "unloaded" /\ i \notin heap

\* A message is answered, or its screen shows an error, or is gone.
SendsEnd ==
  \A c \in Calls :
    c \in Busy ~> sending[c] = "answered" \/ status = "error" \/ ~OnScreen(c)

-----------------------------------------------------------------------------
(* The strengthening under which the safety properties are inductive. *)

\* How far each mount and each message is agrees with the bridge's view of it.
ScreenAgrees ==
  /\ \A i \in Instances : life[i] = "new" => i # screen /\ i \notin delivered
  /\ \A i \in Instances : i \in delivered => life[i] \in {"ready", "failed", "unloaded"}
  /\ \A i \in Instances : life[i] = "unloaded" => i \in delivered
  /\ ref # NoInst => ref = screen /\ life[ref] = "ready" /\ ref \in delivered
  /\ screen # NoInst /\ screen \in delivered /\ status # "error" => ref = screen
  /\ screen # NoInst /\ screen \notin delivered => status = "loading" /\ ref = NoInst
  /\ screen # NoInst /\ screen \in delivered => status # "loading"
  /\ screen # NoInst /\ ref = NoInst => mine = {}
  /\ \A c \in Calls : sending[c] \in {"unsent", "frames"} => pc[c] = "unused"
  /\ \A c \in Calls :
       sending[c] = "prompting" <=> Pending(c)
  /\ \A c \in mine : OnScreen(c) /\ target[c] # NoInst => target[c] = screen
  /\ \A c \in mine : sending[c] # "unsent"

AppInv == ScreenTypeOK /\ ScreenAgrees /\ StatusIsTrue
=============================================================================
