--------------------------- MODULE ThistleContract ---------------------------
(***************************************************************************)
(* What Thistle promises an application, whatever the platform: model      *)
(* instances with a lifetime, and prompts that run on the model of the     *)
(* instance they were made on for as long as they run, or are refused      *)
(* because that instance was unloaded.  It is read off the public          *)
(* interface (ThistleModel in src/index.tsx) and the one error both        *)
(* bridges give for a missing model, "Model is not loaded."                *)
(***************************************************************************)
CONSTANTS Instances, Calls, NoInst

VARIABLES
  stage,   \* stage[i]: "new", "loaded" or "gone"
  state,   \* state[c]: how far prompt call c is
  on,      \* on[c]: the instance c was made on
  by       \* by[c]: the instance whose model runs c

vars == <<stage, state, on, by>>

Init ==
  /\ stage = [i \in Instances |-> "new"]
  /\ state = [c \in Calls |-> "unused"]
  /\ on = [c \in Calls |-> NoInst]
  /\ by = [c \in Calls |-> NoInst]

Load(i) ==
  /\ stage[i] = "new"
  /\ stage' = [stage EXCEPT ![i] = "loaded"]
  /\ UNCHANGED <<state, on, by>>

\* A model is never taken from under a prompt that runs on it.
Unload(i) ==
  /\ stage[i] = "loaded"
  /\ \A c \in Calls : state[c] = "running" => by[c] # i
  /\ stage' = [stage EXCEPT ![i] = "gone"]
  /\ UNCHANGED <<state, on, by>>

Prompt(c, i) ==
  /\ state[c] = "unused"
  /\ stage[i] # "new"
  /\ state' = [state EXCEPT ![c] = "pending"]
  /\ on' = [on EXCEPT ![c] = i]
  /\ UNCHANGED <<stage, by>>

\* A prompt runs on its own instance's model and on no other.
Start(c) ==
  /\ state[c] = "pending"
  /\ stage[on[c]] = "loaded"
  /\ state' = [state EXCEPT ![c] = "running"]
  /\ by' = [by EXCEPT ![c] = on[c]]
  /\ UNCHANGED <<stage, on>>

\* "Model is not loaded." is the truth when it is said.
Refuse(c) ==
  /\ state[c] = "pending"
  /\ stage[on[c]] = "gone"
  /\ state' = [state EXCEPT ![c] = "rejected"]
  /\ UNCHANGED <<stage, on, by>>

Finish(c) ==
  /\ state[c] = "running"
  /\ \E s \in {"answered", "rejected"} : state' = [state EXCEPT ![c] = s]
  /\ by' = [by EXCEPT ![c] = NoInst]
  /\ UNCHANGED <<stage, on>>

Progress(c) == Start(c) \/ Refuse(c) \/ Finish(c)

Next ==
  \/ \E i \in Instances : Load(i) \/ Unload(i)
  \/ \E c \in Calls : Progress(c) \/ \E i \in Instances : Prompt(c, i)

Spec == Init /\ [][Next]_vars /\ \A c \in Calls : WF_vars(Progress(c))
=============================================================================
