---------------------------------- MODULE Setup ----------------------------------
(***************************************************************************)
(* `npx react-native-thistle setup` (scripts/setup.cjs): the wizard that   *)
(* writes the chosen models to .thistle/models.json, the app's Gradle      *)
(* file, the iOS copy script and the Podfile.  It is run any number of     *)
(* times, may be killed between any two of its writes, and finds the       *)
(* project's files in whatever state people, git and other tools have left *)
(* them.                                                                   *)
(*                                                                         *)
(* Once a selection is made the writes run to their end in one callback:   *)
(* the environment changes files before the wizard is started, while it    *)
(* waits for a key, and after it.  A write of one file is taken as one     *)
(* step.                                                                   *)
(***************************************************************************)
EXTENDS Naturals, Sequences, FiniteSets

CONSTANTS
  Models,       \* file names of GGUF models
  Absent,       \* a file that does not exist
  Unreadable    \* a models.json that is no JSON or has no models array

ASSUME FilesAssumption == \A s \in SUBSET Models : s # Absent /\ s # Unreadable

VARIABLES
  assets,       \* the models in assets/
  saved,        \* .thistle/models.json: Absent, Unreadable or a selection
  gradle,       \* the app's build.gradle(.kts): Absent or a GradleFile
  script,       \* ios/ThistleModelAssets.sh: Absent or the models it copies
  pod,          \* ios/Podfile: Absent or a Podfile
  pc,           \* where the wizard is; "idle" when it does not run
  available,    \* availableModels, as read when the wizard was started
  before,       \* selectedModels: what of the saved selection is available
  selected,     \* the models checked in the menu
  asked         \* the user confirmed that everything is disconnected

files == <<assets, saved, gradle, script, pod>>
wizard == <<pc, available, before, selected, asked>>
vars == <<assets, saved, gradle, script, pod, pc, available, before, selected, asked>>

\* A Gradle file has an `android {` or not, and marked blocks in order, each with
\* the models it copies; ended says that an END marker follows the first BEGIN.
GradleFiles == [android : BOOLEAN, ended : BOOLEAN, blocks : Seq(SUBSET Models)]

ASSUME GradleAssumption == Absent \notin GradleFiles

\* A Podfile has the marked helper so many times, so many calls of it, and a hook
\* `post_install do |installer|`, one that names its parameter otherwise, or both.
Hooks    == {"none", "installer", "other", "both"}
Podfiles == [helpers : Nat, calls : Nat, post : Hooks]

TypeOK ==
  /\ assets \subseteq Models
  /\ saved \in {Absent, Unreadable} \/ saved \subseteq Models
  /\ gradle = Absent \/ gradle \in GradleFiles
  /\ script = Absent \/ script \subseteq Models
  /\ pod = Absent \/ pod \in Podfiles
  /\ pc \in {"idle", "menu", "confirm", "save", "android", "script", "podfile", "done"}
  /\ available \subseteq Models
  /\ before \subseteq Models
  /\ selected \subseteq Models
  /\ asked \in BOOLEAN

-----------------------------------------------------------------------------
(* The project's files, as anything but the wizard may leave them.          *)

\* A project of which setup has not run, or one from a commit in which it had:
\* without an android block, without Thistle's, or with one for any selection, whose
\* END marker may have been lost.
ProjectGradle ==
  {[android |-> a, ended |-> TRUE, blocks |-> <<>>] : a \in BOOLEAN} \cup
  {[android |-> TRUE, ended |-> e, blocks |-> <<s>>] : e \in BOOLEAN, s \in SUBSET Models}

\* A Podfile has the helper at its top or not, and a call in its post_install or not:
\* either may be lost, or taken over, without the other.
ProjectPodfiles ==
  {p \in [helpers : 0 .. 1, calls : 0 .. 1, post : Hooks] : p.calls = 1 => p.post # "none"}

Init ==
  /\ assets = {} /\ saved = Absent /\ script = Absent
  /\ gradle \in {Absent, [android |-> TRUE, ended |-> TRUE, blocks |-> <<>>]}
  /\ pod \in {Absent, [helpers |-> 0, calls |-> 0, post |-> "installer"]}
  /\ pc = "idle" /\ available = {} /\ before = {} /\ selected = {} /\ asked = FALSE

\* Files change only while the wizard does not run or waits for a key.
Waiting == pc \in {"idle", "menu", "confirm", "done"}

AssetsChange ==
  /\ Waiting
  /\ assets' \in SUBSET Models
  /\ UNCHANGED <<saved, gradle, script, pod, wizard>>

SelectionChanges ==
  /\ Waiting
  /\ \/ saved' \in SUBSET Models
     \/ saved' \in {Absent, Unreadable}
  /\ UNCHANGED <<assets, gradle, script, pod, wizard>>

AndroidChanges ==
  /\ Waiting
  /\ gradle' = Absent \/ gradle' \in ProjectGradle
  /\ UNCHANGED <<assets, saved, script, pod, wizard>>

IosChanges ==
  /\ Waiting
  /\ pod' = Absent \/ pod' \in ProjectPodfiles
  /\ script' = script \/ script' = Absent
  /\ UNCHANGED <<assets, saved, gradle, wizard>>

-----------------------------------------------------------------------------
(* The menu.                                                                *)

\* Mistaken form: a model whose file was removed stays selected.
readSelectedModelsUnfiltered == IF saved = Absent THEN {} ELSE saved

\* The selection that models.json holds of the models that are available.
readSelectedModels == IF saved = Absent THEN {} ELSE saved \cap assets

\* The process ends and forgets the menu.
Leave ==
  /\ pc' = "idle" /\ available' = {} /\ before' = {} /\ selected' = {} /\ asked' = FALSE
  /\ UNCHANGED files

\* main() reads the folder and the saved selection, which throws if it cannot
\* be parsed, and opens the menu.
Start ==
  /\ pc = "idle" /\ saved # Unreadable /\ assets # {}
  /\ available' = assets
  /\ before' = readSelectedModels
  /\ selected' = before'
  /\ pc' = "menu"
  /\ UNCHANGED <<files, asked>>

\* With no models there is no menu and nothing is selected.
StartWithoutModels ==
  /\ pc = "idle" /\ saved # Unreadable /\ assets = {}
  /\ pc' = "save"
  /\ UNCHANGED <<files, available, before, selected, asked>>

\* Space on a model.
Toggle(m) ==
  /\ pc = "menu" /\ m \in available
  /\ selected' = IF m \in selected THEN selected \ {m} ELSE selected \cup {m}
  /\ UNCHANGED <<files, pc, available, before, asked>>

\* Space on None.
ToggleNone ==
  /\ pc = "menu"
  /\ selected' = {}
  /\ UNCHANGED <<files, pc, available, before, asked>>

\* Mistaken form: Enter saves whatever it finds selected.
EnterUnasked == pc = "menu" /\ selected' = selected \cap available /\ pc' = "save" /\ UNCHANGED <<files, available, before, asked>>

\* Enter saves, unless it would disconnect everything that was connected.
Enter ==
  /\ pc = "menu" /\ (selected # {} \/ before = {})
  /\ selected' = selected \cap available
  /\ pc' = "save"
  /\ UNCHANGED <<files, available, before, asked>>

EnterAsks ==
  /\ pc = "menu" /\ selected = {} /\ before # {}
  /\ pc' = "confirm"
  /\ UNCHANGED <<files, available, before, selected, asked>>

ConfirmYes ==
  /\ pc = "confirm"
  /\ pc' = "save" /\ asked' = TRUE
  /\ UNCHANGED <<files, available, before, selected>>

\* Anything else is a no: back to the menu with nothing selected.  (That readline
\* has paused standard input by then, so that node may simply end, is a Kill.)
ConfirmNo ==
  /\ pc = "confirm"
  /\ pc' = "menu"
  /\ UNCHANGED <<files, available, before, selected, asked>>

\* Ctrl-C does not leave: it goes on with the selection there was before.
CtrlC ==
  /\ pc = "menu"
  /\ selected' = before /\ pc' = "save"
  /\ UNCHANGED <<files, available, before, asked>>

-----------------------------------------------------------------------------
(* The writes.                                                              *)

writeSelectedModels ==
  /\ pc = "save"
  /\ saved' = selected /\ pc' = "android"
  /\ UNCHANGED <<assets, gradle, script, pod, available, before, selected, asked>>

AndroidDone == pc' = "script" /\ UNCHANGED <<assets, saved, script, pod, available, before, selected, asked>>

AndroidNotFound == pc = "android" /\ gradle = Absent /\ gradle' = gradle /\ AndroidDone

\* No android block: setupAndroid throws, and with it the wizard.
AndroidThrows == pc = "android" /\ gradle # Absent /\ ~gradle.android /\ Leave

\* Without the marker a block is put behind `android {`; with it the first one is
\* replaced, up to its END, and where there is none nothing is.
AndroidBlocks ==
  IF gradle.blocks = <<>> THEN <<selected>>
  ELSE IF gradle.ended THEN [gradle.blocks EXCEPT ![1] = selected]
  ELSE gradle.blocks

\* Mistaken form: the marker is not looked for.
ConfigureAndroidAgain ==
  /\ pc = "android" /\ gradle # Absent /\ gradle.android
  /\ gradle' = [gradle EXCEPT !.blocks = <<selected>> \o @]
  /\ AndroidDone

\* Mistaken form: a file with the marker is left as it is, as the Podfile is.
ConfigureAndroidOnce ==
  /\ pc = "android" /\ gradle # Absent /\ gradle.android
  /\ gradle' = [gradle EXCEPT !.blocks = IF @ = <<>> THEN <<selected>> ELSE @]
  /\ AndroidDone

ConfigureAndroid ==
  /\ pc = "android" /\ gradle # Absent /\ gradle.android
  /\ gradle' = [gradle EXCEPT !.blocks = AndroidBlocks]
  /\ AndroidDone

IosNotFound ==
  /\ pc = "script" /\ pod = Absent
  /\ pc' = "done"
  /\ UNCHANGED <<files, available, before, selected, asked>>

WriteScript ==
  /\ pc = "script" /\ pod # Absent
  /\ script' = selected /\ pc' = "podfile"
  /\ UNCHANGED <<assets, saved, gradle, pod, available, before, selected, asked>>

\* The marker decides: a Podfile with the helper is left as it is.
PodfileConfigured ==
  /\ pc = "podfile" /\ pod.helpers > 0
  /\ pc' = "done"
  /\ UNCHANGED <<files, available, before, selected, asked>>

\* The helper goes to the top and the call into the `post_install do |installer|`
\* there is, or into a new one, also beside a hook that is written otherwise or to a
\* call that was there.
ConfigurePodfile ==
  /\ pc = "podfile" /\ pod.helpers = 0
  /\ pod' = [helpers |-> pod.helpers + 1, calls |-> pod.calls + 1,
             post |-> IF pod.post \in {"other", "both"} THEN "both" ELSE "installer"]
  /\ pc' = "done"
  /\ UNCHANGED <<assets, saved, gradle, script, available, before, selected, asked>>

AnyKey == pc = "done" /\ Leave

\* The wizard ends at any point, between any two writes.
Kill == pc \notin {"idle", "done"} /\ Leave

Menu ==
  \/ Start \/ StartWithoutModels
  \/ \E m \in Models : Toggle(m)
  \/ ToggleNone \/ Enter \/ EnterAsks \/ ConfirmYes \/ ConfirmNo \/ CtrlC

Writes ==
  \/ writeSelectedModels
  \/ AndroidNotFound \/ AndroidThrows \/ ConfigureAndroid
  \/ IosNotFound \/ WriteScript \/ PodfileConfigured \/ ConfigurePodfile

Project == AssetsChange \/ SelectionChanges \/ AndroidChanges \/ IosChanges

Next == Menu \/ Writes \/ AnyKey \/ Kill \/ Project

Spec == Init /\ [][Next]_vars

-----------------------------------------------------------------------------
(* Properties.                                                              *)

\* What the Android build copies into the app: the block's models.
AndroidPackages == IF gradle = Absent \/ gradle.blocks = <<>> THEN {} ELSE Head(gradle.blocks)

\* The block's BEGIN has no END: it is what it was, and the wizard leaves it so.
EndLost == gradle # Absent /\ ~gradle.ended

\* CocoaPods refuses a Podfile with a second post_install hook.
TwoHooks == pod # Absent /\ pod.post = "both"

\* What `pod install` makes the iOS build copy: the script's models, if the helper
\* is there and is called.  Two calls do what one does: the helper looks for its phase.
IosPackages ==
  IF pod = Absent \/ script = Absent \/ pod.helpers = 0 \/ pod.calls = 0 \/ TwoHooks
  THEN {} ELSE script

\* The Podfile has the helper and nothing calls it.
HookLost == pod # Absent /\ pod.helpers > 0 /\ pod.calls = 0

Completes == pc # "done" /\ pc' = "done"

\* However often the wizard was run, killed, or made to throw before: the block
\* and the helper occur once.  A second block would register its Gradle task twice.
\* (A call may occur twice: one that outlived its helper is not looked for.)
Once ==
  /\ gradle # Absent => Len(gradle.blocks) <= 1
  /\ pod # Absent => pod.helpers <= 1

\* A run that completes leaves the saved selection and both platforms in step,
\* whatever an earlier one left half done and whatever became since of the files it
\* goes by: unless the Podfile had lost the call and kept the marker, or had a
\* post_install hook that was not recognised, or the Gradle block had lost its END,
\* none of which a later run repairs or reports.
Configures ==
  [][Completes =>
       /\ gradle' # Absent => AndroidPackages' = saved' \/ EndLost
       /\ pod' # Absent => IosPackages' = saved' \/ HookLost \/ TwoHooks']_vars

\* A model whose file was gone when the wizard was started is in no file it leaves,
\* even if the menu is left with Ctrl-C, but for a Gradle block that lost its END.
RemovedGoes ==
  [][Completes =>
       /\ saved' \cup IosPackages' \subseteq available
       /\ AndroidPackages' \subseteq available \/ EndLost]_vars

\* No model that models.json had connected, and whose file is there, is disconnected
\* together with all others without a question (README.md:65), by whatever keys the
\* menu was left.  Wiring that models.json does not know of is cleared unasked.
AsksToDisconnect ==
  [][AndroidPackages # {} /\ AndroidPackages' = {} /\ Writes => asked \/ before = {}]_vars

\* Every file that is there has what a run that selected s leaves in it.
Wired(s) ==
  /\ saved = s
  /\ gradle # Absent => gradle.blocks = <<s>> \/ EndLost
  /\ pod # Absent => script = s /\ pod.helpers > 0

\* Setup is safe to run again (README.md:63): what a run leaves is what a run with the
\* same selection finds done, and so it changes no file.
RunAgain ==
  [][/\ Completes => Wired(saved)'
     /\ Writes /\ Wired(selected) => UNCHANGED files]_vars

\* Strengthening of the properties above: how far the writes have come.
IInv ==
  /\ TypeOK
  /\ Once
  /\ before \subseteq available
  /\ selected \subseteq available
  /\ pc = "idle" => before = {}
  /\ pc \in {"save", "android", "script", "podfile"} /\ selected = {} => asked \/ before = {}
  /\ pc \in {"android", "script", "podfile"} => saved = selected
  /\ pc \in {"script", "podfile"} /\ gradle # Absent =>
       gradle.blocks = <<selected>> \/ EndLost
  /\ pc = "podfile" => pod # Absent /\ script = selected
  /\ EndLost => gradle.blocks # <<>>
=============================================================================
