------------------------------- MODULE SetupProofs -------------------------------
(***************************************************************************)
(* The setup wizard, for any set of models: what it writes occurs once in  *)
(* the project's files, and a run that completes leaves them in step.      *)
(***************************************************************************)
EXTENDS Setup, SequenceTheorems, TLAPS

\* The only block there can be is the one that is replaced, if it has its END.
LEMMA OneBlock ==
  ASSUME gradle.blocks \in Seq(SUBSET Models), Len(gradle.blocks) <= 1, selected \in SUBSET Models
  PROVE  AndroidBlocks = <<selected>> \/ (~gradle.ended /\ AndroidBlocks = gradle.blocks)
<1>0. CASE gradle.blocks # <<>> /\ ~gradle.ended
  BY <1>0 DEF AndroidBlocks
<1>1. CASE gradle.blocks = <<>>
  BY <1>1 DEF AndroidBlocks
<1>2. CASE gradle.blocks # <<>> /\ gradle.ended
  <2> DEFINE r == [gradle.blocks EXCEPT ![1] = selected]
  <2>1. Len(gradle.blocks) = 1
    <3>1. Len(gradle.blocks) \in Nat \ {0}
      BY <1>2, EmptySeq
    <3>2. \A n \in Nat \ {0} : n <= 1 => n = 1
      OBVIOUS
    <3> QED
      BY <3>1, <3>2, Zenon
  <2>2. r \in Seq(SUBSET Models) /\ Len(r) = 1 /\ r[1] = selected
    BY <2>1, ExceptSeq
  <2>3. r = <<selected>>
    BY <2>2, SeqEqual
  <2> QED
    BY <1>2, <2>3 DEF AndroidBlocks
<1> QED
  BY <1>0, <1>1, <1>2

\* A file with these parts is a file.
LEMMA Files ==
  /\ \A a, e \in BOOLEAN, b \in Seq(SUBSET Models) :
       [android |-> a, ended |-> e, blocks |-> b] \in GradleFiles
  /\ \A h, n \in Nat, p \in Hooks : [helpers |-> h, calls |-> n, post |-> p] \in Podfiles
  BY DEF GradleFiles, Podfiles

\* The files other tools leave have the block and the helper once at most.
LEMMA ProjectFiles ==
  /\ \A g \in ProjectGradle :
       g \in GradleFiles /\ Len(g.blocks) <= 1 /\ (~g.ended => g.blocks # <<>>)
  /\ \A p \in ProjectPodfiles : p \in Podfiles /\ p.helpers <= 1
<1>1. ASSUME NEW g \in ProjectGradle
      PROVE  g \in GradleFiles /\ Len(g.blocks) <= 1 /\ (~g.ended => g.blocks # <<>>)
  <2>1. CASE \E a \in BOOLEAN : g = [android |-> a, ended |-> TRUE, blocks |-> <<>>]
    <3>1. PICK a \in BOOLEAN : g = [android |-> a, ended |-> TRUE, blocks |-> <<>>]
      BY <2>1
    <3>2. <<>> \in Seq(SUBSET Models) /\ Len(<<>>) = 0 /\ TRUE \in BOOLEAN
      OBVIOUS
    <3>3. g \in GradleFiles
      BY <3>1, <3>2, Files, Zenon
    <3> QED
      BY <3>1, <3>2, <3>3
  <2>2. CASE \E e \in BOOLEAN, s \in SUBSET Models :
               g = [android |-> TRUE, ended |-> e, blocks |-> <<s>>]
    <3>1. PICK e \in BOOLEAN, s \in SUBSET Models :
            g = [android |-> TRUE, ended |-> e, blocks |-> <<s>>]
      BY <2>2
    <3>2. <<s>> \in Seq(SUBSET Models) /\ Len(<<s>>) = 1 /\ <<s>> # <<>> /\ TRUE \in BOOLEAN
      OBVIOUS
    <3>3. g \in GradleFiles
      BY <3>1, <3>2, Files, Zenon
    <3> QED
      BY <3>1, <3>2, <3>3
  <2> QED
    BY <2>1, <2>2 DEF ProjectGradle
<1>2. ASSUME NEW p \in ProjectPodfiles PROVE p \in Podfiles /\ p.helpers <= 1
  BY DEF ProjectPodfiles, Podfiles
<1> QED
  BY <1>1, <1>2

\* A freshly made or generated project has nothing of the wizard's.
LEMMA InitIInv == Init => IInv
<1> SUFFICES ASSUME Init PROVE IInv
  OBVIOUS
<1> USE DEF Init
<1>0. <<>> \in Seq(SUBSET Models) /\ Len(<<>>) = 0
  OBVIOUS
<1>1. TypeOK
  <2>1. gradle = Absent \/ gradle \in GradleFiles
    BY <1>0, Files
  <2>2. pod = Absent \/ pod \in Podfiles
    BY Files DEF Hooks
  <2> QED
    BY <2>1, <2>2 DEF TypeOK
<1>2. Once
  BY <1>0 DEF Once
<1>3. ~EndLost
  BY DEF EndLost
<1> QED
  BY <1>1, <1>2, <1>3 DEF IInv

\* The menu touches no file and selects from what is available.
LEMMA MenuStep == IInv /\ Menu => IInv'
<1> SUFFICES ASSUME IInv, Menu PROVE IInv'
  OBVIOUS
<1> USE DEF IInv, TypeOK, Once, EndLost, files
<1>1. CASE Start
  BY <1>1 DEF Start, readSelectedModels
<1>2. CASE StartWithoutModels
  BY <1>2 DEF StartWithoutModels
<1>3. ASSUME NEW m \in Models, Toggle(m) PROVE IInv'
  BY <1>3 DEF Toggle
<1>4. CASE ToggleNone
  BY <1>4 DEF ToggleNone
<1>5. CASE Enter
  BY <1>5 DEF Enter
<1>6. CASE EnterAsks
  BY <1>6 DEF EnterAsks
<1>7. CASE ConfirmYes
  BY <1>7 DEF ConfirmYes
<1>8. CASE ConfirmNo
  BY <1>8 DEF ConfirmNo
<1>9. CASE CtrlC
  BY <1>9 DEF CtrlC
<1> QED
  BY <1>1, <1>2, <1>3, <1>4, <1>5, <1>6, <1>7, <1>8, <1>9 DEF Menu

\* Leaving at any point forgets the menu and keeps the files.
LEMMA LeaveStep == IInv /\ Leave => IInv'
  BY DEF IInv, TypeOK, Once, EndLost, files, Leave

\* The writes bring one file after the other to the selection.
LEMMA WritesStep == IInv /\ Writes => IInv'
<1> SUFFICES ASSUME IInv, Writes PROVE IInv'
  OBVIOUS
<1> USE DEF IInv, TypeOK, Once, EndLost, files
<1>1. CASE writeSelectedModels
  BY <1>1 DEF writeSelectedModels
<1>2. CASE AndroidNotFound
  BY <1>2 DEF AndroidNotFound, AndroidDone
<1>3. CASE AndroidThrows
  BY <1>3, LeaveStep DEF AndroidThrows
<1>4. CASE ConfigureAndroid
  <2>1. /\ AndroidBlocks = <<selected>> \/ ~gradle.ended
        /\ AndroidBlocks \in Seq(SUBSET Models) /\ Len(AndroidBlocks) <= 1
    <3>1. gradle.blocks \in Seq(SUBSET Models) /\ Len(gradle.blocks) <= 1 /\ selected \in SUBSET Models
      BY <1>4 DEF ConfigureAndroid, GradleFiles
    <3> HIDE DEF IInv, TypeOK, Once
    <3>2. AndroidBlocks = <<selected>> \/ (~gradle.ended /\ AndroidBlocks = gradle.blocks)
      BY <3>1, OneBlock, Zenon
    <3>3. <<selected>> \in Seq(SUBSET Models) /\ Len(<<selected>>) <= 1
      BY <3>1
    <3> QED
      BY <3>1, <3>2, <3>3, Zenon
  <2>2. /\ gradle' \in GradleFiles /\ Len(gradle'.blocks) <= 1
        /\ gradle'.blocks = <<selected>> \/ ~gradle'.ended
    <3>1. gradle \in GradleFiles /\ gradle' = [gradle EXCEPT !.blocks = AndroidBlocks]
      BY <1>4 DEF ConfigureAndroid
    <3> HIDE DEF IInv, TypeOK, Once
    <3>2. gradle'.blocks = AndroidBlocks /\ gradle'.ended = gradle.ended /\ gradle' \in GradleFiles
      BY <3>1, <2>1 DEF GradleFiles
    <3> QED
      BY <3>2, <2>1
  <2>3. TypeOK'
    BY <1>4, <2>2 DEF ConfigureAndroid, AndroidDone
  <2>4. Once'
    <3>1. pod' = pod /\ Once
      BY <1>4 DEF ConfigureAndroid, AndroidDone
    <3> HIDE DEF IInv, TypeOK, Once
    <3> QED
      BY <3>1, <2>2, Zenon DEF Once
  <2>5. gradle' # Absent => gradle'.blocks = <<selected>> \/ EndLost'
    BY <2>2 DEF EndLost
  <2>6. EndLost' => gradle'.blocks # <<>>
    <3>1. gradle \in GradleFiles /\ gradle' = [gradle EXCEPT !.blocks = AndroidBlocks]
      BY <1>4 DEF ConfigureAndroid
    <3>2. ~gradle.ended => gradle.blocks # <<>>
      BY <1>4 DEF ConfigureAndroid
    <3> HIDE DEF IInv, TypeOK, Once
    <3>3. gradle'.blocks = AndroidBlocks /\ gradle'.ended = gradle.ended
      BY <3>1 DEF GradleFiles
    <3>4. ~gradle.ended => AndroidBlocks = gradle.blocks
      BY <3>2 DEF AndroidBlocks
    <3> QED
      BY <3>2, <3>3, <3>4 DEF EndLost
  <2> QED
    BY <1>4, <2>2, <2>3, <2>4, <2>5, <2>6 DEF ConfigureAndroid, AndroidDone
<1>5. CASE IosNotFound
  BY <1>5 DEF IosNotFound
<1>6. CASE WriteScript
  BY <1>6 DEF WriteScript
<1>7. CASE PodfileConfigured
  BY <1>7 DEF PodfileConfigured
<1>8. CASE ConfigurePodfile
  <2>1. pod' \in Podfiles /\ pod'.helpers = 1
    BY <1>8 DEF ConfigurePodfile, Podfiles, Hooks
  <2> QED
    BY <1>8, <2>1 DEF ConfigurePodfile
<1> QED
  BY <1>1, <1>2, <1>3, <1>4, <1>5, <1>6, <1>7, <1>8 DEF Writes

\* Whatever the project's files become, Thistle's part occurs in them once.
LEMMA ProjectStep == IInv /\ Project => IInv'
<1> SUFFICES ASSUME IInv, Project PROVE IInv'
  OBVIOUS
<1> USE DEF IInv, TypeOK, Once, EndLost, wizard, Waiting
<1>1. CASE AssetsChange
  BY <1>1 DEF AssetsChange
<1>2. CASE SelectionChanges
  BY <1>2 DEF SelectionChanges
<1>3. CASE AndroidChanges
  BY <1>3, ProjectFiles DEF AndroidChanges
<1>4. CASE IosChanges
  BY <1>4, ProjectFiles DEF IosChanges
<1> QED
  BY <1>1, <1>2, <1>3, <1>4 DEF Project

\* The invariant is inductive.
LEMMA IInvStep == IInv /\ [Next]_vars => IInv'
<1> SUFFICES ASSUME IInv, [Next]_vars PROVE IInv'
  OBVIOUS
<1>1. CASE AnyKey \/ Kill
  BY <1>1, LeaveStep DEF AnyKey, Kill
<1>2. CASE UNCHANGED vars
  BY <1>2 DEF vars, IInv, TypeOK, Once, EndLost
<1> QED
  BY <1>1, <1>2, MenuStep, WritesStep, ProjectStep DEF Next

\* How far the writes have come is always what IInv says.
THEOREM Invariance == Spec => []IInv
<1> QED
  BY InitIInv, IInvStep, PTL DEF Spec

\* Every variable stays in its range.
THEOREM TypeCorrect == Spec => []TypeOK
<1>1. IInv => TypeOK
  BY DEF IInv
<1> QED
  BY <1>1, Invariance, PTL

\* The block and the helper occur once in the project's files.
THEOREM OnceCorrect == Spec => []Once
<1>1. IInv => Once
  BY DEF IInv
<1> QED
  BY <1>1, Invariance, PTL

\* A run completes in one of three ways.
LEMMA CompletesWays ==
  Next /\ Completes => IosNotFound \/ PodfileConfigured \/ ConfigurePodfile
  BY DEF Completes, Next, Menu, Writes, Project, Start, StartWithoutModels, Toggle, ToggleNone, Enter,
         EnterAsks, ConfirmYes, ConfirmNo, CtrlC, writeSelectedModels, AndroidNotFound, AndroidDone,
         AndroidThrows, ConfigureAndroid, WriteScript, AnyKey, Kill, Leave,
         AssetsChange, SelectionChanges, AndroidChanges, IosChanges, wizard

\* Before each of them all but the Podfile is written.
LEMMA CompletesStep ==
  ASSUME IInv, Next, Completes
  PROVE  /\ saved' = selected
         /\ selected \subseteq available
         /\ gradle' # Absent => AndroidPackages' = selected \/ EndLost
         /\ pod' # Absent => IosPackages' = selected \/ HookLost \/ TwoHooks'
         /\ IosPackages' = {} \/ IosPackages' = selected
<1>0. IosNotFound \/ PodfileConfigured \/ ConfigurePodfile
  BY CompletesWays
<1>1. pc \in {"script", "podfile"} /\ saved' = saved /\ gradle' = gradle /\ script' = script
  BY <1>0 DEF IosNotFound, PodfileConfigured, ConfigurePodfile, files
<1>2. saved' = selected /\ selected \subseteq available
  BY <1>1 DEF IInv
<1>3. gradle' # Absent => AndroidPackages' = selected \/ EndLost
  <2>1. gradle # Absent => gradle.blocks = <<selected>> \/ EndLost
    BY <1>1 DEF IInv
  <2> QED
    BY <1>1, <2>1 DEF AndroidPackages
<1>4. CASE IosNotFound
  BY <1>2, <1>3, <1>4 DEF IosNotFound, files, IosPackages
<1>5. CASE PodfileConfigured
  BY <1>2, <1>3, <1>5, FilesAssumption
     DEF PodfileConfigured, files, IosPackages, HookLost, TwoHooks, IInv, TypeOK, Podfiles
<1>6. CASE ConfigurePodfile
  BY <1>2, <1>3, <1>6, FilesAssumption
     DEF ConfigurePodfile, IosPackages, TwoHooks, IInv, TypeOK, Podfiles
<1> QED
  BY <1>0, <1>4, <1>5, <1>6

\* A run that completes leaves the saved selection and both platforms in step.
THEOREM ConfiguresCorrect == Spec => Configures
<1>1. IInv /\ [Next]_vars =>
        [Completes => /\ gradle' # Absent => AndroidPackages' = saved' \/ EndLost
                      /\ pod' # Absent => IosPackages' = saved' \/ HookLost \/ TwoHooks']_vars
  BY CompletesStep
<1> QED
  BY <1>1, Invariance, PTL DEF Spec, Configures

\* A model that is gone when the wizard is started is in no file it leaves, but for a
\* block that it cannot replace.
THEOREM RemovedGoesCorrect == Spec => RemovedGoes
<1>1. IInv /\ [Next]_vars =>
        [Completes => /\ saved' \cup IosPackages' \subseteq available
                      /\ AndroidPackages' \subseteq available \/ EndLost]_vars
  <2> SUFFICES ASSUME IInv, Next, Completes
               PROVE  /\ saved' \cup IosPackages' \subseteq available
                      /\ AndroidPackages' \subseteq available \/ EndLost
    OBVIOUS
  <2>1. gradle' = Absent => AndroidPackages' = {}
    BY DEF AndroidPackages
  <2> QED
    BY <2>1, CompletesStep
<1> QED
  BY <1>1, Invariance, PTL DEF Spec, RemovedGoes

\* Only a confirmed None, or a run that found nothing connected, clears the wiring.
THEOREM AsksToDisconnectCorrect == Spec => AsksToDisconnect
<1>1. IInv /\ [Next]_vars =>
        [AndroidPackages # {} /\ AndroidPackages' = {} /\ Writes => asked \/ before = {}]_vars
  <2> SUFFICES ASSUME IInv, Writes, AndroidPackages # {}, AndroidPackages' = {}
               PROVE  asked \/ before = {}
    OBVIOUS
  <2>1. gradle' # gradle
    BY DEF AndroidPackages
  <2>2. ConfigureAndroid
    BY <2>1 DEF Writes, writeSelectedModels, AndroidNotFound, AndroidThrows, Leave, IosNotFound,
                WriteScript, PodfileConfigured, ConfigurePodfile, files
  <2>3. gradle.blocks \in Seq(SUBSET Models) /\ Len(gradle.blocks) <= 1 /\ selected \in SUBSET Models
    BY <2>2 DEF ConfigureAndroid, IInv, TypeOK, Once, GradleFiles
  <2>4. gradle \in GradleFiles /\ gradle # Absent /\ gradle' = [gradle EXCEPT !.blocks = AndroidBlocks]
    BY <2>2 DEF ConfigureAndroid, IInv, TypeOK
  <2>5. AndroidBlocks = <<selected>>
    <3>1. AndroidBlocks # gradle.blocks
      BY <2>1, <2>4 DEF GradleFiles
    <3> QED
      BY <2>3, <3>1, OneBlock, Zenon
  <2>6. gradle'.blocks = <<selected>>
    BY <2>4, <2>5 DEF GradleFiles
  <2>7. AndroidPackages' = {} => selected = {}
    <3>1. <<selected>> \in Seq(SUBSET Models)
      BY <2>3
    <3>2. gradle' \in GradleFiles
      BY <2>4, <2>5, <3>1 DEF GradleFiles
    <3> QED
      BY <2>6, <3>2, GradleAssumption DEF AndroidPackages
  <2> QED
    BY <2>2, <2>7 DEF IInv, ConfigureAndroid
<1> QED
  BY <1>1, Invariance, PTL DEF Spec, AsksToDisconnect

-----------------------------------------------------------------------------
(* Running it again *)

\* A run that completes leaves every file as it wants it.
LEMMA CompletesWired == IInv /\ Next /\ Completes => Wired(saved)'
<1> SUFFICES ASSUME IInv, Next, Completes PROVE Wired(saved)'
  OBVIOUS
<1>1. IosNotFound \/ PodfileConfigured \/ ConfigurePodfile
  BY CompletesWays
<1>2. pc \in {"script", "podfile"} /\ saved' = saved /\ gradle' = gradle /\ script' = script
  BY <1>1 DEF IosNotFound, PodfileConfigured, ConfigurePodfile, files
<1>3. saved = selected /\ (gradle' # Absent => gradle'.blocks = <<selected>> \/ EndLost')
  BY <1>2 DEF IInv, EndLost
<1>4. pod' # Absent => script = selected /\ pod'.helpers > 0
  <2>1. CASE IosNotFound
    BY <2>1 DEF IosNotFound, files
  <2>2. CASE PodfileConfigured
    BY <2>2 DEF PodfileConfigured, files, IInv
  <2>3. CASE ConfigurePodfile
    <3>1. pod \in Podfiles /\ pod.helpers = 0
      BY <2>3 DEF ConfigurePodfile, IInv, TypeOK
    <3>2. pod'.helpers = pod.helpers + 1
      BY <2>3 DEF ConfigurePodfile
    <3> QED
      BY <2>3, <3>1, <3>2 DEF ConfigurePodfile, IInv
  <2> QED
    BY <1>1, <2>1, <2>2, <2>3
<1> QED
  BY <1>2, <1>3, <1>4 DEF Wired

\* Putting the block there is into the file it is in leaves the file as it was.
LEMMA SameGradle ==
  ASSUME IInv, ConfigureAndroid, Wired(selected)
  PROVE  gradle' = gradle
<1>1. gradle # Absent /\ gradle \in GradleFiles /\ (gradle.blocks = <<selected>> \/ ~gradle.ended)
  BY DEF IInv, TypeOK, ConfigureAndroid, Wired, EndLost
<1>2. AndroidBlocks = gradle.blocks
  <2>1. gradle.blocks \in Seq(SUBSET Models) /\ selected \in SUBSET Models
    BY <1>1 DEF IInv, TypeOK, GradleFiles
  <2>2. Len(gradle.blocks) <= 1
    BY <1>1 DEF IInv, Once
  <2>3. CASE gradle.blocks = <<selected>>
    BY <2>1, <2>2, <2>3, OneBlock, Zenon
  <2>4. CASE ~gradle.ended
    <3>1. gradle.blocks # <<>>
      BY <1>1, <2>4 DEF IInv, EndLost
    <3> QED
      BY <2>4, <3>1 DEF AndroidBlocks
  <2> QED
    BY <1>1, <2>3, <2>4
<1>3. gradle' = [gradle EXCEPT !.blocks = gradle.blocks]
  BY <1>1, <1>2 DEF ConfigureAndroid
<1> QED
  BY <1>1, <1>3 DEF GradleFiles

\* Every write of a run finds what it would write.
LEMMA WiredStays == IInv /\ Writes /\ Wired(selected) => UNCHANGED files
<1> SUFFICES ASSUME IInv, Writes, Wired(selected) PROVE UNCHANGED files
  OBVIOUS
<1> USE DEF files
<1>1. CASE writeSelectedModels
  BY <1>1 DEF writeSelectedModels, Wired
<1>2. CASE AndroidNotFound \/ AndroidThrows
  BY <1>2 DEF AndroidNotFound, AndroidDone, AndroidThrows, Leave
<1>3. CASE ConfigureAndroid
  BY <1>3, SameGradle DEF ConfigureAndroid, AndroidDone
<1>4. CASE IosNotFound \/ PodfileConfigured
  BY <1>4 DEF IosNotFound, PodfileConfigured
<1>5. CASE WriteScript
  BY <1>5 DEF WriteScript, Wired
<1>6. CASE ConfigurePodfile
  BY <1>6 DEF ConfigurePodfile, Wired, IInv
<1> QED
  BY <1>1, <1>2, <1>3, <1>4, <1>5, <1>6 DEF Writes

\* What a run leaves, a run with the same selection leaves as it is.
THEOREM RunAgainCorrect == Spec => RunAgain
<1>1. IInv /\ [Next]_vars =>
        [/\ Completes => Wired(saved)'
         /\ Writes /\ Wired(selected) => UNCHANGED files]_vars
  BY CompletesWired, WiredStays
<1> QED
  BY <1>1, Invariance, PTL DEF Spec, RunAgain
=============================================================================
