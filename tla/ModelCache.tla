------------------------------- MODULE ModelCache -------------------------------
(***************************************************************************)
(* How Android finds the file of a model: resolveModelPath in Thistle.kt,  *)
(* called by loadModel on the JavaScript thread.  A path that is a file is *)
(* taken as it is.  Otherwise the asset of that base name is copied from   *)
(* the application package to the cache directory, once, under its final   *)
(* name, and every later load takes the copy.                              *)
(*                                                                         *)
(* The copy outlives the process and the version of the application that   *)
(* made it, and the system may delete it at any time.  The process may end *)
(* between any two steps.  A model that is loaded keeps its file mapped.   *)
(***************************************************************************)
EXTENDS Naturals, FiniteSets

CONSTANTS
  Paths,        \* what loadModel is called with
  Names,        \* base names: what a model is packaged and cached under
  base,         \* base[p]: what follows the last '/' of p
  Files,        \* the paths at which there may be a file of its own
  Chunks,       \* how many writes the copy of an asset takes
  MaxVersion,   \* bound: how many versions of the application are installed
  Absent        \* no file

ASSUME PathsAssumption   == base \in [Paths -> Names] /\ Files \subseteq Paths
ASSUME ChunksAssumption  == Chunks \in Nat \ {0}
ASSUME VersionAssumption == MaxVersion \in Nat

VARIABLES
  version,   \* the version of the application that is installed
  apk,       \* apk[n]: the version that brought the asset packaged as n, 0 for none
  cache,     \* cache[n]: the file of that name in the cache directory
  direct,    \* direct[p]: the file at path p itself
  pc,        \* where loadModel is
  path,      \* the path it was called with
  from,      \* "direct" or "cached": the file resolveModelPath returns
  pos,       \* how many chunks were read from the asset that is being copied
  outcome,   \* how the last load ended
  got,       \* what it loaded, if it did
  mapped,    \* the names whose cached file a loaded model has mapped
  cut,       \* history: the names whose cached copy was cut short
  updated    \* history: the names that an update changed under a cached copy

storage == <<version, apk, cache, direct>>
vars == <<version, apk, cache, direct, pc, path, from, pos, outcome, got, mapped,
          cut, updated>>

\* A copy is known by the asset it was made of and by how much of it there is.
Copies == [name : Names, version : 1 .. MaxVersion, written : 0 .. Chunks]

ASSUME AbsentAssumption == Absent \notin Copies

Outcomes == {"none", "loaded", "notPackaged", "ioError", "gone", "incomplete", "native"}

TypeOK ==
  /\ version \in 0 .. MaxVersion
  /\ apk \in [Names -> 0 .. MaxVersion]
  /\ \A n \in Names : apk[n] <= version
  /\ DOMAIN cache = Names /\ \A n \in Names : cache[n] = Absent \/ cache[n] \in Copies
  /\ direct \in [Files -> {"absent", "partial", "whole"}]
  /\ pc \in {"idle", "resolve", "copy", "load"}
  /\ path \in Paths
  /\ from \in {"direct", "cached"}
  /\ pos \in 0 .. Chunks
  /\ outcome \in Outcomes
  /\ got = Absent \/ got \in Copies
  /\ mapped \subseteq Names
  /\ cut \subseteq Names
  /\ updated \subseteq Names

Init ==
  /\ version = 0
  /\ apk = [n \in Names |-> 0]
  /\ cache = [n \in Names |-> Absent]
  /\ direct = [p \in Files |-> "absent"]
  /\ pc = "idle" /\ path \in Paths /\ from = "direct" /\ pos = 0
  /\ outcome = "none" /\ got = Absent
  /\ mapped = {} /\ cut = {} /\ updated = {}

\* Mistaken form: every model is cached under the same name.
cachedFileFixed == CHOOSE n \in Names : TRUE

\* The name of the cached file for the path that is being loaded.
cachedFile == base[path]

HasOwnFile == path \in Files /\ direct[path] # "absent"

Whole(f) == f.written = Chunks

-----------------------------------------------------------------------------
(* resolveModelPath *)

Call(p) ==
  /\ pc = "idle"
  /\ pc' = "resolve" /\ path' = p
  /\ outcome' = "none" /\ got' = Absent
  /\ UNCHANGED <<storage, from, pos, mapped, cut, updated>>

Throws(why) ==
  /\ pc' = "idle" /\ outcome' = why
  /\ UNCHANGED <<path, from, pos, got, mapped>>

Returns(f) ==
  /\ pc' = "load" /\ from' = f
  /\ UNCHANGED <<path, pos, outcome, got, mapped>>

\* directFile.isFile: the path is returned as it is.
ResolveDirect ==
  /\ pc = "resolve" /\ HasOwnFile
  /\ Returns("direct")
  /\ UNCHANGED <<storage, cut, updated>>

\* cachedFile.isFile: there is a copy, of whatever length and version.
ResolveCached ==
  /\ pc = "resolve" /\ ~HasOwnFile /\ cache[cachedFile] # Absent
  /\ Returns("cached")
  /\ UNCHANGED <<storage, cut, updated>>

\* assets.open throws: no such asset, which is also what becomes of no name.
NotPackaged ==
  /\ pc = "resolve" /\ ~HasOwnFile /\ cache[cachedFile] = Absent
  /\ apk[base[path]] = 0
  /\ Throws("notPackaged")
  /\ UNCHANGED <<storage, cut, updated>>

StartCopy ==
  /\ pc = "resolve" /\ ~HasOwnFile /\ apk[base[path]] # 0
  /\ cache' = [cache EXCEPT ![cachedFile] =
                 [name |-> base[path], version |-> apk[base[path]], written |-> 0]]
  /\ pc' = "copy" /\ pos' = 0
  /\ UNCHANGED <<version, apk, direct, path, from, outcome, got, mapped, cut, updated>>

\* Mistaken form: the output is opened, and with it truncated, in any case.
CreateAlways == StartCopy

\* The asset is opened, and then the output, which makes an empty file.
Create == cache[cachedFile] = Absent /\ StartCopy

\* mkdirs or outputStream fails before there is a file.
CreateFails ==
  /\ pc = "resolve" /\ ~HasOwnFile /\ cache[cachedFile] = Absent
  /\ apk[base[path]] # 0
  /\ Throws("ioError")
  /\ UNCHANGED <<storage, cut, updated>>

\* One round of copyTo.  The file may have been deleted, and is written all the same.
Write ==
  /\ pc = "copy" /\ pos < Chunks
  /\ pos' = pos + 1
  /\ cache' = IF cache[cachedFile] = Absent THEN cache
              ELSE [cache EXCEPT ![cachedFile].written = pos + 1]
  /\ UNCHANGED <<version, apk, direct, pc, path, from, outcome, got, mapped, cut, updated>>

CutShort ==
  IF pc = "copy" /\ cache[cachedFile] # Absent THEN cut \cup {cachedFile} ELSE cut

\* The disk is full or the asset cannot be read on: what was written stays.
WriteFails ==
  /\ pc = "copy"
  /\ Throws("ioError")
  /\ cut' = CutShort
  /\ UNCHANGED <<storage, updated>>

\* Mistaken form: the last chunk is forgotten.
CloseCopyEarly ==
  /\ pc = "copy" /\ pos + 1 >= Chunks
  /\ Returns("cached")
  /\ UNCHANGED <<storage, cut, updated>>

\* copyTo read the asset to its end, and both streams are closed.
CloseCopy ==
  /\ pc = "copy" /\ pos = Chunks
  /\ Returns("cached")
  /\ UNCHANGED <<storage, cut, updated>>

-----------------------------------------------------------------------------
(* nativeLoadModel with the path that was returned *)

\* The file that is opened, which need not be there any more.
OpensWhole ==
  IF from = "direct" THEN direct[path] = "whole"
  ELSE cache[cachedFile] # Absent /\ Whole(cache[cachedFile])

OpensNothing ==
  IF from = "direct" THEN direct[path] = "absent" ELSE cache[cachedFile] = Absent

NativeReturns ==
  /\ pc' = "idle" /\ outcome' = "loaded"
  /\ IF from = "direct" THEN UNCHANGED <<got, mapped>>
     ELSE got' = cache[cachedFile] /\ mapped' = mapped \cup {cachedFile}
  /\ UNCHANGED <<storage, path, from, pos, cut, updated>>

\* llama_model_load_from_file finds every tensor within the file's bounds.
NativeLoads == pc = "load" /\ OpensWhole /\ NativeReturns

NativeRefuses ==
  /\ pc = "load" /\ ~OpensWhole
  /\ Throws(IF OpensNothing THEN "gone" ELSE "incomplete")
  /\ UNCHANGED <<storage, cut, updated>>

\* Out of memory, or a model this llama.cpp does not know.
NativeFails ==
  /\ pc = "load"
  /\ Throws("native")
  /\ UNCHANGED <<storage, cut, updated>>

\* The last model that has this file mapped is unloaded.
Unload(n) ==
  /\ pc = "idle" /\ n \in mapped
  /\ mapped' = mapped \ {n}
  /\ UNCHANGED <<storage, pc, path, from, pos, outcome, got, cut, updated>>

-----------------------------------------------------------------------------
(* What happens to the files from outside. *)

\* The process is gone, and with it every mapping; a copy stays as far as it is.
ProcessEnds ==
  /\ pc' = "idle" /\ outcome' = "none" /\ got' = Absent /\ mapped' = {}
  /\ cut' = CutShort
  /\ UNCHANGED <<path, from, pos>>

Crash == ProcessEnds /\ UNCHANGED <<storage, updated>>

\* Another version is installed, with new, changed and removed assets; the cache
\* directory is kept.
Update ==
  /\ version < MaxVersion
  /\ ProcessEnds
  /\ version' = version + 1
  /\ \E changed \in SUBSET Names, removed \in SUBSET Names :
       /\ apk' = [n \in Names |-> IF n \in removed THEN 0
                                  ELSE IF n \in changed THEN version' ELSE apk[n]]
       /\ updated' = updated \cup
            {n \in changed \cup removed : cache[n] # Absent}
  /\ UNCHANGED <<cache, direct>>

\* The system or the user clears the file: whoever has it open or mapped keeps it.
CacheCleared(n) ==
  /\ cache[n] # Absent
  /\ cache' = [cache EXCEPT ![n] = Absent]
  /\ mapped' = mapped \ {n} /\ cut' = cut \ {n} /\ updated' = updated \ {n}
  /\ UNCHANGED <<version, apk, direct, pc, path, from, pos, outcome, got>>

\* A download comes and goes as the application likes.
DirectChanges(p) ==
  /\ direct' \in {[direct EXCEPT ![p] = s] : s \in {"absent", "partial", "whole"}}
  /\ UNCHANGED <<version, apk, cache, pc, path, from, pos, outcome, got, mapped,
                 cut, updated>>

resolveModelPath ==
  \/ ResolveDirect \/ ResolveCached \/ NotPackaged
  \/ Create \/ CreateFails \/ Write \/ WriteFails \/ CloseCopy

nativeLoadModel == NativeLoads \/ NativeRefuses \/ NativeFails

Outside ==
  \/ Crash \/ Update
  \/ \E n \in Names : CacheCleared(n)
  \/ \E p \in Files : DirectChanges(p)

Next ==
  \/ \E p \in Paths : Call(p)
  \/ resolveModelPath \/ nativeLoadModel
  \/ \E n \in Names : Unload(n)
  \/ Outside

Spec == Init /\ [][Next]_vars

-----------------------------------------------------------------------------
(* Properties *)

\* The file that a loaded model has mapped is never truncated or written again by
\* the load of another instance, which would take the pages from under it.
MappedWhole == \A n \in mapped : cache[n] # Absent /\ Whole(cache[n])

Finishes(o) == outcome # o /\ outcome' = o /\ from = "cached"

\* A load from the cache gets the asset packaged under its own name by the version
\* that is installed, unless an update changed it after the copy was made: such a
\* copy is used until something clears it.
ServesItsOwn ==
  [][Finishes("loaded") =>
       /\ got'.name = base[path]
       /\ got'.version = apk[base[path]] \/ base[path] \in updated]_vars

\* A packaged model is refused as incomplete only where a failed write or the end
\* of the process cut its copy short, and nothing has cleared the file since.
IncompleteOnlyIfCut == [][Finishes("incomplete") => base[path] \in cut]_vars

-----------------------------------------------------------------------------
(* The strengthening under which the safety properties are inductive. *)

\* What a file in the cache is, as long as nothing happened to it.
CopyAgrees(n) ==
  cache[n] # Absent =>
    /\ cache[n].name = n
    /\ n \notin updated => cache[n].version = apk[n]
    /\ n \notin cut => Whole(cache[n]) \/ (pc = "copy" /\ cachedFile = n)
    /\ pc = "copy" /\ cachedFile = n => cache[n].written = pos

IInv ==
  /\ TypeOK
  /\ \A n \in Names : CopyAgrees(n)
  /\ MappedWhole
  /\ pc = "copy" => cachedFile \notin mapped /\ cachedFile \notin cut
  /\ pc = "load" /\ from = "direct" => path \in Files
  /\ \A n \in cut \cup updated : cache[n] # Absent
  /\ pc # "idle" => outcome = "none" /\ got = Absent
=============================================================================
