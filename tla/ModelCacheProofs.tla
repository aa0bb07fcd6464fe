---------------------------- MODULE ModelCacheProofs ----------------------------
(***************************************************************************)
(* ModelCache's safety, for any models, any size of them and any number of *)
(* versions of the application.                                            *)
(***************************************************************************)
EXTENDS ModelCache, TLAPS

USE PathsAssumption, ChunksAssumption, VersionAssumption, AbsentAssumption

\* The cache's typing, one name at a time.
LEMMA CacheType ==
  ASSUME TypeOK, NEW n \in Names
  PROVE  cache[n] = Absent \/ cache[n] \in Copies
BY DEF TypeOK

\* The name a load looks up is one a model can be packaged under.
LEMMA CachedFileType == TypeOK => cachedFile \in Names
BY DEF TypeOK, cachedFile

LEMMA InitInv == Init => IInv
BY DEF Init, IInv, TypeOK, CopyAgrees, MappedWhole, Outcomes

-----------------------------------------------------------------------------
(* Each step keeps IInv. *)

\* A copy starts out empty, under a name that is neither mapped nor cut.
LEMMA CreateInv == IInv /\ Create => IInv'
<1> SUFFICES ASSUME IInv, Create PROVE IInv'
  OBVIOUS
<1> DEFINE f == [name |-> base[path], version |-> apk[base[path]], written |-> 0]
<1>1. base[path] \in Names /\ cachedFile = base[path] /\ cachedFile' = base[path]
  BY DEF IInv, TypeOK, Create, StartCopy, cachedFile
<1>2. f \in Copies /\ f # Absent
  BY <1>1 DEF IInv, TypeOK, Create, StartCopy, Copies
<1>3. cache[base[path]] = Absent /\ cache' = [cache EXCEPT ![base[path]] = f]
  BY <1>1 DEF Create, StartCopy
<1>4. cache'[base[path]] = f /\ \A n \in Names \ {base[path]} : cache'[n] = cache[n]
  BY <1>1, <1>3 DEF IInv, TypeOK
<1> HIDE DEF f
<1>5. TypeOK'
  BY <1>1, <1>2, <1>3, <1>4 DEF IInv, TypeOK, Create, StartCopy
<1>6. base[path] \notin mapped /\ base[path] \notin cut \cup updated
  BY <1>1, <1>3 DEF IInv, MappedWhole
<1>7. ASSUME NEW n \in Names PROVE CopyAgrees(n)'
  <2>1. CASE n = base[path]
    <3>1. f.name = n /\ f.version = apk[n] /\ f.written = 0
      BY <2>1 DEF f
    <3> QED
      BY <3>1, <1>1, <1>4, <2>1 DEF CopyAgrees, Create, StartCopy
  <2>2. CASE n # base[path]
    <3>1. CopyAgrees(n)
      BY DEF IInv
    <3> QED
      BY <3>1, <1>1, <1>4, <2>2 DEF CopyAgrees, Create, StartCopy, Whole
  <2> QED
    BY <2>1, <2>2
<1>8. MappedWhole'
  BY <1>4, <1>6 DEF IInv, TypeOK, MappedWhole, Whole, Create, StartCopy
<1>9. \A n \in cut' \cup updated' : cache'[n] # Absent
  BY <1>2, <1>4, <1>6 DEF IInv, TypeOK, Create, StartCopy
<1> QED
  BY <1>1, <1>5, <1>6, <1>7, <1>8, <1>9 DEF IInv, Create, StartCopy

\* A chunk goes to the copy, or to a file that has lost its name.
LEMMA WriteInv == IInv /\ Write => IInv'
<1> SUFFICES ASSUME IInv, Write PROVE IInv'
  OBVIOUS
<1>1. cachedFile \in Names /\ cachedFile' = cachedFile /\ pos' = pos + 1 /\ pos' \in 0 .. Chunks
  BY CachedFileType DEF IInv, TypeOK, Write, cachedFile
<1>2. CASE cache[cachedFile] = Absent
  BY <1>1, <1>2 DEF IInv, TypeOK, CopyAgrees, MappedWhole, Whole, Write
<1>3. CASE cache[cachedFile] # Absent
  <2> DEFINE g == [cache[cachedFile] EXCEPT !.written = pos + 1]
  <2>1. cache[cachedFile] \in Copies
    BY <1>1, <1>3, CacheType DEF IInv
  <2>2. /\ g \in Copies /\ g # Absent /\ g.written = pos'
        /\ g.name = cache[cachedFile].name /\ g.version = cache[cachedFile].version
    BY <1>1, <2>1 DEF Copies
  <2>3. cache' = [cache EXCEPT ![cachedFile] = g]
    BY <1>3 DEF Write
  <2>4. cache'[cachedFile] = g /\ \A n \in Names \ {cachedFile} : cache'[n] = cache[n]
    BY <1>1, <2>3 DEF IInv, TypeOK
  <2> HIDE DEF g
  <2>5. TypeOK'
    BY <1>1, <2>2, <2>3, <2>4 DEF IInv, TypeOK, Write
  <2>6. ASSUME NEW n \in Names PROVE CopyAgrees(n)'
    <3>1. CopyAgrees(n)
      BY DEF IInv
    <3> QED
      BY <3>1, <1>1, <1>3, <2>2, <2>4 DEF CopyAgrees, Whole, Write
  <2>7. MappedWhole'
    BY <1>1, <2>4 DEF IInv, TypeOK, MappedWhole, Whole, Write
  <2>8. \A n \in cut' \cup updated' : cache'[n] # Absent
    BY <2>2, <2>4 DEF IInv, TypeOK, Write
  <2> QED
    BY <1>1, <2>5, <2>6, <2>7, <2>8 DEF IInv, Write
<1> QED
  BY <1>2, <1>3

\* What a load may do to its state without touching a file or a history.
LEMMA OtherLoadInv ==
  ASSUME IInv,
         \/ \E p \in Paths : Call(p)
         \/ ResolveDirect \/ ResolveCached \/ NotPackaged \/ CreateFails
         \/ CloseCopy \/ NativeRefuses \/ NativeFails
  PROVE  IInv'
<1>1. UNCHANGED <<storage, mapped, cut, updated>>
  BY DEF Call, ResolveDirect, ResolveCached, NotPackaged, CreateFails, CloseCopy,
         NativeRefuses, NativeFails, Throws, Returns
<1>2. TypeOK'
  BY <1>1 DEF IInv, TypeOK, Outcomes, storage, Call, ResolveDirect, ResolveCached, NotPackaged,
         CreateFails, CloseCopy, NativeRefuses, NativeFails, Throws, Returns
<1>3. /\ pc' # "copy"
      /\ pc' # "idle" => outcome' = "none" /\ got' = Absent
      /\ outcome' # "loaded" \/ UNCHANGED <<outcome, got>>
  BY DEF IInv, Call, ResolveDirect, ResolveCached, NotPackaged, CreateFails, CloseCopy,
         NativeRefuses, NativeFails, Throws, Returns
<1>4. pc' = "load" /\ from' = "direct" => path' \in Files
  BY DEF Call, ResolveDirect, ResolveCached, NotPackaged, CreateFails, CloseCopy,
         NativeRefuses, NativeFails, Throws, Returns, HasOwnFile
<1>5. ASSUME NEW n \in Names PROVE CopyAgrees(n)'
  <2>1. CopyAgrees(n)
    BY DEF IInv
  <2>2. CASE CloseCopy
    BY <1>1, <2>1, <2>2 DEF CopyAgrees, CloseCopy, Returns, Whole, storage
  <2>3. CASE pc # "copy"
    BY <1>1, <1>3, <2>1, <2>3 DEF CopyAgrees, Whole, storage
  <2> QED
    BY <2>2, <2>3 DEF Call, ResolveDirect, ResolveCached, NotPackaged, CreateFails,
         NativeRefuses, NativeFails
<1>6. MappedWhole'
  BY <1>1, <1>3 DEF IInv, MappedWhole, Whole, storage
<1> QED
  BY <1>1, <1>2, <1>3, <1>4, <1>5, <1>6 DEF IInv, storage

\* A copy that is cut short is noted, and is then the file of that name.
LEMMA WriteFailsInv == IInv /\ WriteFails => IInv'
<1> SUFFICES ASSUME IInv, WriteFails PROVE IInv'
  OBVIOUS
<1>1. cachedFile \in Names /\ UNCHANGED <<storage, mapped, updated, got>> /\ pc = "copy" /\ pc' = "idle"
  BY CachedFileType DEF IInv, WriteFails, Throws
<1>2. cut' = IF cache[cachedFile] # Absent THEN cut \cup {cachedFile} ELSE cut
  BY <1>1 DEF WriteFails, CutShort
<1>3. TypeOK'
  BY <1>1, <1>2 DEF IInv, TypeOK, Outcomes, WriteFails, Throws, storage
<1>4. ASSUME NEW n \in Names PROVE CopyAgrees(n)'
  <2>1. CopyAgrees(n)
    BY DEF IInv
  <2> QED
    BY <1>1, <1>2, <2>1 DEF CopyAgrees, Whole, storage
<1>5. MappedWhole'
  BY <1>1 DEF IInv, MappedWhole, Whole, WriteFails, Throws, storage
<1> QED
  BY <1>1, <1>2, <1>3, <1>4, <1>5 DEF IInv, storage

\* A model is loaded, from a file of its own or from a whole copy.
LEMMA NativeLoadsInv == IInv /\ NativeLoads => IInv'
<1> SUFFICES ASSUME IInv, NativeLoads PROVE IInv'
  OBVIOUS
<1>1. cachedFile \in Names /\ UNCHANGED <<storage, cut, updated, path, from>> /\ pc = "load" /\ pc' = "idle"
  BY CachedFileType DEF IInv, NativeLoads, NativeReturns
<1>2. from = "cached" => cache[cachedFile] \in Copies /\ cache[cachedFile] # Absent /\ Whole(cache[cachedFile])
  BY <1>1, CacheType DEF IInv, NativeLoads, OpensWhole
<1>3. from = "cached" => got' = cache[cachedFile] /\ mapped' = mapped \cup {cachedFile}
  BY DEF NativeLoads, NativeReturns
<1>4. from # "cached" => UNCHANGED <<got, mapped>>
  BY DEF IInv, TypeOK, NativeLoads, NativeReturns
<1>5. TypeOK'
  BY <1>1, <1>2, <1>3, <1>4 DEF IInv, TypeOK, Outcomes, NativeLoads, NativeReturns, storage
<1>6. ASSUME NEW n \in Names PROVE CopyAgrees(n)'
  <2>1. CopyAgrees(n)
    BY DEF IInv
  <2> QED
    BY <1>1, <2>1 DEF CopyAgrees, Whole, storage
<1>7. MappedWhole'
  BY <1>1, <1>2, <1>3, <1>4 DEF IInv, MappedWhole, Whole, storage
<1> QED
  BY <1>1, <1>5, <1>6, <1>7 DEF IInv, storage

\* A model that is unloaded lets go of its file.
LEMMA UnloadInv ==
  ASSUME IInv, NEW n \in Names, Unload(n)
  PROVE  IInv'
BY DEF IInv, TypeOK, CopyAgrees, MappedWhole, Whole, Unload, storage

-----------------------------------------------------------------------------
(* What comes from outside. *)

\* The end of the process cuts short the copy that was being made, if any.
LEMMA ProcessEndsInv ==
  ASSUME IInv, ProcessEnds, UNCHANGED storage, UNCHANGED updated
  PROVE  IInv'
<1>1. cachedFile \in Names
  BY CachedFileType DEF IInv
<1>2. cut' = IF pc = "copy" /\ cache[cachedFile] # Absent THEN cut \cup {cachedFile} ELSE cut
  BY DEF ProcessEnds, CutShort
<1>3. TypeOK'
  BY <1>1, <1>2 DEF IInv, TypeOK, Outcomes, ProcessEnds, storage
<1>4. ASSUME NEW n \in Names PROVE CopyAgrees(n)'
  <2>1. CopyAgrees(n)
    BY DEF IInv
  <2> QED
    BY <1>1, <1>2, <2>1 DEF CopyAgrees, Whole, ProcessEnds, storage
<1> QED
  BY <1>1, <1>2, <1>3, <1>4 DEF IInv, MappedWhole, Whole, ProcessEnds, storage

\* After an update, what differs from its asset is noted.
LEMMA UpdateInv == IInv /\ Update => IInv'
<1> SUFFICES ASSUME IInv, Update PROVE IInv'
  OBVIOUS
<1>1. cachedFile \in Names
  BY CachedFileType DEF IInv
<1>2. cut' = IF pc = "copy" /\ cache[cachedFile] # Absent THEN cut \cup {cachedFile} ELSE cut
  BY DEF Update, ProcessEnds, CutShort
<1>3. PICK changed \in SUBSET Names, removed \in SUBSET Names :
        /\ apk' = [n \in Names |-> IF n \in removed THEN 0
                                   ELSE IF n \in changed THEN version' ELSE apk[n]]
        /\ updated' = updated \cup {n \in changed \cup removed : cache[n] # Absent}
  BY DEF Update
<1>4. version' = version + 1 /\ version' \in 0 .. MaxVersion
  BY DEF IInv, TypeOK, Update
<1>5. apk' \in [Names -> 0 .. MaxVersion] /\ \A n \in Names : apk'[n] <= version'
  BY <1>3, <1>4 DEF IInv, TypeOK
<1>6. TypeOK'
  BY <1>1, <1>2, <1>3, <1>4, <1>5 DEF IInv, TypeOK, Outcomes, Update, ProcessEnds
<1>7. ASSUME NEW n \in Names PROVE CopyAgrees(n)'
  <2>1. CopyAgrees(n)
    BY DEF IInv
  <2>2. cache' = cache /\ pc' = "idle"
    BY DEF Update, ProcessEnds
  <2>3. cache[n] # Absent /\ n \notin updated' => n \notin updated /\ apk'[n] = apk[n]
    BY <1>3
  <2> QED
    BY <1>1, <1>2, <2>1, <2>2, <2>3 DEF CopyAgrees, Whole
<1>8. \A n \in cut' \cup updated' : cache'[n] # Absent
  BY <1>2, <1>3 DEF IInv, Update
<1> QED
  BY <1>6, <1>7, <1>8 DEF IInv, MappedWhole, Update, ProcessEnds

\* A file that is cleared is no file, and what is noted of it goes too.
LEMMA CacheClearedInv ==
  ASSUME IInv, NEW n \in Names, CacheCleared(n)
  PROVE  IInv'
<1>1. cache'[n] = Absent /\ \A k \in Names \ {n} : cache'[k] = cache[k]
  BY DEF IInv, TypeOK, CacheCleared
<1>2. TypeOK'
  BY <1>1 DEF IInv, TypeOK, CacheCleared
<1>3. ASSUME NEW k \in Names PROVE CopyAgrees(k)'
  <2>1. CopyAgrees(k)
    BY DEF IInv
  <2> QED
    BY <1>1, <2>1 DEF CopyAgrees, Whole, CacheCleared, cachedFile
<1>4. MappedWhole'
  BY <1>1 DEF IInv, TypeOK, MappedWhole, Whole, CacheCleared
<1>5. \A k \in cut' \cup updated' : cache'[k] # Absent
  BY <1>1 DEF IInv, TypeOK, CacheCleared
<1> QED
  BY <1>2, <1>3, <1>4, <1>5 DEF IInv, CacheCleared, cachedFile

\* A download that comes or goes changes nothing in the cache.
LEMMA DirectChangesInv ==
  ASSUME IInv, NEW p \in Files, DirectChanges(p)
  PROVE  IInv'
<1>1. direct' \in [Files -> {"absent", "partial", "whole"}]
  BY DEF IInv, TypeOK, DirectChanges
<1> QED
  BY <1>1 DEF IInv, TypeOK, CopyAgrees, MappedWhole, Whole, DirectChanges, cachedFile

-----------------------------------------------------------------------------
\* Every step keeps IInv.
LEMMA NextInv == IInv /\ [Next]_vars => IInv'
<1> SUFFICES ASSUME IInv, [Next]_vars PROVE IInv'
  OBVIOUS
<1>1. CASE \E p \in Paths : Call(p)
  BY <1>1, OtherLoadInv
<1>2. CASE resolveModelPath
  BY <1>2, OtherLoadInv, CreateInv, WriteInv, WriteFailsInv DEF resolveModelPath
<1>3. CASE nativeLoadModel
  BY <1>3, OtherLoadInv, NativeLoadsInv DEF nativeLoadModel
<1>4. CASE \E n \in Names : Unload(n)
  BY <1>4, UnloadInv
<1>5. CASE Outside
  BY <1>5, ProcessEndsInv, UpdateInv, CacheClearedInv, DirectChangesInv DEF Outside, Crash
<1>6. CASE UNCHANGED vars
  BY <1>6 DEF IInv, TypeOK, CopyAgrees, MappedWhole, Whole, vars, cachedFile
<1> QED
  BY <1>1, <1>2, <1>3, <1>4, <1>5, <1>6 DEF Next

\* Every variable stays in its range, and the cache, the mappings and what was
\* noted of them agree, in every reachable state (Thistle.kt, resolveModelPath).
THEOREM Invariance == Spec => []IInv
<1>1. Init => IInv
  BY InitInv
<1>2. IInv /\ [Next]_vars => IInv'
  BY NextInv
<1> QED
  BY <1>1, <1>2, PTL DEF Spec

\* No load writes to the file that a loaded model has mapped.
THEOREM MappedWholeCorrect == Spec => []MappedWhole
<1>1. IInv => MappedWhole
  BY DEF IInv
<1> QED
  BY <1>1, Invariance, PTL

\* Only NativeLoads ends a load well, and only NativeRefuses calls it incomplete.
LEMMA HowItFinishes ==
  ASSUME IInv, [Next]_vars
  PROVE  /\ Finishes("loaded") => NativeLoads
         /\ Finishes("incomplete") => NativeRefuses
BY DEF Finishes, IInv, Next, vars, resolveModelPath, nativeLoadModel, Outside, Call, ResolveDirect,
       ResolveCached, NotPackaged, Create, StartCopy, CreateFails, Write, WriteFails, CloseCopy,
       NativeLoads, NativeReturns, NativeRefuses, NativeFails, Throws, Returns, Unload, Crash,
       Update, ProcessEnds, CacheCleared, DirectChanges

\* A load from the cache gets the installed version's asset of its own name, unless
\* an update changed it after the copy was made.
THEOREM ServesItsOwnCorrect == Spec => ServesItsOwn
<1>1. ASSUME IInv, [Next]_vars, Finishes("loaded")
      PROVE  got'.name = base[path] /\ (got'.version = apk[base[path]] \/ base[path] \in updated)
  <2>1. cachedFile \in Names /\ cachedFile = base[path]
    BY <1>1, CachedFileType DEF IInv, cachedFile
  <2>2. NativeLoads /\ from = "cached"
    <3>1. NativeLoads
      BY <1>1, HowItFinishes
    <3> QED
      BY <1>1, <3>1 DEF Finishes
  <2>3. got' = cache[cachedFile] /\ cache[cachedFile] # Absent
    BY <2>2 DEF NativeLoads, NativeReturns, OpensWhole
  <2>4. CopyAgrees(cachedFile)
    BY <1>1, <2>1 DEF IInv
  <2> QED
    BY <2>1, <2>3, <2>4 DEF CopyAgrees
<1>2. IInv /\ [Next]_vars => [Finishes("loaded") =>
        got'.name = base[path] /\ (got'.version = apk[base[path]] \/ base[path] \in updated)]_vars
  BY <1>1
<1> QED
  BY <1>2, Invariance, PTL DEF Spec, ServesItsOwn

\* A packaged model is refused as incomplete only where its copy was cut short.
THEOREM IncompleteOnlyIfCutCorrect == Spec => IncompleteOnlyIfCut
<1>1. ASSUME IInv, [Next]_vars, Finishes("incomplete") PROVE base[path] \in cut
  <2>1. cachedFile \in Names /\ cachedFile = base[path]
    BY <1>1, CachedFileType DEF IInv, cachedFile
  <2>2. NativeRefuses /\ from = "cached"
    <3>1. NativeRefuses
      BY <1>1, HowItFinishes
    <3> QED
      BY <1>1, <3>1 DEF Finishes
  <2>3. cache[cachedFile] # Absent /\ ~Whole(cache[cachedFile]) /\ pc = "load"
    BY <1>1, <2>2 DEF NativeRefuses, OpensWhole, OpensNothing, Throws, Finishes
  <2>4. CopyAgrees(cachedFile)
    BY <1>1, <2>1 DEF IInv
  <2> QED
    BY <2>1, <2>3, <2>4 DEF CopyAgrees
<1>2. IInv /\ [Next]_vars => [Finishes("incomplete") => base[path] \in cut]_vars
  BY <1>1
<1> QED
  BY <1>2, Invariance, PTL DEF Spec, IncompleteOnlyIfCut
=============================================================================
