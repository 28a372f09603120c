--------------------------- MODULE JitCacheProofs ---------------------------
(* Theorems about JitCache, for any processes, threads and kernels. *)
EXTENDS JitCache, TLAPS

\* Every FileLock the actions name is a lock.
LEMMA LockNames ==
  /\ ArtifactLock \in Lock
  /\ \A k \in Kernel : BuildLock(k) \in Lock /\ ExtractLock(k) \in Lock
  BY DEF Lock

LEMMA TypeInit == Kernel # {} /\ Init => TypeOK
  BY ConstantsAssumption DEF Init, TypeOK, Content, FlushLabel, Label

LEMMA TypeStep == TypeOK /\ [Next]_vars => TypeOK'
  <1> SUFFICES ASSUME TypeOK, [Next]_vars PROVE TypeOK'
    OBVIOUS
  <1> USE ConstantsAssumption, LockNames
  <1>1. ASSUME NEW t \in Thread, Step(t) PROVE TypeOK'
    <2>1. CASE TakeBuildLock(t)
      <3>1. lock' \in [Lock -> Thread \cup {None}]
        BY <2>1 DEF TakeBuildLock, Acquire, TypeOK
      <3>2. pc' \in [Thread -> Label] /\ single' \in [Thread -> BOOLEAN]
        BY <2>1 DEF TakeBuildLock, Goto, TypeOK, FlushLabel, Label
      <3> QED
        BY <2>1, <3>1, <3>2 DEF TakeBuildLock, TypeOK, disk, mem
    <2>2. CASE FastPath(t)
      BY <2>2 DEF FastPath, UseGenerated, Goto, At, TypeOK, Content, FlushLabel, Label, disk, mem
    <2>25. CASE Flush(t)
      <3>1. pc' \in [Thread -> Label]
        BY <2>25 DEF Flush, Goto, TypeOK, FlushLabel, Label
      <3>2. cu' \in [Kernel -> Content]
        BY <2>25 DEF Flush, TypeOK, Content
      <3>3. h' \in [Kernel -> Content]
        BY <2>25 DEF Flush, TypeOK, Content
      <3>4. decl' \in [Kernel -> Content]
        BY <2>25 DEF Flush, TypeOK, Content
      <3> QED
        BY <2>25, <3>1, <3>2, <3>3, <3>4 DEF Flush, TypeOK, mem
    <2>26. CASE FlushFails(t)
      BY <2>26 DEF FlushFails, Raise, Release, Goto, At, TypeOK, Content, FlushLabel, Label, disk, mem
    <2>3. CASE TakeExtractLock(t)
      BY <2>3 DEF TakeExtractLock, Acquire, UseGenerated, Goto, At, TypeOK, Content, FlushLabel, Label, disk, mem
    <2>4. CASE Toolchain(t)
      BY <2>4 DEF Toolchain, Goto, At, TypeOK, Content, FlushLabel, Label, disk, mem
    <2>5. CASE ExtractFails(t)
      BY <2>5 DEF ExtractFails, Raise, Release, Goto, At, TypeOK, Content, FlushLabel, Label, disk, mem
    <2>6. CASE OpenCu(t)
      BY <2>6 DEF OpenCu, Goto, At, TypeOK, Content, FlushLabel, Label, disk, mem
    <2>7. CASE WriteCu(t)
      BY <2>7 DEF WriteCu, Written, Goto, At, TypeOK, Content, FlushLabel, Label, disk, mem
    <2>8. CASE OpenH(t)
      BY <2>8 DEF OpenH, Goto, At, TypeOK, Content, FlushLabel, Label, disk, mem
    <2>9. CASE WriteH(t)
      BY <2>9 DEF WriteH, Written, Goto, At, TypeOK, Content, FlushLabel, Label, disk, mem
    <2>10. CASE ReadH(t)
      BY <2>10 DEF ReadH, Goto, At, TypeOK, Content, FlushLabel, Label, disk, mem
    <2>11. CASE ReadHFails(t)
      BY <2>11 DEF ReadHFails, Raise, Release, Goto, At, TypeOK, Content, FlushLabel, Label, disk, mem
    <2>12. CASE OpenDecl(t)
      BY <2>12 DEF OpenDecl, Goto, At, TypeOK, Content, FlushLabel, Label, disk, mem
    <2>13. CASE WriteDecl(t)
      BY <2>13 DEF WriteDecl, Written, Goto, At, TypeOK, Content, FlushLabel, Label, disk, mem
    <2>14. CASE Extracted(t)
      <3>1. lock' \in [Lock -> Thread \cup {None}]
        BY <2>14 DEF Extracted, Release, TypeOK
      <3>2. pc' \in [Thread -> Label]
        BY <2>14 DEF Extracted, Goto, TypeOK, FlushLabel, Label
      <3>3. captured' \in [Proc -> SUBSET Kernel]
        <4>1. ProcOf[t] \in Proc /\ kern[t] \in Kernel
          BY DEF TypeOK
        <4>2. \/ captured' = captured
              \/ captured' = [captured EXCEPT ![ProcOf[t]] = @ \cup {kern[t]}]
          BY <2>14 DEF Extracted
        <4> QED
          BY <4>1, <4>2 DEF TypeOK
      <3> QED
        BY <2>14, <3>1, <3>2, <3>3 DEF Extracted, TypeOK, disk
    <2>15. CASE Prepare(t)
      BY <2>15 DEF Prepare, Goto, At, TypeOK, Content, FlushLabel, Label, disk, mem
    <2>16. CASE TakeBaton(t)
      <3>1. ExtLock(t) \in Lock
        BY DEF ExtLock, TypeOK, Lock
      <3>2. pc' \in [Thread -> Label] /\ baton' \subseteq Lock
        BY <2>16, <3>1 DEF TakeBaton, Goto, TypeOK, FlushLabel, Label
      <3>3. todo' \in [Thread -> SUBSET (Kernel \X {"wrapper", "device"})]
        BY <2>16 DEF TakeBaton, TypeOK
      <3> QED
        BY <2>16, <3>2, <3>3 DEF TakeBaton, TypeOK, mem
    <2>17. CASE CompileUnit(t)
      BY <2>17 DEF CompileUnit, Goto, At, TypeOK, Content, FlushLabel, Label, disk, mem
    <2>18. CASE CompileFails(t)
      BY <2>18 DEF CompileFails, LeaveLoad, Release, Goto, At, TypeOK, Content, FlushLabel, Label, disk, mem
    <2>19. CASE Loaded(t)
      BY <2>19 DEF Loaded, LeaveLoad, Release, Goto, At, TypeOK, Content, FlushLabel, Label, disk, mem
    <2>20. CASE TakeCaptureLock(t)
      BY <2>20 DEF TakeCaptureLock, Acquire, Goto, At, TypeOK, Content, FlushLabel, Label, disk, mem
    <2>21. CASE FinalizeCapture(t)
      <3>1. pc' \in [Thread -> Label]
        BY <2>21 DEF FinalizeCapture, Goto, TypeOK, Label
      <3>2. lock' \in [Lock -> Thread \cup {None}]
        BY <2>21 DEF FinalizeCapture, Release, TypeOK
      <3> QED
        BY <2>21, <3>1, <3>2 DEF FinalizeCapture, TypeOK, disk
    <2>22. CASE TakeBatchLock(t)
      BY <2>22 DEF TakeBatchLock, Acquire, Goto, At, TypeOK, Content, FlushLabel, Label, disk, mem
    <2>23. CASE TakeDeleteLock(t)
      <3>1. pc' \in [Thread -> Label]
        BY <2>23 DEF TakeDeleteLock, Goto, TypeOK, Label
      <3>2. lock' \in [Lock -> Thread \cup {None}]
        BY <2>23 DEF TakeDeleteLock, Acquire, TypeOK
      <3> QED
        BY <2>23, <3>1, <3>2 DEF TakeDeleteLock, TypeOK, disk, mem
    <2>24. CASE Delete(t)
      BY <2>24 DEF Delete, Release, Goto, At, TypeOK, Content, FlushLabel, Label, disk, mem
    <2> QED
      BY <1>1, <2>1, <2>2, <2>3, <2>4, <2>5, <2>6, <2>7, <2>8, <2>9, <2>10, <2>11, <2>12, <2>13, <2>14, <2>15, <2>16, <2>17, <2>18, <2>19, <2>20, <2>21, <2>22, <2>23, <2>24, <2>25, <2>26 DEF Step
  <1>2. ASSUME NEW t \in Thread, StartCapture(t) PROVE TypeOK'
    BY <1>2 DEF StartCapture, Call, Goto, At, TypeOK, Content, FlushLabel, Label, disk, mem
  <1>3. ASSUME NEW t \in Thread, NEW k \in Kernel, BuildKernel(t, k) PROVE TypeOK'
    BY <1>3 DEF BuildKernel, Call, Goto, At, TypeOK, Content, FlushLabel, Label, disk, mem
  <1>4. ASSUME NEW t \in Thread, NEW k \in Kernel, StartDelete(t, k) PROVE TypeOK'
    BY <1>4 DEF StartDelete, Call, Goto, At, TypeOK, Content, FlushLabel, Label, disk, mem
  <1>5. ASSUME NEW p \in Proc, Crash(p) PROVE TypeOK'
    BY <1>5 DEF Crash, TypeOK, Content, FlushLabel, Label, disk, mem
  <1>6. CASE UNCHANGED vars
    BY <1>6 DEF vars, disk, mem, local, TypeOK
  <1> QED
    BY <1>1, <1>2, <1>3, <1>4, <1>5, <1>6 DEF Next

\* Every reachable state is well typed.
THEOREM TypeCorrect == Kernel # {} /\ Spec => []TypeOK
  BY TypeInit, TypeStep, PTL DEF Spec

-----------------------------------------------------------------------------
(* Which locks a thread holds, by where it is *)

LEMMA LocksDiffer ==
  /\ \A k \in Kernel : /\ BuildLock(k) # ArtifactLock
                       /\ ExtractLock(k) # ArtifactLock
  /\ \A S \in SUBSET Kernel : BatchLock(S) \in Lock /\ BatchLock(S) # ArtifactLock
  /\ \A j, k \in Kernel : /\ BuildLock(j) # ExtractLock(k)
                          /\ BuildLock(j) = BuildLock(k) => j = k
                          /\ ExtractLock(j) = ExtractLock(k) => j = k
  /\ \A k \in Kernel, S \in SUBSET Kernel :
       BatchLock(S) # BuildLock(k) /\ BatchLock(S) # ExtractLock(k)
  BY DEF ArtifactLock, BuildLock, ExtractLock, BatchLock, Lock

LEMMA LockRanks ==
  /\ Rank(ArtifactLock) = 0
  /\ \A k \in Kernel : Rank(BuildLock(k)) = 1 /\ Rank(ExtractLock(k)) = 2
  /\ \A S \in SUBSET Kernel : Rank(BatchLock(S)) = 1
  BY DEF Rank, ArtifactLock, BuildLock, ExtractLock, BatchLock

WithExtractLock == {"toolchain", "openCu", "writeCu", "openH", "writeH"}
MaybeExtractLock == WithExtractLock \cup {"readH", "openDecl", "writeDecl", "extracted"}
Extracting == {"extract", "extractLock"} \cup FlushLabel \cup MaybeExtractLock
Loading == {"load", "compile"}
Deleting == {"deleteArtifact", "deleteBuild", "deleteExtract", "delete"}

HoldsArtifact(t) ==
  \/ capturing[ProcOf[t]]
  \/ pc[t] \in Loading \cup {"batchLock"} /\ ~single[t]
  \/ pc[t] \in Deleting \ {"deleteArtifact"}
HoldsBuild(t) ==
  \/ pc[t] \in Extracting \cup Loading \cup {"prepare"} /\ single[t]
  \/ pc[t] \in {"deleteExtract", "delete"}
HoldsBatch(t) == pc[t] \in Loading /\ ~single[t]

\* Where a capture or a deletion may take a thread.
Roles(t) ==
  /\ capturing[ProcOf[t]] => t \in Capturers /\ pc[t] \in Extracting \cup {"idle"}
  /\ pc[t] \in Extracting => (single[t] <=> ~capturing[ProcOf[t]])
  /\ pc[t] = "prepare" => single[t]
  /\ pc[t] = "batchLock" => ~single[t]
  /\ pc[t] \in Deleting => t \in Deleters
  /\ pc[t] = "captureLock" => t \in Capturers
  /\ pc[t] \in FlushLabel => Flushing(t)

\* The locks t holds are those its place in the code says it holds.
Holds(t) ==
  /\ \A l \in Lock : lock[l] = t =>
       \/ l = ArtifactLock /\ HoldsArtifact(t)
       \/ l = BuildLock(kern[t]) /\ HoldsBuild(t)
       \/ l = ExtractLock(kern[t]) /\ pc[t] \in MaybeExtractLock \cup {"delete"}
       \/ l = BatchLock(ext[t]) /\ HoldsBatch(t)
  /\ HoldsArtifact(t) => lock[ArtifactLock] = t
  /\ HoldsBuild(t) => lock[BuildLock(kern[t])] = t
  /\ pc[t] \in WithExtractLock \cup {"delete"} => lock[ExtractLock(kern[t])] = t
  /\ HoldsBatch(t) => lock[BatchLock(ext[t])] = t

ThreadInv(t) == Roles(t) /\ Holds(t)
LockInv == TypeOK /\ \A t \in Thread : ThreadInv(t)

\* A step of a thread, and what it leaves alone of the other threads.
ThreadStep(t) ==
  \/ Step(t)
  \/ StartCapture(t)
  \/ \E k \in Kernel : BuildKernel(t, k)
  \/ \E k \in Kernel : StartDelete(t, k)

Untouched(u) ==
  /\ pc'[u] = pc[u]
  /\ kern'[u] = kern[u]
  /\ single'[u] = single[u]
  /\ ext'[u] = ext[u]
  /\ capturing'[ProcOf[u]] = capturing[ProcOf[u]]
  /\ \A l \in Lock : lock'[l] = u <=> lock[l] = u

LEMMA OthersUntouched ==
  ASSUME LockInv, NEW t \in Thread, ThreadStep(t), NEW u \in Thread, u # t
  PROVE  Untouched(u)
  <1> USE ConstantsAssumption, CaptureAssumption, LockNames, LocksDiffer
  <1>1. CASE TakeBuildLock(t)
    BY <1>1 DEF TakeBuildLock, Acquire, Free, Goto, At, TypeOK, LockInv, ThreadInv, Roles, Untouched, mem
  <1>2. CASE FastPath(t)
    BY <1>2 DEF FastPath, UseGenerated, Goto, At, TypeOK, LockInv, ThreadInv, Roles, Untouched, mem
  <1>3. CASE TakeExtractLock(t)
    BY <1>3 DEF TakeExtractLock, Acquire, Free, UseGenerated, Goto, At, TypeOK, LockInv, ThreadInv, Roles, Untouched, mem
  <1>4. CASE Toolchain(t)
    BY <1>4 DEF Toolchain, Goto, At, TypeOK, LockInv, ThreadInv, Roles, Untouched, mem
  <1>5. CASE ExtractFails(t)
    BY <1>5 DEF ExtractFails, Raise, Release, Goto, At, TypeOK, LockInv, ThreadInv, Roles, Untouched, mem
  <1>6. CASE OpenCu(t)
    BY <1>6 DEF OpenCu, Goto, At, TypeOK, LockInv, ThreadInv, Roles, Untouched, mem
  <1>7. CASE WriteCu(t)
    BY <1>7 DEF WriteCu, Goto, At, TypeOK, LockInv, ThreadInv, Roles, Untouched, mem
  <1>8. CASE OpenH(t)
    BY <1>8 DEF OpenH, Goto, At, TypeOK, LockInv, ThreadInv, Roles, Untouched, mem
  <1>9. CASE WriteH(t)
    BY <1>9 DEF WriteH, Goto, At, TypeOK, LockInv, ThreadInv, Roles, Untouched, mem
  <1>10. CASE ReadH(t)
    BY <1>10 DEF ReadH, Goto, At, TypeOK, LockInv, ThreadInv, Roles, Untouched, mem
  <1>11. CASE ReadHFails(t)
    BY <1>11 DEF ReadHFails, Raise, Release, Goto, At, TypeOK, LockInv, ThreadInv, Roles, Untouched, mem
  <1>12. CASE OpenDecl(t)
    BY <1>12 DEF OpenDecl, Goto, At, TypeOK, LockInv, ThreadInv, Roles, Untouched, mem
  <1>13. CASE WriteDecl(t)
    BY <1>13 DEF WriteDecl, Goto, At, TypeOK, LockInv, ThreadInv, Roles, Untouched, mem
  <1>14. CASE Extracted(t)
    BY <1>14 DEF Extracted, Release, Goto, At, TypeOK, LockInv, ThreadInv, Roles, Untouched, mem
  <1>15. CASE Prepare(t)
    BY <1>15 DEF Prepare, Goto, At, TypeOK, LockInv, ThreadInv, Roles, Untouched, mem
  <1>16. CASE TakeBaton(t)
    BY <1>16 DEF TakeBaton, Goto, At, TypeOK, LockInv, ThreadInv, Roles, Untouched, mem
  <1>17. CASE CompileUnit(t)
    BY <1>17 DEF CompileUnit, Goto, At, TypeOK, LockInv, ThreadInv, Roles, Untouched, mem
  <1>18. CASE CompileFails(t)
    BY <1>18 DEF CompileFails, LeaveLoad, Release, Goto, At, TypeOK, LockInv, ThreadInv, Roles, Untouched, mem
  <1>19. CASE Loaded(t)
    BY <1>19 DEF Loaded, LeaveLoad, Release, Goto, At, TypeOK, LockInv, ThreadInv, Roles, Untouched, mem
  <1>20. CASE TakeCaptureLock(t)
    <2>1. t \in Capturers /\ ProcOf[u] # ProcOf[t]
      BY <1>20 DEF TakeCaptureLock, At, LockInv, ThreadInv, Roles
    <2>2. capturing'[ProcOf[u]] = capturing[ProcOf[u]]
      BY <1>20, <2>1 DEF TakeCaptureLock, LockInv, TypeOK
    <2>3. \A l \in Lock : lock'[l] = u <=> lock[l] = u
      BY <1>20 DEF TakeCaptureLock, Acquire, Free, LockInv, TypeOK
    <2>4. pc'[u] = pc[u] /\ kern'[u] = kern[u] /\ single'[u] = single[u] /\ ext'[u] = ext[u]
      BY <1>20 DEF TakeCaptureLock, Goto, LockInv, TypeOK
    <2> QED
      BY <2>2, <2>3, <2>4 DEF Untouched
  <1>21. CASE FinalizeCapture(t)
    <2>1. t \in Capturers /\ ProcOf[u] # ProcOf[t]
      BY <1>21 DEF FinalizeCapture, At, LockInv, ThreadInv, Roles
    <2>2. capturing'[ProcOf[u]] = capturing[ProcOf[u]]
      BY <1>21, <2>1 DEF FinalizeCapture, LockInv, TypeOK
    <2>3. \A l \in Lock : lock'[l] = u <=> lock[l] = u
      BY <1>21 DEF FinalizeCapture, Release, LockInv, TypeOK
    <2>4. pc'[u] = pc[u] /\ kern'[u] = kern[u] /\ single'[u] = single[u] /\ ext'[u] = ext[u]
      BY <1>21 DEF FinalizeCapture, Goto, LockInv, TypeOK
    <2> QED
      BY <2>2, <2>3, <2>4 DEF Untouched
  <1>22. CASE TakeBatchLock(t)
    BY <1>22 DEF TakeBatchLock, Acquire, Free, Goto, At, TypeOK, LockInv, ThreadInv, Roles, Untouched, mem
  <1>23. CASE TakeDeleteLock(t)
    BY <1>23 DEF TakeDeleteLock, Acquire, Free, Goto, At, TypeOK, LockInv, ThreadInv, Roles, Untouched, mem
  <1>24. CASE Delete(t)
    BY <1>24 DEF Delete, Release, Goto, At, TypeOK, LockInv, ThreadInv, Roles, Untouched, mem
  <1>25. CASE StartCapture(t)
    BY <1>25 DEF StartCapture, Call, Goto, At, TypeOK, LockInv, ThreadInv, Roles, Untouched, mem
  <1>26. CASE \E k \in Kernel : BuildKernel(t, k)
    BY <1>26 DEF BuildKernel, Call, Goto, At, TypeOK, LockInv, ThreadInv, Roles, Untouched, mem
  <1>27. CASE \E k \in Kernel : StartDelete(t, k)
    BY <1>27 DEF StartDelete, Call, Goto, At, TypeOK, LockInv, ThreadInv, Roles, Untouched, mem
  <1>28. CASE Flush(t)
    BY <1>28 DEF Flush, Goto, At, TypeOK, LockInv, ThreadInv, Roles, Untouched, mem
  <1>29. CASE FlushFails(t)
    BY <1>29 DEF FlushFails, Raise, Release, Goto, At, TypeOK, LockInv, ThreadInv, Roles, Untouched, mem
  <1> QED
    BY <1>1, <1>2, <1>3, <1>4, <1>5, <1>6, <1>7, <1>8, <1>9, <1>10, <1>11, <1>12, <1>13, <1>14, <1>15, <1>16, <1>17, <1>18, <1>19, <1>20, <1>21, <1>22, <1>23, <1>24, <1>25, <1>26, <1>27, <1>28, <1>29 DEF Step, ThreadStep

LEMMA OthersKeepInv ==
  ASSUME LockInv, NEW t \in Thread, ThreadStep(t), NEW u \in Thread, u # t
  PROVE  ThreadInv(u)'
  <1>1. Untouched(u) /\ ThreadInv(u)
    BY OthersUntouched DEF LockInv
  <1>2. Roles(u)'
    BY <1>1 DEF Untouched, ThreadInv, Roles
  <1>3. Holds(u)'
    BY <1>1, LockNames, LocksDiffer DEF Untouched, ThreadInv, Holds, HoldsArtifact, HoldsBuild, HoldsBatch, LockInv, TypeOK
  <1> QED
    BY <1>2, <1>3 DEF ThreadInv

LEMMA StepKeepsRoles ==
  ASSUME LockInv, NEW t \in Thread, ThreadStep(t)
  PROVE  Roles(t)'
  <1> USE ConstantsAssumption, CaptureAssumption
  <1>1. CASE TakeBuildLock(t)
    BY <1>1 DEF TakeBuildLock, Acquire, Free, Goto, At, TypeOK, LockInv, ThreadInv, Roles, Extracting, FlushLabel, MaybeExtractLock, WithExtractLock, Loading, Deleting, mem
  <1>2. CASE FastPath(t)
    BY <1>2 DEF FastPath, UseGenerated, Goto, At, TypeOK, LockInv, ThreadInv, Roles, Extracting, FlushLabel, MaybeExtractLock, WithExtractLock, Loading, Deleting, mem
  <1>3. CASE TakeExtractLock(t)
    BY <1>3 DEF TakeExtractLock, Acquire, Free, UseGenerated, Goto, At, TypeOK, LockInv, ThreadInv, Roles, Extracting, FlushLabel, MaybeExtractLock, WithExtractLock, Loading, Deleting, mem
  <1>4. CASE Toolchain(t)
    BY <1>4 DEF Toolchain, Goto, At, TypeOK, LockInv, ThreadInv, Roles, Extracting, FlushLabel, MaybeExtractLock, WithExtractLock, Loading, Deleting, mem
  <1>5. CASE ExtractFails(t)
    BY <1>5 DEF ExtractFails, Raise, Release, Goto, At, TypeOK, LockInv, ThreadInv, Roles, Extracting, FlushLabel, MaybeExtractLock, WithExtractLock, Loading, Deleting, mem
  <1>6. CASE OpenCu(t)
    BY <1>6 DEF OpenCu, Goto, At, TypeOK, LockInv, ThreadInv, Roles, Extracting, FlushLabel, MaybeExtractLock, WithExtractLock, Loading, Deleting, mem
  <1>7. CASE WriteCu(t)
    BY <1>7 DEF WriteCu, Goto, At, TypeOK, LockInv, ThreadInv, Roles, Extracting, FlushLabel, MaybeExtractLock, WithExtractLock, Loading, Deleting, mem
  <1>8. CASE OpenH(t)
    BY <1>8 DEF OpenH, Goto, At, TypeOK, LockInv, ThreadInv, Roles, Extracting, FlushLabel, MaybeExtractLock, WithExtractLock, Loading, Deleting, mem
  <1>9. CASE WriteH(t)
    BY <1>9 DEF WriteH, Goto, At, TypeOK, LockInv, ThreadInv, Roles, Extracting, FlushLabel, MaybeExtractLock, WithExtractLock, Loading, Deleting, mem
  <1>10. CASE ReadH(t)
    BY <1>10 DEF ReadH, Goto, At, TypeOK, LockInv, ThreadInv, Roles, Extracting, FlushLabel, MaybeExtractLock, WithExtractLock, Loading, Deleting, mem
  <1>11. CASE ReadHFails(t)
    BY <1>11 DEF ReadHFails, Raise, Release, Goto, At, TypeOK, LockInv, ThreadInv, Roles, Extracting, FlushLabel, MaybeExtractLock, WithExtractLock, Loading, Deleting, mem
  <1>12. CASE OpenDecl(t)
    BY <1>12 DEF OpenDecl, Goto, At, TypeOK, LockInv, ThreadInv, Roles, Extracting, FlushLabel, MaybeExtractLock, WithExtractLock, Loading, Deleting, mem
  <1>13. CASE WriteDecl(t)
    BY <1>13 DEF WriteDecl, Goto, At, TypeOK, LockInv, ThreadInv, Roles, Extracting, FlushLabel, MaybeExtractLock, WithExtractLock, Loading, Deleting, mem
  <1>14. CASE Extracted(t)
    BY <1>14 DEF Extracted, Release, Goto, At, TypeOK, LockInv, ThreadInv, Roles, Extracting, FlushLabel, MaybeExtractLock, WithExtractLock, Loading, Deleting, mem
  <1>15. CASE Prepare(t)
    BY <1>15 DEF Prepare, Goto, At, TypeOK, LockInv, ThreadInv, Roles, Extracting, FlushLabel, MaybeExtractLock, WithExtractLock, Loading, Deleting, mem
  <1>16. CASE TakeBaton(t)
    BY <1>16 DEF TakeBaton, Goto, At, TypeOK, LockInv, ThreadInv, Roles, Extracting, FlushLabel, MaybeExtractLock, WithExtractLock, Loading, Deleting, mem
  <1>17. CASE CompileUnit(t)
    BY <1>17 DEF CompileUnit, Goto, At, TypeOK, LockInv, ThreadInv, Roles, Extracting, FlushLabel, MaybeExtractLock, WithExtractLock, Loading, Deleting, mem
  <1>18. CASE CompileFails(t)
    BY <1>18 DEF CompileFails, LeaveLoad, Release, Goto, At, TypeOK, LockInv, ThreadInv, Roles, Extracting, FlushLabel, MaybeExtractLock, WithExtractLock, Loading, Deleting, mem
  <1>19. CASE Loaded(t)
    BY <1>19 DEF Loaded, LeaveLoad, Release, Goto, At, TypeOK, LockInv, ThreadInv, Roles, Extracting, FlushLabel, MaybeExtractLock, WithExtractLock, Loading, Deleting, mem
  <1>20. CASE TakeCaptureLock(t)
    BY <1>20 DEF TakeCaptureLock, Acquire, Free, Goto, At, TypeOK, LockInv, ThreadInv, Roles, Extracting, FlushLabel, MaybeExtractLock, WithExtractLock, Loading, Deleting, mem
  <1>21. CASE FinalizeCapture(t)
    BY <1>21 DEF FinalizeCapture, Release, Goto, At, TypeOK, LockInv, ThreadInv, Roles, Extracting, FlushLabel, MaybeExtractLock, WithExtractLock, Loading, Deleting, mem
  <1>22. CASE TakeBatchLock(t)
    BY <1>22 DEF TakeBatchLock, Acquire, Free, Goto, At, TypeOK, LockInv, ThreadInv, Roles, Extracting, FlushLabel, MaybeExtractLock, WithExtractLock, Loading, Deleting, mem
  <1>23. CASE TakeDeleteLock(t)
    BY <1>23 DEF TakeDeleteLock, Acquire, Free, Goto, At, TypeOK, LockInv, ThreadInv, Roles, Extracting, FlushLabel, MaybeExtractLock, WithExtractLock, Loading, Deleting, mem
  <1>24. CASE Delete(t)
    BY <1>24 DEF Delete, Release, Goto, At, TypeOK, LockInv, ThreadInv, Roles, Extracting, FlushLabel, MaybeExtractLock, WithExtractLock, Loading, Deleting, mem
  <1>25. CASE StartCapture(t)
    BY <1>25 DEF StartCapture, Call, Goto, At, TypeOK, LockInv, ThreadInv, Roles, Extracting, FlushLabel, MaybeExtractLock, WithExtractLock, Loading, Deleting, mem
  <1>26. CASE \E k \in Kernel : BuildKernel(t, k)
    BY <1>26 DEF BuildKernel, Call, Goto, At, TypeOK, LockInv, ThreadInv, Roles, Extracting, FlushLabel, MaybeExtractLock, WithExtractLock, Loading, Deleting, mem
  <1>27. CASE \E k \in Kernel : StartDelete(t, k)
    BY <1>27 DEF StartDelete, Call, Goto, At, TypeOK, LockInv, ThreadInv, Roles, Extracting, FlushLabel, MaybeExtractLock, WithExtractLock, Loading, Deleting, mem
  <1>28. CASE Flush(t)
    BY <1>28 DEF Flush, Goto, At, TypeOK, LockInv, ThreadInv, Roles, Extracting, FlushLabel, MaybeExtractLock, WithExtractLock, Loading, Deleting, mem
  <1>29. CASE FlushFails(t)
    BY <1>29 DEF FlushFails, Raise, Release, Goto, At, TypeOK, LockInv, ThreadInv, Roles, Extracting, FlushLabel, MaybeExtractLock, WithExtractLock, Loading, Deleting, mem
  <1> QED
    BY <1>1, <1>2, <1>3, <1>4, <1>5, <1>6, <1>7, <1>8, <1>9, <1>10, <1>11, <1>12, <1>13, <1>14, <1>15, <1>16, <1>17, <1>18, <1>19, <1>20, <1>21, <1>22, <1>23, <1>24, <1>25, <1>26, <1>27, <1>28, <1>29 DEF Step, ThreadStep

\* A step inside an extraction that moves no lock.
LEMMA QuietStep ==
  ASSUME LockInv, NEW t \in Thread,
         UNCHANGED <<lock, kern, ext, single, capturing>>,
         pc[t] \in Extracting, pc'[t] \in Extracting,
         pc'[t] \in WithExtractLock => pc[t] \in WithExtractLock,
         pc[t] \in MaybeExtractLock => pc'[t] \in MaybeExtractLock
  PROVE  Holds(t)'
  <1>1. (HoldsArtifact(t)' <=> HoldsArtifact(t)) /\ (HoldsBuild(t)' <=> HoldsBuild(t))
    BY DEF HoldsArtifact, HoldsBuild, Extracting, FlushLabel, MaybeExtractLock, WithExtractLock, Loading, Deleting
  <1>2. ~HoldsBatch(t)' /\ ~HoldsBatch(t)
    BY DEF HoldsBatch, Extracting, FlushLabel, MaybeExtractLock, WithExtractLock, Loading
  <1>3. pc[t] # "delete" /\ pc'[t] # "delete"
    BY DEF Extracting, FlushLabel, MaybeExtractLock, WithExtractLock
  <1> QED
    BY <1>1, <1>2, <1>3 DEF LockInv, ThreadInv, Holds

LEMMA StepKeepsHolds ==
  ASSUME LockInv, NEW t \in Thread, ThreadStep(t)
  PROVE  Holds(t)'
  <1> USE ConstantsAssumption, CaptureAssumption, LockNames, LocksDiffer
  <1>1. CASE TakeBuildLock(t)
    BY <1>1 DEF TakeBuildLock, Acquire, Free, Goto, At, TypeOK, LockInv, ThreadInv, Roles, Holds, HoldsArtifact, HoldsBuild, HoldsBatch, Extracting, FlushLabel, MaybeExtractLock, WithExtractLock, Loading, Deleting, mem
  <1>2. CASE FastPath(t)
    <2>1. UNCHANGED <<lock, kern, ext, single, capturing>>
      BY <1>2 DEF FastPath, mem
    <2>2. pc[t] = "extract" /\ pc'[t] \in {"readH", "extracted", "flushCu", "extractLock"}
      BY <1>2 DEF FastPath, UseGenerated, Goto, At, LockInv, TypeOK
    <2> QED
      BY <2>1, <2>2, QuietStep DEF Extracting, FlushLabel, MaybeExtractLock, WithExtractLock
  <1>3. CASE TakeExtractLock(t)
    BY <1>3 DEF TakeExtractLock, Acquire, Free, UseGenerated, Goto, At, TypeOK, LockInv, ThreadInv, Roles, Holds, HoldsArtifact, HoldsBuild, HoldsBatch, Extracting, FlushLabel, MaybeExtractLock, WithExtractLock, Loading, Deleting, mem
  <1>4. CASE Toolchain(t)
    BY <1>4, QuietStep DEF Toolchain, Goto, At, LockInv, TypeOK, Extracting, FlushLabel, MaybeExtractLock, WithExtractLock, mem
  <1>5. CASE ExtractFails(t)
    <2> DEFINE L == {BuildLock(kern[t]), ExtractLock(kern[t])}
    <2>1. pc[t] \in Extracting /\ pc'[t] = "idle"
      BY <1>5 DEF ExtractFails, Raise, Goto, At, LockInv, TypeOK, Extracting, FlushLabel, MaybeExtractLock, WithExtractLock
    <2>2. UNCHANGED <<kern, ext, single, capturing>>
      BY <1>5 DEF ExtractFails
    <2>3. \A l \in Lock : lock'[l] = IF l \in L /\ lock[l] = t THEN None ELSE lock[l]
      BY <1>5 DEF ExtractFails, Raise, Release
    <2>4. kern[t] \in Kernel
      BY DEF LockInv, TypeOK
    <2> QED
      BY <2>1, <2>2, <2>3, <2>4 DEF LockInv, ThreadInv, Holds, HoldsArtifact, HoldsBuild, HoldsBatch, Extracting, FlushLabel, MaybeExtractLock, WithExtractLock, Loading, Deleting
  <1>6. CASE OpenCu(t)
    BY <1>6, QuietStep DEF OpenCu, Goto, At, LockInv, TypeOK, Extracting, FlushLabel, MaybeExtractLock, WithExtractLock, mem
  <1>7. CASE WriteCu(t)
    BY <1>7, QuietStep DEF WriteCu, Goto, At, LockInv, TypeOK, Extracting, FlushLabel, MaybeExtractLock, WithExtractLock, mem
  <1>8. CASE OpenH(t)
    BY <1>8, QuietStep DEF OpenH, Goto, At, LockInv, TypeOK, Extracting, FlushLabel, MaybeExtractLock, WithExtractLock, mem
  <1>9. CASE WriteH(t)
    BY <1>9, QuietStep DEF WriteH, Goto, At, LockInv, TypeOK, Extracting, FlushLabel, MaybeExtractLock, WithExtractLock, mem
  <1>10. CASE ReadH(t)
    BY <1>10, QuietStep DEF ReadH, Goto, At, LockInv, TypeOK, Extracting, FlushLabel, MaybeExtractLock, WithExtractLock, mem
  <1>11. CASE ReadHFails(t)
    <2> DEFINE L == {BuildLock(kern[t]), ExtractLock(kern[t])}
    <2>1. pc[t] \in Extracting /\ pc'[t] = "idle"
      BY <1>11 DEF ReadHFails, Raise, Goto, At, LockInv, TypeOK, Extracting, FlushLabel, MaybeExtractLock, WithExtractLock
    <2>2. UNCHANGED <<kern, ext, single, capturing>>
      BY <1>11 DEF ReadHFails
    <2>3. \A l \in Lock : lock'[l] = IF l \in L /\ lock[l] = t THEN None ELSE lock[l]
      BY <1>11 DEF ReadHFails, Raise, Release
    <2>4. kern[t] \in Kernel
      BY DEF LockInv, TypeOK
    <2> QED
      BY <2>1, <2>2, <2>3, <2>4 DEF LockInv, ThreadInv, Holds, HoldsArtifact, HoldsBuild, HoldsBatch, Extracting, FlushLabel, MaybeExtractLock, WithExtractLock, Loading, Deleting
  <1>12. CASE OpenDecl(t)
    BY <1>12, QuietStep DEF OpenDecl, Goto, At, LockInv, TypeOK, Extracting, FlushLabel, MaybeExtractLock, WithExtractLock, mem
  <1>13. CASE WriteDecl(t)
    BY <1>13, QuietStep DEF WriteDecl, Goto, At, LockInv, TypeOK, Extracting, FlushLabel, MaybeExtractLock, WithExtractLock, mem
  <1>14. CASE Extracted(t)
    <2>1. pc[t] = "extracted" /\ UNCHANGED <<kern, ext, single, capturing>>
      BY <1>14 DEF Extracted, At
    <2>2. pc'[t] = IF single[t] THEN "prepare" ELSE "idle"
      BY <1>14 DEF Extracted, Goto, LockInv, TypeOK
    <2>3. \A l \in Lock : lock'[l] = IF l = ExtractLock(kern[t]) /\ lock[l] = t THEN None ELSE lock[l]
      BY <1>14 DEF Extracted, Release
    <2>4. (HoldsArtifact(t)' <=> HoldsArtifact(t)) /\ (HoldsBuild(t)' <=> HoldsBuild(t))
      BY <2>1, <2>2 DEF HoldsArtifact, HoldsBuild, Extracting, FlushLabel, MaybeExtractLock, WithExtractLock, Loading, Deleting
    <2>5. ~HoldsBatch(t)' /\ ~HoldsBatch(t)
      BY <2>1, <2>2 DEF HoldsBatch, Loading
    <2>6. kern[t] \in Kernel
      BY DEF LockInv, TypeOK
    <2> QED
      BY <2>1, <2>2, <2>3, <2>4, <2>5, <2>6 DEF LockInv, ThreadInv, Holds, MaybeExtractLock, WithExtractLock
  <1>15. CASE Prepare(t)
    <2>1. pc[t] = "prepare" /\ pc'[t] = "load" /\ single[t] /\ UNCHANGED <<lock, kern, single, capturing>>
      BY <1>15 DEF Prepare, At, Goto, mem, LockInv, TypeOK, ThreadInv, Roles
    <2>2. (HoldsArtifact(t)' <=> HoldsArtifact(t)) /\ (HoldsBuild(t)' <=> HoldsBuild(t))
      BY <2>1 DEF HoldsArtifact, HoldsBuild, Loading, Deleting
    <2>3. ~HoldsBatch(t)' /\ ~HoldsBatch(t)
      BY <2>1 DEF HoldsBatch
    <2> QED
      BY <2>1, <2>2, <2>3 DEF LockInv, ThreadInv, Holds, Extracting, FlushLabel, MaybeExtractLock, WithExtractLock
  <1>16. CASE TakeBaton(t)
    BY <1>16 DEF TakeBaton, Goto, At, TypeOK, LockInv, ThreadInv, Roles, Holds, HoldsArtifact, HoldsBuild, HoldsBatch, Extracting, FlushLabel, MaybeExtractLock, WithExtractLock, Loading, Deleting, mem
  <1>17. CASE CompileUnit(t)
    BY <1>17 DEF CompileUnit, Goto, At, TypeOK, LockInv, ThreadInv, Roles, Holds, HoldsArtifact, HoldsBuild, HoldsBatch, Extracting, FlushLabel, MaybeExtractLock, WithExtractLock, Loading, Deleting, mem
  <1>18. CASE CompileFails(t)
    <2>1. /\ pc[t] = "compile" /\ pc'[t] = "idle"
          /\ UNCHANGED <<kern, single, capturing>>
      BY <1>18 DEF CompileFails, LeaveLoad, At, Goto, LockInv, TypeOK
    <2>2. \A l \in Lock : lock'[l] = t =>
            lock[l] = t /\ l \notin {BuildLock(kern[t]), BatchLock(ext[t]), ArtifactLock}
      BY <1>18 DEF CompileFails, LeaveLoad, Release, LockInv, TypeOK
    <2>3. \A l \in Lock : lock'[l] # t
      BY <2>1, <2>2 DEF LockInv, ThreadInv, Holds, MaybeExtractLock, WithExtractLock
    <2>4. ~capturing[ProcOf[t]] /\ ~capturing'[ProcOf[t]]
      BY <2>1 DEF LockInv, ThreadInv, Roles, Extracting, FlushLabel, MaybeExtractLock, WithExtractLock
    <2>5. ~HoldsArtifact(t)' /\ ~HoldsBuild(t)' /\ ~HoldsBatch(t)'
      BY <2>1, <2>4 DEF HoldsArtifact, HoldsBuild, HoldsBatch, Extracting, FlushLabel, MaybeExtractLock, WithExtractLock, Loading, Deleting
    <2> QED
      BY <2>1, <2>3, <2>5 DEF Holds, MaybeExtractLock, WithExtractLock
  <1>19. CASE Loaded(t)
    <2>1. /\ pc[t] = "compile" /\ pc'[t] = "idle"
          /\ UNCHANGED <<kern, single, capturing>>
      BY <1>19 DEF Loaded, LeaveLoad, At, Goto, LockInv, TypeOK
    <2>2. \A l \in Lock : lock'[l] = t =>
            lock[l] = t /\ l \notin {BuildLock(kern[t]), BatchLock(ext[t]), ArtifactLock}
      BY <1>19 DEF Loaded, LeaveLoad, Release, LockInv, TypeOK
    <2>3. \A l \in Lock : lock'[l] # t
      BY <2>1, <2>2 DEF LockInv, ThreadInv, Holds, MaybeExtractLock, WithExtractLock
    <2>4. ~capturing[ProcOf[t]] /\ ~capturing'[ProcOf[t]]
      BY <2>1 DEF LockInv, ThreadInv, Roles, Extracting, FlushLabel, MaybeExtractLock, WithExtractLock
    <2>5. ~HoldsArtifact(t)' /\ ~HoldsBuild(t)' /\ ~HoldsBatch(t)'
      BY <2>1, <2>4 DEF HoldsArtifact, HoldsBuild, HoldsBatch, Extracting, FlushLabel, MaybeExtractLock, WithExtractLock, Loading, Deleting
    <2> QED
      BY <2>1, <2>3, <2>5 DEF Holds, MaybeExtractLock, WithExtractLock
  <1>20. CASE TakeCaptureLock(t)
    <2>1. pc[t] = "captureLock" /\ pc'[t] = "idle" /\ UNCHANGED <<kern, ext, single>>
      BY <1>20 DEF TakeCaptureLock, At, Goto, LockInv, TypeOK
    <2>2. lock' = [lock EXCEPT ![ArtifactLock] = t]
      BY <1>20 DEF TakeCaptureLock, Acquire
    <2>3. ~HoldsBuild(t)' /\ ~HoldsBatch(t)' /\ HoldsArtifact(t)'
      BY <1>20, <2>1 DEF TakeCaptureLock, HoldsBuild, HoldsBatch, HoldsArtifact, Extracting, FlushLabel, MaybeExtractLock, WithExtractLock, Loading, LockInv, TypeOK
    <2>4. ~HoldsBuild(t) /\ ~HoldsBatch(t)
      BY <2>1 DEF HoldsBuild, HoldsBatch, Extracting, FlushLabel, MaybeExtractLock, WithExtractLock, Loading
    <2>5. \A l \in Lock : lock[l] = t => l = ArtifactLock
      BY <2>1, <2>4 DEF LockInv, ThreadInv, Holds, Extracting, FlushLabel, MaybeExtractLock, WithExtractLock
    <2> QED
      BY <2>1, <2>2, <2>3, <2>5 DEF Holds, LockInv, TypeOK, WithExtractLock
  <1>21. CASE FinalizeCapture(t)
    BY <1>21 DEF FinalizeCapture, Release, Goto, At, TypeOK, LockInv, ThreadInv, Roles, Holds, HoldsArtifact, HoldsBuild, HoldsBatch, Extracting, FlushLabel, MaybeExtractLock, WithExtractLock, Loading, Deleting, mem
  <1>22. CASE TakeBatchLock(t)
    BY <1>22 DEF TakeBatchLock, Acquire, Free, Goto, At, TypeOK, LockInv, ThreadInv, Roles, Holds, HoldsArtifact, HoldsBuild, HoldsBatch, Extracting, FlushLabel, MaybeExtractLock, WithExtractLock, Loading, Deleting, mem
  <1>23. CASE TakeDeleteLock(t)
    BY <1>23 DEF TakeDeleteLock, Acquire, Free, Goto, At, TypeOK, LockInv, ThreadInv, Roles, Holds, HoldsArtifact, HoldsBuild, HoldsBatch, Extracting, FlushLabel, MaybeExtractLock, WithExtractLock, Loading, Deleting, mem
  <1>24. CASE Delete(t)
    <2>1. /\ pc[t] = "delete" /\ pc'[t] = "idle" /\ kern[t] \in Kernel
          /\ UNCHANGED <<kern, ext, single, capturing>>
      BY <1>24 DEF Delete, Goto, At, LockInv, TypeOK
    <2>2. ~capturing[ProcOf[t]]
      BY <2>1 DEF LockInv, ThreadInv, Roles, Extracting, FlushLabel, MaybeExtractLock, WithExtractLock
    <2>3. \A l \in Lock : lock'[l] = t =>
            lock[l] = t /\ l \notin {ArtifactLock, BuildLock(kern[t]), ExtractLock(kern[t])}
      BY <1>24, <2>1 DEF Delete, Release, LockInv, TypeOK
    <2>4. ~HoldsBatch(t)
      BY <2>1 DEF HoldsBatch, Loading
    <2>5. \A l \in Lock : lock'[l] # t
      BY <2>1, <2>3, <2>4 DEF LockInv, ThreadInv, Holds
    <2>6. ~HoldsArtifact(t)' /\ ~HoldsBuild(t)' /\ ~HoldsBatch(t)'
      BY <2>1, <2>2 DEF HoldsArtifact, HoldsBuild, HoldsBatch, Extracting, FlushLabel, MaybeExtractLock, WithExtractLock, Loading, Deleting
    <2> QED
      BY <2>1, <2>5, <2>6 DEF Holds, MaybeExtractLock, WithExtractLock
  <1>25. CASE StartCapture(t)
    <2>1. pc[t] = "idle" /\ pc'[t] = "captureLock" /\ ~capturing[ProcOf[t]]
      BY <1>25 DEF StartCapture, Call, Goto, At, LockInv, TypeOK
    <2>2. UNCHANGED <<lock, kern, ext, single, capturing>>
      BY <1>25 DEF StartCapture, mem
    <2>3. ~HoldsArtifact(t)' /\ ~HoldsBuild(t)' /\ ~HoldsBatch(t)'
      BY <2>1, <2>2 DEF HoldsArtifact, HoldsBuild, HoldsBatch, Extracting, FlushLabel, MaybeExtractLock, WithExtractLock, Loading, Deleting
    <2>4. ~HoldsArtifact(t) /\ ~HoldsBuild(t) /\ ~HoldsBatch(t)
      BY <2>1 DEF HoldsArtifact, HoldsBuild, HoldsBatch, Extracting, FlushLabel, MaybeExtractLock, WithExtractLock, Loading, Deleting
    <2>5. \A l \in Lock : lock[l] # t
      BY <2>1, <2>4 DEF LockInv, ThreadInv, Holds, MaybeExtractLock, WithExtractLock
    <2> QED
      BY <2>1, <2>2, <2>3, <2>5 DEF Holds, MaybeExtractLock, WithExtractLock
  <1>26. CASE \E k \in Kernel : BuildKernel(t, k)
    <2>1. /\ pc[t] = "idle" /\ pc'[t] \in {"idle", "extract", "buildLock"}
          /\ ~single'[t] /\ UNCHANGED <<lock, ext, capturing>>
          /\ pc'[t] = "extract" => capturing[ProcOf[t]]
      BY <1>26 DEF BuildKernel, Call, Goto, At, mem, LockInv, TypeOK
    <2>2. (HoldsArtifact(t)' <=> HoldsArtifact(t)) /\ (HoldsArtifact(t) <=> capturing[ProcOf[t]])
      BY <2>1 DEF HoldsArtifact, Loading, Deleting
    <2>3. ~HoldsBuild(t)' /\ ~HoldsBuild(t) /\ ~HoldsBatch(t)' /\ ~HoldsBatch(t)
      BY <2>1 DEF HoldsBuild, HoldsBatch, Extracting, FlushLabel, MaybeExtractLock, WithExtractLock, Loading
    <2>4. pc[t] \notin MaybeExtractLock \cup {"delete"} /\ pc'[t] \notin WithExtractLock \cup {"delete"}
      BY <2>1 DEF MaybeExtractLock, WithExtractLock
    <2> QED
      BY <2>1, <2>2, <2>3, <2>4 DEF LockInv, ThreadInv, Holds
  <1>27. CASE \E k \in Kernel : StartDelete(t, k)
    <2>1. pc[t] = "idle" /\ pc'[t] = "deleteArtifact" /\ t \in Deleters
      BY <1>27 DEF StartDelete, Call, Goto, At, LockInv, TypeOK
    <2>2. UNCHANGED <<lock, ext, single, capturing>>
      BY <1>27 DEF StartDelete, mem
    <2>3. ~HoldsBuild(t)' /\ ~HoldsBatch(t)' /\ ~HoldsBuild(t) /\ ~HoldsBatch(t)
      BY <2>1 DEF HoldsBuild, HoldsBatch, Extracting, FlushLabel, MaybeExtractLock, WithExtractLock, Loading
    <2>4. HoldsArtifact(t)' <=> HoldsArtifact(t)
      BY <2>1, <2>2 DEF HoldsArtifact, Loading, Deleting
    <2> QED
      BY <2>1, <2>2, <2>3, <2>4 DEF LockInv, ThreadInv, Holds, MaybeExtractLock, WithExtractLock
  <1>28. CASE Flush(t)
    <2>1. UNCHANGED <<lock, kern, ext, single, capturing>>
      BY <1>28 DEF Flush, mem
    <2>2. pc[t] \in FlushLabel /\ pc'[t] \in FlushLabel \cup {"extractLock"}
      BY <1>28 DEF Flush, Goto, At, LockInv, TypeOK, FlushLabel
    <2> QED
      BY <2>1, <2>2, QuietStep DEF Extracting, FlushLabel, MaybeExtractLock, WithExtractLock
  <1>29. CASE FlushFails(t)
    <2> DEFINE L == {BuildLock(kern[t]), ExtractLock(kern[t])}
    <2>1. pc[t] \in Extracting /\ pc'[t] = "idle"
      BY <1>29 DEF FlushFails, Raise, Goto, At, LockInv, TypeOK, Extracting, FlushLabel, MaybeExtractLock, WithExtractLock
    <2>2. UNCHANGED <<kern, ext, single, capturing>>
      BY <1>29 DEF FlushFails
    <2>3. \A l \in Lock : lock'[l] = IF l \in L /\ lock[l] = t THEN None ELSE lock[l]
      BY <1>29 DEF FlushFails, Raise, Release
    <2>4. kern[t] \in Kernel
      BY DEF LockInv, TypeOK
    <2> QED
      BY <2>1, <2>2, <2>3, <2>4 DEF LockInv, ThreadInv, Holds, HoldsArtifact, HoldsBuild, HoldsBatch, Extracting, FlushLabel, MaybeExtractLock, WithExtractLock, Loading, Deleting
  <1> QED
    BY <1>1, <1>2, <1>3, <1>4, <1>5, <1>6, <1>7, <1>8, <1>9, <1>10, <1>11, <1>12, <1>13, <1>14, <1>15, <1>16, <1>17, <1>18, <1>19, <1>20, <1>21, <1>22, <1>23, <1>24, <1>25, <1>26, <1>27, <1>28, <1>29 DEF Step, ThreadStep

LEMMA CrashKeepsInv ==
  ASSUME LockInv, NEW p \in Proc, Crash(p), NEW u \in Thread
  PROVE  ThreadInv(u)'
  <1> USE ConstantsAssumption
  <1>1. CASE ProcOf[u] = p
    <2>1. pc'[u] = "idle" /\ ~capturing'[ProcOf[u]] /\ \A l \in Lock : lock'[l] # u
      BY <1>1 DEF Crash, LockInv, TypeOK
    <2> QED
      BY <2>1 DEF ThreadInv, Roles, Holds, HoldsArtifact, HoldsBuild, HoldsBatch, Extracting, FlushLabel, MaybeExtractLock, WithExtractLock, Loading, Deleting
  <1>2. CASE ProcOf[u] # p
    <2>1. Untouched(u) /\ ThreadInv(u)
      BY <1>2 DEF Crash, Untouched, LockInv, TypeOK
    <2>2. Roles(u)'
      BY <2>1 DEF Untouched, ThreadInv, Roles
    <2>3. Holds(u)'
      BY <2>1, LockNames, LocksDiffer DEF Untouched, ThreadInv, Holds, HoldsArtifact, HoldsBuild, HoldsBatch, LockInv, TypeOK
    <2> QED
      BY <2>2, <2>3 DEF ThreadInv
  <1> QED
    BY <1>1, <1>2

LEMMA LockInvInit == Kernel # {} /\ Init => LockInv
  <1> SUFFICES ASSUME Kernel # {}, Init PROVE LockInv
    OBVIOUS
  <1>1. TypeOK
    BY TypeInit
  <1>2. ASSUME NEW t \in Thread PROVE ThreadInv(t)
    BY ConstantsAssumption DEF Init, ThreadInv, Roles, Holds, HoldsArtifact, HoldsBuild, HoldsBatch, Extracting, FlushLabel, MaybeExtractLock, WithExtractLock, Loading, Deleting
  <1> QED
    BY <1>1, <1>2 DEF LockInv

LEMMA LockInvStep == LockInv /\ [Next]_vars => LockInv'
  <1> SUFFICES ASSUME LockInv, [Next]_vars PROVE LockInv'
    OBVIOUS
  <1>1. TypeOK'
    BY TypeStep DEF LockInv
  <1>2. ASSUME NEW t \in Thread, ThreadStep(t), NEW u \in Thread PROVE ThreadInv(u)'
    BY <1>2, OthersKeepInv, StepKeepsRoles, StepKeepsHolds DEF ThreadInv
  <1>3. ASSUME NEW p \in Proc, Crash(p), NEW u \in Thread PROVE ThreadInv(u)'
    BY <1>3, CrashKeepsInv
  <1>4. ASSUME UNCHANGED vars, NEW u \in Thread PROVE ThreadInv(u)'
    BY <1>4 DEF vars, local, mem, LockInv, ThreadInv, Roles, Holds, HoldsArtifact, HoldsBuild, HoldsBatch
  <1> QED
    BY <1>1, <1>2, <1>3, <1>4 DEF Next, ThreadStep, LockInv

LEMMA LockInvariant == Kernel # {} /\ Spec => []LockInv
  BY LockInvInit, LockInvStep, PTL DEF Spec

-----------------------------------------------------------------------------
\* The FileLocks are ordered: a thread that waits for one holds only locks of
\* lower rank, so no cycle of waiting threads can form, whatever processes
\* build, capture, delete or die.
THEOREM LocksOrdered == Kernel # {} /\ Spec => []LockOrder
  <1>1. LockInv => LockOrder
    <2> SUFFICES ASSUME LockInv, NEW t \in Thread, NEW l \in Lock, NEW m \in Lock,
                        WaitsFor(t, l), lock[m] = t
                 PROVE  Rank(m) < Rank(l)
      BY DEF LockOrder
    <2>1. kern[t] \in Kernel /\ ext[t] \in SUBSET Kernel /\ Holds(t) /\ Roles(t)
      BY DEF LockInv, TypeOK, ThreadInv
    <2>2. CASE pc[t] \in {"captureLock", "deleteArtifact"}
      BY <2>1, <2>2 DEF Holds, Roles, HoldsArtifact, HoldsBuild, HoldsBatch, Extracting, FlushLabel, MaybeExtractLock, WithExtractLock, Loading, Deleting
    <2>3. CASE pc[t] \in {"buildLock", "deleteBuild"} /\ l = BuildLock(kern[t])
      <3>1. m = ArtifactLock
        BY <2>1, <2>3 DEF Holds, HoldsBuild, HoldsBatch, Extracting, FlushLabel, MaybeExtractLock, WithExtractLock, Loading
      <3> QED
        BY <2>1, <2>3, <3>1, LockRanks
    <2>4. CASE pc[t] \in {"extractLock", "deleteExtract"} /\ l = ExtractLock(kern[t])
      <3>1. m = ArtifactLock \/ m = BuildLock(kern[t])
        BY <2>1, <2>4 DEF Holds, HoldsBatch, Loading, MaybeExtractLock, WithExtractLock
      <3> QED
        BY <2>1, <2>4, <3>1, LockRanks
    <2>5. CASE pc[t] = "batchLock" /\ l = BatchLock(ext[t])
      <3>1. m = ArtifactLock
        BY <2>1, <2>5 DEF Holds, HoldsBuild, HoldsBatch, Extracting, FlushLabel, MaybeExtractLock, WithExtractLock, Loading
      <3> QED
        BY <2>1, <2>5, <3>1, LockRanks
    <2> QED
      BY <2>2, <2>3, <2>4, <2>5 DEF WaitsFor
  <1> QED
    BY <1>1, LockInvariant, PTL

\* The baton _build_kernel removes as stale belongs to no live build.
THEOREM RemovedBatonsAreOrphans == Kernel # {} /\ Spec => []RemovedBatonIsOrphan
  <1>1. LockInv => RemovedBatonIsOrphan
    <2> SUFFICES ASSUME LockInv, NEW t \in Thread, NEW u \in Thread,
                        pc[t] = "prepare", pc[u] = "compile", BuildLock(kern[t]) = ExtLock(u)
                 PROVE  FALSE
      BY DEF RemovedBatonIsOrphan
    <2>1. kern[t] \in Kernel /\ kern[u] \in Kernel /\ ext[u] \in SUBSET Kernel
      BY DEF LockInv, TypeOK
    <2>2. lock[BuildLock(kern[t])] = t
      BY DEF LockInv, ThreadInv, Roles, Holds, HoldsBuild
    <2>3. single[u]
      BY <2>1, LocksDiffer DEF ExtLock
    <2>4. lock[BuildLock(kern[u])] = u
      BY <2>3 DEF LockInv, ThreadInv, Holds, HoldsBuild, Loading
    <2> QED
      BY <2>2, <2>3, <2>4 DEF ExtLock
  <1> QED
    BY <1>1, LockInvariant, PTL

-----------------------------------------------------------------------------
(* Captures and deletions *)

\* Kernels are queued only while a capture is open.
CapturedInv == \A p \in Proc : captured[p] # {} => capturing[p]

LEMMA CapturedStep == LockInv /\ CapturedInv /\ [Next]_vars => CapturedInv'
  <1> SUFFICES ASSUME LockInv, CapturedInv, [Next]_vars PROVE CapturedInv'
    OBVIOUS
  <1> USE ConstantsAssumption
  <1>1. CASE UNCHANGED <<capturing, captured>>
    BY <1>1 DEF CapturedInv
  <1>2. ASSUME NEW t \in Thread, Extracted(t) PROVE CapturedInv'
    <2>1. CASE single[t]
      BY <1>2, <2>1 DEF Extracted, CapturedInv
    <2>2. CASE ~single[t]
      <3>1. capturing[ProcOf[t]]
        BY <1>2, <2>2 DEF Extracted, At, LockInv, ThreadInv, Roles, Extracting, FlushLabel, MaybeExtractLock
      <3> QED
        BY <1>2, <2>2, <3>1 DEF Extracted, CapturedInv, LockInv, TypeOK
    <2> QED
      BY <2>1, <2>2
  <1>3. ASSUME NEW t \in Thread, TakeCaptureLock(t) \/ FinalizeCapture(t) PROVE CapturedInv'
    BY <1>3 DEF TakeCaptureLock, FinalizeCapture, CapturedInv, LockInv, TypeOK
  <1>4. ASSUME NEW p \in Proc, Crash(p) PROVE CapturedInv'
    BY <1>4 DEF Crash, CapturedInv, LockInv, TypeOK
  <1>5. ASSUME NEW t \in Thread, Step(t), ~Extracted(t), ~TakeCaptureLock(t), ~FinalizeCapture(t)
        PROVE  UNCHANGED <<capturing, captured>>
    BY <1>5 DEF Step, TakeBuildLock, FastPath, Flush, FlushFails, TakeExtractLock, Toolchain, ExtractFails, OpenCu, WriteCu,
         OpenH, WriteH, ReadH, ReadHFails, OpenDecl, WriteDecl, Prepare, TakeBaton, CompileUnit,
         CompileFails, Loaded, LeaveLoad, TakeBatchLock, TakeDeleteLock, Delete, mem
  <1>6. ASSUME NEW t \in Thread, NEW k \in Kernel, StartCapture(t) \/ BuildKernel(t, k) \/ StartDelete(t, k)
        PROVE  UNCHANGED <<capturing, captured>>
    BY <1>6 DEF StartCapture, BuildKernel, StartDelete, mem
  <1>7. ASSUME NEW t \in Thread, StartCapture(t) PROVE UNCHANGED <<capturing, captured>>
    BY <1>7 DEF StartCapture, mem
  <1>8. CASE UNCHANGED vars
    BY <1>1, <1>8 DEF vars, mem
  <1> QED
    BY <1>1, <1>2, <1>3, <1>4, <1>5, <1>6, <1>7, <1>8 DEF Next

\* Only Delete and a flushing process take a source file away.
LEMMA WhoRemoves ==
  ASSUME LockInv, [Next]_vars, NEW k \in Kernel, cu[k] # "absent", cu'[k] = "absent"
  PROVE  \E u \in Thread : /\ kern[u] = k
                           /\ \/ Delete(u)
                              \/ pc[u] \in FlushLabel /\ Flushing(u)
  <1>1. ASSUME NEW t \in Thread, Flush(t) PROVE pc[t] \in FlushLabel /\ Flushing(t) /\ kern[t] = k
    BY <1>1 DEF Flush, At, FlushLabel, LockInv, ThreadInv, Roles, TypeOK
  <1>2. ASSUME NEW t \in Thread, Delete(t) PROVE kern[t] = k
    BY <1>2 DEF Delete, LockInv, TypeOK
  <1>3. ASSUME NEW t \in Thread, OpenCu(t) \/ WriteCu(t) PROVE FALSE
    BY <1>3 DEF OpenCu, WriteCu, Written, LockInv, TypeOK
  <1>4. ASSUME NEW t \in Thread, Step(t), ~Flush(t), ~Delete(t), ~OpenCu(t), ~WriteCu(t)
        PROVE  cu' = cu
    BY <1>4 DEF Step, TakeBuildLock, FastPath, FlushFails, TakeExtractLock, Toolchain, ExtractFails, OpenH, WriteH,
         ReadH, ReadHFails, OpenDecl, WriteDecl, Extracted, Prepare, TakeBaton, CompileUnit,
         CompileFails, Loaded, LeaveLoad, TakeCaptureLock, FinalizeCapture, TakeBatchLock,
         TakeDeleteLock, disk
  <1>5. ASSUME NEW t \in Thread, StartCapture(t) PROVE cu' = cu
    BY <1>5 DEF StartCapture, disk
  <1>6. ASSUME NEW t \in Thread, NEW j \in Kernel, BuildKernel(t, j) \/ StartDelete(t, j) PROVE cu' = cu
    BY <1>6 DEF BuildKernel, StartDelete, disk
  <1>7. ASSUME NEW p \in Proc, Crash(p) PROVE cu' = cu
    BY <1>7 DEF Crash, disk
  <1>8. CASE UNCHANGED vars
    BY <1>8 DEF vars, disk
  <1> QED
    BY <1>1, <1>2, <1>3, <1>4, <1>5, <1>6, <1>7, <1>8 DEF Next

\* delete_kernel takes nothing away that a capture has queued.
THEOREM CapturesKeepSources == Kernel # {} /\ Spec => QueuedSourcesStay
  <1>1. ASSUME LockInv, CapturedInv, [Next]_vars
        PROVE  \A t \in Capturers : \A k \in Queued(t) :
                 (cu[k] # "absent" /\ cu'[k] = "absent") =>
                    \E u \in Thread : pc[u] \in FlushLabel /\ kern[u] = k /\ Flushing(u)
    <2> SUFFICES ASSUME NEW t \in Capturers, NEW k \in Queued(t), cu[k] # "absent", cu'[k] = "absent"
                 PROVE  \E u \in Thread : pc[u] \in FlushLabel /\ kern[u] = k /\ Flushing(u)
      OBVIOUS
    <2> USE ConstantsAssumption
    <2>1. t \in Thread /\ ProcOf[t] \in Proc
      OBVIOUS
    <2>2. k \in Kernel
      BY <1>1, <2>1 DEF Queued, LockInv, TypeOK
    <2>3. HoldsArtifact(t) /\ pc[t] # "delete"
      <3>1. CASE pc[t] \in {"batchLock", "load", "compile"} /\ ~single[t]
        BY <3>1 DEF HoldsArtifact, Loading
      <3>2. CASE ~(pc[t] \in {"batchLock", "load", "compile"} /\ ~single[t])
        <4>1. capturing[ProcOf[t]]
          BY <1>1, <2>1, <3>2 DEF Queued, CapturedInv
        <4> QED
          BY <1>1, <2>1, <4>1 DEF HoldsArtifact, LockInv, ThreadInv, Roles, Extracting, FlushLabel, MaybeExtractLock, WithExtractLock
      <3> QED
        BY <3>1, <3>2
    <2>4. lock[ArtifactLock] = t
      BY <1>1, <2>1, <2>3 DEF LockInv, ThreadInv, Holds
    <2>5. ASSUME NEW u \in Thread, Delete(u) PROVE FALSE
      <3>1. pc[u] = "delete" /\ HoldsArtifact(u)
        BY <2>5 DEF Delete, At, HoldsArtifact, Deleting
      <3>2. lock[ArtifactLock] = u
        BY <1>1, <3>1 DEF LockInv, ThreadInv, Holds
      <3> QED
        BY <2>3, <2>4, <3>1, <3>2
    <2> QED
      BY <1>1, <2>2, <2>5, WhoRemoves
  <1>2. Init => CapturedInv
    BY DEF Init, CapturedInv
  <1> QED
    BY <1>1, <1>2, CapturedStep, LockInvariant, PTL DEF Spec, QueuedSourcesStay
-----------------------------------------------------------------------------
(***************************************************************************)
(* What the build lock of a kernel is good for.  NoSecondLoad holds always,*)
(* the sources are complete where nobody opens a capture and nobody is     *)
(* killed.                                                                 *)
(***************************************************************************)
Building == Extracting \cup Loading \cup {"prepare"}

-----------------------------------------------------------------------------
(* Nothing is loaded twice *)

LoadInv(t) ==
  /\ pc[t] \in Extracting \cup {"prepare"} => kern[t] \notin loaded[ProcOf[t]]
  /\ pc[t] \in Loading \cup {"batchLock"} => ext[t] \cap loaded[ProcOf[t]] = {}
  /\ pc[t] \in Loading \cup {"batchLock"} /\ ~single[t] => t \in Capturers
  /\ pc[t] \in Loading /\ single[t] => ext[t] = {kern[t]}
  /\ capturing[ProcOf[t]] => captured[ProcOf[t]] \cap loaded[ProcOf[t]] = {}

LoadedInv == LockInv /\ \A t \in Thread : LoadInv(t)

\* A step of t changes what its own process has loaded or queued, and loads
\* only its own extension.
LEMMA LoadFrame ==
  ASSUME LockInv, NEW t \in Thread, ThreadStep(t), NEW p \in Proc
  PROVE  /\ p # ProcOf[t] => loaded'[p] = loaded[p] /\ captured'[p] = captured[p]
         /\ \/ loaded'[p] \subseteq loaded[p]
            \/ pc[t] = "compile" /\ loaded'[p] = loaded[p] \cup ext[t]
  <1> USE ConstantsAssumption
  <1>1. CASE Loaded(t)
    BY <1>1 DEF Loaded, LeaveLoad, At, LockInv, TypeOK
  <1>2. CASE Delete(t)
    BY <1>2 DEF Delete, At, LockInv, TypeOK
  <1>3. CASE Extracted(t)
    BY <1>3 DEF Extracted, At, LockInv, TypeOK
  <1>4. CASE TakeCaptureLock(t)
    BY <1>4 DEF TakeCaptureLock, At, LockInv, TypeOK
  <1>5. CASE FinalizeCapture(t)
    BY <1>5 DEF FinalizeCapture, At, LockInv, TypeOK
  <1>6. CASE Step(t) /\ ~Loaded(t) /\ ~Delete(t) /\ ~Extracted(t) /\ ~TakeCaptureLock(t) /\ ~FinalizeCapture(t)
    <2>1. UNCHANGED <<loaded, captured>>
      BY <1>6 DEF Step, TakeBuildLock, FastPath, Flush, FlushFails, TakeExtractLock, Toolchain, ExtractFails, OpenCu, WriteCu,
         OpenH, WriteH, ReadH, ReadHFails, OpenDecl, WriteDecl, Prepare, TakeBaton, CompileUnit,
         CompileFails, LeaveLoad, TakeBatchLock, TakeDeleteLock, mem
    <2> QED
      BY <2>1
  <1>7. CASE ~Step(t)
    <2>1. UNCHANGED <<loaded, captured>>
      BY <1>7 DEF ThreadStep, StartCapture, BuildKernel, StartDelete, mem
    <2> QED
      BY <2>1
  <1> QED
    BY <1>1, <1>2, <1>3, <1>4, <1>5, <1>6, <1>7

\* A thread that builds on its own holds the kernel's build lock.
LEMMA BuilderHolds ==
  ASSUME LockInv, NEW t \in Thread, pc[t] \in Building, single[t]
  PROVE  lock[BuildLock(kern[t])] = t /\ kern[t] \in Kernel
  BY DEF LockInv, TypeOK, ThreadInv, Holds, HoldsBuild, Building

LEMMA OthersStayLoaded ==
  ASSUME LoadedInv, NEW t \in Thread, ThreadStep(t), NEW u \in Thread, u # t
  PROVE  LoadInv(u)'
  <1> USE ConstantsAssumption, CaptureAssumption
  <1> DEFINE p == ProcOf[u]
  <1>1. Untouched(u) /\ LockInv /\ LoadInv(u) /\ LoadInv(t) /\ p \in Proc
    BY OthersUntouched DEF LoadedInv
  <1>2. CASE p # ProcOf[t]
    <2>1. loaded'[p] = loaded[p] /\ captured'[p] = captured[p]
      BY <1>1, <1>2, LoadFrame
    <2> QED
      BY <1>1, <2>1 DEF LoadInv, Untouched
  <1>3. CASE p = ProcOf[t]
    <2>1. t \notin Capturers /\ u \notin Capturers
      BY <1>3
    <2>2. ~capturing[p]
      BY <1>1, <2>1 DEF LockInv, ThreadInv, Roles
    <2>3. pc[u] \in Building => single[u]
      BY <1>1, <2>1, <2>2 DEF LockInv, ThreadInv, Roles, LoadInv, Building
    <2>4. pc[u] \in Building => kern[u] \notin loaded'[p]
      <3> SUFFICES ASSUME pc[u] \in Building PROVE kern[u] \notin loaded'[p]
        OBVIOUS
      <3>1. kern[u] \notin loaded[p]
        BY <1>1, <2>3 DEF LoadInv, Building
      <3>2. CASE loaded'[p] \subseteq loaded[p]
        BY <3>1, <3>2
      <3>3. CASE pc[t] = "compile" /\ loaded'[p] = loaded[p] \cup ext[t]
        <4>1. single[t] /\ ext[t] = {kern[t]}
          BY <1>1, <2>1, <3>3 DEF LoadInv, Loading
        <4>2. pc[t] \in Building
          BY <3>3 DEF Building, Loading
        <4>3. kern[t] # kern[u]
          BY <1>1, <2>3, <4>1, <4>2, BuilderHolds
        <4> QED
          BY <3>1, <3>3, <4>1, <4>3
      <3> QED
        BY <1>1, <3>2, <3>3, LoadFrame
    <2>5. pc[u] # "batchLock"
      BY <1>1, <2>1 DEF LockInv, ThreadInv, Roles, LoadInv
    <2>6. pc[u] \in Loading => ext[u] = {kern[u]}
      BY <1>1, <2>3 DEF LoadInv, Building
    <2> QED
      BY <1>1, <2>2, <2>3, <2>4, <2>5, <2>6 DEF LoadInv, Untouched, Building
  <1> QED
    BY <1>2, <1>3

LEMMA StepStaysLoaded ==
  ASSUME LoadedInv, NEW t \in Thread, ThreadStep(t)
  PROVE  LoadInv(t)'
  <1> USE ConstantsAssumption, CaptureAssumption DEF LoadedInv
  <1>1. CASE TakeBuildLock(t)
    BY <1>1 DEF TakeBuildLock, Acquire, Free, Goto, At, mem, LockInv, TypeOK, ThreadInv, Roles, LoadInv, Extracting, FlushLabel, MaybeExtractLock, WithExtractLock, Loading, Deleting
  <1>2. CASE FastPath(t)
    BY <1>2 DEF FastPath, UseGenerated, Goto, At, mem, LockInv, TypeOK, ThreadInv, Roles, LoadInv, Extracting, FlushLabel, MaybeExtractLock, WithExtractLock, Loading, Deleting
  <1>3. CASE TakeExtractLock(t)
    BY <1>3 DEF TakeExtractLock, UseGenerated, Goto, At, mem, LockInv, TypeOK, ThreadInv, Roles, LoadInv, Extracting, FlushLabel, MaybeExtractLock, WithExtractLock, Loading, Deleting
  <1>4. CASE Toolchain(t)
    BY <1>4 DEF Toolchain, Goto, At, mem, LockInv, TypeOK, ThreadInv, Roles, LoadInv, Extracting, FlushLabel, MaybeExtractLock, WithExtractLock, Loading, Deleting
  <1>5. CASE ExtractFails(t)
    BY <1>5 DEF ExtractFails, Raise, Goto, At, LockInv, TypeOK, ThreadInv, Roles, LoadInv, Extracting, FlushLabel, MaybeExtractLock, WithExtractLock, Loading, Deleting
  <1>6. CASE OpenCu(t)
    BY <1>6 DEF OpenCu, Goto, At, mem, LockInv, TypeOK, ThreadInv, Roles, LoadInv, Extracting, FlushLabel, MaybeExtractLock, WithExtractLock, Loading, Deleting
  <1>7. CASE WriteCu(t)
    BY <1>7 DEF WriteCu, Goto, At, mem, LockInv, TypeOK, ThreadInv, Roles, LoadInv, Extracting, FlushLabel, MaybeExtractLock, WithExtractLock, Loading, Deleting
  <1>8. CASE OpenH(t)
    BY <1>8 DEF OpenH, Goto, At, mem, LockInv, TypeOK, ThreadInv, Roles, LoadInv, Extracting, FlushLabel, MaybeExtractLock, WithExtractLock, Loading, Deleting
  <1>9. CASE WriteH(t)
    BY <1>9 DEF WriteH, Goto, At, mem, LockInv, TypeOK, ThreadInv, Roles, LoadInv, Extracting, FlushLabel, MaybeExtractLock, WithExtractLock, Loading, Deleting
  <1>10. CASE ReadH(t)
    BY <1>10 DEF ReadH, Goto, At, mem, LockInv, TypeOK, ThreadInv, Roles, LoadInv, Extracting, FlushLabel, MaybeExtractLock, WithExtractLock, Loading, Deleting
  <1>11. CASE ReadHFails(t)
    BY <1>11 DEF ReadHFails, Raise, Goto, At, LockInv, TypeOK, ThreadInv, Roles, LoadInv, Extracting, FlushLabel, MaybeExtractLock, WithExtractLock, Loading, Deleting
  <1>12. CASE OpenDecl(t)
    BY <1>12 DEF OpenDecl, Goto, At, mem, LockInv, TypeOK, ThreadInv, Roles, LoadInv, Extracting, FlushLabel, MaybeExtractLock, WithExtractLock, Loading, Deleting
  <1>13. CASE WriteDecl(t)
    BY <1>13 DEF WriteDecl, Goto, At, mem, LockInv, TypeOK, ThreadInv, Roles, LoadInv, Extracting, FlushLabel, MaybeExtractLock, WithExtractLock, Loading, Deleting
  <1>14. CASE Extracted(t)
    BY <1>14 DEF Extracted, Goto, At, LockInv, TypeOK, ThreadInv, Roles, LoadInv, Extracting, FlushLabel, MaybeExtractLock, WithExtractLock, Loading, Deleting
  <1>15. CASE Prepare(t)
    BY <1>15 DEF Prepare, Goto, At, mem, LockInv, TypeOK, ThreadInv, Roles, LoadInv, Extracting, FlushLabel, MaybeExtractLock, WithExtractLock, Loading, Deleting
  <1>16. CASE TakeBaton(t)
    BY <1>16 DEF TakeBaton, Goto, At, mem, LockInv, TypeOK, ThreadInv, Roles, LoadInv, Extracting, FlushLabel, MaybeExtractLock, WithExtractLock, Loading, Deleting
  <1>17. CASE CompileUnit(t)
    BY <1>17 DEF CompileUnit, At, mem, LockInv, TypeOK, ThreadInv, Roles, LoadInv, Extracting, FlushLabel, MaybeExtractLock, WithExtractLock, Loading, Deleting
  <1>18. CASE CompileFails(t)
    BY <1>18 DEF CompileFails, LeaveLoad, Goto, At, LockInv, TypeOK, ThreadInv, Roles, LoadInv, Extracting, FlushLabel, MaybeExtractLock, WithExtractLock, Loading, Deleting
  <1>19. CASE Loaded(t)
    BY <1>19 DEF Loaded, LeaveLoad, Goto, At, LockInv, TypeOK, ThreadInv, Roles, LoadInv, Extracting, FlushLabel, MaybeExtractLock, WithExtractLock, Loading, Deleting
  <1>20. CASE TakeCaptureLock(t)
    BY <1>20 DEF TakeCaptureLock, Goto, At, LockInv, TypeOK, ThreadInv, Roles, LoadInv, Extracting, FlushLabel, MaybeExtractLock, WithExtractLock, Loading, Deleting
  <1>21. CASE FinalizeCapture(t)
    BY <1>21 DEF FinalizeCapture, Goto, At, LockInv, TypeOK, ThreadInv, Roles, LoadInv, Extracting, FlushLabel, MaybeExtractLock, WithExtractLock, Loading, Deleting
  <1>22. CASE TakeBatchLock(t)
    BY <1>22 DEF TakeBatchLock, Goto, At, mem, LockInv, TypeOK, ThreadInv, Roles, LoadInv, Extracting, FlushLabel, MaybeExtractLock, WithExtractLock, Loading, Deleting
  <1>23. CASE TakeDeleteLock(t)
    BY <1>23 DEF TakeDeleteLock, Goto, At, mem, LockInv, TypeOK, ThreadInv, Roles, LoadInv, Extracting, FlushLabel, MaybeExtractLock, WithExtractLock, Loading, Deleting
  <1>24. CASE Delete(t)
    BY <1>24 DEF Delete, Goto, At, LockInv, TypeOK, ThreadInv, Roles, LoadInv, Extracting, FlushLabel, MaybeExtractLock, WithExtractLock, Loading, Deleting
  <1>25. CASE StartCapture(t)
    BY <1>25 DEF StartCapture, Call, Goto, At, mem, LockInv, TypeOK, ThreadInv, Roles, LoadInv, Extracting, FlushLabel, MaybeExtractLock, WithExtractLock, Loading
  <1>26. CASE \E k \in Kernel : BuildKernel(t, k)
    BY <1>26 DEF BuildKernel, Call, Goto, At, mem, LockInv, TypeOK, ThreadInv, Roles, LoadInv, Extracting, FlushLabel, MaybeExtractLock, WithExtractLock, Loading
  <1>27. CASE \E k \in Kernel : StartDelete(t, k)
    BY <1>27 DEF StartDelete, Call, Goto, At, mem, LockInv, TypeOK, ThreadInv, Roles, LoadInv, Extracting, FlushLabel, MaybeExtractLock, WithExtractLock, Loading
  <1>28. CASE Flush(t)
    BY <1>28 DEF Flush, Goto, At, mem, LockInv, TypeOK, ThreadInv, Roles, LoadInv, Extracting, FlushLabel, MaybeExtractLock, WithExtractLock, Loading, Deleting
  <1>29. CASE FlushFails(t)
    BY <1>29 DEF FlushFails, Raise, Goto, At, LockInv, TypeOK, ThreadInv, Roles, LoadInv, Extracting, FlushLabel, MaybeExtractLock, WithExtractLock, Loading, Deleting
  <1> QED
    BY <1>1, <1>2, <1>3, <1>4, <1>5, <1>6, <1>7, <1>8, <1>9, <1>10, <1>11, <1>12, <1>13, <1>14, <1>15, <1>16, <1>17, <1>18, <1>19, <1>20, <1>21, <1>22, <1>23, <1>24, <1>25, <1>26, <1>27, <1>28, <1>29 DEF Step, ThreadStep

LEMMA LoadedInvInit == Kernel # {} /\ Init => LoadedInv
  BY LockInvInit, ConstantsAssumption DEF Init, LoadedInv, LoadInv, Extracting, FlushLabel, MaybeExtractLock, WithExtractLock, Loading

LEMMA LoadedInvStep == LoadedInv /\ [Next]_vars => LoadedInv'
  <1> SUFFICES ASSUME LoadedInv, [Next]_vars PROVE LoadedInv'
    OBVIOUS
  <1>1. LockInv'
    BY LockInvStep DEF LoadedInv
  <1>2. ASSUME NEW t \in Thread, ThreadStep(t), NEW u \in Thread PROVE LoadInv(u)'
    BY <1>2, OthersStayLoaded, StepStaysLoaded
  <1>3. ASSUME NEW p \in Proc, Crash(p), NEW u \in Thread PROVE LoadInv(u)'
    BY <1>3, ConstantsAssumption DEF Crash, LoadedInv, LoadInv, LockInv, TypeOK, Extracting, FlushLabel, MaybeExtractLock, WithExtractLock, Loading
  <1>4. ASSUME UNCHANGED vars, NEW u \in Thread PROVE LoadInv(u)'
    BY <1>4 DEF vars, local, mem, LoadedInv, LoadInv
  <1> QED
    BY <1>1, <1>2, <1>3, <1>4 DEF Next, ThreadStep, LoadedInv

LEMMA LoadedInvariant == Kernel # {} /\ Spec => []LoadedInv
  BY LoadedInvInit, LoadedInvStep, PTL DEF Spec

\* No process loads an extension for a kernel it has loaded: the second
\* lookup, made under the build lock, cannot go stale before the load.
THEOREM NothingLoadedTwice == Kernel # {} /\ Spec => []NoSecondLoad
  <1>1. LoadedInv => NoSecondLoad
    BY DEF LoadedInv, LoadInv, Loading, NoSecondLoad
  <1> QED
    BY <1>1, LoadedInvariant, PTL

-----------------------------------------------------------------------------
(* Sources are complete *)

\* The processes only build and delete, and none is killed.
Undisturbed == Capturers = {} /\ MaxCrashes = 0

Ready == {"extracted", "prepare"} \cup Loading
HWritten == {"readH", "openDecl", "writeDecl"} \cup Ready
CuWritten == {"openH", "writeH"} \cup HWritten

\* What is on disk when a builder has come so far.
FilesInv(t) ==
  /\ pc[t] \in CuWritten => cu[kern[t]] = "full"
  /\ pc[t] \in HWritten => h[kern[t]] = "full"
  /\ pc[t] \in {"openDecl", "writeDecl"} => hread[t] = "full"
  /\ pc[t] \in Ready => decl[kern[t]] = "full"
  /\ pc[t] = "compile" => todo[t] \subseteq ext[t] \X {"wrapper", "device"}
  /\ pc[t] = "writeCu" => cu[kern[t]] = "torn"
  /\ pc[t] = "writeH" => h[kern[t]] = "torn"
  /\ pc[t] = "writeDecl" => decl[kern[t]] = "torn"
  /\ pc[t] = "flushCu" => cu[kern[t]] # "absent"
  /\ pc[t] \in {"flushCu", "flushH"} => h[kern[t]] # "absent"
  /\ pc[t] = "removeDecl" => decl[kern[t]] # "absent"

\* A file is torn only while somebody writes it.
TornInv(k) ==
  /\ cu[k] = "torn" => \E t \in Thread : pc[t] = "writeCu" /\ kern[t] = k
  /\ h[k] = "torn" => \E t \in Thread : pc[t] = "writeH" /\ kern[t] = k
  /\ decl[k] = "torn" => \E t \in Thread : pc[t] = "writeDecl" /\ kern[t] = k

SourcesInv ==
  /\ LoadedInv
  /\ \A t \in Thread : FilesInv(t)
  /\ \A k \in Kernel : TornInv(k)
  /\ OnlyRejectedFail

\* Without captures every builder is single, and a builder or a deleter that
\* is about to delete is the only one at its kernel.
Owning == Building \cup {"delete"}

LEMMA OwnersExclude ==
  ASSUME LoadedInv, Undisturbed, NEW t \in Thread, pc[t] \in Owning,
         NEW u \in Thread, pc[u] \in Owning, kern[u] = kern[t]
  PROVE  u = t
  <1>1. ASSUME NEW v \in Thread, pc[v] \in Owning PROVE lock[BuildLock(kern[v])] = v
    <2>1. ~capturing[ProcOf[v]] /\ (pc[v] \in Building => single[v])
      BY DEF LoadedInv, LockInv, ThreadInv, Roles, LoadInv, Undisturbed, Building
    <2> QED
      BY <1>1, <2>1, BuilderHolds DEF Owning, LoadedInv, LockInv, ThreadInv, Holds, HoldsBuild
  <1> QED
    BY <1>1

LEMMA BuildersSingle ==
  ASSUME LoadedInv, Undisturbed, NEW t \in Thread, pc[t] \in Building
  PROVE  single[t] /\ kern[t] \in Kernel /\ (pc[t] \in Loading => ext[t] = {kern[t]})
  BY DEF LoadedInv, LockInv, TypeOK, ThreadInv, Roles, LoadInv, Undisturbed, Building

\* Only owners touch the sources, and only those of their kernel.
LEMMA DiskFrame ==
  ASSUME LockInv, NEW t \in Thread, ThreadStep(t)
  PROVE  /\ \A k \in Kernel \ {kern[t]} : cu'[k] = cu[k] /\ h'[k] = h[k] /\ decl'[k] = decl[k]
         /\ pc[t] \in Owning \/ UNCHANGED <<cu, h, decl>>
  <1> USE DEF LockInv, TypeOK, At, Owning, Building, Extracting, FlushLabel, MaybeExtractLock, WithExtractLock
  <1>1. CASE Flush(t)
    BY <1>1 DEF Flush
  <1>2. CASE OpenCu(t)
    BY <1>2 DEF OpenCu, disk
  <1>3. CASE WriteCu(t)
    BY <1>3 DEF WriteCu, disk
  <1>4. CASE OpenH(t)
    BY <1>4 DEF OpenH, disk
  <1>5. CASE WriteH(t)
    BY <1>5 DEF WriteH, disk
  <1>6. CASE OpenDecl(t)
    BY <1>6 DEF OpenDecl, disk
  <1>7. CASE WriteDecl(t)
    BY <1>7 DEF WriteDecl, disk
  <1>8. CASE Delete(t)
    BY <1>8 DEF Delete, disk
  <1>9. CASE Step(t) /\ ~Flush(t) /\ ~OpenCu(t) /\ ~WriteCu(t) /\ ~OpenH(t) /\ ~WriteH(t) /\ ~OpenDecl(t) /\ ~WriteDecl(t) /\ ~Delete(t)
    <2>1. UNCHANGED <<cu, h, decl>>
      BY <1>9 DEF Step, TakeBuildLock, FastPath, FlushFails, TakeExtractLock, Toolchain, ExtractFails, ReadH, ReadHFails, Extracted, Prepare, TakeBaton, CompileUnit, CompileFails, Loaded, TakeCaptureLock, FinalizeCapture, TakeBatchLock, TakeDeleteLock, LeaveLoad, disk
    <2> QED
      BY <2>1
  <1>10. CASE ~Step(t)
    <2>1. UNCHANGED <<cu, h, decl>>
      BY <1>10 DEF ThreadStep, StartCapture, BuildKernel, StartDelete, disk
    <2> QED
      BY <2>1
  <1> QED
    BY <1>1, <1>2, <1>3, <1>4, <1>5, <1>6, <1>7, <1>8, <1>9, <1>10

\* What t reads it owns, so nobody is in the middle of writing it.
LEMMA OwnSourcesWhole ==
  ASSUME SourcesInv, Undisturbed, NEW t \in Thread, pc[t] \in Building
  PROVE  /\ pc[t] # "writeCu" => cu[kern[t]] # "torn"
         /\ pc[t] # "writeH" => h[kern[t]] # "torn"
         /\ pc[t] # "writeDecl" => decl[kern[t]] # "torn"
  <1>1. LoadedInv /\ kern[t] \in Kernel /\ TornInv(kern[t]) /\ pc[t] \in Owning
    BY DEF SourcesInv, LoadedInv, LockInv, TypeOK, Owning
  <1>2. ASSUME NEW u \in Thread, pc[u] \in {"writeCu", "writeH", "writeDecl"}, kern[u] = kern[t]
        PROVE  u = t
    <2>1. pc[u] \in Owning
      BY <1>2 DEF Owning, Building, Extracting, FlushLabel, MaybeExtractLock, WithExtractLock
    <2> QED
      BY <1>1, <1>2, <2>1, OwnersExclude
  <1> QED
    BY <1>1, <1>2 DEF TornInv

LEMMA OthersKeepFiles ==
  ASSUME SourcesInv, Undisturbed, NEW t \in Thread, ThreadStep(t), NEW u \in Thread, u # t
  PROVE  FilesInv(u)'
  <1>1. LoadedInv /\ LockInv /\ Untouched(u) /\ FilesInv(u) /\ kern[u] \in Kernel
    BY OthersUntouched DEF SourcesInv, LoadedInv, LockInv, TypeOK
  <1>2. hread'[u] = hread[u] /\ todo'[u] = todo[u]
    BY <1>1 DEF LockInv, TypeOK, ThreadStep, StartCapture, BuildKernel, StartDelete, Step,
      TakeBuildLock, FastPath, Flush, FlushFails, TakeExtractLock, Toolchain, ExtractFails, OpenCu, WriteCu, OpenH, WriteH, ReadH, ReadHFails, OpenDecl, WriteDecl, Extracted, Prepare, TakeBaton, CompileUnit, CompileFails, Loaded, TakeCaptureLock, FinalizeCapture, TakeBatchLock, TakeDeleteLock, Delete, LeaveLoad
  <1>3. CASE pc[u] \in Building
    <2>1. pc[u] \in Owning
      BY <1>3 DEF Owning
    <2>2. pc[t] \in Owning => kern[t] # kern[u]
      BY <1>1, <2>1, OwnersExclude
    <2>3. cu'[kern[u]] = cu[kern[u]] /\ h'[kern[u]] = h[kern[u]] /\ decl'[kern[u]] = decl[kern[u]]
      BY <1>1, <2>2, DiskFrame
    <2> QED
      BY <1>1, <1>2, <2>3 DEF FilesInv, Untouched
  <1>4. CASE pc[u] \notin Building
    BY <1>1, <1>4 DEF FilesInv, Untouched, CuWritten, HWritten, Ready, Loading, Building, Extracting, FlushLabel, MaybeExtractLock, WithExtractLock
  <1> QED
    BY <1>3, <1>4

LEMMA StepKeepsFiles ==
  ASSUME SourcesInv, Undisturbed, NEW t \in Thread, ThreadStep(t)
  PROVE  FilesInv(t)'
  <1>0. /\ LockInv /\ TypeOK /\ FilesInv(t) /\ kern[t] \in Kernel
        /\ cu[kern[t]] \in Content /\ h[kern[t]] \in Content /\ decl[kern[t]] \in Content
    BY DEF SourcesInv, LoadedInv, LockInv, TypeOK
  <1> USE DEF FilesInv, CuWritten, HWritten, Ready, Loading, TypeOK, At, Goto
  <1>1. CASE TakeBuildLock(t)
    BY <1>0, <1>1 DEF TakeBuildLock, disk
  <1>2. CASE FastPath(t)
    <2>1. /\ cu[kern[t]] # "torn" /\ h[kern[t]] # "torn" /\ decl[kern[t]] # "torn"
      BY <1>0, <1>2, OwnSourcesWhole DEF FastPath, Building, Extracting, FlushLabel
    <2> QED
      BY <1>0, <1>2, <2>1 DEF FastPath, UseGenerated, Generated, Content, disk
  <1>3. CASE TakeExtractLock(t)
    <2>1. /\ cu[kern[t]] # "torn" /\ h[kern[t]] # "torn" /\ decl[kern[t]] # "torn"
      BY <1>0, <1>3, OwnSourcesWhole DEF TakeExtractLock, Building, Extracting, FlushLabel
    <2> QED
      BY <1>0, <1>3, <2>1 DEF TakeExtractLock, UseGenerated, Generated, Content, disk
  <1>4. CASE Toolchain(t)
    BY <1>0, <1>4 DEF Toolchain, disk
  <1>5. CASE ExtractFails(t)
    BY <1>0, <1>5 DEF ExtractFails, Raise, disk
  <1>6. CASE OpenCu(t)
    BY <1>0, <1>6 DEF OpenCu, disk
  <1>7. CASE WriteCu(t)
    BY <1>0, <1>7 DEF WriteCu, Written, disk
  <1>8. CASE OpenH(t)
    BY <1>0, <1>8 DEF OpenH, disk
  <1>9. CASE WriteH(t)
    BY <1>0, <1>9 DEF WriteH, Written, disk
  <1>10. CASE ReadH(t)
    BY <1>0, <1>10 DEF ReadH, disk
  <1>11. CASE ReadHFails(t)
    BY <1>0, <1>11 DEF ReadHFails, Raise, disk
  <1>12. CASE OpenDecl(t)
    BY <1>0, <1>12 DEF OpenDecl, disk
  <1>13. CASE WriteDecl(t)
    BY <1>0, <1>13 DEF WriteDecl, Written, disk
  <1>14. CASE Extracted(t)
    BY <1>0, <1>14 DEF Extracted, disk
  <1>15. CASE Prepare(t)
    BY <1>0, <1>15 DEF Prepare, disk
  <1>16. CASE TakeBaton(t)
    BY <1>0, <1>16 DEF TakeBaton, disk
  <1>17. CASE CompileUnit(t)
    BY <1>0, <1>17 DEF CompileUnit, disk
  <1>18. CASE CompileFails(t)
    BY <1>0, <1>18 DEF CompileFails, LeaveLoad, disk
  <1>19. CASE Loaded(t)
    BY <1>0, <1>19 DEF Loaded, LeaveLoad, disk
  <1>20. CASE TakeCaptureLock(t)
    BY <1>0, <1>20 DEF TakeCaptureLock, disk
  <1>21. CASE FinalizeCapture(t)
    BY <1>0, <1>21 DEF FinalizeCapture, disk
  <1>22. CASE TakeBatchLock(t)
    <2>1. pc[t] # "batchLock"
      BY DEF SourcesInv, LoadedInv, LockInv, ThreadInv, Roles, LoadInv, Undisturbed
    <2> QED
      BY <1>22, <2>1 DEF TakeBatchLock
  <1>23. CASE TakeDeleteLock(t)
    BY <1>0, <1>23 DEF TakeDeleteLock, disk
  <1>24. CASE Delete(t)
    BY <1>0, <1>24 DEF Delete, disk
  <1>25. CASE ~Step(t)
    BY <1>0, <1>25 DEF ThreadStep, StartCapture, BuildKernel, StartDelete, Call, disk
  <1>26. CASE Flush(t)
    BY <1>0, <1>26 DEF Flush, disk
  <1>27. CASE FlushFails(t)
    BY <1>0, <1>27 DEF FlushFails, Raise, disk
  <1> QED
    BY <1>1, <1>2, <1>3, <1>4, <1>5, <1>6, <1>7, <1>8, <1>9, <1>10, <1>11, <1>12, <1>13, <1>14, <1>15, <1>16, <1>17, <1>18, <1>19, <1>20, <1>21, <1>22, <1>23, <1>24, <1>25, <1>26, <1>27 DEF Step

LEMMA TornStep ==
  ASSUME SourcesInv, Undisturbed, NEW t \in Thread, ThreadStep(t), NEW k \in Kernel
  PROVE  TornInv(k)'
  <1>0. LockInv /\ TypeOK /\ TornInv(k) /\ FilesInv(t) /\ kern[t] \in Kernel
    BY DEF SourcesInv, LoadedInv, LockInv, TypeOK
  \* A writer other than t is where it was.
  <1>1. ASSUME NEW u \in Thread, u # t PROVE pc'[u] = pc[u] /\ kern'[u] = kern[u]
    BY <1>0, <1>1, OthersUntouched DEF Untouched
  \* t ends a write only by making the file whole.
  <1>2. ASSUME pc[t] \in {"writeCu", "writeH", "writeDecl"}
        PROVE  /\ pc[t] = "writeCu" => WriteCu(t)
               /\ pc[t] = "writeH" => WriteH(t)
               /\ pc[t] = "writeDecl" => WriteDecl(t)
    BY <1>2 DEF ThreadStep, StartCapture, BuildKernel, StartDelete, Call, Step, At,
      TakeBuildLock, FastPath, Flush, FlushFails, TakeExtractLock, Toolchain, ExtractFails, OpenCu, WriteCu, Written, OpenH,
          WriteH, ReadH, ReadHFails, OpenDecl, WriteDecl, Extracted, Prepare, TakeBaton, CompileUnit,
          CompileFails, Loaded, TakeCaptureLock, FinalizeCapture, TakeBatchLock, TakeDeleteLock, Delete
  <1>3. (cu[k] = "torn" => \E u \in Thread : pc[u] = "writeCu" /\ kern[u] = k)'
    <2> SUFFICES ASSUME cu'[k] = "torn" PROVE \E u \in Thread : pc'[u] = "writeCu" /\ kern'[u] = k
      OBVIOUS
    <2>1. CASE OpenCu(t) /\ kern[t] = k
      BY <1>0, <2>1 DEF OpenCu, Goto, TypeOK
    <2>2. CASE ~(OpenCu(t) /\ kern[t] = k)
      <3>1. cu[k] = "torn" /\ ~(WriteCu(t) /\ kern[t] = k)
        BY <1>0, <2>2 DEF TypeOK, ThreadStep, StartCapture, BuildKernel, StartDelete, Step, disk, LeaveLoad,
          TakeBuildLock, FastPath, Flush, FlushFails, TakeExtractLock, Toolchain, ExtractFails, OpenCu, WriteCu, Written, OpenH,
          WriteH, ReadH, ReadHFails, OpenDecl, WriteDecl, Extracted, Prepare, TakeBaton, CompileUnit,
          CompileFails, Loaded, TakeCaptureLock, FinalizeCapture, TakeBatchLock, TakeDeleteLock, Delete
      <3>2. PICK u \in Thread : pc[u] = "writeCu" /\ kern[u] = k
        BY <1>0, <3>1 DEF TornInv
      <3> QED
        BY <1>1, <1>2, <3>1, <3>2
    <2> QED
      BY <2>1, <2>2
  <1>4. (h[k] = "torn" => \E u \in Thread : pc[u] = "writeH" /\ kern[u] = k)'
    <2> SUFFICES ASSUME h'[k] = "torn" PROVE \E u \in Thread : pc'[u] = "writeH" /\ kern'[u] = k
      OBVIOUS
    <2>1. CASE OpenH(t) /\ kern[t] = k
      BY <1>0, <2>1 DEF OpenH, Goto, TypeOK
    <2>2. CASE ~(OpenH(t) /\ kern[t] = k)
      <3>1. h[k] = "torn" /\ ~(WriteH(t) /\ kern[t] = k)
        BY <1>0, <2>2 DEF TypeOK, ThreadStep, StartCapture, BuildKernel, StartDelete, Step, disk, LeaveLoad,
          TakeBuildLock, FastPath, Flush, FlushFails, TakeExtractLock, Toolchain, ExtractFails, OpenCu, WriteCu, Written, OpenH,
          WriteH, ReadH, ReadHFails, OpenDecl, WriteDecl, Extracted, Prepare, TakeBaton, CompileUnit,
          CompileFails, Loaded, TakeCaptureLock, FinalizeCapture, TakeBatchLock, TakeDeleteLock, Delete
      <3>2. PICK u \in Thread : pc[u] = "writeH" /\ kern[u] = k
        BY <1>0, <3>1 DEF TornInv
      <3> QED
        BY <1>1, <1>2, <3>1, <3>2
    <2> QED
      BY <2>1, <2>2
  <1>5. (decl[k] = "torn" => \E u \in Thread : pc[u] = "writeDecl" /\ kern[u] = k)'
    <2> SUFFICES ASSUME decl'[k] = "torn" PROVE \E u \in Thread : pc'[u] = "writeDecl" /\ kern'[u] = k
      OBVIOUS
    <2>0. pc[t] = "writeDecl" => hread[t] = "full"
      BY <1>0 DEF FilesInv
    <2>1. CASE OpenDecl(t) /\ kern[t] = k
      BY <1>0, <2>1 DEF OpenDecl, Goto, TypeOK
    <2>2. CASE ~(OpenDecl(t) /\ kern[t] = k)
      <3>1. decl[k] = "torn" /\ ~(WriteDecl(t) /\ kern[t] = k)
        BY <1>0, <2>0, <2>2 DEF TypeOK, ThreadStep, StartCapture, BuildKernel, StartDelete, Step, disk, LeaveLoad, At,
          TakeBuildLock, FastPath, Flush, FlushFails, TakeExtractLock, Toolchain, ExtractFails, OpenCu, WriteCu, Written, OpenH,
          WriteH, ReadH, ReadHFails, OpenDecl, WriteDecl, Extracted, Prepare, TakeBaton, CompileUnit,
          CompileFails, Loaded, TakeCaptureLock, FinalizeCapture, TakeBatchLock, TakeDeleteLock, Delete
      <3>2. PICK u \in Thread : pc[u] = "writeDecl" /\ kern[u] = k
        BY <1>0, <3>1 DEF TornInv
      <3> QED
        BY <1>1, <1>2, <3>1, <3>2
    <2> QED
      BY <2>1, <2>2
  <1> QED
    BY <1>3, <1>4, <1>5 DEF TornInv

\* A failure that is recorded is one of the toolchain's.
LEMMA FailedStep ==
  ASSUME SourcesInv, Undisturbed, NEW t \in Thread, ThreadStep(t)
  PROVE  OnlyRejectedFail'
  <1>0. LockInv /\ TypeOK /\ LoadedInv /\ FilesInv(t) /\ OnlyRejectedFail /\ kern[t] \in Kernel /\ ProcOf[t] \in Proc
    BY ConstantsAssumption DEF SourcesInv, LoadedInv, LockInv, TypeOK
  <1>1. ASSUME ExtractFails(t) PROVE kern[t] \in Rejected
    BY <1>1 DEF ExtractFails
  <1>2. ASSUME ReadHFails(t) PROVE FALSE
    BY <1>0, <1>2 DEF ReadHFails, At, FilesInv, HWritten
  <1>5. ASSUME FlushFails(t) PROVE FALSE
    BY <1>0, <1>5 DEF FlushFails, At, FilesInv
  <1>3. ASSUME CompileFails(t) PROVE kern[t] \in Rejected
    <2>1. pc[t] = "compile" /\ ext[t] = {kern[t]} /\ todo[t] \subseteq ext[t] \X {"wrapper", "device"}
      BY <1>0, <1>3, BuildersSingle DEF CompileFails, At, FilesInv, Building, Loading
    <2>2. /\ cu[kern[t]] = "full" /\ h[kern[t]] = "full" /\ decl[kern[t]] = "full"
      BY <1>0, <2>1 DEF FilesInv, CuWritten, HWritten, Ready, Loading
    <2>3. PICK unit \in todo[t] : ~Readable(unit[1], unit[2])
      BY <1>3 DEF CompileFails
    <2>4. unit[1] = kern[t] /\ unit[2] \in {"wrapper", "device"}
      BY <2>1, <2>3
    <2> QED
      BY <2>2, <2>3, <2>4 DEF Readable
  <1>4. \/ failed' = failed
        \/ failed' = [failed EXCEPT ![ProcOf[t]] = @ \ {kern[t]}]
        \/ failed' = [failed EXCEPT ![ProcOf[t]] = @ \cup {kern[t]}] /\ kern[t] \in Rejected
    <2>1. CASE ExtractFails(t) \/ ReadHFails(t) \/ FlushFails(t)
      BY <1>1, <1>2, <1>5, <2>1 DEF ExtractFails, Raise
    <2>2. CASE CompileFails(t)
      BY <1>3, <2>2 DEF CompileFails
    <2>3. CASE Delete(t)
      BY <2>3 DEF Delete
    <2>4. CASE ~ExtractFails(t) /\ ~ReadHFails(t) /\ ~FlushFails(t) /\ ~CompileFails(t) /\ ~Delete(t)
      BY <2>4 DEF ThreadStep, StartCapture, BuildKernel, StartDelete, Step, mem, LeaveLoad,
        TakeBuildLock, FastPath, Flush, TakeExtractLock, Toolchain, OpenCu, WriteCu, OpenH, WriteH, ReadH,
        OpenDecl, WriteDecl, Extracted, Prepare, TakeBaton, CompileUnit, Loaded, TakeCaptureLock,
        FinalizeCapture, TakeBatchLock, TakeDeleteLock
    <2> QED
      BY <2>1, <2>2, <2>3, <2>4
  <1> QED
    BY <1>0, <1>4 DEF OnlyRejectedFail, TypeOK

LEMMA SourcesInit == Kernel # {} /\ Init => SourcesInv
  BY LoadedInvInit, ConstantsAssumption
  DEF Init, SourcesInv, FilesInv, TornInv, OnlyRejectedFail, CuWritten, HWritten, Ready, Loading

LEMMA SourcesStep == Undisturbed /\ SourcesInv /\ [Next]_vars => SourcesInv'
  <1> SUFFICES ASSUME Undisturbed, SourcesInv, [Next]_vars PROVE SourcesInv'
    OBVIOUS
  <1>1. LoadedInv'
    BY LoadedInvStep DEF SourcesInv
  <1>2. ASSUME NEW t \in Thread, ThreadStep(t) PROVE SourcesInv'
    BY <1>1, <1>2, OthersKeepFiles, StepKeepsFiles, TornStep, FailedStep DEF SourcesInv
  <1>3. ASSUME NEW p \in Proc, Crash(p) PROVE FALSE
    BY <1>3 DEF Crash, Undisturbed, SourcesInv, LoadedInv, LockInv, TypeOK
  <1>4. CASE UNCHANGED vars
    BY <1>1, <1>4 DEF vars, disk, mem, local, SourcesInv, FilesInv, TornInv, OnlyRejectedFail
  <1> QED
    BY <1>2, <1>3, <1>4 DEF Next, ThreadStep

LEMMA SourcesInvariant == Kernel # {} /\ Undisturbed /\ Spec => [](Undisturbed /\ SourcesInv)
  <1>1. Undisturbed => Undisturbed'
    BY DEF Undisturbed
  <1> QED
    BY <1>1, SourcesInit, SourcesStep, PTL DEF Spec

\* No torn or missing source is ever compiled, although builders, deleters
\* and flushing processes of one directory race: the lock of the kernel's
\* build is held from the extraction to the end of the compilation.
THEOREM CompilersSeeWholeSources == Kernel # {} /\ Undisturbed /\ Spec => []SourcesComplete
  <1>1. Undisturbed /\ SourcesInv => SourcesComplete
    <2> SUFFICES ASSUME Undisturbed, SourcesInv, NEW t \in Thread, pc[t] = "compile", NEW k \in ext[t]
                 PROVE  cu[k] = "full" /\ h[k] = "full" /\ decl[k] = "full"
      BY DEF SourcesComplete
    <2>1. k = kern[t]
      BY BuildersSingle DEF SourcesInv, Building, Loading
    <2> QED
      BY <2>1 DEF SourcesInv, FilesInv, CuWritten, HWritten, Ready, Loading
  <1> QED
    BY <1>1, SourcesInvariant, PTL

\* No race makes a process give up on a kernel the toolchain accepts.
THEOREM OnlyRejectedKernelsFail == Kernel # {} /\ Undisturbed /\ Spec => []OnlyRejectedFail
  <1>1. SourcesInv => OnlyRejectedFail
    BY DEF SourcesInv
  <1> QED
    BY <1>1, SourcesInvariant, PTL
=============================================================================
