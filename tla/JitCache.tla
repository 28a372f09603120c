------------------------------ MODULE JitCache ------------------------------
(***************************************************************************)
(* The on-disk kernel cache: kuipy/compile.py and the file side of         *)
(* kuipy/toolchain.py.  Threads of several processes build, batch-capture  *)
(* and delete kernel instantiations that share one .kuipy_cache directory. *)
(*                                                                         *)
(* A kernel has three generated sources, cu, h and decl, and a build       *)
(* directory with the "baton" file of torch's cpp_extension.  A file is    *)
(* absent, torn (truncated by write_text and not yet written, or a copy of *)
(* such a file) or full.  FileLocks are held by threads and released by    *)
(* the operating system when the process dies.                             *)
(***************************************************************************)
EXTENDS Naturals, FiniteSets

CONSTANTS
  Proc,         \* processes sharing the cache directory
  Thread,       \* threads that call into kuipy.compile
  ProcOf,       \* the process of each thread
  Kernel,       \* F* module names of kernel instantiations
  Rejected,     \* kernels F*, karamel, clang-format or nvcc reject
  Capturers,    \* threads that open batch captures
  Deleters,     \* threads that delete kernels (the autotuner's _cleanup)
  Flushers,     \* processes run with KUIPY_JIT_FLUSH_CACHE=1
  MaxCalls,     \* bound: calls each thread makes, per thread
  MaxCrashes,   \* bound: process deaths
  None          \* no thread

ASSUME ConstantsAssumption ==
  /\ ProcOf \in [Thread -> Proc]
  /\ Rejected \subseteq Kernel
  /\ Capturers \subseteq Thread
  /\ Deleters \subseteq Thread
  /\ Flushers \subseteq Proc
  /\ MaxCalls \in [Thread -> Nat]
  /\ MaxCrashes \in Nat
  /\ None \notin Thread

\* start_capture refuses KUIPY_AUTOTUNE, and only an autotuning process
\* deletes; batch_capture is used from a process with one kuipy thread.
ASSUME CaptureAssumption ==
  \A t \in Capturers, u \in Thread : ProcOf[u] = ProcOf[t] => u = t /\ t \notin Deleters

Content == {"absent", "torn", "full"}

\* The FileLocks, by kind and by the kernels the name is derived from.
ArtifactLock   == <<"artifact", Kernel>>
BuildLock(k)   == <<"build", {k}>>
ExtractLock(k) == <<"extract", {k}>>
BatchLock(S)   == <<"batch", S>>
Lock == {ArtifactLock} \cup {BuildLock(k) : k \in Kernel}
          \cup {ExtractLock(k) : k \in Kernel}
          \cup {BatchLock(S) : S \in SUBSET Kernel}

FlushLabel == {"flushCu", "flushH", "flushDecl", "removeDecl"}
Label == FlushLabel \cup
         {"idle", "buildLock", "extract", "extractLock", "toolchain", "openCu",
          "writeCu", "openH", "writeH", "readH", "openDecl", "writeDecl", "extracted", "prepare", "load", "compile",
          "captureLock", "finalize", "batchLock",
          "deleteArtifact", "deleteBuild", "deleteExtract", "delete"}

VARIABLES
  cu, h, decl,   \* KUIPY_JIT_CU/<ext>.cu, <ext>.h, <ext>_decl.h, per kernel
  baton,         \* build directories holding torch's "lock" file, by lock name
  lock,          \* holder of each FileLock
  loaded,        \* _loaded of each process
  failed,        \* _failed of each process
  capturing,     \* _capture is not None, per process
  captured,      \* the keys of _capture, per process
  pc,            \* where each thread is
  kern,          \* the kernel a thread builds, captures or deletes
  single,        \* the thread is in _build_kernel, not in a capture
  ext,           \* the kernels of the extension a thread is loading
  hread,         \* what _make_decl_header read from the .h
  todo,          \* translation units ninja has still to compile
  calls,         \* calls made by each thread
  crashes        \* process deaths so far

disk == <<cu, h, decl, baton>>
mem  == <<loaded, failed, capturing, captured>>
local == <<pc, kern, single, ext, hread, todo>>
vars == <<disk, lock, mem, local, calls, crashes>>

Init ==
  /\ cu = [k \in Kernel |-> "absent"]
  /\ h = [k \in Kernel |-> "absent"]
  /\ decl = [k \in Kernel |-> "absent"]
  /\ baton = {}
  /\ lock = [l \in Lock |-> None]
  /\ loaded = [p \in Proc |-> {}]
  /\ failed = [p \in Proc |-> {}]
  /\ capturing = [p \in Proc |-> FALSE]
  /\ captured = [p \in Proc |-> {}]
  /\ pc = [t \in Thread |-> "idle"]
  /\ kern = [t \in Thread |-> CHOOSE k \in Kernel : TRUE]
  /\ single = [t \in Thread |-> FALSE]
  /\ ext = [t \in Thread |-> {}]
  /\ hread = [t \in Thread |-> "absent"]
  /\ todo = [t \in Thread |-> {}]
  /\ calls = [t \in Thread |-> 0]
  /\ crashes = 0

-----------------------------------------------------------------------------
(* Locks and control *)

Goto(t, label) == pc' = [pc EXCEPT ![t] = label]
At(t, label) == pc[t] = label

Free(l) == lock[l] = None
\* Mutant: the lock records the process, not the thread that holds it.
AcquireByProcess(t, l) == Free(l) /\ lock' = [lock EXCEPT ![l] = ProcOf[t]]
Acquire(t, l) == Free(l) /\ lock' = [lock EXCEPT ![l] = t]
\* The locks in L that t holds are released, any other is left alone.
Release(t, L) ==
  lock' = [l \in Lock |-> IF l \in L /\ lock[l] = t THEN None ELSE lock[l]]

\* Guard and bookkeeping of a new call into the module.
Call(t) ==
  /\ At(t, "idle")
  /\ calls[t] < MaxCalls[t]
  /\ calls' = [calls EXCEPT ![t] = @ + 1]

\* Mutant: an exception of extract_cu leaves the build lock held.
RaiseHoldingBuildLock(t) ==
  /\ Goto(t, "idle")
  /\ Release(t, {ExtractLock(kern[t])})
  /\ failed' = [failed EXCEPT ![ProcOf[t]] = @ \cup {kern[t]}]
\* An exception leaves extract_cu or load: the FileLocks are released by the
\* finally clauses; build_kernel records the failure, _capture_kernel does not.
Raise(t) ==
  /\ Goto(t, "idle")
  /\ Release(t, {BuildLock(kern[t]), ExtractLock(kern[t])})
  /\ failed' = IF single[t]
               THEN [failed EXCEPT ![ProcOf[t]] = @ \cup {kern[t]}]
               ELSE failed

-----------------------------------------------------------------------------
(* build_kernel *)

\* The lookups before any lock: _loaded, then the capture, then _failed.
\* A hit, a deferred call or a recorded failure returns at once.
BuildKernel(t, k) ==
  LET p == ProcOf[t] IN
  /\ Call(t)
  /\ kern' = [kern EXCEPT ![t] = k]
  /\ \/ /\ \/ k \in loaded[p]
           \/ capturing[p] /\ k \in captured[p]
           \/ ~capturing[p] /\ k \in failed[p]
        /\ UNCHANGED pc
     \/ /\ k \notin loaded[p] /\ capturing[p] /\ k \notin captured[p]
        /\ Goto(t, "extract")
     \/ /\ k \notin loaded[p] /\ ~capturing[p] /\ k \notin failed[p]
        /\ Goto(t, "buildLock")
  /\ single' = [single EXCEPT ![t] = FALSE]
  /\ UNCHANGED <<disk, lock, mem, ext, hread, todo, crashes>>

\* Mutant: _loaded is not looked up again under the build lock.
TakeBuildLockNoRecheck(t) ==
  /\ At(t, "buildLock")
  /\ Goto(t, "extract")
  /\ Acquire(t, BuildLock(kern[t]))
  /\ single' = [single EXCEPT ![t] = TRUE]
  /\ UNCHANGED <<disk, mem, kern, ext, hread, todo, calls, crashes>>
\* Mutant: builders of one kernel do not exclude each other.
TakeNoBuildLock(t) ==
  /\ At(t, "buildLock")
  /\ Goto(t, "extract")
  /\ single' = [single EXCEPT ![t] = TRUE]
  /\ UNCHANGED <<disk, lock, mem, kern, ext, hread, todo, calls, crashes>>
\* The build lock is taken and _loaded looked up again; a kernel another
\* thread of the process loaded meanwhile is returned and the lock released.
TakeBuildLock(t) ==
  /\ At(t, "buildLock")
  /\ Free(BuildLock(kern[t]))
  /\ IF kern[t] \in loaded[ProcOf[t]]
     THEN Goto(t, "idle") /\ UNCHANGED <<lock, single>>
     ELSE /\ Goto(t, "extract")
          /\ Acquire(t, BuildLock(kern[t]))
          /\ single' = [single EXCEPT ![t] = TRUE]
  /\ UNCHANGED <<disk, mem, kern, ext, hread, todo, calls, crashes>>

-----------------------------------------------------------------------------
(* extract_cu *)

Generated(k) == cu[k] # "absent" /\ h[k] # "absent"
Flushing(t) == ProcOf[t] \in Flushers

\* What both existence checks do with files they accept.
UseGenerated(t) ==
  Goto(t, IF decl[kern[t]] = "absent" THEN "readH" ELSE "extracted")

\* The check made before the extract lock: reuse, flush, or go and extract.
FastPath(t) ==
  LET k == kern[t] IN
  /\ At(t, "extract")
  /\ \/ Generated(k) /\ ~Flushing(t) /\ UseGenerated(t)
     \/ Generated(k) /\ Flushing(t) /\ Goto(t, "flushCu")
     \/ ~Generated(k) /\ Goto(t, "extractLock")
  /\ UNCHANGED <<disk, lock, mem, kern, single, ext, hread, todo, calls, crashes>>

\* os.remove of the .cu, of the .h, and of the declarations if they exist.
Flush(t) ==
  LET k == kern[t] IN
  /\ \/ /\ At(t, "flushCu") /\ cu[k] # "absent"
        /\ cu' = [cu EXCEPT ![k] = "absent"]
        /\ Goto(t, "flushH")
        /\ UNCHANGED <<h, decl>>
     \/ /\ At(t, "flushH") /\ h[k] # "absent"
        /\ h' = [h EXCEPT ![k] = "absent"]
        /\ Goto(t, "flushDecl")
        /\ UNCHANGED <<cu, decl>>
     \/ /\ At(t, "flushDecl")
        /\ Goto(t, IF decl[k] = "absent" THEN "extractLock" ELSE "removeDecl")
        /\ UNCHANGED <<cu, h, decl>>
     \/ /\ At(t, "removeDecl") /\ decl[k] # "absent"
        /\ decl' = [decl EXCEPT ![k] = "absent"]
        /\ Goto(t, "extractLock")
        /\ UNCHANGED <<cu, h>>
  /\ UNCHANGED <<baton, lock, mem, kern, single, ext, hread, todo, calls, crashes>>

\* FileNotFoundError: another flush of the kernel was faster.
FlushFails(t) ==
  /\ \/ At(t, "flushCu") /\ cu[kern[t]] = "absent"
     \/ At(t, "flushH") /\ h[kern[t]] = "absent"
     \/ At(t, "removeDecl") /\ decl[kern[t]] = "absent"
  /\ Raise(t)
  /\ UNCHANGED <<disk, loaded, capturing, captured, kern, single, ext, hread, todo, calls, crashes>>

\* The same check again under the extract lock.
TakeExtractLock(t) ==
  LET k == kern[t] IN
  /\ At(t, "extractLock")
  /\ Acquire(t, ExtractLock(k))
  /\ IF Generated(k) /\ ~Flushing(t) THEN UseGenerated(t) ELSE Goto(t, "toolchain")
  /\ UNCHANGED <<disk, mem, kern, single, ext, hread, todo, calls, crashes>>

\* fstar-check, fstar-extract and karamel write private intermediate files.
Toolchain(t) ==
  /\ At(t, "toolchain")
  /\ Goto(t, "openCu")
  /\ UNCHANGED <<disk, lock, mem, kern, single, ext, hread, todo, calls, crashes>>

\* The toolchain, or one of the two _fixup passes, fails and raises.
ExtractFails(t) ==
  /\ pc[t] \in {"toolchain", "openCu", "openH"}
  /\ kern[t] \in Rejected
  /\ Raise(t)
  /\ UNCHANGED <<disk, loaded, capturing, captured, kern, single, ext, hread, todo, calls, crashes>>

\* What is written to an open file that was unlinked meanwhile is lost.
Written(content, old) == IF old = "absent" THEN "absent" ELSE content

\* dst.write_text in _fixup: the open truncates, the write completes.
OpenCu(t) ==
  /\ At(t, "openCu")
  /\ cu' = [cu EXCEPT ![kern[t]] = "torn"]
  /\ Goto(t, "writeCu")
  /\ UNCHANGED <<h, decl, baton, lock, mem, kern, single, ext, hread, todo, calls, crashes>>

WriteCu(t) ==
  /\ At(t, "writeCu")
  /\ cu' = [cu EXCEPT ![kern[t]] = Written("full", @)]
  /\ Goto(t, "openH")
  /\ UNCHANGED <<h, decl, baton, lock, mem, kern, single, ext, hread, todo, calls, crashes>>

OpenH(t) ==
  /\ At(t, "openH")
  /\ h' = [h EXCEPT ![kern[t]] = "torn"]
  /\ Goto(t, "writeH")
  /\ UNCHANGED <<cu, decl, baton, lock, mem, kern, single, ext, hread, todo, calls, crashes>>

WriteH(t) ==
  /\ At(t, "writeH")
  /\ h' = [h EXCEPT ![kern[t]] = Written("full", @)]
  /\ Goto(t, "readH")
  /\ UNCHANGED <<cu, decl, baton, lock, mem, kern, single, ext, hread, todo, calls, crashes>>

\* _make_decl_header: read the .h, then write what was read minus an include.
\* Reading a .h that was deleted meanwhile raises.
ReadH(t) ==
  /\ At(t, "readH")
  /\ h[kern[t]] # "absent"
  /\ hread' = [hread EXCEPT ![t] = h[kern[t]]]
  /\ Goto(t, "openDecl")
  /\ UNCHANGED <<disk, lock, mem, kern, single, ext, todo, calls, crashes>>

ReadHFails(t) ==
  /\ At(t, "readH")
  /\ h[kern[t]] = "absent"
  /\ Raise(t)
  /\ UNCHANGED <<disk, loaded, capturing, captured, kern, single, ext, hread, todo, calls, crashes>>

OpenDecl(t) ==
  /\ At(t, "openDecl")
  /\ decl' = [decl EXCEPT ![kern[t]] = "torn"]
  /\ Goto(t, "writeDecl")
  /\ UNCHANGED <<cu, h, baton, lock, mem, kern, single, ext, hread, todo, calls, crashes>>

WriteDecl(t) ==
  /\ At(t, "writeDecl")
  /\ decl' = [decl EXCEPT ![kern[t]] = Written(hread[t], @)]
  /\ hread' = [hread EXCEPT ![t] = "absent"]
  /\ Goto(t, "extracted")
  /\ UNCHANGED <<cu, h, baton, lock, mem, kern, single, ext, todo, calls, crashes>>

\* extract_cu returns: to _build_kernel, or to _capture_kernel, which queues
\* the kernel and hands back a deferring proxy.
Extracted(t) ==
  LET p == ProcOf[t] IN
  /\ At(t, "extracted")
  /\ Release(t, {ExtractLock(kern[t])})
  /\ \/ /\ single[t]
        /\ Goto(t, "prepare")
        /\ UNCHANGED captured
     \/ /\ ~single[t]
        /\ captured' = [captured EXCEPT ![p] = @ \cup {kern[t]}]
        /\ Goto(t, "idle")
  /\ UNCHANGED <<disk, loaded, failed, capturing, kern, single, ext, hread, todo, calls, crashes>>

-----------------------------------------------------------------------------
(* Loading an extension: torch.utils.cpp_extension.load *)

ExtLock(t) == IF single[t] THEN BuildLock(kern[t]) ELSE BatchLock(ext[t])

\* _build_kernel writes the wrapper and removes an orphaned baton.
Prepare(t) ==
  /\ At(t, "prepare")
  /\ baton' = baton \ {BuildLock(kern[t])}
  /\ ext' = [ext EXCEPT ![t] = {kern[t]}]
  /\ Goto(t, "load")
  /\ UNCHANGED <<cu, h, decl, lock, mem, kern, single, hread, todo, calls, crashes>>

\* The baton is created if it is not there; torch polls for ever otherwise.
\* Each kernel has a wrapper unit (includes decl) and a device unit (cu and h).
TakeBaton(t) ==
  /\ At(t, "load")
  /\ ExtLock(t) \notin baton
  /\ baton' = baton \cup {ExtLock(t)}
  /\ todo' = [todo EXCEPT ![t] = ext[t] \X {"wrapper", "device"}]
  /\ Goto(t, "compile")
  /\ UNCHANGED <<cu, h, decl, lock, mem, kern, single, ext, hread, calls, crashes>>

Readable(k, unit) ==
  IF unit = "wrapper" THEN decl[k] = "full"
  ELSE cu[k] = "full" /\ h[k] = "full" /\ k \notin Rejected

\* ninja compiles the units in any order.
CompileUnit(t) ==
  /\ At(t, "compile")
  /\ \E unit \in todo[t] :
       /\ Readable(unit[1], unit[2])
       /\ todo' = [todo EXCEPT ![t] = @ \ {unit}]
  /\ UNCHANGED <<disk, lock, mem, pc, kern, single, ext, hread, calls, crashes>>

\* What every exit from load and from the code around it gives back.
LeaveLoad(t) ==
  /\ baton' = baton \ {ExtLock(t)}
  /\ Release(t, {BuildLock(kern[t]), BatchLock(ext[t]), ArtifactLock})
  /\ ext' = [ext EXCEPT ![t] = {}]
  /\ Goto(t, "idle")
  /\ UNCHANGED <<cu, h, decl, capturing, captured, kern, single, hread, calls, crashes>>

CompileFails(t) ==
  /\ At(t, "compile")
  /\ \E unit \in todo[t] : ~Readable(unit[1], unit[2])
  /\ todo' = [todo EXCEPT ![t] = {}]
  /\ failed' = IF single[t]
               THEN [failed EXCEPT ![ProcOf[t]] = @ \cup {kern[t]}]
               ELSE failed
  /\ UNCHANGED loaded
  /\ LeaveLoad(t)

\* The module is imported; a batch wires every recorded key to it.
Loaded(t) ==
  /\ At(t, "compile")
  /\ todo[t] = {}
  /\ loaded' = [loaded EXCEPT ![ProcOf[t]] = @ \cup ext[t]]
  /\ UNCHANGED <<failed, todo>>
  /\ LeaveLoad(t)

-----------------------------------------------------------------------------
(* start_capture and finalize_capture *)

\* A nested start_capture does nothing; the first waits for the artifact lock.
StartCapture(t) ==
  /\ t \in Capturers
  /\ Call(t)
  /\ ~capturing[ProcOf[t]]
  /\ Goto(t, "captureLock")
  /\ UNCHANGED <<disk, lock, mem, kern, single, ext, hread, todo, crashes>>

TakeCaptureLock(t) ==
  /\ At(t, "captureLock")
  /\ Acquire(t, ArtifactLock)
  /\ capturing' = [capturing EXCEPT ![ProcOf[t]] = TRUE]
  /\ captured' = [captured EXCEPT ![ProcOf[t]] = {}]
  /\ Goto(t, "idle")
  /\ UNCHANGED <<disk, loaded, failed, kern, single, ext, hread, todo, calls, crashes>>

\* The capture ends; with nothing recorded the artifact lock is given back.
\* The end of the with block is not counted as a call.
FinalizeCapture(t) ==
  LET p == ProcOf[t] IN
  /\ At(t, "idle")
  /\ capturing[p] /\ t \in Capturers
  /\ capturing' = [capturing EXCEPT ![p] = FALSE]
  /\ captured' = [captured EXCEPT ![p] = {}]
  /\ ext' = [ext EXCEPT ![t] = captured[p]]
  /\ single' = [single EXCEPT ![t] = FALSE]
  /\ IF captured[p] = {}
     THEN Goto(t, "idle") /\ Release(t, {ArtifactLock})
     ELSE Goto(t, "batchLock") /\ UNCHANGED lock
  /\ UNCHANGED <<disk, loaded, failed, kern, hread, todo, calls, crashes>>

\* The combined source is written and the batch lock taken.  No baton is
\* removed here.
TakeBatchLock(t) ==
  /\ At(t, "batchLock")
  /\ Acquire(t, BatchLock(ext[t]))
  /\ Goto(t, "load")
  /\ UNCHANGED <<disk, mem, kern, single, ext, hread, todo, calls, crashes>>

-----------------------------------------------------------------------------
(* delete_kernel *)

\* Mutant: delete_kernel does not take the artifact lock.
StartDeleteNoArtifactLock(t, k) ==
  /\ t \in Deleters
  /\ Call(t)
  /\ kern' = [kern EXCEPT ![t] = k]
  /\ Goto(t, "deleteBuild")
  /\ UNCHANGED <<disk, lock, mem, single, ext, hread, todo, crashes>>
StartDelete(t, k) ==
  /\ t \in Deleters
  /\ Call(t)
  /\ kern' = [kern EXCEPT ![t] = k]
  /\ Goto(t, "deleteArtifact")
  /\ UNCHANGED <<disk, lock, mem, single, ext, hread, todo, crashes>>

\* Mutant: the build and extract locks are taken in the opposite order.
TakeDeleteLockSwapped(t) ==
  /\ \/ At(t, "deleteArtifact") /\ Acquire(t, ArtifactLock) /\ Goto(t, "deleteExtract")
     \/ At(t, "deleteExtract") /\ Acquire(t, ExtractLock(kern[t])) /\ Goto(t, "deleteBuild")
     \/ At(t, "deleteBuild") /\ Acquire(t, BuildLock(kern[t])) /\ Goto(t, "delete")
  /\ UNCHANGED <<disk, mem, kern, single, ext, hread, todo, calls, crashes>>
\* Mutant: a kernel is deleted without its build lock.
TakeDeleteLockNoBuild(t) ==
  /\ \/ At(t, "deleteArtifact") /\ Acquire(t, ArtifactLock) /\ Goto(t, "deleteExtract")
     \/ At(t, "deleteExtract") /\ Acquire(t, ExtractLock(kern[t])) /\ Goto(t, "delete")
  /\ UNCHANGED <<disk, mem, kern, single, ext, hread, todo, calls, crashes>>
TakeDeleteLock(t) ==
  /\ \/ At(t, "deleteArtifact") /\ Acquire(t, ArtifactLock) /\ Goto(t, "deleteBuild")
     \/ At(t, "deleteBuild") /\ Acquire(t, BuildLock(kern[t])) /\ Goto(t, "deleteExtract")
     \/ At(t, "deleteExtract") /\ Acquire(t, ExtractLock(kern[t])) /\ Goto(t, "delete")
  /\ UNCHANGED <<disk, mem, kern, single, ext, hread, todo, calls, crashes>>

\* The caches forget the kernel, its sources and its build directory go.
Delete(t) ==
  LET k == kern[t] p == ProcOf[t] IN
  /\ At(t, "delete")
  /\ loaded' = [loaded EXCEPT ![p] = @ \ {k}]
  /\ failed' = [failed EXCEPT ![p] = @ \ {k}]
  /\ cu' = [cu EXCEPT ![k] = "absent"]
  /\ h' = [h EXCEPT ![k] = "absent"]
  /\ decl' = [decl EXCEPT ![k] = "absent"]
  /\ baton' = baton \ {BuildLock(k)}
  /\ Release(t, {ArtifactLock, BuildLock(k), ExtractLock(k)})
  /\ Goto(t, "idle")
  /\ UNCHANGED <<capturing, captured, kern, single, ext, hread, todo, calls, crashes>>

-----------------------------------------------------------------------------
\* A process is killed and started again: the system releases its locks, its
\* memory is lost, the files stay as they are.
Crash(p) ==
  LET dead == {t \in Thread : ProcOf[t] = p} IN
  /\ crashes < MaxCrashes
  /\ crashes' = crashes + 1
  /\ lock' = [l \in Lock |-> IF lock[l] \in dead THEN None ELSE lock[l]]
  /\ loaded' = [loaded EXCEPT ![p] = {}]
  /\ failed' = [failed EXCEPT ![p] = {}]
  /\ capturing' = [capturing EXCEPT ![p] = FALSE]
  /\ captured' = [captured EXCEPT ![p] = {}]
  /\ pc' = [t \in Thread |-> IF t \in dead THEN "idle" ELSE pc[t]]
  /\ ext' = [t \in Thread |-> IF t \in dead THEN {} ELSE ext[t]]
  /\ todo' = [t \in Thread |-> IF t \in dead THEN {} ELSE todo[t]]
  /\ hread' = [t \in Thread |-> IF t \in dead THEN "absent" ELSE hread[t]]
  /\ UNCHANGED <<disk, kern, single, calls>>

\* The steps of a call already begun.
Step(t) ==
  \/ TakeBuildLock(t)
  \/ FastPath(t) \/ Flush(t) \/ FlushFails(t) \/ TakeExtractLock(t) \/ Toolchain(t) \/ ExtractFails(t)
  \/ OpenCu(t) \/ WriteCu(t) \/ OpenH(t) \/ WriteH(t)
  \/ ReadH(t) \/ ReadHFails(t) \/ OpenDecl(t) \/ WriteDecl(t)
  \/ Extracted(t)
  \/ Prepare(t) \/ TakeBaton(t) \/ CompileUnit(t) \/ CompileFails(t) \/ Loaded(t)
  \/ TakeCaptureLock(t) \/ FinalizeCapture(t) \/ TakeBatchLock(t)
  \/ TakeDeleteLock(t) \/ Delete(t)

Next ==
  \/ \E t \in Thread :
       \/ Step(t)
       \/ StartCapture(t)
       \/ \E k \in Kernel : BuildKernel(t, k) \/ StartDelete(t, k)
  \/ \E p \in Proc : Crash(p)

Spec == Init /\ [][Next]_vars

\* A thread that can run is run: the scheduler is fair, and a capture's with
\* block ends.  Nothing makes a thread issue a new call, or a process die.
FairSpec == Spec /\ \A t \in Thread : WF_vars(Step(t))
-----------------------------------------------------------------------------
(* Properties *)

TypeOK ==
  /\ cu \in [Kernel -> Content]
  /\ h \in [Kernel -> Content]
  /\ decl \in [Kernel -> Content]
  /\ baton \subseteq Lock
  /\ lock \in [Lock -> Thread \cup {None}]
  /\ loaded \in [Proc -> SUBSET Kernel]
  /\ failed \in [Proc -> SUBSET Kernel]
  /\ capturing \in [Proc -> BOOLEAN]
  /\ captured \in [Proc -> SUBSET Kernel]
  /\ pc \in [Thread -> Label]
  /\ kern \in [Thread -> Kernel]
  /\ single \in [Thread -> BOOLEAN]
  /\ ext \in [Thread -> SUBSET Kernel]
  /\ hread \in [Thread -> Content]
  /\ todo \in [Thread -> SUBSET (Kernel \X {"wrapper", "device"})]
  /\ calls \in [Thread -> Nat]
  /\ crashes \in Nat

Rank(l) == CASE l[1] = "artifact" -> 0
             [] l[1] = "build" -> 1
             [] l[1] = "batch" -> 1
             [] OTHER -> 2

\* The lock a thread is blocked on, if any.
WaitsFor(t, l) ==
  \/ pc[t] \in {"captureLock", "deleteArtifact"} /\ l = ArtifactLock
  \/ pc[t] \in {"buildLock", "deleteBuild"} /\ l = BuildLock(kern[t])
  \/ pc[t] \in {"extractLock", "deleteExtract"} /\ l = ExtractLock(kern[t])
  \/ pc[t] = "batchLock" /\ l = BatchLock(ext[t])

\* FileLocks are taken in the order artifact, build or batch, extract, by
\* every path of compile.py and toolchain.py: a thread that waits for a lock
\* holds only locks of lower rank, so waiting threads never form a cycle.
LockOrder ==
  \A t \in Thread, l, m \in Lock :
    WaitsFor(t, l) /\ lock[m] = t => Rank(m) < Rank(l)

\* What extract_cu hands to the compilers is complete while they read it:
\* the per-kernel locks are there so that racing builders do not "corrupt
\* the shared .kuipy_cache/cu" (compile.py, build_kernel).
SourcesComplete ==
  \A t \in Thread : pc[t] = "compile" =>
    \A k \in ext[t] \ Rejected :
      cu[k] = "full" /\ h[k] = "full" /\ decl[k] = "full"

\* _failed makes a process give up on a kernel for good, so only kernels the
\* toolchain does reject may get there, whatever other builders and deleters
\* of the cache directory do.
OnlyRejectedFail == \A p \in Proc : failed[p] \subseteq Rejected

\* The kernels a thread has queued in its capture and not yet loaded.
Queued(t) ==
  IF pc[t] \in {"batchLock", "load", "compile"} /\ ~single[t]
  THEN ext[t] ELSE captured[ProcOf[t]]

\* delete_kernel never takes away a source that a capture has queued and not
\* yet compiled: the capture holds the artifact lock until finalize_capture
\* is done.  Only a process that flushes the same kernel in front of its extraction
\* can, because KUIPY_JIT_FLUSH_CACHE unlinks before the extract lock.
QueuedSourcesStay ==
  [][\A t \in Capturers : \A k \in Queued(t) :
       (cu[k] # "absent" /\ cu'[k] = "absent") =>
          \E u \in Thread : pc[u] \in FlushLabel /\ kern[u] = k /\ Flushing(u)]_vars

\* A baton that _build_kernel removes as stale is an orphan of a dead
\* process: no live thread is compiling in that build directory.
RemovedBatonIsOrphan ==
  \A t, u \in Thread :
    pc[t] = "prepare" /\ pc[u] = "compile" => BuildLock(kern[t]) # ExtLock(u)

\* No process loads an extension for a kernel it already has loaded: the
\* second lookup of _loaded under the build lock catches the thread that
\* waited while another built.
NoSecondLoad ==
  \A t \in Thread : pc[t] = "compile" => ext[t] \cap loaded[ProcOf[t]] = {}

\* Every call into compile.py returns or raises: no thread waits for ever
\* for a FileLock or for torch's baton.
EveryCallReturns == \A t \in Thread : pc[t] # "idle" ~> pc[t] = "idle"
=============================================================================
