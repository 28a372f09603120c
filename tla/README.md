# kuiLLM in TLA+

kuiLLM has two halves. `kuipy` is a Python package that replaces PyTorch operators by
verified CUDA kernels, eagerly through `kuipy.run` and under `torch.compile` through a
post-grad pass. `kuiops` is a library of F*/Pulse kernels; `kuipy` instantiates one for
the shapes it meets, lets F* check it, extracts it with karamel, compiles it with nvcc
and loads it. The F* proofs speak of the numbers a kernel computes and of who owns which
memory. They do not speak of the Python side at all, and on the GPU they do not fix what
the emitted barriers and asynchronous copies do when threads are interleaved. These
modules are about those two gaps, and about the drivers that generate text with the
result.

Paths below are relative to `src/`. In the modules, a comment that begins with "Mutant:"
or "Without" introduces a plausible wrong version of the action that follows. The
specification never uses it; it is there to show that a property depends on the line.

## Inventory

### Components that are modelled

**Kernel cache** (`kuipy/compile.py`, `kuipy/toolchain.py`).
State: in memory `_loaded`, `_failed` and `_capture` of each process; on disk, for each
kernel, the sources `.cu`, `.h` and `_decl.h`, a build directory with the "baton" file of
torch's `cpp_extension`, and FileLocks of four kinds (artifact, build, extract, batch).
Operations: `build_kernel`, `batch_capture` (`start_capture`, recording, and
`finalize_capture`), `delete_kernel`. It is called by the dispatchers and by the
autotuner.
Hard: processes and threads share one directory; files are written in place; some paths
look at files without the lock that guards their writing; a process may be killed
anywhere, which frees its FileLocks but neither its half-written files nor its baton.
Correct when: compilers read complete sources; a kernel is given up on only if the
toolchain rejects it; locks are ordered; a queued kernel keeps its sources until it is
compiled; every call returns.

**Tuning store** (`kuipy/autotune.py`, class `TuneStore`).
State: `tune_params.json`, a lock file, a temporary file per process. Operations:
`update`, `lookup`, `referenced_modules`.
Hard: a read-modify-write by many processes, readers that take no lock, deaths and full
disks in the middle, several schema versions, digests that collide.
Correct when: it behaves like one table whose entries change one at a time.

**Autotuner** (`kuipy/autotune.py`, `tune`).
State: `_selected` of each process, a lock per key, one per device, one per GPU, one for
all tuning processes. Operations: `tune` with `_prebuild`, `_tune_now` and `_cleanup`.
It reads and updates the tuning store and builds and deletes through the kernel cache.
Hard: selections made for other candidate lists of the same key; a cleanup racing the
selections of other keys, threads and processes; candidates that fail, in several ways.
Correct when: the answer is a candidate of this call, a kernel somebody refers to is not
deleted, a failing candidate costs only itself, every call ends.

**Dispatch** (`kuipy/registry.py`, `kuipy/inductor/custom_ops.py`, the capture and CUDA
graph protocol of `kuipy/__init__.py` and `infer.py`).
State: the spec cache of each `kuipy.run` callable, the claims of the post-grad pass, the
recorded CUDA graph, the capture in progress. Operations: an eager call, compiling,
calling a compiled function (which warms up, records, then replays), opening and closing
`batch_capture`.
Hard: decisions cached under keys that leave something out; claims made on fake tensors
and executed on real ones; deferral during a capture that is recorded into a graph for
ever; nested captures.
Correct when: what is decided about a call is decided on its own tensors, errors become
fallbacks, stock kernels are replayed only where the capture required them.

**SuperGEMM block** (`kuiops/common/supergemm/mm`, `kuiops/common/pipelined`).
State: two shared buffers, cp.async copies in flight, accumulators, a scratch band per
warp, the output. Operations: stage a tile, wait, synchronise, multiply, store and drain
a band.
Hard: every thread runs at its own pace; a copy lands at any time before its own thread
waits for it; one block barrier per tile both publishes one buffer and frees the other;
the warp barriers of the epilogue carry no proof obligation in F* (their contract is
`emp`).
Correct when: no read overlaps a write, D receives full sums only, no copy outlives the
block, every thread returns.

**Operator families** (`kuipy/kuiops.py`, `kuipy/registry.py`).
State: the memo of specs of each callable, the modules built so far, shared by name.
Operations: a call of `kuipy.run(op)`, through the predicate and the tile enumeration of
the op's family, the memo, the rendering of the templates and the launch.
Hard: the F* contracts are erased at extraction, so that a few hundred lines of Python
must re-establish every bound and divisibility the proofs suppose; names and keys stand
for sources and arguments; constants travel as text.
Correct when: no call gets another call's kernel, every launch meets the contract of its
kernel, and what runs computes what ATen computes.

**Post-grad pass** (`kuipy/inductor/fusion.py`, `passes.py`, `custom_ops.py`,
`tracing.py`).
State: one torch.fx graph, the snapshot being walked, the tracer. Operations: map fusion,
the replacement, the trace.
Hard: snapshots of the nodes are walked while nodes are erased and inserted; a chain of
maps between two reductions belongs to one of them; fake values are carried over.
Correct when: the graph returns what it returned before and stays well formed, one walk
fuses all there is, the metadata carried over fits the new ops, the trace is of the result.

**Inference drivers** (`infer.py`, `etc/infer_golden.py`, `etc/infer_golden_compiled.py`,
`etc/infer_golden_exp.py`) and **numerical verification** (`kuipy/verify.py`).
State: the static KV cache, position, token, output buffer; switch, tolerance and
statistics of the verification. Operations: prefill, warm-up, capture, rewind, the
measured loop.
Hard: the warm-up runs the real step and only a few tensors are reset after it; a
captured graph keeps advancing counters; the verification is switched off and on around
the warm-up.
Correct when: the text is the one an autoregressive decoder may produce, no step leaves
the buffers, the verdict says what the comparisons showed, runs end.

### Not modelled

| Component | What is hard, and what makes it correct | Why not |
|---|---|---|
| other SuperGEMM variants (`mm_epi`, `mm_splitk`, `mm_splitk_epi`) | partial sums must all be there before the reduction, and none twice | they run the modelled K loop and epilogue with another drain; the second kernel of split-K is ordered by the stream |
| TensorCore2D GEMM (`tc2d_to`, `flipflop_t`) | a barrier left out lets a copy overtake a read | same question as SuperGEMM with synchronous copies and two barriers per tile: next in the plan |
| Flash attention (`kuiops/sdpa`) | the second warp barrier of a key tile is left out (`KfSub.fst:669`), so reuse of the scratch tile rests on the collective mma operations | next in the plan; its numbers (online softmax) are real arithmetic |
| tree reductions (`kuiops/reduce`) | every thread must reach every barrier although few combine | next in the plan |
| elementwise, gather, scatter, cat, softmax kernels | none: one thread per cell | nothing to interleave; index arithmetic is proved in F*. What they compute and require is in `MapFamilies` and `MoveFamilies` |
| F* libraries (layouts, shares, vectors) | ghost state only | emit no code that changes state |
| templates (`*.j2`) | what a wrapper checks at run time, what a kernel is rendered from | both are in `GemmTiles`, `MapFamilies`, `MoveFamilies` and `Dispatch`; the rest is formatting |
| build profiling (`jitprofile.py`) | none: counters | nothing reads them |
| configuration (`config.py`) | none | environment constants: they are the CONSTANTS of the modules |
| unverified kernels and benchmarks | none | not dispatched to by the package |
| make rules | external tools | a tool is one step that succeeds or fails |

### How they interact

    driver --torch.compile--> Post-grad pass --claims--> Operator families
       |                                                        ^
       | calls, batch_capture                                   | supported(), run
       v                                                        |
    Dispatch ---------------------------------------------------+
       |  spec --> Autotuner --reads/updates--> Tuning store
       |               |
       | build_kernel  | build, delete_kernel
       v               v
    Kernel cache --compiles--> SuperGEMM block (and the other kernels)

Each module takes its neighbours at the level its own questions need. `Autotune` uses the
atomic table of `TuneTable`, which `TuneStore` is shown to implement, and treats an
artifact as present or absent. `Dispatch` builds a kernel in one step, which `JitCache`
takes apart, asks the tuner for its answer only, and takes the predicates of the families
as a table; `Kuiops` and `PostGrad` evaluate the same predicates (`Families`) in full, and
leave captures and failing builds to `Dispatch`. `Decode` drives `Verify` and takes a
step of the model as one action, whose kernels the other modules are about.

## Modules

| Module | Role |
|---|---|
| `JitCache`, `MCJitCache`, `JitCacheProofs` | kernel cache, its instances for TLC, its theorems |
| `TuneTable` | abstract specification: a table updated one entry at a time |
| `TuneStore`, `MCTuneStore`, `TuneStoreProofs` | tuning store, instances, theorems; refines `TuneTable` |
| `Autotune`, `MCAutotune`, `AutotuneProofs` | tuner over an INSTANCE of `TuneTable` |
| `Dispatch`, `MCDispatch`, `DispatchProofs` | eager and compiled calls, captures, CUDA graphs |
| `TileProduct` | abstract specification: D cells are untouched or full sums |
| `SuperGemm`, `MCSuperGemm`, `SuperGemmProofs` | one block of the kernel; refines `TileProduct` |
| `Tensors` | arguments as the predicates see them |
| `GemmTiles`, `MapFamilies`, `MoveFamilies` | for each family: predicate, tilings, names, kernel contract, what is computed |
| `Families` | the families under one set of names |
| `Kuiops`, `MCKuiops`, `KuiopsProofs` | calls of `kuipy.run` over `Families`: memo, modules, launches; theorems |
| `PostGrad`, `MCPostGrad`, `PostGradProofs` | the post-grad pass over `Families` |
| `Transformer` | a pass of the language model, uninterpreted |
| `Autoregression` | abstract specification: a text grows by one allowed token at a time |
| `Verify` | the verification's globals as operators |
| `Decode`, `MCDecode`, `DecodeProofs` | the four drivers; refines `Autoregression` |

A type invariant is stated in every module with state whose types are not given by its
constants; TLC checks that of `JitCache`, TLAPS proves those of `JitCache`, `Autotune`,
`Dispatch`, `SuperGemm` and `Decode`, and `TuneStore`'s is part of its inductive
invariant.

### JitCache and the code

`loaded`, `failed`, `capturing`/`captured` are `_loaded`, `_failed`, `_capture`. A file
is absent, torn (truncated by `write_text`, not yet written, or copied from such a file)
or full, so that opening and writing are two steps (`OpenCu`/`WriteCu`, and so on).
`lock` maps every FileLock to the thread that holds it; `pc` names the place in the code
where a thread stands. `BuildKernel` is the part of `build_kernel` before any lock;
`TakeBuildLock` is the second lookup under the lock; `FastPath` and `TakeExtractLock`
are the two existence checks of `extract_cu`, the first one without the lock. Under
`KUIPY_JIT_FLUSH_CACHE` what the first one finds is unlinked file by file (`Flush`), and a
file that somebody else unlinked in the meantime raises (`FlushFails`); `ReadH`, `OpenDecl` and `WriteDecl` are
`_make_decl_header`; `Prepare` removes a stale baton as `_build_kernel` does, and
`TakeBatchLock` does not, as `_finalize_capture` does not; `TakeBaton`, `CompileUnit`,
`CompileFails` and `Loaded` are torch's `load`, with the units in any order.
`TakeDeleteLock` and `Delete` are `delete_kernel`. `Crash` kills a process.
A rejected kernel may fail in extraction, in either fixup, or in nvcc.
Left out: the seeding make pass and its stamp, compiler flags, text of generated files.

### TuneStore and the code

`StartUpdate` to `Unlock` are the lines of `TuneStore.update` in order, with the write to
the temporary file taken apart (`OpenTmp`, `Dump`, `Replace`); `WriteFails` is any of the
three raising. The temporary file is named after the process, so threads of a process share it. `Read` is `_read`: a
missing file and one of another schema have no entries. The collision check of `Merge`
compares the full key, as the code does.

### Autotune and the code

`Tune` to `Return` are `tune`; `RefuseCapture`, `Prebuild`, `TimeCandidate`, `NoWinner`,
`StoreWinner` and `StoreFails` are `_tune_now`; `FindReferenced`, `FindSelected`, `DeleteLoser` are `_cleanup`, with the two
reads it makes at different times kept apart. A timing is a choice of winner among the
candidates that ran. `Raise` is an exception that leaves every `with` block.
Left out: CUDA graphs of the benchmark, device memory, `reset_state` (tests only).

### Dispatch and the code

`Eager` is the closure of `registry.run`; `Compile` is the pass with `claim()`;
`StartRun`, `RunNode` and `EndRun` are a call of the compiled function, each node being
`_run_impl`; `graph` is what the second call recorded. `StartCapture` and
`FinalizeCapture` are the two ends of `batch_capture`, in which the inner block ends the
outer capture. A meta is what `supported()` sees of the arguments except alignment,
which is a separate Boolean, because fake tensors have none. `Fitting` is the set of places
in the candidate list that the filter on pointers leaves, and the choice is the first of
them. The filter knows the backends whose wrapper checks the pointers (`NeedsAligned`). Other
kernels copy vectors too (`Vectorised`): on unaligned pointers they are launched and fault
(`Misaligns`), in the run or after it, since a fault surfaces at some later CUDA call. What a
process does with a CUDA context that has faulted is left out.
Left out: the shape and dtype predicates, which are the constant `CandidatesOf` here and
written out in `Families`.

### Families, Kuiops and the code

A call has an op, `args` and `kw` as ATen passes them. A tensor is its metadata, whether
its pointer is 16-byte aligned, and, for a 0-dim tensor, its value. `Specs` is `supported`
of the op's family: the empty set for None, several specs where tuning may pick. A list
of tilings is a set with a rank, the sort key of the enumeration (`Tiles`, `Rank`).
`ModuleName` is `module_name`, `Kernel` what the templates are rendered from, and
`Accepts` the contract of the F* kernel the wrapper launches, with what the wrapper
itself rejects in `WrapperRefuses`. `Term` is what the kernel computes and `Meaning` what
ATen computes, both as terms over the elements of the arguments: <<"elem", i>> at the
result's index, <<"storage", i>> at the same place of memory, <<f, ...>> a method applied.
`InRange` and `Conforms` belong to the properties: they are the conditions, checked nowhere in
the code, under which a launch meets its contract and a kernel agrees with ATen.
Numbers count units of 10^-7, one digit more than the constants that are printed, so that
printing is not the identity.
`Hit`, `Miss` and `Unsupported` are the three ways through the closure of `registry.run`;
`RunSpec` is `impl.run`: render, build unless the module exists, launch.
Left out: more than one device, arguments of unhashable types.

### PostGrad and the code

`Trace` and `Call` build the graph Inductor hands over, op by op; only what they can build
is ever rewritten. `Fuse` is one node of the walk of `fusion.apply` with `CollectPre`,
`CollectPost` and the rewrite around the anchor, `EndFusion` its end. Both collections
follow a `Path`: back along first arguments (`Back`), or forth along single users
(`Forth`). `todo` is what is left of the snapshot a walk is over, taken in the order of
the graph (`IsNext`). `BeginGraph`,
`Replace` and `FinishGraph` are the walk of the replacement: a node that a family supports
(`Claims`) becomes a custom op with the fake value of the old node (`Meta`), and the
tracer keeps a key for each node seen (`Key`) and its dependencies at the end.
What is inserted before node n and goes in the same rewrite is node n + MaxNodes: ids are
never reused, and the new node stands where n stood (`Place`). `Value` is what a
node returns, as a term in the sense of `MapFamilies`: the solution of an equation, in which
each node computes (`Computes`) from the terms of what it reads. A custom op computes what
its reference does; that its kernel does so too is `DropIn` of `Kuiops`. `Fake` is what an
op's fake implementation returns, in full for attention (`FakeAttention`: four results or
nine, with their strides); aten's own fakes are external.
Inductor's graphs are of an inference: attention has no dropout, as a claim of it takes for
granted (`custom_ops.py:92`), and the arguments that aten makes keyword-only are.
Left out: fusion rules and anchors that a user registers, `uuid()`, the counts and the
Markdown of a trace, `disable()`.

### Decode, Verify and the code

`Launch` reads the command line; `Throwaway` is the discarded forward pass that two
drivers begin with; `Prefill` reads the prompt into a new cache; `WarmUp` runs the
single-token step, `Capture` the pass recorded into a CUDA graph, `Rewind` the resets
after it with the verification's switch, `Decode` one step or replay of the measured
loop, `Break` an index outside the cache or the output buffer, `Return` the answer. In
`manual` the host sets the position and only the write slot advances on the device.
The model is uninterpreted: what a pass writes into a slot is the triple of token,
position and the slots it saw, and a token is named by the pass it came from. Two passes
that read anything different therefore differ, and the properties hold for every model.
`Verify` holds the globals of `verify.py` in a record: `SetEnabled`, `Reset`, `Compare`
with `Fold` for its statistics, and `Passes`. A pair of results is one of six kinds.
Left out: downloads, tokenising, backends, timing, transformers' own `generate`.

### SuperGemm and the code

`Copy` and `Commit` are `Stage.stage_tiles` and `pipeline_commit`; `Deliver` is the
hardware; `LoopTest`, `Wait`, `Syncthreads`, `Guard`, `Multiply`, `NextTile` are
`KLoop.kloop` in order; `BandTest`, `Syncwarp`, `StoreBand`, `Drain`, `NextBand` are
`Epilogue.epilogue`. `Wait` waits for the committed copies of the calling thread alone.
`Syncwarp` only counts lanes and does not tell its two call sites apart, as the hardware
does not. A shared cell holds the number of the K tile it was copied from and a sum is
the sequence of the tiles added to it, so that a lost, doubled or misplaced tile shows.
Left out: numbers, layouts, addresses, bank conflicts, the global grid, ghost state.

## Runs

| Run | Instance | Properties and what they show |
|---|---|---|
| `jit_build` | a build pool of two threads and a second, flushing process; two kernels, one rejected; two deleters | `TypeOK`; `SourcesComplete`: nothing changes a source under a compiler; `NoSecondLoad`: the second lookup under the lock is enough; `OnlyRejectedFail`: no race puts a good kernel into `_failed`; `EveryCallReturns` |
| `jit_capture` | a capturing process, a deleting and flushing one; two kernels; one death | `LockOrder`; `RemovedBatonIsOrphan`: the baton that is unlinked belongs to nobody alive; `QueuedSourcesStay`: a capture's kernels are not deleted |
| `store` | three threads in two processes with schemas 7 and 6, colliding keys, one death | `NeverTorn`; `Atomic`: refines `TuneTable`; `UpdatesEnd` |
| `tune_threads` | a tuning process with two threads, a process that looks up; keys that share a candidate, a call with fewer candidates | `LegalChoice`; `TimedOnce` |
| `tune_procs` | two tuning processes, candidates that fail with a RuntimeError and with a CalledProcessError, one death | `ReferencedKept`, `SelectedKept`: cleanup spares what is in use; `FailuresRecorded`: a RuntimeError costs its candidate only, and nothing but a CalledProcessError ends the loop early; `CallsEnd` |
| `dispatch` | a product with three backends that copy vectors, of which one checks its pointers, a product with that one only, a softmax that does not build, a total that copies element by element; nested captures | `RefusedOnlyStale`: a wrapper refuses pointers only where the memo kept a spec for aligned ones; `ClaimsAreProvisional`: a compiled call fails only for a kernel that does not build or one whose pointers nobody checks; `StockOnlyFromCapture` |
| `supergemm` | three threads in two warps, three K tiles, two bands | `NoRace`; `TilesExact`; `QuiescentAtExit`; `StoresProduct`: refines `TileProduct`; `EveryThreadReturns` |
| `kuiops` | two calls out of 77 that cover every family at its edges, on both sides of every condition the code leaves unchecked | `NamesSuffice`: kernels of one name are one kernel; `MemoKeyed`: the memo confuses only calls that differ in what its key leaves out; `KernelAccepts`: a launch meets its erased contract exactly where `InRange` says; `DropIn`: a kernel listed for a call computes what ATen computes exactly where `Conforms` says; `CandidatesFit`: every tiling listed fits the kernel, the shared memory and the grid, and the first one spills registers only if all of its block shape do |
| `postgrad` | all graphs of up to six nodes over four sets of ops | `WellFormed`; `ValuesKept`; `MetaKept`: the metadata carried over is what the new op's fake returns, except for attention, where only the number of results and the first one's type and shape agree; `OneWalkSuffices`; `TraceMatchesResult` |
| `decode` | four drivers, two prompts, up to three tokens, up to five warm-up rounds, with and without verification | `StaleUnseen`: nothing the warm-up left is read; `OnlyLongWarmupFails`; `VerdictFaithful`; `Autoregressive`: refines `Autoregression`; `Delivers` |
| `jit_stale_baton` | one process, one death | finding 1 |
| `kuiops_cache` | two calls with 0-dim tensors | finding 2 |

### Bounds

- `MaxCalls`, `MaxUpdates` bound how many calls a thread makes, `MaxCrashes` the deaths,
  `MaxNest` the nested captures. They appear only in the guards that begin a call, kill a
  process or open a block. Two calls let a second call meet what the first left behind
  (a load, a selection, a file); the capturing thread of `jit_capture` has three, to open
  a capture and queue both kernels. One death is enough to orphan a lock, a file or a baton.
- Two kernels are what a capture with more than one kernel and locks of different kernels
  need; no code relates three.
- Three threads are two that share a process (its memory, its temporary file) and one
  that shares only the disk.
- `CacheMax` is 2 in `dispatch` and 1 in `kuiops`, so that the spec cache overflows; the
  code's limit is far higher.
- `Kuiops`: the bound of a u32 index and the largest grid are scaled down to 2^20 and 512
  blocks, so that calls on either side of them are small; the predicates and contracts use
  the names only. Two calls are what a memo or a shared module needs to go wrong.
- `PostGrad`: six nodes hold a placeholder, two reductions with a map before, between or
  behind them, and an output. `MaxNodes` is the largest of the bounds of the four sets.
- `Decode`: `Slack` is 1 instead of 8, so that `manual` can run out of cache; warm-ups of
  up to five rounds run past every output of up to three tokens; one id besides the best
  is what a temperature may pick.
- `SuperGemm`: three K tiles use a buffer, the other one, and the first one again; two
  bands reuse the scratch band. Two lanes in a warp are what an exchange needs and a
  third thread is one a barrier waits for. `Copies` is 1: cells of different threads
  already show chunks that land at different times. The theorems hold for every value.

### Fairness

- `JitCache`, `TuneStore`, `Autotune`: weak fairness of `Step(t)`, the steps of a call
  already begun. Threads are scheduled by the operating system, a compiler ends, a
  `with` block ends, and FileLock polls until it gets the lock. Weak fairness does not
  promise a lock to a waiter that others overtake for ever; calls being bounded, they
  cannot. Nothing is assumed of new calls, of deaths or of a failing disk.
- `SuperGemm`: weak fairness of each thread's steps (resident threads are scheduled
  independently), of `Deliver` (a copy completes), and of the two barriers (they open once
  everyone has arrived).
- `Decode`: weak fairness of `Next`. The driver is one sequential program whose every
  step ends.
- `Dispatch`, `Kuiops` and `PostGrad` claim no liveness; the walks of `PostGrad` are over
  snapshots, which only shrink.

`CHECK_DEADLOCK FALSE` is set in every configuration because the systems do stop: threads
when they have made their calls, a block when its threads have returned, a driver when it
has its text. That they stop in no other way is what `EveryCallReturns`, `UpdatesEnd`,
`CallsEnd`, `EveryThreadReturns` and `Delivers` say.

## Findings

1. `compile.py:340`, run `jit_stale_baton`. `_build_kernel` removes a baton that a killed
   process left; `_finalize_capture` does not. Capturing the same set of kernels again
   waits for it for ever. `compile.py:322` says "re-capturing the same set reuses the
   on-disk build cache instead of recompiling".
2. `registry.py:67`, run `kuiops_cache`. The key of the spec cache has the shape, strides,
   dtype and device of a tensor; `supported()` also reads the value of a 0-dim float64
   tensor and bakes it into the kernel. A second `mul(x, c)` with another `c` runs the
   kernel of the first. `registry.py:63` says the key covers "everything ``supported()``
   inspects".

## Observations

What the code does at the places where a property names an exception, and where the passing
runs leave something aside.

Kernel cache:
- `extract_cu` looks for the generated files before it takes the extract lock
  (`toolchain.py:87`), and a capture calls it without the build lock: it then accepts a
  header another process has truncated. `SourcesComplete` fails once a capture may meet a
  build of the same kernel; in `jit_build` nobody captures.
- A process killed while it writes a generated file leaves a torn one that later runs
  accept (`toolchain.py:183`). `OnlyRejectedFail` and `SourcesComplete` are therefore
  checked and proved without deaths.
- `KUIPY_JIT_FLUSH_CACHE` unlinks without a lock what it has found (`toolchain.py:87-92`). A
  capture, which extracts without the build lock, and another flush of the same kernel can
  make one of the two raise FileNotFoundError, and a flush may take away sources another
  process has queued in a capture, which `QueuedSourcesStay` exempts by name.

Autotuner:
- The timing loop catches RuntimeError, but sed and clang-format run with `check=True`
  and raise CalledProcessError (`autotune.py:330`), which ends `tune` although other
  candidates run; `autotune.py:269` says the loop "records them properly".
  `FailuresRecorded` states what is left of that sentence, and `tune_procs` meets both
  failures beside candidates that run.
- A winner enters `_selected` after the tuning locks are free (`autotune.py:387`), so that
  with two tuning processes and two threads in one its artifacts may be deleted and must be
  built again. `SelectedKept` says which threads it covers.
- A call with unaligned tensors replaces the selection of its key by a fallback, which
  later aligned calls keep (`autotune.py:382`).

Dispatch:
- A compiled call whose kernel does not build raises (`custom_ops.py:45`), and
  `KUIPY_JIT_STRICTNESS` is read nowhere; `compile.py:39` says "so we fall back to PyTorch
  immediately".
- Of the three kinds of product kernels that copy vectors, the filter on pointers
  (`kuiops.py:905-911`) knows one. The others are launched on any contiguous tensor, also by
  a compiled graph that was claimed on fake ones; `ClaimsAreProvisional` names them.
- `passes.uuid` (`passes.py:76`), the key under which Inductor caches a rewritten graph,
  covers neither registered fusion rules nor configuration from the environment.

Operator families. `registry.py:89` promises "a drop-in replacement for ``op``" that
(`registry.py:92-93`) "raises if the arguments are outside what the kernel supports"; the
following calls run all the same. `MemoKeyed`, `InRange` and `Conforms` list them, and `kuiops`
makes calls of each sort.
- The key of the memo has neither pointer alignment nor the difference of 2 and 2.0
  (`registry.py:68`), both of which predicates read.
- Constants are printed with six decimals (`kuiops.py:140`). The keyword `alpha` is honoured for `add` only (`:287`).
- Only the transposed-B backends are filtered on alignment (`kuiops.py:911`), while
  `tc2d_to` and `bt2d` also copy with vector instructions.
- The second operand of a two-operand map is read in storage order; its strides must be
  those of the first.
- A constant with a fraction on an unsigned tensor raises ValueError while rendering, after
  the spec has been memoised.
- `gather` and `scatter` bound the index and not the source to a u32 index; `mm` and `addmm`
  do not bound their products at all, as the batched product does (`:1021`).
- `cat` accepts a side of length zero, and the products accept zero rows.
- Causal attention aligns the mask with the bottom right, ATen with the top left, which
  differ when there are fewer queries than keys. A claim of attention ignores the
  arguments for dropout and the debug mask (`custom_ops.py:92`).

Post-grad pass:
- A replaced node takes over all of the old one's metadata (`passes.py:39`). Attention's seed
  and offset then count as 0-dim tensors where the custom op returns tensors of shape (0,)
  (`custom_ops.py:100-107`), the unused results of the cudnn form as None where it returns
  empty tensors, and its lengths as those of the sequences where it returns 0
  (`custom_ops.py:118-125`); the first result counts as transposed where it is contiguous.
  Inference reads the first result only, and `getitem` takes that one in `PostGrad`.

Drivers and verification:
- A norm that is NaN passes the comparison (`verify.py:66`).
- Prompts of different lengths in a batch are padded on the left without a mask
  (`infer.py:234`); `Decode` has one prompt.
- The first token is the best one also with a temperature.
- With the default of five warm-up rounds a request for fewer than five tokens fails;
  `OnlyLongWarmupFails` allows for it.

## Proofs

TLAPS proves the following for all values of the constants, with any numbers of threads,
processes, kernels, keys, tiles and so on, and without the bounds of the runs: `MaxCalls`
and the like are arbitrary naturals.

| Theorem | Property |
|---|---|
| `JitCacheProofs!TypeCorrect` | `TypeOK` |
| `JitCacheProofs!LocksOrdered` | `LockOrder` |
| `JitCacheProofs!RemovedBatonsAreOrphans` | `RemovedBatonIsOrphan` |
| `JitCacheProofs!CapturesKeepSources` | `QueuedSourcesStay` |
| `JitCacheProofs!NothingLoadedTwice` | `NoSecondLoad` |
| `JitCacheProofs!CompilersSeeWholeSources` | `SourcesComplete` (without captures and deaths) |
| `JitCacheProofs!OnlyRejectedKernelsFail` | `OnlyRejectedFail` (without captures and deaths) |
| `TuneStoreProofs!FileNeverTorn` | `NeverTorn` |
| `TuneStoreProofs!StoreImplementsTable` | `Atomic` |
| `AutotuneProofs!TypeCorrect` | `TypeOK` |
| `AutotuneProofs!ChoicesLegal` | `LegalChoice` |
| `AutotuneProofs!ReferencesKept` | `ReferencedKept` |
| `AutotuneProofs!SelectionsKept` | `SelectedKept` |
| `AutotuneProofs!KeysTimedOnce` | `TimedOnce` |
| `AutotuneProofs!FailuresAreRecorded` | `FailuresRecorded` |
| `DispatchProofs!TypeCorrect` | `TypeOK` |
| `DispatchProofs!RefusalsAreStale` | `RefusedOnlyStale` |
| `DispatchProofs!ClaimsHold` | `ClaimsAreProvisional` |
| `DispatchProofs!GraphsFast` | `StockOnlyFromCapture` |
| `SuperGemmProofs!TypeCorrect` | `TypeOK` |
| `SuperGemmProofs!RaceFree` | `NoRace` |
| `SuperGemmProofs!SumsExact` | `TilesExact` |
| `SuperGemmProofs!Quiescent` | `QuiescentAtExit` |
| `SuperGemmProofs!ImplementsProduct` | `StoresProduct` |
| `DecodeProofs!TypeCorrect` | `TypeOK` |
| `DecodeProofs!LoopNeverFails` | `OnlyLongWarmupFails` |
| `DecodeProofs!WarmupUnseen` | `StaleUnseen` |
| `DecodeProofs!DriversDecode` | `Autoregressive` |
| `DecodeProofs!ReportFaithful` | `VerdictFaithful` |
| `KuiopsProofs!KernelsByName` | `NamesSuffice` |
| `KuiopsProofs!MemoGivesListed` | `MemoKeyed` |
| `KuiopsProofs!ListedTilingsFit` | `CandidatesFit` |
| `KuiopsProofs!LaunchesMeetContracts` | `KernelAccepts` |
| `KuiopsProofs!RunsComputeAten` | `DropIn` |
| `PostGradProofs!StaysWellFormed` | `WellFormed` |
| `PostGradProofs!MetaCarried` | `MetaKept` |
| `PostGradProofs!ReturnsKept` | `ValuesKept` |
| `PostGradProofs!TraceFollows` | `TraceMatchesResult` |
| `PostGradProofs!WalkSuffices` | `OneWalkSuffices` |

**Assumptions.** `ConstantsAssumption`, `StoreAssumption`, `TuneAssumption`,
`DispatchAssumption`, `GemmAssumption` and `DecodeAssumption` give the constants their
types; blocks, copies, tiles and bands are not empty, and there is a call to tune for.
`SizeAssumption` relates the two size limits of `Tensors` as in the code, `TcAssumption` says
which types the tensor cores of a device may take, and `KuiopsAssumption` that calls are
of registered operators with the arguments their ATen schemas allow; `TemplateAssumption`
says the same of the nodes of a graph, which call attention by its aten name, and
`PostGradAssumption` that `MaxNodes` bounds
every kind of graph and that its input is a tensor. `NoneAssumption` keeps Python's None apart from numbers.
`CaptureAssumption` says that a capturing process has one kuipy thread and does not
autotune: `start_capture` refuses `KUIPY_AUTOTUNE`, and only the autotuner deletes. The
theorems on `JitCache` also suppose that there is a kernel, and the two on sources suppose
`Undisturbed`: nobody captures and nobody dies. The observations say why they must. TLC
evaluates the assumptions on its instances.

The theorems on `Kuiops` and `PostGrad` suppose nothing of the calls and the graphs beyond
those types. Where the code leaves something unchecked, the property says so: `UnkeyedAgree`,
`InRange` and `Conforms` describe the calls in question, and the theorems hold in both
directions: within these conditions the contract is met and the result is ATen's, and
outside them it is not.

**JitCache.** `LockOrder` is not inductive: it speaks of waiting threads, and says nothing
of what a thread that is not waiting holds. `LockInv` says for every place in the code
exactly which locks a thread may hold there (`Holds`) and which threads can be there
(`Roles`). A step of one thread leaves what is said of the others alone
(`OthersUntouched`, `OthersKeepInv`) and establishes its own (`StepKeepsRoles`,
`StepKeepsHolds`). Lock order is then read off by rank; two threads that both hold the
build lock of a kernel contradict each other, so a removed baton is an orphan; and a
deleter holds the artifact lock, which is the capturer's while anything is queued
(`CapturedInv` adds that nothing is queued outside captures).

A second part adds what a build knows between its locks. `LoadedInv`: from the second
lookup to the load, what a thread builds is not in the `_loaded` of its process, nor is
what the process has queued in a capture; whoever else could load it would hold the same
lock. `FilesInv` says which sources are complete when a builder has come so far, and
`TornInv` that a file is torn only while its writer stands between opening and writing
it. Without captures and deaths that writer holds the build lock of the kernel, as its
compiler does, and so does a deleter (`OwnersExclude`): no two of them meet.

**TuneStore.** `IInv` says that a thread between reading and unlocking holds the lock, that
what it is about to write is the table as it still is with its entry merged in
(`Merged`), and that at the rename the temporary file is whole and its own, which needs
the lock because threads of a process share that file. Every step but `Replace` leaves
the abstract table alone, and `Replace` is one `Put`.

**Autotune.** `LocksInv` says in which stretch of `tune` a thread holds its key lock and in
which the one tuning lock, so that nobody else settles the key between the second lookup
and the timing (`TimedOnce`) and no cleanup runs beside another. `ChoiceInv` follows the
answer from where it is found, in the selections, the file or the timing, through the
test that it is a candidate of this very call. `CleanupInv` relates what a cleanup has
read to what is true when it deletes: references are written under the tuning lock, and
selections by the threads of its own process. `TimingInv` adds that the results of a thread in
the timing loop are those of its candidates so far that run, from which
`FailuresRecorded` is read off at each way out of the loop.

**Dispatch.** `TapeInv` says that what a warm-up has taped and a graph recorded was sound
when it was recorded: each kernel fits the pointers of its call, which are static buffers
in a graph, and the stock operator stands only for a node without a fitting kernel or a
recording inside a capture. `BuildInv` says that only broken kernels have failed and that a
capture in progress has an open block. `RefusedOnlyStale` needs no invariant of the memo but its type: what
`Supported` returns is among the fitting candidates for every state of the selections and
the file, so that a refused spec comes from a hit. That there is a first fitting candidate to
fall back on needs a least place (`LeastNumber`).

**Decode.** `PromptRead` says what the slots of the prompt hold, from the prefill to the
end: every step writes at or behind its end. `WarmInv` bounds what the warm-up did to the
counters, so that `Rewind` puts back exactly what a decoding step reads. `DecodeInv` says
that the slots below the position hold the text so far, and that whatever lies beyond is
never attended to, because a step sees only slots up to its own and writes that one
first. `ListInv` says the same of the output buffer, of which only a prefix is the answer.
`Reads(text)` is the solution of a recursive equation; that there is one, and that a cache
with the same entries is the same reading, are arguments by least counterexample over the
slots (`PassExists`, `ReadingUnique`, with `LeastNumber`).

`VerifyInv` says that the switch is on in the measured loop of a verified run only (and
after a failure in it), that the tolerance is the asked one from the launch to the
return, and that the statistics show a failure exactly if a pair went beyond it. A call's
pairs are summed by a recursive function; that its count of failures stays zero exactly
while its pairs are within the tolerance is again an argument by least counterexample
(`SumIs`).

**Kuiops.** Everything rests on the forms of what the predicates list (`ListedForm`): which
fields a spec of a family has, and which of them determine others. Then a name that two
specs share makes their kernels equal, family by family (`NamesOf`), and names of two
families differ (`NamesDiffer`), so that `MemoInv` is inductive: each module holds the kernel
of the specs of its name, and each entry of the memo is a spec listed for a call of its
op and key. The key of a call and what it leaves out determine the call (`CallKeys`), so
that the entry is listed for the present call as well unless the two differ in just that.
For `CandidatesFit`, the bounds of a contract are read off the sets the enumerations draw
tilings from (`Bt2dTiling`, `Tc2dTiling`, `SplitTiling`). That the tiling taken without tuning
spills only if its block always does is an argument about the order of the enumeration:
a set of ranks has a first one, found component by component (`FirstExists`), and the
distance to the register budget ranks before everything that could prefer a spilling
shape.
`KernelAccepts` joins the three with arithmetic the code does not do: the slices of a
reduction and of an attention call, products of extents and tiles (`SliceProduct`, `Grow`),
and the shared memory a number of warps takes (`WarpsChosen`). It speaks of the call at hand
and the memo's spec is another's, of the same key: what the contracts read of a call besides
alignment the key has (`CallTwins`). Conversely a contract that is met gives back each
condition of `InRange` (`GemmMeets`, `MoveMeets`).
For `DropIn` each family gets a lemma that the term of its kernel is the meaning of the
call. An elementwise call is split as its spec was (`ListedParts`): into the tensors that
become operands and the numbers that become constants. A reduction's maps are resolved one
by one (`ResolvedSteps`), with the division of a mean before the rest (`ScaledSteps`); terms
are folds over a list of steps, so equal lists are enough and no induction over them is
needed. The combiner follows from the type asked for and the op (`ReduceCombiner`), how
`addmm` reads C from its shape (`AddmmListed`), and what a mask lets a query see from its
layout (`SdpaDropIn`). For the calls that do not conform the two terms are told apart: a
constant is printed exactly only if six decimals spell it (`SixDecimalsExact`,
`ConstantExact`), and a list of rendered maps is the list that was meant only if each of its
constants is (`RenderedAsMeant`).

**PostGrad.** `IInv` joins `WellFormed` with what a node may be (`NodesInv`: its op has the
arguments aten gives it, and a reduction or a map reads no node but its first argument),
how a graph grows (`BuildInv`) and that the replacement walks over nodes that are still
there (`WalkInv`; fusion instead skips those an earlier anchor consumed).
The two collections are paths along which the place in the graph only falls, or only
rises: so the equation of `Path` has a solution (`PathsExist`), and the path is a walk that
ends where there is no next node (`PathWalks`), both by least counterexample. Each node
of a chain is then used by the next one alone (`PreChain`, `PostChain`), so that what is
erased around an anchor is closed: who reads an erased node is erased too, or reads the
tail and is rewired (`FusionsClosed`; `ClaimsClosed` for a replaced node). `RewriteKeeps` is
the step that both walks take: the new node reads only what stands before the anchor, and
takes the place of a node that goes.

`MetaInv` adds that the value of every node agrees (`Agrees`) with the fake value of its own
call, and that aten had a result for it. A rewrite keeps it if the new node has the fake value it takes over
(`RewriteSettles`), and then nobody who reads it under its new name sees a difference
(`CallKept`). For a fused op this means that the maps of a chain have one dtype and one shape
(`ChainVal`) and that the arguments unpack to the reduction's own (`FusedUnpacks`, with the
axis as `_reduce_dim` normalises it, `AxisPassed`); for a claim, that the predicate of the
family admits only shapes for which the two fake implementations agree (`ClaimsFake`), or, for
attention, disagree in the seeds and nothing the rest of the graph depends on
(`AttentionAgrees`).
For `ReturnsKept`, `Value` is the solution of a recursive equation; a graph in which all is
read from earlier places has at most one (`OneSolution`), so `ValuesInv` only has to name one
that the outputs agree with. A step carries it over: a node put in computes from the values
of what it reads what the erased one did (`RewriteComputes`). A claimed op does by its
arguments (`ClaimsCompute`); a fused one because the chain of maps composes, forwards,
to the same nested term that its list of maps is folded to (`ChainComposes`,
`FusionsCompute`), which is where the order of `_collect_pre` matters.

For `TraceFollows`, `TraceInv` keeps the graph in the shape of the tracer's snapshot
(`Follows`): each node stands for one of the snapshot (`Was`), reads what stands for that
one's inputs, and has a key exactly if it is recorded and the walk has passed it. A claimed
op may differ from the node it replaces in its numbers but must read the same nodes
(`ClaimsRead`), or the edges drawn at the end would be those of another graph. `ItemsInv`
says what stands between recorded nodes: an item of a list, never an item of an item. So
the recursion upstream ends after one node, and the edges are known without induction
(`EdgesAre`).

For `WalkSuffices`, `WalkedInv` says that every node the walk has passed has nothing to fuse
and stands before all it has not passed. A rewrite further on changes the nodes around it, so
this is about what it leaves (`Remains`): every other node keeps its users, its map and its
fake value, except the root of the chain that goes, which has one fused op among its users now
(`CutsOut`, `FusionRemains`). Hence a chain into an earlier reduction is the same
(`PreRemains`), and a chain out of one is the same unless it runs through that root
(`PostRemains`): two walks that agree node by node are one (`SameWalk`). In the case that is
left the root is itself a reduction that was passed by, the maps between it and the anchor
have just been absorbed by the anchor, and nothing follows it any more (`RootEnds`). If it
could be fused now, with what stands before it alone, it could have been fused together with
those maps when the walk was there: maps the anchor resolves at the type it reads resolve also
at the type the earlier reduction stores, which is the same one (`ReduceOut`,
`AbsorbedEitherWay`). So the claim rests on the type rules of the predicate and not on the
walk alone.

**SuperGemm.** `Past(t)` counts the block barriers a thread has passed. All threads pass one
together, so it is the same number n everywhere (`Lockstep`). Then every copy in flight
carries tile n into buffer n mod 2 (`CopiesInv`), the cells of that buffer whose copies
have landed hold n (`StagedInv`), and the other buffer holds n - 1 throughout
(`ReadableInv`). Since a thread reaches the barrier only when its own copies have landed,
buffer n mod 2 is full when all are there, and the roles swap. `SumInv` follows the
accumulators. `WPast` plays the same part for the two barriers of a warp, and `ScratchInv`
says which band a lane's scratch holds, from which `Drain` stores a full sum of its band.

**Only model-checked.** Liveness: TLAPS has no fairness rules. No module uses a RECURSIVE
operator.

## Plan

The order was: what other components stand on and what loses data first (kernel cache,
tuning store), then the tuner over both, dispatch, the GEMM that does most of the work,
the operator families and the pass that use them, and the drivers on top. What is left,
in this order:

1. Flash attention: one warp over its key tiles with the barrier that is left out
   (`KfSub.fst:669`), the scratch tile ordered only by the collective mma operations, and the
   merge of the warps (`KfBarrier.fst:250-329`). Abstract specification: each output row is
   merged from every key tile once. Two warps, three key tiles.
2. The flip-flop K loop of TensorCore2D (`To.KLoop.fst:270,312`), against `TileProduct`
   as a second implementation, and split-K with its workspace and second pass.
3. The reduction tree (`HReducePoly.Spec.fst:508`): a sum of all cells, in tree order.
4. Theorems: race freedom of the kernels of items 1 to 3, for which the barrier-count
   argument of `SuperGemmProofs` should carry over.
