------------------------------ MODULE Dispatch ------------------------------
(***************************************************************************)
(* How a call of an ATen operator reaches a Kuiper kernel.                 *)
(*                                                                         *)
(* Eagerly, kuipy.run memoises the spec that supported() returned under a  *)
(* key of the argument metadata.  Compiled, claim() decides at trace time  *)
(* on fake tensors, _run_impl decides again on the real ones and falls     *)
(* back to ATen, and torch records the second call into a CUDA graph and   *)
(* replays that.  Around either, batch_capture defers kernels.             *)
(*                                                                         *)
(* Building is atomic here (JitCache details it) and tune only consults    *)
(* the tuning file (Autotune details it).  A meta is what supported()      *)
(* sees of the arguments except whether the pointers are 16-byte aligned.  *)
(***************************************************************************)
EXTENDS Naturals, FiniteSets, Sequences, SequencesExt

CONSTANTS
  Meta,          \* argument metadata: shapes, strides, dtypes, scalars
  Key, KeyOf,    \* _spec_key of each meta
  Spec_,         \* kernel specs
  CandidatesOf,  \* the specs legal for each meta if all pointers are aligned
  Vectorised,    \* specs whose kernel copies 16 bytes at a time
  NeedsAligned,  \* of these, the specs whose wrapper checks the pointers
  Tuned,         \* entry of the tuning file for each meta
  Broken,        \* specs whose kernel does not build
  Nodes,         \* metas of the operator nodes of a compiled function
  CacheMax,      \* _SPEC_CACHE_MAX
  None,
  MaxCalls, MaxNest   \* bounds: calls made, nested batch_capture blocks

ASSUME DispatchAssumption ==
  /\ KeyOf \in [Meta -> Key]
  /\ CandidatesOf \in [Meta -> Seq(Spec_)]
  /\ NeedsAligned \subseteq Vectorised /\ Vectorised \subseteq Spec_ /\ Broken \subseteq Spec_
  /\ Tuned \in [Meta -> Spec_ \cup {None}]
  /\ Nodes \in Seq(Meta) /\ Nodes # <<>>
  /\ None \notin Spec_ /\ "aten" \notin Spec_
  /\ CacheMax \in Nat \ {0} /\ MaxCalls \in Nat /\ MaxNest \in Nat

VARIABLES
  cache,             \* the spec cache of a callable kuipy.run returned
  selected,          \* autotune._selected
  loaded, failed,    \* _loaded and _failed of kuipy.compile
  capturing, queued, \* _capture is not None, and its kernels
  nest,              \* batch_capture blocks open
  claimed,           \* the nodes claim() replaced
  phase,             \* of the compiled function: what its next call does
  at,                \* the node a call of it has reached, 0 outside calls
  tape,              \* what the nodes of this call ran
  graph,             \* what the recorded CUDA graph replays
  outcome,           \* how the last call ended
  calls

kernels == <<loaded, failed, queued>>
compiled == <<claimed, phase, at, tape, graph>>
vars == <<cache, selected, kernels, capturing, nest, compiled, outcome, calls>>

NoOutcome == [call |-> "none", meta |-> None, aligned |-> TRUE, spec |-> None, result |-> "none"]

Init ==
  /\ cache = [k \in Key |-> None]
  /\ selected = [m \in Meta |-> None]
  /\ loaded = {} /\ failed = {} /\ queued = {}
  /\ capturing = FALSE /\ nest = 0
  /\ claimed = {} /\ phase = "trace" /\ at = 0 /\ tape = <<>> /\ graph = <<>>
  /\ outcome = NoOutcome
  /\ calls = 0

-----------------------------------------------------------------------------
(* supported() and building *)

\* Mutant: supported() does not look at the pointers.
FittingUnfiltered(m, aligned) == DOMAIN CandidatesOf[m]
\* Places of a call's candidates.  Unaligned pointers drop the backends whose
\* wrapper checks them, and no other.
Fitting(m, aligned) ==
  {i \in DOMAIN CandidatesOf[m] : aligned \/ CandidatesOf[m][i] \notin NeedsAligned}

\* supported() of a GEMM ends in tune() (the other families have one spec):
\* an earlier selection, else the file's entry, else the first candidate,
\* whichever of them is a candidate of this call.
Supported(m, aligned) ==
  LET places == Fitting(m, aligned)
      fitting == {CandidatesOf[m][i] : i \in places}
  IN
  CASE places = {} -> None
    [] selected[m] \in fitting -> selected[m]
    [] selected[m] \notin fitting /\ Tuned[m] \in fitting -> Tuned[m]
    [] OTHER -> CandidatesOf[m][Min(places)]

\* tune() records what it returned.
Select(m, spec) == selected' = IF spec = None THEN selected ELSE [selected EXCEPT ![m] = spec]

\* impl.run: build_kernel, the kernel's wrapper, which may check alignment, and
\* the kernel, whose vector copies fault on pointers nobody checked.
Loads(s) == s \in loaded \/ (~capturing /\ s \notin failed \cup Broken)
Runs(s, aligned) == Loads(s) /\ (aligned \/ s \notin Vectorised)
Misaligns(s, aligned) == Loads(s) /\ ~aligned /\ s \in Vectorised \ NeedsAligned
Refuses(s, aligned) == Loads(s) /\ ~aligned /\ s \in NeedsAligned
Defers(s) == s \notin loaded /\ capturing
Fails(s) == s \notin loaded /\ s \in failed \cup Broken

Launch(s, aligned, result) ==
  \/ /\ Runs(s, aligned)
     /\ result = "ran"
     /\ loaded' = loaded \cup {s}
     /\ UNCHANGED <<failed, queued>>
  \/ /\ Misaligns(s, aligned)
     /\ result = "misaligned"
     /\ loaded' = loaded \cup {s}
     /\ UNCHANGED <<failed, queued>>
  \/ /\ Refuses(s, aligned)
     /\ result = "raised"
     /\ loaded' = loaded \cup {s}
     /\ UNCHANGED <<failed, queued>>
  \/ /\ Defers(s)
     /\ result = "deferred"
     /\ queued' = queued \cup {s}
     /\ UNCHANGED <<loaded, failed>>
  \/ /\ Defers(s) /\ s \in Broken \ queued   \* already its extraction fails
     /\ result = "raised"
     /\ UNCHANGED kernels
  \/ /\ Fails(s) /\ ~capturing
     /\ result = "raised"
     /\ failed' = failed \cup {s}
     /\ UNCHANGED <<loaded, queued>>

Call == calls < MaxCalls /\ calls' = calls + 1

-----------------------------------------------------------------------------
(* registry.run *)

CacheSpec(m, spec) ==
  LET size == Cardinality({k \in Key : cache[k] # None})
      kept == IF size >= CacheMax THEN [k \in Key |-> None] ELSE cache
  IN  cache' = [kept EXCEPT ![KeyOf[m]] = spec]

EagerOutcome(m, aligned, spec, result) ==
  outcome' = [call |-> "eager", meta |-> m, aligned |-> aligned, spec |-> spec, result |-> result]

\* A hit runs the cached spec; a miss asks supported() and caches its answer.
Eager(m, aligned) ==
  LET hit == cache[KeyOf[m]]
      spec == IF hit # None THEN hit ELSE Supported(m, aligned)
  IN
  /\ at = 0 /\ Call
  /\ IF hit # None
     THEN UNCHANGED <<cache, selected>>
     ELSE /\ Select(m, spec)
          /\ IF spec = None THEN UNCHANGED cache ELSE CacheSpec(m, spec)
  /\ \/ /\ spec = None
        /\ EagerOutcome(m, aligned, None, "unsupported")
        /\ UNCHANGED kernels
     \/ /\ spec # None
        /\ \E result \in {"ran", "misaligned", "deferred", "raised"} :
             Launch(spec, aligned, result) /\ EagerOutcome(m, aligned, spec, result)
  /\ UNCHANGED <<capturing, nest, compiled>>

-----------------------------------------------------------------------------
(* The compiled function *)

\* The post-grad pass.  A fake tensor has no pointer and counts as aligned;
\* asking supported() already records tune's selection.
Compile ==
  /\ phase = "trace"
  /\ claimed' = {i \in DOMAIN Nodes : Supported(Nodes[i], TRUE) # None}
  /\ selected' = [m \in Meta |->
       IF \E i \in claimed' : Nodes[i] = m THEN Supported(m, TRUE) ELSE selected[m]]
  /\ phase' = "warm"
  /\ UNCHANGED <<cache, kernels, capturing, nest, at, tape, graph, outcome, calls>>

StartRun ==
  /\ phase \in {"warm", "record"}
  /\ at = 0 /\ Call
  /\ at' = 1
  /\ tape' = <<>>
  /\ UNCHANGED <<cache, selected, kernels, capturing, nest, claimed, phase, graph, outcome>>

Tape(ran, aligned) ==
  /\ tape' = Append(tape, [ran |-> ran, aligned |-> aligned, capture |-> nest > 0])
  /\ at' = at + 1
  /\ UNCHANGED outcome

\* An exception ends the call; nothing is recorded.
Abort(m, aligned, spec, result) ==
  /\ at' = 0
  /\ tape' = <<>>
  /\ outcome' = [call |-> "compiled", meta |-> m, aligned |-> aligned, spec |-> spec, result |-> result]

\* Mutant: the claim of trace time is trusted.
RunNodeAsClaimed(aligned) ==
  LET m == Nodes[at]
      spec == Supported(m, TRUE)
  IN
  /\ at \in DOMAIN Nodes
  /\ \/ /\ at \notin claimed
        /\ Tape("aten", aligned)
        /\ UNCHANGED <<selected, kernels>>
     \/ /\ at \in claimed
        /\ Select(m, spec)
        /\ \/ Launch(spec, aligned, "ran") /\ Tape(spec, aligned)
           \/ Launch(spec, aligned, "deferred") /\ Tape("aten", aligned)
           \/ Launch(spec, aligned, "raised") /\ Abort(m, aligned, spec, "raised")
           \/ /\ Launch(spec, aligned, "misaligned")
              /\ Tape(spec, aligned) \/ Abort(m, aligned, spec, "misaligned")
  /\ UNCHANGED <<cache, capturing, nest, claimed, phase, graph, calls>>
\* _run_impl, for a claimed node: decide again on the real tensors; without a
\* spec, or while a capture defers the kernel, run the reference instead.  The
\* fault of a kernel surfaces at a later CUDA call, in this run or after it.
RunNode(aligned) ==
  LET m == Nodes[at]
      spec == Supported(m, aligned)
  IN
  /\ at \in DOMAIN Nodes
  /\ \/ /\ at \notin claimed \/ spec = None
        /\ Tape("aten", aligned)
        /\ UNCHANGED <<selected, kernels>>
     \/ /\ at \in claimed /\ spec # None
        /\ Select(m, spec)
        /\ \/ Launch(spec, aligned, "ran") /\ Tape(spec, aligned)
           \/ Launch(spec, aligned, "deferred") /\ Tape("aten", aligned)
           \/ Launch(spec, aligned, "raised") /\ Abort(m, aligned, spec, "raised")
           \/ /\ Launch(spec, aligned, "misaligned")
              /\ Tape(spec, aligned) \/ Abort(m, aligned, spec, "misaligned")
  /\ UNCHANGED <<cache, capturing, nest, claimed, phase, graph, calls>>

\* The first call warms up, the second is recorded, later ones replay.
EndRun ==
  /\ at > Len(Nodes)
  /\ at' = 0
  /\ phase' = IF phase = "warm" THEN "record" ELSE "replay"
  /\ graph' = IF phase = "warm" THEN graph ELSE tape
  /\ tape' = <<>>
  /\ outcome' = NoOutcome
  /\ UNCHANGED <<cache, selected, kernels, capturing, nest, claimed, calls>>

-----------------------------------------------------------------------------
(* batch_capture *)

\* A nested block finds the capture of the outer one.
StartCapture ==
  /\ at = 0 /\ nest < MaxNest
  /\ nest' = nest + 1
  /\ capturing' = TRUE
  /\ queued' = IF capturing THEN queued ELSE {}
  /\ UNCHANGED <<cache, selected, loaded, failed, compiled, outcome, calls>>

\* Mutant: a capture with nothing to build is not ended.
FinalizeCaptureIfAny ==
  /\ at = 0 /\ nest > 0
  /\ nest' = nest - 1
  /\ capturing' = (queued = {} /\ capturing)
  /\ queued' = {}
  /\ loaded' = IF queued \cap Broken = {} THEN loaded \cup queued ELSE loaded
  /\ UNCHANGED <<cache, selected, failed, compiled, outcome, calls>>
\* The first block to end, the inner one, ends the capture.  One broken
\* kernel fails the combined build and none of the others is loaded.
FinalizeCapture ==
  /\ at = 0 /\ nest > 0
  /\ nest' = nest - 1
  /\ capturing' = FALSE
  /\ queued' = {}
  /\ loaded' = IF queued \cap Broken = {} THEN loaded \cup queued ELSE loaded
  /\ UNCHANGED <<cache, selected, failed, compiled, outcome, calls>>

Next ==
  \/ \E m \in Meta, aligned \in BOOLEAN : Eager(m, aligned)
  \/ Compile \/ StartRun \/ EndRun
  \/ \E aligned \in BOOLEAN : RunNode(aligned)
  \/ StartCapture \/ FinalizeCapture

Spec == Init /\ [][Next]_vars

-----------------------------------------------------------------------------
(* Properties *)

Entry == [ran : Spec_ \cup {"aten"}, aligned : BOOLEAN, capture : BOOLEAN]

TypeOK ==
  /\ cache \in [Key -> Spec_ \cup {None}]
  /\ selected \in [Meta -> Spec_ \cup {None}]
  /\ loaded \subseteq Spec_ \ Broken /\ failed \subseteq Spec_ /\ queued \subseteq Spec_
  /\ capturing \in BOOLEAN /\ nest \in 0..MaxNest
  /\ claimed \subseteq DOMAIN Nodes
  /\ phase \in {"trace", "warm", "record", "replay"}
  /\ at \in 0..(Len(Nodes) + 1)
  /\ tape \in Seq(Entry) /\ graph \in Seq(Entry)
  /\ calls \in 0..MaxCalls

\* supported() never offers a spec whose wrapper refuses the pointers it was
\* asked about: an eager call whose kernel builds is refused only by a spec the
\* cache held for this key, chosen for a call with aligned pointers.
RefusedOnlyStale ==
  [][outcome'.call = "eager" /\ outcome'.result = "raised" /\ outcome'.spec \notin Broken =>
       /\ cache[KeyOf[outcome'.meta]] = outcome'.spec
       /\ outcome'.spec \in NeedsAligned /\ ~outcome'.aligned]_outcome

\* A claim made on fake tensors turns into an error on real ones only where no
\* decision about them is made: a compiled call fails for a kernel that does
\* not build, or for one that copies vectors of pointers no one checks.
ClaimsAreProvisional ==
  outcome.call = "compiled" /\ outcome.result \in {"raised", "misaligned"} =>
    \/ outcome.spec \in Broken
    \/ outcome.spec \in Vectorised \ NeedsAligned /\ ~outcome.aligned

\* A graph replays the reference at a claimed node only if no kernel fits its
\* tensors or the node was recorded inside a batch_capture block: outside the
\* blocks nothing is deferred, however they were nested or failed before.
StockOnlyFromCapture ==
  \A i \in DOMAIN graph \cap claimed :
    graph[i].ran = "aten" =>
      graph[i].capture \/ Fitting(Nodes[i], graph[i].aligned) = {}

=============================================================================
