--------------------------- MODULE DispatchProofs ---------------------------
(***************************************************************************)
(* Theorems about Dispatch, for any operators, candidates, keys that tell  *)
(* calls apart or not, broken kernels, compiled functions and nesting.     *)
(***************************************************************************)
EXTENDS Dispatch, FiniteSetTheorems, NaturalsInduction, SequenceTheorems, WellFoundedInduction, TLAPS

\* A set of natural numbers has a least element.
LEMMA LeastNumber ==
  ASSUME NEW T, T \subseteq Nat, T # {}
  PROVE  \E x \in T : \A y \in T : x <= y
  <1>1. PICK x \in T : \A y \in T : ~(<<y, x>> \in OpToRel(<, Nat))
    BY WFMin, NatLessThanWellFounded, Zenon
  <1>2. \A y \in T : ~(y < x)
    BY <1>1, Zenon DEF OpToRel
  <1> QED BY <1>2

Call_ == {"none", "eager", "compiled"}
Result == {"none", "unsupported", "ran", "misaligned", "deferred", "raised"}

TypeInv ==
  /\ TypeOK
  /\ outcome \in [call : Call_, meta : Meta \cup {None}, aligned : BOOLEAN,
                  spec : Spec_ \cup {None}, result : Result]

\* Only a broken kernel is given up on, and a capture lives in a block.
BuildInv == failed \subseteq Broken /\ (capturing => nest > 0)

\* Why the reference may have run at node i.
Sound(e, i) ==
  i \in claimed /\ e.ran = "aten" => e.capture \/ Fitting(Nodes[i], e.aligned) = {}

TapeInv ==
  /\ at = 0 => tape = <<>>
  /\ at # 0 => Len(tape) = at - 1 /\ phase # "trace"
  /\ phase = "trace" => graph = <<>>
  /\ \A i \in DOMAIN tape : Sound(tape[i], i)
  /\ \A i \in DOMAIN graph : Sound(graph[i], i)

IInv == TypeInv /\ BuildInv /\ TapeInv /\ ClaimsAreProvisional

-----------------------------------------------------------------------------
(* supported() and building *)

\* What supported() answers fits the pointers it was asked about, and it has
\* no answer only when nothing fits.
LEMMA SupportedFits ==
  ASSUME TypeOK, NEW m \in Meta, NEW aligned \in BOOLEAN
  PROVE  /\ Supported(m, aligned) \in Spec_ \cup {None}
         /\ Supported(m, aligned) = None <=> Fitting(m, aligned) = {}
         /\ Supported(m, aligned) # None =>
              aligned \/ Supported(m, aligned) \notin NeedsAligned
  <1> DEFINE places == Fitting(m, aligned)
             fitting == {CandidatesOf[m][i] : i \in places}
  <1>1. /\ CandidatesOf[m] \in Seq(Spec_) /\ places \subseteq DOMAIN CandidatesOf[m]
        /\ places \subseteq Nat
    BY DispatchAssumption DEF Fitting
  <1>2. /\ fitting \subseteq Spec_
        /\ \A s \in fitting : aligned \/ s \notin NeedsAligned
    BY <1>1 DEF Fitting
  <1>3. CASE places = {}
    BY <1>3 DEF Supported
  <1>4. CASE places # {}
    <2>1. Min(places) \in places
      <3>1. \E i \in places : \A j \in places : i <= j
        BY <1>1, <1>4, LeastNumber
      <3> QED
        BY <3>1 DEF Min
    <2>2. CandidatesOf[m][Min(places)] \in fitting
      BY <2>1
    <2>3. Supported(m, aligned) \in fitting
      BY <1>4, <2>2 DEF Supported
    <2> QED
      BY <1>2, <1>4, <2>3, DispatchAssumption
  <1> QED
    BY <1>3, <1>4

LEMMA LaunchSound ==
  ASSUME IInv, NEW s \in Spec_, NEW aligned \in BOOLEAN, NEW result, Launch(s, aligned, result)
  PROVE  /\ loaded' \subseteq Spec_ \ Broken /\ queued' \subseteq Spec_
         /\ failed' \subseteq Broken
         /\ result \in Result \ {"none"}
         /\ result = "deferred" => capturing
         /\ result = "raised" => s \in Broken \/ (s \in NeedsAligned /\ ~aligned)
         /\ result = "misaligned" => s \in Vectorised \ NeedsAligned /\ ~aligned
  BY DEF IInv, TypeInv, TypeOK, BuildInv, Launch, Loads, Runs, Misaligns, Refuses, Defers, Fails, Result, kernels

\* What every step but those on the tape leaves alone.
LEMMA TapeKept ==
  ASSUME TapeInv, UNCHANGED compiled
  PROVE  TapeInv'
  BY DEF TapeInv, Sound, compiled

-----------------------------------------------------------------------------
(* The steps *)

LEMMA Blank == <<>> \in Seq(Entry) /\ Len(<<>>) = 0 /\ DOMAIN <<>> = {}
  OBVIOUS

LEMMA EagerKeeps ==
  ASSUME IInv, NEW m \in Meta, NEW aligned \in BOOLEAN, Eager(m, aligned)
  PROVE  IInv'
  <1> DEFINE hit == cache[KeyOf[m]]
             spec == IF hit # None THEN hit ELSE Supported(m, aligned)
  <1>1. TypeOK /\ KeyOf[m] \in Key
    BY DispatchAssumption DEF IInv, TypeInv
  <1>2. spec \in Spec_ \cup {None}
    BY <1>1, SupportedFits DEF TypeOK
  <1>3. UNCHANGED <<capturing, nest, claimed, phase, at, tape, graph>> /\ calls' \in 0..MaxCalls
    BY <1>1, DispatchAssumption DEF Eager, compiled, Call, TypeOK
  <1>4. cache' \in [Key -> Spec_ \cup {None}]
    <2>1. cache' = cache \/ \E kept \in {cache, [k \in Key |-> None]} : cache' = [kept EXCEPT ![KeyOf[m]] = spec]
      BY DEF Eager, CacheSpec
    <2> HIDE DEF spec
    <2> QED
      BY <1>1, <1>2, <2>1 DEF TypeOK
  <1>5. selected' \in [Meta -> Spec_ \cup {None}]
    <2>1. selected' = selected \/ selected' = [selected EXCEPT ![m] = spec]
      BY DEF Eager, Select
    <2> HIDE DEF spec
    <2> QED
      BY <1>1, <1>2, <2>1 DEF TypeOK
  <1> DEFINE Ended ==
        /\ loaded' \subseteq Spec_ \ Broken /\ queued' \subseteq Spec_ /\ failed' \subseteq Broken
        /\ outcome' \in [call : Call_, meta : Meta \cup {None}, aligned : BOOLEAN,
                         spec : Spec_ \cup {None}, result : Result]
        /\ outcome'.call = "eager"
  <1>6. Ended
    <2>1. CASE EagerOutcome(m, aligned, None, "unsupported") /\ UNCHANGED kernels
      BY <1>1, <2>1 DEF EagerOutcome, kernels, IInv, BuildInv, TypeOK, Call_, Result
    <2>2. ASSUME NEW result, spec # None, Launch(spec, aligned, result), EagerOutcome(m, aligned, spec, result)
          PROVE  Ended
      <3> HIDE DEF spec
      <3>1. spec \in Spec_
        BY <1>2, <2>2
      <3> QED
        BY <2>2, <3>1, LaunchSound DEF EagerOutcome, Call_, Result
    <2>3. \/ EagerOutcome(m, aligned, None, "unsupported") /\ UNCHANGED kernels
          \/ /\ spec # None
             /\ \E result \in {"ran", "misaligned", "deferred", "raised"} :
                  Launch(spec, aligned, result) /\ EagerOutcome(m, aligned, spec, result)
      BY DEF Eager
    <2> HIDE DEF Ended, spec
    <2> QED
      BY <2>1, <2>2, <2>3
  <1> HIDE DEF spec, hit
  <1>7. TypeInv'
    BY <1>1, <1>3, <1>4, <1>5, <1>6, DispatchAssumption DEF TypeInv, TypeOK
  <1>8. TapeInv'
    BY <1>3, TapeKept DEF IInv, compiled
  <1> QED
    BY <1>3, <1>6, <1>7, <1>8 DEF IInv, BuildInv, ClaimsAreProvisional

LEMMA CompileKeeps ==
  ASSUME IInv, Compile
  PROVE  IInv'
  <1>1. /\ claimed' \subseteq DOMAIN Nodes
        /\ phase = "trace" /\ phase' = "warm" /\ tape = <<>> /\ graph = <<>> /\ at = 0
        /\ UNCHANGED <<cache, loaded, failed, queued, capturing, nest, at, tape, graph, outcome, calls>>
    BY DEF Compile, kernels, IInv, TypeInv, TypeOK, TapeInv
  <1>2. selected' \in [Meta -> Spec_ \cup {None}]
    <2>1. \A m \in Meta : Supported(m, TRUE) \in Spec_ \cup {None} /\ selected[m] \in Spec_ \cup {None}
      BY SupportedFits DEF IInv, TypeInv, TypeOK
    <2>2. selected' = [m \in Meta |->
            IF \E i \in claimed' : Nodes[i] = m THEN Supported(m, TRUE) ELSE selected[m]]
      BY DEF Compile
    <2> QED
      BY <2>1, <2>2
  <1>3. TypeInv'
    BY <1>1, <1>2 DEF IInv, TypeInv, TypeOK
  <1>4. TapeInv'
    BY <1>1 DEF TapeInv
  <1> QED
    BY <1>1, <1>3, <1>4 DEF IInv, BuildInv, ClaimsAreProvisional

LEMMA StartRunKeeps ==
  ASSUME IInv, StartRun
  PROVE  IInv'
  <1>1. /\ at = 0 /\ at' = 1 /\ tape' = <<>> /\ phase \in {"warm", "record"} /\ calls' \in 0..MaxCalls
        /\ UNCHANGED <<cache, selected, loaded, failed, queued, capturing, nest, claimed, phase, graph, outcome>>
    BY DispatchAssumption DEF StartRun, Call, kernels, IInv, TypeInv, TypeOK
  <1>2. TypeInv'
    BY <1>1, DispatchAssumption DEF IInv, TypeInv, TypeOK
  <1>3. TapeInv'
    <2>1. (\A i \in DOMAIN graph : Sound(graph[i], i))'
      BY <1>1 DEF IInv, TapeInv, Sound
    <2>2. (\A i \in DOMAIN tape : Sound(tape[i], i))'
      BY <1>1, Blank
    <2>3. Len(tape') = at' - 1 /\ at' # 0 /\ phase' # "trace"
      BY <1>1, Blank
    <2> QED
      BY <2>1, <2>2, <2>3 DEF TapeInv
  <1> QED
    BY <1>1, <1>2, <1>3 DEF IInv, BuildInv, ClaimsAreProvisional

\* A node that ran adds a sound entry.
LEMMA TapeGrows ==
  ASSUME IInv, at \in DOMAIN Nodes, NEW ran \in Spec_ \cup {"aten"}, NEW aligned \in BOOLEAN,
         Tape(ran, aligned), UNCHANGED <<claimed, phase, graph>>,
         Sound([ran |-> ran, aligned |-> aligned, capture |-> nest > 0], at)
  PROVE  /\ tape' \in Seq(Entry) /\ at' \in 0..(Len(Nodes) + 1)
         /\ TapeInv'
  <1> DEFINE e == [ran |-> ran, aligned |-> aligned, capture |-> nest > 0]
  <1>1. /\ at \in 1..Len(Nodes) /\ at' = at + 1 /\ tape' = Append(tape, e)
        /\ tape \in Seq(Entry) /\ e \in Entry /\ Len(tape) = at - 1 /\ phase # "trace"
    BY DispatchAssumption DEF Tape, IInv, TypeInv, TypeOK, TapeInv, Entry
  <1>2. /\ tape' \in Seq(Entry) /\ Len(tape') = at /\ tape'[at] = e
        /\ \A i \in 1..(at - 1) : tape'[i] = tape[i]
        /\ DOMAIN tape = 1..(at - 1) /\ DOMAIN tape' = 1..at
    <2> HIDE DEF e
    <2> QED
      BY <1>1
  <1>3. (\A i \in DOMAIN tape : Sound(tape[i], i))'
    <2>0. DOMAIN (tape') = 1..at
      BY <1>2
    <2> SUFFICES ASSUME NEW i \in 1..at PROVE Sound(tape[i], i)'
      BY <2>0 DEF Sound
    <2>1. CASE i = at
      BY <1>2, <2>1 DEF Sound
    <2>2. CASE i # at
      <3>1. i \in 1..(at - 1) /\ Sound(tape[i], i)
        BY <1>1, <1>2, <2>2 DEF IInv, TapeInv
      <3> QED
        BY <1>2, <3>1 DEF Sound
    <2> QED
      BY <2>1, <2>2
  <1>4. (\A i \in DOMAIN graph : Sound(graph[i], i))'
    BY DEF IInv, TapeInv, Sound
  <1>5. at' # 0 /\ Len(tape') = at' - 1
    BY <1>1, <1>2
  <1> QED
    BY <1>1, <1>2, <1>3, <1>4, <1>5 DEF TapeInv

LEMMA RunNodeKeeps ==
  ASSUME IInv, NEW aligned \in BOOLEAN, RunNode(aligned)
  PROVE  IInv'
  <1> DEFINE m == Nodes[at]
             spec == Supported(m, aligned)
             e(ran) == [ran |-> ran, aligned |-> aligned, capture |-> nest > 0]
  <1>1. /\ at \in DOMAIN Nodes /\ m \in Meta /\ TypeOK
        /\ UNCHANGED <<cache, capturing, nest, claimed, phase, graph, calls>>
    BY DispatchAssumption DEF RunNode, IInv, TypeInv
  <1>2. /\ spec \in Spec_ \cup {None}
        /\ spec = None <=> Fitting(m, aligned) = {}
        /\ spec # None => aligned \/ spec \notin NeedsAligned
    BY <1>1, SupportedFits
  <1>3. "aten" \notin Spec_
    BY DispatchAssumption
  <1> HIDE DEF spec, m
  <1>4. CASE (at \notin claimed \/ spec = None) /\ Tape("aten", aligned) /\ UNCHANGED <<selected, kernels>>
    <2>1. Sound(e("aten"), at)
      BY <1>2, <1>3, <1>4 DEF Sound, m
    <2>2. tape' \in Seq(Entry) /\ at' \in 0..(Len(Nodes) + 1) /\ TapeInv'
      BY <1>1, <1>4, <2>1, TapeGrows
    <2> QED
      BY <1>1, <1>4, <2>2 DEF Tape, kernels, IInv, TypeInv, TypeOK, BuildInv, ClaimsAreProvisional
  <1>5. ASSUME at \in claimed, spec # None, Select(m, spec), NEW result \in {"ran", "misaligned", "deferred", "raised"},
               Launch(spec, aligned, result),
               \/ result = "ran" /\ Tape(spec, aligned)
               \/ result = "deferred" /\ Tape("aten", aligned)
               \/ result = "misaligned" /\ Tape(spec, aligned)
               \/ result \in {"raised", "misaligned"} /\ Abort(m, aligned, spec, result)
        PROVE  IInv'
    <2>1. spec \in Spec_
      BY <1>2, <1>5
    <2>2. /\ loaded' \subseteq Spec_ \ Broken /\ queued' \subseteq Spec_
          /\ failed' \subseteq Broken
          /\ result = "deferred" => nest > 0
          /\ result = "raised" => spec \in Broken
          /\ result = "misaligned" => spec \in Vectorised \ NeedsAligned /\ ~aligned
      BY <1>2, <1>5, <2>1, LaunchSound DEF IInv, BuildInv
    <2>3. selected' \in [Meta -> Spec_ \cup {None}]
      BY <1>1, <1>5, <2>1 DEF Select, TypeOK
    <2>4. CASE \/ result \in {"ran", "misaligned"} /\ Tape(spec, aligned)
               \/ result = "deferred" /\ Tape("aten", aligned)
      <3>1. PICK ran \in {spec, "aten"} : /\ Tape(ran, aligned)
                                          /\ ran = "aten" => nest > 0
        BY <1>5, <2>2, <2>4, <1>3, <2>1
      <3>2. Sound(e(ran), at)
        BY <1>2, <1>3, <1>5, <3>1 DEF Sound
      <3>3. tape' \in Seq(Entry) /\ at' \in 0..(Len(Nodes) + 1) /\ TapeInv'
        BY <1>1, <2>1, <3>1, <3>2, TapeGrows
      <3>4. outcome' = outcome
        BY <3>1 DEF Tape
      <3> QED
        BY <1>1, <2>2, <2>3, <3>3, <3>4, DispatchAssumption
        DEF IInv, TypeInv, TypeOK, BuildInv, ClaimsAreProvisional
    <2>5. CASE result \in {"raised", "misaligned"} /\ Abort(m, aligned, spec, result)
      <3>1. /\ at' = 0 /\ tape' = <<>>
            /\ outcome' = [call |-> "compiled", meta |-> m, aligned |-> aligned,
                           spec |-> spec, result |-> result]
        BY <2>5 DEF Abort
      <3>2. TypeInv'
        BY <1>1, <2>1, <2>2, <2>3, <3>1, DispatchAssumption DEF TypeInv, TypeOK, Call_, Result
      <3>3. TapeInv'
        BY <1>1, <3>1 DEF IInv, TapeInv, Sound
      <3> QED
        BY <1>1, <2>2, <2>5, <3>1, <3>2, <3>3 DEF IInv, BuildInv, ClaimsAreProvisional
    <2> QED
      BY <1>5, <2>4, <2>5
  <1>6. \/ (at \notin claimed \/ spec = None) /\ Tape("aten", aligned) /\ UNCHANGED <<selected, kernels>>
        \/ /\ at \in claimed /\ spec # None /\ Select(m, spec)
           /\ \E result \in {"ran", "misaligned", "deferred", "raised"} :
                /\ Launch(spec, aligned, result)
                /\ \/ result = "ran" /\ Tape(spec, aligned)
                   \/ result = "deferred" /\ Tape("aten", aligned)
                   \/ result = "misaligned" /\ Tape(spec, aligned)
                   \/ result \in {"raised", "misaligned"} /\ Abort(m, aligned, spec, result)
    BY DEF RunNode, spec, m
  <1> QED
    BY <1>4, <1>5, <1>6

LEMMA EndRunKeeps ==
  ASSUME IInv, EndRun
  PROVE  IInv'
  <1>1. /\ at' = 0 /\ tape' = <<>> /\ graph' \in {graph, tape} /\ phase' \in {"record", "replay"}
        /\ outcome' = NoOutcome
        /\ UNCHANGED <<cache, selected, loaded, failed, queued, capturing, nest, claimed, calls>>
    BY DEF EndRun, kernels
  <1>2. TypeInv'
    BY <1>1, DispatchAssumption DEF IInv, TypeInv, TypeOK, NoOutcome, Call_, Result
  <1>3. TapeInv'
    BY <1>1, Blank DEF IInv, TapeInv, Sound
  <1> QED
    BY <1>1, <1>2, <1>3 DEF IInv, BuildInv, ClaimsAreProvisional, NoOutcome

LEMMA CaptureKeeps ==
  ASSUME IInv, StartCapture \/ FinalizeCapture
  PROVE  IInv'
  <1>1. nest \in 0..MaxNest /\ queued \subseteq Spec_ /\ loaded \subseteq Spec_ \ Broken /\ MaxNest \in Nat
    BY DispatchAssumption DEF IInv, TypeInv, TypeOK
  <1>2. UNCHANGED <<cache, selected, failed, claimed, phase, at, tape, graph, outcome, calls>>
    BY DEF StartCapture, FinalizeCapture, compiled
  <1>3. nest' \in 0..MaxNest /\ (capturing' => nest' > 0) /\ capturing' \in BOOLEAN
    <2>1. CASE StartCapture
      <3>1. nest < MaxNest /\ nest' = nest + 1 /\ capturing' = TRUE
        BY <2>1 DEF StartCapture
      <3> QED
        BY <1>1, <3>1
    <2>2. CASE FinalizeCapture
      <3>1. nest > 0 /\ nest' = nest - 1 /\ capturing' = FALSE
        BY <2>2 DEF FinalizeCapture
      <3>2. nest' \in 0..MaxNest
        BY <1>1, <3>1
      <3>3. capturing' \in BOOLEAN /\ ~capturing'
        BY <3>1
      <3> QED
        BY <3>2, <3>3
    <2> QED
      BY <2>1, <2>2
  <1>4. queued' \subseteq Spec_ /\ loaded' \subseteq Spec_ \ Broken
    BY <1>1 DEF StartCapture, FinalizeCapture
  <1>5. TypeInv'
    BY <1>2, <1>3, <1>4 DEF IInv, TypeInv, TypeOK
  <1>6. TapeInv'
    BY <1>2, TapeKept DEF IInv, compiled
  <1> QED
    BY <1>2, <1>3, <1>5, <1>6 DEF IInv, BuildInv, ClaimsAreProvisional

LEMMA InvInit == Init => IInv
  <1> SUFFICES ASSUME Init PROVE IInv
    OBVIOUS
  <1>1. TypeInv
    <2>1. Len(Nodes) \in Nat /\ 0 \in 0..(Len(Nodes) + 1) /\ 0 \in 0..MaxCalls /\ 0 \in 0..MaxNest
      BY DispatchAssumption
    <2>2. outcome = NoOutcome /\ tape = <<>> /\ graph = <<>> /\ calls = 0 /\ nest = 0 /\ at = 0
      BY DEF Init
    <2>3. TypeOK
      BY <2>1, <2>2, Blank DEF Init, TypeOK
    <2> QED
      BY <2>2, <2>3 DEF NoOutcome, TypeInv, Call_, Result
  <1>2. TapeInv
    BY Blank DEF Init, TapeInv
  <1> QED
    BY <1>1, <1>2, DispatchAssumption DEF Init, NoOutcome, IInv, BuildInv, ClaimsAreProvisional

LEMMA InvStep == IInv /\ [Next]_vars => IInv'
  <1> SUFFICES ASSUME IInv, [Next]_vars PROVE IInv'
    OBVIOUS
  <1>1. CASE UNCHANGED vars
    BY <1>1 DEF vars, kernels, compiled, IInv, TypeInv, TypeOK, BuildInv, TapeInv, Sound, ClaimsAreProvisional
  <1> QED
    BY <1>1, EagerKeeps, CompileKeeps, StartRunKeeps, EndRunKeeps, RunNodeKeeps, CaptureKeeps DEF Next

THEOREM Invariant == Spec => []IInv
  BY InvInit, InvStep, PTL DEF Spec

-----------------------------------------------------------------------------
(* TypeOK *)
THEOREM TypeCorrect == Spec => []TypeOK
  <1>1. IInv => TypeOK
    BY DEF IInv, TypeInv
  <1> QED
    BY <1>1, Invariant, PTL

(* An eager call whose kernel builds is refused only by a spec the cache    *)
(* held for the key of this call, whatever calls share a key.               *)
THEOREM RefusalsAreStale == Spec => RefusedOnlyStale
  <1> DEFINE Stale ==
        outcome'.call = "eager" /\ outcome'.result = "raised" /\ outcome'.spec \notin Broken =>
          /\ cache[KeyOf[outcome'.meta]] = outcome'.spec
          /\ outcome'.spec \in NeedsAligned /\ ~outcome'.aligned
  <1>1. ASSUME IInv, NEW m \in Meta, NEW aligned \in BOOLEAN, Eager(m, aligned)
        PROVE  Stale
    <2> DEFINE hit == cache[KeyOf[m]]
               spec == IF hit # None THEN hit ELSE Supported(m, aligned)
    <2>1. TypeOK /\ KeyOf[m] \in Key
      BY <1>1, DispatchAssumption DEF IInv, TypeInv
    <2>2. /\ spec \in Spec_ \cup {None}
          /\ hit = None /\ spec # None => aligned \/ spec \notin NeedsAligned
          /\ hit # None => spec = hit
      BY <2>1, SupportedFits DEF TypeOK
    <2>3. \/ EagerOutcome(m, aligned, None, "unsupported")
          \/ \E result \in {"ran", "misaligned", "deferred", "raised"} :
               spec # None /\ Launch(spec, aligned, result) /\ EagerOutcome(m, aligned, spec, result)
      BY <1>1 DEF Eager
    <2> HIDE DEF spec, hit
    <2>4. ASSUME spec # None, Launch(spec, aligned, "raised"), spec \notin Broken
          PROVE  hit = spec /\ spec \in NeedsAligned /\ ~aligned
      <3>1. spec \in NeedsAligned /\ ~aligned
        BY <1>1, <2>2, <2>4, LaunchSound
      <3> QED
        BY <2>2, <2>4, <3>1
    <2>5. CASE EagerOutcome(m, aligned, None, "unsupported")
      BY <2>5 DEF EagerOutcome
    <2>6. ASSUME NEW result, spec # None, Launch(spec, aligned, result),
                 EagerOutcome(m, aligned, spec, result)
          PROVE  Stale
      BY <2>4, <2>6 DEF EagerOutcome, hit
    <2> HIDE DEF Stale
    <2> QED
      BY <2>3, <2>5, <2>6
  <1>2. ASSUME NEW aligned \in BOOLEAN, RunNode(aligned)
        PROVE  outcome' = outcome \/ outcome'.call = "compiled"
    BY <1>2 DEF RunNode, Tape, Abort
  <1>3. Compile \/ StartRun \/ StartCapture \/ FinalizeCapture => outcome' = outcome
    BY DEF Compile, StartRun, StartCapture, FinalizeCapture
  <1>4. EndRun => outcome'.call = "none"
    BY DEF EndRun, NoOutcome
  <1>5. IInv /\ [Next]_vars => (Stale \/ outcome' = outcome)
    BY <1>1, <1>2, <1>3, <1>4 DEF Next, vars
  <1>6. IInv /\ [Next]_vars => [Stale]_outcome
    BY <1>5
  <1>7. []IInv /\ [][Next]_vars => [][Stale]_outcome
    BY <1>6, PTL
  <1> QED
    BY <1>7, Invariant, PTL DEF Spec, RefusedOnlyStale

(* A compiled call fails only for a kernel that does not build or one that *)
(* copies vectors of unaligned pointers no one checked.                    *)
THEOREM ClaimsHold == Spec => []ClaimsAreProvisional
  <1>1. IInv => ClaimsAreProvisional
    BY DEF IInv
  <1> QED
    BY <1>1, Invariant, PTL

(* A graph replays the reference at a claimed node only if it was recorded *)
(* inside a batch_capture block or no kernel fitted the tensors.           *)
THEOREM GraphsFast == Spec => []StockOnlyFromCapture
  <1>1. IInv => StockOnlyFromCapture
    BY DEF IInv, TapeInv, Sound, StockOnlyFromCapture
  <1> QED
    BY <1>1, Invariant, PTL
=============================================================================
