------------------------------ MODULE Autotune ------------------------------
(***************************************************************************)
(* The autotuner of kuipy/autotune.py: tune() picks one of a call's        *)
(* candidates, from the process's earlier selections, from the tuning      *)
(* file, or, in a process run with KUIPY_AUTOTUNE=1, by building and       *)
(* timing every candidate; the losers' artifacts are then deleted.         *)
(*                                                                         *)
(* The tuning file is the atomic table of TuneTable (TuneStore implements  *)
(* it), and an artifact on disk is present or not (JitCache details how it *)
(* is built and deleted).  A candidate is named by its kernel module.      *)
(***************************************************************************)
EXTENDS Naturals, Sequences, FiniteSets, SequencesExt

CONSTANTS
  Thread, Proc, ProcOf,   \* threads, and the process of each
  Tuners,                 \* processes run with KUIPY_AUTOTUNE=1
  Key,                    \* tuning keys
  Device,                 \* GPUs
  Module,                 \* kernel modules, one per candidate
  Outcome,                \* "ok", or how running a candidate fails
  CallsOf,                \* the calls of tune: [key, device, candidates]
  Version,                \* TUNING_SCHEMA_VERSION
  NoEntry,                \* no entry for a key, no selection
  None,                   \* no thread
  MaxCalls, MaxCrashes    \* bounds: calls per thread, process deaths

ASSUME TuneAssumption ==
  /\ ProcOf \in [Thread -> Proc]
  /\ Tuners \subseteq Proc
  /\ Outcome \in [Module -> {"ok", "RuntimeError", "CalledProcessError"}]
  /\ CallsOf \subseteq [key : Key, device : Device, candidates : Seq(Module) \ {<<>>}]
  /\ CallsOf # {}
  /\ None \notin Thread /\ NoEntry \notin Module
  /\ MaxCalls \in Nat /\ MaxCrashes \in Nat

VARIABLES
  schema, table,   \* the tuning file
  built,           \* modules with artifacts on disk
  lock,            \* holders of the threading and file locks
  selected,        \* _selected of each process, per key
  pc,              \* where each thread is
  call,            \* its arguments of tune
  index,           \* the candidate it times next
  results,         \* candidates timed without an error
  choice,          \* the spec it is about to record or return
  referenced,      \* what _cleanup has found to be in use
  doomed,          \* losers still to be deleted
  calls, crashes

store == <<schema, table>>
vars == <<store, built, lock, selected, pc, call, index, results, choice,
          referenced, doomed, calls, crashes>>

Store == INSTANCE TuneTable WITH
           Digest <- Key, Params <- Module, Version <- {Version}

\* The locks of tune, in the order it takes them.
KeyLock(t)    == <<"key", ProcOf[t], call[t].key>>
DeviceLock(t) == <<"device", ProcOf[t], call[t].device>>
GpuLock(t)    == <<"gpu", None, call[t].device>>
TuningLock    == <<"autotune-artifacts", None, None>>
Lock == {<<"key", p, k>> : p \in Proc, k \in Key}
          \cup {<<"device", p, d>> : p \in Proc, d \in Device}
          \cup {<<"gpu", None, d>> : d \in Device} \cup {TuningLock}

Init ==
  /\ schema = Version
  /\ table = [k \in Key |-> NoEntry]
  /\ built = {}
  /\ lock = [l \in Lock |-> None]
  /\ selected = [p \in Proc |-> [k \in Key |-> NoEntry]]
  /\ pc = [t \in Thread |-> "idle"]
  /\ call = [t \in Thread |-> CHOOSE c \in CallsOf : TRUE]
  /\ index = [t \in Thread |-> 1]
  /\ results = [t \in Thread |-> {}]
  /\ choice = [t \in Thread |-> NoEntry]
  /\ referenced = [t \in Thread |-> {}]
  /\ doomed = [t \in Thread |-> {}]
  /\ calls = [t \in Thread |-> 0]
  /\ crashes = 0

Goto(t, label) == pc' = [pc EXCEPT ![t] = label]
Candidates(t) == ToSet(call[t].candidates)
Acquire(t, l) == lock[l] = None /\ lock' = [lock EXCEPT ![l] = t]
Release(t, L) == lock' = [l \in Lock |-> IF l \in L /\ lock[l] = t THEN None ELSE lock[l]]

scratch == <<index, results, choice, referenced, doomed>>
\* The locals of tune go out of scope.
Forget(t) ==
  /\ index' = [index EXCEPT ![t] = 1]
  /\ results' = [results EXCEPT ![t] = {}]
  /\ choice' = [choice EXCEPT ![t] = NoEntry]
  /\ referenced' = [referenced EXCEPT ![t] = {}]
  /\ doomed' = [doomed EXCEPT ![t] = {}]

\* Mutant: an exception leaves the locks held.
RaiseHoldingLocks(t) ==
  /\ Goto(t, "idle")
  /\ Release(t, {KeyLock(t)})
  /\ Forget(t)
\* An exception leaves tune and every with block around it.
Raise(t) ==
  /\ Goto(t, "idle")
  /\ Release(t, Lock)
  /\ Forget(t)

-----------------------------------------------------------------------------
Tune(t, c) ==
  /\ pc[t] = "idle"
  /\ calls[t] < MaxCalls
  /\ calls' = [calls EXCEPT ![t] = @ + 1]
  /\ call' = [call EXCEPT ![t] = c]
  /\ Goto(t, "key")
  /\ UNCHANGED <<store, built, lock, selected, scratch, crashes>>

\* Mutant: an earlier selection is returned without matching it.
TakeKeyLockUnmatched(t) ==
  LET p == ProcOf[t] k == call[t].key IN
  /\ pc[t] = "key"
  /\ Acquire(t, KeyLock(t))
  /\ IF selected[p][k] # NoEntry
     THEN /\ choice' = [choice EXCEPT ![t] = selected[p][k]]
          /\ Goto(t, "return")
     ELSE /\ Goto(t, IF p \in Tuners THEN "device" ELSE "lookup")
          /\ UNCHANGED choice
  /\ UNCHANGED <<store, built, selected, call, index, results, referenced, doomed, calls, crashes>>
\* Mutant: the selection is looked up before the wait for the key lock only.
TakeKeyLockNoLookup(t) ==
  /\ pc[t] = "key"
  /\ Acquire(t, KeyLock(t))
  /\ Goto(t, IF ProcOf[t] \in Tuners THEN "device" ELSE "lookup")
  /\ UNCHANGED <<store, built, selected, call, scratch, calls, crashes>>
\* Under the key lock: an earlier selection that is still a candidate is
\* returned; any other is dropped.
TakeKeyLock(t) ==
  LET p == ProcOf[t] k == call[t].key IN
  /\ pc[t] = "key"
  /\ Acquire(t, KeyLock(t))
  /\ IF selected[p][k] \in Candidates(t)
     THEN /\ choice' = [choice EXCEPT ![t] = selected[p][k]]
          /\ Goto(t, "return")
          /\ UNCHANGED selected
     ELSE /\ selected' = [selected EXCEPT ![p][k] = NoEntry]
          /\ Goto(t, IF p \in Tuners THEN "device" ELSE "lookup")
          /\ UNCHANGED choice
  /\ UNCHANGED <<store, built, call, index, results, referenced, doomed, calls, crashes>>

\* Without autotuning: the file's entry if it is a candidate, else the first
\* candidate.
Lookup(t) ==
  LET entry == Store!View(Version)[call[t].key] IN
  /\ pc[t] = "lookup"
  /\ choice' = [choice EXCEPT ![t] =
                  IF entry # NoEntry /\ entry.spec \in Candidates(t)
                  THEN entry.spec ELSE Head(call[t].candidates)]
  /\ Goto(t, "record")
  /\ UNCHANGED <<store, built, lock, selected, call, index, results, referenced, doomed, calls, crashes>>

\* Mutant: tuning processes do not share a lock file.
TakeOwnTuningLock(t) ==
  /\ \/ pc[t] = "device" /\ Acquire(t, DeviceLock(t)) /\ Goto(t, "gpu")
     \/ pc[t] = "gpu" /\ Goto(t, "artifacts") /\ UNCHANGED lock
     \/ pc[t] = "artifacts" /\ Goto(t, "prebuild") /\ UNCHANGED lock
  /\ UNCHANGED <<store, built, selected, call, scratch, calls, crashes>>
\* The device lock of the process, the lock file of the GPU, and the lock
\* file all tuning processes share.
TakeTuningLock(t) ==
  /\ \/ pc[t] = "device" /\ Acquire(t, DeviceLock(t)) /\ Goto(t, "gpu")
     \/ pc[t] = "gpu" /\ Acquire(t, GpuLock(t)) /\ Goto(t, "artifacts")
     \/ pc[t] = "artifacts" /\ Acquire(t, TuningLock) /\ Goto(t, "prebuild")
  /\ UNCHANGED <<store, built, selected, call, scratch, calls, crashes>>

\* _tune_now refuses to time kernels while this process captures a batch of
\* them or the stream a CUDA graph; either may be the case.
RefuseCapture(t) ==
  /\ pc[t] = "prebuild"
  /\ Raise(t)
  /\ UNCHANGED <<store, built, selected, call, calls, crashes>>

\* Every candidate is run once in a pool of threads; failures are ignored.
\* With one build job the step is skipped.
Prebuild(t) ==
  /\ pc[t] = "prebuild"
  /\ \/ built' = built \cup {m \in Candidates(t) : Outcome[m] = "ok"}
     \/ UNCHANGED built
  /\ Goto(t, "time")
  /\ UNCHANGED <<store, lock, selected, call, scratch, calls, crashes>>

\* Mutant: the first failure of any kind ends the tuning.
TimeCandidateOrRaise(t) ==
  LET m == call[t].candidates[index[t]] IN
  /\ pc[t] = "time"
  /\ index[t] <= Len(call[t].candidates)
  /\ \/ /\ Outcome[m] = "ok"
        /\ built' = built \cup {m}
        /\ results' = [results EXCEPT ![t] = @ \cup {m}]
        /\ index' = [index EXCEPT ![t] = @ + 1]
        /\ UNCHANGED <<lock, pc, choice, referenced, doomed>>
     \/ /\ Outcome[m] # "ok"
        /\ Raise(t)
        /\ UNCHANGED built
  /\ UNCHANGED <<store, selected, call, calls, crashes>>

\* The timing loop of _tune_now: a RuntimeError drops the candidate, any
\* other exception leaves tune.
TimeCandidate(t) ==
  LET m == call[t].candidates[index[t]] IN
  /\ pc[t] = "time"
  /\ index[t] <= Len(call[t].candidates)
  /\ \/ /\ Outcome[m] = "ok"
        /\ built' = built \cup {m}
        /\ results' = [results EXCEPT ![t] = @ \cup {m}]
        /\ index' = [index EXCEPT ![t] = @ + 1]
        /\ UNCHANGED <<lock, pc, choice, referenced, doomed>>
     \/ /\ Outcome[m] = "RuntimeError"
        /\ index' = [index EXCEPT ![t] = @ + 1]
        /\ UNCHANGED <<built, lock, pc, results, choice, referenced, doomed>>
     \/ /\ Outcome[m] = "CalledProcessError"
        /\ Raise(t)
        /\ UNCHANGED built
  /\ UNCHANGED <<store, selected, call, calls, crashes>>

\* No candidate ran: tune raises.
NoWinner(t) ==
  /\ pc[t] = "time"
  /\ index[t] > Len(call[t].candidates)
  /\ results[t] = {}
  /\ Raise(t)
  /\ UNCHANGED <<store, built, selected, call, calls, crashes>>

\* The fastest candidate, which may be any of them, is stored.
StoreWinner(t) ==
  /\ pc[t] = "time"
  /\ index[t] > Len(call[t].candidates)
  /\ \E w \in results[t] :
       /\ Store!Put(Version, call[t].key, [key |-> call[t].key, spec |-> w])
       /\ choice' = [choice EXCEPT ![t] = w]
  /\ Goto(t, "referenced")
  /\ UNCHANGED <<built, lock, selected, call, index, results, referenced, doomed, calls, crashes>>

\* store.update raises (TuneStore), and the file is as it was.
StoreFails(t) ==
  /\ pc[t] = "time"
  /\ index[t] > Len(call[t].candidates)
  /\ results[t] # {}
  /\ Raise(t)
  /\ UNCHANGED <<store, built, selected, call, calls, crashes>>

\* _cleanup: the modules the file refers to, then those selected here.
ReferencedModules == {table[k].spec : k \in {j \in Key : table[j] # NoEntry}}

FindReferenced(t) ==
  /\ pc[t] = "referenced"
  /\ referenced' = [referenced EXCEPT ![t] = ReferencedModules]
  /\ Goto(t, "selected")
  /\ UNCHANGED <<store, built, lock, selected, call, index, results, choice, doomed, calls, crashes>>

SelectedModules(p) == {selected[p][k] : k \in Key} \ {NoEntry}

\* Mutant: what this process has selected is not spared.
FindNothingSelected(t) ==
  /\ pc[t] = "selected"
  /\ doomed' = [doomed EXCEPT ![t] = Candidates(t) \ ({choice[t]} \cup referenced[t])]
  /\ Goto(t, "delete")
  /\ UNCHANGED <<store, built, lock, selected, call, index, results, choice, referenced, calls, crashes>>
FindSelected(t) ==
  /\ pc[t] = "selected"
  /\ doomed' = [doomed EXCEPT ![t] =
       Candidates(t) \ ({choice[t]} \cup referenced[t] \cup SelectedModules(ProcOf[t]))]
  /\ Goto(t, "delete")
  /\ UNCHANGED <<store, built, lock, selected, call, index, results, choice, referenced, calls, crashes>>

DeleteLoser(t) ==
  /\ pc[t] = "delete"
  /\ \E m \in doomed[t] :
       /\ built' = built \ {m}
       /\ doomed' = [doomed EXCEPT ![t] = @ \ {m}]
  /\ UNCHANGED <<store, lock, selected, pc, call, index, results, choice, referenced, calls, crashes>>

\* The tuning locks are given back; the key lock is still held.
LeaveTuning(t) ==
  /\ pc[t] = "delete"
  /\ doomed[t] = {}
  /\ Release(t, {DeviceLock(t), GpuLock(t), TuningLock})
  /\ Goto(t, "record")
  /\ UNCHANGED <<store, built, selected, call, scratch, calls, crashes>>

Record(t) ==
  /\ pc[t] = "record"
  /\ selected' = [selected EXCEPT ![ProcOf[t]][call[t].key] = choice[t]]
  /\ Goto(t, "return")
  /\ UNCHANGED <<store, built, lock, call, scratch, calls, crashes>>

Return(t) ==
  /\ pc[t] = "return"
  /\ Release(t, {KeyLock(t)})
  /\ Forget(t)
  /\ Goto(t, "idle")
  /\ UNCHANGED <<store, built, selected, call, calls, crashes>>

\* A process dies and is started again with nothing selected.
Crash(p) ==
  LET dead == {t \in Thread : ProcOf[t] = p}
      reset(f, v) == [t \in Thread |-> IF t \in dead THEN v ELSE f[t]]
  IN
  /\ crashes < MaxCrashes
  /\ crashes' = crashes + 1
  /\ lock' = [l \in Lock |-> IF lock[l] \in dead THEN None ELSE lock[l]]
  /\ selected' = [selected EXCEPT ![p] = [k \in Key |-> NoEntry]]
  /\ pc' = reset(pc, "idle")
  /\ index' = reset(index, 1)
  /\ results' = reset(results, {})
  /\ choice' = reset(choice, NoEntry)
  /\ referenced' = reset(referenced, {})
  /\ doomed' = reset(doomed, {})
  /\ UNCHANGED <<store, built, call, calls>>

Step(t) ==
  \/ TakeKeyLock(t) \/ Lookup(t) \/ TakeTuningLock(t)
  \/ RefuseCapture(t) \/ Prebuild(t) \/ TimeCandidate(t)
  \/ NoWinner(t) \/ StoreWinner(t) \/ StoreFails(t)
  \/ FindReferenced(t) \/ FindSelected(t) \/ DeleteLoser(t) \/ LeaveTuning(t)
  \/ Record(t) \/ Return(t)

Next ==
  \/ \E t \in Thread : Step(t) \/ \E c \in CallsOf : Tune(t, c)
  \/ \E p \in Proc : Crash(p)

Spec == Init /\ [][Next]_vars

\* Every thread that can run is run.
FairSpec == Spec /\ \A t \in Thread : WF_vars(Step(t))

-----------------------------------------------------------------------------
(* Properties *)

TypeOK ==
  /\ Store!TableOK
  /\ built \subseteq Module
  /\ lock \in [Lock -> Thread \cup {None}]
  /\ selected \in [Proc -> [Key -> Module \cup {NoEntry}]]
  /\ call \in [Thread -> CallsOf]
  /\ \A t \in Thread :
       /\ results[t] \subseteq Candidates(t)
       /\ doomed[t] \subseteq Candidates(t)
       /\ referenced[t] \subseteq Module
       /\ choice[t] \in Module \cup {NoEntry}

\* tune returns one of the candidates of this very call: a selection or a file
\* entry made for other candidates (the keys do not tell them apart) is never
\* used for tensors it does not fit.
LegalChoice ==
  \A t \in Thread : pc[t] \in {"record", "return"} => choice[t] \in Candidates(t)

\* A deletion never takes the artifacts of a kernel the tuning file refers
\* to, however many processes tune.
ReferencedKept == [][built \ built' \subseteq Module \ ReferencedModules]_vars

\* Nor those of a kernel the deleting process has selected for another key,
\* whatever the file says by now.  Another tuning thread of the process can
\* still select one between the look at _selected and the deletion, so this
\* is said of a thread that is the only one of its process.
SelectedKept ==
  [][\A t \in Thread :
       /\ pc[t] = "delete"
       /\ \A u \in Thread : ProcOf[u] = ProcOf[t] => u = t
       => (doomed[t] \ doomed'[t]) \cap SelectedModules(ProcOf[t]) = {}]_vars

\* A process times a key once: threads that asked meanwhile, and later calls
\* with the same candidates, reuse the selection.
TimedOnce ==
  [][\A t \in Thread : pc[t] = "prebuild" /\ pc'[t] = "time" =>
       selected[ProcOf[t]][call[t].key] \notin Candidates(t)]_vars

\* The timing loop ends with every candidate that runs among the results,
\* whatever RuntimeErrors the others raised, unless the one it has come to
\* raises something else: _prebuild swallows failures since "the timing loop
\* hits them again and records them properly", but the loop does not record a
\* CalledProcessError, and tune fails although other candidates run.
FailuresRecorded ==
  [][\A t \in Thread : pc[t] = "time" /\ pc'[t] # "time" /\ crashes' = crashes =>
       \/ results[t] = {m \in Candidates(t) : Outcome[m] = "ok"}
       \/ /\ pc'[t] = "idle"
          /\ index[t] <= Len(call[t].candidates)
          /\ Outcome[call[t].candidates[index[t]]] = "CalledProcessError"]_vars

\* Every call of tune ends.
CallsEnd == \A t \in Thread : pc[t] # "idle" ~> pc[t] = "idle"
=============================================================================
