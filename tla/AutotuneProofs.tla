--------------------------- MODULE AutotuneProofs ---------------------------
(***************************************************************************)
(* Theorems about Autotune, for any threads, processes, GPUs, keys and     *)
(* candidates, whatever fails and however often processes die.             *)
(***************************************************************************)
EXTENDS Autotune, TLAPS

\* Where a thread stands inside with blocks: of its key, and of all three
\* tuning locks.
Tuning == {"prebuild", "time", "referenced", "selected", "delete"}
Searching == {"lookup", "device", "gpu", "artifacts"} \cup Tuning
Keyed == Searching \cup {"record", "return"}
Label == {"idle", "key"} \cup Keyed
Chosen == {"referenced", "selected", "delete", "record", "return"}

TypeInv ==
  /\ Store!TableOK
  /\ lock \in [Lock -> Thread \cup {None}]
  /\ selected \in [Proc -> [Key -> Module \cup {NoEntry}]]
  /\ pc \in [Thread -> Label]
  /\ call \in [Thread -> CallsOf]
  /\ index \in [Thread -> Nat \ {0}]
  /\ results \in [Thread -> SUBSET Module]
  /\ choice \in [Thread -> Module \cup {NoEntry}]
  /\ referenced \in [Thread -> SUBSET Module]
  /\ doomed \in [Thread -> SUBSET Module]
  /\ built \subseteq Module

\* No other thread of its process runs tune.
Alone(t) == \A u \in Thread : ProcOf[u] = ProcOf[t] => u = t

LocksInv(t) ==
  /\ pc[t] \in Keyed => lock[KeyLock(t)] = t
  /\ pc[t] \in Tuning => lock[TuningLock] = t

ChoiceInv(t) ==
  /\ results[t] \subseteq Candidates(t)
  /\ pc[t] \in Chosen => choice[t] \in Candidates(t)
  /\ pc[t] \in Searching => selected[ProcOf[t]][call[t].key] = NoEntry

\* What the thread is about to delete is referred to by nobody.
CleanupInv(t) ==
  /\ doomed[t] \subseteq Candidates(t)
  /\ pc[t] = "idle" => results[t] = {} /\ doomed[t] = {}
  /\ pc[t] = "selected" => referenced[t] = ReferencedModules
  /\ pc[t] = "delete" => doomed[t] \cap ReferencedModules = {}
  /\ pc[t] = "delete" /\ Alone(t) => doomed[t] \cap SelectedModules(ProcOf[t]) = {}

ThreadInv(t) == LocksInv(t) /\ ChoiceInv(t) /\ CleanupInv(t)

IInv == TypeInv /\ \A t \in Thread : ThreadInv(t)

\* What a step of t leaves alone: the other threads, their locks, selections
\* of keys it does not hold, and the file unless it holds the tuning lock.
Frame(t) ==
  /\ \A u \in Thread \ {t} :
       /\ pc'[u] = pc[u] /\ call'[u] = call[u] /\ results'[u] = results[u]
       /\ choice'[u] = choice[u] /\ referenced'[u] = referenced[u]
       /\ doomed'[u] = doomed[u]
       /\ \A l \in Lock : lock[l] = u => lock'[l] = u
  /\ \A p \in Proc, k \in Key :
       \/ selected'[p][k] = selected[p][k]
       \/ p = ProcOf[t] /\ lock'[<<"key", p, k>>] = t
  /\ table' = table \/ lock[TuningLock] = t

-----------------------------------------------------------------------------
LEMMA CallType ==
  ASSUME NEW c \in CallsOf
  PROVE  /\ c.key \in Key /\ c.device \in Device
         /\ c.candidates \in Seq(Module) /\ c.candidates # <<>>
  BY TuneAssumption

LEMMA CandidateType ==
  ASSUME TypeInv, NEW t \in Thread
  PROVE  /\ call[t].key \in Key
         /\ call[t].device \in Device
         /\ call[t].candidates \in Seq(Module)
         /\ call[t].candidates # <<>>
         /\ Candidates(t) \subseteq Module
         /\ Head(call[t].candidates) \in Candidates(t)
         /\ \A i \in Nat \ {0} : i <= Len(call[t].candidates) =>
              call[t].candidates[i] \in Candidates(t)
  <1>1. call[t] \in CallsOf
    BY DEF TypeInv
  <1>2. /\ call[t].key \in Key /\ call[t].device \in Device
        /\ call[t].candidates \in Seq(Module) /\ call[t].candidates # <<>>
    BY <1>1, CallType
  <1> DEFINE s == call[t].candidates
  <1>3. Len(s) \in Nat /\ Len(s) # 0 /\ DOMAIN s = 1..Len(s) /\ Head(s) = s[1]
        /\ \A i \in 1..Len(s) : s[i] \in Module
    BY <1>2
  <1> QED
    BY <1>2, <1>3 DEF Candidates, ToSet

LEMMA LocksExist ==
  ASSUME TypeInv, NEW t \in Thread
  PROVE  /\ KeyLock(t) \in Lock /\ DeviceLock(t) \in Lock /\ GpuLock(t) \in Lock
         /\ TuningLock \in Lock
         /\ KeyLock(t) # TuningLock /\ KeyLock(t) # DeviceLock(t) /\ KeyLock(t) # GpuLock(t)
  BY TuneAssumption, CandidateType DEF KeyLock, DeviceLock, GpuLock, TuningLock, Lock

LEMMA TableType ==
  ASSUME TypeInv
  PROVE  /\ schema = Version
         /\ table \in [Key -> Store!Entry \cup {NoEntry}]
         /\ Store!View(Version) = table
         /\ ReferencedModules \subseteq Module
  BY DEF TypeInv, Store!TableOK, Store!View, Store!Entry, ReferencedModules

LEMMA SelectionUpdate ==
  ASSUME TypeInv, NEW p \in Proc, NEW k \in Key, NEW v \in Module \cup {NoEntry},
         selected' = [selected EXCEPT ![p][k] = v]
  PROVE  /\ selected' \in [Proc -> [Key -> Module \cup {NoEntry}]]
         /\ selected'[p][k] = v
         /\ \A q \in Proc, j \in Key :
              selected'[q][j] = selected[q][j] \/ (q = p /\ j = k)
  <1> DEFINE row == [selected[p] EXCEPT ![k] = v]
  <1>1. selected' = [selected EXCEPT ![p] = row] /\ row \in [Key -> Module \cup {NoEntry}]
    BY DEF TypeInv
  <1>2. \A q \in Proc : selected'[q] = IF q = p THEN row ELSE selected[q]
    BY <1>1 DEF TypeInv
  <1>3. \A j \in Key : row[j] = IF j = k THEN v ELSE selected[p][j]
    BY DEF TypeInv
  <1>4. selected' \in [Proc -> [Key -> Module \cup {NoEntry}]]
    BY <1>1 DEF TypeInv
  <1> HIDE DEF row
  <1>5. selected'[p][k] = v
    BY <1>2, <1>3
  <1>6. \A q \in Proc, j \in Key : selected'[q][j] = selected[q][j] \/ (q = p /\ j = k)
    <2> TAKE q \in Proc, j \in Key
    <2>1. CASE q = p
      BY <1>2, <1>3, <2>1
    <2>2. CASE q # p
      BY <1>2, <2>2
    <2> QED
      BY <2>1, <2>2
  <1> QED
    BY <1>4, <1>5, <1>6

\* A step that keeps out of the way of the others keeps what holds of them.
LEMMA OthersKeepInv ==
  ASSUME IInv, NEW t \in Thread, NEW u \in Thread, u # t, Frame(t), TypeInv'
  PROVE  ThreadInv(u)'
  <1>1. /\ pc'[u] = pc[u] /\ call'[u] = call[u] /\ results'[u] = results[u]
        /\ choice'[u] = choice[u] /\ referenced'[u] = referenced[u] /\ doomed'[u] = doomed[u]
        /\ \A l \in Lock : lock[l] = u => lock'[l] = u
    BY DEF Frame
  <1>2. TypeInv /\ LocksInv(u) /\ ChoiceInv(u) /\ CleanupInv(u)
    BY DEF IInv, ThreadInv
  <1>3. KeyLock(u)' = KeyLock(u) /\ Candidates(u)' = Candidates(u)
    BY <1>1 DEF KeyLock, Candidates
  <1>4. KeyLock(u) \in Lock /\ TuningLock \in Lock
    BY <1>2, LocksExist
  <1>5. LocksInv(u)'
    BY <1>1, <1>2, <1>3, <1>4 DEF LocksInv, TuningLock
  <1>6. pc[u] \in Searching =>
          selected'[ProcOf[u]][call[u].key] = selected[ProcOf[u]][call[u].key]
    <2> SUFFICES ASSUME pc[u] \in Searching PROVE selected'[ProcOf[u]][call[u].key] = selected[ProcOf[u]][call[u].key]
      OBVIOUS
    <2>1. lock[KeyLock(u)] = u
      BY <1>2 DEF LocksInv, Keyed
    <2>2. lock'[<<"key", ProcOf[u], call[u].key>>] = u
      BY <1>1, <1>4, <2>1 DEF KeyLock
    <2>3. ProcOf[u] \in Proc /\ call[u].key \in Key
      BY <1>2, CandidateType, TuneAssumption
    <2> QED
      BY <2>2, <2>3 DEF Frame
  <1>7. ChoiceInv(u)'
    BY <1>1, <1>2, <1>3, <1>6 DEF ChoiceInv
  <1>8. pc[u] \in {"selected", "delete"} => ReferencedModules' = ReferencedModules
    BY <1>1, <1>2, <1>4 DEF Frame, LocksInv, Tuning, ReferencedModules
  <1>9. Alone(u) => SelectedModules(ProcOf[u])' = SelectedModules(ProcOf[u])
    <2> SUFFICES ASSUME Alone(u) PROVE SelectedModules(ProcOf[u])' = SelectedModules(ProcOf[u])
      OBVIOUS
    <2>1. ProcOf[t] # ProcOf[u] /\ ProcOf[u] \in Proc
      BY TuneAssumption DEF Alone
    <2>2. \A k \in Key : selected'[ProcOf[u]][k] = selected[ProcOf[u]][k]
      BY <2>1 DEF Frame
    <2> QED
      BY <2>2 DEF SelectedModules
  <1>10. CleanupInv(u)'
    BY <1>1, <1>2, <1>3, <1>8, <1>9 DEF CleanupInv, Alone
  <1> QED
    BY <1>5, <1>7, <1>10 DEF ThreadInv

-----------------------------------------------------------------------------
\* What the steps of the thread itself establish.
Kept(t) == TypeInv' /\ Frame(t) /\ ThreadInv(t)'

LEMMA TuneKeeps ==
  ASSUME IInv, NEW t \in Thread, NEW c \in CallsOf, Tune(t, c)
  PROVE  Kept(t)
  <1> USE TuneAssumption, CandidateType, LocksExist, TableType
  <1> USE DEF IInv, Tune, Goto, scratch, store
  <1>1. TypeInv'
    BY DEF TypeInv, Label, Keyed, Searching, Tuning, Store!TableOK
  <1>2. Frame(t)
    BY DEF TypeInv, Frame, KeyLock
  <1>3. LocksInv(t)'
    BY DEF TypeInv, ThreadInv, LocksInv, Keyed, Searching, Tuning, KeyLock, TuningLock
  <1>4. ChoiceInv(t)'
    BY DEF TypeInv, ThreadInv, ChoiceInv, CleanupInv, Chosen, Searching, Tuning, Candidates
  <1>5. CleanupInv(t)'
    BY DEF TypeInv, ThreadInv, CleanupInv, Candidates, ReferencedModules, SelectedModules, Alone
  <1> QED
    BY <1>1, <1>2, <1>3, <1>4, <1>5 DEF Kept, ThreadInv

LEMMA TakeKeyLockKeeps ==
  ASSUME IInv, NEW t \in Thread, TakeKeyLock(t)
  PROVE  Kept(t)
  <1> USE TuneAssumption, CandidateType, LocksExist, TableType
  <1> USE DEF IInv, TakeKeyLock, Goto, Acquire, store
  <1>t. TypeInv
    OBVIOUS
  <1>a. ProcOf[t] \in Proc /\ call[t].key \in Key /\ pc[t] = "key"
    BY DEF TypeInv
  <1>b. lock' = [lock EXCEPT ![KeyLock(t)] = t] /\ lock[KeyLock(t)] = None
    OBVIOUS
  <1>c. \/ /\ selected[ProcOf[t]][call[t].key] \in Candidates(t)
           /\ choice' = [choice EXCEPT ![t] = selected[ProcOf[t]][call[t].key]]
           /\ pc' = [pc EXCEPT ![t] = "return"]
           /\ UNCHANGED selected
        \/ /\ selected' = [selected EXCEPT ![ProcOf[t]][call[t].key] = NoEntry]
           /\ pc' = [pc EXCEPT ![t] = "device"] \/ pc' = [pc EXCEPT ![t] = "lookup"]
           /\ UNCHANGED choice
    OBVIOUS
  <1>d. UNCHANGED <<schema, table, built, call, index, results, referenced, doomed, calls, crashes>>
    OBVIOUS
  <1>e. lock' \in [Lock -> Thread \cup {None}] /\ lock'[KeyLock(t)] = t
    BY <1>b DEF TypeInv
  <1>1. TypeInv'
    <2>1. selected' \in [Proc -> [Key -> Module \cup {NoEntry}]]
      <3>1. CASE UNCHANGED selected
        BY <3>1 DEF TypeInv
      <3>2. CASE selected' = [selected EXCEPT ![ProcOf[t]][call[t].key] = NoEntry]
        BY ONLY <3>2, <1>a, <1>t, SelectionUpdate
      <3> QED
        BY <1>c, <3>1, <3>2
    <2>2. choice' \in [Thread -> Module \cup {NoEntry}] /\ pc' \in [Thread -> Label]
      BY <1>a, <1>c DEF TypeInv, Label, Keyed, Searching
    <2> QED
      BY <1>d, <1>e, <2>1, <2>2 DEF TypeInv, Store!TableOK
  <1>2. Frame(t)
    <2>1. \A u \in Thread \ {t}, l \in Lock : lock[l] = u => lock'[l] = u
      BY <1>b DEF TypeInv
    <2>2. \A p \in Proc, k \in Key :
            selected'[p][k] = selected[p][k] \/ (p = ProcOf[t] /\ k = call[t].key)
      <3>1. CASE UNCHANGED selected
        BY <3>1
      <3>2. CASE selected' = [selected EXCEPT ![ProcOf[t]][call[t].key] = NoEntry]
        BY ONLY <3>2, <1>a, <1>t, SelectionUpdate
      <3> QED
        BY <1>c, <3>1, <3>2
    <2>3. \A u \in Thread \ {t} : pc'[u] = pc[u] /\ choice'[u] = choice[u]
      BY <1>c DEF TypeInv
    <2> QED
      BY ONLY <1>d, <1>e, <2>1, <2>2, <2>3 DEF Frame, KeyLock
  <1>3. LocksInv(t)'
    BY <1>c, <1>d, <1>e DEF TypeInv, LocksInv, Tuning, KeyLock
  <1>4. ChoiceInv(t)'
    BY <1>a, <1>c, <1>d DEF TypeInv, ThreadInv, ChoiceInv, Chosen, Searching, Tuning, Candidates
  <1>5. CleanupInv(t)'
    BY DEF TypeInv, ThreadInv, CleanupInv, Candidates, ReferencedModules, SelectedModules, Alone
  <1> QED
    BY <1>1, <1>2, <1>3, <1>4, <1>5 DEF Kept, ThreadInv

LEMMA LookupKeeps ==
  ASSUME IInv, NEW t \in Thread, Lookup(t)
  PROVE  Kept(t)
  <1> USE TuneAssumption, CandidateType, LocksExist, TableType
  <1> USE DEF IInv, Lookup, Goto, store
  <1>1. TypeInv'
    BY DEF TypeInv, Label, Keyed, Searching, Tuning, Store!TableOK
  <1>2. Frame(t)
    BY DEF TypeInv, Frame, KeyLock
  <1>3. LocksInv(t)'
    BY DEF TypeInv, ThreadInv, LocksInv, Keyed, Searching, Tuning, KeyLock, TuningLock
  <1>4. ChoiceInv(t)'
    BY DEF TypeInv, ThreadInv, ChoiceInv, Chosen, Searching, Tuning, Candidates
  <1>5. CleanupInv(t)'
    BY DEF TypeInv, ThreadInv, CleanupInv, Candidates, ReferencedModules, SelectedModules, Alone
  <1> QED
    BY <1>1, <1>2, <1>3, <1>4, <1>5 DEF Kept, ThreadInv

LEMMA TakeTuningLockKeeps ==
  ASSUME IInv, NEW t \in Thread, TakeTuningLock(t)
  PROVE  Kept(t)
  <1> USE TuneAssumption, CandidateType, LocksExist, TableType
  <1> USE DEF IInv, TakeTuningLock, Goto, Acquire, scratch, store
  <1>1. TypeInv'
    <2>1. \E l \in Lock : lock' = [lock EXCEPT ![l] = t]
      OBVIOUS
    <2>2. lock' \in [Lock -> Thread \cup {None}]
      BY <2>1 DEF TypeInv
    <2>3. pc' \in [Thread -> Label]
      BY DEF TypeInv, Label, Keyed, Searching, Tuning
    <2> QED
      BY <2>2, <2>3 DEF TypeInv, Store!TableOK
  <1>2. Frame(t)
    BY DEF TypeInv, Frame, KeyLock
  <1>3. LocksInv(t)'
    BY DEF TypeInv, ThreadInv, LocksInv, Keyed, Searching, Tuning, KeyLock, TuningLock
  <1>4. ChoiceInv(t)'
    BY DEF TypeInv, ThreadInv, ChoiceInv, Chosen, Searching, Tuning, Candidates
  <1>5. CleanupInv(t)'
    BY DEF TypeInv, ThreadInv, CleanupInv, Candidates, ReferencedModules, SelectedModules, Alone
  <1> QED
    BY <1>1, <1>2, <1>3, <1>4, <1>5 DEF Kept, ThreadInv

LEMMA PrebuildKeeps ==
  ASSUME IInv, NEW t \in Thread, Prebuild(t)
  PROVE  Kept(t)
  <1> USE TuneAssumption, CandidateType, LocksExist, TableType
  <1> USE DEF IInv, Prebuild, Goto, scratch, store
  <1>1. TypeInv'
    BY DEF TypeInv, Label, Keyed, Searching, Tuning, Store!TableOK
  <1>2. Frame(t)
    BY DEF TypeInv, Frame, KeyLock
  <1>3. LocksInv(t)'
    BY DEF TypeInv, ThreadInv, LocksInv, Keyed, Searching, Tuning, KeyLock, TuningLock
  <1>4. ChoiceInv(t)'
    BY DEF TypeInv, ThreadInv, ChoiceInv, Chosen, Searching, Tuning, Candidates
  <1>5. CleanupInv(t)'
    BY DEF TypeInv, ThreadInv, CleanupInv, Candidates, ReferencedModules, SelectedModules, Alone
  <1> QED
    BY <1>1, <1>2, <1>3, <1>4, <1>5 DEF Kept, ThreadInv

LEMMA TimeCandidateKeeps ==
  ASSUME IInv, NEW t \in Thread, TimeCandidate(t)
  PROVE  Kept(t)
  <1> USE TuneAssumption, CandidateType, LocksExist, TableType
  <1> USE DEF IInv, TimeCandidate, Raise, store, Goto, Release, Forget
  <1>t. TypeInv
    OBVIOUS
  <1>a. LET m == call[t].candidates[index[t]] IN m \in Candidates(t) /\ m \in Module
    BY DEF TypeInv
  <1>b. /\ index[t] \in Nat \ {0} /\ pc[t] = "time"
        /\ UNCHANGED <<schema, table, selected, call, calls, crashes>>
        /\ \/ /\ built' = built \cup {call[t].candidates[index[t]]}
              /\ results' = [results EXCEPT ![t] = @ \cup {call[t].candidates[index[t]]}]
              /\ index' = [index EXCEPT ![t] = @ + 1]
              /\ UNCHANGED <<lock, pc, choice, referenced, doomed>>
           \/ /\ index' = [index EXCEPT ![t] = @ + 1]
              /\ UNCHANGED <<built, lock, pc, results, choice, referenced, doomed>>
           \/ /\ pc' = [pc EXCEPT ![t] = "idle"]
              /\ lock' = [l \in Lock |-> IF l \in Lock /\ lock[l] = t THEN None ELSE lock[l]]
              /\ index' = [index EXCEPT ![t] = 1] /\ results' = [results EXCEPT ![t] = {}]
              /\ choice' = [choice EXCEPT ![t] = NoEntry]
              /\ referenced' = [referenced EXCEPT ![t] = {}]
              /\ doomed' = [doomed EXCEPT ![t] = {}]
              /\ UNCHANGED built
    BY DEF TypeInv
  <1>1. TypeInv'
    <2>1. index[t] + 1 \in Nat \ {0} /\ 1 \in Nat \ {0}
      BY <1>b
    <2>4. index' \in [Thread -> Nat \ {0}]
      BY ONLY <1>b, <2>1, <1>t DEF TypeInv
    <2>5. results' \in [Thread -> SUBSET Module]
      BY ONLY <1>a, <1>b, <1>t DEF TypeInv
    <2>2. lock' \in [Lock -> Thread \cup {None}] /\ pc' \in [Thread -> Label]
      BY <1>b DEF TypeInv, Label
    <2>3. /\ choice' \in [Thread -> Module \cup {NoEntry}]
          /\ referenced' \in [Thread -> SUBSET Module] /\ doomed' \in [Thread -> SUBSET Module]
          /\ built' \subseteq Module
      BY <1>a, <1>b DEF TypeInv
    <2> QED
      BY <1>b, <2>2, <2>3, <2>4, <2>5 DEF TypeInv, Store!TableOK
  <1>2. Frame(t)
    BY DEF TypeInv, Frame, KeyLock
  <1>3. LocksInv(t)'
    BY DEF TypeInv, ThreadInv, LocksInv, Keyed, Searching, Tuning, KeyLock, TuningLock
  <1>4. ChoiceInv(t)'
    <2>1. results'[t] \subseteq Candidates(t)
      BY <1>a, <1>b DEF TypeInv, ThreadInv, ChoiceInv
    <2>2. pc'[t] \in {"time", "idle"}
      BY <1>b DEF TypeInv
    <2> QED
      BY <1>b, <2>1, <2>2 DEF TypeInv, ThreadInv, ChoiceInv, Chosen, Searching, Tuning, Candidates
  <1>5. CleanupInv(t)'
    BY DEF TypeInv, ThreadInv, CleanupInv, Candidates, ReferencedModules, SelectedModules, Alone
  <1> QED
    BY <1>1, <1>2, <1>3, <1>4, <1>5 DEF Kept, ThreadInv

\* The three exits of _tune_now by an exception of its own or the store's.
LEMMA RaisesKeep ==
  ASSUME IInv, NEW t \in Thread, RefuseCapture(t) \/ NoWinner(t) \/ StoreFails(t)
  PROVE  Kept(t)
  <1> USE TuneAssumption, CandidateType, LocksExist, TableType
  <1> USE DEF IInv, RefuseCapture, NoWinner, StoreFails, Raise, store, Goto, Release, Forget
  <1>a. /\ lock' = [l \in Lock |-> IF l \in Lock /\ lock[l] = t THEN None ELSE lock[l]]
        /\ index' = [index EXCEPT ![t] = 1] /\ results' = [results EXCEPT ![t] = {}]
        /\ choice' = [choice EXCEPT ![t] = NoEntry]
        /\ referenced' = [referenced EXCEPT ![t] = {}] /\ doomed' = [doomed EXCEPT ![t] = {}]
        /\ pc' = [pc EXCEPT ![t] = "idle"]
        /\ UNCHANGED <<schema, table, built, selected, call>>
    OBVIOUS
  <1>1. TypeInv'
    BY ONLY TypeInv, <1>a DEF TypeInv, Label, Keyed, Searching, Tuning, Store!TableOK
  <1>2. Frame(t)
    BY DEF TypeInv, Frame, KeyLock
  <1>3. LocksInv(t)'
    BY DEF TypeInv, ThreadInv, LocksInv, Keyed, Searching, Tuning, KeyLock, TuningLock
  <1>4. ChoiceInv(t)'
    BY DEF TypeInv, ThreadInv, ChoiceInv, Chosen, Searching, Tuning, Candidates
  <1>5. CleanupInv(t)'
    BY DEF TypeInv, ThreadInv, CleanupInv, Candidates, ReferencedModules, SelectedModules, Alone
  <1> QED
    BY <1>1, <1>2, <1>3, <1>4, <1>5 DEF Kept, ThreadInv

LEMMA StoreWinnerKeeps ==
  ASSUME IInv, NEW t \in Thread, StoreWinner(t)
  PROVE  Kept(t)
  <1> USE TuneAssumption, CandidateType, LocksExist, TableType
  <1> USE DEF IInv, StoreWinner, Goto
  <1>a. PICK w \in results[t] :
          /\ Store!Put(Version, call[t].key, [key |-> call[t].key, spec |-> w])
          /\ choice' = [choice EXCEPT ![t] = w]
    OBVIOUS
  <1>b. w \in Module /\ call[t].key \in Key
    BY DEF TypeInv
  <1>c. /\ schema' = Version
        /\ table' = [table EXCEPT ![call[t].key] = [key |-> call[t].key, spec |-> w]]
    BY <1>a DEF Store!Put
  <1>1. TypeInv'
    <2>1. Store!TableOK'
      BY <1>b, <1>c DEF Store!TableOK, Store!Entry
    <2>2. choice' \in [Thread -> Module \cup {NoEntry}]
      BY <1>a, <1>b DEF TypeInv
    <2>3. pc' \in [Thread -> Label]
      BY DEF TypeInv, Label, Keyed, Searching, Tuning
    <2> QED
      BY <2>1, <2>2, <2>3 DEF TypeInv
  <1>2. Frame(t)
    <2>1. lock[TuningLock] = t
      BY DEF ThreadInv, LocksInv, Tuning
    <2> QED
      BY <2>1, <1>a DEF TypeInv, Frame
  <1>3. LocksInv(t)'
    BY DEF TypeInv, ThreadInv, LocksInv, Keyed, Searching, Tuning, KeyLock, TuningLock
  <1>4. ChoiceInv(t)'
    BY DEF TypeInv, ThreadInv, ChoiceInv, Chosen, Searching, Tuning, Candidates
  <1>5. CleanupInv(t)'
    BY DEF TypeInv, ThreadInv, CleanupInv, Candidates, ReferencedModules, SelectedModules, Alone
  <1> QED
    BY <1>1, <1>2, <1>3, <1>4, <1>5 DEF Kept, ThreadInv

LEMMA FindReferencedKeeps ==
  ASSUME IInv, NEW t \in Thread, FindReferenced(t)
  PROVE  Kept(t)
  <1> USE TuneAssumption, CandidateType, LocksExist, TableType
  <1> USE DEF IInv, FindReferenced, Goto, store
  <1>1. TypeInv'
    BY DEF TypeInv, Label, Keyed, Searching, Tuning, Store!TableOK
  <1>2. Frame(t)
    BY DEF TypeInv, Frame, KeyLock
  <1>3. LocksInv(t)'
    BY DEF TypeInv, ThreadInv, LocksInv, Keyed, Searching, Tuning, KeyLock, TuningLock
  <1>4. ChoiceInv(t)'
    BY DEF TypeInv, ThreadInv, ChoiceInv, Chosen, Searching, Tuning, Candidates
  <1>5. CleanupInv(t)'
    BY DEF TypeInv, ThreadInv, CleanupInv, Candidates, ReferencedModules, SelectedModules, Alone
  <1> QED
    BY <1>1, <1>2, <1>3, <1>4, <1>5 DEF Kept, ThreadInv

LEMMA FindSelectedKeeps ==
  ASSUME IInv, NEW t \in Thread, FindSelected(t)
  PROVE  Kept(t)
  <1> USE TuneAssumption, CandidateType, LocksExist, TableType
  <1> USE DEF IInv, FindSelected, Goto, store
  <1>1. TypeInv'
    BY DEF TypeInv, Label, Keyed, Searching, Tuning, Store!TableOK
  <1>2. Frame(t)
    BY DEF TypeInv, Frame, KeyLock
  <1>3. LocksInv(t)'
    BY DEF TypeInv, ThreadInv, LocksInv, Keyed, Searching, Tuning, KeyLock, TuningLock
  <1>4. ChoiceInv(t)'
    BY DEF TypeInv, ThreadInv, ChoiceInv, Chosen, Searching, Tuning, Candidates
  <1>5. CleanupInv(t)'
    BY DEF TypeInv, ThreadInv, CleanupInv, Candidates, ReferencedModules, SelectedModules, Alone
  <1> QED
    BY <1>1, <1>2, <1>3, <1>4, <1>5 DEF Kept, ThreadInv

LEMMA DeleteLoserKeeps ==
  ASSUME IInv, NEW t \in Thread, DeleteLoser(t)
  PROVE  Kept(t)
  <1> USE TuneAssumption, CandidateType, LocksExist, TableType
  <1> USE DEF IInv, DeleteLoser, store
  <1>1. TypeInv'
    BY DEF TypeInv, Label, Keyed, Searching, Tuning, Store!TableOK
  <1>2. Frame(t)
    BY DEF TypeInv, Frame, KeyLock
  <1>3. LocksInv(t)'
    BY DEF TypeInv, ThreadInv, LocksInv, Keyed, Searching, Tuning, KeyLock, TuningLock
  <1>4. ChoiceInv(t)'
    BY DEF TypeInv, ThreadInv, ChoiceInv, Chosen, Searching, Tuning, Candidates
  <1>5. CleanupInv(t)'
    <2>1. CleanupInv(t) /\ doomed'[t] \subseteq doomed[t]
      BY DEF TypeInv, ThreadInv
    <2>2. /\ Candidates(t)' = Candidates(t) /\ ReferencedModules' = ReferencedModules
          /\ SelectedModules(ProcOf[t])' = SelectedModules(ProcOf[t])
      BY DEF Candidates, ReferencedModules, SelectedModules
    <2> QED
      BY <2>1, <2>2 DEF CleanupInv, Alone
  <1> QED
    BY <1>1, <1>2, <1>3, <1>4, <1>5 DEF Kept, ThreadInv

LEMMA LeaveTuningKeeps ==
  ASSUME IInv, NEW t \in Thread, LeaveTuning(t)
  PROVE  Kept(t)
  <1> USE TuneAssumption, CandidateType, LocksExist, TableType
  <1> USE DEF IInv, LeaveTuning, Goto, Release, scratch, store
  <1>1. TypeInv'
    BY DEF TypeInv, Label, Keyed, Searching, Tuning, Store!TableOK
  <1>2. Frame(t)
    BY DEF TypeInv, Frame, KeyLock
  <1>3. LocksInv(t)'
    BY DEF TypeInv, ThreadInv, LocksInv, Keyed, Searching, Tuning, KeyLock, TuningLock
  <1>4. ChoiceInv(t)'
    BY DEF TypeInv, ThreadInv, ChoiceInv, Chosen, Searching, Tuning, Candidates
  <1>5. CleanupInv(t)'
    BY DEF TypeInv, ThreadInv, CleanupInv, Candidates, ReferencedModules, SelectedModules, Alone
  <1> QED
    BY <1>1, <1>2, <1>3, <1>4, <1>5 DEF Kept, ThreadInv

LEMMA RecordKeeps ==
  ASSUME IInv, NEW t \in Thread, Record(t)
  PROVE  Kept(t)
  <1> USE TuneAssumption, CandidateType, LocksExist, TableType
  <1> USE DEF IInv, Record, Goto, scratch, store
  <1>1. TypeInv'
    BY DEF TypeInv, Label, Keyed, Searching, Tuning, Store!TableOK
  <1>t. TypeInv
    OBVIOUS
  <1>s. selected' = [selected EXCEPT ![ProcOf[t]][call[t].key] = choice[t]]
    OBVIOUS
  <1>a. ProcOf[t] \in Proc /\ call[t].key \in Key /\ choice[t] \in Module \cup {NoEntry}
    BY DEF TypeInv
  <1>2. Frame(t)
    <2>1. lock'[KeyLock(t)] = t
      BY DEF ThreadInv, LocksInv, Keyed
    <2>2. \A p \in Proc, k \in Key :
            selected'[p][k] = selected[p][k] \/ (p = ProcOf[t] /\ k = call[t].key)
      BY ONLY <1>a, <1>s, <1>t, SelectionUpdate
    <2> QED
      BY <2>1, <2>2 DEF TypeInv, Frame, KeyLock
  <1>3. LocksInv(t)'
    BY DEF TypeInv, ThreadInv, LocksInv, Keyed, Searching, Tuning, KeyLock, TuningLock
  <1>4. ChoiceInv(t)'
    BY DEF TypeInv, ThreadInv, ChoiceInv, Chosen, Searching, Tuning, Candidates
  <1>5. CleanupInv(t)'
    BY DEF TypeInv, ThreadInv, CleanupInv, Candidates, ReferencedModules, SelectedModules, Alone
  <1> QED
    BY <1>1, <1>2, <1>3, <1>4, <1>5 DEF Kept, ThreadInv

LEMMA ReturnKeeps ==
  ASSUME IInv, NEW t \in Thread, Return(t)
  PROVE  Kept(t)
  <1> USE TuneAssumption, CandidateType, LocksExist, TableType
  <1> USE DEF IInv, Return, Goto, Release, Forget, store
  <1>1. TypeInv'
    BY DEF TypeInv, Label, Keyed, Searching, Tuning, Store!TableOK
  <1>2. Frame(t)
    BY DEF TypeInv, Frame, KeyLock
  <1>3. LocksInv(t)'
    BY DEF TypeInv, ThreadInv, LocksInv, Keyed, Searching, Tuning, KeyLock, TuningLock
  <1>4. ChoiceInv(t)'
    BY DEF TypeInv, ThreadInv, ChoiceInv, Chosen, Searching, Tuning, Candidates
  <1>5. CleanupInv(t)'
    BY DEF TypeInv, ThreadInv, CleanupInv, Candidates, ReferencedModules, SelectedModules, Alone
  <1> QED
    BY <1>1, <1>2, <1>3, <1>4, <1>5 DEF Kept, ThreadInv

-----------------------------------------------------------------------------
\* A death leaves the threads of the process idle, with nothing, and what the
\* others hold as it was.
LEMMA CrashKeeps ==
  ASSUME IInv, NEW p \in Proc, Crash(p)
  PROVE  IInv'
  <1> DEFINE dead == {t \in Thread : ProcOf[t] = p}
  <1>1. /\ lock' = [l \in Lock |-> IF lock[l] \in dead THEN None ELSE lock[l]]
        /\ selected' = [selected EXCEPT ![p] = [k \in Key |-> NoEntry]]
        /\ pc' = [t \in Thread |-> IF t \in dead THEN "idle" ELSE pc[t]]
        /\ index' = [t \in Thread |-> IF t \in dead THEN 1 ELSE index[t]]
        /\ results' = [t \in Thread |-> IF t \in dead THEN {} ELSE results[t]]
        /\ choice' = [t \in Thread |-> IF t \in dead THEN NoEntry ELSE choice[t]]
        /\ referenced' = [t \in Thread |-> IF t \in dead THEN {} ELSE referenced[t]]
        /\ doomed' = [t \in Thread |-> IF t \in dead THEN {} ELSE doomed[t]]
        /\ UNCHANGED <<schema, table, built, call, calls>>
    BY DEF Crash, store
  <1>2. TypeInv /\ \A t \in Thread : LocksInv(t) /\ ChoiceInv(t) /\ CleanupInv(t)
    BY DEF IInv, ThreadInv
  <1>3. TypeInv'
    BY <1>1, <1>2 DEF TypeInv, Label, Store!TableOK
  <1>4. ASSUME NEW t \in Thread, t \in dead PROVE ThreadInv(t)'
    BY <1>1, <1>2, <1>4 DEF ThreadInv, LocksInv, ChoiceInv, CleanupInv,
      Keyed, Searching, Tuning, Chosen
  <1>5. ASSUME NEW t \in Thread, t \notin dead PROVE ThreadInv(t)'
    <2>1. /\ pc'[t] = pc[t] /\ results'[t] = results[t] /\ choice'[t] = choice[t]
          /\ referenced'[t] = referenced[t] /\ doomed'[t] = doomed[t]
          /\ call' = call /\ selected'[ProcOf[t]] = selected[ProcOf[t]]
          /\ \A l \in Lock : lock[l] = t => lock'[l] = t
      BY <1>1, <1>2, <1>5, TuneAssumption DEF TypeInv
    <2>2. KeyLock(t) \in Lock /\ TuningLock \in Lock
      BY <1>2, LocksExist
    <2>3. /\ KeyLock(t)' = KeyLock(t) /\ Candidates(t)' = Candidates(t)
          /\ ReferencedModules' = ReferencedModules
          /\ SelectedModules(ProcOf[t])' = SelectedModules(ProcOf[t])
      BY <1>1, <2>1 DEF KeyLock, Candidates, ReferencedModules, SelectedModules
    <2>4. LocksInv(t)'
      BY <1>2, <2>1, <2>2, <2>3 DEF LocksInv, TuningLock
    <2>5. ChoiceInv(t)' /\ CleanupInv(t)'
      BY <1>2, <2>1, <2>3 DEF ChoiceInv, CleanupInv, Alone
    <2> QED
      BY <2>4, <2>5 DEF ThreadInv
  <1> QED
    BY <1>3, <1>4, <1>5 DEF IInv

LEMMA InvInit == Init => IInv
  <1> SUFFICES ASSUME Init PROVE IInv
    OBVIOUS
  <1>1. TypeInv
    <2>1. (CHOOSE c \in CallsOf : TRUE) \in CallsOf
      BY TuneAssumption
    <2> QED
      BY <2>1, TuneAssumption DEF Init, TypeInv, Label, Store!TableOK
  <1>2. ASSUME NEW t \in Thread PROVE ThreadInv(t)
    BY DEF Init, ThreadInv, LocksInv, ChoiceInv, CleanupInv, Keyed, Searching, Tuning, Chosen
  <1> QED
    BY <1>1, <1>2 DEF IInv

LEMMA InvStep == IInv /\ [Next]_vars => IInv'
  <1> SUFFICES ASSUME IInv, [Next]_vars PROVE IInv'
    OBVIOUS
  <1>1. ASSUME NEW t \in Thread, Kept(t) PROVE IInv'
    BY <1>1, OthersKeepInv DEF IInv, Kept
  <1>2. ASSUME NEW t \in Thread, Step(t) PROVE IInv'
    BY <1>1, <1>2, TakeKeyLockKeeps, LookupKeeps, TakeTuningLockKeeps, PrebuildKeeps, TimeCandidateKeeps, RaisesKeep,
      StoreWinnerKeeps, FindReferencedKeeps, FindSelectedKeeps, DeleteLoserKeeps, LeaveTuningKeeps, RecordKeeps, ReturnKeeps DEF Step
  <1>3. ASSUME NEW t \in Thread, NEW c \in CallsOf, Tune(t, c) PROVE IInv'
    BY <1>1, <1>3, TuneKeeps
  <1>4. ASSUME UNCHANGED vars PROVE IInv'
    BY <1>4 DEF vars, store, IInv, TypeInv, Store!TableOK, ThreadInv, LocksInv, ChoiceInv, CleanupInv,
      KeyLock, Candidates, ReferencedModules, SelectedModules, Alone
  <1> QED
    BY <1>2, <1>3, <1>4, CrashKeeps DEF Next

THEOREM Invariant == Spec => []IInv
  BY InvInit, InvStep, PTL DEF Spec

-----------------------------------------------------------------------------
(* TypeOK *)
THEOREM TypeCorrect == Spec => []TypeOK
  <1>1. IInv => TypeOK
    BY DEF IInv, TypeInv, TypeOK, ThreadInv, ChoiceInv, CleanupInv
  <1> QED
    BY <1>1, Invariant, PTL

(* tune answers with one of the candidates it was asked to choose from: an *)
(* earlier selection or an entry of the file made for other tensors with   *)
(* the same key is never used.                                             *)
THEOREM ChoicesLegal == Spec => []LegalChoice
  <1>1. IInv => LegalChoice
    BY DEF IInv, ThreadInv, ChoiceInv, Chosen, LegalChoice
  <1> QED
    BY <1>1, Invariant, PTL

(* The artifact-deleting lock makes the file's references stable between   *)
(* the look at them and the last deletion.                                 *)
THEOREM ReferencesKept == Spec => ReferencedKept
  <1>1. IInv /\ [Next]_vars => [built \ built' \subseteq Module \ ReferencedModules]_vars
    <2> SUFFICES ASSUME IInv, Next PROVE built \ built' \subseteq Module \ ReferencedModules
      OBVIOUS
    <2>1. ASSUME NEW t \in Thread, DeleteLoser(t) PROVE built \ built' \subseteq Module \ ReferencedModules
      BY <2>1 DEF DeleteLoser, IInv, TypeInv, ThreadInv, CleanupInv
    <2>2. ASSUME NEW t \in Thread, Step(t) \/ \E c \in CallsOf : Tune(t, c), ~DeleteLoser(t)
          PROVE built \subseteq built'
      BY <2>2 DEF Step, Tune, TakeKeyLock, Lookup, TakeTuningLock, RefuseCapture, Prebuild, TimeCandidate, NoWinner,
        StoreWinner, StoreFails, FindReferenced, FindSelected, LeaveTuning, Record, Return
    <2>3. ASSUME NEW p \in Proc, Crash(p) PROVE built \subseteq built'
      BY <2>3 DEF Crash
    <2> QED
      BY <2>1, <2>2, <2>3 DEF Next
  <1> QED
    BY <1>1, Invariant, PTL DEF Spec, ReferencedKept

(* Nor does a cleanup delete what its own process has selected, if no other *)
(* thread of the process tunes.                                             *)
THEOREM SelectionsKept == Spec => SelectedKept
  <1> DEFINE Spares == \A t \in Thread :
       /\ pc[t] = "delete"
       /\ \A u \in Thread : ProcOf[u] = ProcOf[t] => u = t
       => (doomed[t] \ doomed'[t]) \cap SelectedModules(ProcOf[t]) = {}
  <1>1. IInv => Spares
    BY DEF IInv, ThreadInv, CleanupInv, Alone
  <1> QED
    BY <1>1, Invariant, PTL DEF SelectedKept

(* A process times the candidates of a key at most once: while it waits    *)
(* for the tuning locks nobody else selects one of them.                   *)
THEOREM KeysTimedOnce == Spec => TimedOnce
  <1> DEFINE Once == \A t \in Thread : pc[t] = "prebuild" /\ pc'[t] = "time" =>
                       selected[ProcOf[t]][call[t].key] \notin Candidates(t)
  <1>1. IInv => Once
    <2> SUFFICES ASSUME IInv, NEW t \in Thread, pc[t] = "prebuild"
                 PROVE  selected[ProcOf[t]][call[t].key] \notin Candidates(t)
      OBVIOUS
    <2>1. selected[ProcOf[t]][call[t].key] = NoEntry
      BY DEF IInv, ThreadInv, ChoiceInv, Searching, Tuning
    <2> QED
      BY <2>1, CandidateType, TuneAssumption DEF IInv
  <1> QED
    BY <1>1, Invariant, PTL DEF TimedOnce

-----------------------------------------------------------------------------
(* The timing loop *)

\* The candidates before place i that run.
Ran(c, i) == {c[j] : j \in {k \in 1..Len(c) : k < i /\ Outcome[c[k]] = "ok"}}

Fresh == {"idle", "key", "device", "gpu", "artifacts", "prebuild"}

TimingInv(t) ==
  /\ pc[t] \in Fresh => index[t] = 1 /\ results[t] = {}
  /\ pc[t] = "time" =>
       /\ index[t] \in 1..(Len(call[t].candidates) + 1)
       /\ results[t] = Ran(call[t].candidates, index[t])

LoopInv == crashes \in Nat /\ \A t \in Thread : TimingInv(t)

LEMMA RanGrows ==
  ASSUME NEW c \in Seq(Module)
  PROVE  /\ Ran(c, 1) = {}
         /\ Ran(c, Len(c) + 1) = {m \in ToSet(c) : Outcome[m] = "ok"}
         /\ \A i \in 1..Len(c) : Ran(c, i + 1) =
              IF Outcome[c[i]] = "ok" THEN Ran(c, i) \cup {c[i]} ELSE Ran(c, i)
  <1>1. Len(c) \in Nat /\ DOMAIN c = 1..Len(c)
    OBVIOUS
  <1>2. {k \in 1..Len(c) : k < 1} = {} /\ \A k \in 1..Len(c) : k < Len(c) + 1
    BY <1>1
  <1>3. \A i \in 1..Len(c) : \A k \in 1..Len(c) : k < i + 1 <=> (k < i \/ k = i)
    BY <1>1
  <1>4. Ran(c, Len(c) + 1) = {m \in ToSet(c) : Outcome[m] = "ok"}
    BY <1>1, <1>2 DEF Ran, ToSet
  <1>5. \A i \in 1..Len(c) : Ran(c, i + 1) =
          IF Outcome[c[i]] = "ok" THEN Ran(c, i) \cup {c[i]} ELSE Ran(c, i)
    BY <1>1, <1>3 DEF Ran
  <1> QED
    BY <1>2, <1>4, <1>5 DEF Ran

LEMMA LoopStep ==
  ASSUME IInv, LoopInv, [Next]_vars
  PROVE  LoopInv'
  <1>t. TypeInv
    BY DEF IInv
  <1>1. ASSUME NEW u \in Thread, pc'[u] = pc[u], index'[u] = index[u], results'[u] = results[u],
               call'[u] = call[u]
        PROVE  TimingInv(u)'
    BY <1>1 DEF LoopInv, TimingInv, Ran
  <1>2. ASSUME NEW t \in Thread, pc'[t] \notin Fresh \cup {"time"} PROVE TimingInv(t)'
    BY <1>2 DEF TimingInv, Fresh
  <1>3. ASSUME NEW t \in Thread, pc'[t] \in Fresh, index'[t] = 1, results'[t] = {}
        PROVE  TimingInv(t)'
    BY <1>3 DEF TimingInv, Fresh
  <1>4. ASSUME NEW t \in Thread, Step(t) \/ \E c \in CallsOf : Tune(t, c)
        PROVE  LoopInv'
    <2>1. crashes' = crashes
      BY <1>4 DEF Step, Tune, TakeKeyLock, Lookup, TakeTuningLock, RefuseCapture, Prebuild, TimeCandidate,
        NoWinner, StoreWinner, StoreFails, FindReferenced, FindSelected, DeleteLoser, LeaveTuning, Record, Return
    <2>2. \A u \in Thread \ {t} : /\ pc'[u] = pc[u] /\ index'[u] = index[u]
                                  /\ results'[u] = results[u] /\ call'[u] = call[u]
      BY <1>4, <1>t DEF TypeInv, Step, Tune, TakeKeyLock, Lookup, TakeTuningLock, RefuseCapture, Prebuild,
        TimeCandidate, NoWinner, StoreWinner, StoreFails, FindReferenced, FindSelected, DeleteLoser, LeaveTuning,
        Record, Return, Goto, Raise, Forget, scratch
    <2>3. TimingInv(t)'
      <3>1. CASE \E c \in CallsOf : Tune(t, c)
        BY <1>3, <1>t, <3>1 DEF Tune, TypeInv, Goto, scratch, LoopInv, TimingInv, Fresh
      <3>2. CASE TakeKeyLock(t) \/ TakeTuningLock(t)
        <4>1. /\ pc[t] \in Fresh /\ index' = index /\ results' = results
              /\ pc'[t] \in {"return", "lookup", "device", "gpu", "artifacts", "prebuild"}
          BY <1>t, <3>2 DEF TakeKeyLock, TakeTuningLock, TypeInv, Goto, scratch, Fresh
        <4>2. index[t] = 1 /\ results[t] = {}
          BY <4>1 DEF LoopInv, TimingInv
        <4> QED
          BY <4>1, <4>2 DEF TimingInv, Fresh
      <3>3. CASE Prebuild(t)
        <4>1. /\ pc[t] = "prebuild" /\ pc'[t] = "time"
              /\ index'[t] = index[t] /\ results'[t] = results[t] /\ call'[t] = call[t]
          BY <1>t, <3>3 DEF Prebuild, TypeInv, Goto, scratch
        <4>2. index[t] = 1 /\ results[t] = {}
          BY <4>1 DEF LoopInv, TimingInv, Fresh
        <4>3. call[t].candidates \in Seq(Module) /\ 1 \in 1..(Len(call[t].candidates) + 1)
          BY <1>t, CandidateType
        <4>4. Ran(call[t].candidates, 1) = {}
          BY <4>3, RanGrows
        <4> QED
          BY <4>1, <4>2, <4>3, <4>4 DEF TimingInv, Fresh, Ran
      <3>4. CASE TimeCandidate(t)
        <4> DEFINE c == call[t].candidates
                   i == index[t]
        <4>1. c \in Seq(Module) /\ i \in 1..(Len(c) + 1) /\ results[t] = Ran(c, i) /\ i <= Len(c)
          BY <1>t, <3>4, CandidateType DEF TimeCandidate, LoopInv, TimingInv
        <4>2. i \in 1..Len(c) /\ i + 1 \in 1..(Len(c) + 1)
          BY <4>1
        <4>3. Ran(c, i + 1) = IF Outcome[c[i]] = "ok" THEN Ran(c, i) \cup {c[i]} ELSE Ran(c, i)
          BY <4>1, <4>2, RanGrows
        <4>4. /\ call'[t] = call[t]
              /\ \/ /\ pc'[t] = "time" /\ index'[t] = i + 1
                    /\ results'[t] = IF Outcome[c[i]] = "ok" THEN results[t] \cup {c[i]} ELSE results[t]
                 \/ pc'[t] = "idle" /\ index'[t] = 1 /\ results'[t] = {}
          BY <1>t, <3>4 DEF TimeCandidate, TypeInv, Raise, Goto, Forget
        <4>5. CASE pc'[t] = "idle" /\ index'[t] = 1 /\ results'[t] = {}
          BY <1>3, <4>5 DEF Fresh
        <4>6. CASE /\ pc'[t] = "time" /\ index'[t] = i + 1
                   /\ results'[t] = IF Outcome[c[i]] = "ok" THEN results[t] \cup {c[i]} ELSE results[t]
          <5>1. results'[t] = Ran(c, i + 1) /\ index'[t] \in 1..(Len(c) + 1)
            BY <4>1, <4>2, <4>3, <4>6
          <5> HIDE DEF i
          <5> QED
            BY <4>4, <4>6, <5>1 DEF TimingInv, Fresh, Ran
        <4> QED
          BY <4>4, <4>5, <4>6
      <3>5. CASE RefuseCapture(t) \/ NoWinner(t) \/ StoreFails(t) \/ Return(t)
        <4>1. pc'[t] = "idle" /\ index'[t] = 1 /\ results'[t] = {}
          BY <1>t, <3>5 DEF RefuseCapture, NoWinner, StoreFails, Return, TypeInv, Raise, Goto, Forget
        <4> QED
          BY <1>3, <4>1 DEF Fresh
      <3>6. CASE \/ Lookup(t) \/ StoreWinner(t) \/ FindReferenced(t) \/ FindSelected(t) \/ DeleteLoser(t)
                 \/ LeaveTuning(t) \/ Record(t)
        <4>1. pc'[t] \in {"record", "referenced", "selected", "delete", "return"}
          BY <1>t, <3>6 DEF Lookup, StoreWinner, FindReferenced, FindSelected, DeleteLoser, LeaveTuning, Record,
            TypeInv, Goto
        <4> QED
          BY <1>2, <4>1 DEF Fresh
      <3> QED
        BY <1>4, <3>1, <3>2, <3>3, <3>4, <3>5, <3>6 DEF Step
    <2> QED
      BY <1>1, <2>1, <2>2, <2>3 DEF LoopInv
  <1>5. ASSUME NEW p \in Proc, Crash(p) PROVE LoopInv'
    <2>1. crashes' \in Nat
      BY <1>5 DEF Crash, LoopInv
    <2>2. ASSUME NEW u \in Thread PROVE TimingInv(u)'
      <3>1. CASE ProcOf[u] = p
        <4>1. pc'[u] = "idle" /\ index'[u] = 1 /\ results'[u] = {}
          BY <1>5, <3>1 DEF Crash
        <4> QED
          BY <1>3, <4>1 DEF Fresh
      <3>2. CASE ProcOf[u] # p
        <4>1. pc'[u] = pc[u] /\ index'[u] = index[u] /\ results'[u] = results[u] /\ call'[u] = call[u]
          BY <1>5, <3>2 DEF Crash
        <4> QED
          BY <1>1, <4>1
      <3> QED
        BY <3>1, <3>2
    <2> QED
      BY <2>1, <2>2 DEF LoopInv
  <1>6. CASE UNCHANGED vars
    BY <1>1, <1>6 DEF vars, LoopInv
  <1> QED
    BY <1>4, <1>5, <1>6 DEF Next

(* The timing loop tries every candidate and drops those that fail with a  *)
(* RuntimeError, unless one of them raises another exception, which is the *)
(* only way it ends early.                                                 *)
THEOREM FailuresAreRecorded == Spec => FailuresRecorded
  <1> DEFINE Recorded == \A t \in Thread : pc[t] = "time" /\ pc'[t] # "time" /\ crashes' = crashes =>
       \/ results[t] = {m \in Candidates(t) : Outcome[m] = "ok"}
       \/ /\ pc'[t] = "idle"
          /\ index[t] <= Len(call[t].candidates)
          /\ Outcome[call[t].candidates[index[t]]] = "CalledProcessError"
  <1>1. Init => LoopInv
    BY DEF Init, LoopInv, TimingInv
  <1>2. IInv /\ LoopInv /\ [Next]_vars => [Recorded]_vars
    <2> SUFFICES ASSUME IInv, LoopInv, Next, NEW t \in Thread, pc[t] = "time", pc'[t] # "time", crashes' = crashes
                 PROVE  \/ results[t] = {m \in Candidates(t) : Outcome[m] = "ok"}
                        \/ /\ pc'[t] = "idle"
                           /\ index[t] <= Len(call[t].candidates)
                           /\ Outcome[call[t].candidates[index[t]]] = "CalledProcessError"
      OBVIOUS
    <2>t. TypeInv
      BY DEF IInv
    <2>1. \A p \in Proc : ~Crash(p)
      <3>1. crashes + 1 # crashes
        BY DEF LoopInv
      <3> QED
        BY <3>1 DEF Crash
    <2>2. \A u \in Thread \ {t} : ~(Step(u) \/ \E c \in CallsOf : Tune(u, c))
      <3> SUFFICES ASSUME NEW u \in Thread \ {t}, Step(u) \/ \E c \in CallsOf : Tune(u, c)
                   PROVE  pc'[t] = pc[t]
        OBVIOUS
      <3> QED
        BY <2>t DEF TypeInv, Step, Tune, TakeKeyLock, Lookup, TakeTuningLock, RefuseCapture, Prebuild,
          TimeCandidate, NoWinner, StoreWinner, StoreFails, FindReferenced, FindSelected, DeleteLoser, LeaveTuning,
          Record, Return, Goto, Raise
    <2>3. \/ TimeCandidate(t) /\ pc'[t] = "idle" /\ Outcome[call[t].candidates[index[t]]] = "CalledProcessError"
          \/ index[t] > Len(call[t].candidates)
      <3>1. Step(t) \/ \E c \in CallsOf : Tune(t, c)
        BY <2>1, <2>2 DEF Next
      <3>2. TimeCandidate(t) \/ NoWinner(t) \/ StoreWinner(t) \/ StoreFails(t)
        BY <3>1 DEF Step, Tune, TakeKeyLock, Lookup, TakeTuningLock, RefuseCapture, Prebuild, FindReferenced,
          FindSelected, DeleteLoser, LeaveTuning, Record, Return
      <3>3. CASE TimeCandidate(t)
        BY <2>t, <3>3 DEF TimeCandidate, TypeInv, Raise, Goto
      <3> QED
        BY <3>2, <3>3 DEF NoWinner, StoreWinner, StoreFails
    <2>4. CASE index[t] > Len(call[t].candidates)
      <3>1. call[t].candidates \in Seq(Module) /\ Len(call[t].candidates) \in Nat
        BY <2>t, CandidateType
      <3>2. /\ index[t] \in 1..(Len(call[t].candidates) + 1)
            /\ results[t] = Ran(call[t].candidates, index[t])
        BY DEF LoopInv, TimingInv
      <3>3. index[t] = Len(call[t].candidates) + 1
        BY <2>4, <3>1, <3>2
      <3> QED
        BY <3>1, <3>2, <3>3, RanGrows DEF Candidates
    <2> QED
      BY <2>3, <2>4 DEF TimeCandidate
  <1>3. []IInv /\ Init /\ [][Next]_vars => []LoopInv
    BY <1>1, LoopStep, PTL
  <1>4. []IInv /\ []LoopInv /\ [][Next]_vars => [][Recorded]_vars
    BY <1>2, PTL
  <1> QED
    BY <1>3, <1>4, Invariant, PTL DEF Spec, FailuresRecorded
=============================================================================
