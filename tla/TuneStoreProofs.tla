--------------------------- MODULE TuneStoreProofs ---------------------------
(* TuneStore implements TuneTable, for any threads, processes, keys,       *)
(* digests (colliding or not) and schema versions.                         *)
EXTENDS TuneStore, TLAPS

Critical == {"read", "open", "dump", "replace", "unlock"}

\* What t is about to write is the table it read, which nobody has changed
\* since, with its own entry merged in.
Merged(t) ==
  LET d == DigestOf[key[t]]
      old == Read(Schema(t))
  IN /\ old[d] = NoEntry \/ old[d].key = key[t]
     /\ data[t] = [old EXCEPT ![d] = entry[t]]

ThreadInv(t) ==
  /\ pc[t] \in Critical => lock = t
  /\ pc[t] # "idle" => entry[t] \in Entry /\ entry[t].key = key[t]
  /\ pc[t] \in {"open", "dump", "replace"} => Merged(t)
  /\ pc[t] = "replace" =>
       Tmp(t) = [state |-> "whole", schema |-> Schema(t), entries |-> data[t]]

FileInv ==
  /\ NeverTorn
  /\ file.state = "missing" => file.entries = NoEntries

IInv == TypeOK /\ FileInv /\ \A t \in Thread : ThreadInv(t)

LEMMA TypeInit == Init => TypeOK
  BY StoreAssumption DEF Init, TypeOK, File, Entries, NoEntries

LEMMA ReadType == ASSUME TypeOK, NEW v \in Version PROVE Read(v) \in Entries
  BY DEF TypeOK, Read, File, Entries, NoEntries

LEMMA TypeStep == TypeOK /\ [Next]_vars => TypeOK'
  <1> SUFFICES ASSUME TypeOK, [Next]_vars PROVE TypeOK'
    OBVIOUS
  <1> USE StoreAssumption DEF TypeOK, Goto
  <1>1. ASSUME NEW t \in Thread, NEW k \in Key, NEW s \in Params, StartUpdate(t, k, s)
        PROVE  TypeOK'
    BY <1>1 DEF StartUpdate, Entry
  <1>2. ASSUME NEW t \in Thread, TakeLock(t) PROVE TypeOK'
    BY <1>2 DEF TakeLock
  <1>3. ASSUME NEW t \in Thread, Merge(t) PROVE TypeOK'
    <2>1. Read(Schema(t)) \in Entries /\ DigestOf[key[t]] \in Digest
      BY ReadType DEF Schema
    <2> DEFINE merged == [Read(Schema(t)) EXCEPT ![DigestOf[key[t]]] = entry[t]]
    <2>3. merged \in Entries
      BY <2>1 DEF Entries
    <2>4. data' = data \/ data' = [data EXCEPT ![t] = merged]
      BY <1>3 DEF Merge
    <2>2. data' \in [Thread -> Entries]
      BY <2>3, <2>4
    <2> QED
      BY <1>3, <2>2 DEF Merge
  <1>4. ASSUME NEW t \in Thread, OpenTmp(t) \/ WriteFails(t) PROVE TypeOK'
    <2>1. [tmp[ProcOf[t]] EXCEPT !.state = "torn"] \in File
      BY DEF File
    <2>2. [tmp[ProcOf[t]] EXCEPT !.state = "missing"] \in File
      BY DEF File
    <2>3. tmp' \in [Proc -> File]
      BY <1>4, <2>1, <2>2 DEF OpenTmp, WriteFails
    <2> QED
      BY <1>4, <2>3 DEF OpenTmp, WriteFails
  <1>5. ASSUME NEW t \in Thread, Dump(t) PROVE TypeOK'
    BY <1>5 DEF Dump, File, Schema
  <1>6. ASSUME NEW t \in Thread, Replace(t) PROVE TypeOK'
    BY <1>6 DEF Replace, File, Tmp
  <1>7. ASSUME NEW t \in Thread, Unlock(t) PROVE TypeOK'
    BY <1>7 DEF Unlock, NoEntries, Entries
  <1>8. ASSUME NEW p \in Proc, Crash(p) PROVE TypeOK'
    BY <1>8 DEF Crash, NoEntries, Entries
  <1>9. CASE UNCHANGED vars
    BY <1>9 DEF vars
  <1> QED
    BY <1>1, <1>2, <1>3, <1>4, <1>5, <1>6, <1>7, <1>8, <1>9 DEF Next, Step

LEMMA InvInit == Init => IInv
  BY TypeInit DEF Init, IInv, FileInv, NeverTorn, ThreadInv, Critical

\* A thread in its critical section is alone there.
LEMMA Alone ==
  ASSUME IInv, NEW t \in Thread, NEW u \in Thread, pc[t] \in Critical, pc[u] \in Critical
  PROVE  t = u
  BY DEF IInv, ThreadInv

LEMMA InvStep == IInv /\ [Next]_vars => IInv'
  <1> SUFFICES ASSUME IInv, [Next]_vars PROVE IInv'
    OBVIOUS
  <1>0. TypeOK'
    BY TypeStep DEF IInv
  <1> USE StoreAssumption DEF Goto
  <1>1. ASSUME NEW t \in Thread, NEW k \in Key, NEW s \in Params, StartUpdate(t, k, s)
        PROVE  IInv'
    <2>1. FileInv'
      BY <1>1 DEF StartUpdate, IInv, FileInv, NeverTorn
    <2>2. ASSUME NEW u \in Thread PROVE ThreadInv(u)'
      BY <1>1 DEF StartUpdate, IInv, TypeOK, ThreadInv, Merged, Read, Schema, Tmp, Entry, Critical
    <2> QED
      BY <1>0, <2>1, <2>2 DEF IInv
  <1>2. ASSUME NEW t \in Thread, TakeLock(t) PROVE IInv'
    <2>1. FileInv'
      BY <1>2 DEF TakeLock, IInv, FileInv, NeverTorn
    <2>2. ASSUME NEW u \in Thread PROVE ThreadInv(u)'
      BY <1>2 DEF TakeLock, IInv, TypeOK, ThreadInv, Merged, Read, Schema, Tmp, Critical
    <2> QED
      BY <1>0, <2>1, <2>2 DEF IInv
  <1>3. ASSUME NEW t \in Thread, Merge(t) PROVE IInv'
    <2>1. FileInv'
      BY <1>3 DEF Merge, IInv, FileInv, NeverTorn
    <2>2. ASSUME NEW u \in Thread, u # t PROVE ThreadInv(u)'
      BY <1>3, <2>2 DEF Merge, IInv, TypeOK, ThreadInv, Merged, Read, Schema, Tmp, Critical
    <2>3. ThreadInv(t)'
      <3>1. /\ UNCHANGED <<file, key, entry, lock>>
            /\ pc[t] = "read" /\ pc'[t] \in {"open", "unlock"}
        BY <1>3 DEF Merge, IInv, TypeOK
      <3>2. pc'[t] = "open" => Merged(t)'
        <4>1. Read(Schema(t))' = Read(Schema(t))
          BY <3>1 DEF Read, Schema
        <4>2. pc'[t] = "open" =>
                LET d == DigestOf[key[t]]
                    old == Read(Schema(t))
                IN  /\ old[d] = NoEntry \/ old[d].key = key[t]
                    /\ data'[t] = [old EXCEPT ![d] = entry[t]]
          BY <1>3 DEF Merge, IInv, TypeOK
        <4> QED
          BY <3>1, <4>1, <4>2 DEF Merged
      <3> QED
        BY <3>1, <3>2 DEF IInv, ThreadInv, Critical
    <2> QED
      BY <1>0, <2>1, <2>2, <2>3 DEF IInv
  <1>4. ASSUME NEW t \in Thread, OpenTmp(t) \/ WriteFails(t) \/ Dump(t) PROVE IInv'
    <2>1. FileInv'
      BY <1>4 DEF OpenTmp, WriteFails, Dump, IInv, FileInv, NeverTorn
    <2>2. ASSUME NEW u \in Thread, u # t PROVE ThreadInv(u)'
      <3>1. pc[t] \in Critical /\ pc[u] \notin Critical
        BY <1>4, <2>2, Alone DEF OpenTmp, WriteFails, Dump, Critical
      <3> QED
        BY <1>4, <2>2, <3>1 DEF OpenTmp, WriteFails, Dump, IInv, TypeOK, ThreadInv, Critical
    <2>3. ThreadInv(t)'
      BY <1>4 DEF OpenTmp, WriteFails, Dump, IInv, TypeOK, ThreadInv, Merged, Read, Schema, Tmp, Critical
    <2> QED
      BY <1>0, <2>1, <2>2, <2>3 DEF IInv
  <1>5. ASSUME NEW t \in Thread, Replace(t) \/ Unlock(t) PROVE IInv'
    <2>1. FileInv'
      BY <1>5 DEF Replace, Unlock, IInv, FileInv, NeverTorn, ThreadInv
    <2>2. ASSUME NEW u \in Thread, u # t PROVE ThreadInv(u)'
      <3>1. pc[t] \in Critical /\ pc[u] \notin Critical
        BY <1>5, <2>2, Alone DEF Replace, Unlock, Critical
      <3> QED
        BY <1>5, <2>2, <3>1 DEF Replace, Unlock, IInv, TypeOK, ThreadInv, Critical
    <2>3. ThreadInv(t)'
      BY <1>5 DEF Replace, Unlock, IInv, TypeOK, ThreadInv, Critical
    <2> QED
      BY <1>0, <2>1, <2>2, <2>3 DEF IInv
  <1>6. ASSUME NEW p \in Proc, Crash(p) PROVE IInv'
    <2>1. FileInv'
      BY <1>6 DEF Crash, IInv, FileInv, NeverTorn
    <2>2. ASSUME NEW u \in Thread PROVE ThreadInv(u)'
      BY <1>6 DEF Crash, IInv, TypeOK, ThreadInv, Merged, Read, Schema, Tmp, Critical
    <2> QED
      BY <1>0, <2>1, <2>2 DEF IInv
  <1>7. CASE UNCHANGED vars
    <2>1. FileInv'
      BY <1>7 DEF vars, IInv, FileInv, NeverTorn
    <2>2. ASSUME NEW u \in Thread PROVE ThreadInv(u)'
      BY <1>7 DEF vars, IInv, ThreadInv, Merged, Read, Schema, Tmp
    <2> QED
      BY <1>0, <2>1, <2>2 DEF IInv
  <1> QED
    BY <1>1, <1>2, <1>3, <1>4, <1>5, <1>6, <1>7 DEF Next, Step

\* Every state is well typed, and no reader ever finds half a file.
THEOREM FileNeverTorn == Spec => [](TypeOK /\ NeverTorn)
  <1>1. IInv => TypeOK /\ NeverTorn
    BY DEF IInv, FileInv
  <1> QED
    BY <1>1, InvInit, InvStep, PTL DEF Spec

-----------------------------------------------------------------------------
LEMMA InitRefines == Init => Table!Init
  BY DEF Init, Table!Init, NoEntries, Table!EmptyTable

\* The rename is the only step that changes the table, and it is a Put.
LEMMA ReplaceIsPut ==
  ASSUME IInv, NEW t \in Thread, Replace(t)
  PROVE  Table!Put(Schema(t), DigestOf[key[t]], entry[t])
  <1>1. Table!View(Schema(t)) = Read(Schema(t))
    BY DEF IInv, FileInv, NeverTorn, TypeOK, File, Table!View, Table!EmptyTable, Read, NoEntries
  <1>2. Merged(t) /\ entry[t].key = key[t]
    BY DEF Replace, IInv, ThreadInv
  <1>3. file'.schema = Schema(t) /\ file'.entries = data[t]
    BY DEF Replace, IInv, ThreadInv
  <1> QED
    BY <1>1, <1>2, <1>3 DEF Merged, Table!Put

LEMMA StepRefines == IInv /\ [Next]_vars => [Table!Next]_<<file.schema, file.entries>>
  <1> SUFFICES ASSUME IInv, [Next]_vars, ~UNCHANGED file PROVE Table!Next
    OBVIOUS
  <1>1. PICK t \in Thread : Replace(t)
    BY DEF Next, Step, vars, StartUpdate, TakeLock, Merge, OpenTmp, Dump, WriteFails, Unlock, Crash
  <1>2. Schema(t) \in Version /\ DigestOf[key[t]] \in Digest /\ entry[t] \in Table!Entry
    BY <1>1, StoreAssumption DEF Replace, IInv, TypeOK, ThreadInv, Schema, Entry, Table!Entry
  <1> QED
    BY <1>1, <1>2, ReplaceIsPut DEF Table!Next

\* Concurrent updates of the tuning file, with deaths at any point, behave
\* like atomic updates of one table.
THEOREM StoreImplementsTable == Spec => Atomic
  <1> QED
    BY InitRefines, InvInit, InvStep, StepRefines, PTL DEF Spec, Atomic, Table!Spec
==============================================================================
