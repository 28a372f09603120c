------------------------------ MODULE TuneStore ------------------------------
(***************************************************************************)
(* The tuning-parameter file of kuipy/autotune.py, class TuneStore: every  *)
(* update reads tune_params.json under a FileLock, writes the merged table *)
(* to a temporary file named after the process, and renames it over the    *)
(* file.  lookup and referenced_modules read without the lock.             *)
(*                                                                         *)
(* Threads of several processes update; a process may be killed anywhere,  *)
(* which frees its lock and leaves its files as they are.                  *)
(***************************************************************************)
EXTENDS Naturals, FiniteSets

CONSTANTS
  Thread,      \* threads that call update
  Proc,        \* process identifiers
  ProcOf,      \* the process of each thread
  Version,     \* values of TUNING_SCHEMA_VERSION in use
  SchemaOf,    \* the version each process runs with
  Key,         \* tuning keys
  Digest,      \* their sha256 digests
  DigestOf,    \* the digest of each key: key_hash
  Params,      \* tuning parameters, the "spec" of an entry
  NoEntry,     \* no entry for a digest
  None,        \* no thread
  MaxUpdates,  \* bound: updates each thread makes
  MaxCrashes   \* bound: process deaths

ASSUME StoreAssumption ==
  /\ ProcOf \in [Thread -> Proc]
  /\ SchemaOf \in [Proc -> Version]
  /\ DigestOf \in [Key -> Digest]
  /\ None \notin Thread
  /\ NoEntry \notin [key : Key, spec : Params]
  /\ MaxUpdates \in Nat
  /\ MaxCrashes \in Nat

Entry == [key : Key, spec : Params]
Entries == [Digest -> Entry \cup {NoEntry}]
\* A file: missing, torn (opened for writing, not yet closed) or whole.
File == [state : {"missing", "torn", "whole"}, schema : Version, entries : Entries]

VARIABLES
  file,     \* tune_params.json
  tmp,      \* .tune_params.json.<pid>.tmp, per process
  lock,     \* holder of the FileLock
  pc,       \* where each thread is in update
  key,      \* the key a thread updates
  entry,    \* the entry it sets
  data,     \* the merged entries it is about to write
  updates,  \* updates begun by each thread
  crashes   \* process deaths so far

vars == <<file, tmp, lock, pc, key, entry, data, updates, crashes>>

NoEntries == [d \in Digest |-> NoEntry]
Schema(t) == SchemaOf[ProcOf[t]]
Tmp(t) == tmp[ProcOf[t]]

Init ==
  /\ \E v \in Version :
       /\ file = [state |-> "missing", schema |-> v, entries |-> NoEntries]
       /\ tmp = [p \in Proc |-> [state |-> "missing", schema |-> v, entries |-> NoEntries]]
  /\ lock = None
  /\ pc = [t \in Thread |-> "idle"]
  /\ key \in [Thread -> Key]
  /\ entry = [t \in Thread |-> NoEntry]
  /\ data = [t \in Thread |-> NoEntries]
  /\ updates = [t \in Thread |-> 0]
  /\ crashes = 0

Goto(t, label) == pc' = [pc EXCEPT ![t] = label]

\* _read: a missing file and one of another schema have no entries.
Read(v) == IF file.state = "whole" /\ file.schema = v THEN file.entries ELSE NoEntries

-----------------------------------------------------------------------------
StartUpdate(t, k, s) ==
  /\ pc[t] = "idle"
  /\ updates[t] < MaxUpdates
  /\ updates' = [updates EXCEPT ![t] = @ + 1]
  /\ key' = [key EXCEPT ![t] = k]
  /\ entry' = [entry EXCEPT ![t] = [key |-> k, spec |-> s]]
  /\ Goto(t, "lock")
  /\ UNCHANGED <<file, tmp, lock, data, crashes>>

\* Mutant: no FileLock.
TakeLockAnyway(t) ==
  /\ pc[t] = "lock"
  /\ lock' = t
  /\ Goto(t, "read")
  /\ UNCHANGED <<file, tmp, key, entry, data, updates, crashes>>
TakeLock(t) ==
  /\ pc[t] = "lock"
  /\ lock = None
  /\ lock' = t
  /\ Goto(t, "read")
  /\ UNCHANGED <<file, tmp, key, entry, data, updates, crashes>>

\* The file is read and the entry merged in, or update raises: for an entry of
\* another key with the same digest, for a file json cannot parse, or because
\* reading fails.
Merge(t) ==
  LET d == DigestOf[key[t]]
      existing == Read(Schema(t))
  IN
  /\ pc[t] = "read"
  /\ \/ /\ file.state # "torn"
        /\ existing[d] # NoEntry => existing[d].key = key[t]
        /\ data' = [data EXCEPT ![t] = [existing EXCEPT ![d] = entry[t]]]
        /\ Goto(t, "open")
     \/ UNCHANGED data /\ Goto(t, "unlock")
  /\ UNCHANGED <<file, tmp, lock, key, entry, updates, crashes>>

\* Mutant: the table is rewritten in place.
OpenInPlace(t) ==
  /\ pc[t] = "open"
  /\ file' = [file EXCEPT !.state = "torn"]
  /\ Goto(t, "dump")
  /\ UNCHANGED <<tmp, lock, key, entry, data, updates, crashes>>
\* open(tmp, "w") truncates; what it leaves is not JSON.
OpenTmp(t) ==
  /\ pc[t] = "open"
  /\ tmp' = [tmp EXCEPT ![ProcOf[t]].state = "torn"]
  /\ Goto(t, "dump")
  /\ UNCHANGED <<file, lock, key, entry, data, updates, crashes>>

\* json.dump, flush and fsync complete the temporary file.
Dump(t) ==
  /\ pc[t] = "dump"
  /\ tmp' = [tmp EXCEPT ![ProcOf[t]] =
               [state |-> "whole", schema |-> Schema(t), entries |-> data[t]]]
  /\ Goto(t, "replace")
  /\ UNCHANGED <<file, lock, key, entry, data, updates, crashes>>

\* Opening, writing or renaming it fails with an OSError, and the finally
\* clause unlinks what there is of it.
WriteFails(t) ==
  /\ pc[t] \in {"open", "dump", "replace"}
  /\ tmp' = [tmp EXCEPT ![ProcOf[t]].state = "missing"]
  /\ Goto(t, "unlock")
  /\ UNCHANGED <<file, lock, key, entry, data, updates, crashes>>

\* os.replace renames the temporary file over the table in one step.
Replace(t) ==
  /\ pc[t] = "replace"
  /\ file' = Tmp(t)
  /\ tmp' = [tmp EXCEPT ![ProcOf[t]].state = "missing"]
  /\ Goto(t, "unlock")
  /\ UNCHANGED <<lock, key, entry, data, updates, crashes>>

\* Mutant: update has no with block and returns without unlocking.
UnlockForgotten(t) ==
  /\ pc[t] = "unlock"
  /\ data' = [data EXCEPT ![t] = NoEntries]
  /\ Goto(t, "idle")
  /\ UNCHANGED <<file, tmp, lock, key, entry, updates, crashes>>
Unlock(t) ==
  /\ pc[t] = "unlock"
  /\ lock' = None
  /\ data' = [data EXCEPT ![t] = NoEntries]
  /\ Goto(t, "idle")
  /\ UNCHANGED <<file, tmp, key, entry, updates, crashes>>

\* A process dies: its threads stop, the system frees its lock.
Crash(p) ==
  /\ crashes < MaxCrashes
  /\ crashes' = crashes + 1
  /\ pc' = [t \in Thread |-> IF ProcOf[t] = p THEN "idle" ELSE pc[t]]
  /\ data' = [t \in Thread |-> IF ProcOf[t] = p THEN NoEntries ELSE data[t]]
  /\ lock' = IF lock # None /\ ProcOf[lock] = p THEN None ELSE lock
  /\ UNCHANGED <<file, tmp, key, entry, updates>>

Step(t) ==
  \/ TakeLock(t) \/ Merge(t) \/ OpenTmp(t) \/ Dump(t) \/ WriteFails(t)
  \/ Replace(t) \/ Unlock(t)

Next ==
  \/ \E t \in Thread :
       \/ Step(t)
       \/ \E k \in Key, s \in Params : StartUpdate(t, k, s)
  \/ \E p \in Proc : Crash(p)

Spec == Init /\ [][Next]_vars

\* The scheduler runs every thread that can run.
FairSpec == Spec /\ \A t \in Thread : WF_vars(Step(t))

-----------------------------------------------------------------------------
(* Properties *)

TypeOK ==
  /\ file \in File
  /\ tmp \in [Proc -> File]
  /\ lock \in Thread \cup {None}
  /\ pc \in [Thread -> {"idle", "lock", "read", "open", "dump", "replace", "unlock"}]
  /\ key \in [Thread -> Key]
  /\ entry \in [Thread -> Entry \cup {NoEntry}]
  /\ data \in [Thread -> Entries]
  /\ updates \in [Thread -> Nat]
  /\ crashes \in Nat

\* A reader that takes no lock (lookup, referenced_modules) never finds half
\* a file, whichever process died while it was writing.
NeverTorn == file.state # "torn"

\* The atomic table the store stands for.
Table == INSTANCE TuneTable WITH schema <- file.schema, table <- file.entries

\* Concurrent updates behave as if each took effect at once: none is lost,
\* none undoes another, and a death in the middle changes nothing.
Atomic == Table!Spec

\* An update that began ends, by returning or raising.
UpdatesEnd == \A t \in Thread : pc[t] # "idle" ~> pc[t] = "idle"
==============================================================================
