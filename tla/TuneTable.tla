------------------------------ MODULE TuneTable ------------------------------
(***************************************************************************)
(* What the TuneStore of kuipy/autotune.py promises: a table of tuning     *)
(* results that changes one entry at a time.  A table written under        *)
(* another tuning schema counts as empty: an update starts a new table.    *)
(***************************************************************************)
CONSTANTS Digest, Key, Params, Version, NoEntry

VARIABLES schema, table

Entry == [key : Key, spec : Params]
EmptyTable == [d \in Digest |-> NoEntry]

\* A table of known entries.
TableOK ==
  /\ schema \in Version
  /\ table \in [Digest -> Entry \cup {NoEntry}]

Init == schema \in Version /\ table = EmptyTable

\* The table as a process with tuning schema v reads it.
View(v) == IF schema = v THEN table ELSE EmptyTable

\* An update of a digest that another key owns is refused.
Put(v, d, e) ==
  /\ View(v)[d] # NoEntry => View(v)[d].key = e.key
  /\ schema' = v
  /\ table' = [View(v) EXCEPT ![d] = e]

Next == \E v \in Version, d \in Digest, e \in Entry : Put(v, d, e)

Spec == Init /\ [][Next]_<<schema, table>>
==============================================================================
