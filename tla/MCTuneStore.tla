----------------------------- MODULE MCTuneStore -----------------------------
(* Instances of TuneStore for TLC. *)
EXTENDS TuneStore, TLC

CONSTANTS p1, p2, t1, t2, t3, k1, k2, k3, d1, d2, s1, s2

\* Two threads of one process, one of another.
PoolOf == t1 :> p1 @@ t2 :> p1 @@ t3 :> p2
\* k1 and k3 collide.
Hash == k1 :> d1 @@ k2 :> d2 @@ k3 :> d1
\* The second process runs an older version.
OldSchema == p1 :> 7 @@ p2 :> 6
==============================================================================
