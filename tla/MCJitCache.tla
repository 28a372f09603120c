---------------------------- MODULE MCJitCache ----------------------------
(* Instances of JitCache for TLC. *)
EXTENDS JitCache, TLC

CONSTANTS p1, p2, t1, t2, t3, k1, k2

\* Two threads of one process (the autotuner's build pool) and one of another.
PoolOf == t1 :> p1 @@ t2 :> p1 @@ t3 :> p2
\* One thread in each of two processes.
PairOf == t1 :> p1 @@ t2 :> p2
\* One process with one thread.
SoloOf == t1 :> p1

\* How many calls each thread makes.
TwoEach == [t \in Thread |-> 2]
FourEach == [t \in Thread |-> 4]
OneOneTwo == t1 :> 1 @@ t2 :> 1 @@ t3 :> 2
ThreeAndTwo == t1 :> 3 @@ t2 :> 2
===========================================================================
