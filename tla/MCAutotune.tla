----------------------------- MODULE MCAutotune -----------------------------
(* Instances of Autotune for TLC. *)
EXTENDS Autotune, TLC

CONSTANTS p1, p2, t1, t2, t3, ka, kb, g1, m1, m2, m3, m4, m5

\* Two threads of one process, one of another.
PoolOf == t1 :> p1 @@ t2 :> p1 @@ t3 :> p2
PairOf == t1 :> p1 @@ t2 :> p2

AllRun == [m \in Module |-> "ok"]
SomeFail == m1 :> "ok" @@ m2 :> "ok" @@ m3 :> "ok" @@ m4 :> "RuntimeError" @@ m5 :> "CalledProcessError"

Args(k, cs) == [key |-> k, device |-> g1, candidates |-> cs]
\* A misaligned tensor has the key of an aligned one and fewer candidates.
\* The two keys share the candidate m2.
Calls == {Args(ka, <<m1, m2>>), Args(ka, <<m2>>), Args(kb, <<m2, m3>>)}
\* m2 is shared, m4 is rejected and m5 fails with another exception, after m1
\* has run and before m3 could.
CallsFailing == {Args(ka, <<m1, m2>>), Args(kb, <<m4, m2, m3>>), Args(kb, <<m4>>), Args(ka, <<m1, m5, m3>>)}
=============================================================================
