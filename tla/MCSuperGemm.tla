---------------------------- MODULE MCSuperGemm ----------------------------
(* Two warps, one of two lanes and one of a single lane: two lanes are     *)
(* what an exchange through the scratch band needs, a third thread is one  *)
(* a block barrier may wait for.                                           *)
EXTENDS SuperGemm, TLC

CONSTANTS t1, t2, t3, w1, w2

MCThreads == {t1, t2, t3}
MCWarps == {w1, w2}
MCWarpOf == (t1 :> w1) @@ (t2 :> w1) @@ (t3 :> w2)
=============================================================================
