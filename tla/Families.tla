------------------------------ MODULE Families -----------------------------
(***************************************************************************)
(* The families of operators behind one set of names: what supported()     *)
(* lists for a call, the module a spec is built into, what the templates   *)
(* render, and what the kernel requires and computes.                      *)
(***************************************************************************)
EXTENDS GemmTiles, MapFamilies, MoveFamilies

GemmOps == {"mm", "bmm", "addmm"}
AllOps == ElementwiseOps \cup ReduceOps \cup GemmOps \cup {"softmax"} \cup SdpaOps \cup MoveOps

-----------------------------------------------------------------------------
(* REGISTRY: the families by op *)

\* The specs supported() may return: one, or for a GEMM any that tuning picks.
Specs(c) ==
  CASE c.op \in ElementwiseOps -> ElementwiseSpecs(c)
    [] c.op \in ReduceOps -> ReduceSpecs(c)
    [] c.op = "mm" -> MmSpecs(c)
    [] c.op = "bmm" -> BmmSpecs(c)
    [] c.op = "addmm" -> AddmmSpecs(c)
    [] c.op = "softmax" -> SoftmaxSpecs(c)
    [] c.op \in SdpaOps -> SdpaSpecs(c)
    [] c.op = "cat" -> CatSpecs(c)
    [] OTHER -> IndexedSpecs(c)

ModuleName(s) ==
  CASE s.family = "elementwise" -> ElementwiseName(s)
    [] s.family = "reduce" -> ReduceName(s)
    [] s.family \in GemmOps -> GemmName(s)
    [] s.family = "softmax" -> <<"softmax", s.dtype>>
    [] s.family = "sdpa" -> SdpaName(s)
    [] OTHER -> MoveName(s)

Kernel(s) ==
  CASE s.family = "elementwise" -> ElementwiseKernel(s)
    [] s.family = "reduce" -> ReduceKernel(s)
    [] s.family \in GemmOps -> GemmKernel(s)
    [] s.family = "softmax" -> [et |-> s.dtype]
    [] s.family = "sdpa" -> SdpaKernel(s)
    [] OTHER -> MoveKernel(s)

\* run() raises before it builds, or in the wrapper.
RenderFails(s) ==
  \/ s.family = "elementwise" /\ \E i \in DOMAIN s.consts : CastConst(s.consts[i], s.ins[1]) = None
  \/ s.family = "reduce" /\ MapsRaise(s.pre, s.in \in FloatDtypes)
  \/ s.family = "reduce" /\ MapsRaise(s.post, s.out \in FloatDtypes)
LaunchFails(s, c) == s.family \in GemmOps /\ WrapperRefuses(s, c)

Accepts(k, s, c) ==
  CASE s.family = "elementwise" -> ElementwiseAccepts(c, k)
    [] s.family = "reduce" -> ReduceAccepts(c)
    [] s.family \in GemmOps -> GemmAccepts(s, c)
    [] s.family = "softmax" -> SoftmaxAccepts(s)
    [] s.family = "sdpa" -> SdpaAccepts(s, c)
    [] OTHER -> MoveAccepts(c)

\* What the kernel k computes on the arguments of c, and what aten does.
Term(k, s, c) ==
  CASE s.family = "elementwise" -> ElementwiseTerm(k, c)
    [] s.family = "reduce" -> k.body
    [] s.family \in GemmOps -> GemmTerm(k, c)
    [] s.family = "softmax" -> <<"softmax">>
    [] s.family = "sdpa" -> SdpaTerm(k, s, c)
    [] OTHER -> MoveTerm(k)
Meaning(c) ==
  CASE c.op \in ElementwiseOps -> ElementwiseMeaning(c)
    [] c.op \in ReduceOps -> Reduction(c)
    [] c.op \in GemmOps -> GemmMeaning(c)
    [] c.op = "softmax" -> <<"softmax">>
    [] c.op \in SdpaOps -> SdpaMeaning(c)
    [] OTHER -> MoveMeaning(c)
=============================================================================
