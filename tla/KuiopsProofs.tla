---------------------------- MODULE KuiopsProofs ----------------------------
(***************************************************************************)
(* Theorems about Kuiops, for any program of well-typed calls.  They rest  *)
(* on the forms of the specs that supported() lists: what a name and a     *)
(* kernel take from a spec, what the key takes from an argument, and what  *)
(* the tile enumerations bound are read off those forms.                   *)
(***************************************************************************)
EXTENDS Kuiops, FiniteSetTheorems, NaturalsInduction, SequenceTheorems, WellFoundedInduction, TLAPS

\* A set of natural numbers has a least element.
LEMMA LeastNumber ==
  ASSUME NEW T, T \subseteq Nat, T # {}
  PROVE  \E x \in T : \A y \in T : x <= y
  <1>1. PICK x \in T : \A y \in T : ~(<<y, x>> \in OpToRel(<, Nat))
    BY WFMin, NatLessThanWellFounded, Zenon
  <1>2. \A y \in T : ~(y < x)
    BY <1>1, Zenon DEF OpToRel
  <1> QED BY <1>2

-----------------------------------------------------------------------------
(* What supported() lists *)

\* A spec of the family of a call.
ElementwiseForm(s) ==
  /\ s = ElementwiseSpec(s.kind, s.method, s.ins, s.out, s.consts)
  /\ s.kind = "map" => s.ins = <<s.out>>
  /\ s.kind = "map2" => s.ins = <<s.out, s.out>>
  /\ s.kind = "map_nip" => s.ins = <<s.ins[1]>> /\ s.out = "bool"
  /\ s.kind = "map3" => s.ins = <<s.ins[1], s.out, s.out>>
  /\ s.kind \in {"map", "map2", "map_nip", "map3"}

LEMMA ElementwiseListed ==
  ASSUME NEW c, c.op \in ElementwiseOps, NEW s \in ElementwiseSpecs(c)
  PROVE  ElementwiseForm(s)
  BY DEF ElementwiseSpecs, ArithmeticSpecs, ElementwiseForm, ElementwiseSpec, ElementwiseOps

ReduceForm(s) ==
  /\ s = [family |-> "reduce", op |-> s.op, in |-> s.in, out |-> s.out, rank |-> s.rank,
          approx |-> s.approx, keepdim |-> s.keepdim, pre |-> s.pre, post |-> s.post]
  /\ s.family = "reduce"
  /\ s.approx \in BOOLEAN
  /\ s.approx = (s.in \in FloatDtypes)
  /\ s.approx => s.out = s.in

LEMMA ReduceListed ==
  ASSUME NEW c, c.op \in ReduceOps, NEW s \in ReduceSpecs(c)
  PROVE  ReduceForm(s)
  <1> DEFINE typing == ReduceTyping(c)
             X == c.args[1]
             approx == X.dtype \in FloatDtypes
             rank == Len(X.shape)
             keepdim == Argument(c, 3, "keepdim", Flag(FALSE)).val
             pre == ResolveMaps(Keyword(c, "pre_map", List(<<>>)).items, X.dtype, approx)
             post == Scaled(c.op, ResolveMaps(Keyword(c, "post_map", List(<<>>)).items, typing.out, approx))
  <1>1. typing # None
    BY DEF ReduceSpecs
  <1>2. s = [family |-> "reduce", op |-> typing.op, in |-> X.dtype, out |-> typing.out, rank |-> rank,
                approx |-> approx, keepdim |-> keepdim, pre |-> pre, post |-> post]
    BY ZenonT(60) DEF ReduceSpecs
  <1>3. X.dtype \in FloatDtypes => typing.out = X.dtype
    BY <1>1 DEF ReduceTyping
  <1> HIDE DEF typing, X, approx, rank, keepdim, pre, post
  <1>4. /\ s.family = "reduce"
        /\ s.op = typing.op /\ s.in = X.dtype /\ s.out = typing.out /\ s.rank = rank
        /\ s.approx = approx /\ s.keepdim = keepdim /\ s.pre = pre /\ s.post = post
    BY <1>2, Zenon
  <1>5. s = [family |-> "reduce", op |-> s.op, in |-> s.in, out |-> s.out, rank |-> s.rank,
          approx |-> s.approx, keepdim |-> s.keepdim, pre |-> s.pre, post |-> s.post]
    BY <1>2, <1>4, Zenon
  <1>6. s.approx = (s.in \in FloatDtypes)
    BY <1>4, Zenon DEF approx
  <1>8. approx \in BOOLEAN
    BY DEF approx
  <1>9. s.approx \in BOOLEAN
    BY <1>4, <1>8, Zenon
  <1>7. s.approx => s.out = s.in
    BY <1>3, <1>4, Zenon DEF approx
  <1> QED BY <1>4, <1>5, <1>6, <1>7, <1>9 DEF ReduceForm

GemmForm(s) ==
  /\ s = [family |-> s.family, backend |-> s.backend, ty |-> s.ty, tile |-> s.tile, cbcast |-> s.cbcast]
  /\ s.ty = [in |-> s.ty.in, acc |-> s.ty.acc, out |-> s.ty.out]
  /\ s.family = "bmm" => s.backend = "bt2d" /\ ~s.cbcast
  /\ s.cbcast \in BOOLEAN
  /\ BackendSupports(s.backend, s.ty)

LEMMA GemmSpecsListed ==
  ASSUME NEW op, NEW c, NEW backends, NEW batch, NEW M, NEW N, NEW K, NEW cbcast \in BOOLEAN,
         op = "bmm" => backends = {"bt2d"} /\ ~cbcast,
         NEW s \in GemmSpecs(op, c, backends, batch, M, N, K, cbcast)
  PROVE  /\ GemmForm(s) /\ s.family = op /\ s.cbcast = cbcast
         /\ s.backend \in backends
         /\ s.tile \in Tiles(s.backend, s.ty, batch, M, N, K)
         /\ TnOutOk(s.backend, N, s.ty.out)
         /\ s.ty = TypesFor(c, s.backend, c.args[Len(c.args)].dtype)
  <1>1. s.ty = TypesFor(c, s.backend, c.args[Len(c.args)].dtype)
    <2> HIDE DEF TypesFor
    <2> QED BY DEF GemmSpecs, Plans
  <1> QED BY <1>1 DEF GemmSpecs, GemmForm, Plans, TypesFor

LEMMA SpecsOf ==
  ASSUME NEW c
  PROVE  /\ c.op \in ElementwiseOps => Specs(c) = ElementwiseSpecs(c)
         /\ c.op \in ReduceOps => Specs(c) = ReduceSpecs(c)
         /\ c.op = "mm" => Specs(c) = MmSpecs(c)
         /\ c.op = "bmm" => Specs(c) = BmmSpecs(c)
         /\ c.op = "addmm" => Specs(c) = AddmmSpecs(c)
         /\ c.op = "softmax" => Specs(c) = SoftmaxSpecs(c)
         /\ c.op \in SdpaOps => Specs(c) = SdpaSpecs(c)
         /\ c.op = "cat" => Specs(c) = CatSpecs(c)
         /\ c.op \in {"gather", "scatter"} => Specs(c) = IndexedSpecs(c)
  BY DEF Specs, ElementwiseOps, ReduceOps, SdpaOps, Arithmetic, Unary, Binary, Compare

\* A listed tiling belongs to the sizes of the call.
LEMMA GemmListed ==
  ASSUME NEW c, c.op \in GemmOps, MatrixCall(c), NEW s \in Specs(c)
  PROVE  /\ GemmForm(s) /\ s.family = c.op
         /\ LET n == GemmSize(c) IN
            /\ s.tile \in Tiles(s.backend, s.ty, n.batch, n.M, n.N, n.K)
            /\ TnOutOk(s.backend, n.N, s.ty.out)
         /\ s.backend \in MmBackends \cup AddmmBackends
         /\ s.ty = TypesFor(c, s.backend, c.args[Len(c.args)].dtype)
         /\ s.backend \in TnBackends => ColumnMajor(c.args[Len(c.args)], GemmSize(c).K)
  <1> DEFINE n == GemmSize(c)
             A == c.args[Len(c.args) - 1]
             B == c.args[Len(c.args)]
             Backends(all) == OperandBackends(all, A, B, A.shape[2])
  <1>1. \A all : /\ Backends(all) \subseteq all
                 /\ \A b \in Backends(all) : b \in TnBackends => ColumnMajor(B, A.shape[2])
    BY DEF OperandBackends
  <1>2. CASE c.op = "mm"
    <2>1. s \in MmSpecs(c) /\ Len(c.args) = 2
      BY <1>2, SpecsOf DEF MatrixCall
    <2>2. A = c.args[1] /\ B = c.args[2]
      BY <2>1
    <2> HIDE DEF A, B
    <2>3. /\ Matrices(A, B, 2)
          /\ \E cbcast \in BOOLEAN :
               s \in GemmSpecs("mm", c, Backends(MmBackends), 1, A.shape[1], B.shape[2], A.shape[2], cbcast)
      BY <2>1, <2>2 DEF MmSpecs
    <2>4. GemmSize(c) = [batch |-> 1, M |-> A.shape[1], N |-> B.shape[2], K |-> A.shape[2]]
      BY <2>3 DEF GemmSize, Matrices, A, B
    <2> HIDE DEF Backends
    <2>5. B = c.args[Len(c.args)]
      BY DEF B
    <2> QED BY <1>1, <1>2, <2>3, <2>4, GemmSpecsListed, <2>5
  <1>3. CASE c.op = "bmm"
    <2>1. s \in BmmSpecs(c) /\ Len(c.args) = 2
      BY <1>3, SpecsOf DEF MatrixCall
    <2>2. A = c.args[1] /\ B = c.args[2]
      BY <2>1
    <2> HIDE DEF A, B
    <2>3. /\ Matrices(A, B, 3)
          /\ \E cbcast \in BOOLEAN :
               /\ ~cbcast
               /\ s \in GemmSpecs("bmm", c, {"bt2d"}, A.shape[1], A.shape[2], B.shape[3], A.shape[3], cbcast)
      BY <2>1, <2>2 DEF BmmSpecs
    <2>4. GemmSize(c) = [batch |-> A.shape[1], M |-> A.shape[2], N |-> B.shape[3], K |-> A.shape[3]]
      BY <2>3 DEF GemmSize, Matrices, A, B
    <2> QED BY <1>3, <2>3, <2>4, GemmSpecsListed DEF MmBackends, TnBackends, SplitBackends
  <1>4. CASE c.op = "addmm"
    <2>1. s \in AddmmSpecs(c) /\ Len(c.args) = 3
      BY <1>4, SpecsOf DEF MatrixCall
    <2>2. A = c.args[2] /\ B = c.args[3]
      BY <2>1
    <2> HIDE DEF A, B
    <2>3. /\ Matrices(A, B, 2)
          /\ \E all \in {AddmmBackends, AddmmBackends \ {"bt2d"}}, cbcast \in BOOLEAN :
               s \in GemmSpecs("addmm", c, Backends(all), 1, A.shape[1], B.shape[2], A.shape[2], cbcast)
      BY <2>1, <2>2 DEF AddmmSpecs
    <2>4. GemmSize(c) = [batch |-> 1, M |-> A.shape[1], N |-> B.shape[2], K |-> A.shape[2]]
      BY <2>3 DEF GemmSize, Matrices, A, B
    <2> HIDE DEF Backends
    <2>5. B = c.args[Len(c.args)]
      BY DEF B
    <2> QED BY <1>1, <1>4, <2>3, <2>4, GemmSpecsListed, <2>5
  <1> QED BY <1>2, <1>3, <1>4 DEF GemmOps

MoveForm(s) ==
  /\ s = [family |-> s.family, dtype |-> s.dtype, rank |-> s.rank, dim |-> s.dim]
  /\ s.family \in MoveOps

SdpaForm(s) ==
  s = [family |-> "sdpa", dtype |-> s.dtype, nw |-> s.nw, variant |-> s.variant, mask |-> s.mask,
       causal |-> s.causal, scale |-> s.scale]

LEMMA MoveListed ==
  ASSUME NEW c, NEW s \in Specs(c), c.op \in MoveOps
  PROVE  MoveForm(s)
  <1>1. s \in CatSpecs(c) \cup IndexedSpecs(c)
    BY SpecsOf DEF MoveOps
  <1>2. CASE s \in CatSpecs(c)
    BY <1>2 DEF CatSpecs, MoveSpec, MoveForm, MoveOps
  <1>3. CASE s \in IndexedSpecs(c)
    BY <1>3 DEF IndexedSpecs, MoveSpec, MoveForm
  <1> QED BY <1>1, <1>2, <1>3

LEMMA SdpaListed ==
  ASSUME NEW c, NEW s \in SdpaSpecs(c)
  PROVE  SdpaForm(s)
  <1>1. \E dtype, nw, mask, causal, scale :
          s = [family |-> "sdpa", dtype |-> dtype, nw |-> nw, variant |-> c.op, mask |-> mask,
               causal |-> causal, scale |-> scale]
    BY ZenonT(60) DEF SdpaSpecs
  <1> QED BY <1>1 DEF SdpaForm

-----------------------------------------------------------------------------
(* Names and kernels *)

SpecForm(s) ==
  \/ s.family = "elementwise" /\ ElementwiseForm(s)
  \/ s.family = "reduce" /\ ReduceForm(s)
  \/ s.family \in GemmOps /\ GemmForm(s)
  \/ s.family = "softmax"
  \/ s.family = "sdpa" /\ SdpaForm(s)
  \/ s.family \in MoveOps /\ MoveForm(s)

LEMMA SoftmaxListed ==
  ASSUME NEW c, c.op = "softmax", NEW s \in Specs(c)
  PROVE  s.family = "softmax"
  <1>1. s \in SoftmaxSpecs(c)
    BY SpecsOf, Zenon
  <1> QED BY <1>1, SMT DEF SoftmaxSpecs

\* Whatever the call, what supported() lists has the form of its family.
LEMMA ListedForm ==
  ASSUME NEW c, c.op \in AllOps, c.op \in GemmOps => MatrixCall(c), NEW s \in Specs(c)
  PROVE  SpecForm(s)
  <1>1. CASE c.op \in ElementwiseOps
    BY <1>1, SpecsOf, ElementwiseListed DEF SpecForm, ElementwiseForm, ElementwiseSpec
  <1>2. CASE c.op \in ReduceOps
    <2>1. ReduceForm(s) BY <1>2, SpecsOf, ReduceListed
    <2>2. s.family = "reduce"  BY <2>1, Zenon DEF ReduceForm
    <2> QED BY <2>1, <2>2 DEF SpecForm
  <1>3. CASE c.op \in GemmOps
    BY <1>3, GemmListed DEF SpecForm
  <1>4. CASE c.op = "softmax"
    BY <1>4, SoftmaxListed, Zenon DEF SpecForm
  <1>5. CASE c.op \in SdpaOps
    BY <1>5, SpecsOf, SdpaListed DEF SdpaForm, SpecForm
  <1>6. CASE c.op \in MoveOps
    BY <1>6, MoveListed DEF MoveForm, SpecForm
  <1> QED BY <1>1, <1>2, <1>3, <1>4, <1>5, <1>6 DEF AllOps

\* FStar merges bool and u8 only, which are spelled alike as constants.
LEMMA FStarFloating ==
  ASSUME NEW a, NEW b, FStar(a) = FStar(b)
  PROVE  a \in FloatDtypes <=> b \in FloatDtypes
  BY DEF FStar, FloatDtypes

LEMMA ElementwiseNames ==
  ASSUME NEW s, NEW t, ElementwiseForm(s), ElementwiseForm(t), ElementwiseName(s) = ElementwiseName(t)
  PROVE  ElementwiseKernel(s) = ElementwiseKernel(t)
  <1>1. /\ s.kind = t.kind /\ s.method = t.method /\ s.consts = t.consts
        /\ [i \in DOMAIN s.ins |-> FStar(s.ins[i])] = [i \in DOMAIN t.ins |-> FStar(t.ins[i])]
    BY DEF ElementwiseName
  <1>2. DOMAIN s.ins = DOMAIN t.ins /\ \A i \in DOMAIN s.ins : FStar(s.ins[i]) = FStar(t.ins[i])
    BY <1>1, Zenon
  <1>3. 1 \in DOMAIN s.ins
    BY DEF ElementwiseForm
  <1>4. FStar(s.ins[1]) = FStar(t.ins[1]) /\ (s.ins[1] \in FloatDtypes <=> t.ins[1] \in FloatDtypes)
    BY <1>2, <1>3, FStarFloating
  <1>5. ASSUME NEW x PROVE CastConst(x, s.ins[1]) = CastConst(x, t.ins[1])
    BY <1>4 DEF CastConst, Literal
  <1>6. s.kind \in {"map_nip", "map3"} => FStar(s.out) = FStar(t.out)
    BY <1>1, <1>2 DEF ElementwiseForm
  <1> QED BY <1>1, <1>4, <1>5, <1>6 DEF ElementwiseKernel

LEMMA ReduceNames ==
  ASSUME NEW s, NEW t, ReduceForm(s), ReduceForm(t), ReduceName(s) = ReduceName(t)
  PROVE  ReduceKernel(s) = ReduceKernel(t)
  <1>1. /\ s.approx \in BOOLEAN /\ t.approx \in BOOLEAN
        /\ s.approx = (s.in \in FloatDtypes) /\ t.approx = (t.in \in FloatDtypes)
        /\ s.approx => s.out = s.in
        /\ t.approx => t.out = t.in
    BY Zenon DEF ReduceForm
  <1>2. /\ s.approx = t.approx /\ s.op = t.op /\ s.rank = t.rank /\ s.keepdim = t.keepdim
        /\ s.pre = t.pre /\ s.post = t.post /\ s.out = t.out /\ FStar(s.in) = FStar(t.in)
    BY <1>1 DEF ReduceName
  <1> DEFINE floating(x) == x.in \in FloatDtypes
  <1>3. floating(s) = floating(t)
    BY <1>1, <1>2
  <1>4. RenderedSteps(s.pre, floating(s)) = RenderedSteps(t.pre, floating(t))
    <2> HIDE DEF floating
    <2> QED BY <1>2, <1>3, Zenon
  <1>5. ReduceBody(s) = ReduceBody(t)
    BY <1>2, <1>4, Zenon DEF ReduceBody
  <1> QED BY <1>2, <1>5, Zenon DEF ReduceKernel

LEMMA GemmNames ==
  ASSUME NEW s, NEW t, GemmForm(s), GemmForm(t), GemmName(s) = GemmName(t),
         s.family \in GemmOps, t.family \in GemmOps
  PROVE  s = t
  <1>1. s.family = "bmm" <=> t.family = "bmm"
    BY DEF GemmName, GemmOps
  <1>2. CASE s.family = "bmm"
    <2>1. s.ty.in = t.ty.in /\ s.tile = t.tile /\ s.backend = t.backend
      BY <1>1, <1>2 DEF GemmName, GemmForm
    <2>2. /\ s.ty.acc = s.ty.in /\ s.ty.out = s.ty.in /\ t.ty.acc = t.ty.in /\ t.ty.out = t.ty.in
          /\ s.ty = [in |-> s.ty.in, acc |-> s.ty.acc, out |-> s.ty.out]
          /\ t.ty = [in |-> t.ty.in, acc |-> t.ty.acc, out |-> t.ty.out]
      BY <1>1, <1>2 DEF GemmForm, BackendSupports
    <2>3. s.ty = t.ty
      BY <2>1, <2>2
    <2>4. s.cbcast = t.cbcast
      BY <1>1, <1>2 DEF GemmForm
    <2> QED BY <1>1, <1>2, <2>1, <2>3, <2>4, Zenon DEF GemmForm
  <1>3. CASE s.family # "bmm"
    <2>1. /\ s.family = t.family /\ s.backend = t.backend /\ s.cbcast = t.cbcast /\ s.tile = t.tile
          /\ s.ty.in = t.ty.in /\ s.ty.acc = t.ty.acc /\ s.ty.out = t.ty.out
      BY <1>1, <1>3 DEF GemmName, GemmForm
    <2>2. s.ty = t.ty
      BY <2>1 DEF GemmForm
    <2> QED BY <2>1, <2>2, Zenon DEF GemmForm
  <1> QED BY <1>2, <1>3

LEMMA NamesOf ==
  ASSUME NEW s
  PROVE  /\ s.family = "elementwise" => ModuleName(s) = ElementwiseName(s) /\ Kernel(s) = ElementwiseKernel(s)
         /\ s.family = "reduce" => ModuleName(s) = ReduceName(s) /\ Kernel(s) = ReduceKernel(s)
         /\ s.family \in GemmOps => ModuleName(s) = GemmName(s) /\ Kernel(s) = s
         /\ s.family = "softmax" => ModuleName(s) = <<"softmax", s.dtype>> /\ Kernel(s) = [et |-> s.dtype]
         /\ s.family = "sdpa" => ModuleName(s) = SdpaName(s) /\ Kernel(s) = SdpaKernel(s)
         /\ s.family \in MoveOps => ModuleName(s) = MoveName(s) /\ Kernel(s) = MoveKernel(s)
  BY DEF ModuleName, Kernel, GemmKernel, GemmOps, MoveOps

FamilyNames == {"elementwise", "reduce", "softmax", "sdpa"} \cup GemmOps \cup MoveOps

LEMMA FamilyNamed == \A s : SpecForm(s) => s.family \in FamilyNames
  BY Zenon DEF SpecForm, FamilyNames

\* The first word of a module's name tells its family.
LEMMA HeadOfName ==
  ASSUME NEW s
  PROVE  /\ s.family = "elementwise" => ModuleName(s)[1] = "Elementwise"
         /\ s.family = "reduce" => ModuleName(s)[1] \in {"Reduce", "ReduceApprox"}
         /\ s.family \in GemmOps => ModuleName(s)[1] = s.family
         /\ s.family = "softmax" => ModuleName(s)[1] = "softmax"
         /\ s.family = "sdpa" => ModuleName(s)[1] = "Sdpa"
         /\ s.family \in MoveOps => ModuleName(s)[1] = s.family
  <1>1. /\ ElementwiseName(s)[1] = "Elementwise"
        /\ ReduceName(s)[1] \in {"Reduce", "ReduceApprox"}
        /\ s.family \in GemmOps => GemmName(s)[1] = s.family
        /\ SdpaName(s)[1] = "Sdpa"
        /\ MoveName(s)[1] = s.family
    BY DEF ElementwiseName, ReduceName, GemmName, SdpaName, MoveName
  <1>2. <<"softmax", s.dtype>>[1] = "softmax"
    OBVIOUS
  <1> QED BY <1>1, <1>2, NamesOf, Zenon

\* Families do not share names.
LEMMA NamesDiffer ==
  ASSUME NEW s, NEW t, SpecForm(s), SpecForm(t), ModuleName(s) = ModuleName(t)
  PROVE  \/ s.family = t.family
         \/ s.family \in GemmOps /\ t.family \in GemmOps
  <1>1. ModuleName(s)[1] = ModuleName(t)[1] /\ s.family \in FamilyNames /\ t.family \in FamilyNames
    BY FamilyNamed, Zenon
  <1> QED BY <1>1, HeadOfName DEF FamilyNames, GemmOps, MoveOps

\* Two specs of one name run the same kernel.
LEMMA SameNameSameKernel ==
  ASSUME NEW s, NEW t, SpecForm(s), SpecForm(t), ModuleName(s) = ModuleName(t)
  PROVE  Kernel(s) = Kernel(t)
  <1>1. CASE s.family = "elementwise" /\ t.family = "elementwise"
    <2>1. ElementwiseForm(s) /\ ElementwiseForm(t)
      BY <1>1 DEF SpecForm, GemmOps, MoveOps
    <2>2. ElementwiseName(s) = ElementwiseName(t)
      BY <1>1, NamesOf
    <2>3. ElementwiseKernel(s) = ElementwiseKernel(t)
      BY <1>1, <2>1, <2>2, ElementwiseNames
    <2> QED BY <1>1, <2>3, NamesOf
  <1>2. CASE s.family = "reduce" /\ t.family = "reduce"
    <2>1. ReduceForm(s) /\ ReduceForm(t)
      BY <1>2 DEF SpecForm, GemmOps, MoveOps
    <2>2. ReduceName(s) = ReduceName(t)
      BY <1>2, NamesOf
    <2>3. ReduceKernel(s) = ReduceKernel(t)
      BY <1>2, <2>1, <2>2, ReduceNames
    <2> QED BY <1>2, <2>3, NamesOf
  <1>3. CASE s.family \in GemmOps /\ t.family \in GemmOps
    <2>1. GemmForm(s) /\ GemmForm(t)
      BY <1>3 DEF SpecForm, GemmOps, MoveOps
    <2>2. GemmName(s) = GemmName(t)
      BY <1>3, NamesOf
    <2>3. s = t
      BY <1>3, <2>1, <2>2, GemmNames
    <2> QED BY <1>3, <2>3, NamesOf
  <1>4. CASE s.family = "softmax" /\ t.family = "softmax"
    BY <1>4, NamesOf
  <1>5. CASE s.family = "sdpa" /\ t.family = "sdpa"
    BY <1>5, NamesOf DEF SdpaName, SdpaKernel
  <1>6. CASE s.family \in MoveOps /\ t.family \in MoveOps
    BY <1>6, NamesOf DEF MoveName, MoveKernel
  <1>7. s.family = t.family \/ (s.family \in GemmOps /\ t.family \in GemmOps)
    BY NamesDiffer, Zenon
  <1>8. s.family \in FamilyNames
    BY FamilyNamed, Zenon
  <1> QED BY <1>1, <1>2, <1>3, <1>4, <1>5, <1>6, <1>7, <1>8 DEF FamilyNames

-----------------------------------------------------------------------------
(* The memo and the modules *)

\* A memo holds, under a key, what was listed for a call of that key; a module
\* was built from the kernel of every listed spec of its name.
Listed == UNION {Candidates[i] : i \in DOMAIN Calls}

CacheInv ==
  /\ DOMAIN cache = Ops
  /\ \A op \in Ops : \A key \in DOMAIN cache[op] :
       \E i \in DOMAIN Calls : /\ Calls[i].op = op /\ SpecKey(Calls[i]) = key
                               /\ cache[op][key] \in Candidates[i]
BuiltInv ==
  \A s \in Listed : ModuleName(s) \in DOMAIN built => built[ModuleName(s)] = Kernel(s)
LastInv ==
  last.outcome \in {"done", "refused"} =>
    /\ last.at \in DOMAIN Calls
    /\ last.kernel = Kernel(last.spec)
    /\ \E i \in DOMAIN Calls : /\ Calls[i].op = Calls[last.at].op
                               /\ SpecKey(Calls[i]) = SpecKey(Calls[last.at])
                               /\ last.spec \in Candidates[i]
MemoInv == CacheInv /\ BuiltInv /\ LastInv

LEMMA ListedForms == \A s \in Listed : SpecForm(s)
  BY ListedForm, KuiopsAssumption DEF Listed, Candidates, SchemaCall

\* Running a listed spec keeps the modules right and runs its own kernel.
LEMMA RunKeeps ==
  ASSUME BuiltInv, NEW i \in DOMAIN Calls, NEW s \in Listed, RunSpec(s, i)
  PROVE  /\ BuiltInv'
         /\ last'.outcome \in {"done", "refused"} =>
              last'.at = i /\ last'.spec = s /\ last'.kernel = Kernel(s)
  <1> DEFINE name == ModuleName(s)
             ran == IF name \in DOMAIN built THEN built[name] ELSE Kernel(s)
  <1>1. ran = Kernel(s)
    BY DEF BuiltInv
  <1>2. \/ last'.outcome = "ValueError" /\ UNCHANGED built
        \/ /\ last'.at = i /\ last'.spec = s /\ last'.kernel = ran
           /\ built' = IF name \in DOMAIN built THEN built ELSE Put(built, name, ran)
    BY DEF RunSpec
  <1>3. ASSUME NEW t \in Listed, ModuleName(t) \in DOMAIN built', UNCHANGED built
        PROVE  built'[ModuleName(t)] = Kernel(t)
    BY <1>3 DEF BuiltInv
  <1>4. ASSUME NEW t \in Listed, ModuleName(t) \in DOMAIN built', built' = Put(built, name, ran),
               name \notin DOMAIN built
        PROVE  built'[ModuleName(t)] = Kernel(t)
    <2>1. /\ ModuleName(t) \in DOMAIN built \cup {name}
          /\ built'[ModuleName(t)] = IF ModuleName(t) = name THEN ran ELSE built[ModuleName(t)]
      BY <1>4 DEF Put
    <2>2. ModuleName(t) = name => Kernel(t) = Kernel(s)
      BY ListedForms, SameNameSameKernel
    <2> QED BY <1>1, <2>1, <2>2 DEF BuiltInv
  <1> QED BY <1>1, <1>2, <1>3, <1>4 DEF BuiltInv

LEMMA MemoInit == Init => MemoInv
  BY DEF Init, MemoInv, CacheInv, BuiltInv, LastInv

\* A module keeps the kernel it was built from, and the memo its specs.
LEMMA MemoStep == MemoInv /\ [Next]_vars => MemoInv'
  <1> SUFFICES ASSUME MemoInv, [Next]_vars PROVE MemoInv'
    OBVIOUS
  <1>1. CASE UNCHANGED vars
    BY <1>1 DEF MemoInv, CacheInv, BuiltInv, LastInv, vars
  <1>2. ASSUME NEW i \in DOMAIN Calls, Hit(i) PROVE MemoInv'
    <2> DEFINE c == Calls[i]  key == SpecKey(c)  s == cache[c.op][key]
    <2>1. PICK j \in DOMAIN Calls : Calls[j].op = c.op /\ SpecKey(Calls[j]) = key /\ s \in Candidates[j]
      BY <1>2 DEF Hit, MemoInv, CacheInv, Ops
    <2>2. s \in Listed
      BY <2>1 DEF Listed
    <2>3. RunSpec(s, i) /\ UNCHANGED cache
      BY <1>2 DEF Hit
    <2> HIDE DEF s, key
    <2>4. /\ BuiltInv'
          /\ last'.outcome \in {"done", "refused"} =>
               last'.at = i /\ last'.spec = s /\ last'.kernel = Kernel(s)
      BY <2>2, <2>3, RunKeeps DEF MemoInv
    <2>5. LastInv'
      BY <2>1, <2>4 DEF LastInv, key
    <2> QED BY <2>3, <2>4, <2>5 DEF MemoInv, CacheInv
  <1>3. ASSUME NEW i \in DOMAIN Calls, Miss(i) PROVE MemoInv'
    <2> DEFINE c == Calls[i]  key == SpecKey(c)
    <2>1. PICK s \in Candidates[i] : Remember(c.op, key, s) /\ RunSpec(s, i)
      BY <1>3 DEF Miss
    <2>2. s \in Listed
      BY <2>1 DEF Listed
    <2>3. /\ BuiltInv'
          /\ last'.outcome \in {"done", "refused"} =>
               last'.at = i /\ last'.spec = s /\ last'.kernel = Kernel(s)
      BY <2>1, <2>2, RunKeeps DEF MemoInv
    <2>4. LastInv'
      BY <2>1, <2>3 DEF LastInv
    <2>5. CacheInv'
      <3>1. cache' = [cache EXCEPT ![c.op] = Put(IF Cardinality(DOMAIN cache[c.op]) >= CacheMax
                                                 THEN <<>> ELSE cache[c.op], key, s)]
        BY <2>1 DEF Remember
      <3>2. c.op \in Ops /\ DOMAIN cache = Ops
        BY DEF Ops, MemoInv, CacheInv
      <3>3. ASSUME NEW op \in Ops, NEW k \in DOMAIN cache'[op]
            PROVE  \/ op = c.op /\ k = key /\ cache'[op][k] = s
                   \/ k \in DOMAIN cache[op] /\ cache'[op][k] = cache[op][k]
        <4>1. CASE op # c.op
          BY <3>1, <3>2, <3>3, <4>1
        <4>2. CASE op = c.op
          <5>1. cache'[op] \in {Put(<<>>, key, s), Put(cache[op], key, s)}
            BY <3>1, <3>2, <4>2
          <5> QED BY <3>3, <4>2, <5>1 DEF Put
        <4> QED BY <4>1, <4>2
      <3> QED BY <2>1, <3>1, <3>2, <3>3 DEF MemoInv, CacheInv
    <2> QED BY <2>3, <2>4, <2>5 DEF MemoInv
  <1>4. ASSUME NEW i \in DOMAIN Calls, Unsupported(i) PROVE MemoInv'
    BY <1>4 DEF Unsupported, MemoInv, CacheInv, BuiltInv, LastInv
  <1> QED BY <1>1, <1>2, <1>3, <1>4 DEF Next

LEMMA MemoInvariant == Spec => []MemoInv
  BY MemoInit, MemoStep, PTL DEF Spec

\* Whatever calls a program makes, in any order, and whatever the memo forgets
\* on the way, a module name is only ever shared by specs that render to one
\* kernel: the kernel a call runs is its own spec's.
THEOREM KernelsByName == Spec => []NamesSuffice
  <1>1. MemoInv => NamesSuffice
    BY DEF MemoInv, LastInv, NamesSuffice
  <1> QED BY <1>1, MemoInvariant, PTL

-----------------------------------------------------------------------------
(* The key *)

LEMMA SimpleForms ==
  ASSUME NEW v \in Simple
  PROVE  /\ v.kind \in {"tensor", "int", "float", "map", "none", "index", "flag", "word"}
         /\ v.kind = "tensor" =>
              /\ v = [kind |-> "tensor", dtype |-> v.dtype, shape |-> v.shape, stride |-> v.stride,
                      aligned |-> v.aligned, val |-> v.val]
              /\ v.aligned \in BOOLEAN
         /\ v.kind \in {"int", "float", "index", "flag", "word"} => v = [kind |-> v.kind, val |-> v.val]
         /\ v.kind = "flag" => v.val \in BOOLEAN
         /\ v.kind = "map" => /\ v = [kind |-> "map", op |-> v.op, c |-> v.c]
                              /\ v.c # Absent => v.c = [kind |-> v.c.kind, val |-> v.c.val]
         /\ v.kind = "none" => v = Absent
  BY DEF Simple, Numbers, MapEntries, Absent

\* The key of an argument begins with its kind, all numbers being one kind.
LEMMA KeyHeads ==
  ASSUME NEW v
  PROVE  /\ v.kind = "tensor" => SimpleKey(v)[1] = "t"
         /\ v.kind = "none" => SimpleKey(v)[1] = "none"
         /\ v.kind \in {"int", "float", "flag"} => SimpleKey(v)[1] = "n"
         /\ v.kind = "map" => SimpleKey(v)[1] = "m"
         /\ v.kind \in {"index", "word"} => SimpleKey(v)[1] = v.kind
  <1>1. v.kind = "tensor" => SimpleKey(v)[1] = "t"
    BY SMT DEF SimpleKey
  <1>2. v.kind = "none" => SimpleKey(v)[1] = "none"
    BY SMT DEF SimpleKey
  <1>3. v.kind \in {"int", "float", "flag"} => SimpleKey(v)[1] = "n"
    BY SMT DEF SimpleKey
  <1>4. v.kind = "map" => SimpleKey(v)[1] = "m"
    BY SMT DEF SimpleKey
  <1>5. v.kind \in {"index", "word"} => SimpleKey(v)[1] = v.kind
    BY SMT DEF SimpleKey
  <1> QED BY <1>1, <1>2, <1>3, <1>4, <1>5

LEMMA KeyFields ==
  ASSUME NEW v
  PROVE  /\ v.kind = "tensor" => /\ SimpleKey(v)[2] = v.shape /\ SimpleKey(v)[3] = v.stride
                                 /\ SimpleKey(v)[4] = v.dtype
         /\ v.kind \in {"int", "float", "index", "word"} => SimpleKey(v)[2] = v.val
         /\ v.kind = "flag" => SimpleKey(v)[2] = IF v.val THEN Unit ELSE 0
         /\ v.kind = "map" => /\ SimpleKey(v)[2] = v.op
                              /\ SimpleKey(v)[3] = IF v.c = Absent THEN <<>> ELSE <<v.c.val>>
  <1>1. v.kind = "tensor" => /\ SimpleKey(v)[2] = v.shape /\ SimpleKey(v)[3] = v.stride
                             /\ SimpleKey(v)[4] = v.dtype
    BY SMT DEF SimpleKey
  <1>2. v.kind \in {"int", "float", "index", "word"} => SimpleKey(v)[2] = v.val
    BY SMT DEF SimpleKey
  <1>3. v.kind = "flag" => SimpleKey(v)[2] = IF v.val THEN Unit ELSE 0
    BY SMT DEF SimpleKey
  <1>4. v.kind = "map" => /\ SimpleKey(v)[2] = v.op
                          /\ SimpleKey(v)[3] = IF v.c = Absent THEN <<>> ELSE <<v.c.val>>
    BY SMT DEF SimpleKey
  <1> QED BY <1>1, <1>2, <1>3, <1>4, Zenon

LEMMA SimpleKeys ==
  ASSUME NEW x \in Simple, NEW y \in Simple, SimpleKey(x) = SimpleKey(y), SimpleUnkeyed(x) = SimpleUnkeyed(y)
  PROVE  x = y
  <1>0. x.kind = y.kind \/ {x.kind, y.kind} \subseteq {"int", "float", "flag"}
    <2>1. /\ x.kind \in {"tensor", "int", "float", "map", "none", "index", "flag", "word"}
          /\ y.kind \in {"tensor", "int", "float", "map", "none", "index", "flag", "word"}
      BY SimpleForms
    <2> DEFINE head(k) == IF k = "tensor" THEN "t" ELSE IF k \in {"int", "float", "flag"} THEN "n"
                          ELSE IF k = "map" THEN "m" ELSE k
    <2>2. SimpleKey(x)[1] = head(x.kind)
      BY <2>1, KeyHeads
    <2>3. SimpleKey(y)[1] = head(y.kind)
      BY <2>1, KeyHeads
    <2>4. head(x.kind) = head(y.kind)
      BY <2>2, <2>3, Zenon
    <2> QED BY <2>1, <2>4, SMT
  <1>1. CASE x.kind = "tensor"
    <2>1. y.kind = "tensor"
      BY <1>0, <1>1
    <2>2. x.shape = y.shape /\ x.stride = y.stride /\ x.dtype = y.dtype
      BY <1>1, <2>1, KeyFields, Zenon
    <2>3. /\ (IF x.aligned THEN "aligned" ELSE "unaligned") = (IF y.aligned THEN "aligned" ELSE "unaligned")
          /\ x.val = y.val
      BY <1>1, <2>1, SMT DEF SimpleUnkeyed
    <2>4. x.aligned = y.aligned
      BY <1>1, <2>1, <2>3, SimpleForms
    <2> QED BY <1>1, <2>1, <2>2, <2>3, <2>4, SimpleForms, Zenon
  <1>2. CASE x.kind \in {"flag", "int", "float"}
    <2>1. y.kind \in {"flag", "int", "float"}
      BY <1>0, <1>2
    <2>2. x.kind = y.kind
      BY <1>2, <2>1, SMT DEF SimpleUnkeyed
    <2>3. CASE x.kind = "flag"
      <3>0. y.kind = "flag"
        BY <2>2, <2>3, Zenon
      <3>a. SimpleKey(x)[2] = IF x.val THEN Unit ELSE 0
        BY <2>3, KeyFields, Zenon
      <3>b. SimpleKey(y)[2] = IF y.val THEN Unit ELSE 0
        BY <3>0, KeyFields, Zenon
      <3>1. (IF x.val THEN Unit ELSE 0) = (IF y.val THEN Unit ELSE 0)
        BY <3>a, <3>b, Zenon
      <3>2. x.val \in BOOLEAN /\ y.val \in BOOLEAN
        BY <2>2, <2>3, SimpleForms
      <3>3. x.val = y.val
        BY <3>1, <3>2, SMT DEF Unit
      <3> QED BY <2>2, <2>3, <3>3, SimpleForms, Zenon
    <2>4. CASE x.kind \in {"int", "float"}
      <3>1. x.val = y.val
        BY <2>2, <2>4, KeyFields
      <3> QED BY <2>2, <2>4, <3>1, SimpleForms
    <2> QED BY <1>2, <2>3, <2>4
  <1>3. CASE x.kind = "map"
    <2>1. y.kind = "map"
      BY <1>0, <1>3
    <2>2. /\ x.op = y.op
          /\ (IF x.c = Absent THEN <<>> ELSE <<x.c.val>>) = (IF y.c = Absent THEN <<>> ELSE <<y.c.val>>)
      <3>1. /\ SimpleKey(x)[2] = x.op
            /\ SimpleKey(x)[3] = IF x.c = Absent THEN <<>> ELSE <<x.c.val>>
        BY <1>3, KeyFields, Zenon
      <3>2. /\ SimpleKey(y)[2] = y.op
            /\ SimpleKey(y)[3] = IF y.c = Absent THEN <<>> ELSE <<y.c.val>>
        BY <2>1, KeyFields, Zenon
      <3>3. SimpleKey(x)[2] = SimpleKey(y)[2] /\ SimpleKey(x)[3] = SimpleKey(y)[3]
        OBVIOUS
      <3> HIDE DEF SimpleKey
      <3> QED BY <3>1, <3>2, <3>3, Zenon
    <2>3. x.c.kind = y.c.kind
      BY <1>3, <2>1, SMT DEF SimpleUnkeyed
    <2>4. x.c = y.c
      BY <1>3, <2>1, <2>2, <2>3, SimpleForms
    <2> QED BY <1>3, <2>1, <2>2, <2>4, SimpleForms, Zenon
  <1>4. CASE x.kind \in {"none", "index", "word"}
    <2>1. y.kind = x.kind
      BY <1>0, <1>4
    <2>2. x.kind # "none" => x.val = y.val
      BY <1>4, <2>1, KeyFields
    <2> QED BY <1>4, <2>1, <2>2, SimpleForms
  <1> QED BY <1>1, <1>2, <1>3, <1>4, SimpleForms

\* The key of an argument and what it leaves out determine the argument.
LEMMA ArgumentKeys ==
  ASSUME NEW x \in Arguments, NEW y \in Arguments, KeyPart(x) = KeyPart(y), Unkeyed(x) = Unkeyed(y)
  PROVE  x = y
  <1>1. \A v \in Simple : /\ v.kind # "list" /\ SimpleKey(v)[1] # "l"
                          /\ KeyPart(v) = SimpleKey(v) /\ Unkeyed(v) = SimpleUnkeyed(v)
    <2> SUFFICES ASSUME NEW v \in Simple
                 PROVE  /\ v.kind # "list" /\ SimpleKey(v)[1] # "l"
                        /\ KeyPart(v) = SimpleKey(v) /\ Unkeyed(v) = SimpleUnkeyed(v)
      OBVIOUS
    <2>1. v.kind \in {"tensor", "int", "float", "map", "none", "index", "flag", "word"}
      BY SimpleForms
    <2>2. v.kind # "list"
      BY <2>1
    <2>3. SimpleKey(v)[1] # "l"
      BY <2>1, KeyHeads
    <2>4. KeyPart(v) = SimpleKey(v)
      BY <2>2, Zenon DEF KeyPart
    <2>5. Unkeyed(v) = SimpleUnkeyed(v)
      BY <2>2, Zenon DEF Unkeyed
    <2> QED BY <2>2, <2>3, <2>4, <2>5
  <1>2. CASE x \in Simple /\ y \in Simple
    BY <1>1, <1>2, SimpleKeys
  <1>3. CASE x \notin Simple /\ y \notin Simple
    <2>1. /\ x.items \in Seq(Simple) /\ y.items \in Seq(Simple)
          /\ x = [kind |-> "list", items |-> x.items] /\ y = [kind |-> "list", items |-> y.items]
      BY <1>3 DEF Arguments
    <2>2. /\ KeyPart(x) = <<"l", [i \in DOMAIN x.items |-> SimpleKey(x.items[i])]>>
          /\ KeyPart(y) = <<"l", [i \in DOMAIN y.items |-> SimpleKey(y.items[i])]>>
          /\ Unkeyed(x) = [i \in DOMAIN x.items |-> SimpleUnkeyed(x.items[i])]
          /\ Unkeyed(y) = [i \in DOMAIN y.items |-> SimpleUnkeyed(y.items[i])]
      BY <2>1 DEF KeyPart, Unkeyed
    <2>3. [i \in DOMAIN x.items |-> SimpleKey(x.items[i])] = [i \in DOMAIN y.items |-> SimpleKey(y.items[i])]
      <3>1. \A a, b : <<"l", a>> = <<"l", b>> => a = b
        OBVIOUS
      <3> QED BY <2>2, <3>1, Zenon
    <2>a. [i \in DOMAIN x.items |-> SimpleUnkeyed(x.items[i])] = [i \in DOMAIN y.items |-> SimpleUnkeyed(y.items[i])]
      BY <2>2, Zenon
    <2>b. DOMAIN x.items = DOMAIN y.items
      BY <2>3, Zenon
    <2>c. \A i \in DOMAIN x.items : SimpleKey(x.items[i]) = SimpleKey(y.items[i])
      BY <2>3, <2>b, Zenon
    <2>d. \A i \in DOMAIN x.items : SimpleUnkeyed(x.items[i]) = SimpleUnkeyed(y.items[i])
      BY <2>a, <2>b, Zenon
    <2>4. /\ DOMAIN x.items = DOMAIN y.items
          /\ \A i \in DOMAIN x.items : /\ SimpleKey(x.items[i]) = SimpleKey(y.items[i])
                                       /\ SimpleUnkeyed(x.items[i]) = SimpleUnkeyed(y.items[i])
      BY <2>b, <2>c, <2>d, Zenon
    <2>5. x.items = y.items
      <3>1. \A i \in DOMAIN x.items : x.items[i] = y.items[i]
        BY <2>1, <2>4, SimpleKeys
      <3> QED BY <2>1, <2>4, <3>1
    <2> QED BY <2>1, <2>5
  <1>4. ASSUME NEW v \in Arguments \ Simple PROVE KeyPart(v)[1] = "l"
    <2>1. v.kind = "list"
      BY DEF Arguments
    <2> QED BY <2>1 DEF KeyPart
  <1> QED BY <1>1, <1>2, <1>3, <1>4

\* Calls of one key that agree in what the key leaves out are equal.
LEMMA CallKeys ==
  ASSUME NEW i \in DOMAIN Calls, NEW j \in DOMAIN Calls,
         SameKey(Calls[i], Calls[j]), UnkeyedAgree(Calls[i], Calls[j])
  PROVE  Calls[i] = Calls[j]
  <1> DEFINE c == Calls[i]  d == Calls[j]
  <1>1. IsCall(c) /\ IsCall(d)
    BY KuiopsAssumption
  <1>2. /\ [k \in DOMAIN c.args |-> KeyPart(c.args[k])] = [k \in DOMAIN d.args |-> KeyPart(d.args[k])]
        /\ {<<k, KeyPart(c.kw[k])>> : k \in DOMAIN c.kw} = {<<k, KeyPart(d.kw[k])>> : k \in DOMAIN d.kw}
    BY DEF SpecKey, SameKey
  <1>3. /\ \A k \in DOMAIN c.args : Unkeyed(c.args[k]) = Unkeyed(d.args[k])
        /\ \A k \in DOMAIN c.kw : Unkeyed(c.kw[k]) = Unkeyed(d.kw[k])
    BY DEF UnkeyedAgree
  <1> HIDE DEF c, d
  <1>4. c.args = d.args
    <2>1. DOMAIN c.args = DOMAIN d.args /\ \A k \in DOMAIN c.args : KeyPart(c.args[k]) = KeyPart(d.args[k])
      BY <1>2, Zenon
    <2>2. c.args \in Seq(Arguments) /\ d.args \in Seq(Arguments)
      BY <1>1 DEF IsCall
    <2>3. \A k \in DOMAIN c.args : c.args[k] = d.args[k]
      BY <1>3, <2>1, <2>2, ArgumentKeys
    <2> QED BY <2>1, <2>2, <2>3
  <1>5. c.kw = d.kw
    <2>1. /\ \A k \in DOMAIN c.kw : k \in DOMAIN d.kw /\ KeyPart(c.kw[k]) = KeyPart(d.kw[k])
          /\ \A k \in DOMAIN d.kw : k \in DOMAIN c.kw
      <3>1. ASSUME NEW k \in DOMAIN c.kw PROVE \E l \in DOMAIN d.kw : <<k, KeyPart(c.kw[k])>> = <<l, KeyPart(d.kw[l])>>
        BY <1>2
      <3>2. ASSUME NEW k \in DOMAIN d.kw PROVE \E l \in DOMAIN c.kw : <<k, KeyPart(d.kw[k])>> = <<l, KeyPart(c.kw[l])>>
        BY <1>2
      <3> QED BY <3>1, <3>2
    <2>2. c.kw \in [DOMAIN c.kw -> Arguments] /\ d.kw \in [DOMAIN d.kw -> Arguments]
      BY <1>1 DEF IsCall
    <2>3. \A k \in DOMAIN c.kw : c.kw[k] = d.kw[k]
      BY <1>3, <2>1, <2>2, ArgumentKeys
    <2> QED BY <2>1, <2>2, <2>3
  <1>6. c.op = d.op
    BY DEF SameKey, c, d
  <1> QED BY <1>1, <1>4, <1>5, <1>6, Zenon DEF IsCall, c, d

\* Whatever calls a program makes, a spec that supported() would not list for the
\* call it serves comes from a call that differs from it in pointer alignment, in
\* the value of a 0-dim tensor or in the kind of a number: the key has all the rest
\* of what the predicates read.
THEOREM MemoGivesListed == Spec => []MemoKeyed
  <1>1. MemoInv => MemoKeyed
    <2> SUFFICES ASSUME MemoInv, last.outcome \in {"done", "refused"}, last.spec \notin Candidates[last.at]
                 PROVE  \E j \in DOMAIN Calls : /\ SameKey(Calls[j], Calls[last.at]) /\ ~UnkeyedAgree(Calls[j], Calls[last.at])
                                                /\ last.spec \in Candidates[j]
      BY DEF MemoKeyed
    <2>1. PICK i \in DOMAIN Calls : /\ Calls[i].op = Calls[last.at].op
                                    /\ SpecKey(Calls[i]) = SpecKey(Calls[last.at])
                                    /\ last.spec \in Candidates[i]
      BY DEF MemoInv, LastInv
    <2>2. last.at \in DOMAIN Calls
      BY DEF MemoInv, LastInv
    <2>3. SameKey(Calls[i], Calls[last.at])
      BY <2>1 DEF SameKey
    <2>4. ~UnkeyedAgree(Calls[i], Calls[last.at])
      <3>1. Calls[i] # Calls[last.at]
        BY <2>1, <2>2 DEF Candidates
      <3> QED BY <2>2, <2>3, <3>1, CallKeys
    <2> QED BY <2>1, <2>3, <2>4
  <1> QED BY <1>1, MemoInvariant, PTL

-----------------------------------------------------------------------------
(* What tuning may pick *)

LEMMA ElementSizes ==
  /\ \A et \in {"f16", "bf16"} : ItemSize[et] = 2 /\ Chunk(et) = 8
  /\ ItemSize["f32"] = 4 /\ Chunk("f32") = 4
  /\ \A et \in VecCopyTypes : Chunk(et) \in {4, 8} /\ ItemSize[et] \in {2, 4}
  BY DEF ItemSize, Chunk, VecCopyTypes

\* Blocks are whole numbers of vectors, so what they divide is one too.
LEMMA BlocksAreChunks ==
  ASSUME NEW bn \in {64, 128}, NEW N \in Nat, Divides(bn, N), NEW out \in VecCopyTypes
  PROVE  Divides(Chunk(out), N)
  <1>1. Chunk(out) = 4 \/ Chunk(out) = 8
    BY ElementSizes
  <1>2. N % 4 = 0 /\ N % 8 = 0
    BY DEF Divides
  <1> QED BY <1>1, <1>2 DEF Divides

LEMMA Bt2dTiling ==
  ASSUME NEW ty, ty.in \in VecCopyTypes, NEW M, NEW N, NEW K, NEW t \in Bt2dTiles(ty, M, N, K)
  PROVE  Bt2dContract(t, ty, M, N, K) /\ SharedMemory("bt2d", t, ty) <= ShmemBytes
  <1>1. t \in [bm : {128, 64, 32}, bn : {128, 64, 32}, bk : {64, 32}, tm : {16, 8}, tn : {16, 8}]
    BY DEF Bt2dTiles
  <1>2. Bt2dContract(t, ty, M, N, K)
    <2> DEFINE chunk == Chunk(ty.in)
               threads == (t.bm \div t.tm) * (t.bn \div t.tn)
               fill == chunk * threads
    <2>1. /\ Divides(t.bm, M) /\ Divides(t.bn, N) /\ Divides(t.bk, K)
          /\ Divides(chunk, t.bn) /\ Divides(chunk, t.bk)
          /\ Divides(t.tm, t.bm) /\ Divides(t.tn, t.bn)
          /\ threads <= MaxThreads
          /\ Divides(fill, t.bm * t.bk) /\ Divides(fill, t.bk * t.bn)
      BY Zenon DEF Bt2dTiles
    <2>2. fill = chunk * (t.bm \div t.tm) * (t.bn \div t.tn)
      <3>1. chunk \in {4, 8}
        BY ElementSizes
      <3>2. t.bm \div t.tm \in Int /\ t.bn \div t.tn \in Int
        BY <1>1
      <3> QED BY <3>1, <3>2
    <2> HIDE DEF fill
    <2> QED BY <2>1, <2>2, Zenon DEF Bt2dContract
  <1>3. ItemSize[ty.in] * (t.bm * t.bk + t.bk * t.bn) <= ShmemBytes
    BY DEF Bt2dTiles
  <1>4. t.bm * t.bk + t.bk * t.bn = (t.bm + t.bn) * t.bk
    BY <1>1
  <1>5. ItemSize[ty.in] \in Int
    BY ElementSizes
  <1>6. ItemSize[ty.in] * (t.bm + t.bn) * t.bk = ItemSize[ty.in] * ((t.bm + t.bn) * t.bk)
    BY <1>1, <1>5
  <1> QED BY <1>2, <1>3, <1>4, <1>6 DEF SharedMemory

LEMMA Tc2dTiling ==
  ASSUME NEW ty, ty.in \in {"f16", "bf16"}, ty.out \in VecCopyTypes,
         NEW M, NEW N \in Nat, NEW K, NEW t \in Tc2dTiles(ty, M, N, K)
  PROVE  Tc2dContract(t, ty, M, N, K) /\ SharedMemory("tc2d_to", t, ty) <= ShmemBytes
  <1>1. t \in [bm : {128, 64}, bn : {128, 64}, bk : {32, 64, 16}, tm : {Frag}, tn : {Frag},
               tk : {Frag}, wm : {8, 4, 2, 16}, wn : {4, 8, 2, 16}]
    BY DEF Tc2dTiles
  <1>2. /\ Divides(t.bm, M) /\ Divides(t.bn, N) /\ Divides(t.bk, K)
        /\ Divides(Chunk(ty.in), t.bn) /\ Divides(Chunk(ty.in), t.bk)
        /\ 2 * (t.bm * t.bk + t.bk * t.bn) <= ShmemBytes
        /\ Divides(t.wm * Frag, t.bm) /\ Divides(t.wn * Frag, t.bn)
        /\ Tc2dWarps(t) * Warp <= MaxThreads
        /\ LET fill == Chunk(ty.in) * Tc2dWarps(t) * Warp
           IN  Divides(fill, t.bm * t.bk) /\ Divides(fill, t.bk * t.bn)
    BY Zenon DEF Tc2dTiles
  <1>3. Divides(Chunk(ty.out), N)
    BY <1>1, <1>2, BlocksAreChunks
  <1>4. Chunk(ty.out) \in {4, 8}
    BY ElementSizes
  <1>5. Divides(Chunk(ty.out), t.tn) /\ Divides(t.tk, t.bk)
    BY <1>1, <1>4 DEF Divides, Frag
  <1>6. t.tm = Frag /\ t.tn = Frag
    BY <1>1
  <1>7. Tc2dContract(t, ty, M, N, K)
    BY <1>2, <1>3, <1>5, <1>6, Zenon DEF Tc2dContract
  <1>8. t.bm * t.bk + t.bk * t.bn = (t.bm + t.bn) * t.bk
    BY <1>1
  <1>9. 2 * (t.bm + t.bn) * t.bk = 2 * ((t.bm + t.bn) * t.bk)
    BY <1>1
  <1>10. SharedMemory("tc2d_to", t, ty) = 2 * (t.bm + t.bn) * t.bk
    BY ElementSizes DEF SharedMemory
  <1> QED BY <1>2, <1>7, <1>8, <1>9, <1>10

\* The pipelined kernel, for an extent k of its loop.
LEMMA SuperTiling ==
  ASSUME NEW ty, ty.in \in {"f16", "bf16"}, NEW M, NEW N, NEW k \in Nat, NEW scratch,
         NEW t \in SuperShapes(ty), SuperFits(t, ty, M, N, k, scratch), k > 0, Divides(Chunk(ty.out), N)
  PROVE  SuperContract(t, ty, M, N, k)
  <1>1. Chunk(ty.in) = 8 /\ t.skew = 8
    BY ElementSizes DEF SuperShapes
  <1>2. t.bk \in {32, 64, 16} /\ t.bm \in {128, 64} /\ t.bn \in {128, 64} /\ t.wm \in {64, 32, 16, 128}
        /\ t.wn \in {64, 32, 16, 128}
    BY DEF SuperShapes
  <1>3. SuperWarps(t) \in Int
    BY <1>2 DEF SuperWarps
  <1>4. 8 * SuperWarps(t) * Warp = 8 * (SuperWarps(t) * Warp)
    BY <1>3 DEF Warp
  <1>5. t.bk <= k
    BY <1>2 DEF SuperFits, Divides
  <1>6. Divides(8, 8)
    BY DEF Divides
  <1> QED BY <1>1, <1>4, <1>5, <1>6, Zenon DEF SuperFits, SuperContract

LEMMA SplitTiling ==
  ASSUME NEW ty, ty.in \in {"f16", "bf16"}, NEW M, NEW N, NEW K \in Nat, NEW t \in SplitKTiles(ty, M, N, K)
  PROVE  /\ Divides(t.splits, K) /\ Divides(Chunk(ty.acc), Chunk(ty.out))
         /\ SuperContract(t, ty, M, N, K \div t.splits)
         /\ 2 * (t.bm + t.bn) * (t.bk + t.skew) * ItemSize[ty.in] <= ShmemBytes
         /\ 2 * (t.bm + t.bn) * (t.bk + t.skew) * ItemSize[ty.in] \in Int
         /\ t.splits \in Splits
         /\ \E u \in SuperShapes(ty) : t = Split(u, t.splits)
  <1>1. /\ Divides(Chunk(ty.out), N) /\ Divides(Chunk(ty.acc), Chunk(ty.out))
        /\ \E n \in Splits : \E u \in SuperShapes(ty) :
             /\ Divides(n, K) /\ t = Split(u, n) /\ u.bk <= K \div n
             /\ SuperFits(u, ty, M, N, K \div n, 0)
    BY DEF SplitKTiles
  <1>2. PICK n \in Splits, u \in SuperShapes(ty) :
             /\ Divides(n, K) /\ t = Split(u, n) /\ u.bk <= K \div n
             /\ SuperFits(u, ty, M, N, K \div n, 0)
    BY <1>1
  <1>3. K \div n \in Nat /\ u.bk \in {32, 64, 16}
    BY DEF Splits, SuperShapes
  <1>4. SuperContract(u, ty, M, N, K \div n)
    BY <1>1, <1>2, <1>3, SuperTiling
  <1>5. /\ t.bm = u.bm /\ t.bn = u.bn /\ t.bk = u.bk /\ t.wm = u.wm /\ t.wn = u.wn
        /\ t.skew = u.skew /\ t.splits = n
    BY <1>2 DEF Split
  <1>6. SuperContract(t, ty, M, N, K \div n)
    BY <1>4, <1>5, Zenon DEF SuperContract, SuperWarps
  <1>7. 2 * (u.bm + u.bn) * (u.bk + u.skew) * ItemSize[ty.in] + 0 <= ShmemBytes
    BY <1>2, Zenon DEF SuperFits
  <1>8. 2 * (u.bm + u.bn) * (u.bk + u.skew) * ItemSize[ty.in] \in Int
    <2>1. ItemSize[ty.in] = 2 /\ Chunk(ty.in) = 8
      BY ElementSizes
    <2>2. u.skew = 8 /\ u.bm \in Int /\ u.bn \in Int /\ u.bk \in Int
      BY <2>1 DEF SuperShapes
    <2> QED BY <2>1, <2>2
  <1> QED BY <1>1, <1>2, <1>5, <1>6, <1>7, <1>8

\* Operands of a listed product are matrices.
LEMMA GemmSizes ==
  ASSUME NEW c, c.op \in GemmOps, MatrixCall(c), IsCall(c), NEW s \in Specs(c)
  PROVE  LET n == GemmSize(c) IN n.batch \in Nat /\ n.M \in Nat /\ n.N \in Nat /\ n.K \in Nat
  <1> DEFINE A == c.args[Len(c.args) - 1]
             B == c.args[Len(c.args)]
  <1>1. \E rank \in {2, 3} : Len(A.shape) = rank /\ Len(B.shape) = rank
    <2>1. CASE c.op = "mm"
      <3>1. s \in MmSpecs(c) /\ A = c.args[1] /\ B = c.args[2]
        BY <2>1, SpecsOf DEF MatrixCall
      <3> HIDE DEF A, B
      <3> QED BY <3>1 DEF MmSpecs, Matrices
    <2>2. CASE c.op = "bmm"
      <3>1. s \in BmmSpecs(c) /\ A = c.args[1] /\ B = c.args[2]
        BY <2>2, SpecsOf DEF MatrixCall
      <3> HIDE DEF A, B
      <3> QED BY <3>1 DEF BmmSpecs, Matrices
    <2>3. CASE c.op = "addmm"
      <3>1. s \in AddmmSpecs(c) /\ A = c.args[2] /\ B = c.args[3]
        BY <2>3, SpecsOf DEF MatrixCall
      <3> HIDE DEF A, B
      <3> QED BY <3>1 DEF AddmmSpecs, Matrices
    <2> QED BY <2>1, <2>2, <2>3 DEF GemmOps
  <1>2. A.shape \in Seq(Nat) /\ B.shape \in Seq(Nat)
    <2>1. /\ A \in Arguments /\ IsTensor(A)
          /\ B \in Arguments /\ IsTensor(B)
      BY DEF MatrixCall, IsCall
    <2> HIDE DEF A, B
    <2> QED BY <2>1 DEF Arguments, Simple, Numbers, MapEntries, Absent, IsTensor
  <1> HIDE DEF A, B
  <1>3. PICK rank \in {2, 3} : Len(A.shape) = rank /\ Len(B.shape) = rank
    BY <1>1
  <1>4. A.shape[1] \in Nat /\ A.shape[rank - 1] \in Nat /\ A.shape[rank] \in Nat /\ B.shape[rank] \in Nat
    BY <1>2, <1>3
  <1>5. GemmSize(c) = [batch |-> IF rank = 3 THEN A.shape[1] ELSE 1, M |-> A.shape[rank - 1],
                       N |-> B.shape[rank], K |-> A.shape[rank]]
    BY <1>3 DEF GemmSize, A, B
  <1> QED BY <1>4, <1>5

\* What is listed for a GEMM is what its kernel takes, and fits a block and a grid.
LEMMA ListedFits ==
  ASSUME NEW c, c.op \in GemmOps, MatrixCall(c), IsCall(c), NEW s \in Specs(c)
  PROVE  LET n == GemmSize(c) IN
         /\ n.K > 0 => TileContract(s, n.M, n.N, n.K)
         /\ SharedMemory(s.backend, s.tile, s.ty) <= ShmemBytes
         /\ Grid(s.tile, n.batch, n.M, n.N) <= MaxBlocks
  <1> DEFINE n == GemmSize(c)
  <1>1. /\ GemmForm(s) /\ s.tile \in Tiles(s.backend, s.ty, n.batch, n.M, n.N, n.K)
        /\ s.backend \in MmBackends \cup AddmmBackends
    BY GemmListed
  <1>2. BackendSupports(s.backend, s.ty)
    BY <1>1 DEF GemmForm
  <1>3. n.N \in Nat /\ n.K \in Nat
    BY GemmSizes
  <1>4. Grid(s.tile, n.batch, n.M, n.N) <= MaxBlocks
    BY <1>1 DEF Tiles
  <1> HIDE DEF n
  <1>5. CASE s.backend = "bt2d"
    <2>1. s.tile \in Bt2dTiles(s.ty, n.M, n.N, n.K)
      BY <1>1, <1>5 DEF Tiles, SplitBackends
    <2>2. s.ty.in \in VecCopyTypes
      BY <1>2, <1>5 DEF BackendSupports
    <2> QED BY <1>4, <1>5, <2>1, <2>2, Bt2dTiling DEF TileContract, n
  <1>6. CASE s.backend # "bt2d"
    <2>1. s.ty.in \in {"f16", "bf16"} /\ s.ty.out \in VecCopyTypes
      BY <1>2, <1>6, TcAssumption DEF BackendSupports
    <2>2. CASE s.backend = "tc2d_to"
      <3>1. s.tile \in Tc2dTiles(s.ty, n.M, n.N, n.K)
        BY <1>1, <2>2 DEF Tiles, SplitBackends
      <3> QED BY <1>3, <1>4, <2>1, <2>2, <3>1, Tc2dTiling DEF TileContract, n
    <2>3. CASE s.backend = "supergemm"
      <3>1. s.tile \in SuperGemmTiles(s.ty, n.M, n.N, n.K)
        BY <1>1, <2>3 DEF Tiles, SplitBackends
      <3>2. n.K > 0 => SuperContract(s.tile, s.ty, n.M, n.N, n.K)
        BY <1>3, <2>1, <3>1, SuperTiling DEF SuperGemmTiles
      <3>3. SharedMemory("supergemm", s.tile, s.ty) <= ShmemBytes
        BY <3>1, Zenon DEF SuperGemmTiles, SuperFits, SharedMemory
      <3> QED BY <1>4, <2>3, <3>2, <3>3 DEF TileContract, n
    <2>4. CASE s.backend \in SplitBackends
      <3>1. s.tile \in SplitKTiles(s.ty, n.M, n.N, n.K)
        BY <1>1, <2>4 DEF Tiles, SplitBackends
      <3>a. n.K > 0
        BY <1>3, <3>1 DEF SplitKTiles, Split, SuperShapes, Splits
      <3>2. /\ Divides(s.tile.splits, n.K) /\ Divides(Chunk(s.ty.acc), Chunk(s.ty.out))
            /\ SuperContract(s.tile, s.ty, n.M, n.N, n.K \div s.tile.splits)
            /\ 2 * (s.tile.bm + s.tile.bn) * (s.tile.bk + s.tile.skew) * ItemSize[s.ty.in] <= ShmemBytes
        BY <1>3, <2>1, <3>1, <3>a, SplitTiling
      <3>3. SharedMemory(s.backend, s.tile, s.ty) <= ShmemBytes
        <4> DEFINE size == 2 * (s.tile.bm + s.tile.bn) * (s.tile.bk + s.tile.skew) * ItemSize[s.ty.in]
        <4>1. SharedMemory(s.backend, s.tile, s.ty) = size + 0
          BY <2>4 DEF SharedMemory, SplitBackends
        <4>2. size \in Int
          BY <1>3, <3>1, <3>a, <2>1, SplitTiling
        <4> HIDE DEF size
        <4> QED BY <3>2, <4>1, <4>2 DEF size
      <3> QED BY <1>4, <2>4, <3>2, <3>3 DEF TileContract, n, SplitBackends
    <2> QED BY <1>1, <1>6, <2>2, <2>3, <2>4 DEF MmBackends, AddmmBackends, SplitBackends
  <1> QED BY <1>5, <1>6

-----------------------------------------------------------------------------
(* The candidate taken without tuning *)

\* The first n components of two ranks agree.
Agree(n, r, q) == \A i \in 1..n : r[i] = q[i]

\* T holds those ranked first in S by the first n components.
FirstBy(n, S, rank, T) ==
  /\ T # {} /\ T \subseteq S
  /\ \A t \in T, o \in S :
       /\ \A i \in 1..n : ~(rank[o][i] < rank[t][i] /\ Agree(i - 1, rank[o], rank[t]))
       /\ Agree(n, rank[o], rank[t]) => o \in T

\* The interval up to n + 1 holds n + 1 and the interval up to n.
LEMMA NumberAfter ==
  \A n \in Nat : n + 1 \in 1..(n + 1) /\ \A i \in 1..n : i \in 1..(n + 1)
  OBVIOUS

\* Those first by n components have some first by n + 1.
LEMMA FirstByNext ==
  ASSUME NEW S, NEW n \in Nat, NEW L \in Nat, n < L, NEW rank \in [S -> [1..L -> Int]], NEW least \in Int,
         \A s \in S, i \in 1..L : rank[s][i] >= least,
         NEW T, FirstBy(n, S, rank, T)
  PROVE  \E U : FirstBy(n + 1, S, rank, U)
  <1>0. n + 1 \in 1..(n + 1) /\ \A i \in 1..n : i \in 1..(n + 1)
    BY NumberAfter, Zenon
  <1> DEFINE place(s) == rank[s][n + 1] - least
  <1>1. \A s \in S : place(s) \in Nat /\ rank[s][n + 1] \in Int
    <2>1. n + 1 \in 1..L
      OBVIOUS
    <2> QED BY <2>1
  <1>2. T # {} /\ T \subseteq S
    BY DEF FirstBy
  <1> DEFINE Places == {place(s) : s \in T}
  <1>3. Places # {} /\ Places \subseteq Nat
    BY <1>1, <1>2
  <1>4. PICK p \in Places : \A q \in Places : p <= q
    <2> HIDE DEF Places
    <2> QED BY <1>3, LeastNumber
  <1>5. PICK u \in T : p = place(u)
    BY <1>4
  <1> DEFINE U == {s \in T : place(s) = p}
  <1>6. U # {} /\ U \subseteq S
    BY <1>2, <1>5
  <1>7. ASSUME NEW t \in U, NEW o \in S, NEW i \in 1..(n + 1), rank[o][i] < rank[t][i],
               Agree(i - 1, rank[o], rank[t])
        PROVE  FALSE
    <2>1. i \notin 1..n
      BY <1>7 DEF FirstBy
    <2>2. i = n + 1
      BY <2>1
    <2>3. o \in T
      BY <1>7, <2>2 DEF FirstBy
    <2>4. p <= place(o)
      BY <1>4, <2>3
    <2>5. /\ rank[o][n + 1] \in Int /\ rank[t][n + 1] \in Int
          /\ rank[o][n + 1] < rank[t][n + 1]
      BY <1>1, <1>2, <1>7, <2>2
    <2>6. place(t) = p
      OBVIOUS
    <2> QED BY <2>4, <2>5, <2>6
  <1>8. ASSUME NEW t \in U, NEW o \in S, Agree(n + 1, rank[o], rank[t]) PROVE o \in U
    <2>1. Agree(n, rank[o], rank[t]) /\ rank[o][n + 1] = rank[t][n + 1]
      <3>1. \A i \in 1..(n + 1) : rank[o][i] = rank[t][i]
        BY <1>8, Zenon DEF Agree
      <3> QED BY <1>0, <3>1, Zenon DEF Agree
    <2> QED BY <2>1 DEF FirstBy
  <1> HIDE DEF U
  <1>9. FirstBy(n + 1, S, rank, U)
    BY <1>6, <1>7, <1>8 DEF FirstBy
  <1> QED BY <1>9

\* Ranks of integers bounded below have a first one.
LEMMA FirstExists ==
  ASSUME NEW S, S # {}, NEW rank \in [S -> [1..8 -> Int]], NEW least \in Int,
         \A s \in S, i \in 1..8 : rank[s][i] >= least
  PROVE  \E s \in S : \A o \in S : ~Before(rank[o], rank[s])
  <1>0. FirstBy(0, S, rank, S)
    BY DEF FirstBy
  <1>a. ASSUME NEW n \in 0..7, \E T : FirstBy(n, S, rank, T) PROVE \E T : FirstBy(n + 1, S, rank, T)
    <2>1. PICK T : FirstBy(n, S, rank, T)
      BY <1>a
    <2>2. 8 \in Nat /\ n \in Nat /\ n < 8
      OBVIOUS
    <2> QED BY <2>1, <2>2, FirstByNext
  <1>1. \E T : FirstBy(1, S, rank, T)
    BY <1>0, <1>a
  <1>2. \E T : FirstBy(2, S, rank, T)
    BY <1>1, <1>a
  <1>3. \E T : FirstBy(3, S, rank, T)
    BY <1>2, <1>a
  <1>4. \E T : FirstBy(4, S, rank, T)
    BY <1>3, <1>a
  <1>5. \E T : FirstBy(5, S, rank, T)
    BY <1>4, <1>a
  <1>6. \E T : FirstBy(6, S, rank, T)
    BY <1>5, <1>a
  <1>7. \E T : FirstBy(7, S, rank, T)
    BY <1>6, <1>a
  <1>8. PICK T : FirstBy(8, S, rank, T)
    BY <1>7, <1>a
  <1>9. PICK s \in T : s \in S
    BY <1>8 DEF FirstBy
  <1>10. \A o \in S, i \in 1..8 : ~(rank[o][i] < rank[s][i] /\ Agree(i - 1, rank[o], rank[s]))
    BY <1>8, <1>9, Zenon DEF FirstBy
  <1>11. \A o \in S : DOMAIN rank[o] = 1..8
    OBVIOUS
  <1> QED BY <1>9, <1>10, <1>11, Zenon DEF Before, Agree

\* The rank FirstSpec compares.
BackendPlace(s) == CHOOSE i \in DOMAIN BackendOrder : BackendOrder[i] = s.backend
SpecRank(s) ==
  <<BackendPlace(s)>> \o BlockRank(s.backend, s.tile) \o Rank(s.backend, s.tile)

\* The untuned choice precedes every other listed tiling.
LEMMA FirstIsRankedFirst ==
  ASSUME NEW specs, \E s \in specs : \A o \in specs : ~Before(SpecRank(o), SpecRank(s))
  PROVE  /\ FirstSpec(specs) \in specs
         /\ \A o \in specs : ~Before(SpecRank(o), SpecRank(FirstSpec(specs)))
  <1>1. FirstSpec(specs) = CHOOSE s \in specs : \A o \in specs : ~Before(SpecRank(o), SpecRank(s))
    BY Zenon DEF FirstSpec, SpecRank, BackendPlace
  <1> QED BY <1>1, Zenon

LEMMA SuperShapeRanks ==
  ASSUME NEW ty, NEW t \in SuperShapes(ty)
  PROVE  /\ t.bm \in {128, 64} /\ t.bn \in {128, 64} /\ t.wn \in {64, 32, 16, 128}
         /\ "splits" \notin DOMAIN t
         /\ \E i \in DOMAIN <<32, 64, 16>> : <<32, 64, 16>>[i] = t.bk
         /\ Distance(SuperWarps(t), PreferredWarps) \in Nat
  <1>1. /\ t.bm \in {128, 64} /\ t.bn \in {128, 64} /\ t.bk \in {32, 64, 16}
        /\ t.wm \in {64, 32, 16, 128} /\ t.wn \in {64, 32, 16, 128}
        /\ "splits" \notin DOMAIN t
    BY DEF SuperShapes
  <1>2. SuperWarps(t) \in Int
    BY <1>1 DEF SuperWarps
  <1>3. Distance(SuperWarps(t), PreferredWarps) \in Nat
    BY <1>2 DEF Distance, PreferredWarps
  <1>4. \E i \in DOMAIN <<32, 64, 16>> : <<32, 64, 16>>[i] = t.bk
    BY <1>1
  <1> QED BY <1>1, <1>3, <1>4

LEMMA RankOfEight ==
  ASSUME NEW a \in Int, NEW b1 \in Int, NEW b2 \in Int, NEW b3 \in Int, NEW b4 \in Int,
         NEW c1 \in Int, NEW c2 \in Int, NEW c3 \in Int
  PROVE  /\ <<a>> \o <<b1, b2, b3, b4>> \o <<c1, c2, c3>> = <<a, b1, b2, b3, b4, c1, c2, c3>>
         /\ <<a, b1, b2, b3, b4, c1, c2, c3>> \in [1..8 -> Int]
  <1> DEFINE b == <<b1, b2, b3, b4>>  c == <<c1, c2, c3>>  ab == <<a>> \o b
             abc == <<a, b1, b2, b3, b4, c1, c2, c3>>
  <1>1. <<a>> \in Seq(Int) /\ b \in Seq(Int) /\ c \in Seq(Int)
    OBVIOUS
  <1>2. /\ ab \in Seq(Int) /\ Len(ab) = 5 /\ \A i \in 1..5 : ab[i] = IF i = 1 THEN a ELSE b[i - 1]
    <2>1. Len(<<a>>) = 1 /\ Len(b) = 4 /\ <<a>>[1] = a
      OBVIOUS
    <2>2. /\ ab \in Seq(Int) /\ Len(ab) = Len(<<a>>) + Len(b)
          /\ \A i \in 1..(Len(<<a>>) + Len(b)) : ab[i] = IF i <= Len(<<a>>) THEN <<a>>[i] ELSE b[i - Len(<<a>>)]
      <3> HIDE DEF b
      <3> QED BY <1>1, ConcatProperties
    <2> HIDE DEF ab, b
    <2> QED BY <2>1, <2>2
  <1>3. /\ ab \o c \in Seq(Int) /\ Len(ab \o c) = 8
        /\ \A i \in 1..8 : (ab \o c)[i] = IF i <= 5 THEN ab[i] ELSE c[i - 5]
    <2>1. Len(c) = 3
      OBVIOUS
    <2> DEFINE abc2 == ab \o c
    <2> HIDE DEF c, ab
    <2>2. /\ abc2 \in Seq(Int) /\ Len(abc2) = Len(ab) + Len(c)
          /\ \A i \in 1..(Len(ab) + Len(c)) : abc2[i] = IF i <= Len(ab) THEN ab[i] ELSE c[i - Len(ab)]
      BY <1>1, <1>2, ConcatProperties
    <2> HIDE DEF abc2
    <2>3. Len(ab) = 5
      BY <1>2
    <2>4. abc2 \in Seq(Int) /\ Len(abc2) = 8 /\ \A i \in 1..8 : abc2[i] = IF i <= 5 THEN ab[i] ELSE c[i - 5]
      BY <2>1, <2>2, <2>3
    <2> QED BY <2>4 DEF abc2
  <1>4. ab[1] = a /\ ab[2] = b1 /\ ab[3] = b2 /\ ab[4] = b3 /\ ab[5] = b4
    <2> HIDE DEF ab
    <2> QED BY <1>2
  <1> DEFINE whole == ab \o c
  <1> HIDE DEF ab
  <1>5. whole[1] = a /\ whole[2] = b1 /\ whole[3] = b2 /\ whole[4] = b3 /\ whole[5] = b4
    <2>1. \A i \in 1..8 : whole[i] = IF i <= 5 THEN ab[i] ELSE c[i - 5]
      BY <1>3
    <2> HIDE DEF whole, c
    <2> QED BY <1>4, <2>1
  <1>6. whole[6] = c1 /\ whole[7] = c2 /\ whole[8] = c3
    <2>1. \A i \in 6..8 : whole[i] = c[i - 5]
      <3>1. \A i \in 1..8 : whole[i] = IF i <= 5 THEN ab[i] ELSE c[i - 5]
        BY <1>3
      <3> HIDE DEF whole, c
      <3> QED BY <3>1
    <2>2. whole[6] = c[1] /\ whole[7] = c[2] /\ whole[8] = c[3]
      <3> HIDE DEF whole, c
      <3> QED BY <2>1
    <2> QED BY <2>2
  <1>7. whole \in [1..8 -> Int]
    <2>1. whole \in Seq(Int) /\ Len(whole) = 8
      BY <1>3
    <2> HIDE DEF whole
    <2>2. whole \in [1..Len(whole) -> Int]
      BY <2>1, LenProperties
    <2> QED BY <2>1, <2>2, Zenon
  <1>8. abc \in [1..8 -> Int]
    OBVIOUS
  <1>9. \A i \in 1..8 : whole[i] = abc[i]
    <2> HIDE DEF whole
    <2> QED BY <1>5, <1>6
  <1>10. whole = abc
    <2> HIDE DEF whole, abc
    <2> QED BY <1>7, <1>8, <1>9
  <1> QED BY <1>8, <1>10 DEF ab

LEMMA SpecRanks ==
  ASSUME NEW c, c.op \in GemmOps, MatrixCall(c), IsCall(c), NEW s \in Specs(c)
  PROVE  /\ SpecRank(s) \in [1..8 -> Int]
         /\ \A i \in 1..8 : SpecRank(s)[i] >= -128
         /\ SpecRank(s)[1] = BackendPlace(s)
         /\ \A i \in 1..4 : SpecRank(s)[i + 1] = BlockRank(s.backend, s.tile)[i]
         /\ SpecRank(s)[6] = Rank(s.backend, s.tile)[1]
  <1> DEFINE n == GemmSize(c)  t == s.tile
             place == BackendPlace(s)
             bks == IF s.backend = "bt2d" THEN <<64, 32>> ELSE <<32, 64, 16>>
             bk == CHOOSE i \in DOMAIN bks : bks[i] = t.bk
             splits == IF "splits" \in DOMAIN t THEN t.splits ELSE 1
  <1>1. /\ GemmForm(s) /\ t \in Tiles(s.backend, s.ty, n.batch, n.M, n.N, n.K)
        /\ s.backend \in MmBackends \cup AddmmBackends
    BY GemmListed
  <1>2. place \in 1..5
    <2>1. \E i \in DOMAIN BackendOrder : BackendOrder[i] = s.backend
      BY <1>1 DEF BackendOrder, MmBackends, AddmmBackends
    <2>2. DOMAIN BackendOrder = 1..5
      BY DEF BackendOrder
    <2> QED BY <2>1, <2>2 DEF BackendPlace
  <1> DEFINE head == BlockRank(s.backend, t)  tail == Rank(s.backend, t)
  <1>3. /\ t.bm \in {128, 64, 32} /\ t.bn \in {128, 64, 32}
        /\ \E i \in DOMAIN bks : bks[i] = t.bk
        /\ splits \in 1..16
        /\ \E r1 \in {0, 1}, r2 \in Int, r3 \in Int : r2 >= -128 /\ r3 >= -128 /\ tail = <<r1, r2, r3>>
    <2> USE <1>1
    <2>0. s.backend # "bt2d" => s.ty.in \in {"f16", "bf16"}
      BY TcAssumption DEF GemmForm, BackendSupports
    <2>1. CASE s.backend = "bt2d"
      <3>1. t \in Bt2dTiles(s.ty, n.M, n.N, n.K)
        BY <2>1 DEF Tiles, SplitBackends
      <3>2. t \in [bm : {128, 64, 32}, bn : {128, 64, 32}, bk : {64, 32}, tm : {16, 8}, tn : {16, 8}]
        BY <3>1 DEF Bt2dTiles
      <3>3. tail = <<0, -t.tm, -t.tn>>
        BY <2>1 DEF Rank
      <3>6. -t.tm \in Int /\ -t.tn \in Int /\ -t.tm >= -128 /\ -t.tn >= -128
        BY <3>2
      <3>7. \E r1 \in {0, 1}, r2 \in Int, r3 \in Int : r2 >= -128 /\ r3 >= -128 /\ tail = <<r1, r2, r3>>
        <4> HIDE DEF tail
        <4> QED BY <3>3, <3>6
      <3>4. "splits" \notin DOMAIN t
        BY <3>2
      <3>5. \E i \in DOMAIN bks : bks[i] = t.bk
        BY <2>1, <3>2
      <3> QED BY <3>2, <3>4, <3>5, <3>7
    <2>2. CASE s.backend = "tc2d_to"
      <3>1. t \in Tc2dTiles(s.ty, n.M, n.N, n.K)
        BY <2>2 DEF Tiles, SplitBackends
      <3>2. t \in [bm : {128, 64}, bn : {128, 64}, bk : {32, 64, 16}, tm : {Frag}, tn : {Frag},
                    tk : {Frag}, wm : {8, 4, 2, 16}, wn : {4, 8, 2, 16}]
        BY <3>1 DEF Tc2dTiles
      <3>3. tail = <<IF FragRegs(t.wm, t.wn) > RegBudget THEN 1 ELSE 0,
                     Distance(Tc2dWarps(t), PreferredWarps), -t.wn>>
        BY <2>2, Zenon DEF Rank
      <3>4. "splits" \notin DOMAIN t
        BY <3>2
      <3>5. \E i \in DOMAIN bks : bks[i] = t.bk
        BY <2>2, <3>2
      <3>6. Tc2dWarps(t) \in Int
        BY <3>2 DEF Tc2dWarps, Frag
      <3>7. Distance(Tc2dWarps(t), PreferredWarps) \in Nat
        BY <3>6 DEF Distance, PreferredWarps
      <3>8. \E r1 \in {0, 1}, r2 \in Int, r3 \in Int : r2 >= -128 /\ r3 >= -128 /\ tail = <<r1, r2, r3>>
        <4>1. -t.wn \in Int /\ -t.wn >= -128
          BY <3>2
        <4> HIDE DEF tail
        <4> QED BY <3>3, <3>7, <4>1
      <3> QED BY <3>2, <3>4, <3>5, <3>8
    <2>3. CASE s.backend = "supergemm"
      <3>1. t \in SuperShapes(s.ty)
        BY <2>3 DEF Tiles, SplitBackends, SuperGemmTiles
      <3>2. tail = <<0, Distance(SuperWarps(t), PreferredWarps), -t.wn>>
        BY <2>3 DEF Rank
      <3>3. \E r1 \in {0, 1}, r2 \in Int, r3 \in Int : r2 >= -128 /\ r3 >= -128 /\ tail = <<r1, r2, r3>>
        <4> HIDE DEF tail
        <4> QED BY <3>1, <3>2, SuperShapeRanks
      <3>4. bks = <<32, 64, 16>> /\ splits = 1
        BY <2>3, <3>1, SuperShapeRanks
      <3> HIDE DEF tail, bks, splits
      <3> QED BY <3>1, <3>3, <3>4, SuperShapeRanks
    <2>4. CASE s.backend \in SplitBackends
      <3>1. /\ t.splits \in Splits
            /\ \E u \in SuperShapes(s.ty) : t = Split(u, t.splits)
        <4>1. t \in SplitKTiles(s.ty, n.M, n.N, n.K)
          BY <2>4 DEF Tiles, SplitBackends
        <4>2. n.K \in Nat /\ s.ty.in \in {"f16", "bf16"}
          BY <2>0, <2>4, GemmSizes DEF SplitBackends
        <4> QED BY <4>1, <4>2, SplitTiling
      <3>2. PICK u \in SuperShapes(s.ty) : t = Split(u, t.splits)
        BY <3>1
      <3>3. tail = <<0, Distance(SuperWarps(t), PreferredWarps), -t.wn>>
        BY <2>4 DEF Rank, SplitBackends
      <3>4. t.bm = u.bm /\ t.bn = u.bn /\ t.bk = u.bk /\ t.wm = u.wm /\ t.wn = u.wn
        BY <3>2 DEF Split
      <3>5. SuperWarps(t) = SuperWarps(u)
        BY <3>4 DEF SuperWarps
      <3>6. splits \in 1..16
        <4>1. "splits" \in DOMAIN t
          BY <3>2 DEF Split
        <4> QED BY <3>1, <4>1 DEF Splits
      <3>7. \E r1 \in {0, 1}, r2 \in Int, r3 \in Int : r2 >= -128 /\ r3 >= -128 /\ tail = <<r1, r2, r3>>
        <4> HIDE DEF tail
        <4> QED BY <3>3, <3>4, <3>5, SuperShapeRanks
      <3>8. bks = <<32, 64, 16>>
        BY <2>4 DEF SplitBackends
      <3> HIDE DEF tail, bks, splits
      <3> QED BY <3>4, <3>6, <3>7, <3>8, SuperShapeRanks
    <2> QED BY <1>1, <2>1, <2>2, <2>3, <2>4 DEF MmBackends, AddmmBackends, SplitBackends
  <1>4. bk \in 1..3
    <2>1. DOMAIN bks \subseteq 1..3
      OBVIOUS
    <2> QED BY <1>3, <2>1
  <1>5. head = <<splits, -t.bm, -t.bn, bk>>
    BY Zenon DEF BlockRank
  <1> HIDE DEF place, bk, bks, splits, tail, head, t
  <1>6. PICK r1 \in {0, 1}, r2 \in Int, r3 \in Int : r2 >= -128 /\ r3 >= -128 /\ tail = <<r1, r2, r3>>
    BY <1>3
  <1>7. /\ place \in Int /\ splits \in Int /\ -t.bm \in Int /\ -t.bn \in Int /\ bk \in Int
        /\ r1 \in Int /\ r2 \in Int /\ r3 \in Int
    BY <1>2, <1>3, <1>4
  <1> DEFINE ranks == <<place, splits, -t.bm, -t.bn, bk, r1, r2, r3>>
  <1>8. SpecRank(s) = <<place>> \o <<splits, -t.bm, -t.bn, bk>> \o <<r1, r2, r3>>
    BY <1>5, <1>6, Zenon DEF SpecRank, place, head, tail, t
  <1>9. SpecRank(s) = ranks /\ ranks \in [1..8 -> Int]
    <2>1. /\ <<place>> \o <<splits, -t.bm, -t.bn, bk>> \o <<r1, r2, r3>> = ranks
          /\ ranks \in [1..8 -> Int]
      BY <1>7, RankOfEight
    <2> HIDE DEF ranks
    <2> QED BY <1>8, <2>1
  <1>10. /\ place >= -128 /\ splits >= -128 /\ -t.bm >= -128 /\ -t.bn >= -128 /\ bk >= -128
        /\ r1 >= -128 /\ r2 >= -128 /\ r3 >= -128
    BY <1>2, <1>3, <1>4, <1>6
  <1>11. \A i \in 1..8 : ranks[i] >= -128
    BY <1>10
  <1>12. /\ ranks[1] = place /\ \A i \in 1..4 : ranks[i + 1] = <<splits, -t.bm, -t.bn, bk>>[i]
         /\ ranks[6] = <<r1, r2, r3>>[1]
    BY <1>7
  <1> HIDE DEF ranks
  <1>13. /\ SpecRank(s)[1] = BackendPlace(s)
         /\ \A i \in 1..4 : SpecRank(s)[i + 1] = head[i]
         /\ SpecRank(s)[6] = tail[1]
    BY <1>5, <1>6, <1>9, <1>12, Zenon DEF place
  <1> QED BY <1>9, <1>11, <1>13, Zenon DEF head, tail, t

LEMMA UntunedListed ==
  ASSUME NEW c, c.op \in GemmOps, MatrixCall(c), IsCall(c), Specs(c) # {}
  PROVE  /\ FirstSpec(Specs(c)) \in Specs(c)
         /\ \A o \in Specs(c) : ~Before(SpecRank(o), SpecRank(FirstSpec(Specs(c))))
  <1> DEFINE rank == [s \in Specs(c) |-> SpecRank(s)]
  <1>1. rank \in [Specs(c) -> [1..8 -> Int]] /\ \A s \in Specs(c), i \in 1..8 : rank[s][i] >= -128
    BY SpecRanks
  <1>2. \E s \in Specs(c) : \A o \in Specs(c) : ~Before(rank[o], rank[s])
    <2> HIDE DEF rank
    <2>1. -128 \in Int
      OBVIOUS
    <2> QED BY <1>1, <2>1, FirstExists
  <1>3. \E s \in Specs(c) : \A o \in Specs(c) : ~Before(SpecRank(o), SpecRank(s))
    BY <1>2
  <1> QED BY <1>3, FirstIsRankedFirst

\* Of two tilings of one block, one that spills ranks behind one that does not.
LEMMA SpillsLast ==
  ASSUME NEW c, c.op \in GemmOps, MatrixCall(c), IsCall(c), NEW s \in Specs(c), NEW t \in Specs(c),
         SameBlock(s, t), Spills(t), ~Spills(s)
  PROVE  Before(SpecRank(s), SpecRank(t))
  <1>1. \A u \in {s, t} : /\ u.backend = "tc2d_to"
                          /\ "splits" \notin DOMAIN u.tile
    <2> SUFFICES ASSUME NEW u \in {s, t} PROVE u.backend = "tc2d_to" /\ "splits" \notin DOMAIN u.tile
      OBVIOUS
    <2>1. u.backend = "tc2d_to"
      BY DEF SameBlock, Spills
    <2>2. u.tile \in Tiles(u.backend, u.ty, GemmSize(c).batch, GemmSize(c).M, GemmSize(c).N, GemmSize(c).K)
      BY GemmListed
    <2>3. u.tile \in Tc2dTiles(u.ty, GemmSize(c).M, GemmSize(c).N, GemmSize(c).K)
      BY <2>1, <2>2 DEF Tiles, SplitBackends
    <2>4. "splits" \notin DOMAIN u.tile
      BY <2>3 DEF Tc2dTiles
    <2> QED BY <2>1, <2>4
  <1>2. BackendPlace(s) = BackendPlace(t) /\ BlockRank(s.backend, s.tile) = BlockRank(t.backend, t.tile)
    <2>1. /\ s.backend = t.backend /\ s.tile.bm = t.tile.bm /\ s.tile.bn = t.tile.bn /\ s.tile.bk = t.tile.bk
          /\ "splits" \notin DOMAIN s.tile /\ "splits" \notin DOMAIN t.tile
      BY <1>1 DEF SameBlock
    <2> QED BY <2>1, Zenon DEF BackendPlace, BlockRank
  <1>3. \A j \in 1..5 : SpecRank(s)[j] = SpecRank(t)[j]
    <2>1. SpecRank(s)[1] = SpecRank(t)[1]
      BY <1>2, SpecRanks
    <2>2. \A i \in 1..4 : SpecRank(s)[i + 1] = SpecRank(t)[i + 1]
      <3>1. \A i \in 1..4 : SpecRank(s)[i + 1] = BlockRank(s.backend, s.tile)[i]
        BY SpecRanks
      <3>2. \A i \in 1..4 : SpecRank(t)[i + 1] = BlockRank(t.backend, t.tile)[i]
        BY SpecRanks
      <3> QED BY <1>2, <3>1, <3>2, Zenon
    <2>3. \A j \in 1..5 : j = 1 \/ (j - 1 \in 1..4 /\ j = (j - 1) + 1)
      OBVIOUS
    <2> QED BY <2>1, <2>2, <2>3
  <1>4. SpecRank(s)[6] < SpecRank(t)[6]
    <2>1. Rank(s.backend, s.tile)[1] = IF FragRegs(s.tile.wm, s.tile.wn) > RegBudget THEN 1 ELSE 0
      BY <1>1 DEF Rank
    <2>2. Rank(t.backend, t.tile)[1] = IF FragRegs(t.tile.wm, t.tile.wn) > RegBudget THEN 1 ELSE 0
      BY <1>1 DEF Rank
    <2>3. Rank(s.backend, s.tile)[1] = 0 /\ Rank(t.backend, t.tile)[1] = 1
      BY <1>1, <2>1, <2>2 DEF Spills
    <2>4. SpecRank(s)[6] = 0
      BY <2>3, SpecRanks
    <2>5. SpecRank(t)[6] = 1
      BY <2>3, SpecRanks
    <2> QED BY <2>4, <2>5
  <1>5. SpecRank(s) \in [1..8 -> Int]
    BY SpecRanks
  <1> QED BY <1>3, <1>4, <1>5 DEF Before

-----------------------------------------------------------------------------
CallMade == last.outcome # "none" => last.at \in DOMAIN Calls

LEMMA CallMadeInvariant == Spec => []CallMade
  <1>1. Init => CallMade
    BY DEF Init, CallMade
  <1>2. CallMade /\ [Next]_vars => CallMade'
    <2> SUFFICES ASSUME CallMade, [Next]_vars PROVE CallMade'
      OBVIOUS
    <2>1. CASE UNCHANGED vars
      BY <2>1 DEF vars, CallMade
    <2>2. ASSUME NEW i \in DOMAIN Calls, NEW s, RunSpec(s, i) PROVE CallMade'
      <3>1. last'.at = i
        BY <2>2 DEF RunSpec
      <3> QED BY <3>1 DEF CallMade
    <2>3. ASSUME NEW i \in DOMAIN Calls, Hit(i) PROVE CallMade'
      BY <2>2, <2>3 DEF Hit
    <2>4. ASSUME NEW i \in DOMAIN Calls, Miss(i) PROVE CallMade'
      BY <2>2, <2>4 DEF Miss
    <2>5. ASSUME NEW i \in DOMAIN Calls, Unsupported(i) PROVE CallMade'
      BY <2>5 DEF Unsupported, CallMade
    <2> QED BY <2>1, <2>3, <2>4, <2>5 DEF Next
  <1> QED BY <1>1, <1>2, PTL DEF Spec

\* Whatever the sizes of a product, the tilings listed for it are ones the
\* verified kernel takes, and the one an untuned call gets spills registers
\* only if every warp shape of its block does.
THEOREM ListedTilingsFit == Spec => []CandidatesFit
  <1>1. CallMade => CandidatesFit
    <2> SUFFICES ASSUME CallMade, last.outcome # "none", Calls[last.at].op \in GemmOps
                 PROVE  LET n == GemmSize(Calls[last.at])
                            first == Untuned[last.at] IN
                        \A s \in Candidates[last.at] :
                          /\ n.K > 0 => TileContract(s, n.M, n.N, n.K)
                          /\ SharedMemory(s.backend, s.tile, s.ty) <= ShmemBytes
                          /\ Grid(s.tile, n.batch, n.M, n.N) <= MaxBlocks
                          /\ first # None /\ Spills(first) /\ SameBlock(s, first) => Spills(s)
      BY DEF CandidatesFit
    <2> DEFINE c == Calls[last.at]
    <2>1. last.at \in DOMAIN Calls
      BY DEF CallMade
    <2>a. c.op \in GemmOps /\ MatrixCall(c) /\ IsCall(c)
      BY <2>1, KuiopsAssumption DEF SchemaCall
    <2>b. Candidates[last.at] = Specs(c)
      BY <2>1 DEF Candidates
    <2>2. Untuned[last.at] = IF Candidates[last.at] # {} THEN FirstSpec(Candidates[last.at]) ELSE None
      BY <2>1, <2>a DEF Untuned
    <2> HIDE DEF c
    <2>3. ASSUME NEW s \in Specs(c)
          PROVE  Spills(FirstSpec(Specs(c))) /\ SameBlock(s, FirstSpec(Specs(c))) => Spills(s)
      BY <2>a, <2>b, <2>2, <2>3, UntunedListed, SpillsLast
    <2>4. ASSUME NEW s \in Specs(c)
          PROVE  /\ GemmSize(c).K > 0 => TileContract(s, GemmSize(c).M, GemmSize(c).N, GemmSize(c).K)
                 /\ SharedMemory(s.backend, s.tile, s.ty) <= ShmemBytes
                 /\ Grid(s.tile, GemmSize(c).batch, GemmSize(c).M, GemmSize(c).N) <= MaxBlocks
      BY <2>a, <2>b, <2>2, <2>4, ListedFits
    <2> QED BY <2>a, <2>b, <2>2, <2>3, <2>4 DEF c
  <1> QED BY <1>1, CallMadeInvariant, PTL

-----------------------------------------------------------------------------
(* The contracts *)

LEMMA Grow ==
  ASSUME NEW a \in Nat, NEW b \in Nat, a > 0
  PROVE  b <= a * b /\ b <= b * a /\ a * b \in Nat
  <1>1. a * b = b + (a - 1) * b
    OBVIOUS
  <1>2. (a - 1) * b >= 0
    OBVIOUS
  <1> QED BY <1>1, <1>2

\* A product over four axes or fewer.
LEMMA ProductUnrolled ==
  ASSUME NEW n \in 0..4, NEW dims \in Seq(Nat), Len(dims) = n
  PROVE  /\ n = 0 => Product(dims) = 1
         /\ n = 1 => Product(dims) = dims[1]
         /\ n = 2 => Product(dims) = dims[1] * dims[2]
         /\ n = 3 => Product(dims) = dims[1] * dims[2] * dims[3]
         /\ n = 4 => Product(dims) = dims[1] * dims[2] * dims[3] * dims[4]
  <1> DEFINE IsUpTo(f) == f = [i \in 0..n |-> IF i = 0 THEN 1 ELSE f[i - 1] * dims[i]]
             w == [i \in 0..n |-> CASE i = 0 -> 1
                                    [] i = 1 -> dims[1]
                                    [] i = 2 -> dims[1] * dims[2]
                                    [] i = 3 -> dims[1] * dims[2] * dims[3]
                                    [] OTHER -> dims[1] * dims[2] * dims[3] * dims[4]]
             upTo == CHOOSE f : IsUpTo(f)
  <1>1. IsUpTo(w)
    <2>1. DOMAIN w = 0..n
      OBVIOUS
    <2>2. ASSUME NEW i \in 0..n PROVE w[i] = IF i = 0 THEN 1 ELSE w[i - 1] * dims[i]
      <3>1. \A k \in 1..n : dims[k] \in Nat
        OBVIOUS
      <3>2. CASE i = 0
        BY <3>2
      <3>3. CASE i = 1
        BY <3>1, <3>3
      <3>4. CASE i = 2
        BY <3>4
      <3>5. CASE i = 3
        BY <3>5
      <3>6. CASE i = 4
        BY <3>6
      <3>7. i \in 0..4
        OBVIOUS
      <3> QED BY <3>2, <3>3, <3>4, <3>5, <3>6, <3>7
    <2>3. w = [i \in 0..n |-> w[i]]
      OBVIOUS
    <2> HIDE DEF w
    <2> QED BY <2>2, <2>3
  <1>2. IsUpTo(upTo)
    <2> HIDE DEF IsUpTo, w
    <2> QED BY <1>1
  <1>3. Product(dims) = upTo[n]
    BY DEF Product
  <1> HIDE DEF upTo, w
  <1>4. \A i \in 0..n : upTo[i] = IF i = 0 THEN 1 ELSE upTo[i - 1] * dims[i]
    BY <1>2
  <1> HIDE DEF IsUpTo
  <1>5. \A k \in 1..n : dims[k] \in Nat
    OBVIOUS
  <1>6. upTo[0] = 1
    BY <1>4
  <1>7. n >= 1 => upTo[1] = dims[1]
    BY <1>4, <1>5, <1>6
  <1>8. n >= 2 => upTo[2] = dims[1] * dims[2]
    BY <1>4, <1>7
  <1>9. n >= 3 => upTo[3] = dims[1] * dims[2] * dims[3]
    BY <1>4, <1>8
  <1>10. n = 4 => upTo[4] = dims[1] * dims[2] * dims[3] * dims[4]
    BY <1>4, <1>9
  <1>11. CASE n = 0
    BY <1>3, <1>6, <1>11
  <1>12. CASE n = 1
    BY <1>3, <1>7, <1>12
  <1>13. CASE n = 2
    BY <1>3, <1>8, <1>13
  <1>14. CASE n = 3
    BY <1>3, <1>9, <1>14
  <1>15. CASE n = 4
    BY <1>3, <1>10, <1>15
  <1> QED BY <1>11, <1>12, <1>13, <1>14, <1>15

LEMMA SliceProduct ==
  ASSUME NEW s, NEW i \in Nat, NEW j \in Nat, NEW n \in 0..4, n = j - i + 1,
         \A k \in i..j : s[k] \in Nat
  PROVE  /\ n = 0 => Product(SubSeq(s, i, j)) = 1
         /\ n = 1 => Product(SubSeq(s, i, j)) = s[i]
         /\ n = 2 => Product(SubSeq(s, i, j)) = s[i] * s[i + 1]
         /\ n = 3 => Product(SubSeq(s, i, j)) = s[i] * s[i + 1] * s[i + 2]
         /\ n = 4 => Product(SubSeq(s, i, j)) = s[i] * s[i + 1] * s[i + 2] * s[i + 3]
  <1> DEFINE t == SubSeq(s, i, j)
  <1>1. /\ t \in Seq(Nat) /\ Len(t) = IF i <= j THEN j - i + 1 ELSE 0
        /\ \A k \in 1..(j - i + 1) : t[k] = s[i + k - 1]
    BY SubSeqProperties
  <1> HIDE DEF t
  <1>2. Len(t) = n
    BY <1>1
  <1>3. \A k \in 1..n : t[k] = s[i + k - 1]
    BY <1>1
  <1>4. /\ n >= 1 => t[1] = s[i]
        /\ n >= 2 => t[2] = s[i + 1]
        /\ n >= 3 => t[3] = s[i + 2]
        /\ n >= 4 => t[4] = s[i + 3]
    BY <1>3
  <1>5. /\ n = 0 => Product(t) = 1
        /\ n = 1 => Product(t) = t[1]
        /\ n = 2 => Product(t) = t[1] * t[2]
        /\ n = 3 => Product(t) = t[1] * t[2] * t[3]
        /\ n = 4 => Product(t) = t[1] * t[2] * t[3] * t[4]
    BY <1>1, <1>2, ProductUnrolled, Zenon
  <1>6. CASE n = 0
    BY <1>5, <1>6 DEF t
  <1>7. CASE n = 1
    BY <1>4, <1>5, <1>7 DEF t
  <1>8. CASE n = 2
    BY <1>4, <1>5, <1>8 DEF t
  <1>9. CASE n = 3
    BY <1>4, <1>5, <1>9 DEF t
  <1>10. CASE n = 4
    BY <1>4, <1>5, <1>10 DEF t
  <1> QED BY <1>6, <1>7, <1>8, <1>9, <1>10

\* The sizes a reduction along the last axis computes with.
LEMMA ReduceSizes ==
  ASSUME NEW shape \in Seq(Nat), Len(shape) \in 1..4, ReduceFits(shape)
  PROVE  /\ \A i \in 1..Len(shape) : shape[i] > 0 /\ Product(SubSeq(shape, i, Len(shape))) < U32
         /\ Product(SubSeq(shape, 1, Len(shape) - 1)) \in 1..MaxBlocks
         /\ LET nth == IF shape[Len(shape)] < 1024 THEN shape[Len(shape)] ELSE 1024 IN
            nth \in 1..MaxThreads /\ shape[Len(shape)] + nth < U32
  <1> DEFINE n == Len(shape)  d == shape[n]  nth == IF d < 1024 THEN d ELSE 1024
             rows == Product(SubSeq(shape, 1, n - 1))
             P(i) == Product(SubSeq(shape, i, n))
  <1>0. n \in 1..4
    OBVIOUS
  <1>1. /\ \A i \in 1..n : shape[i] \in Nat /\ shape[i] > 0
        /\ rows <= MaxBlocks /\ rows * d < U32 /\ d + nth < U32
    BY DEF ReduceFits
  <1> HIDE DEF n
  <1>5. \A x, y \in Nat : x > 0 /\ y > 0 => x * y \in Nat /\ x * y > 0 /\ x <= x * y /\ y <= x * y
    BY Grow
  <1>2. ASSUME NEW i \in 1..n
        PROVE  /\ n - i = 0 => P(i) = shape[i]
               /\ n - i = 1 => P(i) = shape[i] * shape[i + 1]
               /\ n - i = 2 => P(i) = shape[i] * shape[i + 1] * shape[i + 2]
               /\ n - i = 3 => P(i) = shape[i] * shape[i + 1] * shape[i + 2] * shape[i + 3]
    <2> DEFINE m == n - i + 1
    <2>1. m \in 0..4 /\ m = n - i + 1 /\ i \in Nat /\ n \in Nat /\ \A k \in i..n : shape[k] \in Nat
      BY <1>0, <1>1
    <2>2. /\ n - i = 0 => m = 1
          /\ n - i = 1 => m = 2
          /\ n - i = 2 => m = 3
          /\ n - i = 3 => m = 4
      OBVIOUS
    <2> HIDE DEF m
    <2>3. /\ m = 1 => Product(SubSeq(shape, i, n)) = shape[i]
          /\ m = 2 => Product(SubSeq(shape, i, n)) = shape[i] * shape[i + 1]
          /\ m = 3 => Product(SubSeq(shape, i, n)) = shape[i] * shape[i + 1] * shape[i + 2]
          /\ m = 4 => Product(SubSeq(shape, i, n)) = shape[i] * shape[i + 1] * shape[i + 2] * shape[i + 3]
      BY <2>1, SliceProduct
    <2> QED BY <2>2, <2>3, Zenon
  <1>3. /\ n = 1 => rows = 1
        /\ n = 2 => rows = shape[1]
        /\ n = 3 => rows = shape[1] * shape[2]
        /\ n = 4 => rows = shape[1] * shape[2] * shape[3]
    <2> DEFINE m == n - 1
    <2>1. m \in 0..4 /\ m = m - 1 + 1 /\ 1 \in Nat /\ m \in Nat /\ \A k \in 1..m : shape[k] \in Nat
      BY <1>0, <1>1
    <2>2. /\ n = 1 => m = 0
          /\ n = 2 => m = 1
          /\ n = 3 => m = 2
          /\ n = 4 => m = 3
          /\ 1 + 1 = 2 /\ 1 + 2 = 3
      OBVIOUS
    <2>3. rows = Product(SubSeq(shape, 1, m))
      OBVIOUS
    <2> HIDE DEF m, rows
    <2>4. /\ m = 0 => Product(SubSeq(shape, 1, m)) = 1
          /\ m = 1 => Product(SubSeq(shape, 1, m)) = shape[1]
          /\ m = 2 => Product(SubSeq(shape, 1, m)) = shape[1] * shape[1 + 1]
          /\ m = 3 => Product(SubSeq(shape, 1, m)) = shape[1] * shape[1 + 1] * shape[1 + 2]
      BY <2>1, SliceProduct
    <2> QED BY <2>2, <2>3, <2>4
  <1> HIDE DEF rows, P
  <1>6. /\ rows \in Nat /\ rows > 0
        /\ \A i \in 1..n : P(i) \in Nat /\ P(i) <= rows * d
    <2>1. CASE n = 1
      <3>2. P(1) = shape[1]
        BY <1>2, <2>1
      <3> QED BY <1>1, <1>3, <2>1, <3>2
    <2>2. CASE n = 2
      <3>2. P(1) = shape[1] * shape[2] /\ P(2) = shape[2]
        BY <1>2, <2>2
      <3> QED BY <1>1, <1>3, <1>5, <2>2, <3>2
    <2>3. CASE n = 3
      <3> DEFINE a == shape[1]  b == shape[2]  c == shape[3]
      <3>2. P(1) = a * b * c /\ P(2) = b * c /\ P(3) = c /\ rows = a * b /\ d = c
        BY <1>2, <1>3, <2>3
      <3>3. a \in Nat /\ b \in Nat /\ c \in Nat /\ a > 0 /\ b > 0 /\ c > 0
        BY <1>1, <2>3
      <3> HIDE DEF a, b, c, d
      <3>4. a * b \in Nat /\ a * b > 0 /\ b * c \in Nat /\ b * c > 0 /\ b <= a * b /\ c <= a * b * c
        BY <1>5, <3>3
      <3>5. b * c <= a * (b * c) /\ a * (b * c) = a * b * c
        BY <1>5, <3>3, <3>4
      <3>9. P(1) \in Nat /\ P(2) \in Nat /\ P(3) \in Nat
        BY <3>2, <3>3, <3>4, <3>5
      <3>10. P(1) <= rows * d /\ P(2) <= rows * d /\ P(3) <= rows * d
        <4>1. rows * d = a * b * c
          BY <3>2
        <4> QED BY <3>2, <3>4, <3>5, <3>9, <4>1
      <3>11. rows \in Nat /\ rows > 0
        BY <3>2, <3>4
      <3>12. \A i \in 1..n : i \in {1, 2, 3}
        BY <2>3
      <3> QED BY <3>9, <3>10, <3>11, <3>12
    <2>4. CASE n = 4
      <3> DEFINE a == shape[1]  b == shape[2]  c == shape[3]  e == shape[4]
      <3>2. /\ P(1) = a * b * c * e /\ P(2) = b * c * e /\ P(3) = c * e /\ P(4) = e
            /\ rows = a * b * c /\ d = e
        BY <1>2, <1>3, <2>4
      <3>3. /\ a \in Nat /\ b \in Nat /\ c \in Nat /\ e \in Nat
            /\ a > 0 /\ b > 0 /\ c > 0 /\ e > 0
        BY <1>1, <2>4
      <3> HIDE DEF a, b, c, d, e
      <3>8. n = 4 /\ rows = a * b * c /\ d = e
        BY <2>4, <3>2
      <3>4. a * b \in Nat /\ a * b > 0 /\ c * e \in Nat /\ c * e > 0 /\ b * c \in Nat /\ b * c > 0
        BY <1>5, <3>3
      <3>5. a * b * c \in Nat /\ a * b * c > 0 /\ b * c * e \in Nat /\ b * c * e > 0
        BY <1>5, <3>3, <3>4
      <3>6. e <= (a * b * c) * e /\ c * e <= (a * b) * (c * e) /\ b * c * e <= a * (b * c * e)
        BY <1>5, <3>3, <3>4, <3>5
      <3>7. (a * b) * (c * e) = (a * b * c) * e /\ a * (b * c * e) = (a * b * c) * e
        BY <3>3
      <3>9. P(1) \in Nat /\ P(2) \in Nat /\ P(3) \in Nat /\ P(4) \in Nat
        BY <3>2, <3>3, <3>4, <3>5
      <3>10. P(1) <= rows * d /\ P(2) <= rows * d /\ P(3) <= rows * d /\ P(4) <= rows * d
        <4>1. rows * d = (a * b * c) * e
          BY <3>8
        <4>2. P(1) = (a * b * c) * e
          BY <3>2
        <4> QED BY <3>2, <3>6, <3>7, <3>9, <4>1, <4>2
      <3>11. rows \in Nat /\ rows > 0
        BY <3>5, <3>8
      <3>12. \A i \in 1..n : i \in {1, 2, 3, 4}
        BY <3>8
      <3> QED BY <3>9, <3>10, <3>11, <3>12
    <2> QED BY <1>0, <2>1, <2>2, <2>3, <2>4
  <1>7. nth \in 1..1024 /\ rows \in 1..MaxBlocks
    <2>1. d \in Nat /\ d > 0
      BY <1>0, <1>1
    <2> HIDE DEF d
    <2> QED BY <1>1, <1>6, <2>1, SizeAssumption
  <1>8. \A i \in 1..n : shape[i] > 0 /\ P(i) < U32
    <2>1. rows \in Nat /\ d \in Nat
      BY <1>0, <1>1, <1>6
    <2>2. rows * d \in Nat
      <3> HIDE DEF rows, d
      <3> QED BY <2>1
    <2> QED BY <1>1, <1>6, <2>2, SizeAssumption
  <1> QED BY <1>1, <1>7, <1>8 DEF n, P, rows, MaxThreads

\* The shape of a tensor among the arguments.
LEMMA TensorShapes ==
  ASSUME NEW c, IsCall(c), NEW i \in DOMAIN c.args, IsTensor(c.args[i])
  PROVE  c.args[i].shape \in Seq(Nat)
  <1>1. c.args[i] \in Arguments
    BY DEF IsCall
  <1> DEFINE x == c.args[i]
  <1> HIDE DEF x
  <1>2. x \in Arguments /\ x.kind = "tensor"
    BY <1>1 DEF IsTensor, x
  <1>3. x.shape \in Seq(Nat)
    BY <1>2 DEF Arguments, Simple, Numbers, MapEntries, Absent
  <1> QED BY <1>3 DEF x

\* A reduction that is listed meets the contract of its kernel.
LEMMA ReduceMeets ==
  ASSUME NEW c, IsCall(c), SchemaCall(c), c.op \in ReduceOps, NEW s \in Specs(c)
  PROVE  ReduceAccepts(c)
  <1> DEFINE X == c.args[1]
  <1>1. s \in ReduceSpecs(c)
    BY SpecsOf
  <1>2. IsTensor(X) /\ Len(X.shape) \in 1..4 /\ ReduceFits(X.shape)
    BY <1>1 DEF ReduceSpecs
  <1>3. X.shape \in Seq(Nat)
    <2>1. 1 \in DOMAIN c.args
      BY DEF SchemaCall, TensorPlaces, ReduceOps, GemmOps, SdpaOps
    <2> QED BY <1>2, <2>1, TensorShapes
  <1> DEFINE shape == X.shape
  <1>4. shape \in Seq(Nat) /\ Len(shape) \in 1..4 /\ ReduceFits(shape)
    BY <1>2, <1>3
  <1> QED BY <1>4, ReduceSizes, SMTT(40) DEF ReduceAccepts

LEMMA ElementwiseMeets ==
  ASSUME NEW c, c.op \in ElementwiseOps, NEW s \in Specs(c), ~RenderFails(s)
  PROVE  ElementwiseAccepts(c, ElementwiseKernel(s))
  <1>1. s \in ElementwiseSpecs(c)
    BY SpecsOf
  <1>2. /\ ElementwiseForm(s)
        /\ Numel(c.args[1]) \in 1..MaxNumel
        /\ s.kind = "map3" => c.args[2].shape = c.args[1].shape
    <2>1. Numel(c.args[1]) \in 1..MaxNumel
      BY <1>1 DEF ElementwiseSpecs
    <2>2. s.kind = "map3" => c.args[2].shape = c.args[1].shape
      BY <1>1 DEF ElementwiseSpecs, ArithmeticSpecs, ElementwiseSpec
    <2> QED BY <1>1, <2>1, <2>2, ElementwiseListed
  <1>3. s.family = "elementwise"
    BY <1>2 DEF ElementwiseForm, ElementwiseSpec
  <1>4. \A i \in DOMAIN s.consts : CastConst(s.consts[i], s.ins[1]) # None
    BY <1>3 DEF RenderFails
  <1> DEFINE k == ElementwiseKernel(s)
  <1>5. k.kind = s.kind /\ \A i \in DOMAIN k.consts : k.consts[i] # None
    BY <1>4 DEF ElementwiseKernel
  <1>6. Numel(c.args[IF s.kind = "map3" THEN 2 ELSE 1]) \in 1..MaxNumel
    BY <1>2 DEF Numel
  <1> HIDE DEF k
  <1> QED BY <1>5, <1>6, Zenon DEF ElementwiseAccepts, k

LEMMA SoftmaxMeets ==
  ASSUME NEW c, IsCall(c), SchemaCall(c), c.op = "softmax", NEW s \in Specs(c)
  PROVE  SoftmaxAccepts(s)
  <1> DEFINE X == c.args[1]  rank == Len(X.shape)  n == X.shape[rank]
             m == IF n = 0 THEN 0 ELSE Numel(X) \div n
  <1>1. /\ rank >= 1 /\ m \in 1..MaxBlocks /\ ~(m * n > MaxNumel)
        /\ s.rows = m /\ s.cols = n
    <2>1. s \in SoftmaxSpecs(c)
      BY SpecsOf
    <2>2. ~(\/ rank < 1 \/ m \notin 1..MaxBlocks \/ m * n > MaxNumel)
      BY <2>1 DEF SoftmaxSpecs
    <2>3. s = [family |-> "softmax", dtype |-> X.dtype, rows |-> m, cols |-> n]
      <3> HIDE DEF X, rank, n, m
      <3> QED BY <2>1 DEF SoftmaxSpecs, X, rank, n, m
    <2>4. rank \in Int
      <3>1. X.shape \in Seq(Nat)
        BY TensorShapes DEF SchemaCall, TensorPlaces, GemmOps, SdpaOps
      <3> QED BY <3>1
    <2>5. s.rows = m /\ s.cols = n
      BY <2>3, Zenon
    <2> HIDE DEF rank, n, m
    <2> QED BY <2>2, <2>4, <2>5
  <1>2. n \in Nat
    <2>1. 1 \in DOMAIN c.args /\ IsTensor(X)
      BY DEF SchemaCall, TensorPlaces, GemmOps, SdpaOps
    <2>2. X.shape \in Seq(Nat)
      BY <2>1, TensorShapes
    <2> HIDE DEF X
    <2> QED BY <1>1, <2>2
  <1>3. n # 0
    BY <1>1
  <1> HIDE DEF n, m
  <1>4. m * n \in Int /\ MaxNumel \in Int
    BY <1>1, <1>2, SizeAssumption DEF MaxNumel, MaxThreads
  <1> QED BY <1>1, <1>2, <1>3, <1>4 DEF SoftmaxAccepts

LEMMA WarpsChosen ==
  ASSUME NEW d, ChooseNw(d) # None
  PROVE  /\ ChooseNw(d) \in {1, 2, 4} /\ Shmem(ChooseNw(d), d) <= SdpaShmem
         /\ ChooseNw(d) * 32 <= MaxThreads
  <1> DEFINE fits == {nw \in {4, 2, 1} : nw * 32 <= MaxThreads /\ Shmem(nw, d) <= SdpaShmem}
  <1>1. fits # {} /\ ChooseNw(d) = CHOOSE nw \in fits : \A other \in fits : other <= nw
    BY Zenon DEF ChooseNw
  <1>2. \E nw \in fits : \A other \in fits : other <= nw
    <2>1. fits \subseteq {1, 2, 4}
      OBVIOUS
    <2> HIDE DEF fits
    <2>2. CASE 4 \in fits
      BY <2>1, <2>2
    <2>3. CASE 4 \notin fits /\ 2 \in fits
      BY <2>1, <2>3
    <2>4. CASE 4 \notin fits /\ 2 \notin fits
      <3>1. \A x \in fits : x = 1
        BY <2>1, <2>4
      <3>2. 1 \in fits
        BY <1>1, <3>1
      <3> QED BY <3>1, <3>2
    <2> QED BY <2>2, <2>3, <2>4
  <1> HIDE DEF fits
  <1>3. ChooseNw(d) \in fits
    BY <1>1, <1>2
  <1> QED BY <1>3 DEF fits

\* The sizes the contract of attention bounds.
ContractSizes(b, hq, hkv, sq, sk, d, nw) ==
  LET rows == (hq \div hkv) * sq
      tiles == (rows + 15) \div 16
  IN  {rows + 15, tiles * 16, hq + rows,
       sq * d, hq * (sq * d), b * (hq * (sq * d)),
       sk * d, hkv * (sk * d), b * (hkv * (sk * d)),
       sq * sk, hq * (sq * sk), b * (hq * (sq * sk)),
       16 * d, nw * 16, nw * 256, nw * 16 * d, 16 * d + nw * 32, 16 * d + 32,
       sk + 32, sk + 32 + nw}

\* What supported() asks of the sizes of an attention.
SdpaListedSizes(b, hq, hkv, sq, sk, d, nw) ==
  /\ {b, hq, hkv, sq, sk, d} \subseteq Nat \ {0} /\ nw \in {1, 2, 4}
  /\ Divisible(hq, hkv)
  /\ \A n \in SdpaSizes(b, hq, hkv, sq, sk, d, nw) : ~(n >= U32)

LEMMA SdpaSizesFit ==
  ASSUME NEW b, NEW hq, NEW hkv, NEW sq, NEW sk, NEW d, NEW nw,
         SdpaListedSizes(b, hq, hkv, sq, sk, d, nw)
  PROVE  /\ hq = hkv * (hq \div hkv)
         /\ \A n \in ContractSizes(b, hq, hkv, sq, sk, d, nw) : n < U32
  <1> DEFINE group == hq \div hkv
             rows == group * sq
             tiles == (rows + 15) \div 16
  <1>0. /\ b \in Nat /\ hq \in Nat /\ hkv \in Nat /\ sq \in Nat /\ sk \in Nat /\ d \in Nat
        /\ b > 0 /\ hq > 0 /\ hkv > 0 /\ sq > 0 /\ sk > 0 /\ d > 0
        /\ nw \in {1, 2, 4} /\ hq % hkv = 0
        /\ \A n \in SdpaSizes(b, hq, hkv, sq, sk, d, nw) : ~(n >= U32)
    BY DEF SdpaListedSizes, Divisible
  <1> USE <1>0
  <1>1. group \in Nat /\ hq = hkv * group
    OBVIOUS
  <1>2. rows \in Nat /\ tiles \in Nat
    BY <1>1
  <1>3. /\ ~(rows + 15 >= U32) /\ ~(tiles * 16 >= U32) /\ ~(hkv * group + rows >= U32)
        /\ ~(b * hq * sq * d >= U32) /\ ~(b * hkv * sk * d >= U32) /\ ~(b * hq * sq * sk >= U32)
        /\ ~(16 * d + nw * 32 >= U32) /\ ~(16 * d + 32 >= U32) /\ ~(nw * 16 * 16 >= U32)
        /\ ~(nw * 16 * d >= U32) /\ ~(sk + 32 + nw >= U32)
    BY DEF SdpaSizes
  <1>4. ASSUME NEW x \in Nat, NEW y \in Nat, NEW z \in Nat, x > 0, y > 0, z > 0, ~(b * x * y * z >= U32)
        PROVE  y * z < U32 /\ x * (y * z) < U32 /\ b * (x * (y * z)) < U32
    <2>1. y * z \in Nat /\ y * z > 0 /\ x * (y * z) \in Nat /\ y * z <= x * (y * z)
      BY <1>4, Grow
    <2>2. x * (y * z) <= b * (x * (y * z)) /\ b * (x * (y * z)) \in Nat
      BY <1>4, <2>1, Grow
    <2>3. b * (x * (y * z)) = b * x * y * z
      OBVIOUS
    <2> QED BY <1>4, <2>1, <2>2, <2>3, SizeAssumption
  <1>5. /\ sq * d < U32 /\ hq * (sq * d) < U32 /\ b * (hq * (sq * d)) < U32
        /\ sk * d < U32 /\ hkv * (sk * d) < U32 /\ b * (hkv * (sk * d)) < U32
        /\ sq * sk < U32 /\ hq * (sq * sk) < U32 /\ b * (hq * (sq * sk)) < U32
    BY <1>3, <1>4
  <1>6. /\ 16 * d < U32 /\ nw * 16 < U32 /\ nw * 256 < U32 /\ nw * 16 * d < U32
        /\ 16 * d + nw * 32 < U32 /\ 16 * d + 32 < U32 /\ sk + 32 < U32 /\ sk + 32 + nw < U32
    BY <1>3, SizeAssumption
  <1>7. rows + 15 < U32 /\ tiles * 16 < U32 /\ hq + rows < U32
    <2> HIDE DEF rows, tiles, group
    <2> QED BY <1>1, <1>2, <1>3, SizeAssumption
  <1>8. ASSUME NEW n \in {rows + 15, tiles * 16, hq + rows,
                         sq * d, hq * (sq * d), b * (hq * (sq * d)),
                         sk * d, hkv * (sk * d), b * (hkv * (sk * d)),
                         sq * sk, hq * (sq * sk), b * (hq * (sq * sk)),
                         16 * d, nw * 16, nw * 256, nw * 16 * d, 16 * d + nw * 32, 16 * d + 32,
                         sk + 32, sk + 32 + nw}
        PROVE  n < U32
    <2> HIDE DEF rows, tiles
    <2> QED BY <1>5, <1>6, <1>7
  <1>9. \A n \in ContractSizes(b, hq, hkv, sq, sk, d, nw) : n < U32
    BY <1>8, Zenon DEF ContractSizes
  <1> QED BY <1>1, <1>9

\* The warps chosen fit the shared memory and the block.
LEMMA SdpaMeets ==
  ASSUME NEW c, IsCall(c), SchemaCall(c), c.op \in SdpaOps, NEW s \in Specs(c)
  PROVE  SdpaAccepts(s, c)
  <1> DEFINE Q == c.args[1]  K == c.args[2]  V == c.args[3]  bias == c.args[4]
             tensors == {c.args[i] : i \in {i \in 1..4 : c.args[i] # Absent}}
             b == Q.shape[1]  hq == Q.shape[2]  sq == Q.shape[3]  d == Q.shape[4]
             hkv == K.shape[2]  sk == K.shape[3]
             nw == ChooseNw(d)
  <1>1. s \in SdpaSpecs(c)
    BY SpecsOf
  <1>2. /\ \A i \in {1, 2, 3} : i \in DOMAIN c.args /\ IsTensor(c.args[i]) /\ c.args[i].shape \in Seq(Nat)
    BY TensorShapes DEF SchemaCall, TensorPlaces, GemmOps, SdpaOps
  <1>3. /\ ~\E t \in tensors : ~IsTensor(t) \/ Len(t.shape) # 4 \/ ~IsContiguous(t) \/ t.dtype # Q.dtype
        /\ ~\E n \in {b, hq, hkv, sq, sk, d} : n <= 0
        /\ ~~Divisible(d, 16) /\ ~~Divisible(hq, hkv) /\ ~(sq > sk)
        /\ ~(b * hkv * (((hq \div hkv) * sq + 15) \div 16) > MaxBlocks)
        /\ nw # None
        /\ ~\E n \in SdpaSizes(b, hq, hkv, sq, sk, d, nw) : n >= U32
    BY <1>1, Zenon DEF SdpaSpecs
  <1>4. s.nw = nw
    <2>1. \E variant, mask, causal, scale :
            s = [family |-> "sdpa", dtype |-> Q.dtype, nw |-> nw, variant |-> variant, mask |-> mask,
                 causal |-> causal, scale |-> scale]
      BY <1>1, Zenon DEF SdpaSpecs
    <2> HIDE DEF nw
    <2> QED BY <2>1
  <1>5. Len(Q.shape) = 4 /\ Len(K.shape) = 4
    <2>1. Q \in tensors /\ K \in tensors
      BY <1>2 DEF IsTensor, Absent
    <2> HIDE DEF tensors, Q, K
    <2> QED BY <1>3, <2>1, Zenon
  <1>6. b \in Nat /\ hq \in Nat /\ sq \in Nat /\ d \in Nat /\ hkv \in Nat /\ sk \in Nat
    <2>1. Q.shape \in Seq(Nat) /\ K.shape \in Seq(Nat)
      BY <1>2
    <2>2. \A i \in 1..4 : Q.shape[i] \in Nat /\ K.shape[i] \in Nat
      BY <1>5, <2>1, ElementOfSeq, Zenon
    <2>3. 1 \in 1..4 /\ 2 \in 1..4 /\ 3 \in 1..4 /\ 4 \in 1..4
      OBVIOUS
    <2> QED BY <2>2, <2>3, Zenon
  <1> HIDE DEF b, hq, sq, d, hkv, sk
  <1>7. /\ nw \in {1, 2, 4} /\ Shmem(nw, d) <= SdpaShmem /\ nw * 32 <= MaxThreads
    BY <1>3, WarpsChosen
  <1> HIDE DEF nw
  <1>8. b > 0 /\ hq > 0 /\ sq > 0 /\ d > 0 /\ hkv > 0 /\ sk > 0 /\ sq <= sk
    BY <1>3, <1>6
  <1>9. /\ hq = hkv * (hq \div hkv)
        /\ \A n \in ContractSizes(b, hq, hkv, sq, sk, d, nw) : n < U32
    <2>1. Divisible(hq, hkv) /\ \A n \in SdpaSizes(b, hq, hkv, sq, sk, d, nw) : ~(n >= U32)
      BY <1>3, Zenon
    <2>2. SdpaListedSizes(b, hq, hkv, sq, sk, d, nw)
      BY <1>6, <1>7, <1>8, <2>1 DEF SdpaListedSizes
    <2> QED BY <2>2, SdpaSizesFit, Zenon
  <1>10. b * hkv * (((hq \div hkv) * sq + 15) \div 16) <= MaxBlocks
    <2>1. (hq \div hkv) * sq \in Nat
      BY <1>6, <1>8
    <2>2. ((hq \div hkv) * sq + 15) \div 16 \in Nat
      BY <2>1
    <2> DEFINE tiles == ((hq \div hkv) * sq + 15) \div 16
    <2>3. b * hkv * tiles \in Nat /\ ~(b * hkv * tiles > MaxBlocks)
      BY <1>3, <1>6, <2>2
    <2> HIDE DEF tiles
    <2>4. b * hkv * tiles <= MaxBlocks
      BY <2>3, SizeAssumption
    <2> QED BY <2>4 DEF tiles
  <1>11. \A n \in {b, hq, hkv, sq, sk, d} : n > 0
    BY <1>8
  <1> QED BY <1>3, <1>4, <1>7, <1>8, <1>9, <1>10, <1>11, Zenon
          DEF SdpaAccepts, ContractSizes, b, hq, sq, d, hkv, sk

-----------------------------------------------------------------------------
(* What the key of a call fixes *)

\* A tensor of the shape, the strides and the type of x.
Twin(x, y) == IsTensor(y) /\ y.shape = x.shape /\ y.stride = x.stride /\ y.dtype = x.dtype

LEMMA SimpleTwins ==
  ASSUME NEW x \in Simple, NEW y \in Simple, SimpleKey(x) = SimpleKey(y), IsTensor(x)
  PROVE  Twin(x, y)
  <1>1. y.kind \in {"tensor", "int", "float", "map", "none", "index", "flag", "word"}
    BY SimpleForms
  <1>2. SimpleKey(x)[1] = "t"
    BY KeyHeads DEF IsTensor
  <1>3. y.kind = "tensor"
    BY <1>1, <1>2, KeyHeads
  <1> QED BY <1>3, KeyFields, Zenon DEF IsTensor, Twin

\* A list of the items of x, tensors being replaced by tensors like them.
ListTwin(x, y) ==
  /\ y.kind = "list" /\ DOMAIN x.items = DOMAIN y.items
  /\ \A i \in DOMAIN x.items : IsTensor(x.items[i]) => Twin(x.items[i], y.items[i])

LEMMA ArgumentTwins ==
  ASSUME NEW x \in Arguments, NEW y \in Arguments, KeyPart(x) = KeyPart(y)
  PROVE  /\ IsTensor(x) => Twin(x, y)
         /\ x.kind = "list" => ListTwin(x, y)
  <1>1. ASSUME NEW v \in Arguments, v.kind # "list"
        PROVE  v \in Simple /\ SimpleKey(v)[1] # "l" /\ KeyPart(v) = SimpleKey(v)
    <2>1. v \in Simple
      BY <1>1 DEF Arguments
    <2>2. v.kind \in {"tensor", "int", "float", "map", "none", "index", "flag", "word"}
      BY <2>1, SimpleForms
    <2> QED BY <1>1, <2>1, <2>2, KeyHeads DEF KeyPart
  <1>2. ASSUME NEW v \in Arguments, v.kind = "list"
        PROVE  /\ v.items \in Seq(Simple) /\ KeyPart(v)[1] = "l"
               /\ KeyPart(v)[2] = [i \in DOMAIN v.items |-> SimpleKey(v.items[i])]
    <2>1. v \notin Simple
      <3>1. \A u \in Simple : u.kind # "list"
        BY SimpleForms
      <3> QED BY <1>2, <3>1
    <2>2. v.items \in Seq(Simple)
      BY <2>1 DEF Arguments
    <2> QED BY <1>2, <2>2 DEF KeyPart
  <1>3. CASE x.kind # "list"
    <2>1. y.kind # "list"
      BY <1>1, <1>2, <1>3
    <2>2. SimpleKey(x) = SimpleKey(y) /\ x \in Simple /\ y \in Simple
      BY <1>1, <1>3, <2>1, Zenon
    <2> QED BY <1>3, <2>2, SimpleTwins
  <1>4. CASE x.kind = "list"
    <2>1. y.kind = "list"
      BY <1>1, <1>2, <1>4
    <2>2. [i \in DOMAIN x.items |-> SimpleKey(x.items[i])] = [i \in DOMAIN y.items |-> SimpleKey(y.items[i])]
      BY <1>2, <1>4, <2>1
    <2>3. DOMAIN x.items = DOMAIN y.items
      BY <2>2, Zenon
    <2>4. \A i \in DOMAIN x.items : SimpleKey(x.items[i]) = SimpleKey(y.items[i])
      BY <2>2, <2>3, Zenon
    <2>5. x.items \in Seq(Simple) /\ y.items \in Seq(Simple)
      BY <1>2, <1>4, <2>1
    <2>6. \A items \in Seq(Simple) : \A i \in DOMAIN items : items[i] \in Simple
      OBVIOUS
    <2>7. \A i \in DOMAIN x.items : x.items[i] \in Simple /\ y.items[i] \in Simple
      BY <2>3, <2>5, <2>6, Zenon
    <2> QED BY <1>4, <2>1, <2>3, <2>4, <2>7, SimpleTwins, Zenon DEF ListTwin, IsTensor
  <1> QED BY <1>3, <1>4

\* d is a call of the op and the key of c.
Keyed(c, d) == IsCall(c) /\ SchemaCall(c) /\ IsCall(d) /\ SchemaCall(d) /\ c.op \in AllOps /\ SameKey(d, c)

LEMMA CallTwins ==
  ASSUME NEW c, NEW d, Keyed(c, d)
  PROVE  /\ c.op = d.op /\ DOMAIN c.args = DOMAIN d.args /\ Len(c.args) = Len(d.args)
         /\ \A i \in DOMAIN d.args : IsTensor(d.args[i]) => Twin(d.args[i], c.args[i])
         /\ \A i \in DOMAIN d.args : d.args[i].kind = "list" => ListTwin(d.args[i], c.args[i])
  <1>1. c.op = d.op /\ [k \in DOMAIN d.args |-> KeyPart(d.args[k])] = [k \in DOMAIN c.args |-> KeyPart(c.args[k])]
    BY DEF Keyed, SameKey, SpecKey
  <1>2. DOMAIN c.args = DOMAIN d.args
    BY <1>1, Zenon
  <1>3. \A k \in DOMAIN d.args : KeyPart(d.args[k]) = KeyPart(c.args[k])
    BY <1>1, <1>2, Zenon
  <1>4. c.args \in Seq(Arguments) /\ d.args \in Seq(Arguments)
    BY DEF Keyed, IsCall
  <1>5. \A k \in DOMAIN d.args : c.args[k] \in Arguments /\ d.args[k] \in Arguments
    BY <1>2, <1>4
  <1>6. Len(c.args) = Len(d.args)
    BY <1>2, <1>4
  <1> QED BY <1>1, <1>2, <1>3, <1>5, <1>6, ArgumentTwins

-----------------------------------------------------------------------------
(* What the predicates leave unchecked *)

\* Each backend's contract, from its tilings, the sizes of the operands and the
\* checks of the wrapper.
LEMMA GemmMeets ==
  ASSUME NEW c, NEW d, Keyed(c, d), d.op \in GemmOps, NEW s \in Specs(d), ~WrapperRefuses(s, c)
  PROVE  GemmAccepts(s, c) <=> GemmInRange(s, c)
  <1> DEFINE A == c.args[Len(c.args) - 1]
             B == c.args[Len(c.args)]
             n == GemmSize(c)
             rank == Len(A.shape)
  <1>1. MatrixCall(c) /\ MatrixCall(d) /\ IsCall(d) /\ c.op = d.op /\ c.op \in GemmOps
    BY CallTwins DEF Keyed, SchemaCall
  <1>2. Twin(d.args[Len(d.args) - 1], A) /\ Twin(d.args[Len(d.args)], B)
    <2> DEFINE l == Len(d.args)
    <2>1. l = IF d.op = "addmm" THEN 3 ELSE 2
      BY <1>1, Zenon DEF MatrixCall
    <2>2. DOMAIN d.args = 1..l
      BY <1>1 DEF IsCall
    <2>3. Len(c.args) = l /\ \A i \in DOMAIN d.args : IsTensor(d.args[i]) /\ Twin(d.args[i], c.args[i])
      BY <1>1, CallTwins DEF MatrixCall
    <2> HIDE DEF l
    <2>4. l - 1 \in DOMAIN d.args /\ l \in DOMAIN d.args
      BY <2>1, <2>2
    <2>5. Twin(d.args[l - 1], c.args[l - 1]) /\ Twin(d.args[l], c.args[l])
      BY <2>3, <2>4, Zenon
    <2> QED BY <2>3, <2>5 DEF l
  <1>3. n = GemmSize(d)
    BY <1>2, Zenon DEF GemmSize, Twin
  <1>4. /\ n.batch = IF rank = 3 THEN A.shape[1] ELSE 1
        /\ n.M = A.shape[rank - 1] /\ n.N = B.shape[rank] /\ n.K = A.shape[rank]
    BY DEF GemmSize
  <1>5. n.K > 0 => TileContract(s, n.M, n.N, n.K)
    BY <1>1, <1>3, ListedFits
  <1>6. s.backend \in TnBackends => ColumnMajor(B, n.K) /\ AlignedAfterContiguous(A)
    <2>1. s.backend \in TnBackends => B.aligned /\ AlignedAfterContiguous(A)
      BY DEF WrapperRefuses, ColumnMajor
    <2>2. s.backend \in TnBackends => d.args[Len(d.args)].stride = <<1, GemmSize(d).K>>
      BY <1>1, GemmListed, Zenon DEF ColumnMajor
    <2>3. B.stride = d.args[Len(d.args)].stride
      BY <1>2 DEF Twin
    <2> QED BY <1>3, <2>1, <2>2, <2>3, Zenon DEF ColumnMajor
  <1> DEFINE positive == \A x \in {n.batch, n.M, n.N, n.K} : x > 0
             small == \A x \in {n.batch * n.M * n.K, n.batch * n.K * n.N, n.batch * n.M * n.N} : x < U32
             combined == s.backend = "tc2d_to" /\ s.family = "addmm" => AlignedAfterContiguous(c.args[1])
             summed == s.backend \in SplitBackends => s.ty.acc = "f32"
             alignedA == AlignedAfterContiguous(A)
             alignedB == AlignedAfterContiguous(B)
             column == ColumnMajor(B, n.K)
             tiled == TileContract(s, n.M, n.N, n.K)
             tn == s.backend \in TnBackends
  <1>7. GemmInRange(s, c) <=> positive /\ small /\ (~tn => alignedA /\ alignedB) /\ combined /\ summed
    BY Zenon DEF GemmInRange
  <1>8. GemmAccepts(s, c) <=> /\ positive /\ small /\ alignedA /\ (IF tn THEN column ELSE alignedB)
                              /\ combined /\ summed /\ tiled
    <2> HIDE DEF n
    <2> QED BY <1>4, Zenon DEF GemmAccepts
  <1>9. positive => tiled
    BY <1>5, Zenon
  <1>10. tn => column /\ alignedA
    BY <1>6
  <1> HIDE DEF positive, small, combined, summed, alignedA, alignedB, column, tiled, tn
  <1> QED BY <1>7, <1>8, <1>9, <1>10, Zenon

\* Gather, scatter and cat.
LEMMA MoveMeets ==
  ASSUME NEW c, NEW d, Keyed(c, d), d.op \in MoveOps, NEW s \in Specs(d)
  PROVE  MoveAccepts(c) <=> MoveInRange(c)
  <1>0. c.op = d.op
    BY CallTwins
  <1>1. CASE d.op = "cat"
    <2> DEFINE X == d.args[1].items[1]
               Y == d.args[1].items[2]
               first == c.args[1].items[1].shape
               second == c.args[1].items[2].shape
    <2>1. s \in CatSpecs(d)
      BY <1>1, SpecsOf
    <2>2. Len(d.args[1].items) = 2 /\ Len(X.shape) >= 1 /\ Len(Y.shape) = Len(X.shape)
      BY <2>1 DEF CatSpecs, MoveSpec
    <2>3. /\ 1 \in DOMAIN d.args /\ d.args[1].kind = "list"
          /\ \A i \in DOMAIN d.args[1].items : IsTensor(d.args[1].items[i])
      BY <1>1, Zenon DEF Keyed, SchemaCall
    <2>4. d.args[1] \in Arguments
      BY <2>3 DEF Keyed, IsCall
    <2>5. d.args[1].items \in Seq(Simple)
      BY <2>3, <2>4 DEF Arguments, Simple, Numbers, MapEntries, Absent
    <2>6. 1 \in DOMAIN d.args[1].items /\ 2 \in DOMAIN d.args[1].items
      BY <2>2, <2>5
    <2>7. ListTwin(d.args[1], c.args[1])
      BY <2>3, CallTwins, Zenon
    <2>8. first = X.shape /\ second = Y.shape
      BY <2>3, <2>6, <2>7, Zenon DEF ListTwin, Twin
    <2>9. Len(first) \in Nat /\ Len(first) >= 1 /\ Len(second) = Len(first)
      <3>1. X \in Simple /\ IsTensor(X)
        BY <2>3, <2>5, <2>6
      <3> HIDE DEF X
      <3>2. X.shape \in Seq(Nat)
        BY <3>1 DEF Simple, Numbers, MapEntries, Absent, IsTensor
      <3> QED BY <2>2, <2>8, <3>2
    <2>10. MoveAccepts(c) <=> Sizes(first) /\ Sizes(second) /\ Len(first) \in 1..4
      BY <1>0, <1>1, Zenon DEF MoveAccepts
    <2>11. MoveInRange(c) <=> Sizes(first) /\ Len(first) <= 4 /\ Sizes(second) /\ Len(second) <= 4
      BY <1>0, <1>1 DEF MoveInRange, Moved
    <2> HIDE DEF first, second
    <2> QED BY <2>9, <2>10, <2>11
  <1>2. CASE d.op # "cat"
    <2> DEFINE first == c.args[1].shape
               third == c.args[3].shape
    <2>1. s \in IndexedSpecs(d)
      BY <1>2, SpecsOf DEF MoveOps
    <2>2. /\ s.rank >= 1 /\ s.rank = Len(d.args[1].shape)
          /\ ShapeLe(d.args[3].shape, d.args[1].shape) /\ Numel(d.args[3]) \in 1..MaxNumel
      BY <2>1 DEF IndexedSpecs, MoveSpec
    <2>3. \A i \in {1, 3} : i \in DOMAIN d.args /\ IsTensor(d.args[i])
      BY <1>2 DEF Keyed, SchemaCall, TensorPlaces, GemmOps, MoveOps
    <2>4. Twin(d.args[1], c.args[1]) /\ Twin(d.args[3], c.args[3])
      BY <2>3, CallTwins
    <2>5. first = d.args[1].shape /\ third = d.args[3].shape /\ Numel(c.args[3]) = Numel(d.args[3])
      BY <2>4 DEF Twin, Numel
    <2>6. Len(first) \in Nat /\ Len(first) >= 1 /\ Len(third) = Len(first) /\ ShapeLe(third, first)
      <3>1. d.args[1].shape \in Seq(Nat)
        BY <2>3, TensorShapes DEF Keyed
      <3> QED BY <2>2, <2>5, <3>1 DEF ShapeLe
    <2>7. Numel(c.args[3]) <= MaxNumel
      BY <2>2, <2>5, SizeAssumption DEF MaxNumel, MaxThreads
    <2>8. MoveAccepts(c) <=> /\ Sizes(first) /\ Sizes(third) /\ Len(first) \in 1..4
                             /\ ShapeLe(third, first) /\ Numel(c.args[3]) <= MaxNumel
      BY <1>0, <1>2, Zenon DEF MoveAccepts
    <2>9. MoveInRange(c) <=> Sizes(first) /\ Len(first) <= 4 /\ Sizes(third) /\ Len(third) <= 4
      BY <1>0, <1>2 DEF MoveInRange, Moved
    <2> HIDE DEF first, third
    <2> QED BY <2>6, <2>7, <2>8, <2>9
  <1> QED BY <1>1, <1>2

LEMMA ListedAccepted ==
  ASSUME NEW c, NEW d, Keyed(c, d), NEW s \in Specs(d), ~RenderFails(s), ~LaunchFails(s, c)
  PROVE  Accepts(Kernel(s), s, c) <=> InRange(s, c)
  <1>0. /\ IsCall(d) /\ SchemaCall(d) /\ d.op \in AllOps /\ c.op = d.op
        /\ \A i \in DOMAIN d.args : IsTensor(d.args[i]) => Twin(d.args[i], c.args[i])
    BY CallTwins DEF Keyed
  <1>a. c.op \notin GemmOps \cup MoveOps => InRange(s, c)
    BY DEF InRange
  <1>b. d.op \notin GemmOps /\ 1 \in TensorPlaces(d.op) => Twin(d.args[1], c.args[1])
    BY <1>0, Zenon DEF SchemaCall
  <1>1. CASE d.op \in ElementwiseOps
    <2> DEFINE k == ElementwiseKernel(s)
               place == IF k.kind = "map3" THEN 2 ELSE 1
    <2>1. s \in ElementwiseSpecs(d) /\ ElementwiseForm(s) /\ s.family = "elementwise"
      BY <1>0, <1>1, SpecsOf, ElementwiseListed DEF ElementwiseForm, ElementwiseSpec
    <2>2. Kernel(s) = k
      BY <2>1 DEF Kernel, GemmOps
    <2> HIDE DEF k
    <2>3. Accepts(k, s, c) = ElementwiseAccepts(c, k)
      BY <2>1 DEF Accepts, GemmOps
    <2>4. ElementwiseAccepts(d, k)
      BY <1>0, <1>1, ElementwiseMeets DEF k
    <2>5. Twin(d.args[place], c.args[place])
      <3>1. CASE k.kind = "map3"
        <4>1. s.kind = "map3"
          BY <3>1 DEF k, ElementwiseKernel
        <4>2. d.op = "where" /\ IsTensor(d.args[2])
          BY <1>1, <2>1, <4>1 DEF ElementwiseSpecs, ArithmeticSpecs, ElementwiseSpec
        <4>3. 2 \in DOMAIN d.args
          BY <1>0, <1>1, <4>2 DEF SchemaCall, Arity, Unary, IsCall
        <4> QED BY <1>0, <3>1, <4>2, <4>3
      <3>2. CASE k.kind # "map3"
        <4>1. d.op \notin GemmOps /\ 1 \in TensorPlaces(d.op)
          BY <1>1 DEF TensorPlaces, GemmOps, SdpaOps, ElementwiseOps, Arithmetic, Unary, Binary, Compare
        <4> QED BY <1>b, <3>2, <4>1
      <3> QED BY <3>1, <3>2
    <2>6. Numel(c.args[place]) = Numel(d.args[place])
      BY <2>5 DEF Twin, Numel
    <2>7. ElementwiseAccepts(c, k)
      BY <2>4, <2>6, Zenon DEF ElementwiseAccepts
    <2>8. c.op \notin GemmOps \cup MoveOps
      BY <1>0, <1>1 DEF GemmOps, MoveOps, ElementwiseOps, Arithmetic, Unary, Binary, Compare
    <2> QED BY <1>a, <2>2, <2>3, <2>7, <2>8, Zenon
  <1>2. CASE d.op \in ReduceOps
    <2>1. s.family = "reduce"
      BY <1>0, <1>2, SpecsOf, ReduceListed DEF ReduceForm
    <2>2. Accepts(Kernel(s), s, c) = ReduceAccepts(c)
      BY <2>1 DEF Accepts, GemmOps
    <2>3. c.args[1].shape = d.args[1].shape
      BY <1>b, <1>2 DEF Twin, TensorPlaces, ReduceOps, SdpaOps, GemmOps
    <2>4. ReduceAccepts(d)
      BY <1>0, <1>2, ReduceMeets
    <2>5. ReduceAccepts(c)
      <3> DEFINE accepts(shape) ==
                   LET rank == Len(shape)
                       rows == Product(SubSeq(shape, 1, rank - 1))
                       nth == IF shape[rank] < 1024 THEN shape[rank] ELSE 1024
                   IN
                   /\ rank \in 1..4 /\ \A i \in 1..rank : shape[i] > 0
                   /\ \A i \in 1..rank : Product(SubSeq(shape, i, rank)) < U32
                   /\ rows \in 1..MaxBlocks /\ nth \in 1..MaxThreads /\ shape[rank] + nth < U32
      <3>1. \A x : ReduceAccepts(x) <=> accepts(x.args[1].shape)
        BY Zenon DEF ReduceAccepts
      <3> HIDE DEF accepts
      <3> QED BY <2>3, <2>4, <3>1
    <2>6. c.op \notin GemmOps \cup MoveOps
      BY <1>0, <1>2 DEF GemmOps, MoveOps, ReduceOps
    <2> QED BY <1>a, <2>2, <2>5, <2>6
  <1>3. CASE d.op \in GemmOps
    <2>1. s.family = c.op
      BY <1>0, <1>3, GemmListed DEF SchemaCall
    <2>2. Accepts(Kernel(s), s, c) = GemmAccepts(s, c)
      BY <1>0, <1>3, <2>1 DEF Accepts, GemmOps
    <2>3. ~WrapperRefuses(s, c)
      BY <1>0, <1>3, <2>1 DEF LaunchFails
    <2>4. GemmAccepts(s, c) <=> GemmInRange(s, c)
      BY <1>3, <2>3, GemmMeets
    <2>5. InRange(s, c) <=> GemmInRange(s, c)
      BY <1>0, <1>3 DEF InRange, GemmOps, MoveOps
    <2> QED BY <2>2, <2>4, <2>5
  <1>4. CASE d.op = "softmax"
    <2>1. s.family = "softmax"
      BY <1>0, <1>4, SoftmaxListed
    <2>2. Accepts(Kernel(s), s, c) = SoftmaxAccepts(s)
      BY <2>1 DEF Accepts, GemmOps
    <2>3. SoftmaxAccepts(s)
      BY <1>0, <1>4, SoftmaxMeets
    <2>4. c.op \notin GemmOps \cup MoveOps
      BY <1>0, <1>4 DEF GemmOps, MoveOps
    <2> QED BY <1>a, <2>2, <2>3, <2>4
  <1>5. CASE d.op \in SdpaOps
    <2>1. s.family = "sdpa"
      BY <1>0, <1>5, SpecsOf, SdpaListed DEF SdpaForm
    <2>2. Accepts(Kernel(s), s, c) = SdpaAccepts(s, c)
      BY <2>1 DEF Accepts, GemmOps
    <2>3. c.args[1].shape = d.args[1].shape /\ c.args[2].shape = d.args[2].shape
      <3>1. 2 \in DOMAIN d.args /\ IsTensor(d.args[2])
        BY <1>0, <1>5 DEF SchemaCall, TensorPlaces, GemmOps, SdpaOps
      <3>2. d.op \notin GemmOps /\ 1 \in TensorPlaces(d.op)
        BY <1>5 DEF TensorPlaces, SdpaOps, GemmOps
      <3> QED BY <1>0, <1>b, <3>1, <3>2 DEF Twin
    <2>4. SdpaAccepts(s, d)
      BY <1>0, <1>5, SdpaMeets
    <2>5. SdpaAccepts(s, c)
      <3> DEFINE accepts(q, k) ==
                   LET b == q[1]  hq == q[2]  sq == q[3]  dim == q[4]  hkv == k[2]  sk == k[3]
                       tiles == ((hq \div hkv) * sq + 15) \div 16
                   IN
                   /\ \A n \in {b, hq, hkv, sq, sk, dim} : n > 0
                   /\ b * hkv * tiles <= MaxBlocks /\ s.nw * 32 <= MaxThreads
                   /\ hq = hkv * (hq \div hkv) /\ Divisible(dim, 16) /\ sq <= sk
                   /\ \A n \in ContractSizes(b, hq, hkv, sq, sk, dim, s.nw) : n < U32
                   /\ Shmem(s.nw, dim) <= SdpaShmem
      <3>1. \A x : SdpaAccepts(s, x) <=> accepts(x.args[1].shape, x.args[2].shape)
        BY Zenon DEF SdpaAccepts, ContractSizes
      <3> HIDE DEF accepts
      <3> QED BY <2>3, <2>4, <3>1
    <2>6. c.op \notin GemmOps \cup MoveOps
      BY <1>0, <1>5 DEF GemmOps, MoveOps, SdpaOps
    <2> QED BY <1>a, <2>2, <2>5, <2>6
  <1>6. CASE d.op \in MoveOps
    <2>1. s.family \in MoveOps
      BY <1>0, <1>6, MoveListed DEF MoveForm
    <2>2. Accepts(Kernel(s), s, c) = MoveAccepts(c)
      BY <2>1 DEF Accepts, GemmOps, MoveOps
    <2>3. MoveAccepts(c) <=> MoveInRange(c)
      BY <1>6, MoveMeets
    <2>4. InRange(s, c) <=> MoveInRange(c)
      BY <1>0, <1>6 DEF InRange, GemmOps, MoveOps
    <2> QED BY <2>2, <2>3, <2>4
  <1> QED BY <1>0, <1>1, <1>2, <1>3, <1>4, <1>5, <1>6 DEF AllOps

Rendered ==
  /\ last.outcome \in {"done", "refused"} => ~RenderFails(last.spec)
  /\ last.outcome = "done" => ~LaunchFails(last.spec, Calls[last.at])

LEMMA RenderedInvariant == Spec => []Rendered
  <1>1. Init => Rendered
    BY DEF Init, Rendered
  <1>2. Rendered /\ [Next]_vars => Rendered'
    <2> SUFFICES ASSUME Rendered, [Next]_vars PROVE Rendered'
      OBVIOUS
    <2>1. CASE UNCHANGED vars
      BY <2>1 DEF vars, Rendered
    <2>2. ASSUME NEW i \in DOMAIN Calls, NEW s, RunSpec(s, i) PROVE Rendered'
      <3>1. CASE RenderFails(s)
        <4>1. last' = [outcome |-> "ValueError", at |-> i]
          BY <2>2, <3>1 DEF RunSpec
        <4> QED BY <4>1 DEF Rendered
      <3>2. CASE ~RenderFails(s)
        <4>1. PICK ran : last' = [outcome |-> IF LaunchFails(s, Calls[i]) THEN "refused" ELSE "done",
                                  at |-> i, spec |-> s, kernel |-> ran]
          BY <2>2, <3>2, Zenon DEF RunSpec
        <4>2. /\ last'.outcome = IF LaunchFails(s, Calls[i]) THEN "refused" ELSE "done"
              /\ last'.at = i /\ last'.spec = s
          BY <4>1, Zenon
        <4> QED BY <3>2, <4>2 DEF Rendered
      <3> QED BY <3>1, <3>2
    <2>3. ASSUME NEW i \in DOMAIN Calls, Hit(i) PROVE Rendered'
      BY <2>2, <2>3 DEF Hit
    <2>4. ASSUME NEW i \in DOMAIN Calls, Miss(i) PROVE Rendered'
      BY <2>2, <2>4 DEF Miss
    <2>5. ASSUME NEW i \in DOMAIN Calls, Unsupported(i) PROVE Rendered'
      BY <2>5 DEF Unsupported, Rendered
    <2> QED BY <2>1, <2>3, <2>4, <2>5 DEF Next
  <1> QED BY <1>1, <1>2, PTL DEF Spec

\* The contract a kernel was verified under, which nothing checks once it is
\* extracted, holds of a launch exactly where InRange says: the predicates and the
\* wrappers establish all the rest, for every program, and for specs that the memo
\* keeps from an earlier call too.
THEOREM LaunchesMeetContracts == Spec => []KernelAccepts
  <1>1. NamesSuffice /\ MemoInv /\ CallMade /\ Rendered => KernelAccepts
    <2> SUFFICES ASSUME NamesSuffice /\ MemoInv /\ CallMade /\ Rendered, last.outcome = "done"
                 PROVE  Accepts(last.kernel, last.spec, Calls[last.at]) <=> InRange(last.spec, Calls[last.at])
      BY DEF KernelAccepts
    <2> DEFINE c == Calls[last.at]
    <2>1. /\ last.at \in DOMAIN Calls /\ last.kernel = Kernel(last.spec)
          /\ ~RenderFails(last.spec) /\ ~LaunchFails(last.spec, c)
      BY DEF CallMade, NamesSuffice, Rendered
    <2>2. PICK i \in DOMAIN Calls : SameKey(Calls[i], c) /\ last.spec \in Specs(Calls[i])
      BY DEF MemoInv, LastInv, Candidates, SameKey
    <2>3. Keyed(c, Calls[i])
      BY <2>1, <2>2, KuiopsAssumption DEF Keyed
    <2> HIDE DEF c
    <2> QED BY <2>1, <2>2, <2>3, ListedAccepted DEF c
  <1> QED BY <1>1, KernelsByName, MemoInvariant, CallMadeInvariant, RenderedInvariant, PTL

-----------------------------------------------------------------------------
(* What a kernel computes: elementwise and reductions *)

LEMMA SixDecimalsExact ==
  ASSUME NEW v \in Int
  PROVE  SixDecimals(v) = v <=> v % 10 = 0
  BY DEF SixDecimals

\* A constant that is rendered at all is rendered exactly if six decimals spell
\* it, or if its type is integral.
Exact(x, floating) == floating => x.val % 10 = 0

LEMMA LiteralExact ==
  ASSUME NEW x \in Numbers, NEW floating \in BOOLEAN, Literal(x, floating) # None
  PROVE  Literal(x, floating) = x.val <=> Exact(x, floating)
  <1>1. x.val \in Int
    BY DEF Numbers
  <1>2. CASE floating
    BY <1>1, <1>2, SixDecimalsExact DEF Literal, Exact
  <1>3. CASE ~floating
    BY <1>3 DEF Literal, Exact
  <1> QED BY <1>2, <1>3

LEMMA ConstantExact ==
  ASSUME NEW x \in Numbers, NEW dtype, CastConst(x, dtype) # None
  PROVE  CastConst(x, dtype) = x.val <=> Spelled(x, dtype)
  <1> DEFINE floating == dtype \in FloatDtypes
  <1>1. floating \in BOOLEAN /\ Literal(x, floating) = CastConst(x, dtype)
    BY DEF CastConst
  <1>2. Spelled(x, dtype) <=> Exact(x, floating)
    BY DEF Spelled, Exact
  <1> HIDE DEF floating
  <1> QED BY <1>1, <1>2, LiteralExact

\* A kernel computes its method on the elements, where it reads them in place.
LEMMA KernelTerm ==
  ASSUME NEW c, NEW s
  PROVE  LET operands == [i \in DOMAIN s.ins |-> IF s.kind = "map2" /\ i = 2 /\ ~IsContiguous(c.args[2])
                                                 THEN <<"storage", 2>> ELSE <<"elem", i>>]
         IN  ElementwiseTerm(ElementwiseKernel(s), c) =
               IF s.method = "square" THEN <<"pow", operands, <<2 * Unit>>>>
               ELSE <<s.method, operands, [i \in DOMAIN s.consts |-> CastConst(s.consts[i], s.ins[1])]>>
  <1> DEFINE k == ElementwiseKernel(s)
             operand(i) == IF s.kind = "map2" /\ i = 2 /\ ~IsContiguous(c.args[2]) THEN <<"storage", 2>> ELSE <<"elem", i>>
  <1>1. /\ k.method = s.method /\ k.kind = s.kind /\ DOMAIN k.types = DOMAIN s.ins
        /\ k.consts = [i \in DOMAIN s.consts |-> CastConst(s.consts[i], s.ins[1])]
    BY DEF ElementwiseKernel
  <1> HIDE DEF k
  <1>2. [i \in DOMAIN k.types |-> IF k.kind = "map2" /\ i = 2 /\ ~IsContiguous(c.args[2])
                                  THEN <<"storage", 2>> ELSE <<"elem", i>>] = [i \in DOMAIN s.ins |-> operand(i)]
    BY <1>1, Zenon
  <1>3. ElementwiseTerm(k, c) = IF k.method = "square" THEN <<"pow", [i \in DOMAIN s.ins |-> operand(i)], <<2 * Unit>>>>
                                ELSE <<k.method, [i \in DOMAIN s.ins |-> operand(i)], k.consts>>
    BY <1>2, Zenon DEF ElementwiseTerm
  <1> QED BY <1>1, <1>3, Zenon DEF k

\* An add has an alpha that counts; the second argument is a number.
HasAlpha(c) == c.op = "add" /\ Keyword(c, "alpha", Num("int", Unit)).val # Unit
ByNumber(c) == Len(c.args) = 2 /\ Scalar(c.args[2]) # None

\* What the spec of a call takes from it.
ElementwiseParts(s, c) ==
  /\ DOMAIN s.ins = 1..(IF ByNumber(c) THEN 1 ELSE Len(c.args)) /\ s.ins[1] = c.args[1].dtype
  /\ s.kind = "map2" <=> Len(c.args) = 2 /\ ~ByNumber(c)
  /\ \/ /\ s.method = "square" /\ s.consts = <<>>
        /\ c.op = "pow" /\ ByNumber(c) /\ Scalar(c.args[2]).val = 2 * Unit
     \/ /\ s.method = IF HasAlpha(c) THEN "add_alpha" ELSE c.op
        /\ s.consts = (IF HasAlpha(c) THEN <<Keyword(c, "alpha", Num("int", Unit))>> ELSE <<>>)
                      \o (IF ByNumber(c) THEN <<Scalar(c.args[2])>> ELSE <<>>)

LEMMA ListedParts ==
  ASSUME NEW c, IsCall(c), SchemaCall(c), c.op \in ElementwiseOps, NEW s \in Specs(c)
  PROVE  ElementwiseParts(s, c)
  <1> DEFINE A == c.args[1]
             B == c.args[2]
             alpha == Keyword(c, "alpha", Num("int", Unit))
  <1>1. s \in ElementwiseSpecs(c) /\ IsTensor(A) /\ Len(c.args) = Arity(c.op)
    BY SpecsOf DEF ElementwiseSpecs, SchemaCall
  <1>2. ASSUME NEW X, SameTensor(A, X), A.dtype # "f64" \/ A.shape # <<>>
        PROVE  Scalar(X) = None
    BY <1>2 DEF SameTensor, Scalar, IsTensor
  <1>3. CASE c.op \in Unary \cup {"bitwise_not"}
    <2>1. Len(c.args) = 1
      BY <1>1, <1>3 DEF Arity, Unary
    <2>2. s = ElementwiseSpec("map", c.op, s.ins, s.out, <<>>) /\ DOMAIN s.ins = 1..1 /\ s.ins[1] = A.dtype
      BY <1>1, <1>3, <2>1 DEF ElementwiseSpecs, ArithmeticSpecs, ElementwiseSpec, Compare, Unary
    <2>3. s.kind = "map" /\ s.method = c.op /\ s.consts = <<>>
      BY <2>2 DEF ElementwiseSpec
    <2>4. ~HasAlpha(c) /\ ~ByNumber(c)
      BY <1>3, <2>1 DEF Unary, HasAlpha, ByNumber
    <2>5. <<>> \o <<>> = <<>>
      OBVIOUS
    <2> QED BY <2>1, <2>2, <2>3, <2>4, <2>5 DEF ElementwiseParts
  <1>4. CASE c.op = "where"
    <2>1. Len(c.args) = 3
      BY <1>1, <1>4 DEF Arity, Unary
    <2>2. s = ElementwiseSpec("map3", c.op, s.ins, s.out, <<>>) /\ DOMAIN s.ins = 1..3 /\ s.ins[1] = A.dtype
      BY <1>1, <1>4, <2>1 DEF ElementwiseSpecs, ElementwiseSpec, Compare
    <2>3. s.kind = "map3" /\ s.method = c.op /\ s.consts = <<>>
      BY <2>2 DEF ElementwiseSpec
    <2>4. ~HasAlpha(c) /\ ~ByNumber(c)
      BY <1>4, <2>1 DEF HasAlpha, ByNumber
    <2>5. <<>> \o <<>> = <<>>
      OBVIOUS
    <2> QED BY <2>1, <2>2, <2>3, <2>4, <2>5 DEF ElementwiseParts
  <1>5. CASE c.op \in {"bitwise_and", "bitwise_or"}
    <2>1. Len(c.args) = 2
      BY <1>1, <1>5 DEF Arity, Unary
    <2>a. SameTensor(A, B) /\ A.dtype = "bool" /\ s = ElementwiseSpec("map2", c.op, <<"bool", "bool">>, "bool", <<>>)
      <3>1. CASE c.op = "bitwise_and"
        <4>1. s \in {t \in {ElementwiseSpec("map2", c.op, <<"bool", "bool">>, "bool", <<>>)} :
                      A.dtype = "bool" /\ SameTensor(A, B)}
          BY <1>1, <3>1 DEF ElementwiseSpecs, Compare
        <4> QED BY <4>1, Zenon
      <3>2. CASE c.op = "bitwise_or"
        <4>1. s \in {t \in {ElementwiseSpec("map2", c.op, <<"bool", "bool">>, "bool", <<>>)} :
                      A.dtype = "bool" /\ SameTensor(A, B)}
          BY <1>1, <3>2 DEF ElementwiseSpecs, Compare
        <4> QED BY <4>1, Zenon
      <3> QED BY <1>5, <3>1, <3>2
    <2>2. /\ s = ElementwiseSpec("map2", c.op, s.ins, s.out, <<>>) /\ DOMAIN s.ins = 1..2 /\ s.ins[1] = A.dtype
          /\ SameTensor(A, B) /\ A.dtype = "bool"
      BY <2>a DEF ElementwiseSpec
    <2>3. s.kind = "map2" /\ s.method = c.op /\ s.consts = <<>>
      BY <2>2 DEF ElementwiseSpec
    <2>4. ~HasAlpha(c) /\ ~ByNumber(c)
      BY <1>2, <1>5, <2>2 DEF HasAlpha, ByNumber
    <2>5. <<>> \o <<>> = <<>>
      OBVIOUS
    <2> QED BY <2>1, <2>2, <2>3, <2>4, <2>5 DEF ElementwiseParts
  <1>6. CASE c.op \in Compare
    <2>1. Len(c.args) = 2
      BY <1>1, <1>6 DEF Arity, Unary, Compare
    <2>2. /\ s = ElementwiseSpec("map_nip", c.op, s.ins, s.out, <<Scalar(B)>>) /\ DOMAIN s.ins = 1..1 /\ s.ins[1] = A.dtype
          /\ Scalar(B) # None
      BY <1>1, <1>6 DEF ElementwiseSpecs, ElementwiseSpec, Compare
    <2>3. s.kind = "map_nip" /\ s.method = c.op /\ s.consts = <<Scalar(B)>>
      BY <2>2 DEF ElementwiseSpec
    <2>4. ~HasAlpha(c) /\ ByNumber(c)
      BY <1>6, <2>1, <2>2 DEF Compare, HasAlpha, ByNumber
    <2>5. <<>> \o <<Scalar(B)>> = <<Scalar(B)>>
      OBVIOUS
    <2> QED BY <2>1, <2>2, <2>3, <2>4, <2>5 DEF ElementwiseParts
  <1>7. CASE c.op \in Binary \cup {"pow"}
    <2>1. Len(c.args) = 2
      BY <1>1, <1>7 DEF Arity, Unary, Binary
    <2>2. s \in ArithmeticSpecs(c)
      BY <1>1, <1>7 DEF ElementwiseSpecs, Compare, Binary
    <2>3. AddAlpha(c) = IF HasAlpha(c) THEN <<alpha>> ELSE <<>>
      BY DEF AddAlpha, HasAlpha
    <2>4. (AddAlpha(c) = <<>>) = ~HasAlpha(c)
      BY <2>3
    <2> DEFINE method == IF HasAlpha(c) THEN "add_alpha" ELSE c.op
    <2>5. \/ /\ c.op = "pow" /\ B = Num("int", 2 * Unit)
             /\ s = ElementwiseSpec("map", "square", <<A.dtype>>, A.dtype, <<>>)
          \/ Scalar(B) # None /\ s = ElementwiseSpec("map", method, <<A.dtype>>, A.dtype, AddAlpha(c) \o <<Scalar(B)>>)
          \/ /\ Scalar(B) = None /\ SameTensor(A, B)
             /\ s = ElementwiseSpec("map2", method, <<A.dtype, A.dtype>>, A.dtype, AddAlpha(c))
      <3>1. (IF AddAlpha(c) = <<>> THEN c.op ELSE "add_alpha") = method
        BY <2>4, Zenon
      <3> HIDE DEF method
      <3>2. CASE c.op = "pow" /\ B = Num("int", 2 * Unit)
        BY <2>1, <2>2, <3>2 DEF ArithmeticSpecs
      <3>3. CASE ~(c.op = "pow" /\ B = Num("int", 2 * Unit)) /\ Scalar(B) # None
        <4>1. s \in {ElementwiseSpec("map", method, <<A.dtype>>, A.dtype, AddAlpha(c) \o <<Scalar(B)>>)}
          BY <2>1, <2>2, <3>1, <3>3 DEF ArithmeticSpecs
        <4> QED BY <3>3, <4>1
      <3>4. CASE ~(c.op = "pow" /\ B = Num("int", 2 * Unit)) /\ Scalar(B) = None
        <4>1. /\ s \in {ElementwiseSpec("map2", method, <<A.dtype, A.dtype>>, A.dtype, AddAlpha(c))}
              /\ SameTensor(A, B)
          BY <2>1, <2>2, <3>1, <3>4 DEF ArithmeticSpecs
        <4> QED BY <3>4, <4>1
      <3> QED BY <3>2, <3>3, <3>4
    <2>6. CASE /\ c.op = "pow" /\ B = Num("int", 2 * Unit)
               /\ s = ElementwiseSpec("map", "square", <<A.dtype>>, A.dtype, <<>>)
      <3>1. Scalar(B) = B /\ B.val = 2 * Unit /\ B \in Numbers
        BY <2>6 DEF Scalar, Num, Numbers, Unit
      <3>2. ByNumber(c)
        BY <2>1, <3>1, NoneAssumption DEF ByNumber
      <3>3. s.kind = "map" /\ s.method = "square" /\ s.consts = <<>> /\ DOMAIN s.ins = 1..1 /\ s.ins[1] = A.dtype
        BY <2>6 DEF ElementwiseSpec
      <3> QED BY <2>6, <3>1, <3>2, <3>3 DEF ElementwiseParts
    <2>7. CASE Scalar(B) # None /\ s = ElementwiseSpec("map", method, <<A.dtype>>, A.dtype, AddAlpha(c) \o <<Scalar(B)>>)
      <3>1. s.kind = "map" /\ s.method = method /\ s.consts = AddAlpha(c) \o <<Scalar(B)>> /\ DOMAIN s.ins = 1..1 /\ s.ins[1] = A.dtype
        BY <2>7 DEF ElementwiseSpec
      <3>2. ByNumber(c) /\ s.kind # "map2"
        BY <2>1, <2>7, <3>1 DEF ByNumber
      <3>3. s.consts = (IF HasAlpha(c) THEN <<alpha>> ELSE <<>>) \o (IF ByNumber(c) THEN <<Scalar(B)>> ELSE <<>>)
        BY <2>3, <3>1, <3>2, Zenon
      <3> QED BY <3>1, <3>2, <3>3 DEF ElementwiseParts
    <2>8. CASE /\ Scalar(B) = None
               /\ s = ElementwiseSpec("map2", method, <<A.dtype, A.dtype>>, A.dtype, AddAlpha(c))
      <3>1. s.kind = "map2" /\ s.method = method /\ s.consts = AddAlpha(c) /\ DOMAIN s.ins = 1..2 /\ s.ins[1] = A.dtype
        BY <2>8 DEF ElementwiseSpec
      <3>2. ~ByNumber(c)
        BY <2>8 DEF ByNumber
      <3>3. \A x : <<x>> \o <<>> = <<x>>
        OBVIOUS
      <3>4. <<>> \o <<>> = <<>>
        OBVIOUS
      <3>5. s.consts = (IF HasAlpha(c) THEN <<alpha>> ELSE <<>>) \o <<>>
        BY <2>3, <3>1, <3>3, <3>4, Zenon
      <3>6. s.consts = (IF HasAlpha(c) THEN <<alpha>> ELSE <<>>) \o (IF ByNumber(c) THEN <<Scalar(B)>> ELSE <<>>)
        BY <3>2, <3>5, Zenon
      <3> QED BY <2>1, <3>1, <3>2, <3>6 DEF ElementwiseParts
    <2> QED BY <2>5, <2>6, <2>7, <2>8
  <1> QED BY <1>3, <1>4, <1>5, <1>6, <1>7 DEF ElementwiseOps, Arithmetic

LEMMA Joined ==
  ASSUME NEW x, NEW y
  PROVE  <<x>> \o <<y>> = <<x, y>>
  <1> DEFINE S == {x, y}
             t == <<x>> \o <<y>>
  <1>1. <<x>> \in Seq(S) /\ <<y>> \in Seq(S)
    OBVIOUS
  <1>2. t \in Seq(S) /\ Len(t) = 2 /\ t[1] = x /\ t[2] = y
    BY <1>1, ConcatProperties
  <1> HIDE DEF t
  <1>3. t = <<x, y>>
    BY <1>2
  <1> QED BY <1>3 DEF t

LEMMA Pair ==
  ASSUME NEW x, NEW y, NEW u, NEW v
  PROVE  <<x, y>> = <<u, v>> <=> x = u /\ y = v
  OBVIOUS

LEMMA ElementwiseDropIn ==
  ASSUME NEW c, IsCall(c), SchemaCall(c), c.op \in ElementwiseOps, NEW s \in Specs(c), ~RenderFails(s)
  PROVE  ElementwiseTerm(ElementwiseKernel(s), c) = ElementwiseMeaning(c) <=> ElementwiseConforms(c)
  <1> DEFINE B == c.args[2]
             dtype == c.args[1].dtype
             alpha == Keyword(c, "alpha", Num("int", Unit))
             tensors == IF ByNumber(c) THEN 1 ELSE Len(c.args)
             elements == [i \in 1..tensors |-> <<"elem", i>>]
             operands == [i \in 1..tensors |-> IF s.kind = "map2" /\ i = 2 /\ ~IsContiguous(B)
                                               THEN <<"storage", 2>> ELSE <<"elem", i>>]
             method == IF HasAlpha(c) THEN "add_alpha" ELSE c.op
             meant == IF c.op = "sub" /\ alpha.val # Unit THEN "sub_alpha" ELSE method
             subtracted == c.op = "sub" /\ alpha.val # Unit
             consts == (IF HasAlpha(c) THEN <<alpha>> ELSE <<>>) \o (IF ByNumber(c) THEN <<Scalar(B)>> ELSE <<>>)
             values == (IF HasAlpha(c) \/ subtracted THEN <<alpha.val>> ELSE <<>>)
                       \o (IF ByNumber(c) THEN <<Scalar(B).val>> ELSE <<>>)
             casts == [i \in DOMAIN consts |-> CastConst(consts[i], dtype)]
  <1>1. ElementwiseForm(s) /\ ElementwiseParts(s, c)
    BY SpecsOf, ElementwiseListed, ListedParts
  <1>2. alpha \in Numbers /\ alpha.val \in Int
    BY DEF SchemaCall, SchemaKeywords, Numbers
  <1>3. ByNumber(c) => Scalar(B) \in Numbers
    <2> SUFFICES ASSUME ByNumber(c) PROVE Scalar(B) \in Numbers
      OBVIOUS
    <2>1. Len(c.args) = 2 /\ Scalar(B) # None
      BY DEF ByNumber
    <2>2. B \in Arguments
      BY <2>1 DEF IsCall
    <2> QED BY <2>1, <2>2 DEF Scalar, Num, Numbers, Arguments, Simple, MapEntries, Absent, IsTensor
  <1>4. \A i \in DOMAIN s.consts : CastConst(s.consts[i], dtype) # None
    <2>1. s.family = "elementwise" /\ s.ins[1] = dtype
      BY <1>1 DEF ElementwiseForm, ElementwiseSpec, ElementwiseParts
    <2> QED BY <2>1 DEF RenderFails
  <1>5. ElementwiseMeaning(c) = <<meant, elements, values>>
    <2>1. (c.op \in {"add", "sub"} /\ alpha.val # Unit) = (HasAlpha(c) \/ subtracted)
      BY DEF HasAlpha
    <2>2. HasAlpha(c) => c.op = "add"
      BY DEF HasAlpha
    <2>3. meant = IF HasAlpha(c) \/ subtracted THEN IF c.op = "add" THEN "add_alpha" ELSE "sub_alpha" ELSE c.op
      BY <2>2
    <2> QED BY <2>1, <2>3, Zenon DEF ElementwiseMeaning, ByNumber
  <1>6. DOMAIN s.ins = 1..tensors /\ s.ins[1] = dtype /\ (s.kind = "map2" <=> Len(c.args) = 2 /\ ~ByNumber(c))
    BY <1>1 DEF ElementwiseParts
  <1>7. operands = elements <=> (Len(c.args) = 2 /\ ~ByNumber(c) => IsContiguous(B))
    <2>1. CASE s.kind = "map2" /\ ~IsContiguous(B)
      <3>1. tensors = 2 /\ Len(c.args) = 2 /\ ~ByNumber(c)
        BY <1>6, <2>1
      <3> HIDE DEF tensors
      <3>2. operands[2] = <<"storage", 2>> /\ elements[2] = <<"elem", 2>>
        BY <2>1, <3>1
      <3> HIDE DEF operands, elements
      <3> QED BY <2>1, <3>1, <3>2
    <2>2. CASE ~(s.kind = "map2" /\ ~IsContiguous(B))
      <3>1. operands = elements
        BY <2>2, Zenon
      <3> HIDE DEF operands, elements
      <3> QED BY <1>6, <2>2, <3>1
    <2> QED BY <2>1, <2>2
  <1>8. (\A i \in DOMAIN consts : CastConst(consts[i], dtype) # None) /\ ~subtracted =>
          (casts = values <=> (HasAlpha(c) => Spelled(alpha, dtype)) /\ (ByNumber(c) => Spelled(Scalar(B), dtype)))
    <2> SUFFICES ASSUME (\A i \in DOMAIN consts : CastConst(consts[i], dtype) # None), ~subtracted
                 PROVE  casts = values <=> /\ HasAlpha(c) => Spelled(alpha, dtype)
                                           /\ ByNumber(c) => Spelled(Scalar(B), dtype)
      BY Zenon
    <2>1. CASE HasAlpha(c) /\ ByNumber(c)
      <3>1. consts = <<alpha>> \o <<Scalar(B)>> /\ values = <<alpha.val>> \o <<Scalar(B).val>>
        BY <2>1, Zenon
      <3>2. consts = <<alpha, Scalar(B)>> /\ values = <<alpha.val, Scalar(B).val>>
        BY <3>1, Joined, Zenon
      <3> HIDE DEF consts, values, alpha, B, dtype
      <3>3. /\ casts = <<CastConst(alpha, dtype), CastConst(Scalar(B), dtype)>>
            /\ CastConst(alpha, dtype) # None /\ CastConst(Scalar(B), dtype) # None
        BY <3>2
      <3> HIDE DEF casts
      <3> QED BY <1>2, <1>3, <2>1, <3>2, <3>3, Pair, ConstantExact
    <2>2. CASE HasAlpha(c) /\ ~ByNumber(c)
      <3>1. consts = <<alpha>> /\ values = <<alpha.val>>
        BY <2>2
      <3> HIDE DEF consts, values, alpha, B, dtype
      <3>2. casts = <<CastConst(alpha, dtype)>> /\ CastConst(alpha, dtype) # None
        BY <3>1
      <3>3. casts = values <=> CastConst(alpha, dtype) = alpha.val
        <4> HIDE DEF casts
        <4> QED BY <3>1, <3>2
      <3> QED BY <1>2, <2>2, <3>2, <3>3, ConstantExact
    <2>3. CASE ~HasAlpha(c) /\ ByNumber(c)
      <3>1. consts = <<>> \o <<Scalar(B)>> /\ values = <<>> \o <<Scalar(B).val>>
        BY <2>3, Zenon
      <3>a. \A x : <<>> \o <<x>> = <<x>>
        OBVIOUS
      <3>b. consts = <<Scalar(B)>> /\ values = <<Scalar(B).val>>
        BY <3>1, <3>a, Zenon
      <3> HIDE DEF consts, values, alpha, B, dtype
      <3>2. casts = <<CastConst(Scalar(B), dtype)>> /\ CastConst(Scalar(B), dtype) # None
        BY <3>b
      <3>3. casts = values <=> CastConst(Scalar(B), dtype) = Scalar(B).val
        <4> HIDE DEF casts
        <4> QED BY <3>b, <3>2
      <3> QED BY <1>3, <2>3, <3>2, <3>3, ConstantExact
    <2>4. CASE ~HasAlpha(c) /\ ~ByNumber(c)
      <3>1. consts = <<>> /\ values = <<>>
        BY <2>4
      <3> HIDE DEF consts, values, alpha, B, dtype
      <3>2. casts = <<>>
        BY <3>1
      <3> QED BY <2>4, <3>1, <3>2
    <2> QED BY <2>1, <2>2, <2>3, <2>4
  <1>9. ElementwiseConforms(c) <=> /\ ~subtracted
                                   /\ c.op = "add" => Spelled(alpha, dtype)
                                   /\ ByNumber(c) => Spelled(Scalar(B), dtype)
                                   /\ Len(c.args) = 2 /\ ~ByNumber(c) => IsContiguous(B)
    BY Zenon DEF ElementwiseConforms, ByNumber
  <1>10. Unit % 10 = 0 /\ (2 * Unit) % 10 = 0
    BY DEF Unit
  <1>11. (c.op = "add" => Spelled(alpha, dtype)) <=> (HasAlpha(c) => Spelled(alpha, dtype))
    BY <1>10 DEF HasAlpha, Spelled
  <1>12. CASE /\ s.method = "square" /\ s.consts = <<>>
              /\ c.op = "pow" /\ ByNumber(c) /\ Scalar(B).val = 2 * Unit
    <2>1. ElementwiseTerm(ElementwiseKernel(s), c) = <<"pow", operands, <<2 * Unit>>>>
      BY <1>6, <1>12, KernelTerm, Zenon
    <2>2. ~HasAlpha(c) /\ ~subtracted
      BY <1>12 DEF HasAlpha
    <2>3. meant = "pow" /\ values = <<2 * Unit>>
      BY <1>12, <2>2
    <2>4. operands = elements /\ Spelled(Scalar(B), dtype)
      BY <1>7, <1>10, <1>12 DEF Spelled
    <2> HIDE DEF meant, values, operands, elements, subtracted
    <2>5. ElementwiseTerm(ElementwiseKernel(s), c) = ElementwiseMeaning(c)
      BY <1>5, <2>1, <2>3, <2>4, Zenon
    <2>6. ElementwiseConforms(c)
      BY <1>7, <1>9, <1>12, <2>2, <2>4
    <2> QED BY <2>5, <2>6
  <1>13. CASE s.method = method /\ s.consts = consts
    <2>1. method # "square" /\ (meant = method <=> ~subtracted)
      BY DEF ElementwiseOps, Arithmetic, Unary, Binary, Compare, HasAlpha
    <2>2. \A i \in DOMAIN consts : CastConst(consts[i], dtype) # None
      BY <1>4, <1>13
    <2> HIDE DEF method, meant, consts, values, tensors, operands, elements, subtracted
    <2>3. ElementwiseTerm(ElementwiseKernel(s), c) = <<method, operands, casts>>
      BY <1>6, <1>13, <2>1, KernelTerm, Zenon DEF operands
    <2> HIDE DEF casts
    <2>4. ElementwiseTerm(ElementwiseKernel(s), c) = ElementwiseMeaning(c) <=>
            method = meant /\ operands = elements /\ casts = values
      BY <1>5, <2>3
    <2> QED BY <1>7, <1>8, <1>9, <1>11, <2>1, <2>2, <2>4, Zenon
  <1> QED BY <1>1, <1>12, <1>13 DEF ElementwiseParts

LEMMA ReduceFields ==
  ASSUME NEW c, NEW s \in ReduceSpecs(c)
  PROVE  LET rank == Len(c.args[1].shape)
             typing == ReduceTyping(c)
             maps(name, dtype) == ResolveMaps(Keyword(c, name, List(<<>>)).items, dtype, s.approx)
         IN  /\ typing # None /\ ReducedDims(c, rank) = {rank}
             /\ s.family = "reduce" /\ s.op = typing.op /\ s.in = c.args[1].dtype /\ s.out = typing.out /\ s.rank = rank
             /\ s.keepdim = Argument(c, 3, "keepdim", Flag(FALSE)).val
             /\ s.pre = maps("pre_map", s.in) /\ s.pre # None
             /\ s.post = Scaled(c.op, maps("post_map", s.out)) /\ maps("post_map", s.out) # None
  <1> DEFINE typing == ReduceTyping(c)
             X == c.args[1]
             approx == X.dtype \in FloatDtypes
             rank == Len(X.shape)
             keepdim == Argument(c, 3, "keepdim", Flag(FALSE)).val
             pre == ResolveMaps(Keyword(c, "pre_map", List(<<>>)).items, X.dtype, approx)
             posts == ResolveMaps(Keyword(c, "post_map", List(<<>>)).items, typing.out, approx)
             post == Scaled(c.op, posts)
  <1>1. typing # None /\ ReducedDims(c, rank) = {rank}
    BY DEF ReduceSpecs
  <1>2. s = [family |-> "reduce", op |-> typing.op, in |-> X.dtype, out |-> typing.out, rank |-> rank,
                approx |-> approx, keepdim |-> keepdim, pre |-> pre, post |-> post]
    BY ZenonT(60) DEF ReduceSpecs
  <1>3. pre # None /\ posts # None
    BY ZenonT(60) DEF ReduceSpecs
  <1> HIDE DEF typing, X, approx, rank, keepdim, pre, posts, post
  <1>4. /\ s.family = "reduce"
        /\ s.op = typing.op /\ s.in = X.dtype /\ s.out = typing.out /\ s.rank = rank
        /\ s.approx = approx /\ s.keepdim = keepdim /\ s.pre = pre /\ s.post = post
    BY <1>2, Zenon
  <1>5. pre = ResolveMaps(Keyword(c, "pre_map", List(<<>>)).items, s.in, s.approx)
    BY <1>4, Zenon DEF pre
  <1>6. posts = ResolveMaps(Keyword(c, "post_map", List(<<>>)).items, s.out, s.approx) /\ post = Scaled(c.op, posts)
    BY <1>4, Zenon DEF posts, post
  <1> QED BY <1>1, <1>3, <1>4, <1>5, <1>6, Zenon DEF typing, X, rank, keepdim

\* A resolved map means what its entry means if its constant is rendered exactly.
EntryExact(e, floating) == e.c # Absent => Exact(e.c, floating)

LEMMA ResolvedStep ==
  ASSUME NEW e \in MapEntries, NEW dtype, NEW approx, NEW floating \in BOOLEAN,
         ResolveMap(e, dtype, approx) # None,
         LET m == ResolveMap(e, dtype, approx) IN ~(m.c # Absent /\ Literal(m.c, floating) = None)
  PROVE  RenderedStep(ResolveMap(e, dtype, approx), floating) = MeantStep(e) <=> EntryExact(e, floating)
  <1> DEFINE m == ResolveMap(e, dtype, approx)
             squares == e.op = "pow" /\ e.c # Absent /\ e.c.val = 2 * Unit
  <1>1. e.op \in Arithmetic /\ (e.op = "pow" => squares)
    BY DEF ResolveMap
  <1>2. m = [op |-> IF squares THEN "square" ELSE e.op, c |-> IF squares THEN Absent ELSE e.c]
    BY Zenon DEF ResolveMap
  <1>3. CASE squares
    <2>1. m.op = "square"
      BY <1>2, <1>3
    <2>2. RenderedStep(m, floating) = Step("pow", Num("int", 2 * Unit), 2 * Unit)
      BY <2>1, Zenon DEF RenderedStep
    <2>3. Num("int", 2 * Unit) # Absent
      BY DEF Num, Absent
    <2>4. MeantStep(e) = Step("pow", e.c, 2 * Unit)
      BY <1>3, Zenon DEF MeantStep
    <2>5. EntryExact(e, floating)
      BY <1>3 DEF EntryExact, Exact, Unit
    <2> HIDE DEF m
    <2>6. RenderedStep(m, floating) = MeantStep(e)
      BY <1>3, <2>2, <2>3, <2>4, Zenon DEF Step
    <2> QED BY <2>5, <2>6 DEF m
  <1>4. CASE ~squares
    <2>1. m.op = e.op /\ m.c = e.c /\ e.op # "square"
      BY <1>1, <1>2, <1>4 DEF Arithmetic, Unary, Binary
    <2>2. RenderedStep(m, floating) = Step(e.op, e.c, Literal(e.c, floating))
      BY <2>1, Zenon DEF RenderedStep
    <2>3. ASSUME e.c # Absent PROVE Literal(e.c, floating) = e.c.val <=> Exact(e.c, floating)
      <3>1. e.c \in Numbers
        BY <2>3 DEF MapEntries
      <3>2. Literal(e.c, floating) # None
        BY <2>1, <2>3
      <3> QED BY <3>1, <3>2, LiteralExact
    <2>4. Step(e.op, e.c, Literal(e.c, floating)) = MeantStep(e) <=> (e.c # Absent => Literal(e.c, floating) = e.c.val)
      <3> DEFINE x == Literal(e.c, floating)
                 y == e.c.val
      <3> HIDE DEF x, y
      <3>1. CASE e.c = Absent
        BY <3>1, Zenon DEF Step, MeantStep, x, y
      <3>2. CASE e.c # Absent
        <4>1. Step(e.op, e.c, x) = [op |-> e.op, consts |-> <<<<"c", x>>>>]
          BY <3>2, Zenon DEF Step
        <4>2. MeantStep(e) = [op |-> e.op, consts |-> <<<<"c", y>>>>]
          BY <3>2, Zenon DEF Step, MeantStep, y
        <4>3. Step(e.op, e.c, x) = MeantStep(e) <=> x = y
          BY <4>1, <4>2
        <4> QED BY <3>2, <4>3, Zenon DEF x, y
      <3> QED BY <3>1, <3>2
    <2> HIDE DEF m
    <2> QED BY <2>2, <2>3, <2>4, Zenon DEF m, EntryExact
  <1> QED BY <1>3, <1>4

\* A list of entries whose constants are rendered exactly.
EntriesExact(entries, floating) == \A i \in DOMAIN entries : EntryExact(entries[i], floating)

LEMMA ResolvedSteps ==
  ASSUME NEW entries \in Seq(MapEntries), NEW dtype, NEW approx, NEW floating \in BOOLEAN, NEW maps,
         maps = ResolveMaps(entries, dtype, approx), maps # None, ~MapsRaise(maps, floating)
  PROVE  /\ DOMAIN maps = DOMAIN entries
         /\ \A i \in DOMAIN entries : RenderedStep(maps[i], floating) = MeantStep(entries[i])
                                        <=> EntryExact(entries[i], floating)
  <1>1. /\ maps = [i \in DOMAIN entries |-> ResolveMap(entries[i], dtype, approx)]
        /\ \A i \in DOMAIN entries : ResolveMap(entries[i], dtype, approx) # None
    <2> DEFINE resolved == [i \in DOMAIN entries |-> ResolveMap(entries[i], dtype, approx)]
    <2>1. maps = resolved /\ ~\E i \in DOMAIN resolved : resolved[i] = None
      BY Zenon DEF ResolveMaps
    <2> QED BY <2>1
  <1>2. DOMAIN maps = DOMAIN entries /\ \A i \in DOMAIN entries : maps[i] = ResolveMap(entries[i], dtype, approx)
    BY <1>1
  <1>3. ASSUME NEW i \in DOMAIN entries
        PROVE  RenderedStep(maps[i], floating) = MeantStep(entries[i]) <=> EntryExact(entries[i], floating)
    <2>1. entries[i] \in MapEntries /\ maps[i] = ResolveMap(entries[i], dtype, approx) /\ maps[i] # None
      BY <1>1, <1>2
    <2>2. ~(maps[i].c # Absent /\ Literal(maps[i].c, floating) = None)
      BY <1>2 DEF MapsRaise
    <2> DEFINE e == entries[i]
    <2> HIDE DEF e
    <2>3. /\ e \in MapEntries /\ ResolveMap(e, dtype, approx) # None
          /\ ~(ResolveMap(e, dtype, approx).c # Absent /\ Literal(ResolveMap(e, dtype, approx).c, floating) = None)
      BY <2>1, <2>2, Zenon DEF e
    <2>4. RenderedStep(ResolveMap(e, dtype, approx), floating) = MeantStep(e) <=> EntryExact(e, floating)
      BY <2>3, ResolvedStep
    <2> QED BY <2>1, <2>4, Zenon DEF e
  <1> QED BY <1>2, <1>3, Zenon

LEMMA RenderedAsMeant ==
  ASSUME NEW entries \in Seq(MapEntries), NEW dtype, NEW approx, NEW floating \in BOOLEAN, NEW maps,
         maps = ResolveMaps(entries, dtype, approx), maps # None, ~MapsRaise(maps, floating)
  PROVE  RenderedSteps(maps, floating) = MeantSteps(entries) <=> EntriesExact(entries, floating)
  <1>1. /\ DOMAIN maps = DOMAIN entries
        /\ \A i \in DOMAIN entries : RenderedStep(maps[i], floating) = MeantStep(entries[i])
                                       <=> EntryExact(entries[i], floating)
    BY ResolvedSteps
  <1>2. RenderedSteps(maps, floating) = MeantSteps(entries) <=>
          \A i \in DOMAIN entries : RenderedStep(maps[i], floating) = MeantStep(entries[i])
    BY <1>1, Zenon DEF RenderedSteps, MeantSteps
  <1> QED BY <1>1, <1>2, Zenon DEF EntriesExact

\* A sequence of n elements.
Listing(t, n) == t = [i \in 1..n |-> t[i]]

\* It is u when x is put before it.
Prefix(x, t, n, u) ==
  /\ DOMAIN u = 1..(n + 1) /\ Listing(u, n + 1)
  /\ u[1] = x /\ \A i \in 1..n : u[i + 1] = t[i]

LEMMA Prefixed ==
  ASSUME NEW x, NEW n \in Nat, NEW t, Listing(t, n)
  PROVE  Prefix(x, t, n, <<x>> \o t)
  <1> DEFINE S == {t[i] : i \in 1..n} \cup {x}
             u == <<x>> \o t
  <1>1. t \in Seq(S) /\ Len(t) = n /\ <<x>> \in Seq(S) /\ Len(<<x>>) = 1 /\ <<x>>[1] = x
    <2>1. \A i \in 1..n : t[i] \in S
      OBVIOUS
    <2> HIDE DEF S
    <2>2. t \in [1..n -> S]
      BY <2>1, Zenon DEF Listing
    <2>3. x \in S
      BY DEF S
    <2> QED BY <2>2, <2>3
  <1> HIDE DEF S
  <1>2. u \in Seq(S) /\ Len(u) = n + 1 /\ u[1] = x /\ \A i \in 1..n : u[i + 1] = t[i]
    <2>1. /\ <<x>> \o t \in Seq(S) /\ Len(<<x>> \o t) = Len(<<x>>) + Len(t)
          /\ \A i \in 1..(Len(<<x>>) + Len(t)) : (<<x>> \o t)[i] = IF i <= Len(<<x>>) THEN <<x>>[i] ELSE t[i - Len(<<x>>)]
      BY <1>1, ConcatProperties
    <2> QED BY <1>1, <2>1
  <1> HIDE DEF u
  <1>3. DOMAIN u = 1..(n + 1) /\ Listing(u, n + 1)
    BY <1>2 DEF Listing
  <1>4. Prefix(x, t, n, u)
    BY <1>2, <1>3 DEF Prefix
  <1> QED BY <1>4 DEF u

\* The combiner and the result type decide one another.
LEMMA ReduceCombiner ==
  ASSUME NEW c, IsCall(c), SchemaKeywords(c), c.op \in ReduceOps, ReduceTyping(c) # None
  PROVE  LET toBool == Keyword(c, "dtype", Absent) = Word("bool")
         IN  ReduceTyping(c).op = CASE c.op \in {"sum", "mean"} -> IF toBool THEN "or" ELSE "add"
                                    [] c.op = "prod" -> IF toBool THEN "and" ELSE "mul"
                                    [] c.op = "all" -> "and"
                                    [] OTHER -> "or"
  <1> DEFINE asked == Keyword(c, "dtype", Absent)
             in == c.args[1].dtype
             combiner == CASE c.op \in {"sum", "mean"} -> "add" [] c.op = "prod" -> "mul"
                           [] c.op = "all" -> "and" [] OTHER -> "or"
             typed(result) == [op |-> IF result # "bool" THEN combiner
                                      ELSE CASE combiner = "add" -> "or" [] combiner = "mul" -> "and"
                                             [] OTHER -> combiner,
                               out |-> result]
  <1>1. asked = Absent \/ asked = Word(asked.val)
    <2>1. asked \in Arguments
      BY DEF IsCall, Keyword, Arguments, Simple
    <2>2. asked.kind \in {"none", "word"}
      BY DEF SchemaKeywords
    <2>3. asked \in Simple
      BY <2>1, <2>2 DEF Arguments
    <2> HIDE DEF asked
    <2> QED BY <2>2, <2>3, SimpleForms DEF Word
  <1>2. ReduceTyping(c) =
          IF in \in FloatDtypes
          THEN IF c.op \in {"sum", "mean", "prod"} /\ asked \in {Absent, Word(in)} THEN typed(in) ELSE None
          ELSE CASE c.op = "mean" -> None
                 [] c.op \in {"sum", "prod"} ->
                      LET result == IF asked = Absent THEN "i64" ELSE asked.val
                      IN  IF result \in FloatDtypes THEN None ELSE typed(result)
                 [] OTHER -> typed(IF in = "u8" THEN "u8" ELSE "bool")
    BY Zenon DEF ReduceTyping
  <1>3. \A a, b : Word(a) # Absent /\ (Word(a) = Word(b) => a = b)
    BY DEF Word, Absent
  <1> HIDE DEF asked, in
  <1>4. CASE in \in FloatDtypes
    <2>1. c.op \in {"sum", "mean", "prod"} /\ asked \in {Absent, Word(in)} /\ ReduceTyping(c) = typed(in)
      BY <1>2, <1>4, Zenon
    <2>2. in # "bool" /\ asked # Word("bool")
      BY <1>3, <1>4, <2>1 DEF FloatDtypes
    <2>3. ReduceTyping(c).op = combiner
      BY <2>1, <2>2
    <2> QED BY <2>1, <2>2, <2>3 DEF asked
  <1>5. CASE in \notin FloatDtypes /\ c.op \in {"sum", "prod"}
    <2> DEFINE result == IF asked = Absent THEN "i64" ELSE asked.val
    <2>1. ReduceTyping(c) = typed(result)
      BY <1>2, <1>5
    <2>2. (result = "bool") = (asked = Word("bool"))
      BY <1>1, <1>3
    <2> HIDE DEF result
    <2>3. ReduceTyping(c).op = IF result # "bool" THEN combiner ELSE IF c.op = "sum" THEN "or" ELSE "and"
      BY <1>5, <2>1
    <2> QED BY <1>5, <2>2, <2>3 DEF asked
  <1>6. CASE in \notin FloatDtypes /\ c.op \in {"all", "any"}
    <2>1. ReduceTyping(c) = typed(IF in = "u8" THEN "u8" ELSE "bool")
      BY <1>2, <1>6
    <2> QED BY <1>6, <2>1
  <1>7. c.op = "mean" => in \in FloatDtypes
    BY <1>2
  <1> QED BY <1>4, <1>5, <1>6, <1>7 DEF ReduceOps

\* Scaled maps that resolve and print.
ScaledMaps(op, entries, dtype, approx, floating, maps) ==
  /\ ResolveMaps(entries, dtype, approx) # None
  /\ maps = Scaled(op, ResolveMaps(entries, dtype, approx)) /\ ~MapsRaise(maps, floating)
  /\ entries \in Seq(MapEntries) /\ floating \in BOOLEAN

\* A mean's division comes before the maps behind it.
LEMMA ScaledSteps ==
  ASSUME NEW op, NEW entries, NEW dtype, NEW approx, NEW floating, NEW maps,
         ScaledMaps(op, entries, dtype, approx, floating, maps)
  PROVE  RenderedSteps(maps, floating) = MeanSteps(op) \o MeantSteps(entries) <=> EntriesExact(entries, floating)
  <1>a. /\ ResolveMaps(entries, dtype, approx) # None
        /\ maps = Scaled(op, ResolveMaps(entries, dtype, approx)) /\ ~MapsRaise(maps, floating)
        /\ entries \in Seq(MapEntries) /\ floating \in BOOLEAN
    BY DEF ScaledMaps
  <1> DEFINE posts == ResolveMaps(entries, dtype, approx)
             meant == MeantSteps(entries)
             n == Len(entries)
             division == [op |-> "div_cols", consts |-> <<>>]
  <1>1. n \in Nat /\ DOMAIN entries = 1..n /\ DOMAIN meant = 1..n /\ Listing(meant, n)
    BY <1>a DEF Listing, MeantSteps
  <1>2. posts # None
    BY <1>a
  <1>3. DOMAIN posts = 1..n /\ Listing(posts, n)
    <2>1. posts = [i \in DOMAIN entries |-> ResolveMap(entries[i], dtype, approx)]
      BY <1>2, Zenon DEF ResolveMaps
    <2> HIDE DEF n, posts
    <2> QED BY <1>1, <2>1 DEF Listing
  <1>4. ASSUME ~MapsRaise(posts, floating)
        PROVE  RenderedSteps(posts, floating) = meant <=> EntriesExact(entries, floating)
    BY <1>2, <1>4, <1>a, RenderedAsMeant
  <1>5. CASE op # "mean"
    <2>1. maps = posts
      BY <1>5, <1>a DEF Scaled
    <2>2. <<>> \o meant = meant
      <3> HIDE DEF n
      <3> DEFINE S == {meant[i] : i \in 1..n}
      <3>1. meant \in Seq(S)
        <4> HIDE DEF meant
        <4>1. \A i \in 1..n : meant[i] \in S
          OBVIOUS
        <4> HIDE DEF S
        <4>2. meant \in [1..n -> S]
          BY <1>1, <4>1, Zenon DEF Listing
        <4> QED BY <1>1, <4>2
      <3> HIDE DEF meant, S
      <3> QED BY <3>1, ConcatEmptySeq
    <2>3. MeanSteps(op) = <<>>
      BY <1>5 DEF MeanSteps
    <2> HIDE DEF meant
    <2> QED BY <1>4, <1>a, <2>1, <2>2, <2>3, Zenon DEF meant
  <1>6. CASE op = "mean"
    <2> HIDE DEF posts, n
    <2>1. maps = <<Division>> \o posts
      BY <1>2, <1>6, <1>a DEF Scaled, posts
    <2>2. /\ DOMAIN maps = 1..(n + 1) /\ maps[1] = Division
          /\ \A i \in 1..n : maps[i + 1] = posts[i]
      <3>1. n \in Nat /\ Listing(posts, n)
        BY <1>1, <1>3
      <3>2. Prefix(Division, posts, n, maps)
        BY <2>1, <3>1, Prefixed, Zenon
      <3> QED BY <3>2 DEF Prefix
    <2>3. DOMAIN posts = 1..n
      BY <1>3
    <2>4. ~MapsRaise(posts, floating)
      BY <1>1, <1>a, <2>2, <2>3 DEF MapsRaise
    <2>5. RenderedSteps(posts, floating) = meant <=> EntriesExact(entries, floating)
      BY <1>4, <2>4
    <2>6. RenderedStep(Division, floating) = division
      BY DEF Division, RenderedStep, Step, Absent
    <2> DEFINE u == <<division>> \o meant
               v == RenderedSteps(posts, floating)
               w == RenderedSteps(maps, floating)
    <2>7. DOMAIN v = 1..n /\ \A i \in 1..n : v[i] = RenderedStep(posts[i], floating)
      BY <2>3, Zenon DEF RenderedSteps
    <2>8. DOMAIN w = 1..(n + 1) /\ Listing(w, n + 1) /\ \A i \in 1..(n + 1) : w[i] = RenderedStep(maps[i], floating)
      BY <2>2, Zenon DEF RenderedSteps, Listing
    <2>9. MeanSteps(op) = <<division>>
      BY <1>6 DEF MeanSteps
    <2> HIDE DEF meant, division, v, w
    <2>10. Prefix(division, meant, n, u)
      <3>1. n \in Nat /\ Listing(meant, n)
        BY <1>1
      <3> QED BY <3>1, Prefixed, Zenon
    <2> HIDE DEF u
    <2>11. w[1] = u[1] /\ \A i \in 1..n : w[i + 1] = v[i] /\ u[i + 1] = meant[i]
      <3>1. 1 \in 1..(n + 1) /\ \A i \in 1..n : i + 1 \in 1..(n + 1)
        BY <1>1
      <3>2. u[1] = division /\ \A i \in 1..n : u[i + 1] = meant[i]
        BY <2>10, Zenon DEF Prefix
      <3>3. w[1] = division
        BY <2>2, <2>6, <2>8, <3>1, Zenon
      <3>4. \A i \in 1..n : w[i + 1] = v[i]
        BY <2>2, <2>7, <2>8, <3>1, Zenon
      <3> QED BY <3>2, <3>3, <3>4, Zenon
    <2>12. v = [i \in 1..n |-> v[i]] /\ meant = [i \in 1..n |-> meant[i]]
      <3>1. v = [i \in DOMAIN posts |-> RenderedStep(posts[i], floating)]
        BY Zenon DEF v, RenderedSteps
      <3> QED BY <1>1, <2>3, <3>1 DEF Listing
    <2>13. (\A i \in 1..n : v[i] = meant[i]) <=> (\A i \in 1..(n + 1) : w[i] = u[i])
      <3>1. ASSUME \A i \in 1..n : v[i] = meant[i], NEW i \in 1..(n + 1) PROVE w[i] = u[i]
        <4>1. CASE i = 1
          BY <2>11, <4>1
        <4>2. CASE i # 1
          <5>1. i - 1 \in 1..n /\ (i - 1) + 1 = i
            BY <1>1, <4>2
          <5>2. w[(i - 1) + 1] = v[i - 1] /\ u[(i - 1) + 1] = meant[i - 1]
            BY <2>11, <5>1, Zenon
          <5> QED BY <3>1, <5>1, <5>2
        <4> QED BY <4>1, <4>2
      <3>2. ASSUME \A i \in 1..(n + 1) : w[i] = u[i], NEW i \in 1..n PROVE v[i] = meant[i]
        <4>1. i + 1 \in 1..(n + 1)
          BY <1>1
        <4> QED BY <2>11, <3>2, <4>1, Zenon
      <3> QED BY <3>1, <3>2, Zenon
    <2>14. v = meant <=> w = u
      <3>1. v = meant <=> \A i \in 1..n : v[i] = meant[i]
        BY <2>12, Zenon
      <3>2. w = u <=> \A i \in 1..(n + 1) : w[i] = u[i]
        BY <2>8, <2>10, Zenon DEF Listing, Prefix
      <3> QED BY <2>13, <3>1, <3>2, Zenon
    <2> QED BY <2>5, <2>9, <2>14, Zenon DEF u, v, w, meant
  <1> QED BY <1>5, <1>6

\* The maps after a reduction are floating where those before it are.
LEMMA ReducedFloating ==
  ASSUME NEW c, c.op \in ReduceOps, ReduceTyping(c) # None
  PROVE  ReduceTyping(c).out \in FloatDtypes <=> c.args[1].dtype \in FloatDtypes
  <1> DEFINE in == c.args[1].dtype
             asked == Keyword(c, "dtype", Absent)
             result == IF asked = Absent THEN "i64" ELSE asked.val
             combiner == CASE c.op \in {"sum", "mean"} -> "add" [] c.op = "prod" -> "mul"
                           [] c.op = "all" -> "and" [] OTHER -> "or"
             typed(out) == [op |-> IF out # "bool" THEN combiner
                                   ELSE CASE combiner = "add" -> "or" [] combiner = "mul" -> "and"
                                          [] OTHER -> combiner,
                            out |-> out]
  <1>1. ReduceTyping(c) =
          IF in \in FloatDtypes
          THEN IF c.op \in {"sum", "mean", "prod"} /\ asked \in {Absent, Word(in)} THEN typed(in) ELSE None
          ELSE CASE c.op = "mean" -> None
                 [] c.op \in {"sum", "prod"} -> IF result \in FloatDtypes THEN None ELSE typed(result)
                 [] OTHER -> typed(IF in = "u8" THEN "u8" ELSE "bool")
    BY Zenon DEF ReduceTyping
  <1>2. \A out : typed(out).out = out
    OBVIOUS
  <1> HIDE DEF in, asked, result, typed
  <1>3. CASE in \in FloatDtypes
    <2>1. ReduceTyping(c) = typed(in)
      BY <1>1, <1>3, Zenon
    <2> QED BY <1>2, <1>3, <2>1 DEF in
  <1>4. CASE in \notin FloatDtypes
    <2>1. \/ ReduceTyping(c) = typed(result) /\ result \notin FloatDtypes
          \/ ReduceTyping(c) = typed("u8") \/ ReduceTyping(c) = typed("bool")
      BY <1>1, <1>4 DEF ReduceOps
    <2>2. "u8" \notin FloatDtypes /\ "bool" \notin FloatDtypes
      BY DEF FloatDtypes
    <2> QED BY <1>2, <1>4, <2>1, <2>2 DEF in
  <1> QED BY <1>3, <1>4

LEMMA ReduceDropIn ==
  ASSUME NEW c, IsCall(c), SchemaCall(c), c.op \in ReduceOps, NEW s \in Specs(c), ~RenderFails(s)
  PROVE  ReduceBody(s) = Reduction(c) <=> ReduceConforms(c)
  <1> DEFINE typing == ReduceTyping(c)
             rank == Len(c.args[1].shape)
             in == s.in \in FloatDtypes
             out == s.out \in FloatDtypes
             pre == Keyword(c, "pre_map", List(<<>>)).items
             post == Keyword(c, "post_map", List(<<>>)).items
             posts == ResolveMaps(post, s.out, s.approx)
             toBool == Keyword(c, "dtype", Absent) = Word("bool")
             combiner == CASE c.op \in {"sum", "mean"} -> IF toBool THEN "or" ELSE "add"
                           [] c.op = "prod" -> IF toBool THEN "and" ELSE "mul"
                           [] c.op = "all" -> "and"
                           [] OTHER -> "or"
  <1>1. /\ typing # None /\ ReducedDims(c, rank) = {rank}
        /\ s.family = "reduce" /\ s.op = typing.op /\ s.in = c.args[1].dtype /\ s.out = typing.out /\ s.rank = rank
        /\ s.keepdim = Argument(c, 3, "keepdim", Flag(FALSE)).val
        /\ s.pre = ResolveMaps(pre, s.in, s.approx) /\ s.pre # None
        /\ s.post = Scaled(c.op, posts) /\ posts # None
    <2>1. s \in ReduceSpecs(c)
      BY SpecsOf
    <2> QED BY <2>1, ReduceFields, Zenon
  <1>2. ~MapsRaise(s.pre, in) /\ ~MapsRaise(s.post, out)
    BY <1>1, Zenon DEF RenderFails
  <1>3. pre \in Seq(MapEntries) /\ post \in Seq(MapEntries)
    BY Zenon DEF SchemaCall, SchemaKeywords
  <1>4. combiner = s.op
    <2>1. SchemaKeywords(c)
      BY DEF SchemaCall
    <2> QED BY <1>1, <2>1, ReduceCombiner, Zenon
  <1>5. RenderedSteps(s.pre, in) = MeantSteps(pre) <=> EntriesExact(pre, in)
    <2>1. in \in BOOLEAN
      OBVIOUS
    <2> HIDE DEF pre, in
    <2> QED BY <1>1, <1>2, <1>3, <2>1, RenderedAsMeant
  <1>6. RenderedSteps(s.post, out) = MeanSteps(c.op) \o MeantSteps(post) <=> EntriesExact(post, out)
    <2>1. ScaledMaps(c.op, post, s.out, s.approx, out, s.post)
      BY <1>1, <1>2, <1>3 DEF ScaledMaps
    <2> HIDE DEF post, out
    <2> QED BY <2>1, ScaledSteps, Zenon
  <1>7. ReduceConforms(c) <=> EntriesExact(pre, in) /\ EntriesExact(post, out)
    <2>1. in = out
      BY <1>1, ReducedFloating
    <2>2. \A entries : EntriesSpelled(entries, c.args[1].dtype) <=> EntriesExact(entries, in)
      BY <1>1 DEF EntriesSpelled, EntriesExact, EntryExact, Spelled, Exact
    <2>3. ReduceConforms(c) <=> EntriesSpelled(pre, c.args[1].dtype) /\ EntriesSpelled(post, c.args[1].dtype)
      BY Zenon DEF ReduceConforms
    <2> HIDE DEF pre, post, in, out
    <2> QED BY <2>1, <2>2, <2>3, Zenon
  <1> HIDE DEF combiner, pre, post, typing, in, out, rank
  <1>8. Reduction(c) = [pre |-> MeantSteps(pre), op |-> combiner, axes |-> {rank}, keepdim |-> s.keepdim,
                        post |-> MeanSteps(c.op) \o MeantSteps(post)]
    BY <1>1, Zenon DEF Reduction, combiner, pre, post, rank
  <1>9. ReduceBody(s) = [pre |-> RenderedSteps(s.pre, in), op |-> s.op, axes |-> {s.rank}, keepdim |-> s.keepdim,
                         post |-> RenderedSteps(s.post, out)]
    BY Zenon DEF ReduceBody, in, out
  <1>10. ReduceBody(s) = Reduction(c) <=> /\ RenderedSteps(s.pre, in) = MeantSteps(pre)
                                          /\ RenderedSteps(s.post, out) = MeanSteps(c.op) \o MeantSteps(post)
    <2> DEFINE p == RenderedSteps(s.pre, in)  q == MeantSteps(pre)
               u == RenderedSteps(s.post, out)  v == MeanSteps(c.op) \o MeantSteps(post)
    <2>1. /\ ReduceBody(s) = [pre |-> p, op |-> s.op, axes |-> {s.rank}, keepdim |-> s.keepdim, post |-> u]
          /\ Reduction(c) = [pre |-> q, op |-> s.op, axes |-> {s.rank}, keepdim |-> s.keepdim, post |-> v]
      BY <1>1, <1>4, <1>8, <1>9, Zenon
    <2> HIDE DEF p, q, u, v
    <2>2. ReduceBody(s) = Reduction(c) <=> p = q /\ u = v
      BY <2>1
    <2> QED BY <2>2 DEF p, q, u, v
  <1> QED BY <1>5, <1>6, <1>7, <1>10, Zenon

-----------------------------------------------------------------------------
(* Products, attention, moves *)

\* How addmm reads C follows from the shape of C.
LEMMA AddmmListed ==
  ASSUME NEW c, NEW s \in AddmmSpecs(c)
  PROVE  LET C == c.args[1]  M == c.args[2].shape[1]  N == c.args[3].shape[2]
         IN  \/ C.shape = <<M, N>> /\ s.cbcast = FALSE
             \/ C.shape \in {<<N>>, <<1, N>>} /\ s.cbcast = TRUE
  <1> DEFINE C == c.args[1]
             A == c.args[2]
             B == c.args[3]
             M == A.shape[1]
             K == A.shape[2]
             N == B.shape[2]
             listed(backends, cbcast) ==
               {t \in GemmSpecs("addmm", c, OperandBackends(backends, A, B, K), 1, M, N, K, cbcast) : C.dtype = t.ty.out}
  <1>1. s \in CASE C.shape = <<M, N>> -> listed(AddmmBackends, FALSE)
                [] C.shape # <<M, N>> /\ C.shape \in {<<N>>, <<1, N>>} -> listed(AddmmBackends \ {"bt2d"}, TRUE)
                [] OTHER -> {}
    BY Zenon DEF AddmmSpecs
  <1>2. \A backends : \A cbcast \in BOOLEAN : \A t \in listed(backends, cbcast) : t.cbcast = cbcast
    BY GemmSpecsListed
  <1> HIDE DEF listed, C, M, N
  <1>3. CASE C.shape = <<M, N>>
    <2>1. s \in listed(AddmmBackends, FALSE)
      BY <1>1, <1>3, Zenon
    <2> QED BY <1>2, <1>3, <2>1, Zenon DEF C, M, N, A, B
  <1>4. CASE C.shape # <<M, N>> /\ C.shape \in {<<N>>, <<1, N>>}
    <2>1. s \in listed(AddmmBackends \ {"bt2d"}, TRUE)
      BY <1>1, <1>4, Zenon
    <2> QED BY <1>2, <1>4, <2>1, Zenon DEF C, M, N, A, B
  <1>5. CASE C.shape # <<M, N>> /\ ~(C.shape \in {<<N>>, <<1, N>>})
    <2>1. s \in {}
      BY <1>1, <1>5, Zenon
    <2> QED BY <2>1
  <1> QED BY <1>3, <1>4, <1>5

LEMMA GemmDropIn ==
  ASSUME NEW c, c.op \in GemmOps, MatrixCall(c), NEW s \in Specs(c)
  PROVE  GemmTerm(s, c) = GemmMeaning(c)
  <1>1. s.family = c.op
    BY GemmListed
  <1>2. CASE c.op # "addmm"
    BY <1>1, <1>2 DEF GemmTerm, GemmMeaning
  <1>3. CASE c.op = "addmm"
    <2> DEFINE shape == c.args[1].shape
               M == c.args[2].shape[1]
               N == c.args[3].shape[2]
               full == IF Len(shape) = 1 THEN <<1>> \o shape ELSE shape
               read == {i \in IF s.cbcast THEN {2} ELSE {1, 2} : <<M, N>>[i] # 1}
               alpha == Scalar(Keyword(c, "alpha", Num("int", Unit))).val
               beta == Scalar(Keyword(c, "beta", Num("int", Unit))).val
    <2>1. \/ shape = <<M, N>> /\ s.cbcast = FALSE
          \/ shape \in {<<N>>, <<1, N>>} /\ s.cbcast = TRUE
      BY <1>3, SpecsOf, AddmmListed
    <2>2. GemmTerm(s, c) = <<"addmm", read, alpha, beta>>
      BY <1>1, <1>3, Zenon DEF GemmTerm
    <2>3. GemmMeaning(c) = <<"addmm", {i \in 1..2 : full[i] # 1}, alpha, beta>>
      BY <1>3, Zenon DEF GemmMeaning
    <2> HIDE DEF M, N, shape
    <2>4. CASE shape = <<M, N>> /\ s.cbcast = FALSE
      <3>1. full = <<M, N>> /\ read = {i \in {1, 2} : <<M, N>>[i] # 1}
        BY <2>4
      <3>2. 1..2 = {1, 2}
        OBVIOUS
      <3> HIDE DEF full, read, alpha, beta
      <3> QED BY <2>2, <2>3, <3>1, <3>2, Zenon
    <2>5. CASE shape \in {<<N>>, <<1, N>>} /\ s.cbcast = TRUE
      <3>1. full = <<1, N>>
        <4>1. CASE shape = <<N>>
          <5>1. Len(shape) = 1
            BY <4>1
          <5>2. full = <<1>> \o <<N>>
            BY <4>1, <5>1, Zenon
          <5> QED BY <5>2, Joined, Zenon
        <4>2. CASE shape = <<1, N>>
          <5>1. Len(shape) # 1
            BY <4>2
          <5> QED BY <4>2, <5>1, Zenon
        <4> QED BY <2>5, <4>1, <4>2
      <3>2. {i \in 1..2 : <<1, N>>[i] # 1} = read
        BY <2>5
      <3> HIDE DEF full, read, alpha, beta
      <3> QED BY <2>2, <2>3, <3>1, <3>2, Zenon
    <2> QED BY <2>1, <2>4, <2>5
  <1> QED BY <1>2, <1>3

LEMMA MoveDropIn ==
  ASSUME NEW c, c.op \in MoveOps, NEW s \in Specs(c)
  PROVE  MoveTerm(MoveKernel(s)) = MoveMeaning(c)
  <1>1. MoveTerm(MoveKernel(s)) = <<s.family, s.dim>>
    BY DEF MoveTerm, MoveKernel
  <1>2. CASE c.op = "cat"
    <2> DEFINE A == c.args[1].items[1]
               d == Argument(c, 2, "dim", Index(0)).val
               rank == Len(A.shape)
               dim == NormDim(d, rank)
    <2>1. s = MoveSpec("cat", A, dim) /\ dim \in 0..(rank - 1)
      <3>1. s \in CatSpecs(c)
        BY <1>2, SpecsOf
      <3> QED BY <3>1, Zenon DEF CatSpecs
    <2>2. s.family = "cat" /\ s.dim = NormDim(dim, rank)
      <3> HIDE DEF A, dim
      <3> QED BY <2>1 DEF MoveSpec, rank
    <2>3. NormDim(dim, rank) = dim
      <3> HIDE DEF dim, rank
      <3> QED BY <2>1 DEF NormDim
    <2>4. MoveMeaning(c) = <<"cat", dim>>
      BY <1>2, Zenon DEF MoveMeaning
    <2> HIDE DEF dim
    <2> QED BY <1>1, <2>2, <2>3, <2>4, Zenon
  <1>3. CASE c.op # "cat"
    <2>1. s = MoveSpec(c.op, c.args[1], c.args[2].val)
      <3>1. s \in IndexedSpecs(c)
        BY <1>3, SpecsOf DEF MoveOps
      <3> QED BY <3>1, Zenon DEF IndexedSpecs
    <2>2. s.family = c.op /\ s.dim = NormDim(c.args[2].val, Len(c.args[1].shape))
      BY <2>1 DEF MoveSpec
    <2>3. MoveMeaning(c) = <<c.op, NormDim(c.args[2].val, Len(c.args[1].shape))>>
      BY <1>3, Zenon DEF MoveMeaning
    <2> QED BY <1>1, <2>2, <2>3, Zenon
  <1> QED BY <1>2, <1>3

LEMMA SdpaDropIn ==
  ASSUME NEW c, IsCall(c), SchemaCall(c), c.op \in SdpaOps, NEW s \in Specs(c)
  PROVE  SdpaTerm(SdpaKernel(s), s, c) = SdpaMeaning(c) <=> SdpaConforms(c)
  <1> DEFINE Q == c.args[1]
             K == c.args[2]
             bias == c.args[4]
             b == Q.shape[1]
             hq == Q.shape[2]
             sq == Q.shape[3]
             d == Q.shape[4]
             sk == K.shape[3]
             full == <<b, hq, sq, sk>>
             mask == MaskLayout(bias, b, hq, sq, sk)
             causal == Argument(c, 7, "is_causal", Flag(FALSE)).val
             scale == LET given == Keyword(c, "scale", Absent)
                      IN  IF given = Absent THEN <<"1/sqrt", d>> ELSE <<"c", given.val>>
             seen == IF bias = Absent THEN <<"unmasked">> ELSE <<"masked", LiveAxes(bias.shape, 1..4)>>
             keys == IF causal THEN <<"last key", 0>> ELSE <<"every key">>
  <1>1. s \in SdpaSpecs(c)
    BY SpecsOf
  <1>2. /\ mask # None /\ ~\E n \in {b, hq, K.shape[2], sq, sk, d} : n <= 0
        /\ ~\E t \in {c.args[i] : i \in {i \in 1..4 : c.args[i] # Absent}} :
              ~IsTensor(t) \/ Len(t.shape) # 4 \/ ~IsContiguous(t) \/ t.dtype # Q.dtype
    BY <1>1, Zenon DEF SdpaSpecs
  <1>3. \E nw : s = [family |-> "sdpa", dtype |-> Q.dtype, nw |-> nw, variant |-> c.op, mask |-> mask,
                     causal |-> causal, scale |-> scale]
    BY <1>1, ZenonT(60) DEF SdpaSpecs
  <1>4. s.mask = mask /\ s.causal = causal /\ s.scale = scale
    <2> HIDE DEF mask, causal, scale, Q
    <2>1. PICK nw : s = [family |-> "sdpa", dtype |-> Q.dtype, nw |-> nw, variant |-> c.op, mask |-> mask,
                         causal |-> causal, scale |-> scale]
      BY <1>3, Zenon
    <2> QED BY <2>1, Zenon
  <1>5. sq \in Nat /\ sk \in Nat
    <2>1. /\ Q.shape \in Seq(Nat) /\ Len(Q.shape) = 4
          /\ K.shape \in Seq(Nat) /\ Len(K.shape) = 4
      <3>1. /\ 1 \in DOMAIN c.args /\ IsTensor(Q)
            /\ 2 \in DOMAIN c.args /\ IsTensor(K)
        BY DEF SchemaCall, TensorPlaces, GemmOps, SdpaOps
      <3>2. /\ Q \in {c.args[i] : i \in {i \in 1..4 : c.args[i] # Absent}}
            /\ K \in {c.args[i] : i \in {i \in 1..4 : c.args[i] # Absent}}
        BY <3>1 DEF IsTensor, Absent
      <3>3. Len(Q.shape) = 4 /\ Len(K.shape) = 4
        BY <1>2, <3>2, Zenon
      <3>4. Q.shape \in Seq(Nat) /\ K.shape \in Seq(Nat)
        BY <3>1, TensorShapes
      <3> QED BY <3>3, <3>4
    <2>2. 3 \in 1..4
      OBVIOUS
    <2> QED BY <2>1, <2>2, ElementOfSeq, Zenon
  <1>6. (IF s.causal THEN <<"last key", full[4] - full[3]>> ELSE <<"every key">>) = keys <=> (causal => sq = sk)
    <2> DEFINE offset == full[4] - full[3]
    <2>1. offset = 0 <=> sq = sk
      <3> HIDE DEF sq, sk, Q, K, b, hq
      <3>1. full[4] = sk /\ full[3] = sq
        OBVIOUS
      <3> QED BY <1>5, <3>1
    <2> HIDE DEF offset, causal, sq, sk
    <2>2. <<"last key", offset>> = <<"last key", 0>> <=> offset = 0
      OBVIOUS
    <2>3. CASE causal
      <3>1. (IF s.causal THEN <<"last key", offset>> ELSE <<"every key">>) = <<"last key", offset>> /\ keys = <<"last key", 0>>
        BY <1>4, <2>3, Zenon
      <3> QED BY <2>1, <2>2, <2>3, <3>1, Zenon DEF offset
    <2>4. CASE ~causal
      <3>1. (IF s.causal THEN <<"last key", offset>> ELSE <<"every key">>) = <<"every key">> /\ keys = <<"every key">>
        BY <1>4, <2>4, Zenon
      <3> QED BY <2>4, <3>1, Zenon DEF offset
    <2> QED BY <2>3, <2>4
  <1>7. (CASE s.mask = "none" -> <<"unmasked">>
           [] s.mask = "dense" -> <<"masked", LiveAxes(full, 1..4)>>
           [] OTHER -> <<"masked", LiveAxes(full, {4})>>) = seen
    <2>1. CASE bias = Absent
      <3>1. mask = "none"
        BY <2>1 DEF MaskLayout
      <3> HIDE DEF mask, bias, full
      <3> QED BY <1>4, <2>1, <3>1
    <2>2. CASE bias # Absent /\ bias.shape = full
      <3>1. mask = "dense"
        BY <2>2 DEF MaskLayout
      <3> HIDE DEF mask, bias, full
      <3>2. seen = <<"masked", LiveAxes(full, 1..4)>>
        BY <2>2
      <3> QED BY <1>4, <3>1, <3>2
    <2>3. CASE bias # Absent /\ bias.shape # full /\ bias.shape = <<1, 1, 1, sk>>
      <3>1. mask = "keys"
        BY <2>3 DEF MaskLayout
      <3>2. LiveAxes(<<1, 1, 1, sk>>, 1..4) = LiveAxes(full, {4})
        <4> HIDE DEF sk, sq, hq, b
        <4> QED BY DEF LiveAxes
      <3> HIDE DEF mask, bias, full, sk
      <3>3. seen = <<"masked", LiveAxes(full, {4})>>
        BY <2>3, <3>2, Zenon
      <3> HIDE DEF seen
      <3> QED BY <1>4, <3>1, <3>3
    <2>4. CASE bias # Absent /\ bias.shape # full /\ bias.shape # <<1, 1, 1, sk>>
      BY <1>2, <2>4 DEF MaskLayout
    <2> QED BY <2>1, <2>2, <2>3, <2>4
  <1>8. SdpaMeaning(c) = <<"attention", scale, seen, keys>>
    BY Zenon DEF SdpaMeaning
  <1>9. SdpaKernel(s).mask = s.mask
    BY DEF SdpaKernel
  <1>10. SdpaTerm(SdpaKernel(s), s, c) =
           <<"attention", s.scale,
             CASE s.mask = "none" -> <<"unmasked">>
               [] s.mask = "dense" -> <<"masked", LiveAxes(full, 1..4)>>
               [] OTHER -> <<"masked", LiveAxes(full, {4})>>,
             IF s.causal THEN <<"last key", full[4] - full[3]>> ELSE <<"every key">> >>
    BY <1>9, Zenon DEF SdpaTerm
  <1>11. SdpaConforms(c) <=> (causal => sq = sk)
    BY Zenon DEF SdpaConforms
  <1> DEFINE shown == IF s.causal THEN <<"last key", full[4] - full[3]>> ELSE <<"every key">>
  <1>12. SdpaTerm(SdpaKernel(s), s, c) = <<"attention", scale, seen, shown>>
    BY <1>4, <1>7, <1>10, Zenon
  <1>13. shown = keys <=> (causal => sq = sk)
    BY <1>6
  <1> HIDE DEF scale, seen, keys, shown, causal, sq, sk
  <1>14. <<"attention", scale, seen, shown>> = <<"attention", scale, seen, keys>> <=> shown = keys
    OBVIOUS
  <1> QED BY <1>8, <1>11, <1>12, <1>13, <1>14, Zenon

-----------------------------------------------------------------------------
(* What a call leaves the kernels to compute *)

LEMMA ListedDropIn ==
  ASSUME NEW c, IsCall(c), SchemaCall(c), c.op \in AllOps, NEW s \in Specs(c), ~RenderFails(s)
  PROVE  Term(Kernel(s), s, c) = Meaning(c) <=> Conforms(c)
  <1> DEFINE k == Kernel(s)
  <1>0. c.op \in GemmOps => MatrixCall(c)
    BY DEF SchemaCall
  <1>1. CASE c.op \in ElementwiseOps
    <2>1. s.family = "elementwise"
      BY <1>1, SpecsOf, ElementwiseListed DEF ElementwiseForm, ElementwiseSpec
    <2>2. k = ElementwiseKernel(s)
      BY <2>1 DEF Kernel, GemmOps
    <2> HIDE DEF k
    <2>3. Term(k, s, c) = ElementwiseTerm(k, c)
      BY <2>1 DEF Term, GemmOps
    <2>4. Meaning(c) = ElementwiseMeaning(c)
      BY <1>1 DEF Meaning, MoveOps, SdpaOps, GemmOps, ReduceOps, ElementwiseOps, Arithmetic, Unary, Binary, Compare
    <2>5. ElementwiseTerm(ElementwiseKernel(s), c) = ElementwiseMeaning(c) <=> ElementwiseConforms(c)
      BY <1>1, ElementwiseDropIn
    <2>6. Conforms(c) <=> ElementwiseConforms(c)
      BY <1>1 DEF Conforms, SdpaOps, ReduceOps, ElementwiseOps, Arithmetic, Unary, Binary, Compare
    <2> QED BY <2>2, <2>3, <2>4, <2>5, <2>6, Zenon DEF k
  <1>2. CASE c.op \in ReduceOps
    <2>1. s.family = "reduce"
      BY <1>2, SpecsOf, ReduceListed DEF ReduceForm
    <2>2. k = ReduceKernel(s)
      BY <2>1 DEF Kernel, GemmOps
    <2> HIDE DEF k
    <2>3. Term(k, s, c) = k.body
      BY <2>1 DEF Term, GemmOps
    <2>4. k.body = ReduceBody(s)
      BY <2>2, Zenon DEF ReduceKernel
    <2>5. Meaning(c) = Reduction(c)
      BY <1>2 DEF Meaning, MoveOps, SdpaOps, GemmOps, ReduceOps, ElementwiseOps, Arithmetic, Unary, Binary, Compare
    <2>6. ReduceBody(s) = Reduction(c) <=> ReduceConforms(c)
      BY <1>2, ReduceDropIn
    <2>7. Conforms(c) <=> ReduceConforms(c)
      BY <1>2 DEF Conforms, SdpaOps, ReduceOps, ElementwiseOps, Arithmetic, Unary, Binary, Compare
    <2> QED BY <2>3, <2>4, <2>5, <2>6, <2>7, Zenon DEF k
  <1>3. CASE c.op \in GemmOps
    <2>1. s.family = c.op
      BY <1>0, <1>3, GemmListed
    <2>2. k = s
      BY <1>3, <2>1 DEF Kernel, GemmOps, GemmKernel
    <2> HIDE DEF k
    <2>3. Term(k, s, c) = GemmTerm(k, c)
      BY <1>3, <2>1 DEF Term, GemmOps
    <2>4. Meaning(c) = GemmMeaning(c)
      BY <1>3 DEF Meaning, MoveOps, SdpaOps, GemmOps, ReduceOps, ElementwiseOps, Arithmetic, Unary, Binary, Compare
    <2>5. GemmTerm(s, c) = GemmMeaning(c)
      BY <1>0, <1>3, GemmDropIn
    <2>6. Conforms(c)
      BY <1>3 DEF Conforms, GemmOps, SdpaOps, ReduceOps, ElementwiseOps, Arithmetic, Unary, Binary, Compare
    <2> QED BY <2>2, <2>3, <2>4, <2>5, <2>6, Zenon DEF k
  <1>4. CASE c.op = "softmax"
    <2>1. s.family = "softmax"
      BY <1>4, SoftmaxListed
    <2>2. Term(Kernel(s), s, c) = <<"softmax">>
      BY <2>1 DEF Term, GemmOps
    <2>3. Meaning(c) = <<"softmax">>
      BY <1>4 DEF Meaning, MoveOps, SdpaOps, GemmOps, ReduceOps, ElementwiseOps, Arithmetic, Unary, Binary, Compare
    <2>4. Conforms(c)
      BY <1>4 DEF Conforms, SdpaOps, ReduceOps, ElementwiseOps, Arithmetic, Unary, Binary, Compare
    <2> QED BY <2>2, <2>3, <2>4, Zenon
  <1>5. CASE c.op \in SdpaOps
    <2>1. s.family = "sdpa"
      BY <1>5, SpecsOf, SdpaListed DEF SdpaForm
    <2>2. k = SdpaKernel(s)
      BY <2>1 DEF Kernel, GemmOps
    <2> HIDE DEF k
    <2>3. Term(k, s, c) = SdpaTerm(k, s, c)
      BY <2>1 DEF Term, GemmOps
    <2>4. Meaning(c) = SdpaMeaning(c)
      BY <1>5 DEF Meaning, MoveOps, SdpaOps, GemmOps, ReduceOps, ElementwiseOps, Arithmetic, Unary, Binary, Compare
    <2>5. SdpaTerm(SdpaKernel(s), s, c) = SdpaMeaning(c) <=> SdpaConforms(c)
      BY <1>5, SdpaDropIn
    <2>6. Conforms(c) <=> SdpaConforms(c)
      BY <1>5 DEF Conforms, SdpaOps, ReduceOps, ElementwiseOps, Arithmetic, Unary, Binary, Compare
    <2> QED BY <2>2, <2>3, <2>4, <2>5, <2>6, Zenon DEF k
  <1>6. CASE c.op \in MoveOps
    <2>1. s.family \in MoveOps
      BY <1>6, MoveListed DEF MoveForm
    <2>2. k = MoveKernel(s)
      BY <2>1 DEF Kernel, MoveOps, GemmOps
    <2> HIDE DEF k
    <2>3. Term(k, s, c) = MoveTerm(k)
      BY <2>1 DEF Term, MoveOps, GemmOps
    <2>4. Meaning(c) = MoveMeaning(c)
      BY <1>6 DEF Meaning, MoveOps, SdpaOps, GemmOps, ReduceOps, ElementwiseOps, Arithmetic, Unary, Binary, Compare
    <2>5. MoveTerm(MoveKernel(s)) = MoveMeaning(c)
      BY <1>6, MoveDropIn
    <2>6. Conforms(c)
      BY <1>6 DEF Conforms, MoveOps, SdpaOps, ReduceOps, ElementwiseOps, Arithmetic, Unary, Binary, Compare
    <2> QED BY <2>2, <2>3, <2>4, <2>5, <2>6, Zenon DEF k
  <1> QED BY <1>1, <1>2, <1>3, <1>4, <1>5, <1>6 DEF AllOps

\* A kernel launched with a spec listed for its call computes what the aten op
\* computes, maps, broadcast, mask and axis included, exactly if the call asks for
\* nothing the kernels render otherwise: no predicate turns the others away.
THEOREM RunsComputeAten == Spec => []DropIn
  <1>1. NamesSuffice /\ CallMade /\ Rendered => DropIn
    <2> SUFFICES ASSUME NamesSuffice /\ CallMade /\ Rendered,
                        last.outcome = "done", last.spec \in Candidates[last.at]
                 PROVE  Term(last.kernel, last.spec, Calls[last.at]) = Meaning(Calls[last.at])
                          <=> Conforms(Calls[last.at])
      BY DEF DropIn
    <2>1. last.at \in DOMAIN Calls /\ last.kernel = Kernel(last.spec) /\ ~RenderFails(last.spec)
      BY DEF CallMade, NamesSuffice, Rendered
    <2>2. /\ Calls[last.at].op \in AllOps /\ IsCall(Calls[last.at]) /\ SchemaCall(Calls[last.at])
          /\ Candidates[last.at] = Specs(Calls[last.at])
      BY <2>1, KuiopsAssumption DEF Candidates
    <2> QED BY <2>1, <2>2, ListedDropIn
  <1> QED BY <1>1, KernelsByName, CallMadeInvariant, RenderedInvariant, PTL
=============================================================================
