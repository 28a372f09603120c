---------------------------- MODULE MapFamilies ----------------------------
(***************************************************************************)
(* The elementwise family, the maps that fuse into another kernel, and the *)
(* reductions that absorb them.                                            *)
(*                                                                         *)
(* What a kernel computes is a term.  Operands are <<"elem", i>>, the      *)
(* element of argument i at the index of the result, <<"storage", i>>, the *)
(* one at the same place of memory, and <<"c", v>>, the number v; methods  *)
(* have the name of the aten op.                                           *)
(***************************************************************************)
EXTENDS Tensors

Unary == {"silu", "relu", "neg", "rsqrt", "cos", "sin"}
Binary == {"add", "mul", "sub", "div"}
Arithmetic == Unary \cup Binary \cup {"pow"}
FloatingOnly == {"silu", "neg", "rsqrt", "cos", "sin", "pow", "sub", "div"}
Compare == {"eq", "le", "lt"}
ElementwiseOps == Arithmetic \cup Compare \cup {"bitwise_not", "bitwise_and", "bitwise_or", "where"}

ReduceOps == {"sum", "mean", "prod", "all", "any"}

-----------------------------------------------------------------------------
(* Constants *)

\* "%f": six decimals, one less than a unit of 10^-7.
SixDecimals(v) == IF v >= 0 THEN ((v + 5) \div 10) * 10 ELSE -(((5 - v) \div 10) * 10)

\* cast_constarg: the number the kernel's source spells for a floating or an
\* integral type, None where it raises.
Literal(c, floating) ==
  IF floating THEN SixDecimals(c.val)
  ELSE IF c.kind = "int" THEN c.val
  ELSE None
CastConst(c, dtype) == Literal(c, dtype \in FloatDtypes)

-----------------------------------------------------------------------------
(* Elementwise *)

ElementwiseSpec(kind, method, ins, out, consts) ==
  [family |-> "elementwise", kind |-> kind, method |-> method, ins |-> ins, out |-> out, consts |-> consts]

SameTensor(A, B) == IsTensor(B) /\ B.dtype = A.dtype /\ B.shape = A.shape

\* The alpha of an add, when it is not 1.
AddAlpha(c) ==
  LET alpha == Keyword(c, "alpha", Num("int", Unit))
  IN  IF c.op = "add" /\ alpha.val # Unit THEN <<alpha>> ELSE <<>>

ArithmeticSpecs(c) ==
  LET A == c.args[1]
      alpha == AddAlpha(c)
      method == IF alpha = <<>> THEN c.op ELSE "add_alpha"
      map(m, consts) == ElementwiseSpec("map", m, <<A.dtype>>, A.dtype, consts)
  IN
  IF A.dtype \notin ScalarDtypes \/ (c.op \in FloatingOnly /\ A.dtype \notin FloatDtypes) THEN {}
  ELSE CASE Len(c.args) = 1 -> {map(c.op, <<>>)}
         [] Len(c.args) = 2 /\ c.op = "pow" /\ c.args[2] = Num("int", 2 * Unit) -> {map("square", <<>>)}
         [] OTHER ->
              IF Scalar(c.args[2]) # None THEN {map(method, alpha \o <<Scalar(c.args[2])>>)}
              ELSE {s \in {ElementwiseSpec("map2", method, <<A.dtype, A.dtype>>, A.dtype, alpha)} :
                      SameTensor(A, c.args[2])}

ElementwiseSpecs(c) ==
  LET A == c.args[1]
      when(cond, kind, ins, out, consts) ==
        {s \in {ElementwiseSpec(kind, c.op, ins, out, consts)} : cond}
  IN
  IF ~IsTensor(A) \/ Numel(A) \notin 1..MaxNumel THEN {}
  ELSE CASE c.op = "bitwise_not" -> when(A.dtype = "bool", "map", <<"bool">>, "bool", <<>>)
         [] c.op \in {"bitwise_and", "bitwise_or"} ->
              when(A.dtype = "bool" /\ SameTensor(A, c.args[2]), "map2", <<"bool", "bool">>, "bool", <<>>)
         [] c.op \in Compare ->
              when(A.dtype \in FloatDtypes /\ Scalar(c.args[2]) # None,
                   "map_nip", <<A.dtype>>, "bool", <<Scalar(c.args[2])>>)
         [] c.op = "where" ->
              LET X == c.args[2]  Y == c.args[3] IN
              when(/\ IsTensor(X) /\ IsTensor(Y) /\ A.dtype \in {"bool", "u8"}
                   /\ SameTensor(X, Y) /\ X.shape = A.shape,
                   "map3", <<A.dtype, X.dtype, X.dtype>>, X.dtype, <<>>)
         [] OTHER -> ArithmeticSpecs(c)

\* Mutant: the baked constants are not in the name.
ElementwiseNameNoConsts(s) ==
  <<"Elementwise", s.kind, s.method, [i \in DOMAIN s.ins |-> FStar(s.ins[i])]>>
ElementwiseName(s) ==
  <<"Elementwise", s.kind, s.method, [i \in DOMAIN s.ins |-> FStar(s.ins[i])], s.consts>>

\* What the templates are rendered from.
ElementwiseKernel(s) ==
  [kind |-> s.kind, method |-> s.method,
   consts |-> [i \in DOMAIN s.consts |-> CastConst(s.consts[i], s.ins[1])],
   types |-> [i \in DOMAIN s.ins |-> FStar(s.ins[i])],
   result |-> IF s.kind \in {"map_nip", "map3"} THEN FStar(s.out) ELSE FStar(s.ins[1])]

\* The method, the elements it takes, and the constants behind them.  map2 takes
\* its second argument as it lies in memory.
ElementwiseTerm(k, c) ==
  LET operand(i) == IF k.kind = "map2" /\ i = 2 /\ ~IsContiguous(c.args[2])
                    THEN <<"storage", 2>> ELSE <<"elem", i>>
      operands == [i \in DOMAIN k.types |-> operand(i)]
  IN  IF k.method = "square" THEN <<"pow", operands, <<2 * Unit>>>> ELSE <<k.method, operands, k.consts>>

\* What the aten op computes, in the same terms: op(x, y) or op(x, alpha * y).
ElementwiseMeaning(c) ==
  LET alpha == Keyword(c, "alpha", Num("int", Unit)).val
      scaled == c.op \in {"add", "sub"} /\ alpha # Unit
      number == Len(c.args) = 2 /\ Scalar(c.args[2]) # None
      tensors == IF number THEN 1 ELSE Len(c.args)
  IN  <<IF ~scaled THEN c.op ELSE IF c.op = "add" THEN "add_alpha" ELSE "sub_alpha",
        [i \in 1..tensors |-> <<"elem", i>>],
        (IF scaled THEN <<alpha>> ELSE <<>>) \o (IF number THEN <<Scalar(c.args[2]).val>> ELSE <<>>)>>

-----------------------------------------------------------------------------
(* Fusable maps: an entry of a map list is an op and a constant or Absent *)

Concrete == Unary \cup Binary \cup {"square"}
Approximate == Concrete \ {"sin", "cos"}   \* maps with a model over the reals

\* What one entry becomes, None outside what a map at dtype can express.
ResolveMap(e, dtype, approx) ==
  LET squares == e.op = "pow" /\ e.c # Absent /\ e.c.val = 2 * Unit
      method == IF squares THEN "square" ELSE e.op
      const == IF squares THEN Absent ELSE e.c
  IN  IF /\ e.op \in Arithmetic /\ (e.op = "pow" => squares)
         /\ e.op \in FloatingOnly => dtype \in FloatDtypes
         /\ (const # Absent) <=> (method \in Binary)
         /\ approx => /\ method \in Approximate
                      /\ method = "div" => const.val % Unit = 0 /\ const.val # 0
      THEN [op |-> method, c |-> const] ELSE None

ResolveMaps(entries, dtype, approx) ==
  LET resolved == [i \in DOMAIN entries |-> ResolveMap(entries[i], dtype, approx)]
  IN  IF (entries # <<>> /\ dtype \notin ScalarDtypes) \/ \E i \in DOMAIN resolved : resolved[i] = None
      THEN None ELSE resolved

\* The maps of a chain, applied in order to what a term stands for; a map is an
\* op and its constant, if it has one.
Step(op, c, number) == [op |-> op, consts |-> IF c = Absent THEN <<>> ELSE <<<<"c", number>>>>]
Composed(steps, var) ==
  LET body[i \in 0..Len(steps)] == IF i = 0 THEN var ELSE <<steps[i].op, body[i - 1]>> \o steps[i].consts
  IN  body[Len(steps)]

\* The map an entry of a resolved list renders to.
RenderedStep(m, floating) ==
  IF m.op = "square" THEN Step("pow", Num("int", 2 * Unit), 2 * Unit) ELSE Step(m.op, m.c, Literal(m.c, floating))
RenderedSteps(maps, floating) == [i \in DOMAIN maps |-> RenderedStep(maps[i], floating)]
\* cast_constarg raises on a constant of the list.
MapsRaise(maps, floating) == \E i \in DOMAIN maps : maps[i].c # Absent /\ Literal(maps[i].c, floating) = None

-----------------------------------------------------------------------------
(* Reductions along the last axis *)

\* Result type and combiner, None for a combination that is not served.
ReduceTyping(c) ==
  LET in == c.args[1].dtype
      asked == Keyword(c, "dtype", Absent)
      combiner == CASE c.op \in {"sum", "mean"} -> "add" [] c.op = "prod" -> "mul"
                    [] c.op = "all" -> "and" [] OTHER -> "or"
      typed(out) == [op |-> IF out # "bool" THEN combiner
                            ELSE CASE combiner = "add" -> "or" [] combiner = "mul" -> "and"
                                   [] OTHER -> combiner,
                     out |-> out]
  IN
  IF in \in FloatDtypes
  THEN IF c.op \in {"sum", "mean", "prod"} /\ asked \in {Absent, Word(in)} THEN typed(in) ELSE None
  ELSE
  CASE c.op = "mean" -> None
    [] c.op \in {"sum", "prod"} ->
         LET out == IF asked = Absent THEN "i64" ELSE asked.val
         IN  IF out \in FloatDtypes THEN None ELSE typed(out)
    [] OTHER -> typed(IF in = "u8" THEN "u8" ELSE "bool")

\* The reduced axes, 1-based, as the code normalises them.
ReducedDims(c, rank) ==
  LET dim == Argument(c, 2, "dim", Absent)
      dims == CASE dim = Absent \/ (dim.kind = "list" /\ dim.items = <<>>) -> [i \in 1..rank |-> i - 1]
                [] dim.kind = "list" /\ dim.items # <<>> -> [i \in DOMAIN dim.items |-> NormDim(dim.items[i].val, rank)]
                [] OTHER -> <<NormDim(dim.val, rank)>>
  IN  IF Cardinality({dims[i] : i \in DOMAIN dims}) # Len(dims) THEN {} ELSE {dims[i] + 1 : i \in DOMAIN dims}

\* Mutant: the rows of the grid are not bounded.
ReduceFitsNoRows(shape) ==
  LET cols == shape[Len(shape)] IN
  /\ \A i \in DOMAIN shape : shape[i] > 0
  /\ Product(shape) < U32 /\ cols + (IF cols < 1024 THEN cols ELSE 1024) < U32
ReduceFits(shape) ==
  LET rows == Product(SubSeq(shape, 1, Len(shape) - 1))
      cols == shape[Len(shape)]
  IN
  /\ \A i \in DOMAIN shape : shape[i] > 0
  /\ rows <= MaxBlocks
  /\ rows * cols < U32 /\ cols + (IF cols < 1024 THEN cols ELSE 1024) < U32

\* A mean is a sum and a division by the reduced length, before any other map.
Division == [op |-> "div_cols", c |-> Absent]
\* Mutant: the division comes after the maps fused behind the mean.
ScaledLast(op, post) == IF op = "mean" THEN Append(post, Division) ELSE post
Scaled(op, post) == IF op = "mean" THEN <<Division>> \o post ELSE post

ReduceSpecs(c) ==
  LET X == c.args[1]
      rank == Len(X.shape)
      approx == X.dtype \in FloatDtypes
      typing == ReduceTyping(c)
      maps(name, dtype) == ResolveMaps(Keyword(c, name, List(<<>>)).items, dtype, approx)
      pre == maps("pre_map", X.dtype)
      post == maps("post_map", typing.out)
  IN
  IF \/ ~IsTensor(X) \/ ~IsContiguous(X) \/ rank \notin 1..4 \/ typing = None
     \/ ReducedDims(c, rank) # {rank} \/ ~ReduceFits(X.shape) \/ pre = None \/ post = None THEN {}
  ELSE {[family |-> "reduce", op |-> typing.op, in |-> X.dtype, out |-> typing.out, rank |-> rank, approx |-> approx,
         keepdim |-> Argument(c, 3, "keepdim", Flag(FALSE)).val, pre |-> pre, post |-> Scaled(c.op, post)]}

ReduceName(s) ==
  IF s.approx THEN <<"ReduceApprox", s.op, s.rank, s.in, s.pre, s.post, s.keepdim>>
  ELSE <<"Reduce", s.op, s.rank, FStar(s.in), s.out, s.pre, s.post, s.keepdim>>

\* What a spec's kernel computes: maps on each element, what combines them along
\* which axes, maps on the result.
ReduceBody(s) ==
  [pre |-> RenderedSteps(s.pre, s.in \in FloatDtypes), op |-> s.op, axes |-> {s.rank}, keepdim |-> s.keepdim,
   post |-> RenderedSteps(s.post, s.out \in FloatDtypes)]

ReduceKernel(s) ==
  [approx |-> s.approx, rank |-> s.rank, in |-> FStar(s.in),
   bytes |-> IF s.op \in {"and", "or"} THEN 1 ELSE ItemSize[s.out], result |-> s.out, body |-> ReduceBody(s)]

\* What the aten ops compute that the call stands for, maps included: a mean is a sum over the
\* length of the axis.
MeantStep(e) == Step(e.op, e.c, e.c.val)
MeantSteps(entries) == [i \in DOMAIN entries |-> MeantStep(entries[i])]
MeanSteps(op) == IF op = "mean" THEN <<[op |-> "div_cols", consts |-> <<>>]>> ELSE <<>>
Reduction(c) ==
  LET toBool == Keyword(c, "dtype", Absent) = Word("bool")
      combiner == CASE c.op \in {"sum", "mean"} -> IF toBool THEN "or" ELSE "add"
                    [] c.op = "prod" -> IF toBool THEN "and" ELSE "mul"
                    [] c.op = "all" -> "and"
                    [] OTHER -> "or"
  IN  [pre |-> MeantSteps(Keyword(c, "pre_map", List(<<>>)).items),
       op |-> combiner, axes |-> ReducedDims(c, Len(c.args[1].shape)),
       keepdim |-> Argument(c, 3, "keepdim", Flag(FALSE)).val,
       post |-> MeanSteps(c.op) \o MeantSteps(Keyword(c, "post_map", List(<<>>)).items)]
\* Of the tensor the term arg stands for.
ReduceMeaning(c, arg) ==
  LET r == Reduction(c) IN Composed(r.post, <<r.op, r.axes, r.keepdim, Composed(r.pre, arg)>>)

-----------------------------------------------------------------------------
(* The kernels' contracts *)

ElementwiseAccepts(c, k) ==
  /\ Numel(c.args[IF k.kind = "map3" THEN 2 ELSE 1]) \in 1..MaxNumel
  /\ \A i \in DOMAIN k.consts : k.consts[i] # None

\* Every suffix product fits a size, the rows are blocks, the threads divide a row.
ReduceAccepts(c) ==
  LET shape == c.args[1].shape
      rank == Len(shape)
      rows == Product(SubSeq(shape, 1, rank - 1))
      nth == IF shape[rank] < 1024 THEN shape[rank] ELSE 1024
  IN
  /\ rank \in 1..4 /\ \A i \in 1..rank : shape[i] > 0
  /\ \A i \in 1..rank : Product(SubSeq(shape, i, rank)) < U32
  /\ rows \in 1..MaxBlocks /\ nth \in 1..MaxThreads /\ shape[rank] + nth < U32
=============================================================================
