------------------------------- MODULE Kuiops ------------------------------
(***************************************************************************)
(* kuipy.run(op): the eager callable of an op, from the predicate of its   *)
(* family through the memo of specs and the cache of modules to the launch.*)
(*                                                                         *)
(* A call has an op, args and kw.  Each op has one callable, with a memo   *)
(* of its own; modules are shared by name.                                 *)
(***************************************************************************)
EXTENDS Families

CONSTANTS
  Calls,      \* the calls a program makes, a sequence
  MaxCalls,   \* bound on the number of calls of a run
  CacheMax    \* _SPEC_CACHE_MAX

\* The arguments ATen's schema gives a matrix product.
MatrixCall(c) ==
  /\ Len(c.args) = IF c.op = "addmm" THEN 3 ELSE 2
  /\ \A i \in DOMAIN c.args : IsTensor(c.args[i])

\* The leading tensors of the other schemas; cat takes a list of them.
TensorPlaces(op) ==
  CASE op = "cat" -> {}
    [] op = "gather" -> {1, 3}
    [] op = "scatter" -> {1, 3, 4}
    [] op \in SdpaOps -> {1, 2, 3}
    [] OTHER -> {1}

\* The number of arguments of an elementwise op.
Arity(op) == CASE op \in Unary \cup {"bitwise_not"} -> 1 [] op = "where" -> 3 [] OTHER -> 2

\* The keywords: a number, a type, and the lists of maps that fusion hands over.
SchemaKeywords(c) ==
  /\ Keyword(c, "alpha", Num("int", Unit)) \in Numbers
  /\ Keyword(c, "dtype", Absent).kind \in {"none", "word"}
  /\ \A name \in {"pre_map", "post_map"} : Keyword(c, name, List(<<>>)).items \in Seq(MapEntries)

SchemaCall(c) ==
  /\ c.op \in GemmOps => MatrixCall(c)
  /\ c.op \notin GemmOps => \A i \in TensorPlaces(c.op) : i \in DOMAIN c.args /\ IsTensor(c.args[i])
  /\ c.op = "cat" => /\ 1 \in DOMAIN c.args /\ c.args[1].kind = "list"
                     /\ \A i \in DOMAIN c.args[1].items : IsTensor(c.args[1].items[i])
  /\ c.op \in ElementwiseOps => Len(c.args) = Arity(c.op)
  /\ SchemaKeywords(c)

ASSUME KuiopsAssumption ==
  /\ Len(Calls) > 0 /\ MaxCalls \in Nat /\ CacheMax \in Nat \ {0}
  /\ \A i \in DOMAIN Calls :
       /\ Calls[i].op \in AllOps
       /\ IsCall(Calls[i]) /\ SchemaCall(Calls[i])

VARIABLES
  cache,   \* the memo of each callable: a function from keys to specs
  built,   \* the kernel a module name was built from
  last,    \* the last call, its spec, the kernel it ran and its outcome
  calls    \* number of calls made

vars == <<cache, built, last, calls>>

Ops == {Calls[i].op : i \in DOMAIN Calls}

-----------------------------------------------------------------------------
\* What supported() lists for each call, and what an untuned GEMM takes of it.
Candidates == [i \in DOMAIN Calls |-> Specs(Calls[i])]
Untuned == [i \in DOMAIN Calls |->
  IF Calls[i].op \in GemmOps /\ Candidates[i] # {} THEN FirstSpec(Candidates[i]) ELSE None]

-----------------------------------------------------------------------------
(* The memo's key.  Equal Python numbers are one key, and of a tensor only    *)
(* shape, stride, dtype and device count.                                     *)

\* Mutant: the strides are not in the key.
KeyPartNoStride(x) ==
  CASE x.kind = "tensor" -> <<"t", x.shape, x.dtype>>
    [] x.kind = "list" -> <<"l", [i \in DOMAIN x.items |-> <<"t", x.items[i]>>]>>
    [] x.kind = "none" -> <<"none">>
    [] x.kind = "flag" -> <<"n", IF x.val THEN Unit ELSE 0>>
    [] x.kind \in {"int", "float"} -> <<"n", x.val>>
    [] OTHER -> <<x.kind, x.val>>
SimpleKey(v) ==
  CASE v.kind = "tensor" -> <<"t", v.shape, v.stride, v.dtype>>
    [] v.kind = "none" -> <<"none">>
    [] v.kind = "flag" -> <<"n", IF v.val THEN Unit ELSE 0>>
    [] v.kind \in {"int", "float"} -> <<"n", v.val>>
    [] v.kind = "map" -> <<"m", v.op, IF v.c = Absent THEN <<>> ELSE <<v.c.val>>>>
    [] OTHER -> <<v.kind, v.val>>
KeyPart(x) == IF x.kind = "list" THEN <<"l", [i \in DOMAIN x.items |-> SimpleKey(x.items[i])]>> ELSE SimpleKey(x)

SpecKey(c) == <<[i \in DOMAIN c.args |-> KeyPart(c.args[i])], {<<k, KeyPart(c.kw[k])>> : k \in DOMAIN c.kw}>>

-----------------------------------------------------------------------------
\* A dictionary with an entry set.
Put(dict, key, val) == [k \in DOMAIN dict \cup {key} |-> IF k = key THEN val ELSE dict[k]]

Init ==
  /\ cache = [op \in Ops |-> <<>>]
  /\ built = <<>>
  /\ last = [outcome |-> "none"]
  /\ calls = 0

\* impl.run: render, build unless the module exists, launch.
RunSpec(s, i) ==
  LET c == Calls[i]
      name == ModuleName(s)
      ran == IF name \in DOMAIN built THEN built[name] ELSE Kernel(s)
      result(outcome) == [outcome |-> outcome, at |-> i, spec |-> s, kernel |-> ran]
  IN
  IF RenderFails(s) THEN /\ last' = [outcome |-> "ValueError", at |-> i]
                         /\ UNCHANGED built
  ELSE /\ built' = IF name \in DOMAIN built THEN built ELSE Put(built, name, ran)
       /\ last' = result(IF LaunchFails(s, c) THEN "refused" ELSE "done")

Remember(op, key, s) ==
  cache' = [cache EXCEPT ![op] = Put(IF Cardinality(DOMAIN @) >= CacheMax THEN <<>> ELSE @, key, s)]

Hit(i) ==
  LET c == Calls[i] IN
  /\ SpecKey(c) \in DOMAIN cache[c.op]
  /\ RunSpec(cache[c.op][SpecKey(c)], i)
  /\ UNCHANGED cache

\* A GEMM runs the candidate that tuning, or the lack of it, selects.
Miss(i) ==
  LET c == Calls[i] IN
  /\ SpecKey(c) \notin DOMAIN cache[c.op]
  /\ \E s \in Candidates[i] :
       /\ Remember(c.op, SpecKey(c), s)
       /\ RunSpec(s, i)

\* supported() returns None: the callable raises.
Unsupported(i) ==
  /\ SpecKey(Calls[i]) \notin DOMAIN cache[Calls[i].op]
  /\ Candidates[i] = {}
  /\ last' = [outcome |-> "NotImplementedError", at |-> i]
  /\ UNCHANGED <<cache, built>>

Next ==
  \E i \in DOMAIN Calls :
    /\ calls < MaxCalls
    /\ calls' = calls + 1
    /\ (Hit(i) \/ Miss(i) \/ Unsupported(i))

Spec == Init /\ [][Next]_vars

-----------------------------------------------------------------------------
\* A module's name says everything its source depends on: the kernel a call
\* runs, built perhaps for an earlier spec of that name, is its own.
NamesSuffice == last.outcome \in {"done", "refused"} => last.kernel = Kernel(last.spec)

\* The memo gives a call only what supported() would list for it now.
MemoSound == last.outcome \in {"done", "refused"} => last.spec \in Candidates[last.at]

\* What the key leaves out of an argument: where a tensor starts, the value of a
\* 0-dim one, and whether a number is a flag, an int or a float.
SimpleUnkeyed(v) ==
  CASE v.kind = "tensor" -> <<IF v.aligned THEN "aligned" ELSE "unaligned", v.val>>
    [] v.kind \in {"flag", "int", "float"} -> <<v.kind>>
    [] v.kind = "map" -> <<v.c.kind>>
    [] OTHER -> <<>>
Unkeyed(x) == IF x.kind = "list" THEN [i \in DOMAIN x.items |-> SimpleUnkeyed(x.items[i])] ELSE SimpleUnkeyed(x)

SameKey(c, d) == c.op = d.op /\ SpecKey(c) = SpecKey(d)
UnkeyedAgree(c, d) ==
  /\ \A i \in DOMAIN c.args : Unkeyed(c.args[i]) = Unkeyed(d.args[i])
  /\ \A name \in DOMAIN c.kw : Unkeyed(c.kw[name]) = Unkeyed(d.kw[name])

\* A spec supported() does not list for the call that runs it was listed for one
\* of the same key that differs in just what the key leaves out: nothing else is
\* confused.
MemoKeyed ==
  last.outcome \in {"done", "refused"} /\ last.spec \notin Candidates[last.at] =>
    \E j \in DOMAIN Calls : /\ SameKey(Calls[j], Calls[last.at]) /\ ~UnkeyedAgree(Calls[j], Calls[last.at])
                            /\ last.spec \in Candidates[j]

GemmSize(c) ==
  LET A == c.args[Len(c.args) - 1]  B == c.args[Len(c.args)]  rank == Len(A.shape) IN
  [batch |-> IF rank = 3 THEN A.shape[1] ELSE 1, M |-> A.shape[rank - 1], N |-> B.shape[rank], K |-> A.shape[rank]]

\* What no predicate or wrapper checks of the operands: elements at all, sizes 32
\* bits hold, pointers for the vector copies of the kernels that take B as it is
\* and of C where it is combined into, partial sums in f32; tensors of at most four
\* axes to move.
GemmInRange(s, c) ==
  LET n == GemmSize(c)  A == c.args[Len(c.args) - 1]  B == c.args[Len(c.args)] IN
  /\ \A x \in {n.batch, n.M, n.N, n.K} : x > 0
  /\ \A x \in {n.batch * n.M * n.K, n.batch * n.K * n.N, n.batch * n.M * n.N} : x < U32
  /\ s.backend \notin TnBackends => AlignedAfterContiguous(A) /\ AlignedAfterContiguous(B)
  /\ s.backend = "tc2d_to" /\ s.family = "addmm" => AlignedAfterContiguous(c.args[1])
  /\ s.backend \in SplitBackends => s.ty.acc = "f32"
Moved(c) == IF c.op = "cat" THEN {c.args[1].items[1], c.args[1].items[2]} ELSE {c.args[1], c.args[3]}
MoveInRange(c) == \A x \in Moved(c) : Sizes(x.shape) /\ Len(x.shape) <= 4
InRange(s, c) == (c.op \in GemmOps => GemmInRange(s, c)) /\ (c.op \in MoveOps => MoveInRange(c))

\* The contract of the verified kernel, erased when it is extracted, holds of a
\* launch exactly where these do: all the rest of it the predicates and the
\* wrappers establish, whatever spec the memo hands out.
KernelAccepts ==
  last.outcome = "done" =>
    (Accepts(last.kernel, last.spec, Calls[last.at]) <=> InRange(last.spec, Calls[last.at]))

\* What a kernel renders as ATen means it: constants that six decimals spell, no
\* alpha on a sub, a second operand laid out like the first, and causal attention
\* over as many keys as queries, where the two corners of the mask coincide.
Spelled(x, dtype) == dtype \in FloatDtypes => x.val % 10 = 0
ElementwiseConforms(c) ==
  LET alpha == Keyword(c, "alpha", Num("int", Unit))  dtype == c.args[1].dtype IN
  /\ c.op = "sub" => alpha.val = Unit
  /\ c.op = "add" => Spelled(alpha, dtype)
  /\ Len(c.args) = 2 => IF Scalar(c.args[2]) # None THEN Spelled(Scalar(c.args[2]), dtype)
                        ELSE IsContiguous(c.args[2])
EntriesSpelled(entries, dtype) == \A i \in DOMAIN entries : entries[i].c # Absent => Spelled(entries[i].c, dtype)
ReduceConforms(c) ==
  \A name \in {"pre_map", "post_map"} : EntriesSpelled(Keyword(c, name, List(<<>>)).items, c.args[1].dtype)
SdpaConforms(c) == Argument(c, 7, "is_causal", Flag(FALSE)).val => c.args[1].shape[3] = c.args[2].shape[3]
Conforms(c) ==
  /\ c.op \in ElementwiseOps => ElementwiseConforms(c)
  /\ c.op \in ReduceOps => ReduceConforms(c)
  /\ c.op \in SdpaOps => SdpaConforms(c)

\* The callable is a drop-in replacement, in that a spec listed for the call
\* computes what aten computes, exactly for the calls that conform; for the others
\* it computes something else, and says nothing.
DropIn ==
  last.outcome = "done" /\ last.spec \in Candidates[last.at] =>
    (Term(last.kernel, last.spec, Calls[last.at]) = Meaning(Calls[last.at]) <=> Conforms(Calls[last.at]))

Spills(s) == s.backend = "tc2d_to" /\ FragRegs(s.tile.wm, s.tile.wn) > RegBudget
SameBlock(s, t) == s.backend = t.backend /\ s.tile.bm = t.tile.bm /\ s.tile.bn = t.tile.bn /\ s.tile.bk = t.tile.bk

\* Whichever listed candidate tuning picks is one the kernel takes, fits the
\* shared memory of a block and one grid.  The first, taken without tuning, is
\* a tiling whose fragments spill only if every warp shape of its block does.
CandidatesFit ==
  last.outcome # "none" /\ Calls[last.at].op \in GemmOps =>
    LET n == GemmSize(Calls[last.at])
        first == Untuned[last.at] IN
    /\ \A s \in Candidates[last.at] :
         /\ n.K > 0 => TileContract(s, n.M, n.N, n.K)
         /\ SharedMemory(s.backend, s.tile, s.ty) <= ShmemBytes
         /\ Grid(s.tile, n.batch, n.M, n.N) <= MaxBlocks
         /\ first # None /\ Spills(first) /\ SameBlock(s, first) => Spills(s)
=============================================================================
