------------------------------ MODULE PostGrad -----------------------------
(***************************************************************************)
(* kuipy.inductor: the pass that Inductor runs over a post-grad graph.     *)
(* Map fusion walks a snapshot of the nodes and rewrites around each       *)
(* reduction; the replacement walks a second one, swaps what a kernel can  *)
(* serve and feeds the tracer.                                             *)
(*                                                                         *)
(* A node has an op, args, kw and its fake value val; an argument that is  *)
(* a node is [kind |-> "node", id |-> n].  The nodes Inductor made are     *)
(* numbered in execution order; what is inserted before node n, which goes *)
(* in the same rewrite, is node n + MaxNodes and takes its place.          *)
(***************************************************************************)
EXTENDS Families

CONSTANTS
  Kinds,      \* kinds of graphs: the fake value of the placeholder, what op nodes may be, a bound on nodes
  MaxNodes    \* bound on the nodes of every kind


VARIABLES
  kind,      \* what the graph is built from
  graph,     \* the node of each id
  phase,     \* "build", "fuse", "replace", "done", or "raised"
  todo,      \* what the walk has not reached of its snapshot
  replace,   \* KuiperPostGradPass.replace
  promised,  \* what the outputs computed when Inductor called the pass
  tracer     \* the trace of this graph: inputs, recorded nodes and edges

vars == <<kind, graph, phase, todo, replace, promised, tracer>>

Ref(n) == [kind |-> "node", id |-> n]
NoKw == [given |-> Absent]

-----------------------------------------------------------------------------
(* torch.fx *)

\* The nodes an argument stands for.
NodesOf(a) ==
  CASE a.kind = "node" -> {a.id}
    [] a.kind = "list" -> {b.id : b \in {b \in Range(a.items) : b.kind = "node"}}
    [] OTHER -> {}
InputNodes(node) == UNION {NodesOf(a) : a \in Range(node.args)}
Users(n) == {m \in DOMAIN graph : n \in InputNodes(graph[m])}

Place(n) == IF n > MaxNodes THEN n - MaxNodes ELSE n
\* The next node of a walk.
IsNext(n) == n \in todo /\ \A m \in todo : Place(n) <= Place(m)

Swapped(a, from, to) ==
  IF from \notin NodesOf(a) THEN a
  ELSE IF a.kind # "list" THEN Ref(to)
  ELSE List([j \in DOMAIN a.items |-> IF a.items[j].kind = "node" /\ a.items[j].id = from THEN Ref(to) ELSE a.items[j]])
Renamed(node, from, to) == [node EXCEPT !.args = [i \in DOMAIN node.args |-> Swapped(node.args[i], from, to)]]

\* Mutant: the fake value of what the rewritten node read.
MetaOfInput(old) == graph[graph[old].args[1].id].val
\* meta.update: the fake value the new node takes over.
Meta(old) == graph[old].val

\* inserting_before(at), call_function, meta.update(old's), replace_all_uses_with
\* on old, and erase_node on dead, which raises for a node that is still used.
Rewrite(at, old, target, dead) ==
  LET n == at + MaxNodes
      new == [op |-> target.op, args |-> target.args, kw |-> NoKw, val |-> Meta(old)]
      rest == [m \in (DOMAIN graph \cup {n}) \ dead |-> IF m = n THEN new ELSE Renamed(graph[m], old, n)]
  IN
  /\ graph' = rest
  /\ phase' = IF \E m \in DOMAIN rest : InputNodes(rest[m]) \cap dead # {} THEN "raised" ELSE phase

-----------------------------------------------------------------------------
(* The values of a graph's nodes, as terms over its placeholder *)

Fakes(node) == [i \in DOMAIN node.args |-> IF node.args[i].kind = "node" THEN graph[node.args[i].id].val
                                                                         ELSE node.args[i]]
CallOf(node) == [op |-> node.op, args |-> Fakes(node), kw |-> node.kw]

\* The call of a reduction that the arguments of the fused op stand for.
Unpacked(args) ==
  LET op == args[2].val
      given == {"pre_map", "post_map"} \cup {name \in {"dtype"} : args[5] # Absent}
  IN  [op |-> op, args |-> <<args[1], IF op \in {"sum", "mean"} THEN List(<<args[3]>>) ELSE args[3], args[4]>>,
       kw |-> [name \in given |-> CASE name = "pre_map" -> args[6] [] name = "post_map" -> args[7] [] OTHER -> args[5]]]

\* What an argument stands for, from the values of the nodes.
TermOf(a, vals) ==
  CASE a.kind = "node" -> vals[a.id]
    [] a.kind = "list" -> [j \in DOMAIN a.items |-> IF a.items[j].kind = "node" THEN vals[a.items[j].id] ELSE a.items[j]]
    [] a.kind \in {"int", "float"} -> <<"c", a.val>>
    [] a.kind = "none" -> <<"none">>
    [] OTHER -> <<a.val>>
TermsOf(node, vals) == [i \in DOMAIN node.args |-> TermOf(node.args[i], vals)]

\* The custom ops of attention.
AttentionOps == {"kuiperjit.sdpa", "kuiperjit.sdpa_cudnn"}

\* What a call computes from the terms ins of its arguments; a custom op computes
\* what its reference does, which is what DropIn of Kuiops says of its kernel.
Computes(c, ins) ==
  LET number(name) == Keyword(c, name, Num("int", Unit)).val
      given == Keyword(c, "scale", Absent)
      scale == IF given = Absent THEN Word(<<"1/sqrt", c.args[1].shape[4]>>) ELSE given
  IN
  CASE c.op = "placeholder" -> <<"input">>
    [] c.op = "output" -> ins[1]
    [] c.op \in ReduceOps -> ReduceMeaning(c, ins[1])
    [] c.op = "kuiperjit.hreduce_poly" -> ReduceMeaning(Unpacked(c.args), ins[1])
    [] c.op \in {"mm", "kuiperjit.mm"} -> <<"mm", ins[1], ins[2]>>
    [] c.op \in {"bmm", "kuiperjit.bmm"} -> <<"bmm", ins[1], ins[2]>>
    [] c.op = "addmm" -> <<"addmm", ins[1], ins[2], ins[3], number("beta"), number("alpha")>>
    [] c.op = "kuiperjit.addmm" -> <<"addmm", ins[1], ins[2], ins[3], c.args[4].val, c.args[5].val>>
    [] c.op \in SdpaOps ->
         <<"attention", ins[1], ins[2], ins[3], ins[4], scale.val, Argument(c, 7, "is_causal", Flag(FALSE)).val,
           Argument(c, 6, "dropout_p", Num("float", 0)).val>>
    [] c.op \in AttentionOps ->
         <<"attention", ins[1], ins[2], ins[3], ins[4], c.args[5].val, c.args[6].val, 0>>
    [] OTHER -> (IF c.kw = NoKw THEN <<c.op>> ELSE <<c.op, c.kw>>) \o ins

Value(n) ==
  LET value[m \in DOMAIN graph] == Computes(CallOf(graph[m]), TermsOf(graph[m], value))
  IN  value[n]
Output == CHOOSE n \in DOMAIN graph : graph[n].op = "output"

\* What the ops' fake implementations return.
Plain(dtype, shape) == Tensor(dtype, shape, RowMajor(shape), TRUE, 0)
Retyped(X, dtype) == Tensor(dtype, X.shape, X.stride, TRUE, 0)
FakeReduce(c) ==
  LET X == c.args[1]
      rank == Len(X.shape)
      axes == ReducedDims(c, rank)
      asked == Keyword(c, "dtype", Absent)
      kept == SetToSortSeq(1..rank \ axes, <)
  IN  Plain(IF c.op \in {"all", "any"} THEN IF X.dtype = "u8" THEN "u8" ELSE "bool"
            ELSE IF asked # Absent THEN asked.val ELSE IF X.dtype \in FloatDtypes THEN X.dtype ELSE "i64",
            IF Argument(c, 3, "keepdim", Flag(FALSE)).val THEN [i \in 1..rank |-> IF i \in axes THEN 1 ELSE X.shape[i]]
            ELSE [i \in DOMAIN kept |-> X.shape[kept[i]]])

\* The output of attention, log-sum-exps, what cudnn says of the sequences, and the
\* seeds of the dropout.  Aten's efficient kernel writes heads of one token next to
\* each other; its 0-dim seeds have one axis in the custom op's fake, and where
\* cudnn has no result or a length, the custom op has an empty tensor or a zero.
FakeAttention(c) ==
  LET Q == c.args[1]  K == c.args[2]  V == c.args[3]
      out == <<Q.shape[1], Q.shape[2], Q.shape[3], V.shape[4]>>
      strided(stride) == Tensor(Q.dtype, out, stride, TRUE, 0)
      lse(rows) == Plain("f32", <<Q.shape[1], Q.shape[2], rows>>)
      seed == Plain("i64", <<>>)
      none == Plain("i64", <<0>>)
      length(n) == Num("int", n * Unit)
      asked == Argument(c, 5, "compute_log_sumexp", Flag(FALSE)).val
  IN
  CASE c.op = "efficient" ->
         List(<<strided(<<out[2] * out[3] * out[4], out[4], out[2] * out[4], 1>>),
                lse(IF asked THEN ((out[3] + 31) \div 32) * 32 ELSE 0), seed, seed>>)
    [] c.op = "cudnn" ->
         List(<<strided(IF out = Q.shape THEN Q.stride ELSE RowMajor(out)), lse(out[3]), Absent, Absent,
                length(out[3]), length(K.shape[3]), seed, seed, Absent>>)
    [] c.op = "kuiperjit.sdpa" -> List(<<Plain(Q.dtype, out), lse(0), none, none>>)
    [] OTHER -> List(<<Plain(Q.dtype, Q.shape), lse(0), none, none, length(0), length(0), seed, seed,
                       Plain(Q.dtype, <<0>>)>>)

Fake(c) ==
  LET X == c.args[1]  Y == c.args[2]  Z == c.args[3] IN
  CASE c.op \in ReduceOps -> FakeReduce(c)
    [] c.op = "kuiperjit.hreduce_poly" -> FakeReduce(Unpacked(c.args))
    [] c.op \in {"mm", "kuiperjit.mm"} -> Plain(X.dtype, <<X.shape[1], Y.shape[2]>>)
    [] c.op \in {"bmm", "kuiperjit.bmm"} -> Plain(X.dtype, <<X.shape[1], X.shape[2], Y.shape[3]>>)
    [] c.op \in {"addmm", "kuiperjit.addmm"} -> Plain(Y.dtype, <<Y.shape[1], Z.shape[2]>>)
    [] c.op \in SdpaOps \cup AttentionOps -> FakeAttention(c)
    [] c.op = "getitem" -> X.items[1]
    [] c.op = "double" -> Retyped(X, "f64")
    [] c.op \in Compare -> Retyped(X, "bool")
    [] OTHER -> X

-----------------------------------------------------------------------------
(* Inductor hands the pass any graph of some kind; a template of an op node has *)
(* its op, its number of tensors, the other args and kw                         *)

ASSUME PostGradAssumption ==
  /\ MaxNodes \in Nat \ {0}
  /\ \A of \in Kinds : of.nodes \in Nat /\ of.nodes <= MaxNodes /\ IsTensor(of.input)
\* What aten takes as the dim of a reduction.
Dims == LET axes == [kind : {"index"}, val : Int] IN {Absent} \cup axes \cup [kind : {"list"}, items : Seq(axes)]
\* The signatures of the ops in aten: a few arguments are keyword-only.  Inference drops nothing out,
\* and calls attention by its aten name.
ASSUME TemplateAssumption ==
  \A of \in Kinds : \A t \in of.templates :
    /\ t.tensors \in Nat \ {0} /\ t.args \in Seq(Range(t.args))
    /\ \A i \in DOMAIN t.args : NodesOf(t.args[i]) = {}
    /\ \A k \in DOMAIN t.kw : NodesOf(t.kw[k]) = {}
    /\ t.op \notin {"placeholder", "output"} \cup AttentionOps
    /\ t.op \in ReduceOps => /\ t.tensors = 1 /\ DOMAIN t.kw \ DOMAIN NoKw \subseteq {"dtype"}
                             /\ t.args # <<>> => t.args[1] \in Dims
    /\ t.op = "getitem" => t.tensors = 1
    /\ t.op = "addmm" => t.tensors = 3
    /\ t.op \in SdpaOps => /\ t.tensors \in {3, 4} /\ t.tensors + Len(t.args) >= 4
                           /\ DOMAIN t.kw \ DOMAIN NoKw \subseteq {"scale"}
                           /\ \A i \in DOMAIN t.args : t.tensors + i = 6 => t.args[i].val = 0

Init ==
  /\ kind \in Kinds
  /\ graph = <<[op |-> "placeholder", args |-> <<>>, kw |-> NoKw, val |-> kind.input]>>
  /\ phase = "build"
  /\ todo = {}
  /\ replace = TRUE
  /\ promised = <<>>
  /\ tracer = [inputs |-> <<>>, keys |-> <<>>, edges |-> {}]

\* Ops aten has no result for are not built; what it returns is a tensor or a list of tensors.
Makes(node) ==
  LET ins == Fakes(node)  X == ins[1]
      tensors == \A i \in DOMAIN ins : node.args[i].kind = "node" => IsTensor(ins[i])
  IN
  CASE node.op = "getitem" -> X.kind = "list" /\ IsTensor(X.items[1])
    [] node.op = "mm" -> tensors /\ Matrices(X, ins[2], 2)
    [] node.op = "bmm" -> tensors /\ Matrices(X, ins[2], 3)
    [] node.op = "addmm" ->
         tensors /\ Matrices(ins[2], ins[3], 2) /\ X.shape = <<ins[2].shape[1], ins[3].shape[2]>> /\ X.dtype = ins[2].dtype
    [] node.op \in SdpaOps -> tensors /\ X.shape \in [1..4 -> Nat]
    [] node.op \in Binary /\ node.args[2].kind = "node" -> tensors /\ SameTensor(X, ins[2])
    [] node.op \in ReduceOps ->
         tensors /\ ReducedDims(CallOf(node), Len(X.shape)) \in (SUBSET (1..Len(X.shape))) \ {{}}
    [] OTHER -> tensors

Added(n, call, val) ==
  [m \in DOMAIN graph \cup {n} |-> IF m = n THEN [op |-> call.op, args |-> call.args, kw |-> call.kw, val |-> val]
                                            ELSE graph[m]]

\* An op reads one of the last two nodes; its other tensors are the last node or
\* the placeholder.
Trace ==
  /\ phase = "build" /\ Cardinality(DOMAIN graph) < kind.nodes - 1
  /\ \E t \in kind.templates : \E ins \in [1..t.tensors -> DOMAIN graph] :
       LET node == [op |-> t.op, args |-> [i \in 1..t.tensors |-> Ref(ins[i])] \o t.args, kw |-> t.kw]
           n == Cardinality(DOMAIN graph) + 1
       IN  /\ ins[1] \in {n - 2, n - 1} /\ \A i \in 2..t.tensors : ins[i] \in {1, n - 1}
           /\ Makes(node)
           /\ graph' = Added(n, node, Fake(CallOf(node)))
  /\ UNCHANGED <<kind, phase, todo, replace, promised, tracer>>

\* enable(replace) has installed the pass, and Inductor calls it.  Dead code is gone: the outputs are the unused nodes, and perhaps one more.
Call ==
  /\ phase = "build" /\ Cardinality(DOMAIN graph) > 1
  /\ \E more \in SUBSET DOMAIN graph :
       LET unused == {n \in DOMAIN graph : Users(n) = {}}
           outs == SetToSeq(unused \cup more)
           n == Cardinality(DOMAIN graph) + 1
       IN  /\ Cardinality(more) <= 1 /\ more \cap unused = {} /\ 1 \notin unused \cup more
           /\ graph' = Added(n, [op |-> "output", args |-> <<List([i \in DOMAIN outs |-> Ref(outs[i])])>>, kw |-> NoKw],
                             Absent)
           /\ promised' = [i \in DOMAIN outs |-> Value(outs[i])]
  /\ replace' \in BOOLEAN
  /\ phase' = IF replace' THEN "fuse" ELSE "begin"
  /\ todo' = DOMAIN graph'
  /\ UNCHANGED <<kind, tracer>>

-----------------------------------------------------------------------------
(* Map fusion *)

\* _map_of: the map list entry of a node, or None.
MapOf(n) ==
  LET node == graph[n]
      src == Fakes(node)[1]
  IN
  IF /\ node.op \in Arithmetic /\ node.kw = NoKw
     /\ node.args[1].kind = "node" /\ Len(node.args) <= 2
     /\ Len(node.args) = 2 => node.args[2].kind \in {"int", "float"}
     /\ IsTensor(src) /\ IsTensor(node.val) /\ src.dtype = node.val.dtype /\ src.shape = node.val.shape
  THEN [kind |-> "map", op |-> node.op, c |-> IF Len(node.args) = 1 THEN Absent ELSE node.args[2]]
  ELSE None

\* From a node on, as long as there is a next one.
Path(next, from) ==
  LET path[n \in DOMAIN graph] == IF n \in DOMAIN next THEN <<n>> \o path[next[n]] ELSE <<n>>
  IN  path[from]

Back(maps) == [n \in maps |-> graph[n].args[1].id]
\* Mutant: a map with another user is absorbed all the same.
CollectPreShared(src) == Reverse(Path(Back({n \in DOMAIN graph : MapOf(n) # None}), src))
\* The root of the chain of single-use maps into src, then the chain in application order.
CollectPre(src) == Reverse(Path(Back({n \in DOMAIN graph : Cardinality(Users(n)) = 1 /\ MapOf(n) # None}), src))

\* A node that has one use, in a map.
Continues(n) == \E m \in Users(n) : Users(n) = {m} /\ MapOf(m) # None /\ graph[m].args[1].id = n
Forth == [n \in {n \in DOMAIN graph : Continues(n)} |-> CHOOSE m \in Users(n) : TRUE]
\* A node, then the chain of maps out of it.
CollectPost(node) == Path(Forth, node)

Maps(chain) == List([i \in DOMAIN chain |-> MapOf(chain[i])])

\* _reduce_dim: the one reduced axis, None otherwise.
ReduceDim(node, rank) ==
  LET dim == Argument(node, 2, "dim", Absent) IN
  CASE dim = Absent -> IF rank = 1 THEN 0 ELSE None
    [] dim.kind = "list" -> IF Len(dim.items) = 1 THEN NormDim(dim.items[1].val, rank) ELSE None
    [] OTHER -> NormDim(dim.val, rank)

\* Mutant: the maps before the reduction come last first.
FusedReversed(node, root, pre, post) ==
  [op |-> "kuiperjit.hreduce_poly",
   args |-> <<Ref(root), Word(node.op), Index(ReduceDim(node, Len(graph[root].val.shape))),
              Argument(node, 3, "keepdim", Flag(FALSE)), Keyword(node, "dtype", Absent), List(Reverse(pre.items)), post>>]
\* The custom op a reduction becomes with maps around it.
Fused(node, root, pre, post) ==
  [op |-> "kuiperjit.hreduce_poly",
   args |-> <<Ref(root), Word(node.op), Index(ReduceDim(node, Len(graph[root].val.shape))),
              Argument(node, 3, "keepdim", Flag(FALSE)), Keyword(node, "dtype", Absent), pre, post>>]

\* What fusion rewrites at node n: at most one rewrite.
Fusions(n) ==
  IF n \notin DOMAIN graph \/ graph[n].op \notin ReduceOps THEN {}   \* perhaps consumed by an earlier anchor
  ELSE LET back == CollectPre(graph[n].args[1].id)
           forth == CollectPost(n)
       IN  {f \in {[node |-> Fused(graph[n], Head(back), Maps(Tail(back)), Maps(Tail(forth))),
                     tail |-> Last(forth), dead |-> Range(Tail(back)) \cup Range(forth)]} :
              /\ Len(back) > 1 \/ Len(forth) > 1
              /\ ReduceDim(graph[n], Len(graph[Head(back)].val.shape)) # None
              /\ Specs(Unpacked(Fakes(f.node))) # {}}

\* Mutant: the walk ends at the first rewrite.
FuseOnce ==
  /\ phase = "fuse"
  /\ \E n \in todo :
       /\ IsNext(n)
       /\ \/ Fusions(n) = {} /\ todo' = todo \ {n} /\ UNCHANGED <<graph, phase>>
          \/ todo' = {} /\ \E f \in Fusions(n) : Rewrite(n, f.tail, f.node, f.dead)
  /\ UNCHANGED <<replace, promised, tracer>>
Fuse ==
  /\ phase = "fuse"
  /\ \E n \in todo :
       /\ IsNext(n)
       /\ todo' = todo \ {n}
       /\ \/ Fusions(n) = {} /\ UNCHANGED <<graph, phase>>
          \/ \E f \in Fusions(n) : Rewrite(n, f.tail, f.node, f.dead)
  /\ UNCHANGED <<replace, promised, tracer>>

EndFusion ==
  /\ phase = "fuse" /\ todo = {}
  /\ phase' = "begin"
  /\ UNCHANGED <<graph, todo, replace, promised, tracer>>

-----------------------------------------------------------------------------
(* Replacement and tracing *)

BeginGraph ==
  /\ phase = "begin"
  /\ tracer' = [tracer EXCEPT !.inputs = [n \in DOMAIN graph |-> InputNodes(graph[n])]]
  /\ phase' = "replace"
  /\ todo' = DOMAIN graph
  /\ UNCHANGED <<graph, replace, promised>>

Supported(op, args, kw) == Specs([op |-> op, args |-> args, kw |-> kw]) # {}

\* The custom op that can serve a node, if any.
Claims(n) ==
  LET node == graph[n]
      ins == Fakes(node)
      beta == Num("float", Keyword(node, "beta", Num("int", Unit)).val)
      alpha == Num("float", Keyword(node, "alpha", Num("int", Unit)).val)
      given(i) == IF i \in DOMAIN node.args THEN node.args[i] ELSE Flag(FALSE)
      scale == Keyword(node, "scale", Absent)
      when(cond, op, args) == {claim \in {[op |-> op, args |-> args]} : cond}
  IN
  CASE node.op \in {"mm", "bmm"} -> when(Supported(node.op, ins, NoKw),
                                    IF node.op = "mm" THEN "kuiperjit.mm" ELSE "kuiperjit.bmm", node.args)
    [] node.op = "addmm" ->
         when(Supported("addmm", <<ins[1], ins[2], ins[3]>>, [beta |-> beta, alpha |-> alpha]),
              "kuiperjit.addmm", <<node.args[1], node.args[2], node.args[3], beta, alpha>>)
    [] node.op \in SdpaOps ->
         when(Supported(node.op, <<ins[1], ins[2], ins[3], ins[4], given(5), Num("float", 0), given(7), Flag(FALSE)>>,
                        [scale |-> scale]),
              IF node.op = "efficient" THEN "kuiperjit.sdpa" ELSE "kuiperjit.sdpa_cudnn",
              <<node.args[1], node.args[2], node.args[3], node.args[4],
                IF scale = Absent THEN Word(<<"1/sqrt", ins[1].shape[4]>>) ELSE scale, given(7)>>)
    [] OTHER -> {}

\* The key of a recorded node: its op and the types around it.
Key(n) ==
  LET type(x) == CASE x.kind = "tensor" -> <<Len(x.shape), x.dtype>> [] x.kind \in {"flag", "index"} -> <<x.val>>
                   [] OTHER -> <<x.kind>>
      ins == Fakes(graph[n])
  IN  <<graph[n].op, [i \in DOMAIN ins |-> type(ins[i])], {<<k, type(graph[n].kw[k])>> : k \in DOMAIN graph[n].kw},
        type(graph[n].val)>>
\* getitem is a Python function: it has no name.
Recorded(n) == graph[n].op \notin {"placeholder", "output", "getitem"}
\* record_node
Record(n) ==
  LET keys == tracer.keys
      more == [m \in DOMAIN keys \cup {n} |-> IF m = n THEN Key(n) ELSE keys[m]]
  IN  tracer' = IF Recorded(n) THEN [tracer EXCEPT !.keys = more] ELSE tracer

\* Record the node, then replace it if it is claimed.
Replace ==
  /\ phase = "replace"
  /\ \E n \in todo :
       /\ IsNext(n)
       /\ todo' = todo \ {n}
       /\ Record(n)
       /\ \/ (~replace \/ Claims(n) = {}) /\ UNCHANGED <<graph, phase>>
          \/ replace /\ \E claimed \in Claims(n) : Rewrite(n, n, claimed, {n})
  /\ UNCHANGED <<replace, promised>>

\* upstream: the nearest recorded nodes that feed a node.
Edges(keys, inputs) ==
  LET upstream[n \in DOMAIN inputs] ==
        IF n \in DOMAIN keys THEN {keys[n]} ELSE UNION {upstream[m] : m \in inputs[n]}
  IN  UNION {{<<source, keys[n], n>> : source \in UNION {upstream[m] : m \in inputs[n]}} :
             n \in DOMAIN keys \cap DOMAIN inputs}

\* Mutant: the dependencies are read after the replacement.
FinishGraphLate ==
  /\ phase = "replace" /\ todo = {}
  /\ tracer' = [tracer EXCEPT !.edges = Edges(tracer.keys, [n \in DOMAIN graph |-> InputNodes(graph[n])])]
  /\ phase' = "done"
  /\ UNCHANGED <<graph, todo, replace, promised>>
FinishGraph ==
  /\ phase = "replace" /\ todo = {}
  /\ tracer' = [tracer EXCEPT !.edges = Edges(tracer.keys, tracer.inputs)]
  /\ phase' = "done"
  /\ UNCHANGED <<graph, todo, replace, promised>>

Pass == (Fuse \/ EndFusion \/ BeginGraph \/ Replace \/ FinishGraph) /\ UNCHANGED kind
Next == Trace \/ Call \/ Pass
Spec == Init /\ [][Next]_vars

-----------------------------------------------------------------------------
\* What graph.lint and erase_node demand: every node is defined before it is
\* read, no two stand at one place, and nothing erased is still used.
WellFormed ==
  /\ phase # "raised"
  /\ \A m, n \in DOMAIN graph : Place(m) = Place(n) => m = n
  /\ \A n \in DOMAIN graph : \A m \in InputNodes(graph[n]) : m \in DOMAIN graph /\ Place(m) < Place(n)

\* The rewritten graph returns what the graph Inductor handed over returns, for
\* every chain of maps, every order of anchors and every other use of a node.
ValuesKept == phase \notin {"build", "raised"} => Value(Output) = promised

\* meta.update leaves a rewritten node the fake value of the one it replaces.  It is
\* the one that the new op's fake implementation returns, except for attention,
\* where it never is: there the number of results and the type and the shape of the
\* first, the one inference reads, agree, but not the seeds.
Agrees(op, val, fake) ==
  IF op \in AttentionOps THEN /\ val # fake /\ Len(val.items) = Len(fake.items)
                              /\ val.items[1].dtype = fake.items[1].dtype
                              /\ val.items[1].shape = fake.items[1].shape
                         ELSE val = fake
MetaKept ==
  phase \notin {"build", "raised"} =>
    \A n \in DOMAIN graph :
      graph[n].op \notin {"placeholder", "output"} => Agrees(graph[n].op, graph[n].val, Fake(CallOf(graph[n])))

\* One walk over the snapshot is enough: a second would change nothing.
OneWalkSuffices == phase = "begin" /\ replace => \A n \in DOMAIN graph : Fusions(n) = {}

\* The trace has the dependencies between kernels of the graph that results,
\* though nodes were replaced while it was taken.
TraceMatchesResult ==
  phase = "done" =>
    LET was(n) == IF n \in DOMAIN tracer.inputs THEN n ELSE n - MaxNodes
        named == {n \in DOMAIN graph : Recorded(n)}
        feeds(t) == InputNodes(graph[t]) \cup
                    UNION {InputNodes(graph[m]) : m \in {m \in InputNodes(graph[t]) : graph[m].op = "getitem"}}
    IN  /\ DOMAIN tracer.keys = {was(n) : n \in named}
        /\ tracer.edges = UNION {{<<tracer.keys[was(s)], tracer.keys[was(t)], was(t)>> :
                                  s \in feeds(t) \cap named} : t \in named}
=============================================================================
