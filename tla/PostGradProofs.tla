--------------------------- MODULE PostGradProofs --------------------------
(***************************************************************************)
(* For graphs of any kind and size, the pass keeps a graph well formed,    *)
(* the fake value of each node that of its op, and what the outputs are;   *)
(* the trace has the kernels and dependencies of the graph that results;   *)
(* and one walk of the fusion leaves nothing for a second.                 *)
(***************************************************************************)
EXTENDS PostGrad, FiniteSetTheorems, NaturalsInduction, SequenceTheorems, WellFoundedInduction, TLAPS

\* A set of natural numbers has a least element.
LEMMA LeastNumber ==
  ASSUME NEW T, T \subseteq Nat, T # {}
  PROVE  \E x \in T : \A y \in T : x <= y
  <1>1. PICK x \in T : \A y \in T : ~(<<y, x>> \in OpToRel(<, Nat))
    BY WFMin, NatLessThanWellFounded, Zenon
  <1>2. \A y \in T : ~(y < x)
    BY <1>1, Zenon DEF OpToRel
  <1> QED BY <1>2

-----------------------------------------------------------------------------
(* Paths *)

\* The equation Path solves, over a set of nodes.
IsPaths(path, next, nodes) ==
  path = [n \in nodes |-> IF n \in DOMAIN next THEN <<n>> \o path[next[n]] ELSE <<n>>]

\* Every next node is nearer to an end.
Descends(next, rank, nodes) ==
  /\ DOMAIN next \subseteq nodes
  /\ \A n \in nodes : rank[n] \in Nat
  /\ \A n \in DOMAIN next : next[n] \in nodes /\ rank[next[n]] < rank[n]

\* Such an equation has a solution.
LEMMA PathsExist ==
  ASSUME NEW next, NEW rank, NEW nodes, Descends(next, rank, nodes), NEW K \in Nat, \A n \in nodes : rank[n] < K
  PROVE  \E path : IsPaths(path, next, nodes)
  <1> DEFINE Below(k) == {n \in nodes : rank[n] < k}
             Solved == {k \in Nat : \E path : IsPaths(path, next, Below(k))}
             Unsolved == Nat \ Solved
  <1>1. ASSUME Unsolved # {} PROVE FALSE
    <2>1. PICK k \in Unsolved : \A j \in Unsolved : k <= j
      <3> Unsolved \subseteq Nat OBVIOUS
      <3> QED BY <1>1, LeastNumber
    <2>2. CASE k = 0
      <3>1. Below(0) = {} BY DEF Descends
      <3>2. IsPaths([n \in {} |-> n], next, Below(0)) BY <3>1 DEF IsPaths
      <3> QED BY <2>1, <2>2, <3>2
    <2>3. CASE k # 0
      <3>1. k \in Nat /\ k - 1 \in Nat /\ k - 1 \in Solved BY <2>1, <2>3
      <3>2. PICK f : IsPaths(f, next, Below(k - 1)) BY <3>1
      <3> DEFINE g == [n \in Below(k) |-> IF n \in DOMAIN next THEN <<n>> \o f[next[n]] ELSE <<n>>]
      <3>3. ASSUME NEW n \in Below(k), n \in DOMAIN next PROVE g[next[n]] = f[next[n]]
        <4>1. next[n] \in Below(k - 1) /\ next[n] \in Below(k)
          BY <3>1, <3>3 DEF Descends
        <4> QED BY <3>2, <4>1 DEF IsPaths
      <3>4. g = [n \in Below(k) |-> IF n \in DOMAIN next THEN <<n>> \o g[next[n]] ELSE <<n>>]
        BY <3>3
      <3> HIDE DEF g
      <3>5. IsPaths(g, next, Below(k)) BY <3>4 DEF IsPaths
      <3> QED BY <2>1, <3>5
    <2> QED BY <2>2, <2>3
  <1>2. Below(K) = nodes
    OBVIOUS
  <1>3. \E path : IsPaths(path, next, Below(K))
    BY <1>1
  <1> QED BY <1>2, <1>3

\* A walk along next from a node to an end.
IsWalk(p, next, rank, nodes, from) ==
  /\ p \in Seq(nodes) /\ Len(p) > 0 /\ p[1] = from
  /\ \A i \in 1..(Len(p) - 1) : p[i] \in DOMAIN next /\ p[i + 1] = next[p[i]]
  /\ p[Len(p)] \notin DOMAIN next
  /\ \A i \in 1..Len(p) : rank[p[i]] <= rank[from]

LEMMA PathsWalk ==
  ASSUME NEW next, NEW rank, NEW nodes, Descends(next, rank, nodes), NEW path, IsPaths(path, next, nodes)
  PROVE  \A n \in nodes : IsWalk(path[n], next, rank, nodes, n)
  <1> DEFINE Bad == {n \in nodes : ~IsWalk(path[n], next, rank, nodes, n)}
             Ranks == {rank[n] : n \in Bad}
  <1> SUFFICES ASSUME Bad # {} PROVE FALSE
    BY Zenon
  <1>1. PICK r \in Ranks : \A s \in Ranks : r <= s
    <2> Ranks \subseteq Nat /\ Ranks # {} BY DEF Descends
    <2> QED BY LeastNumber
  <1>2. PICK n \in Bad : r = rank[n]
    OBVIOUS
  <1>3. n \in nodes /\ rank[n] \in Nat
    BY DEF Descends
  <1>4. CASE n \notin DOMAIN next
    <2>1. path[n] = <<n>> BY <1>3, <1>4 DEF IsPaths
    <2>2. IsWalk(<<n>>, next, rank, nodes, n) BY <1>3, <1>4 DEF IsWalk
    <2> QED BY <2>1, <2>2
  <1>5. CASE n \in DOMAIN next
    <2> DEFINE m == next[n]
               q == path[m]
               p == <<n>> \o q
    <2>1. m \in nodes /\ rank[m] \in Nat /\ rank[m] < rank[n] /\ path[n] = p
      BY <1>3, <1>5 DEF Descends, IsPaths
    <2>2. m \notin Bad
      <3>1. ASSUME m \in Bad PROVE r <= rank[m]
        BY <1>1, <3>1
      <3> HIDE DEF m
      <3> QED BY <1>2, <1>3, <2>1, <3>1
    <2>3. IsWalk(q, next, rank, nodes, m)
      BY <2>1, <2>2
    <2> HIDE DEF m
    <2>q. m = next[n] BY DEF m
    <2> HIDE DEF q
    <2>4. q \in Seq(nodes) /\ Len(q) \in Nat /\ Len(q) > 0 /\ <<n>> \in Seq(nodes) /\ Len(<<n>>) = 1 /\ <<n>>[1] = n
      BY <1>3, <2>3 DEF IsWalk
    <2>5. p \in Seq(nodes) /\ Len(p) = 1 + Len(q) /\ \A i \in 1..(1 + Len(q)) : p[i] = IF i <= 1 THEN n ELSE q[i - 1]
      <3>1. /\ p \in Seq(nodes) /\ Len(p) = Len(<<n>>) + Len(q)
            /\ \A i \in 1..(Len(<<n>>) + Len(q)) : p[i] = IF i <= Len(<<n>>) THEN <<n>>[i] ELSE q[i - Len(<<n>>)]
        BY <2>4, ConcatProperties, Zenon
      <3> HIDE DEF p
      <3> QED BY <2>4, <3>1
    <2> HIDE DEF p
    <2>6. p[1] = n /\ \A i \in 1..Len(q) : p[i + 1] = q[i]
      BY <2>4, <2>5
    <2>7. ASSUME NEW i \in 1..(Len(p) - 1) PROVE p[i] \in DOMAIN next /\ p[i + 1] = next[p[i]]
      <3>1. CASE i = 1
        BY <1>5, <2>3, <2>4, <2>5, <2>6, <3>1, <2>q DEF IsWalk
      <3>2. CASE i # 1
        <4>1. i - 1 \in 1..(Len(q) - 1) /\ p[i] = q[i - 1] /\ p[i + 1] = q[(i - 1) + 1]
          BY <2>4, <2>5, <3>2
        <4> QED BY <2>3, <4>1 DEF IsWalk
      <3> QED BY <3>1, <3>2
    <2>8. p[Len(p)] = q[Len(q)]
      BY <2>4, <2>5, <2>6
    <2>9. ASSUME NEW i \in 1..Len(p) PROVE rank[p[i]] <= rank[n]
      <3>1. CASE i = 1
        BY <1>3, <2>6, <3>1
      <3>2. CASE i # 1
        <4>1. i - 1 \in 1..Len(q) /\ p[i] = q[i - 1]
          BY <2>4, <2>5, <3>2
        <4>2. q[i - 1] \in nodes
          BY <2>4, <4>1
        <4>3. rank[q[i - 1]] <= rank[m] /\ rank[q[i - 1]] \in Nat
          BY <2>3, <4>1, <4>2 DEF IsWalk, Descends
        <4> QED BY <1>3, <2>1, <4>1, <4>3
      <3> QED BY <3>1, <3>2
    <2>10. IsWalk(p, next, rank, nodes, n)
      BY <2>3, <2>4, <2>5, <2>6, <2>7, <2>8, <2>9 DEF IsWalk
    <2> QED BY <2>1, <2>10
  <1> QED BY <1>4, <1>5

LEMMA PathWalks ==
  ASSUME NEW next, NEW rank, Descends(next, rank, DOMAIN graph), NEW K \in Nat,
         \A n \in DOMAIN graph : rank[n] < K, NEW from \in DOMAIN graph
  PROVE  IsWalk(Path(next, from), next, rank, DOMAIN graph, from)
  <1> DEFINE path == CHOOSE path : IsPaths(path, next, DOMAIN graph)
  <1>1. IsPaths(path, next, DOMAIN graph) BY PathsExist
  <1>2. Path(next, from) = path[from] BY DEF Path, IsPaths
  <1> QED BY <1>1, <1>2, PathsWalk

-----------------------------------------------------------------------------
(* Nodes *)

KuiperOps == {"kuiperjit.hreduce_poly", "kuiperjit.mm", "kuiperjit.bmm", "kuiperjit.addmm",
              "kuiperjit.sdpa", "kuiperjit.sdpa_cudnn"}
\* The ops a rewrite takes apart.
Rewritten == ReduceOps \cup {"mm", "bmm", "addmm"} \cup SdpaOps

IsSeq(s) == s \in Seq(Range(s))

\* What the code takes for granted of a node with such an op.
Signature(node) ==
  /\ node.op \in Arithmetic \cup ReduceOps => 1 \in DOMAIN node.args
  /\ node.op \in Arithmetic => IsSeq(node.args)
  /\ node.op \in ReduceOps => /\ node.args[1].kind = "node"
                              /\ \A i \in DOMAIN node.args : i # 1 => NodesOf(node.args[i]) = {}
                              /\ \A k \in DOMAIN node.kw : NodesOf(node.kw[k]) = {}
                              /\ DOMAIN node.kw \subseteq {"given", "dtype"}
                              /\ 2 \in DOMAIN node.args => node.args[2] \in Dims
  /\ node.op = "addmm" => /\ 1..3 \subseteq DOMAIN node.args
                          /\ \A i \in DOMAIN node.args : i \notin 1..3 => NodesOf(node.args[i]) = {}
  /\ node.op \in SdpaOps => /\ 1..4 \subseteq DOMAIN node.args
                            /\ \A k \in DOMAIN node.kw : NodesOf(node.kw[k]) = {}
                            /\ DOMAIN node.kw \subseteq {"given", "scale"}
                            /\ \A i \in DOMAIN node.args : i \notin 1..4 => NodesOf(node.args[i]) = {}
                            /\ 6 \in DOMAIN node.args => node.args[6].val = 0
\* Only the outputs of a graph are a list of nodes.
FlatList(a) == a.kind = "list" => NodesOf(a) = {}
Flat(node) == node.op # "output" => \A i \in DOMAIN node.args : FlatList(node.args[i])
IsNode(node) ==
  node = [op |-> node.op, args |-> node.args, kw |-> node.kw, val |-> node.val]

LEMMA KuiperOpsNew == KuiperOps \cap (Rewritten \cup Arithmetic) = {}
  BY DEF KuiperOps, Rewritten, ReduceOps, SdpaOps, Arithmetic, Unary, Binary

LEMMA SeqIsSeq ==
  ASSUME NEW S, NEW s \in Seq(S)
  PROVE  IsSeq(s)
  BY SeqOfRange DEF IsSeq

LEMMA InputNodesArg ==
  ASSUME NEW node, NEW i \in DOMAIN node.args, NEW x \in NodesOf(node.args[i])
  PROVE  x \in InputNodes(node)
  BY DEF InputNodes, Range

LEMMA InputNodesIn ==
  ASSUME NEW node, NEW x \in InputNodes(node)
  PROVE  \E i \in DOMAIN node.args : x \in NodesOf(node.args[i])
  BY DEF InputNodes, Range

LEMMA NodesOfNode == \A a : a.kind = "node" => NodesOf(a) = {a.id}
  BY DEF NodesOf

LEMMA NodesOfList ==
  ASSUME NEW items
  PROVE  NodesOf(List(items)) = {b.id : b \in {b \in Range(items) : b.kind = "node"}}
  BY DEF NodesOf, List

LEMMA NodesOfOther == \A a : a.kind \notin {"node", "list"} => NodesOf(a) = {}
  BY DEF NodesOf

\* Renaming trades one node an argument reads for another.
LEMMA SwappedNodes ==
  ASSUME NEW a, NEW from, NEW to, NEW x \in NodesOf(Swapped(a, from, to))
  PROVE  (x \in NodesOf(a) /\ x # from) \/ (x = to /\ from \in NodesOf(a))
  <1>1. CASE from \notin NodesOf(a)
    BY <1>1 DEF Swapped
  <1>2. CASE from \in NodesOf(a) /\ a.kind # "list"
    BY <1>2, NodesOfNode DEF Swapped, Ref
  <1>3. CASE from \in NodesOf(a) /\ a.kind = "list"
    <2> DEFINE item(j) == IF a.items[j].kind = "node" /\ a.items[j].id = from THEN Ref(to) ELSE a.items[j]
               items == [j \in DOMAIN a.items |-> item(j)]
    <2>1. Swapped(a, from, to) = List(items)
      BY <1>3 DEF Swapped
    <2>2. PICK b \in Range(items) : b.kind = "node" /\ x = b.id
      BY <2>1, NodesOfList
    <2>3. PICK j \in DOMAIN a.items : b = item(j)
      BY <2>2 DEF Range
    <2>4. a.items[j] \in Range(a.items)
      BY DEF Range
    <2>5. NodesOf(a) = {c.id : c \in {c \in Range(a.items) : c.kind = "node"}}
      BY <1>3 DEF NodesOf
    <2> QED BY <1>3, <2>2, <2>3, <2>4, <2>5 DEF Ref
  <1> QED BY <1>1, <1>2, <1>3

LEMMA RenamedFields ==
  ASSUME NEW node, IsNode(node), NEW from, NEW to
  PROVE  /\ IsNode(Renamed(node, from, to))
         /\ Renamed(node, from, to).op = node.op
         /\ Renamed(node, from, to).kw = node.kw
         /\ Renamed(node, from, to).val = node.val
         /\ Renamed(node, from, to).args = [i \in DOMAIN node.args |-> Swapped(node.args[i], from, to)]
  <1> DEFINE args == [i \in DOMAIN node.args |-> Swapped(node.args[i], from, to)]
             new == Renamed(node, from, to)
  <1>1. new = [node EXCEPT !.args = args]
    BY DEF Renamed
  <1> HIDE DEF args
  <1>2. new = [op |-> node.op, args |-> args, kw |-> node.kw, val |-> node.val]
    BY <1>1 DEF IsNode
  <1> HIDE DEF new
  <1>3. new.op = node.op /\ new.kw = node.kw /\ new.val = node.val /\ new.args = args
    BY <1>2
  <1>4. IsNode(new)
    BY <1>2, <1>3 DEF IsNode
  <1> QED BY <1>3, <1>4 DEF args, new

LEMMA RenamedOp ==
  ASSUME NEW node, IsNode(node), NEW from, NEW to
  PROVE  Renamed(node, from, to).op = node.op
  BY DEF IsNode, Renamed

LEMMA RenamedVal ==
  ASSUME NEW node, IsNode(node), NEW from, NEW to
  PROVE  Renamed(node, from, to).val = node.val
  BY DEF IsNode, Renamed

LEMMA RenamedInputs ==
  ASSUME NEW node, IsNode(node), NEW from, NEW to, NEW x \in InputNodes(Renamed(node, from, to))
  PROVE  (x \in InputNodes(node) /\ x # from) \/ (x = to /\ from \in InputNodes(node))
  <1> DEFINE new == Renamed(node, from, to)
  <1>1. new.args = [i \in DOMAIN node.args |-> Swapped(node.args[i], from, to)]
    BY RenamedFields
  <1>2. PICK i \in DOMAIN new.args : x \in NodesOf(new.args[i])
    BY InputNodesIn
  <1> HIDE DEF new
  <1>3. i \in DOMAIN node.args /\ x \in NodesOf(Swapped(node.args[i], from, to))
    BY <1>1, <1>2
  <1>4. (x \in NodesOf(node.args[i]) /\ x # from) \/ (x = to /\ from \in NodesOf(node.args[i]))
    BY <1>3, SwappedNodes
  <1> QED BY <1>3, <1>4, InputNodesArg

LEMMA RenamedSignature ==
  ASSUME NEW node, IsNode(node), Signature(node), NEW from, NEW to
  PROVE  Signature(Renamed(node, from, to))
  <1> DEFINE new == Renamed(node, from, to)
  <1>1. /\ new.op = node.op /\ new.kw = node.kw
        /\ new.args = [i \in DOMAIN node.args |-> Swapped(node.args[i], from, to)]
    BY RenamedFields
  <1> HIDE DEF new
  <1>2. DOMAIN new.args = DOMAIN node.args
    BY <1>1
  <1>3. ASSUME NEW i \in DOMAIN node.args, NodesOf(node.args[i]) = {} PROVE new.args[i] = node.args[i]
    BY <1>1, <1>3 DEF Swapped
  <1>4. ASSUME 1 \in DOMAIN node.args, node.args[1].kind = "node" PROVE new.args[1].kind = "node"
    <2>1. new.args[1] = Swapped(node.args[1], from, to)
      BY <1>1, <1>4
    <2> QED BY <1>4, <2>1 DEF Swapped, Ref
  <1>s. ASSUME IsSeq(node.args) PROVE IsSeq(new.args)
    <2> DEFINE swapped == [i \in DOMAIN node.args |-> Swapped(node.args[i], from, to)]
               S == {Swapped(node.args[i], from, to) : i \in DOMAIN node.args}
    <2>1. Len(node.args) \in Nat /\ DOMAIN node.args = 1..Len(node.args)
      BY <1>s, LenProperties DEF IsSeq
    <2>2. swapped \in [1..Len(node.args) -> S] /\ new.args = swapped
      BY <1>1, <2>1
    <2> HIDE DEF swapped, S
    <2>3. swapped \in Seq(S)
      BY <2>1, <2>2, SeqDef
    <2>4. IsSeq(swapped)
      BY <2>3, SeqIsSeq, Zenon
    <2> QED BY <2>2, <2>4
  <1>5. Signature(new)
    <2>1. CASE node.op \in Arithmetic \cup ReduceOps
      <3>1. node.op # "addmm" /\ node.op \notin SdpaOps
        BY <2>1 DEF Arithmetic, Unary, Binary, ReduceOps, SdpaOps
      <3>2. 1 \in DOMAIN new.args /\ (node.op \in Arithmetic => IsSeq(new.args))
        BY <1>2, <1>s, <2>1 DEF Signature
      <3>3. ASSUME node.op \in ReduceOps
            PROVE  /\ new.args[1].kind = "node"
                   /\ \A i \in DOMAIN new.args : i # 1 => NodesOf(new.args[i]) = {}
                   /\ \A k \in DOMAIN new.kw : NodesOf(new.kw[k]) = {}
                   /\ DOMAIN new.kw \subseteq {"given", "dtype"}
                   /\ 2 \in DOMAIN new.args => new.args[2] \in Dims
        <4>1. \A i \in DOMAIN node.args : i # 1 => new.args[i] = node.args[i]
          BY <1>3, <3>3 DEF Signature
        <4> QED BY <1>1, <1>2, <1>4, <3>3, <4>1 DEF Signature
      <3> QED BY <1>1, <3>1, <3>2, <3>3 DEF Signature
    <2>2. CASE node.op = "addmm"
      <3>1. node.op \notin Arithmetic \cup ReduceOps \cup SdpaOps
        BY <2>2 DEF Arithmetic, Unary, Binary, ReduceOps, SdpaOps
      <3>2. 1..3 \subseteq DOMAIN new.args /\ \A i \in DOMAIN new.args : i \notin 1..3 => NodesOf(new.args[i]) = {}
        BY <1>2, <1>3, <2>2 DEF Signature
      <3> QED BY <1>1, <3>1, <3>2 DEF Signature
    <2>3. CASE node.op \in SdpaOps
      <3>1. node.op \notin Arithmetic \cup ReduceOps \cup {"addmm"}
        BY <2>3 DEF Arithmetic, Unary, Binary, ReduceOps, SdpaOps
      <3>2. /\ 1..4 \subseteq DOMAIN new.args
            /\ \A i \in DOMAIN new.args : i \notin 1..4 => NodesOf(new.args[i]) = {} /\ new.args[i] = node.args[i]
        BY <1>2, <1>3, <2>3 DEF Signature
      <3>3. 6 \in DOMAIN new.args => new.args[6].val = 0
        BY <1>2, <2>3, <3>2 DEF Signature
      <3> QED BY <1>1, <2>3, <3>1, <3>2, <3>3 DEF Signature
    <2>4. CASE node.op \notin Arithmetic \cup ReduceOps \cup SdpaOps \cup {"addmm"}
      BY <1>1, <2>4 DEF Signature
    <2> QED BY <2>1, <2>2, <2>3, <2>4
  <1> QED BY <1>5 DEF new

LEMMA RenamedFlat ==
  ASSUME NEW node, IsNode(node), Flat(node), NEW from, NEW to
  PROVE  Flat(Renamed(node, from, to))
  <1> DEFINE new == Renamed(node, from, to)
  <1>1. new.op = node.op /\ new.args = [i \in DOMAIN node.args |-> Swapped(node.args[i], from, to)]
    BY RenamedFields
  <1> HIDE DEF new
  <1>2. ASSUME NEW i \in DOMAIN node.args, FlatList(node.args[i]) PROVE FlatList(new.args[i])
    <2>1. new.args[i] = Swapped(node.args[i], from, to)
      BY <1>1, <1>2
    <2>2. CASE from \notin NodesOf(node.args[i])
      BY <1>2, <2>1, <2>2 DEF Swapped
    <2>3. CASE from \in NodesOf(node.args[i])
      <3>1. node.args[i].kind # "list"
        BY <1>2, <2>3 DEF FlatList
      <3>2. new.args[i] = Ref(to)
        BY <2>1, <2>3, <3>1 DEF Swapped
      <3> QED BY <3>2 DEF FlatList, Ref
    <2> QED BY <2>2, <2>3
  <1> QED BY <1>1, <1>2 DEF Flat, new

-----------------------------------------------------------------------------
(* Rewrites *)

\* Every node is what the rewrites take it for, and those they made stay.
NodesInv ==
  /\ kind \in Kinds /\ DOMAIN graph \subseteq 1..(2 * MaxNodes)
  /\ \A n \in DOMAIN graph : /\ IsNode(graph[n]) /\ Signature(graph[n]) /\ Flat(graph[n])
                             /\ n > MaxNodes => graph[n].op \in KuiperOps
\* Tracing stops before the bound, and the walk of the replacement only erases
\* where it is.
BuildInv == phase = "build" => \E k \in 1..MaxNodes : DOMAIN graph = 1..k /\ (k = 1 \/ k < kind.nodes)
WalkInv == phase = "replace" => todo \subseteq DOMAIN graph
IInv == NodesInv /\ WellFormed /\ BuildInv /\ WalkInv

LEMMA Places ==
  ASSUME NodesInv
  PROVE  \A n \in DOMAIN graph : n \in Nat /\ Place(n) \in 1..MaxNodes
  BY PostGradAssumption DEF NodesInv, Place

\* A rewrite that erases only nodes whose users go as well, or read what it puts in.
Closed(at, old, target, dead) ==
  /\ at \in dead /\ at <= MaxNodes /\ old \in dead /\ dead \subseteq DOMAIN graph /\ Place(at) <= Place(old)
  /\ \A n \in dead : graph[n].op # "output" /\ (n # old => Users(n) \subseteq dead)
  /\ target.op \in KuiperOps /\ \A i \in DOMAIN target.args : FlatList(target.args[i])
  /\ \A n \in InputNodes(target) : n \in DOMAIN graph \ dead /\ Place(n) < Place(at)

LEMMA RewriteKeeps ==
  ASSUME NodesInv, WellFormed, UNCHANGED kind,
         NEW at, NEW old, NEW target, NEW dead, Closed(at, old, target, dead), Rewrite(at, old, target, dead)
  PROVE  /\ NodesInv' /\ WellFormed' /\ phase' = phase
         /\ DOMAIN graph' = (DOMAIN graph \cup {at + MaxNodes}) \ dead
  <1> DEFINE n == at + MaxNodes
             new == [op |-> target.op, args |-> target.args, kw |-> NoKw, val |-> Meta(old)]
             live == (DOMAIN graph \cup {n}) \ dead
             rest == [m \in live |-> IF m = n THEN new ELSE Renamed(graph[m], old, n)]
  <1>1. /\ at \in DOMAIN graph /\ old \in DOMAIN graph /\ at \in 1..MaxNodes /\ MaxNodes \in Nat /\ Place(at) = at
        /\ \A m \in DOMAIN graph : m \in Nat /\ Place(m) \in 1..MaxNodes
    BY Places, PostGradAssumption DEF Closed, NodesInv, Place
  <1>2. n \in 1..(2 * MaxNodes) /\ n > MaxNodes /\ Place(n) = at /\ n # at
    BY <1>1 DEF Place
  <1>3. n \notin DOMAIN graph
    BY <1>1, <1>2 DEF WellFormed
  <1>4. graph' = rest /\ phase' = IF \E m \in DOMAIN rest : InputNodes(rest[m]) \cap dead # {} THEN "raised" ELSE phase
    BY DEF Rewrite
  <1>5. /\ new.op = target.op /\ new.args = target.args
        /\ IsNode(new) /\ InputNodes(new) = InputNodes(target)
    BY DEF IsNode, InputNodes
  <1>f. Flat(new)
    BY <1>5 DEF Flat, Closed
  <1>6. Signature(new)
    BY <1>5, KuiperOpsNew DEF Signature, Closed, Rewritten
  <1> HIDE DEF n, new
  <1>7. n \in live /\ rest[n] = new
    BY <1>3 DEF Closed
  <1>8. ASSUME NEW m \in live, m # n
        PROVE  m \in DOMAIN graph /\ m \notin dead /\ rest[m] = Renamed(graph[m], old, n)
    BY <1>8
  <1>9. DOMAIN rest = live
    OBVIOUS
  <1> HIDE DEF rest
  <1>10. ASSUME NEW m \in live, m # n, NEW x \in InputNodes(rest[m])
         PROVE  x \in live /\ Place(x) < Place(m)
    <2>1. m \in DOMAIN graph /\ m \notin dead /\ IsNode(graph[m])
      BY <1>8, <1>10 DEF NodesInv
    <2>2. (x \in InputNodes(graph[m]) /\ x # old) \/ (x = n /\ old \in InputNodes(graph[m]))
      BY <1>8, <1>10, <2>1, RenamedInputs
    <2>3. CASE x \in InputNodes(graph[m]) /\ x # old
      <3>1. x \in DOMAIN graph /\ Place(x) < Place(m) /\ m \in Users(x)
        BY <2>1, <2>3 DEF WellFormed, Users
      <3>2. x \notin dead
        BY <2>1, <2>3, <3>1 DEF Closed
      <3> QED BY <3>1, <3>2
    <2>4. CASE x = n /\ old \in InputNodes(graph[m])
      <3>1. Place(old) < Place(m)
        BY <2>1, <2>4 DEF WellFormed
      <3>2. Place(at) <= Place(old)
        BY DEF Closed
      <3> QED BY <1>1, <1>2, <1>7, <2>1, <2>4, <3>1, <3>2
    <2> QED BY <2>2, <2>3, <2>4
  <1>11. ASSUME NEW x \in InputNodes(rest[n]) PROVE x \in live /\ Place(x) < Place(n)
    BY <1>1, <1>2, <1>5, <1>7, <1>11 DEF Closed
  <1>12. phase' = phase
    <2>1. ASSUME NEW m \in live PROVE InputNodes(rest[m]) \cap dead = {}
      <3>1. ASSUME NEW x \in InputNodes(rest[m]) PROVE x \in live
        BY <1>10, <1>11, <3>1
      <3> QED BY <3>1
    <2> QED BY <1>4, <1>9, <2>1
  <1>13. WellFormed'
    <2>1. phase' # "raised"
      BY <1>12 DEF WellFormed
    <2>2. ASSUME NEW l \in live, NEW m \in live, Place(l) = Place(m) PROVE l = m
      <3>1. CASE l # n /\ m # n
        BY <1>8, <2>2, <3>1 DEF WellFormed
      <3>2. ASSUME NEW j \in live, j # n, Place(j) = Place(n) PROVE FALSE
        <4>1. j \in DOMAIN graph /\ j # at
          BY <1>8, <3>2 DEF Closed
        <4> QED BY <1>1, <1>2, <3>2, <4>1 DEF WellFormed
      <3> QED BY <2>2, <3>1, <3>2
    <2>3. \A l, m \in live : Place(l) = Place(m) => l = m
      BY <2>2
    <2>4. \A m \in live : \A x \in InputNodes(rest[m]) : x \in live /\ Place(x) < Place(m)
      BY <1>10, <1>11
    <2> HIDE DEF live
    <2>5. \A l, m : Place(l)' = Place(l)
      BY DEF Place
    <2> QED BY <1>4, <1>9, <2>1, <2>3, <2>4 DEF WellFormed, Place, InputNodes, NodesOf
  <1>14. NodesInv'
    <2>1. live \subseteq 1..(2 * MaxNodes)
      BY <1>2 DEF NodesInv
    <2>2. ASSUME NEW m \in live
          PROVE  IsNode(rest[m]) /\ Signature(rest[m]) /\ Flat(rest[m]) /\ (m > MaxNodes => rest[m].op \in KuiperOps)
      <3>1. CASE m = n
        BY <1>5, <1>6, <1>7, <1>f, <3>1 DEF Closed
      <3>2. CASE m # n
        <4>1. m \in DOMAIN graph /\ rest[m] = Renamed(graph[m], old, n)
          BY <1>8, <3>2
        <4>2. IsNode(graph[m]) /\ Signature(graph[m]) /\ Flat(graph[m]) /\ (m > MaxNodes => graph[m].op \in KuiperOps)
          BY <4>1 DEF NodesInv
        <4>3. Renamed(graph[m], old, n).op = graph[m].op
          BY <4>2, RenamedOp, Zenon
        <4>4. IsNode(Renamed(graph[m], old, n))
          BY <4>2, RenamedFields, Zenon
        <4>5. Signature(rest[m]) /\ Flat(rest[m])
          BY <4>1, <4>2, RenamedSignature, RenamedFlat
        <4> QED BY <4>1, <4>2, <4>3, <4>4, <4>5
      <3> QED BY <3>1, <3>2
    <2> HIDE DEF live
    <2>3. kind' \in Kinds
      BY DEF NodesInv
    <2> QED BY <1>4, <1>9, <2>1, <2>2, <2>3 DEF NodesInv
  <1> QED BY <1>4, <1>9, <1>12, <1>13, <1>14 DEF n

-----------------------------------------------------------------------------
(* The chains around a reduction *)

\* What _map_of has checked of a map.
LEMMA MapReads ==
  ASSUME NodesInv, WellFormed, NEW n \in DOMAIN graph, MapOf(n) # None
  PROVE  /\ graph[n].args[1].id \in DOMAIN graph
         /\ Place(graph[n].args[1].id) < Place(n)
         /\ n \in Users(graph[n].args[1].id)
         /\ MapOf(n).kind = "map" /\ graph[n].op \in Arithmetic
  <1>1. graph[n].op \in Arithmetic /\ graph[n].args[1].kind = "node" /\ MapOf(n).kind = "map"
    BY DEF MapOf
  <1>2. 1 \in DOMAIN graph[n].args
    BY <1>1 DEF NodesInv, Signature
  <1>3. graph[n].args[1].id \in InputNodes(graph[n])
    BY <1>1, <1>2, NodesOfNode, InputNodesArg
  <1> QED BY <1>1, <1>3 DEF WellFormed, Users

LEMMA FiniteGraph ==
  ASSUME NodesInv
  PROVE  IsFiniteSet(DOMAIN graph)
  <1>1. IsFiniteSet(1..(2 * MaxNodes))
    BY FS_Interval, PostGradAssumption
  <1> QED BY <1>1, FS_Subset DEF NodesInv

\* Each node but the first is a map of the one before.
IsChain(chain) ==
  \A i \in 1..(Len(chain) - 1) :
    MapOf(chain[i + 1]) # None /\ graph[chain[i + 1]].args[1].kind = "node" /\ graph[chain[i + 1]].args[1].id = chain[i]

\* Backwards: where the walk ends nothing is erased, and what it passes is used
\* by the node it came from only.
SingleMaps == {n \in DOMAIN graph : Cardinality(Users(n)) = 1 /\ MapOf(n) # None}

LEMMA PreChain ==
  ASSUME NodesInv, WellFormed, NEW src \in DOMAIN graph, NEW n \in Users(src)
  PROVE  LET back == CollectPre(src) IN
         /\ back \in Seq(DOMAIN graph) /\ Len(back) > 0
         /\ Head(back) \in DOMAIN graph /\ Place(Head(back)) <= Place(src)
         /\ Head(back) \notin Range(Tail(back))
         /\ \A m \in Range(Tail(back)) : /\ m \in DOMAIN graph /\ MapOf(m).kind = "map" /\ MapOf(m) # None
                                         /\ Users(m) \subseteq Range(Tail(back)) \cup {n}
         /\ IsChain(back) /\ Last(back) = src
         /\ Head(back) \notin SingleMaps /\ \A i \in 1..(Len(back) - 1) : back[i + 1] \in SingleMaps
  <1> DEFINE next == Back(SingleMaps)
             rank == [m \in DOMAIN graph |-> Place(m)]
             p == Path(next, src)
             back == CollectPre(src)
  <1>1. \A m \in DOMAIN graph : m \in Nat /\ Place(m) \in 1..MaxNodes
    BY Places
  <1>2. DOMAIN next = SingleMaps /\ \A m \in SingleMaps : next[m] = graph[m].args[1].id
    BY DEF Back
  <1>3. \A m \in SingleMaps : /\ m \in DOMAIN graph /\ next[m] \in DOMAIN graph /\ Place(next[m]) < Place(m)
                              /\ m \in Users(next[m]) /\ MapOf(m).kind = "map" /\ Cardinality(Users(m)) = 1
    BY <1>2, MapReads DEF SingleMaps
  <1>4. back = Reverse(p)
    BY DEF CollectPre, SingleMaps
  <1> HIDE DEF next
  <1>5. Descends(next, rank, DOMAIN graph)
    BY <1>1, <1>2, <1>3 DEF Descends
  <1>6. IsWalk(p, next, rank, DOMAIN graph, src)
    <2>1. MaxNodes + 1 \in Nat /\ \A m \in DOMAIN graph : rank[m] < MaxNodes + 1
      BY <1>1, PostGradAssumption
    <2> QED BY <1>5, <2>1, PathWalks
  <1> HIDE DEF p
  <1>7. /\ p \in Seq(DOMAIN graph) /\ Len(p) \in Nat /\ Len(p) > 0 /\ p[1] = src
        /\ \A i \in 1..(Len(p) - 1) : p[i] \in SingleMaps /\ p[i + 1] = next[p[i]]
        /\ p[Len(p)] \notin SingleMaps /\ Place(p[Len(p)]) <= Place(src) /\ p[Len(p)] \in DOMAIN graph
    <2>1. /\ p \in Seq(DOMAIN graph) /\ Len(p) > 0 /\ p[1] = src
          /\ \A i \in 1..(Len(p) - 1) : p[i] \in SingleMaps /\ p[i + 1] = next[p[i]]
          /\ p[Len(p)] \notin SingleMaps
      BY <1>2, <1>6 DEF IsWalk
    <2>2. Len(p) \in Nat /\ Len(p) \in 1..Len(p) /\ p[Len(p)] \in DOMAIN graph
      BY <2>1
    <2>3. rank[p[Len(p)]] <= rank[src]
      BY <1>6, <2>2 DEF IsWalk
    <2> QED BY <2>1, <2>2, <2>3
  <1>8. /\ back \in Seq(DOMAIN graph) /\ Len(back) = Len(p) /\ \A i \in 1..Len(p) : back[i] = p[(Len(p) - i) + 1]
    BY <1>4, <1>7 DEF Reverse
  <1> HIDE DEF back
  <1>9. /\ back # <<>> /\ Head(back) = p[Len(p)]
        /\ Tail(back) \in Seq(DOMAIN graph) /\ Len(Tail(back)) = Len(p) - 1
        /\ \A i \in 1..(Len(p) - 1) : Tail(back)[i] = back[i + 1]
    BY <1>7, <1>8, HeadTailProperties
  <1>10. Range(Tail(back)) = {p[i] : i \in 1..(Len(p) - 1)}
    <2>1. ASSUME NEW i \in 1..(Len(p) - 1) PROVE Tail(back)[i] = p[Len(p) - i] /\ Len(p) - i \in 1..(Len(p) - 1)
      BY <1>7, <1>8, <1>9
    <2>2. DOMAIN Tail(back) = 1..(Len(p) - 1)
      BY <1>9
    <2>3. ASSUME NEW i \in 1..(Len(p) - 1) PROVE p[i] \in Range(Tail(back))
      <3>1. Len(p) - i \in 1..(Len(p) - 1) /\ Len(p) - (Len(p) - i) = i
        BY <1>7
      <3>2. Tail(back)[Len(p) - i] = p[i]
        BY <2>1, <3>1
      <3> QED BY <2>2, <3>1, <3>2 DEF Range
    <2>4. ASSUME NEW m \in Range(Tail(back)) PROVE m \in {p[i] : i \in 1..(Len(p) - 1)}
      <3>1. PICK i \in 1..(Len(p) - 1) : m = Tail(back)[i]
        BY <2>2 DEF Range
      <3> QED BY <2>1, <3>1
    <2> QED BY <2>3, <2>4
  <1>11. ASSUME NEW i \in 1..(Len(p) - 1) PROVE Users(p[i]) \subseteq {p[j] : j \in 1..(Len(p) - 1)} \cup {n}
    <2>1. p[i] \in SingleMaps
      BY <1>7
    <2>2. IsFiniteSet(Users(p[i])) /\ Cardinality(Users(p[i])) = 1
      BY <1>3, <2>1, FiniteGraph, FS_Subset DEF Users
    <2>3. PICK u : Users(p[i]) = {u}
      BY <2>2, FS_Singleton
    <2>4. CASE i = 1
      BY <1>7, <2>3, <2>4
    <2>5. CASE i # 1
      <3>1. i - 1 \in 1..(Len(p) - 1) /\ (i - 1) + 1 = i
        BY <1>7, <2>5
      <3>2. p[i - 1] \in SingleMaps /\ p[i] = next[p[i - 1]]
        BY <1>7, <3>1
      <3>3. p[i - 1] \in Users(p[i])
        BY <1>3, <3>2
      <3> QED BY <2>3, <3>1, <3>3
    <2> QED BY <2>4, <2>5
  <1>12. /\ back \in Seq(DOMAIN graph) /\ Len(back) > 0
         /\ Head(back) \in DOMAIN graph /\ Place(Head(back)) <= Place(src)
         /\ Head(back) \notin Range(Tail(back))
         /\ \A m \in Range(Tail(back)) : /\ m \in DOMAIN graph /\ MapOf(m).kind = "map" /\ MapOf(m) # None
                                         /\ Users(m) \subseteq Range(Tail(back)) \cup {n}
         /\ IsChain(back) /\ Last(back) = src
         /\ Head(back) \notin SingleMaps /\ \A i \in 1..(Len(back) - 1) : back[i + 1] \in SingleMaps
    <2>1. Head(back) \notin Range(Tail(back))
      BY <1>7, <1>9, <1>10
    <2>2. ASSUME NEW m \in Range(Tail(back))
          PROVE  /\ m \in DOMAIN graph /\ MapOf(m).kind = "map" /\ MapOf(m) # None
                 /\ Users(m) \subseteq Range(Tail(back)) \cup {n}
      <3>1. PICK i \in 1..(Len(p) - 1) : m = p[i]
        BY <1>10, <2>2
      <3>2. m \in SingleMaps
        BY <1>7, <3>1
      <3> QED BY <1>3, <1>10, <1>11, <3>1, <3>2 DEF SingleMaps
    <2>3. ASSUME NEW i \in 1..(Len(back) - 1)
          PROVE  /\ MapOf(back[i + 1]) # None /\ graph[back[i + 1]].args[1].kind = "node"
                 /\ graph[back[i + 1]].args[1].id = back[i] /\ back[i + 1] \in SingleMaps
      <3> DEFINE j == Len(p) - i
      <3>a. /\ j \in 1..(Len(p) - 1) /\ i \in 1..Len(p) /\ i + 1 \in 1..Len(p)
            /\ (Len(p) - (i + 1)) + 1 = j /\ (Len(p) - i) + 1 = j + 1
        BY <1>7, <1>8
      <3> HIDE DEF j
      <3>1. j \in 1..(Len(p) - 1) /\ back[i + 1] = p[j] /\ back[i] = p[j + 1]
        BY <1>8, <3>a
      <3>2. p[j] \in SingleMaps /\ p[j + 1] = graph[p[j]].args[1].id
        BY <1>2, <1>7, <3>1
      <3>3. MapOf(p[j]) # None
        BY <3>2 DEF SingleMaps
      <3>4. graph[p[j]].args[1].kind = "node"
        BY <3>3 DEF MapOf
      <3> QED BY <3>1, <3>2, <3>3, <3>4
    <2>4. Last(back) = src
      BY <1>7, <1>8 DEF Last
    <2> QED BY <1>7, <1>8, <1>9, <2>1, <2>2, <2>3, <2>4 DEF IsChain
  <1> QED BY <1>12 DEF back

\* Forwards: all but the end is used by the next of the chain only.
LEMMA PostChain ==
  ASSUME NodesInv, WellFormed, NEW node \in DOMAIN graph
  PROVE  LET forth == CollectPost(node) IN
         /\ forth \in Seq(DOMAIN graph) /\ Len(forth) > 0 /\ node \in Range(forth) /\ Last(forth) \in Range(forth)
         /\ \A m \in Range(forth) : m \in DOMAIN graph /\ Place(node) <= Place(m)
         /\ \A m \in Range(forth) : m # Last(forth) => Users(m) \subseteq Range(forth)
         /\ Tail(forth) \in Seq(DOMAIN graph) /\ \A m \in Range(Tail(forth)) : MapOf(m).kind = "map"
         /\ \A m \in Range(forth) : m = node \/ MapOf(m) # None
         /\ IsChain(forth) /\ Head(forth) = node
  <1> DEFINE rank == [m \in DOMAIN graph |-> MaxNodes - Place(m)]
             p == CollectPost(node)
             On == {n \in DOMAIN graph : Continues(n)}
  <1>1. MaxNodes \in Nat /\ \A m \in DOMAIN graph : m \in Nat /\ Place(m) \in 1..MaxNodes
    BY Places, PostGradAssumption
  <1>2. ASSUME NEW n \in On
        PROVE  /\ n \in DOMAIN Forth /\ Forth[n] \in DOMAIN graph /\ Users(n) = {Forth[n]}
               /\ Place(n) < Place(Forth[n]) /\ MapOf(Forth[n]).kind = "map" /\ MapOf(Forth[n]) # None
               /\ graph[Forth[n]].args[1].kind = "node" /\ graph[Forth[n]].args[1].id = n
    <2>1. PICK m \in Users(n) : Users(n) = {m} /\ MapOf(m) # None /\ graph[m].args[1].id = n
      BY DEF Continues
    <2>2. n \in DOMAIN Forth /\ Forth[n] = m
      BY <2>1 DEF Forth
    <2>3. m \in DOMAIN graph /\ graph[m].args[1].kind = "node"
      BY <2>1 DEF Users, MapOf
    <2> QED BY <2>1, <2>2, <2>3, MapReads
  <1>3. DOMAIN Forth = On
    BY DEF Forth
  <1> HIDE DEF On
  <1>4. On \subseteq DOMAIN graph
    BY DEF On
  <1>5. Descends(Forth, rank, DOMAIN graph)
    <2>1. \A m \in DOMAIN graph : rank[m] \in Nat
      BY <1>1
    <2>2. ASSUME NEW n \in On PROVE rank[Forth[n]] < rank[n]
      <3>1. n \in DOMAIN graph /\ Forth[n] \in DOMAIN graph /\ Place(n) < Place(Forth[n])
        BY <1>2, <1>4
      <3>2. rank[n] = MaxNodes - Place(n) /\ rank[Forth[n]] = MaxNodes - Place(Forth[n])
        BY <3>1
      <3> HIDE DEF rank
      <3> QED BY <1>1, <3>1, <3>2
    <2> QED BY <1>2, <1>3, <1>4, <2>1, <2>2 DEF Descends
  <1>6. IsWalk(p, Forth, rank, DOMAIN graph, node)
    <2>1. \A m \in DOMAIN graph : rank[m] < MaxNodes
      BY <1>1
    <2> QED BY <1>1, <1>5, <2>1, PathWalks DEF CollectPost
  <1> HIDE DEF p
  <1>7. /\ p \in Seq(DOMAIN graph) /\ Len(p) > 0 /\ p[1] = node
        /\ \A i \in 1..(Len(p) - 1) : p[i] \in On /\ p[i + 1] = Forth[p[i]]
    BY <1>3, <1>6 DEF IsWalk
  <1>8. Len(p) \in Nat /\ DOMAIN p = 1..Len(p)
    BY <1>7
  <1>9. /\ Tail(p) \in Seq(DOMAIN graph) /\ Len(Tail(p)) = Len(p) - 1
        /\ \A i \in 1..(Len(p) - 1) : Tail(p)[i] = p[i + 1]
    BY <1>7, <1>8, HeadTailProperties
  <1>10. \A m \in Range(p) : \E i \in 1..Len(p) : m = p[i]
    BY <1>8 DEF Range
  <1>11. \A i \in 1..Len(p) : p[i] \in Range(p)
    BY <1>8 DEF Range
  <1>12. ASSUME NEW m \in Range(p) PROVE m \in DOMAIN graph /\ Place(node) <= Place(m)
    <2>1. PICK i \in 1..Len(p) : m = p[i]
      BY <1>10
    <2>2. m \in DOMAIN graph /\ rank[m] <= rank[node]
      BY <1>6, <1>7, <2>1 DEF IsWalk
    <2>3. rank[m] = MaxNodes - Place(m) /\ rank[node] = MaxNodes - Place(node)
      BY <2>2
    <2> HIDE DEF rank
    <2> QED BY <1>1, <2>2, <2>3
  <1>13. ASSUME NEW m \in Range(p), m # Last(p) PROVE Users(m) \subseteq Range(p)
    <2>1. PICK i \in 1..Len(p) : m = p[i]
      BY <1>10
    <2>2. i \in 1..(Len(p) - 1) /\ i + 1 \in 1..Len(p)
      BY <1>8, <1>13, <2>1 DEF Last
    <2>3. p[i] \in On /\ p[i + 1] = Forth[p[i]]
      BY <1>7, <2>2
    <2>4. Users(m) = {p[i + 1]}
      BY <1>2, <2>1, <2>3
    <2> QED BY <1>11, <2>2, <2>4
  <1>14. ASSUME NEW m \in Range(Tail(p)) PROVE MapOf(m).kind = "map"
    <2>1. PICK i \in 1..(Len(p) - 1) : m = Tail(p)[i]
      BY <1>8, <1>9 DEF Range
    <2>2. p[i] \in On /\ m = Forth[p[i]]
      BY <1>7, <1>9, <2>1
    <2> QED BY <1>2, <2>2
  <1>15. node \in Range(p) /\ Last(p) \in Range(p)
    BY <1>7, <1>8, <1>11 DEF Last
  <1>16. /\ p \in Seq(DOMAIN graph) /\ Len(p) > 0 /\ node \in Range(p) /\ Last(p) \in Range(p)
         /\ \A m \in Range(p) : m \in DOMAIN graph /\ Place(node) <= Place(m)
         /\ \A m \in Range(p) : m # Last(p) => Users(m) \subseteq Range(p)
         /\ Tail(p) \in Seq(DOMAIN graph) /\ \A m \in Range(Tail(p)) : MapOf(m).kind = "map"
         /\ \A m \in Range(p) : m = node \/ MapOf(m) # None
         /\ IsChain(p) /\ Head(p) = node
    <2>1. ASSUME NEW i \in 1..(Len(p) - 1)
          PROVE  /\ MapOf(p[i + 1]) # None /\ graph[p[i + 1]].args[1].kind = "node"
                 /\ graph[p[i + 1]].args[1].id = p[i]
      <3>1. p[i] \in On /\ p[i + 1] = Forth[p[i]]
        BY <1>7
      <3> QED BY <1>2, <3>1
    <2>2. ASSUME NEW m \in Range(p), m # node PROVE MapOf(m) # None
      <3>1. PICK i \in 1..Len(p) : m = p[i]
        BY <1>10
      <3>2. i - 1 \in 1..(Len(p) - 1) /\ (i - 1) + 1 = i
        BY <1>7, <1>8, <2>2, <3>1
      <3> QED BY <2>1, <3>1, <3>2
    <2>3. Head(p) = node
      BY <1>7
    <2> QED BY <1>7, <1>9, <1>12, <1>13, <1>14, <1>15, <2>1, <2>2, <2>3 DEF IsChain
  <1> QED BY <1>16 DEF p

-----------------------------------------------------------------------------
(* What the pass rewrites *)

\* The entries of a map list are no nodes.
LEMMA MapsReadNothing ==
  ASSUME NEW chain, \A m \in Range(chain) : MapOf(m).kind = "map"
  PROVE  NodesOf(Maps(chain)) = {}
  <1> DEFINE items == [i \in DOMAIN chain |-> MapOf(chain[i])]
  <1>1. \A b \in Range(items) : b.kind = "map"
    BY DEF Range
  <1>2. Maps(chain) = List(items)
    BY DEF Maps
  <1> HIDE DEF items
  <1> QED BY <1>1, <1>2, NodesOfList

LEMMA FusedInputs ==
  ASSUME NEW node, Signature(node), node.op \in ReduceOps, NEW root, NEW pre, NEW post,
         NodesOf(pre) = {}, NodesOf(post) = {}
  PROVE  /\ Fused(node, root, pre, post).op \in KuiperOps
         /\ InputNodes(Fused(node, root, pre, post)) \subseteq {root}
         /\ \A i \in DOMAIN Fused(node, root, pre, post).args : FlatList(Fused(node, root, pre, post).args[i])
  <1> DEFINE dim == Index(ReduceDim(node, Len(graph[root].val.shape)))
             keepdim == Argument(node, 3, "keepdim", Flag(FALSE))
             dtype == Keyword(node, "dtype", Absent)
             fused == Fused(node, root, pre, post)
  <1>1. NodesOf(Ref(root)) = {root} /\ NodesOf(Word(node.op)) = {} /\ NodesOf(dim) = {}
    BY DEF NodesOf, Ref, Word, Index
  <1>2. NodesOf(keepdim) = {} /\ NodesOf(dtype) = {}
    <2>1. NodesOf(Flag(FALSE)) = {} /\ NodesOf(Absent) = {}
      BY DEF NodesOf, Flag, Absent
    <2>2. /\ \A i \in DOMAIN node.args : i # 1 => NodesOf(node.args[i]) = {}
          /\ \A k \in DOMAIN node.kw : NodesOf(node.kw[k]) = {}
      BY DEF Signature
    <2>3. NodesOf(dtype) = {}
      BY <2>1, <2>2 DEF Keyword
    <2>4. NodesOf(keepdim) = {}
      <3> DEFINE default == Flag(FALSE)
      <3>1. NodesOf(default) = {}
        BY <2>1
      <3> HIDE DEF default
      <3>2. NodesOf(Argument(node, 3, "keepdim", default)) = {}
        BY <2>2, <3>1 DEF Argument, Keyword
      <3> QED BY <3>2 DEF default
    <2> QED BY <2>3, <2>4
  <1>3. fused.op = "kuiperjit.hreduce_poly" /\ fused.args = <<Ref(root), Word(node.op), dim, keepdim, dtype, pre, post>>
    BY DEF Fused
  <1> HIDE DEF dim, keepdim, dtype, fused
  <1>4. ASSUME NEW x \in InputNodes(fused) PROVE x = root
    <2>1. PICK i \in DOMAIN fused.args : x \in NodesOf(fused.args[i])
      BY InputNodesIn
    <2>2. i \in 1..7
      BY <1>3, <2>1
    <2>3. fused.args[i] \in {Ref(root), Word(node.op), dim, keepdim, dtype, pre, post}
      BY <1>3, <2>2
    <2> QED BY <1>1, <1>2, <2>1, <2>3
  <1>5. fused.op \in KuiperOps /\ InputNodes(fused) \subseteq {root}
    BY <1>3, <1>4 DEF KuiperOps
  <1>6. ASSUME NEW i \in DOMAIN fused.args PROVE FlatList(fused.args[i])
    <2>1. i \in 1..7
      BY <1>3
    <2>2. fused.args[i] \in {Ref(root), Word(node.op), dim, keepdim, dtype, pre, post}
      BY <1>3, <2>1
    <2>3. Ref(root).kind # "list"
      BY DEF Ref
    <2> QED BY <1>1, <1>2, <2>2, <2>3 DEF FlatList
  <1> QED BY <1>5, <1>6 DEF fused

\* Fusion erases nodes that nothing else uses.
LEMMA FusionsClosed ==
  ASSUME NodesInv, WellFormed, NEW n, NEW f \in Fusions(n)
  PROVE  Closed(n, f.tail, f.node, f.dead)
  <1> DEFINE src == graph[n].args[1].id
             back == CollectPre(src)
             forth == CollectPost(n)
             pre == Maps(Tail(back))
             post == Maps(Tail(forth))
             dead == Range(Tail(back)) \cup Range(forth)
  <1>1. n \in DOMAIN graph /\ graph[n].op \in ReduceOps
    BY DEF Fusions
  <1>2. f = [node |-> Fused(graph[n], Head(back), pre, post), tail |-> Last(forth), dead |-> dead]
    BY <1>1 DEF Fusions
  <1>3. f.node = Fused(graph[n], Head(back), pre, post) /\ f.tail = Last(forth) /\ f.dead = dead
    BY <1>2
  <1>4. n \in Nat /\ Place(n) \in 1..MaxNodes /\ n <= MaxNodes /\ Signature(graph[n])
    BY <1>1, Places, KuiperOpsNew, PostGradAssumption DEF NodesInv, Rewritten
  <1>5. src \in DOMAIN graph /\ Place(src) < Place(n) /\ n \in Users(src)
    <2>1. 1 \in DOMAIN graph[n].args /\ graph[n].args[1].kind = "node"
      BY <1>1, <1>4 DEF Signature
    <2>2. src \in InputNodes(graph[n])
      BY <2>1, NodesOfNode, InputNodesArg
    <2> QED BY <1>1, <2>2 DEF WellFormed, Users
  <1> HIDE DEF src
  <1>6. /\ Head(back) \in DOMAIN graph /\ Place(Head(back)) <= Place(src)
        /\ Head(back) \notin Range(Tail(back))
        /\ \A m \in Range(Tail(back)) : /\ m \in DOMAIN graph /\ MapOf(m).kind = "map"
                                        /\ Users(m) \subseteq Range(Tail(back)) \cup {n} /\ MapOf(m) # None
    BY <1>5, PreChain
  <1>7. /\ n \in Range(forth) /\ Last(forth) \in Range(forth)
        /\ \A m \in Range(forth) : m \in DOMAIN graph /\ Place(n) <= Place(m)
        /\ \A m \in Range(forth) : m # Last(forth) => Users(m) \subseteq Range(forth)
        /\ \A m \in Range(Tail(forth)) : MapOf(m).kind = "map"
        /\ \A m \in Range(forth) : m = n \/ MapOf(m) # None
    BY <1>1, PostChain
  <1>8. NodesOf(pre) = {} /\ NodesOf(post) = {}
    BY <1>6, <1>7, MapsReadNothing
  <1> HIDE DEF back, forth, pre, post
  <1>9. /\ f.node.op \in KuiperOps /\ InputNodes(f.node) \subseteq {Head(back)}
        /\ \A i \in DOMAIN f.node.args : FlatList(f.node.args[i])
    BY <1>1, <1>3, <1>4, <1>8, FusedInputs
  <1>10. Head(back) \notin dead /\ Place(Head(back)) < Place(n)
    BY <1>1, <1>4, <1>5, <1>6, <1>7, Places
  <1>11. \A x \in dead : x \in DOMAIN graph /\ (x # Last(forth) => Users(x) \subseteq dead)
    BY <1>6, <1>7
  <1>12. n \in dead /\ Last(forth) \in dead /\ Place(n) <= Place(Last(forth))
    BY <1>7
  <1>13. \A x \in dead : graph[x].op # "output"
    <2>1. \A x \in dead : x = n \/ (x \in DOMAIN graph /\ MapOf(x) # None)
      BY <1>6, <1>7
    <2>2. "output" \notin Arithmetic \cup ReduceOps
      BY DEF Arithmetic, Unary, Binary, ReduceOps
    <2> QED BY <1>1, <2>1, <2>2, MapReads
  <1> QED BY <1>3, <1>4, <1>6, <1>9, <1>10, <1>11, <1>12, <1>13 DEF Closed

\* A custom op reads what the node read that it stands for.
LEMMA ClaimsClosed ==
  ASSUME NodesInv, WellFormed, NEW n \in DOMAIN graph, NEW claimed \in Claims(n)
  PROVE  Closed(n, n, claimed, {n})
  <1> DEFINE node == graph[n]
  <1>1. Signature(node) /\ n \in Nat /\ Place(n) \in 1..MaxNodes
    BY Places DEF NodesInv
  <1>2. /\ claimed.op \in KuiperOps /\ node.op \in Rewritten
        /\ \A x \in InputNodes(claimed) : x \in InputNodes(node)
        /\ \A i \in DOMAIN claimed.args : FlatList(claimed.args[i])
    <2>f. \A a : NodesOf(a) = {} => FlatList(a)
      BY DEF FlatList
    <2>g. node.op # "output" => \A i \in DOMAIN node.args : FlatList(node.args[i])
      BY DEF NodesInv, Flat
    <2>1. CASE node.op \in {"mm", "bmm"}
      <3>1. claimed = [op |-> IF node.op = "mm" THEN "kuiperjit.mm" ELSE "kuiperjit.bmm", args |-> node.args]
        BY <2>1 DEF Claims, SdpaOps
      <3>2. claimed.op \in KuiperOps /\ claimed.args = node.args
        BY <3>1 DEF KuiperOps
      <3> QED BY <2>1, <2>g, <3>2 DEF InputNodes, Rewritten
    <2>2. CASE node.op = "addmm"
      <3>1. PICK beta, alpha : /\ claimed.op = "kuiperjit.addmm" /\ NodesOf(beta) = {} /\ NodesOf(alpha) = {}
                               /\ claimed.args = <<node.args[1], node.args[2], node.args[3], beta, alpha>>
        <4> DEFINE beta == Num("float", Keyword(node, "beta", Num("int", Unit)).val)
                   alpha == Num("float", Keyword(node, "alpha", Num("int", Unit)).val)
        <4>1. \A v : NodesOf(Num("float", v)) = {}
          BY DEF NodesOf, Num
        <4>2. claimed = [op |-> "kuiperjit.addmm",
                         args |-> <<node.args[1], node.args[2], node.args[3], beta, alpha>>]
          BY <2>2 DEF Claims, SdpaOps
        <4> HIDE DEF node, beta, alpha
        <4>3. claimed.op = "kuiperjit.addmm" /\ claimed.args = <<node.args[1], node.args[2], node.args[3], beta, alpha>>
          BY <4>2
        <4> QED BY <4>1, <4>3 DEF beta, alpha
      <3>2. 1..3 \subseteq DOMAIN node.args
        BY <1>1, <2>2 DEF Signature
      <3>3. ASSUME NEW x \in InputNodes(claimed) PROVE x \in InputNodes(node)
        <4>1. PICK i \in DOMAIN claimed.args : x \in NodesOf(claimed.args[i])
          BY InputNodesIn
        <4>2. i \in 1..5
          BY <3>1, <4>1
        <4>3. i \in 1..3 /\ claimed.args[i] = node.args[i]
          BY <3>1, <4>1, <4>2
        <4> QED BY <3>2, <4>1, <4>3, InputNodesArg
      <3>4. ASSUME NEW i \in DOMAIN claimed.args PROVE FlatList(claimed.args[i])
        <4>1. \/ i \in 1..3 /\ claimed.args[i] = node.args[i]
              \/ NodesOf(claimed.args[i]) = {}
          BY <3>1
        <4> QED BY <2>2, <2>f, <2>g, <3>2, <4>1
      <3> QED BY <2>2, <3>1, <3>3, <3>4 DEF Rewritten, KuiperOps
    <2>3. CASE node.op \in SdpaOps
      <3> DEFINE ins == Fakes(node)
                 given == Keyword(node, "scale", Absent)
                 scale == IF given = Absent THEN Word(<<"1/sqrt", ins[1].shape[4]>>) ELSE given
                 causal == IF 7 \in DOMAIN node.args THEN node.args[7] ELSE Flag(FALSE)
      <3>1. /\ claimed.op \in {"kuiperjit.sdpa", "kuiperjit.sdpa_cudnn"}
            /\ claimed.args = <<node.args[1], node.args[2], node.args[3], node.args[4], scale, causal>>
        <4>1. claimed = [op |-> IF node.op = "efficient" THEN "kuiperjit.sdpa" ELSE "kuiperjit.sdpa_cudnn",
                         args |-> <<node.args[1], node.args[2], node.args[3], node.args[4], scale, causal>>]
          BY <2>3, ZenonT(60) DEF Claims, SdpaOps
        <4> HIDE DEF node, scale, causal
        <4> QED BY <4>1
      <3>2. 1..4 \subseteq DOMAIN node.args /\ \A k \in DOMAIN node.kw : NodesOf(node.kw[k]) = {}
        BY <1>1, <2>3 DEF Signature
      <3>3. NodesOf(scale) = {}
        <4>1. NodesOf(Absent) = {} /\ \A w : NodesOf(Word(w)) = {}
          BY DEF NodesOf, Absent, Word
        <4>2. NodesOf(given) = {}
          BY <3>2, <4>1 DEF Keyword
        <4> QED BY <4>1, <4>2
      <3>4. (causal = node.args[7] /\ 7 \in DOMAIN node.args) \/ NodesOf(causal) = {}
        <4>1. NodesOf(Flag(FALSE)) = {}
          BY DEF NodesOf, Flag
        <4> QED BY <4>1
      <3> HIDE DEF scale, causal, node
      <3>5. ASSUME NEW x \in InputNodes(claimed) PROVE x \in InputNodes(node)
        <4>1. PICK i \in DOMAIN claimed.args : x \in NodesOf(claimed.args[i])
          BY InputNodesIn
        <4>2. i \in 1..6
          BY <3>1, <4>1
        <4>3. \/ i \in 1..4 /\ claimed.args[i] = node.args[i]
              \/ i = 5 /\ claimed.args[i] = scale
              \/ i = 6 /\ claimed.args[i] = causal
          BY <3>1, <4>2
        <4> QED BY <3>2, <3>3, <3>4, <4>1, <4>3, InputNodesArg
      <3>6. ASSUME NEW i \in DOMAIN claimed.args PROVE FlatList(claimed.args[i])
        <4>1. i \in 1..6
          BY <3>1
        <4>2. \/ i \in 1..4 /\ claimed.args[i] = node.args[i]
              \/ i = 5 /\ claimed.args[i] = scale
              \/ i = 6 /\ claimed.args[i] = causal
          BY <3>1, <4>1
        <4>3. node.op # "output"
          BY <2>3 DEF SdpaOps
        <4> QED BY <2>f, <2>g, <3>2, <3>3, <3>4, <4>2, <4>3
      <3> QED BY <2>3, <3>1, <3>5, <3>6 DEF Rewritten, KuiperOps
    <2>4. CASE node.op \notin {"mm", "bmm", "addmm"} \cup SdpaOps
      BY <2>4 DEF Claims
    <2> QED BY <2>1, <2>2, <2>3, <2>4
  <1>3. n <= MaxNodes
    BY <1>1, <1>2, KuiperOpsNew, PostGradAssumption DEF NodesInv
  <1>4. ASSUME NEW x \in InputNodes(claimed) PROVE x \in DOMAIN graph \ {n} /\ Place(x) < Place(n)
    <2>1. x \in DOMAIN graph /\ Place(x) < Place(n)
      BY <1>2, <1>4 DEF WellFormed
    <2> QED BY <1>1, <2>1
  <1>5. node.op # "output"
    BY <1>2 DEF Rewritten, ReduceOps, SdpaOps
  <1> QED BY <1>1, <1>2, <1>3, <1>4, <1>5 DEF Closed

-----------------------------------------------------------------------------
(* Fake values *)

\* Fakes and CallOf of a node of any graph.
FakesIn(g, node) ==
  [i \in DOMAIN node.args |-> IF node.args[i].kind = "node" THEN g[node.args[i].id].val ELSE node.args[i]]
CallIn(g, node) == [op |-> node.op, args |-> FakesIn(g, node), kw |-> node.kw]

\* A node of g has the fake value of its op, or one that agrees with it, and aten
\* had a result for it.
Settled(g, node) ==
  LET c == CallIn(g, node)
      X == c.args[1]
  IN  /\ node.op \notin {"placeholder", "output"} => Agrees(node.op, node.val, Fake(c))
      /\ node.op \in ReduceOps => ReducedDims(c, Len(X.shape)) \in (SUBSET (1..Len(X.shape))) \ {{}}
      /\ node.op \in SdpaOps => X.shape \in [1..4 -> Nat]
AllSettled(g) == \A n \in DOMAIN g : Settled(g, g[n])
MetaInv == AllSettled(graph)

LEMMA AgreesElsewhere ==
  \A op, val, fake : op \notin AttentionOps => (Agrees(op, val, fake) <=> val = fake)
  BY DEF Agrees

LEMMA SettledElsewhere ==
  ASSUME NEW g, NEW node, Settled(g, node), node.op \notin {"placeholder", "output"} \cup AttentionOps
  PROVE  node.val = Fake(CallIn(g, node))
  <1>1. Agrees(node.op, node.val, Fake(CallIn(g, node)))
    BY DEF Settled
  <1> QED BY <1>1, AgreesElsewhere

LEMMA CallOfIn == \A node : CallOf(node) = CallIn(graph, node)
  BY DEF CallOf, CallIn, Fakes, FakesIn

LEMMA CallFields ==
  ASSUME NEW g, NEW node
  PROVE  CallIn(g, node).op = node.op /\ CallIn(g, node).args = FakesIn(g, node) /\ CallIn(g, node).kw = node.kw
  BY DEF CallIn

-----------------------------------------------------------------------------
(* The steps *)

LEMMA SetToSeqIn ==
  ASSUME NEW S, IsFiniteSet(S)
  PROVE  SetToSeq(S) \in [1..Cardinality(S) -> S]
  <1>1. \E f \in [1..Cardinality(S) -> S] : IsInjective(f)
    BY FS_CardinalityType DEF ExistsBijection, Bijection, Injection
  <1> QED BY <1>1 DEF SetToSeq

\* The graph h is g and a last node, which reads nodes there are.
Adds(g, h, k, node) ==
  /\ DOMAIN g = 1..k
  /\ IsNode(node) /\ Signature(node) /\ Flat(node) /\ InputNodes(node) \subseteq DOMAIN g
  /\ h = [n \in DOMAIN g \cup {k + 1} |-> IF n = k + 1 THEN node ELSE g[n]]

LEMMA AddKeeps ==
  ASSUME NodesInv, WellFormed, UNCHANGED kind, phase' # "raised",
         NEW k \in Nat, k + 1 <= MaxNodes, NEW node, Adds(graph, graph', k, node)
  PROVE  NodesInv' /\ WellFormed' /\ DOMAIN graph' = 1..(k + 1)
  <1>a. /\ DOMAIN graph = 1..k
        /\ IsNode(node) /\ Signature(node) /\ Flat(node) /\ InputNodes(node) \subseteq DOMAIN graph
        /\ graph' = [n \in DOMAIN graph \cup {k + 1} |-> IF n = k + 1 THEN node ELSE graph[n]]
    BY DEF Adds
  <1>0. MaxNodes \in Nat
    BY PostGradAssumption
  <1>1. graph' = [n \in 1..(k + 1) |-> IF n = k + 1 THEN node ELSE graph[n]]
    <2>1. DOMAIN graph \cup {k + 1} = 1..(k + 1)
      BY <1>a
    <2> QED BY <1>a, <2>1
  <1>2. DOMAIN graph' = 1..(k + 1)
    BY <1>1
  <1>3. \A n \in 1..(k + 1) : Place(n) = n
    BY <1>0 DEF Place
  <1>4. ASSUME NEW n \in 1..(k + 1)
        PROVE  /\ IsNode(graph'[n]) /\ Signature(graph'[n]) /\ Flat(graph'[n]) /\ n <= MaxNodes
               /\ \A m \in InputNodes(graph'[n]) : m \in 1..(k + 1) /\ m < n
    <2>1. CASE n = k + 1
      BY <1>0, <1>1, <1>a, <2>1
    <2>2. CASE n # k + 1
      <3>1. n \in DOMAIN graph /\ graph'[n] = graph[n]
        BY <1>1, <1>a, <2>2
      <3>2. \A m \in InputNodes(graph[n]) : m \in 1..k /\ m < n
        BY <1>3, <1>a, <3>1 DEF WellFormed
      <3> QED BY <1>0, <3>1, <3>2 DEF NodesInv
    <2> QED BY <2>1, <2>2
  <1>5. NodesInv'
    BY <1>0, <1>2, <1>4 DEF NodesInv
  <1>6. WellFormed'
    BY <1>2, <1>3, <1>4 DEF WellFormed
  <1> QED BY <1>2, <1>5, <1>6

LEMMA SizeIs ==
  ASSUME NodesInv, BuildInv, phase = "build"
  PROVE  \E k \in 1..MaxNodes : /\ DOMAIN graph = 1..k /\ Cardinality(DOMAIN graph) = k
                                /\ k = 1 \/ k < kind.nodes
                                /\ kind.nodes \in Nat /\ kind.nodes <= MaxNodes
  <1>1. PICK k \in 1..MaxNodes : DOMAIN graph = 1..k /\ (k = 1 \/ k < kind.nodes)
    BY DEF BuildInv
  <1>2. Cardinality(1..k) = k
    BY FS_Interval, PostGradAssumption
  <1> QED BY <1>1, <1>2, PostGradAssumption DEF NodesInv

LEMMA CallArgs ==
  ASSUME NEW n \in Nat, NEW ins, NEW more, more \in Seq(Range(more))
  PROVE  LET args == [i \in 1..n |-> Ref(ins[i])] \o more IN
         /\ Len(more) \in Nat /\ DOMAIN more = 1..Len(more) /\ DOMAIN args = 1..(n + Len(more))
         /\ \A i \in 1..n : args[i] = Ref(ins[i])
         /\ \A i \in 1..Len(more) : args[n + i] = more[i]
         /\ IsSeq(args)
  <1> DEFINE refs == [i \in 1..n |-> Ref(ins[i])]
             args == refs \o more
             S == {Ref(ins[i]) : i \in 1..n} \cup Range(more)
  <1>1. refs \in [1..n -> S]
    OBVIOUS
  <1>2. /\ more \in Seq(S) /\ Len(more) \in Nat /\ DOMAIN more = 1..Len(more)
        /\ \A i \in 1..n : refs[i] = Ref(ins[i])
    <2>1. Len(more) \in Nat /\ DOMAIN more = 1..Len(more) /\ more \in [1..Len(more) -> Range(more)]
      BY LenProperties
    <2>2. more \in [1..Len(more) -> S]
      BY <2>1
    <2>3. more \in Seq(S)
      <3> HIDE DEF S
      <3> QED BY <2>1, <2>2, SeqDef
    <2> QED BY <2>1, <2>3
  <1> HIDE DEF refs, S
  <1>3. refs \in Seq(S) /\ Len(refs) = n
    <2>1. refs \in Seq(S)
      BY <1>1, SeqDef
    <2>2. DOMAIN refs = 1..Len(refs) /\ DOMAIN refs = 1..n /\ Len(refs) \in Nat
      BY <1>1, <2>1, LenProperties
    <2> DEFINE l == Len(refs)
    <2>3. l \in Nat /\ 1..l = 1..n
      BY <2>2
    <2> HIDE DEF l
    <2>4. l = n
      BY <2>3
    <2> QED BY <2>1, <2>4 DEF l
  <1>4. /\ args \in Seq(S) /\ Len(args) = n + Len(more)
        /\ \A i \in 1..(n + Len(more)) : args[i] = IF i <= n THEN refs[i] ELSE more[i - n]
    BY <1>2, <1>3, ConcatProperties
  <1> HIDE DEF args
  <1>5. DOMAIN args = 1..(n + Len(more))
    BY <1>2, <1>4, LenProperties
  <1>6. \A i \in 1..n : args[i] = Ref(ins[i])
    BY <1>2, <1>4
  <1>7. \A i \in 1..Len(more) : args[n + i] = more[i]
    BY <1>2, <1>4
  <1>8. args \in Seq(S) => IsSeq(args)
    BY SeqIsSeq, Zenon
  <1> QED BY <1>2, <1>4, <1>5, <1>6, <1>7, <1>8 DEF args, refs

\* Ops with these names have no result in aten for other arguments.
LEMMA MakesRange ==
  ASSUME NEW node, Makes(node)
  PROVE  LET c == CallIn(graph, node)
             X == c.args[1]
         IN  /\ node.op \in ReduceOps => ReducedDims(c, Len(X.shape)) \in (SUBSET (1..Len(X.shape))) \ {{}}
             /\ node.op \in SdpaOps => X.shape \in [1..4 -> Nat]
             /\ node.op = "getitem" => X.kind = "list" /\ IsTensor(X.items[1])
  <1>1. CallOf(node) = CallIn(graph, node) /\ Fakes(node) = CallIn(graph, node).args
    BY CallOfIn, CallFields DEF Fakes, FakesIn
  <1>2. CASE node.op \in ReduceOps
    <2>1. ReducedDims(CallOf(node), Len(Fakes(node)[1].shape)) \in (SUBSET (1..Len(Fakes(node)[1].shape))) \ {{}}
      BY <1>2 DEF Makes, ReduceOps, SdpaOps, Binary
    <2>2. node.op \notin SdpaOps /\ node.op # "getitem"
      BY <1>2 DEF ReduceOps, SdpaOps
    <2> QED BY <1>1, <2>1, <2>2
  <1>3. CASE node.op \in SdpaOps
    <2>1. Fakes(node)[1].shape \in [1..4 -> Nat]
      BY <1>3 DEF Makes, ReduceOps, SdpaOps, Binary
    <2>2. node.op \notin ReduceOps /\ node.op # "getitem"
      BY <1>3 DEF ReduceOps, SdpaOps
    <2> QED BY <1>1, <2>1, <2>2
  <1>4. CASE node.op = "getitem"
    <2>1. Fakes(node)[1].kind = "list" /\ IsTensor(Fakes(node)[1].items[1])
      BY <1>4 DEF Makes, ReduceOps, SdpaOps, Binary
    <2>2. node.op \notin ReduceOps \cup SdpaOps
      BY <1>4 DEF ReduceOps, SdpaOps
    <2> QED BY <1>1, <2>1, <2>2
  <1> QED BY <1>2, <1>3, <1>4

\* What the fake implementations say, op by op.
LEMMA FakeOps ==
  ASSUME NEW c
  PROVE  LET X == c.args[1]  Y == c.args[2]  Z == c.args[3] IN
         /\ c.op \in ReduceOps => Fake(c) = FakeReduce(c)
         /\ c.op = "kuiperjit.hreduce_poly" => Fake(c) = FakeReduce(Unpacked(c.args))
         /\ c.op \in {"mm", "kuiperjit.mm"} => Fake(c) = Plain(X.dtype, <<X.shape[1], Y.shape[2]>>)
         /\ c.op \in {"bmm", "kuiperjit.bmm"} => Fake(c) = Plain(X.dtype, <<X.shape[1], X.shape[2], Y.shape[3]>>)
         /\ c.op \in {"addmm", "kuiperjit.addmm"} => Fake(c) = Plain(Y.dtype, <<Y.shape[1], Z.shape[2]>>)
         /\ c.op \in SdpaOps \cup AttentionOps => Fake(c) = FakeAttention(c)
         /\ c.op = "getitem" => Fake(c) = X.items[1]
         /\ c.op \in Arithmetic => Fake(c) = X
  <1> DEFINE reduced == FakeReduce(c)
             fused == FakeReduce(Unpacked(c.args))
             mm == Plain(c.args[1].dtype, <<c.args[1].shape[1], c.args[2].shape[2]>>)
             bmm == Plain(c.args[1].dtype, <<c.args[1].shape[1], c.args[1].shape[2], c.args[2].shape[3]>>)
             addmm == Plain(c.args[2].dtype, <<c.args[2].shape[1], c.args[3].shape[2]>>)
             sdpa == FakeAttention(c)
             double == Retyped(c.args[1], "f64")
             compared == Retyped(c.args[1], "bool")
  <1>1. Fake(c) =
          CASE c.op \in ReduceOps -> reduced
            [] c.op = "kuiperjit.hreduce_poly" -> fused
            [] c.op \in {"mm", "kuiperjit.mm"} -> mm
            [] c.op \in {"bmm", "kuiperjit.bmm"} -> bmm
            [] c.op \in {"addmm", "kuiperjit.addmm"} -> addmm
            [] c.op \in SdpaOps \cup AttentionOps -> sdpa
            [] c.op = "getitem" -> c.args[1].items[1]
            [] c.op = "double" -> double
            [] c.op \in Compare -> compared
            [] OTHER -> c.args[1]
    BY DEF Fake
  <1> HIDE DEF reduced, fused, mm, bmm, addmm, sdpa, double, compared
  <1>2. /\ c.op \in ReduceOps => Fake(c) = reduced
        /\ c.op = "kuiperjit.hreduce_poly" => Fake(c) = fused
        /\ c.op \in {"mm", "kuiperjit.mm"} => Fake(c) = mm
        /\ c.op \in {"bmm", "kuiperjit.bmm"} => Fake(c) = bmm
        /\ c.op \in {"addmm", "kuiperjit.addmm"} => Fake(c) = addmm
        /\ c.op \in SdpaOps \cup AttentionOps => Fake(c) = sdpa
        /\ c.op = "getitem" => Fake(c) = c.args[1].items[1]
        /\ c.op \in Arithmetic => Fake(c) = c.args[1]
    BY <1>1 DEF ReduceOps, SdpaOps, AttentionOps, Compare, Arithmetic, Unary, Binary
  <1> QED BY <1>2 DEF reduced, fused, mm, bmm, addmm, sdpa

\* Inputs and what is read off a list are tensors.
Items(g, node) ==
  /\ node.op \in {"placeholder", "getitem"} => IsTensor(node.val)
  /\ node.op = "placeholder" => InputNodes(node) = {}
  /\ node.op = "getitem" => \A m \in InputNodes(node) : g[m].val.kind = "list"

\* Tracing adds a node that has its fake value.
LEMMA TraceAdds ==
  ASSUME IInv, Trace
  PROVE  \E k \in 1..MaxNodes : \E node :
           /\ Adds(graph, graph', k, node) /\ node.op \notin {"placeholder", "output"}
           /\ Settled(graph, node) /\ Items(graph, node)
           /\ kind.nodes \in Nat /\ k < kind.nodes - 1 /\ kind.nodes <= MaxNodes
  <1>1. PICK k \in 1..MaxNodes : /\ DOMAIN graph = 1..k /\ Cardinality(DOMAIN graph) = k
                                 /\ kind.nodes \in Nat /\ kind.nodes <= MaxNodes
    BY SizeIs DEF Trace, IInv
  <1>2. PICK t \in kind.templates : \E ins \in [1..t.tensors -> DOMAIN graph] :
          LET call == [op |-> t.op, args |-> [i \in 1..t.tensors |-> Ref(ins[i])] \o t.args, kw |-> t.kw]
          IN  Makes(call) /\ graph' = Added(k + 1, call, Fake(CallOf(call)))
    BY <1>1, Zenon DEF Trace
  <1>3. PICK ins \in [1..t.tensors -> DOMAIN graph] :
          LET call == [op |-> t.op, args |-> [i \in 1..t.tensors |-> Ref(ins[i])] \o t.args, kw |-> t.kw]
          IN  Makes(call) /\ graph' = Added(k + 1, call, Fake(CallOf(call)))
    BY <1>2, Zenon
  <1> DEFINE refs == [i \in 1..t.tensors |-> Ref(ins[i])]
             args == refs \o t.args
             call == [op |-> t.op, args |-> args, kw |-> t.kw]
             val == Fake(CallOf(call))
             node == [op |-> call.op, args |-> call.args, kw |-> call.kw, val |-> val]
  <1>a. graph' = [n \in DOMAIN graph \cup {k + 1} |-> IF n = k + 1 THEN node ELSE graph[n]] /\ Makes(call)
    BY <1>3, Zenon DEF Added
  <1>s. Settled(graph, node) /\ node.op \notin {"placeholder", "output"}
    <2>1. call.op = t.op /\ node.op = t.op /\ node.val = val
      OBVIOUS
    <2>2. CallIn(graph, node) = CallIn(graph, call)
      BY DEF CallIn, FakesIn
    <2>3. t.op \notin {"placeholder", "output"} \cup AttentionOps
      BY TemplateAssumption DEF IInv, NodesInv
    <2>4. node.val = Fake(CallIn(graph, node))
      BY <2>1, <2>2, CallOfIn
    <2> HIDE DEF node, call
    <2>5. Agrees(node.op, node.val, Fake(CallIn(graph, node)))
      BY <2>1, <2>3, <2>4, AgreesElsewhere
    <2> QED BY <1>a, <2>1, <2>2, <2>3, <2>5, MakesRange DEF Settled
  <1> HIDE DEF val
  <1>4. /\ kind.nodes \in Nat /\ k < kind.nodes - 1 /\ MaxNodes \in Nat
    BY <1>1, PostGradAssumption DEF Trace
  <1>5. /\ t.tensors \in Nat \ {0} /\ t.args \in Seq(Range(t.args))
        /\ \A i \in DOMAIN t.args : NodesOf(t.args[i]) = {}
        /\ \A j \in DOMAIN t.kw : NodesOf(t.kw[j]) = {}
        /\ t.op \in ReduceOps => /\ t.tensors = 1 /\ DOMAIN t.kw \subseteq {"given", "dtype"}
                                 /\ t.args # <<>> => t.args[1] \in Dims
        /\ t.op = "getitem" => t.tensors = 1
        /\ t.op = "addmm" => t.tensors = 3
        /\ t.op \in SdpaOps => /\ t.tensors \in {3, 4} /\ t.tensors + Len(t.args) >= 4
                               /\ DOMAIN t.kw \subseteq {"given", "scale"}
                               /\ \A i \in DOMAIN t.args : t.tensors + i = 6 => t.args[i].val = 0
    <2>1. DOMAIN NoKw = {"given"} /\ kind \in Kinds
      BY DEF NoKw, IInv, NodesInv
    <2> HIDE DEF args
    <2> QED BY <2>1, TemplateAssumption
  <1>6. /\ Len(t.args) \in Nat /\ DOMAIN t.args = 1..Len(t.args) /\ DOMAIN args = 1..(t.tensors + Len(t.args))
        /\ \A i \in 1..t.tensors : args[i] = Ref(ins[i])
        /\ \A i \in 1..Len(t.args) : args[t.tensors + i] = t.args[i]
        /\ IsSeq(args)
    <2>1. t.tensors \in Nat /\ t.args \in Seq(Range(t.args))
      BY <1>5
    <2> QED BY <2>1, CallArgs, SMTT(30)
  <1> HIDE DEF args
  <1>r. ASSUME NEW i \in DOMAIN args, i \notin 1..t.tensors
        PROVE  /\ i - t.tensors \in DOMAIN t.args /\ t.tensors + (i - t.tensors) = i
               /\ args[i] = t.args[i - t.tensors] /\ NodesOf(args[i]) = {}
    <2> DEFINE n == t.tensors
    <2>1. n \in Nat
      BY <1>5
    <2> HIDE DEF n
    <2>2. i - n \in 1..Len(t.args) /\ n + (i - n) = i
      BY <1>6, <1>r, <2>1 DEF n
    <2>3. args[i] = t.args[i - n]
      BY <1>6, <2>2 DEF n
    <2> QED BY <1>5, <1>6, <2>2, <2>3 DEF n
  <1>7. node.op = t.op /\ node.args = args /\ node.kw = t.kw /\ IsNode(node)
    BY DEF IsNode
  <1> HIDE DEF node
  <1>8. InputNodes(node) \subseteq DOMAIN graph
    <2> SUFFICES ASSUME NEW x \in InputNodes(node) PROVE x \in DOMAIN graph
      OBVIOUS
    <2>1. PICK i \in DOMAIN args : x \in NodesOf(args[i])
      BY <1>7, InputNodesIn
    <2>2. CASE i \in 1..t.tensors
      <3>1. NodesOf(Ref(ins[i])) = {ins[i]} /\ args[i] = Ref(ins[i])
        BY <1>6, <2>2 DEF NodesOf, Ref
      <3> QED BY <2>1, <2>2, <3>1
    <2>3. CASE i \notin 1..t.tensors
      BY <2>1, <2>3, <1>r
    <2> QED BY <2>2, <2>3
  <1>9. Signature(node)
    <2>1. ASSUME t.tensors = 1
          PROVE  args[1].kind = "node" /\ \A i \in DOMAIN args : i # 1 => NodesOf(args[i]) = {}
      <3>1. args[1].kind = "node"
        BY <1>6, <2>1 DEF Ref
      <3>2. ASSUME NEW i \in DOMAIN args, i # 1 PROVE NodesOf(args[i]) = {}
        BY <1>r, <2>1, <3>2
      <3> QED BY <3>1, <3>2
    <2>2. 1 \in DOMAIN args
      BY <1>5, <1>6
    <2>3. ASSUME t.op = "addmm"
          PROVE  1..3 \subseteq DOMAIN args /\ \A i \in DOMAIN args : i \notin 1..3 => NodesOf(args[i]) = {}
      <3>1. t.tensors = 3
        BY <1>5, <2>3
      <3>2. 1..3 \subseteq DOMAIN args
        BY <1>6, <3>1
      <3> QED BY <1>r, <3>1, <3>2
    <2>4. t.op \in SdpaOps => 1..4 \subseteq DOMAIN args
      BY <1>5, <1>6
    <2>5. ASSUME t.op \in ReduceOps, 2 \in DOMAIN args PROVE args[2] \in Dims
      <3>0. t.tensors = 1 /\ 2 \notin 1..1 /\ 2 - 1 = 1
        BY <1>5, <2>5
      <3>1. 1 \in DOMAIN t.args /\ args[2] = t.args[1]
        BY <1>r, <2>5, <3>0
      <3>2. t.args # <<>>
        BY <3>1
      <3>3. t.args[1] \in Dims
        BY <1>5, <2>5, <3>2, Zenon
      <3> QED BY <3>1, <3>3, Zenon
    <2>6. ASSUME t.op \in SdpaOps
          PROVE  /\ \A i \in DOMAIN args : i \notin 1..4 => NodesOf(args[i]) = {}
                 /\ 6 \in DOMAIN args => args[6].val = 0
      <3>1. 1..t.tensors \subseteq 1..4
        BY <1>5, <2>6
      <3>2. \A i \in DOMAIN args : i \notin 1..4 => NodesOf(args[i]) = {}
        BY <1>r, <3>1
      <3>3. ASSUME 6 \in DOMAIN args PROVE args[6].val = 0
        <4>1. 6 - t.tensors \in DOMAIN t.args /\ t.tensors + (6 - t.tensors) = 6 /\ args[6] = t.args[6 - t.tensors]
          BY <1>r, <3>1, <3>3
        <4> QED BY <1>5, <2>6, <4>1
      <3> QED BY <3>2, <3>3
    <2>7. CASE t.op \in Arithmetic \cup ReduceOps
      <3>1. t.op # "addmm" /\ t.op \notin SdpaOps
        BY <2>7 DEF Arithmetic, Unary, Binary, ReduceOps, SdpaOps
      <3>2. ASSUME t.op \in ReduceOps
            PROVE  /\ args[1].kind = "node" /\ \A i \in DOMAIN args : i # 1 => NodesOf(args[i]) = {}
                   /\ \A j \in DOMAIN t.kw : NodesOf(t.kw[j]) = {}
                   /\ DOMAIN t.kw \subseteq {"given", "dtype"}
                   /\ 2 \in DOMAIN args => args[2] \in Dims
        BY <1>5, <2>1, <2>5, <3>2, Zenon
      <3> QED BY <1>6, <1>7, <2>2, <3>1, <3>2, Zenon DEF Signature
    <2>8. CASE t.op \notin Arithmetic \cup ReduceOps
      BY <1>5, <1>7, <2>3, <2>4, <2>6, <2>8 DEF Signature
    <2> QED BY <2>7, <2>8
  <1>f. Flat(node)
    <2>1. ASSUME NEW i \in DOMAIN args PROVE FlatList(args[i])
      <3>1. CASE i \in 1..t.tensors
        <4>1. args[i] = Ref(ins[i]) /\ Ref(ins[i]).kind = "node"
          BY <1>6, <3>1 DEF Ref
        <4> QED BY <4>1 DEF FlatList
      <3>2. CASE i \notin 1..t.tensors
        BY <1>r, <3>2 DEF FlatList
      <3> QED BY <3>1, <3>2
    <2> QED BY <1>7, <2>1 DEF Flat
  <1>10. Adds(graph, graph', k, node)
    BY <1>1, <1>7, <1>8, <1>9, <1>a, <1>f DEF Adds
  <1>i. Items(graph, node)
    <2> SUFFICES ASSUME t.op = "getitem"
                 PROVE  IsTensor(node.val) /\ \A m \in InputNodes(node) : graph[m].val.kind = "list"
      BY <1>7, <1>s DEF Items
    <2>1. t.tensors = 1 /\ 1 \in DOMAIN args /\ args[1] = Ref(ins[1]) /\ 1 \in 1..t.tensors
      BY <1>5, <1>6
    <2>2. Ref(ins[1]).kind = "node" /\ Ref(ins[1]).id = ins[1]
      BY DEF Ref
    <2>3. FakesIn(graph, node)[1] = graph[ins[1]].val
      BY <1>7, <2>1, <2>2 DEF FakesIn
    <2>4. graph[ins[1]].val.kind = "list" /\ IsTensor(graph[ins[1]].val.items[1])
      <3>1. call.op = "getitem" /\ call.args = args /\ node.args = args
        BY <1>7
      <3> HIDE DEF call, node
      <3>2. CallIn(graph, call).args[1] = graph[ins[1]].val
        BY <2>3, <3>1 DEF CallIn, FakesIn
      <3> QED BY <1>a, <3>1, <3>2, MakesRange
    <2>5. IsTensor(node.val)
      <3>1. CallIn(graph, node).op = "getitem" /\ CallIn(graph, node).args[1] = graph[ins[1]].val
        BY <1>7, <2>3, CallFields
      <3>2. ASSUME NEW c, c.op = "getitem" PROVE Fake(c) = c.args[1].items[1]
        BY <3>2, FakeOps
      <3>3. node.val = Fake(CallIn(graph, node))
        BY <1>s, <1>7, SettledElsewhere DEF AttentionOps
      <3> QED BY <2>3, <2>4, <3>1, <3>2, <3>3
    <2>6. ASSUME NEW m \in InputNodes(node) PROVE m = ins[1]
      <3>1. PICK i \in DOMAIN args : m \in NodesOf(args[i])
        BY <1>7, InputNodesIn
      <3>2. i = 1
        BY <1>r, <2>1, <3>1
      <3> QED BY <2>1, <2>2, <3>1, <3>2, NodesOfNode
    <2> QED BY <2>4, <2>5, <2>6
  <1> QED BY <1>1, <1>4, <1>10, <1>s, <1>i

LEMMA TraceKeeps == IInv /\ Trace => IInv'
  <1> SUFFICES ASSUME IInv, Trace PROVE IInv'
    OBVIOUS
  <1>1. PICK k \in 1..MaxNodes : \E node :
          /\ Adds(graph, graph', k, node)
          /\ kind.nodes \in Nat /\ k < kind.nodes - 1 /\ kind.nodes <= MaxNodes
    BY TraceAdds
  <1>2. phase = "build" /\ phase' = "build" /\ kind' = kind /\ MaxNodes \in Nat
    BY PostGradAssumption DEF Trace
  <1>3. NodesInv' /\ WellFormed' /\ DOMAIN graph' = 1..(k + 1)
    BY <1>1, <1>2, AddKeeps DEF IInv
  <1>4. BuildInv'
    BY <1>1, <1>2, <1>3 DEF BuildInv
  <1> QED BY <1>2, <1>3, <1>4 DEF IInv, WalkInv

\* Inductor's call adds the outputs.
LEMMA CallAdds ==
  ASSUME IInv, Call
  PROVE  \E k \in 1..MaxNodes : \E node, outs :
           /\ Adds(graph, graph', k, node) /\ k + 1 <= MaxNodes
           /\ \A i \in DOMAIN outs : outs[i] \in DOMAIN graph
           /\ node.op = "output" /\ node.args = <<List([i \in DOMAIN outs |-> Ref(outs[i])])>>
           /\ promised' = [i \in DOMAIN outs |-> Value(outs[i])]
  <1>1. PICK k \in 1..MaxNodes : /\ DOMAIN graph = 1..k /\ Cardinality(DOMAIN graph) = k
                                 /\ k = 1 \/ k < kind.nodes
                                 /\ kind.nodes \in Nat /\ kind.nodes <= MaxNodes
    BY SizeIs DEF Call, IInv
  <1>2. MaxNodes \in Nat /\ k > 1
    BY <1>1, PostGradAssumption DEF Call
  <1>3. PICK more \in SUBSET DOMAIN graph :
          LET outs == SetToSeq({n \in DOMAIN graph : Users(n) = {}} \cup more)
          IN  /\ graph' = Added(k + 1, [op |-> "output", args |-> <<List([i \in DOMAIN outs |-> Ref(outs[i])])>>,
                                        kw |-> NoKw], Absent)
              /\ promised' = [i \in DOMAIN outs |-> Value(outs[i])]
    BY <1>1, Zenon DEF Call
  <1> DEFINE S == {n \in DOMAIN graph : Users(n) = {}} \cup more
             outs == SetToSeq(S)
             items == [i \in DOMAIN outs |-> Ref(outs[i])]
             args == <<List(items)>>
             call == [op |-> "output", args |-> args, kw |-> NoKw]
             node == [op |-> call.op, args |-> call.args, kw |-> call.kw, val |-> Absent]
  <1>4. graph' = [n \in DOMAIN graph \cup {k + 1} |-> IF n = k + 1 THEN node ELSE graph[n]]
    BY <1>3, Zenon DEF Added
  <1>p. promised' = [i \in DOMAIN outs |-> Value(outs[i])]
    BY <1>3, Zenon
  <1>5. outs \in [1..Cardinality(S) -> DOMAIN graph]
    <2>1. S \subseteq DOMAIN graph
      OBVIOUS
    <2> HIDE DEF S
    <2>2. IsFiniteSet(S)
      BY <2>1, FiniteGraph, FS_Subset DEF IInv
    <2>3. outs \in [1..Cardinality(S) -> S]
      BY <2>2, SetToSeqIn
    <2> QED BY <2>1, <2>3
  <1> HIDE DEF outs
  <1>6. NodesOf(List(items)) \subseteq DOMAIN graph
    <2>1. ASSUME NEW b \in Range(items) PROVE b.id \in DOMAIN graph
      <3>1. PICK i \in DOMAIN outs : b = Ref(outs[i])
        BY DEF Range
      <3> QED BY <1>5, <3>1 DEF Ref
    <2> HIDE DEF items
    <2> QED BY <2>1, NodesOfList
  <1>i. args = <<List([i \in DOMAIN outs |-> Ref(outs[i])])>> /\ \A i \in DOMAIN outs : outs[i] \in DOMAIN graph
    BY <1>5
  <1> HIDE DEF items
  <1>7. node.op = "output" /\ node.args = args /\ IsNode(node)
    BY DEF IsNode
  <1>8. DOMAIN args = {1} /\ args[1] = List(items)
    OBVIOUS
  <1> HIDE DEF node, args
  <1>9. InputNodes(node) \subseteq DOMAIN graph
    <2> SUFFICES ASSUME NEW x \in InputNodes(node) PROVE x \in DOMAIN graph
      OBVIOUS
    <2>1. PICK i \in DOMAIN args : x \in NodesOf(args[i])
      BY <1>7, InputNodesIn
    <2> QED BY <1>6, <1>8, <2>1
  <1>10. Signature(node)
    BY <1>7 DEF Signature, ReduceOps, SdpaOps, Arithmetic, Unary, Binary
  <1>f. Flat(node)
    BY <1>7 DEF Flat
  <1>11. Adds(graph, graph', k, node)
    BY <1>1, <1>4, <1>7, <1>9, <1>10, <1>f DEF Adds
  <1>12. k + 1 <= MaxNodes
    BY <1>1, <1>2
  <1> QED BY <1>7, <1>11, <1>12, <1>i, <1>p, Zenon

LEMMA CallKeeps == IInv /\ Call => IInv'
  <1> SUFFICES ASSUME IInv, Call PROVE IInv'
    OBVIOUS
  <1>1. PICK k \in 1..MaxNodes : \E node : Adds(graph, graph', k, node) /\ k + 1 <= MaxNodes
    BY CallAdds
  <1>2. phase' \in {"fuse", "begin"} /\ kind' = kind
    BY DEF Call
  <1>3. NodesInv' /\ WellFormed'
    BY <1>1, <1>2, AddKeeps DEF IInv
  <1> QED BY <1>2, <1>3 DEF IInv, BuildInv, WalkInv

\* Nothing that the graph says changes.
LEMMA SameGraph ==
  ASSUME NodesInv, WellFormed, UNCHANGED <<kind, graph>>, phase' # "raised"
  PROVE  NodesInv' /\ WellFormed'
  BY DEF NodesInv, WellFormed

LEMMA FuseKeeps == IInv /\ Fuse /\ UNCHANGED kind => IInv'
  <1> SUFFICES ASSUME IInv, Fuse, UNCHANGED kind PROVE IInv'
    OBVIOUS
  <1>1. phase = "fuse"
    BY DEF Fuse
  <1>2. PICK n \in todo : UNCHANGED <<graph, phase>> \/ \E f \in Fusions(n) : Rewrite(n, f.tail, f.node, f.dead)
    BY DEF Fuse
  <1>3. NodesInv' /\ WellFormed' /\ phase' = phase
    <2>1. CASE UNCHANGED <<graph, phase>>
      BY <1>1, <2>1, SameGraph DEF IInv
    <2>2. CASE \E f \in Fusions(n) : Rewrite(n, f.tail, f.node, f.dead)
      BY <2>2, FusionsClosed, RewriteKeeps DEF IInv
    <2> QED BY <1>2, <2>1, <2>2
  <1> QED BY <1>1, <1>3 DEF IInv, BuildInv, WalkInv

LEMMA ReplaceKeeps == IInv /\ Replace /\ UNCHANGED kind => IInv'
  <1> SUFFICES ASSUME IInv, Replace, UNCHANGED kind PROVE IInv'
    OBVIOUS
  <1>1. phase = "replace"
    BY DEF Replace
  <1>2. PICK n \in todo : /\ todo' = todo \ {n}
                          /\ UNCHANGED <<graph, phase>> \/ \E claimed \in Claims(n) : Rewrite(n, n, claimed, {n})
    BY DEF Replace
  <1>3. n \in DOMAIN graph /\ todo \subseteq DOMAIN graph
    BY <1>1 DEF IInv, WalkInv
  <1>4. NodesInv' /\ WellFormed' /\ phase' = phase /\ todo' \subseteq DOMAIN graph'
    <2>1. CASE UNCHANGED <<graph, phase>>
      BY <1>1, <1>2, <1>3, <2>1, SameGraph DEF IInv
    <2>2. CASE \E claimed \in Claims(n) : Rewrite(n, n, claimed, {n})
      <3>1. PICK claimed \in Claims(n) : Rewrite(n, n, claimed, {n})
        BY <2>2
      <3>2. Closed(n, n, claimed, {n})
        BY <1>3, ClaimsClosed DEF IInv
      <3>3. NodesInv' /\ WellFormed' /\ phase' = phase /\ DOMAIN graph' = (DOMAIN graph \cup {n + MaxNodes}) \ {n}
        BY <3>1, <3>2, RewriteKeeps DEF IInv
      <3> QED BY <1>2, <1>3, <3>3
    <2> QED BY <1>2, <2>1, <2>2
  <1> QED BY <1>1, <1>4 DEF IInv, BuildInv, WalkInv

LEMMA InvInit == Init => IInv
  <1> SUFFICES ASSUME Init PROVE IInv
    OBVIOUS
  <1> DEFINE node == [op |-> "placeholder", args |-> <<>>, kw |-> NoKw, val |-> kind.input]
  <1>1. graph = <<node>> /\ phase = "build" /\ kind \in Kinds
    BY DEF Init
  <1>2. node.op = "placeholder" /\ node.args = <<>> /\ IsNode(node)
    BY DEF IsNode
  <1> HIDE DEF node
  <1>3. DOMAIN graph = 1..1 /\ graph[1] = node
    BY <1>1
  <1>4. InputNodes(node) = {}
    BY <1>2 DEF InputNodes, Range
  <1>5. Signature(node)
    BY <1>2 DEF Signature, ReduceOps, SdpaOps, Arithmetic, Unary, Binary
  <1>6. MaxNodes \in Nat /\ MaxNodes >= 1
    BY PostGradAssumption
  <1>7. Flat(node)
    BY <1>2 DEF Flat
  <1> QED BY <1>1, <1>2, <1>3, <1>4, <1>5, <1>6, <1>7 DEF IInv, NodesInv, WellFormed, BuildInv, WalkInv

LEMMA InvStep == IInv /\ [Next]_vars => IInv'
  <1> SUFFICES ASSUME IInv, [Next]_vars PROVE IInv'
    OBVIOUS
  <1>1. CASE UNCHANGED vars
    BY <1>1 DEF vars, IInv, NodesInv, WellFormed, BuildInv, WalkInv
  <1>2. CASE (EndFusion \/ BeginGraph \/ FinishGraph) /\ UNCHANGED kind
    <2>1. UNCHANGED <<kind, graph>> /\ phase' \in {"begin", "replace", "done"} /\ (phase' = "replace" => todo' = DOMAIN graph)
      BY <1>2 DEF EndFusion, BeginGraph, FinishGraph
    <2>2. NodesInv' /\ WellFormed'
      BY <2>1, SameGraph DEF IInv
    <2> QED BY <2>1, <2>2 DEF IInv, BuildInv, WalkInv
  <1> QED BY <1>1, <1>2, TraceKeeps, CallKeeps, FuseKeeps, ReplaceKeeps DEF Next, Pass

LEMMA Invariant == Spec => []IInv
  BY InvInit, InvStep, PTL DEF Spec

\* For graphs of any ops and any size, at every step of the pass: each node is
\* defined before it is read, no two stand at one place, and no node that
\* erase_node is called for is still used.
THEOREM StaysWellFormed == Spec => []WellFormed
  <1>1. IInv => WellFormed
    BY DEF IInv
  <1> QED BY <1>1, Invariant, PTL
-----------------------------------------------------------------------------
(* Rewrites and fake values *)

\* The call a node makes is a matter of the fake values it reads, under any name.
LEMMA CallKept ==
  ASSUME NEW g, NEW h, NEW node, IsNode(node), Flat(node), node.op # "output", NEW from, NEW to,
         from \in InputNodes(node) => h[to].val = g[from].val,
         \A x \in InputNodes(node) : x # from => h[x].val = g[x].val
  PROVE  CallIn(h, Renamed(node, from, to)) = CallIn(g, node)
  <1> DEFINE new == Renamed(node, from, to)
             fake(f, a) == IF a.kind = "node" THEN f[a.id].val ELSE a
  <1>1. /\ new.op = node.op /\ new.kw = node.kw
        /\ new.args = [i \in DOMAIN node.args |-> Swapped(node.args[i], from, to)]
    BY RenamedFields
  <1> HIDE DEF new
  <1>2. ASSUME NEW i \in DOMAIN node.args
        PROVE  fake(h, Swapped(node.args[i], from, to)) = fake(g, node.args[i])
    <2> DEFINE a == node.args[i]
    <2>1. FlatList(a) /\ \A x \in NodesOf(a) : x \in InputNodes(node)
      BY InputNodesArg DEF Flat
    <2> HIDE DEF a
    <2>2. CASE from \notin NodesOf(a)
      <3>1. Swapped(a, from, to) = a
        BY <2>2 DEF Swapped
      <3>2. CASE a.kind = "node"
        <4>1. NodesOf(a) = {a.id}
          BY <3>2, NodesOfNode
        <4>2. a.id \in InputNodes(node) /\ a.id # from
          BY <2>1, <2>2, <4>1
        <4> QED BY <3>1, <4>2 DEF a
      <3> QED BY <3>1, <3>2 DEF a
    <2>3. CASE from \in NodesOf(a)
      <3>1. a.kind = "node"
        BY <2>1, <2>3, NodesOfOther DEF FlatList
      <3>2. NodesOf(a) = {a.id} /\ a.id = from
        BY <2>3, <3>1, NodesOfNode
      <3>3. Swapped(a, from, to) = Ref(to) /\ Ref(to).kind = "node" /\ Ref(to).id = to
        BY <2>3, <3>1 DEF Swapped, Ref
      <3>4. h[to].val = g[from].val
        BY <2>1, <2>3
      <3> QED BY <3>1, <3>2, <3>3, <3>4 DEF a
    <2> QED BY <2>2, <2>3
  <1>3. FakesIn(h, new) = FakesIn(g, node)
    BY <1>1, <1>2 DEF FakesIn
  <1> QED BY <1>1, <1>3 DEF CallIn, new

LEMMA CallSame ==
  ASSUME NEW g, NEW h, NEW node, \A x \in InputNodes(node) : h[x].val = g[x].val
  PROVE  CallIn(h, node) = CallIn(g, node)
  <1>1. ASSUME NEW i \in DOMAIN node.args, node.args[i].kind = "node"
        PROVE  h[node.args[i].id].val = g[node.args[i].id].val
    BY <1>1, NodesOfNode, InputNodesArg
  <1> QED BY <1>1 DEF CallIn, FakesIn

\* What a rewrite makes of the graph g: the graph h, where n stands for old.
Leaves(g, h, n, old, target) ==
  /\ n \notin DOMAIN g /\ n \in DOMAIN h /\ old \in DOMAIN g /\ old \notin DOMAIN h
  /\ h[n] = [op |-> target.op, args |-> target.args, kw |-> NoKw, val |-> g[old].val]
  /\ \A m \in DOMAIN h : m # n => m \in DOMAIN g /\ h[m] = Renamed(g[m], old, n)
  /\ \A m \in DOMAIN g : g[m].op = "output" => m \in DOMAIN h
  /\ \A m \in DOMAIN h : m # n => \A x \in InputNodes(g[m]) : x # old => x \in DOMAIN h \ {n}
  /\ \A x \in InputNodes(target) : x \in DOMAIN h \ {n}

LEMMA RewriteLeaves ==
  ASSUME NodesInv, WellFormed, NEW at, NEW old, NEW target, NEW dead, NEW n, n = at + MaxNodes,
         Closed(at, old, target, dead), Rewrite(at, old, target, dead)
  PROVE  Leaves(graph, graph', n, old, target)
  <1> DEFINE new == [op |-> target.op, args |-> target.args, kw |-> NoKw, val |-> Meta(old)]
             live == (DOMAIN graph \cup {n}) \ dead
             rest == [m \in live |-> IF m = n THEN new ELSE Renamed(graph[m], old, n)]
  <1>1. /\ at \in DOMAIN graph /\ old \in DOMAIN graph /\ at \in 1..MaxNodes /\ MaxNodes \in Nat /\ dead \subseteq DOMAIN graph
        /\ Place(n) = at /\ Place(at) = at /\ n # at
    BY Places, PostGradAssumption DEF Closed, NodesInv, Place
  <1>2. n \notin DOMAIN graph
    BY <1>1 DEF WellFormed
  <1>3. graph' = rest
    BY DEF Rewrite
  <1>4. DOMAIN graph' = live /\ n \in live
    BY <1>1, <1>2, <1>3
  <1>5. graph'[n] = [op |-> target.op, args |-> target.args, kw |-> NoKw, val |-> graph[old].val]
    BY <1>3, <1>4 DEF Meta
  <1> HIDE DEF new
  <1>6. \A m \in live : m # n => m \in DOMAIN graph \ dead /\ graph'[m] = Renamed(graph[m], old, n)
    BY <1>3
  <1>7. \A m \in DOMAIN graph \ dead : m # n /\ m \in live
    BY <1>2
  <1> HIDE DEF rest
  <1>8. ASSUME NEW m \in DOMAIN graph \ dead, NEW x \in InputNodes(graph[m]), x # old PROVE x \in live \ {n}
    <2>1. x \in DOMAIN graph /\ m \in Users(x)
      BY <1>8 DEF WellFormed, Users
    <2>2. x \notin dead
      BY <1>8, <2>1 DEF Closed
    <2> QED BY <1>7, <2>1, <2>2
  <1>9. \A x \in InputNodes(target) : x \in live \ {n}
    BY <1>7 DEF Closed
  <1>10. old \notin live /\ \A m \in DOMAIN graph : graph[m].op = "output" => m \in live
    BY <1>1, <1>2, <1>7 DEF Closed
  <1> QED BY <1>1, <1>2, <1>4, <1>5, <1>6, <1>7, <1>8, <1>9, <1>10 DEF Leaves

\* A rewrite keeps the fake values if the new node's agrees with the one it takes over.
LEMMA RewriteSettles ==
  ASSUME NodesInv, WellFormed, MetaInv, NEW at, NEW old, NEW target, NEW dead,
         Closed(at, old, target, dead), Rewrite(at, old, target, dead),
         Agrees(target.op, graph[old].val, Fake(CallIn(graph, [op |-> target.op, args |-> target.args, kw |-> NoKw])))
  PROVE  MetaInv'
  <1> DEFINE n == at + MaxNodes
             new == [op |-> target.op, args |-> target.args, kw |-> NoKw, val |-> graph[old].val]
             call == [op |-> target.op, args |-> target.args, kw |-> NoKw]
  <1>0. Leaves(graph, graph', n, old, target)
    BY RewriteLeaves
  <1>1. /\ n \notin DOMAIN graph /\ n \in DOMAIN graph' /\ old \in DOMAIN graph
        /\ graph'[n] = new
        /\ \A m \in DOMAIN graph' : m # n => m \in DOMAIN graph /\ graph'[m] = Renamed(graph[m], old, n)
        /\ \A m \in DOMAIN graph' : m # n => \A x \in InputNodes(graph[m]) : x # old => x \in DOMAIN graph' \ {n}
        /\ \A x \in InputNodes(target) : x \in DOMAIN graph' \ {n}
    BY <1>0 DEF Leaves
  <1>2. new.op = target.op /\ new.args = target.args /\ new.kw = NoKw /\ new.val = graph[old].val
    OBVIOUS
  <1> HIDE DEF n
  <1>3. ASSUME NEW m \in DOMAIN graph', m # n PROVE graph'[m].val = graph[m].val
    BY <1>1, <1>3, RenamedVal DEF NodesInv
  <1>4. graph'[n].val = graph[old].val
    BY <1>1, <1>2
  <1>5. ASSUME NEW m \in DOMAIN graph', m # n PROVE Settled(graph', graph'[m])
    <2>1. /\ m \in DOMAIN graph /\ IsNode(graph[m]) /\ Flat(graph[m]) /\ Settled(graph, graph[m])
          /\ graph'[m] = Renamed(graph[m], old, n)
      BY <1>1, <1>5 DEF NodesInv, MetaInv, AllSettled
    <2>2. graph'[m].op = graph[m].op /\ graph'[m].val = graph[m].val
      BY <2>1, RenamedOp, RenamedVal
    <2>3. CASE graph[m].op = "output"
      BY <2>2, <2>3 DEF Settled, ReduceOps, SdpaOps
    <2>4. CASE graph[m].op # "output"
      <3>1. \A x \in InputNodes(graph[m]) : x # old => graph'[x].val = graph[x].val
        BY <1>1, <1>3, <1>5
      <3>2. CallIn(graph', Renamed(graph[m], old, n)) = CallIn(graph, graph[m])
        BY <1>4, <2>1, <2>4, <3>1, CallKept
      <3> QED BY <2>1, <2>2, <3>2 DEF Settled
    <2> QED BY <2>3, <2>4
  <1>6. Settled(graph', graph'[n])
    <2>1. InputNodes(new) = InputNodes(target) /\ CallIn(graph, new) = CallIn(graph, call)
      BY <1>2 DEF InputNodes, CallIn, FakesIn
    <2>2. \A x \in InputNodes(new) : graph'[x].val = graph[x].val
      BY <1>1, <1>3, <2>1
    <2> HIDE DEF new
    <2>3. CallIn(graph', graph'[n]) = CallIn(graph, call)
      BY <1>1, <2>1, <2>2, CallSame
    <2>4. new.op \in KuiperOps
      BY <1>2 DEF Closed
    <2>5. new.op \notin ReduceOps /\ new.op \notin SdpaOps
      BY <2>4, KuiperOpsNew DEF Rewritten
    <2>6. Agrees(new.op, new.val, Fake(CallIn(graph, call)))
      BY <1>2
    <2> QED BY <1>1, <2>3, <2>5, <2>6 DEF Settled
  <1> QED BY <1>5, <1>6 DEF MetaInv, AllSettled
-----------------------------------------------------------------------------
(* The custom ops that stand for one node *)

ClaimedNumber(node, name) == Num("float", Keyword(node, name, Num("int", Unit)).val)
ClaimedScale(node) ==
  IF Keyword(node, "scale", Absent) = Absent THEN Word(<<"1/sqrt", Fakes(node)[1].shape[4]>>)
  ELSE Keyword(node, "scale", Absent)
ClaimedGiven(node, i) == IF i \in DOMAIN node.args THEN node.args[i] ELSE Flag(FALSE)
SdpaArgs(node) == <<node.args[1], node.args[2], node.args[3], node.args[4], ClaimedScale(node), ClaimedGiven(node, 7)>>

LEMMA ClaimsAre ==
  ASSUME NEW n, NEW claimed \in Claims(n)
  PROVE  \/ /\ graph[n].op \in {"mm", "bmm"} /\ claimed.args = graph[n].args
            /\ claimed.op = IF graph[n].op = "mm" THEN "kuiperjit.mm" ELSE "kuiperjit.bmm"
         \/ /\ graph[n].op = "addmm" /\ claimed.op = "kuiperjit.addmm"
            /\ claimed.args = <<graph[n].args[1], graph[n].args[2], graph[n].args[3],
                                ClaimedNumber(graph[n], "beta"), ClaimedNumber(graph[n], "alpha")>>
         \/ /\ graph[n].op \in SdpaOps /\ claimed.args = SdpaArgs(graph[n])
            /\ claimed.op = IF graph[n].op = "efficient" THEN "kuiperjit.sdpa" ELSE "kuiperjit.sdpa_cudnn"
            /\ Fakes(graph[n])[3].shape = Fakes(graph[n])[2].shape
            /\ Fakes(graph[n])[1].shape[4] = Fakes(graph[n])[2].shape[4]
  <1> DEFINE node == graph[n]
             ins == Fakes(node)
  <1>1. CASE node.op \in {"mm", "bmm"}
    <2>1. claimed = [op |-> IF node.op = "mm" THEN "kuiperjit.mm" ELSE "kuiperjit.bmm", args |-> node.args]
      BY <1>1 DEF Claims, SdpaOps
    <2> QED BY <1>1, <2>1
  <1>2. CASE node.op = "addmm"
    <2> DEFINE args == <<node.args[1], node.args[2], node.args[3], ClaimedNumber(node, "beta"), ClaimedNumber(node, "alpha")>>
    <2>1. claimed = [op |-> "kuiperjit.addmm", args |-> args]
      BY <1>2 DEF Claims, SdpaOps, ClaimedNumber
    <2> HIDE DEF args
    <2>2. claimed.op = "kuiperjit.addmm" /\ claimed.args = args
      BY <2>1
    <2> QED BY <1>2, <2>2 DEF args
  <1>3. CASE node.op \in SdpaOps
    <2> DEFINE args == SdpaArgs(node)
               op == IF node.op = "efficient" THEN "kuiperjit.sdpa" ELSE "kuiperjit.sdpa_cudnn"
               asked == <<ins[1], ins[2], ins[3], ins[4], ClaimedGiven(node, 5), Num("float", 0), ClaimedGiven(node, 7),
                          Flag(FALSE)>>
               c == [op |-> node.op, args |-> asked, kw |-> [scale |-> Keyword(node, "scale", Absent)]]
    <2>1. claimed = [op |-> op, args |-> args] /\ Supported(node.op, asked, [scale |-> Keyword(node, "scale", Absent)])
      BY <1>3, ZenonT(60) DEF Claims, SdpaOps, SdpaArgs, ClaimedScale, ClaimedGiven
    <2>2. claimed.op = op /\ claimed.args = args
      <3> HIDE DEF args
      <3> QED BY <2>1
    <2>3. Specs(c) # {}
      BY <2>1 DEF Supported
    <2>4. c.op = node.op /\ c.args = asked
      <3> HIDE DEF asked
      <3> QED OBVIOUS
    <2>5. asked[1] = ins[1] /\ asked[2] = ins[2] /\ asked[3] = ins[3]
      OBVIOUS
    <2> HIDE DEF c, asked, ins
    <2>6. SdpaSpecs(c) # {}
      BY <1>3, <2>3, <2>4 DEF Specs, SdpaOps, ElementwiseOps, Arithmetic, Unary, Binary, Compare, ReduceOps
    <2>7. c.args[3].shape = c.args[2].shape /\ c.args[1].shape[4] = c.args[2].shape[4]
      BY <2>6, ZenonT(60) DEF SdpaSpecs
    <2> QED BY <1>3, <2>2, <2>4, <2>5, <2>7 DEF ins
  <1>4. CASE node.op \notin {"mm", "bmm", "addmm"} \cup SdpaOps
    BY <1>4 DEF Claims
  <1> QED BY <1>1, <1>2, <1>3, <1>4

LEMMA ListItems == \A items : List(items).items = items
  BY DEF List

LEMMA SeedsDiffer == Plain("i64", <<>>) # Plain("i64", << 0 >>) /\ Plain("i64", << 0 >>) # Absent
  <1>1. ASSUME NEW x, NEW y, x = Plain("i64", <<>>), y = Plain("i64", << 0 >>) PROVE x # y /\ y # Absent
    <2>1. x.shape = <<>> /\ y.shape = << 0 >> /\ y.kind = "tensor"
      BY <1>1 DEF Plain, Tensor
    <2>2. <<>> # << 0 >>
      OBVIOUS
    <2>3. Absent.kind = "none"
      BY DEF Absent
    <2> QED BY <2>1, <2>2, <2>3
  <1> QED BY <1>1

\* Two results agree when the first of each is a tensor of one type and shape.
LEMMA ListsAgree ==
  ASSUME NEW op \in AttentionOps, NEW xs, NEW ys, NEW dtype, NEW shape, NEW stride, NEW other,
         xs[1] = Tensor(dtype, shape, stride, TRUE, 0), ys[1] = Tensor(dtype, shape, other, TRUE, 0),
         Len(xs) = Len(ys), xs[3] # ys[3]
  PROVE  Agrees(op, List(xs), List(ys))
  <1>1. List(xs).items = xs /\ List(ys).items = ys
    BY ListItems
  <1>2. xs[1].dtype = dtype /\ xs[1].shape = shape /\ ys[1].dtype = dtype /\ ys[1].shape = shape
    BY DEF Tensor
  <1>3. List(xs) # List(ys)
    BY <1>1
  <1> QED BY <1>1, <1>2, <1>3 DEF Agrees

\* The fakes of attention differ in the seeds, and agree in the first result.
LEMMA AttentionAgrees ==
  ASSUME NEW c, NEW d, c.op \in SdpaOps,
         d.op = (IF c.op = "efficient" THEN "kuiperjit.sdpa" ELSE "kuiperjit.sdpa_cudnn"),
         d.args[1] = c.args[1], d.args[3] = c.args[3],
         c.args[3].shape[4] = c.args[1].shape[4], c.args[1].shape \in [1..4 -> Nat]
  PROVE  Agrees(d.op, FakeAttention(c), FakeAttention(d))
  <1> DEFINE Q == c.args[1]
             out == <<Q.shape[1], Q.shape[2], Q.shape[3], c.args[3].shape[4]>>
             first(stride) == Tensor(Q.dtype, out, stride, TRUE, 0)
             seed == Plain("i64", <<>>)
             none == Plain("i64", <<0>>)
             lse(rows) == Plain("f32", <<Q.shape[1], Q.shape[2], rows>>)
             asked == Argument(c, 5, "compute_log_sumexp", Flag(FALSE)).val
             lengths == <<Num("int", out[3] * Unit), Num("int", c.args[2].shape[3] * Unit), Num("int", 0 * Unit)>>
             heads == <<out[2] * out[3] * out[4], out[4], out[2] * out[4], 1>>
             queried == IF out = Q.shape THEN Q.stride ELSE RowMajor(out)
             padded == IF asked THEN ((out[3] + 31) \div 32) * 32 ELSE 0
             debug == Plain(Q.dtype, <<0>>)
  <1>1. out = Q.shape
    <2> DEFINE shape == Q.shape
    <2>1. <<shape[1], shape[2], shape[3], shape[4]>> = shape
      <3>1. shape \in [1..4 -> Nat]
        OBVIOUS
      <3> HIDE DEF shape
      <3> QED BY <3>1
    <2>2. out = <<shape[1], shape[2], shape[3], shape[4]>>
      OBVIOUS
    <2> HIDE DEF shape, out
    <2> QED BY <2>1, <2>2 DEF shape
  <1>2. /\ c.op = "efficient" => FakeAttention(c) = List(<<first(heads), lse(padded), seed, seed>>)
        /\ c.op = "cudnn" => FakeAttention(c) = List(<<first(queried), lse(out[3]), Absent, Absent, lengths[1], lengths[2],
                                                      seed, seed, Absent>>)
    BY Zenon DEF FakeAttention
  <1>3. /\ d.op = "kuiperjit.sdpa" => FakeAttention(d) = List(<<first(RowMajor(out)), lse(0), none, none>>)
        /\ d.op = "kuiperjit.sdpa_cudnn" =>
             FakeAttention(d) = List(<<Plain(Q.dtype, Q.shape), lse(0), none, none, lengths[3], lengths[3], seed, seed, debug>>)
    BY Zenon DEF FakeAttention, Plain
  <1>4. Plain(Q.dtype, Q.shape) = first(RowMajor(Q.shape))
    BY <1>1, Zenon DEF Plain
  <1>5. d.op \in AttentionOps
    BY DEF AttentionOps
  <1>6. seed # none /\ none # Absent
    BY SeedsDiffer
  <1> HIDE DEF Q, out, seed, none, lse, lengths, heads, queried, padded, debug, asked
  <1>7. CASE c.op = "efficient"
    <2> DEFINE xs == <<first(heads), lse(padded), seed, seed>>
               ys == <<first(RowMajor(out)), lse(0), none, none>>
    <2>1. FakeAttention(c) = List(xs) /\ FakeAttention(d) = List(ys)
      BY <1>2, <1>3, <1>7
    <2>2. xs[1] = first(heads) /\ ys[1] = first(RowMajor(out)) /\ xs[3] = seed /\ ys[3] = none /\ Len(xs) = 4 /\ Len(ys) = 4
      OBVIOUS
    <2> HIDE DEF xs, ys
    <2> QED BY <1>5, <1>6, <2>1, <2>2, ListsAgree
  <1>8. CASE c.op = "cudnn"
    <2> DEFINE xs == <<first(queried), lse(out[3]), Absent, Absent, lengths[1], lengths[2], seed, seed, Absent>>
               ys == <<Plain(Q.dtype, Q.shape), lse(0), none, none, lengths[3], lengths[3], seed, seed, debug>>
    <2>1. FakeAttention(c) = List(xs) /\ FakeAttention(d) = List(ys)
      BY <1>2, <1>3, <1>8
    <2>2. /\ xs[1] = first(queried) /\ ys[1] = Plain(Q.dtype, Q.shape) /\ xs[3] = Absent /\ ys[3] = none
          /\ Len(xs) = 9 /\ Len(ys) = 9
      OBVIOUS
    <2> HIDE DEF xs, ys
    <2> QED BY <1>4, <1>5, <1>6, <2>1, <2>2, ListsAgree
  <1> QED BY <1>7, <1>8 DEF SdpaOps

\* Its fake implementation agrees with what aten's says of the node.
LEMMA ClaimsFake ==
  ASSUME NodesInv, MetaInv, NEW n \in DOMAIN graph, NEW claimed \in Claims(n)
  PROVE  Agrees(claimed.op, graph[n].val,
                Fake(CallIn(graph, [op |-> claimed.op, args |-> claimed.args, kw |-> NoKw])))
  <1> DEFINE node == graph[n]
             c == CallIn(graph, node)
             call == [op |-> claimed.op, args |-> claimed.args, kw |-> NoKw]
             d == CallIn(graph, call)
  <1>0. call.op = claimed.op /\ call.args = claimed.args
    OBVIOUS
  <1> HIDE DEF call
  <1>1. c.op = node.op /\ d.op = claimed.op /\ c.args = FakesIn(graph, node) /\ d.args = FakesIn(graph, call)
    BY <1>0, CallFields
  <1>2. Settled(graph, graph[n]) /\ Signature(node)
    BY DEF MetaInv, AllSettled, NodesInv
  <1>3. Fakes(node) = c.args
    BY <1>1 DEF Fakes, FakesIn
  <1>4. ASSUME NEW i, i \in DOMAIN node.args, i \in DOMAIN claimed.args, claimed.args[i] = node.args[i]
        PROVE  d.args[i] = c.args[i]
    BY <1>0, <1>1, <1>4 DEF FakesIn
  <1>5. node.op \notin {"placeholder", "output"} \cup AttentionOps => node.val = Fake(c)
    BY <1>2, SettledElsewhere
  <1>6. node.op \in SdpaOps => c.args[1].shape \in [1..4 -> Nat]
    BY <1>2 DEF Settled
  <1>7. CASE node.op \in {"mm", "bmm"} /\ claimed.args = node.args
             /\ claimed.op = IF node.op = "mm" THEN "kuiperjit.mm" ELSE "kuiperjit.bmm"
    <2>1. d.args = c.args
      BY <1>0, <1>1, <1>7 DEF FakesIn
    <2> HIDE DEF c, d, node
    <2>2. Fake(d) = Fake(c)
      <3>1. CASE node.op = "mm"
        <4>1. c.op = "mm" /\ d.op = "kuiperjit.mm"
          BY <1>1, <1>7, <3>1
        <4> QED BY <2>1, <4>1, FakeOps
      <3>2. CASE node.op = "bmm"
        <4>1. c.op = "bmm" /\ d.op = "kuiperjit.bmm"
          BY <1>1, <1>7, <3>2
        <4> QED BY <2>1, <4>1, FakeOps
      <3> QED BY <1>7, <3>1, <3>2
    <2>3. node.val = Fake(d) /\ claimed.op \notin AttentionOps
      BY <1>5, <1>7, <2>2 DEF AttentionOps
    <2> QED BY <2>3, AgreesElsewhere DEF node, d, call
  <1>8. CASE node.op = "addmm" /\ claimed.op = "kuiperjit.addmm"
             /\ claimed.args = <<node.args[1], node.args[2], node.args[3],
                                 ClaimedNumber(node, "beta"), ClaimedNumber(node, "alpha")>>
    <2>1. 2 \in DOMAIN node.args /\ 3 \in DOMAIN node.args
      BY <1>2, <1>8 DEF Signature
    <2>2. 2 \in DOMAIN claimed.args /\ 3 \in DOMAIN claimed.args
          /\ claimed.args[2] = node.args[2] /\ claimed.args[3] = node.args[3]
      BY <1>8
    <2>3. d.args[2] = c.args[2] /\ d.args[3] = c.args[3]
      BY <1>4, <2>1, <2>2
    <2> HIDE DEF c, d, node
    <2>4. Fake(d) = Fake(c)
      BY <1>1, <1>8, <2>3, FakeOps
    <2>5. node.val = Fake(d) /\ claimed.op \notin AttentionOps
      BY <1>5, <1>8, <2>4 DEF AttentionOps
    <2> QED BY <2>5, AgreesElsewhere DEF node, d, call
  <1>9. CASE node.op \in SdpaOps /\ claimed.args = SdpaArgs(node)
             /\ claimed.op = (IF node.op = "efficient" THEN "kuiperjit.sdpa" ELSE "kuiperjit.sdpa_cudnn")
             /\ Fakes(node)[3].shape = Fakes(node)[2].shape /\ Fakes(node)[1].shape[4] = Fakes(node)[2].shape[4]
    <2>1. 1 \in DOMAIN node.args /\ 3 \in DOMAIN node.args
      BY <1>2, <1>9 DEF Signature
    <2>2. 1 \in DOMAIN claimed.args /\ 3 \in DOMAIN claimed.args
          /\ claimed.args[1] = node.args[1] /\ claimed.args[3] = node.args[3]
      BY <1>9 DEF SdpaArgs
    <2>3. d.args[1] = c.args[1] /\ d.args[3] = c.args[3]
      BY <1>4, <2>1, <2>2
    <2>4. c.args[3].shape[4] = c.args[1].shape[4] /\ c.args[1].shape \in [1..4 -> Nat]
      BY <1>3, <1>6, <1>9
    <2> HIDE DEF c, d, node
    <2>5. Agrees(d.op, FakeAttention(c), FakeAttention(d))
      BY <1>1, <1>9, <2>3, <2>4, AttentionAgrees
    <2>6. Fake(c) = FakeAttention(c) /\ Fake(d) = FakeAttention(d)
      <3>1. c.op \in SdpaOps \cup AttentionOps /\ d.op \in SdpaOps \cup AttentionOps
        BY <1>1, <1>9 DEF AttentionOps
      <3> QED BY <3>1, FakeOps
    <2>7. node.val = Fake(c)
      BY <1>5, <1>9 DEF SdpaOps, AttentionOps
    <2> QED BY <1>1, <2>5, <2>6, <2>7 DEF node, d, call
  <1> QED BY ClaimsAre, <1>7, <1>8, <1>9
-----------------------------------------------------------------------------
(* The custom op that stands for a chain of maps around a reduction *)

\* ReducedDims and ReduceDim, by the dim they go by.
AxesOf(dim, rank) ==
  LET dims == CASE dim = Absent \/ (dim.kind = "list" /\ dim.items = <<>>) -> [i \in 1..rank |-> i - 1]
                [] dim.kind = "list" /\ dim.items # <<>> -> [i \in DOMAIN dim.items |-> NormDim(dim.items[i].val, rank)]
                [] OTHER -> <<NormDim(dim.val, rank)>>
  IN  IF Cardinality({dims[i] : i \in DOMAIN dims}) # Len(dims) THEN {} ELSE {dims[i] + 1 : i \in DOMAIN dims}
DimOf(dim, rank) ==
  CASE dim = Absent -> IF rank = 1 THEN 0 ELSE None
    [] dim.kind = "list" -> IF Len(dim.items) = 1 THEN NormDim(dim.items[1].val, rank) ELSE None
    [] OTHER -> NormDim(dim.val, rank)

LEMMA OneAxis ==
  ASSUME NEW v \in Int
  PROVE  /\ Cardinality({<<v>>[i] : i \in DOMAIN <<v>>}) = Len(<<v>>)
         /\ {<<v>>[i] + 1 : i \in DOMAIN <<v>>} = {v + 1}
  <1>1. {<<v>>[i] : i \in DOMAIN <<v>>} = {v} /\ Len(<<v>>) = 1 /\ {<<v>>[i] + 1 : i \in DOMAIN <<v>>} = {v + 1}
    OBVIOUS
  <1>2. Cardinality({v}) = 1
    BY FS_Singleton
  <1> QED BY <1>1, <1>2

\* One axis in range is the axis its node reduced.
LEMMA AxisOf ==
  ASSUME NEW rank \in Nat, NEW dim \in Dims, AxesOf(dim, rank) \in (SUBSET (1..rank)) \ {{}},
         DimOf(dim, rank) # None
  PROVE  DimOf(dim, rank) \in 0..(rank - 1) /\ AxesOf(dim, rank) = {DimOf(dim, rank) + 1}
  <1> DEFINE d == DimOf(dim, rank)
             axes == [kind : {"index"}, val : Int]
  <1>1. ASSUME d \in Int, AxesOf(dim, rank) = {d + 1} PROVE d \in 0..(rank - 1)
    BY <1>1
  <1>2. CASE dim = Absent
    <2>1. rank = 1 /\ d = 0
      BY <1>2 DEF DimOf, Absent
    <2>2. [i \in 1..1 |-> i - 1] = <<0>>
      OBVIOUS
    <2>3. AxesOf(dim, rank) = {0 + 1}
      <3> DEFINE dims == <<0>>
      <3>1. AxesOf(dim, rank) = IF Cardinality({dims[i] : i \in DOMAIN dims}) # Len(dims) THEN {}
                                ELSE {dims[i] + 1 : i \in DOMAIN dims}
        BY <1>2, <2>1, <2>2 DEF AxesOf, Absent
      <3> QED BY <3>1, OneAxis
    <2> QED BY <1>1, <2>1, <2>3
  <1>3. CASE dim \in axes
    <2>1. dim.kind = "index" /\ dim.val \in Int /\ dim # Absent
      BY <1>3 DEF Absent
    <2>2. d = NormDim(dim.val, rank) /\ d \in Int
      BY <2>1 DEF DimOf, NormDim
    <2>3. AxesOf(dim, rank) = {d + 1}
      <3> DEFINE dims == <<d>>
      <3>1. AxesOf(dim, rank) = IF Cardinality({dims[i] : i \in DOMAIN dims}) # Len(dims) THEN {}
                                ELSE {dims[i] + 1 : i \in DOMAIN dims}
        BY <2>1, <2>2 DEF AxesOf
      <3> QED BY <2>2, <3>1, OneAxis
    <2> QED BY <1>1, <2>2, <2>3
  <1>4. CASE dim \in [kind : {"list"}, items : Seq(axes)]
    <2>1. dim.kind = "list" /\ dim.items \in Seq(axes) /\ dim # Absent
      BY <1>4 DEF Absent
    <2>2. Len(dim.items) = 1 /\ d = NormDim(dim.items[1].val, rank)
      BY <2>1 DEF DimOf
    <2>3. DOMAIN dim.items = 1..1 /\ dim.items # <<>> /\ dim.items[1] \in axes
      <3> DEFINE items == dim.items
      <3>1. items \in Seq(axes) /\ Len(items) = 1
        BY <2>1, <2>2
      <3> HIDE DEF items, axes
      <3>2. DOMAIN items = 1..1 /\ items # <<>> /\ items[1] \in axes
        BY <3>1
      <3> QED BY <3>2 DEF items
    <2>4. d \in Int
      BY <2>2, <2>3 DEF NormDim
    <2>5. [i \in DOMAIN dim.items |-> NormDim(dim.items[i].val, rank)] = <<d>>
      BY <2>2, <2>3
    <2>6. AxesOf(dim, rank) = {d + 1}
      <3> DEFINE dims == [i \in DOMAIN dim.items |-> NormDim(dim.items[i].val, rank)]
      <3> HIDE DEF d
      <3>1. AxesOf(dim, rank) = IF Cardinality({dims[i] : i \in DOMAIN dims}) # Len(dims) THEN {}
                                ELSE {dims[i] + 1 : i \in DOMAIN dims}
        BY <2>1, <2>3 DEF AxesOf
      <3>2. dims = <<d>>
        BY <2>5
      <3> HIDE DEF dims
      <3> QED BY <2>4, <3>1, <3>2, OneAxis
    <2> QED BY <1>1, <2>4, <2>6
  <1> QED BY <1>2, <1>3, <1>4 DEF Dims

\* What the fused op passes on names that axis.
LEMMA AxisPassed ==
  ASSUME NEW rank \in Nat, NEW d \in 0..(rank - 1)
  PROVE  AxesOf(Index(d), rank) = {d + 1} /\ AxesOf(List(<<Index(d)>>), rank) = {d + 1}
  <1> DEFINE dims == <<d>>
  <1>1. d \in Int /\ NormDim(d, rank) = d
    BY DEF NormDim
  <1>2. (IF Cardinality({dims[i] : i \in DOMAIN dims}) # Len(dims) THEN {} ELSE {dims[i] + 1 : i \in DOMAIN dims}) = {d + 1}
    BY <1>1, OneAxis
  <1>3. Index(d).kind = "index" /\ Index(d).val = d /\ Index(d) # Absent
    BY DEF Index, Absent
  <1>4. AxesOf(Index(d), rank) = {d + 1}
    BY <1>1, <1>2, <1>3 DEF AxesOf
  <1> DEFINE one == List(<<Index(d)>>)
             items == <<Index(d)>>
  <1>5. one.kind = "list" /\ one.items = items /\ one # Absent
    BY DEF List, Absent
  <1>6. DOMAIN items = 1..1 /\ items[1] = Index(d) /\ items # <<>>
    OBVIOUS
  <1> HIDE DEF items, one
  <1>7. [i \in DOMAIN items |-> NormDim(items[i].val, rank)] = dims
    BY <1>1, <1>3, <1>6
  <1> HIDE DEF dims
  <1>8. AxesOf(one, rank) = {d + 1}
    BY <1>2, <1>5, <1>6, <1>7 DEF AxesOf
  <1> QED BY <1>4, <1>8 DEF one, items
LEMMA DimsAre ==
  ASSUME NEW c, NEW rank
  PROVE  ReducedDims(c, rank) = AxesOf(Argument(c, 2, "dim", Absent), rank)
  BY DEF ReducedDims, AxesOf
LEMMA DimIs ==
  ASSUME NEW node, NEW rank
  PROVE  ReduceDim(node, rank) = DimOf(Argument(node, 2, "dim", Absent), rank)
  BY DEF ReduceDim, DimOf

\* The call u that a fused op stands for is the call c with maps around it.
Unpacks(u, c, pre, post) ==
  /\ u.op = c.op /\ u.args[1] = c.args[1]
  /\ ReducedDims(u, Len(c.args[1].shape)) = ReducedDims(c, Len(c.args[1].shape))
  /\ Argument(u, 3, "keepdim", Flag(FALSE)) = Argument(c, 3, "keepdim", Flag(FALSE))
  /\ Keyword(u, "dtype", Absent) = Keyword(c, "dtype", Absent)
  /\ Keyword(u, "pre_map", List(<<>>)) = pre /\ Keyword(u, "post_map", List(<<>>)) = post

\* What becomes of the arguments a fused op is given.
PassedOn(u, x, op, d, keepdim, dtype, pre, post) ==
  /\ u.op = op /\ u.args[1] = x /\ u.args[2] \in {Index(d), List(<<Index(d)>>)}
  /\ Argument(u, 2, "dim", Absent) = u.args[2]
  /\ Argument(u, 3, "keepdim", Flag(FALSE)) = keepdim
  /\ Keyword(u, "dtype", Absent) = dtype
  /\ Keyword(u, "pre_map", List(<<>>)) = pre /\ Keyword(u, "post_map", List(<<>>)) = post

LEMMA UnpackedArgs ==
  ASSUME NEW x, NEW op, NEW d, NEW keepdim, NEW dtype, NEW pre, NEW post,
         NEW u, u = Unpacked(<<x, Word(op), Index(d), keepdim, dtype, pre, post>>)
  PROVE  PassedOn(u, x, op, d, keepdim, dtype, pre, post)
  <1> DEFINE args == <<x, Word(op), Index(d), keepdim, dtype, pre, post>>
             given == {"pre_map", "post_map"} \cup {name \in {"dtype"} : dtype # Absent}
             kw == [name \in given |-> CASE name = "pre_map" -> pre [] name = "post_map" -> post [] OTHER -> dtype]
             dim == IF op \in {"sum", "mean"} THEN List(<<Index(d)>>) ELSE Index(d)
             default == Flag(FALSE)
             none == List(<<>>)
  <1>1. args[1] = x /\ args[2] = Word(op) /\ args[3] = Index(d) /\ args[4] = keepdim /\ args[5] = dtype
        /\ args[6] = pre /\ args[7] = post
    OBVIOUS
  <1>2. Word(op).val = op
    BY DEF Word
  <1> HIDE DEF args
  <1>3. u = [op |-> op, args |-> <<x, dim, keepdim>>, kw |-> kw]
    <2>1. u = Unpacked(args)
      BY DEF args
    <2> QED BY <1>1, <1>2, <2>1, Zenon DEF Unpacked
  <1>4. kw["pre_map"] = pre /\ kw["post_map"] = post /\ "pre_map" \in DOMAIN kw /\ "post_map" \in DOMAIN kw
    OBVIOUS
  <1>5. IF dtype = Absent THEN "dtype" \notin DOMAIN kw ELSE "dtype" \in DOMAIN kw /\ kw["dtype"] = dtype
    OBVIOUS
  <1> HIDE DEF kw, dim, default, none
  <1>6. u.op = op /\ u.args = <<x, dim, keepdim>> /\ u.kw = kw
    BY <1>3
  <1>7. u.args[1] = x /\ u.args[2] = dim /\ u.args[3] = keepdim /\ 2 \in DOMAIN u.args /\ 3 \in DOMAIN u.args
    BY <1>6
  <1>8. dim \in {Index(d), List(<<Index(d)>>)}
    BY DEF dim
  <1>9. Argument(u, 2, "dim", Absent) = u.args[2] /\ Argument(u, 3, "keepdim", default) = keepdim
    BY <1>7 DEF Argument
  <1>10. Keyword(u, "dtype", Absent) = dtype /\ Keyword(u, "pre_map", none) = pre /\ Keyword(u, "post_map", none) = post
    BY <1>4, <1>5, <1>6 DEF Keyword
  <1> QED BY <1>6, <1>7, <1>8, <1>9, <1>10, Zenon DEF PassedOn, default, none

FusedStands(n, root, pre, post) ==
  LET node == graph[n]
      fused == Fused(node, root, pre, post)
      t == CallIn(graph, [op |-> fused.op, args |-> fused.args, kw |-> NoKw])
  IN  /\ t.op = "kuiperjit.hreduce_poly" /\ Fakes(fused) = t.args
      /\ fused.args[1] = Ref(root) /\ t.args[1] = graph[root].val /\ 1 \in DOMAIN fused.args
      /\ Unpacks(Unpacked(t.args), CallIn(graph, node), pre, post)

LEMMA FusedUnpacks ==
  ASSUME NEW n \in DOMAIN graph, graph[n].op \in ReduceOps, Signature(graph[n]), Settled(graph, graph[n]),
         NEW root, NEW pre, NEW post, pre.kind = "list", post.kind = "list",
         graph[root].val = graph[graph[n].args[1].id].val, Len(graph[root].val.shape) \in Nat,
         ReduceDim(graph[n], Len(graph[root].val.shape)) # None
  PROVE  FusedStands(n, root, pre, post)
  <1> DEFINE node == graph[n]
             X == graph[root].val
             rank == Len(X.shape)
             c == CallIn(graph, node)
             default == Flag(FALSE)
             dim == Argument(node, 2, "dim", Absent)
             keepdim == Argument(node, 3, "keepdim", default)
             dtype == Keyword(node, "dtype", Absent)
             d == ReduceDim(node, rank)
             fused == Fused(node, root, pre, post)
             args == <<Ref(root), Word(node.op), Index(d), keepdim, dtype, pre, post>>
             fakes == <<X, Word(node.op), Index(d), keepdim, dtype, pre, post>>
             call == [op |-> fused.op, args |-> fused.args, kw |-> NoKw]
             t == CallIn(graph, call)
  <1>1. /\ 1 \in DOMAIN node.args /\ node.args[1].kind = "node"
        /\ \A i \in DOMAIN node.args : i # 1 => NodesOf(node.args[i]) = {}
        /\ \A k \in DOMAIN node.kw : NodesOf(node.kw[k]) = {}
        /\ DOMAIN node.kw \subseteq {"given", "dtype"}
        /\ 2 \in DOMAIN node.args => node.args[2] \in Dims
    BY DEF Signature
  <1>2. \A a : NodesOf(a) = {} => a.kind # "node"
    BY NodesOfNode
  <1>3. c.op = node.op /\ c.kw = node.kw /\ c.args = FakesIn(graph, node)
    BY CallFields
  <1>4. c.args[1] = X /\ DOMAIN c.args = DOMAIN node.args
    BY <1>1, <1>3 DEF FakesIn
  <1>5. ASSUME NEW i \in DOMAIN node.args, i # 1 PROVE c.args[i] = node.args[i]
    <2>1. node.args[i].kind # "node"
      BY <1>1, <1>2, <1>5
    <2> HIDE DEF c, node
    <2> QED BY <1>3, <2>1 DEF FakesIn
  <1>6. Argument(c, 2, "dim", Absent) = dim /\ Argument(c, 3, "keepdim", default) = keepdim /\ Keyword(c, "dtype", Absent) = dtype
    <2> HIDE DEF default, c, node
    <2> QED BY <1>3, <1>4, <1>5 DEF Argument, Keyword
  <1>7. keepdim.kind # "node" /\ dtype.kind # "node" /\ dim \in Dims
    <2>1. default.kind # "node" /\ Absent.kind # "node" /\ Absent \in Dims
      BY DEF Flag, Absent, Dims
    <2> HIDE DEF default, node
    <2>2. ASSUME 3 \in DOMAIN node.args PROVE node.args[3].kind # "node"
      <3>1. \A i \in DOMAIN node.args : i # 1 => NodesOf(node.args[i]) = {}
        BY <1>1
      <3>2. 3 # 1
        OBVIOUS
      <3>3. NodesOf(node.args[3]) = {}
        BY <2>2, <3>1, <3>2, Zenon
      <3> QED BY <1>2, <3>3, Zenon
    <2>3. \A k \in DOMAIN node.kw : node.kw[k].kind # "node"
      BY <1>1, <1>2
    <2>4. keepdim.kind # "node" /\ dtype.kind # "node"
      BY <2>1, <2>2, <2>3 DEF Argument, Keyword
    <2>5. dim \in Dims
      BY <1>1, <2>1 DEF Argument, Keyword
    <2> QED BY <2>4, <2>5
  <1>8. fused.op = "kuiperjit.hreduce_poly" /\ fused.args = args
    BY DEF Fused
  <1>9. Ref(root).kind = "node" /\ Ref(root).id = root /\ Word(node.op).kind # "node" /\ Index(d).kind # "node"
    BY DEF Ref, Word, Index
  <1> HIDE DEF keepdim, dtype, dim, d, default, fused, node, c
  <1>10. [i \in DOMAIN args |-> IF args[i].kind = "node" THEN graph[args[i].id].val ELSE args[i]] = fakes
    BY <1>7, <1>9
  <1>11. Fakes(fused) = fakes /\ 1 \in DOMAIN fused.args /\ fused.args[1] = Ref(root)
    <2>1. Fakes(fused) = fakes
      <3> HIDE DEF args, fakes
      <3> QED BY <1>8, <1>10 DEF Fakes
    <2> QED BY <1>8, <2>1
  <1>12. call.op = "kuiperjit.hreduce_poly" /\ call.args = fused.args
    BY <1>8
  <1> HIDE DEF call
  <1>13. t.op = "kuiperjit.hreduce_poly" /\ t.args = fakes
    <2>1. t.op = call.op /\ t.args = FakesIn(graph, call)
      BY CallFields
    <2>2. FakesIn(graph, call) = Fakes(fused)
      BY <1>12 DEF FakesIn, Fakes
    <2> QED BY <1>11, <1>12, <2>1, <2>2
  <1>14. fakes[1] = X
    OBVIOUS
  <1> DEFINE u == Unpacked(fakes)
  <1> HIDE DEF t
  <1>15. PassedOn(u, X, node.op, d, keepdim, dtype, pre, post)
    BY UnpackedArgs
  <1> HIDE DEF u, fakes
  <1>16. ReducedDims(u, rank) = ReducedDims(c, rank)
    <2>1. ReducedDims(c, rank) = AxesOf(dim, rank) /\ d = DimOf(dim, rank) /\ d # None
      BY <1>6, DimsAre, DimIs DEF dim, d, node
    <2>2. AxesOf(dim, rank) \in (SUBSET (1..rank)) \ {{}} /\ rank \in Nat
      BY <1>4, <2>1 DEF Settled, c, node
    <2>3. d \in 0..(rank - 1) /\ AxesOf(dim, rank) = {d + 1}
      BY <1>7, <2>1, <2>2, AxisOf
    <2>4. AxesOf(u.args[2], rank) = {d + 1}
      BY <1>15, <2>2, <2>3, AxisPassed DEF PassedOn
    <2> QED BY <1>15, <2>1, <2>3, <2>4, DimsAre DEF PassedOn
  <1>17. Unpacks(u, c, pre, post)
    <2> HIDE DEF rank
    <2> QED BY <1>3, <1>4, <1>6, <1>15, <1>16 DEF Unpacks, PassedOn, default, rank
  <1> QED BY <1>11, <1>13, <1>14, <1>17 DEF FusedStands, u, t, c, call, fused, node

\* A map has the fake value of what it maps, and so has every node of a chain.
LEMMA MapVal ==
  ASSUME NodesInv, MetaInv, NEW n \in DOMAIN graph, MapOf(n) # None
  PROVE  graph[n].val = graph[graph[n].args[1].id].val
  <1> DEFINE c == CallIn(graph, graph[n])
  <1>1. graph[n].op \in Arithmetic /\ graph[n].args[1].kind = "node"
    BY DEF MapOf
  <1>2. 1 \in DOMAIN graph[n].args /\ Settled(graph, graph[n])
    BY <1>1 DEF NodesInv, Signature, MetaInv, AllSettled
  <1>3. c.op = graph[n].op /\ c.args = FakesIn(graph, graph[n])
    BY CallFields
  <1> HIDE DEF c
  <1>4. c.args[1] = graph[graph[n].args[1].id].val
    BY <1>1, <1>2, <1>3 DEF FakesIn
  <1>5. Fake(c) = c.args[1]
    BY <1>1, <1>3, FakeOps
  <1>6. graph[n].op \notin {"placeholder", "output"} \cup AttentionOps
    BY <1>1 DEF Arithmetic, Unary, Binary, AttentionOps
  <1>7. graph[n].val = Fake(c)
    BY <1>2, <1>6, SettledElsewhere DEF c
  <1> QED BY <1>4, <1>5, <1>7

LEMMA ChainVal ==
  ASSUME NodesInv, MetaInv, NEW chain \in Seq(DOMAIN graph), IsChain(chain), NEW i \in 1..Len(chain)
  PROVE  graph[chain[i]].val = graph[chain[1]].val
  <1> DEFINE bad == {j \in 1..Len(chain) : graph[chain[j]].val # graph[chain[1]].val}
  <1> SUFFICES ASSUME bad # {} PROVE FALSE
    OBVIOUS
  <1>1. Len(chain) \in Nat /\ \A j \in 1..Len(chain) : chain[j] \in DOMAIN graph
    OBVIOUS
  <1>2. PICK j \in bad : \A k \in bad : j <= k
    <2>1. bad \subseteq Nat
      OBVIOUS
    <2> QED BY <2>1, LeastNumber
  <1>3. j \in 1..Len(chain) /\ j # 1
    OBVIOUS
  <1>4. j - 1 \in 1..(Len(chain) - 1) /\ (j - 1) + 1 = j /\ j - 1 \in 1..Len(chain)
    BY <1>1, <1>3
  <1>5. graph[chain[j - 1]].val = graph[chain[1]].val
    BY <1>1, <1>2, <1>4
  <1>6. MapOf(chain[j]) # None /\ graph[chain[j]].args[1].id = chain[j - 1]
    BY <1>4 DEF IsChain
  <1>7. graph[chain[j]].val = graph[chain[j - 1]].val
    BY <1>1, <1>3, <1>6, MapVal
  <1> QED BY <1>5, <1>7

\* A fusion, its chains, and the call its op stands for.
FusesChains(f, n, back, forth) ==
  LET t == CallIn(graph, [op |-> f.node.op, args |-> f.node.args, kw |-> NoKw]) IN
  /\ n \in DOMAIN graph /\ graph[n].op \in ReduceOps
  /\ 1 \in DOMAIN graph[n].args /\ graph[n].args[1].kind = "node" /\ graph[n].args[1].id = Last(back)
  /\ back \in Seq(DOMAIN graph) /\ Len(back) > 0 /\ IsChain(back)
  /\ forth \in Seq(DOMAIN graph) /\ Len(forth) > 0 /\ IsChain(forth) /\ forth[1] = n
  /\ f.tail = Last(forth)
  /\ t.op = "kuiperjit.hreduce_poly" /\ 1 \in DOMAIN f.node.args
  /\ f.node.args[1] = Ref(back[1]) /\ t.args[1] = graph[back[1]].val
  /\ Unpacks(Unpacked(t.args), CallIn(graph, graph[n]), Maps(Tail(back)), Maps(Tail(forth)))

LEMMA FusionsAre ==
  ASSUME NodesInv, WellFormed, MetaInv, NEW n, NEW f \in Fusions(n)
  PROVE  FusesChains(f, n, CollectPre(graph[n].args[1].id), CollectPost(n))
  <1> DEFINE src == graph[n].args[1].id
             back == CollectPre(src)
             forth == CollectPost(n)
             pre == Maps(Tail(back))
             post == Maps(Tail(forth))
             root == Head(back)
             dead == Range(Tail(back)) \cup Range(forth)
  <1>1. n \in DOMAIN graph /\ graph[n].op \in ReduceOps
    BY DEF Fusions
  <1>2. /\ f = [node |-> Fused(graph[n], root, pre, post), tail |-> Last(forth), dead |-> dead]
        /\ ReduceDim(graph[n], Len(graph[root].val.shape)) # None /\ Specs(Unpacked(Fakes(f.node))) # {}
    BY <1>1 DEF Fusions
  <1>3. f.node = Fused(graph[n], root, pre, post) /\ f.tail = Last(forth)
    BY <1>2
  <1>4. Signature(graph[n]) /\ Settled(graph, graph[n])
    BY <1>1 DEF NodesInv, MetaInv, AllSettled
  <1>5. 1 \in DOMAIN graph[n].args /\ graph[n].args[1].kind = "node" /\ src \in DOMAIN graph /\ n \in Users(src)
    <2>1. 1 \in DOMAIN graph[n].args /\ graph[n].args[1].kind = "node"
      BY <1>1, <1>4 DEF Signature
    <2>2. src \in InputNodes(graph[n])
      BY <2>1, NodesOfNode, InputNodesArg
    <2> QED BY <1>1, <2>1, <2>2 DEF WellFormed, Users
  <1> HIDE DEF src
  <1>6. back \in Seq(DOMAIN graph) /\ Len(back) > 0 /\ IsChain(back) /\ Last(back) = src
    BY <1>5, PreChain
  <1>7. forth \in Seq(DOMAIN graph) /\ Len(forth) > 0 /\ IsChain(forth) /\ Head(forth) = n
    BY <1>1, PostChain
  <1>8. pre.kind = "list" /\ post.kind = "list"
    BY DEF Maps, List
  <1> HIDE DEF back, forth, pre, post
  <1>9. root = back[1] /\ forth[1] = n /\ Last(back) = back[Len(back)] /\ Len(back) \in 1..Len(back)
    BY <1>6, <1>7 DEF Last
  <1>10. graph[root].val = graph[src].val
    BY <1>6, <1>9, ChainVal
  <1> HIDE DEF root
  <1>11. Len(graph[root].val.shape) \in Nat
    <2> DEFINE args == Fakes(Fused(graph[n], root, pre, post))
               d == Index(ReduceDim(graph[n], Len(graph[root].val.shape)))
               keepdim == Argument(graph[n], 3, "keepdim", Flag(FALSE))
               dtype == Keyword(graph[n], "dtype", Absent)
               given == <<Ref(root), Word(graph[n].op), d, keepdim, dtype, pre, post>>
               u == Unpacked(args)
    <2>1. Fused(graph[n], root, pre, post).args = given
      BY DEF Fused
    <2>2. Ref(root).kind = "node" /\ Ref(root).id = root /\ Word(graph[n].op).kind # "node" /\ Word(graph[n].op).val = graph[n].op
      BY DEF Ref, Word
    <2> HIDE DEF d, keepdim, dtype
    <2>3. given[1] = Ref(root) /\ given[2] = Word(graph[n].op) /\ 1 \in DOMAIN given /\ 2 \in DOMAIN given
      OBVIOUS
    <2> HIDE DEF given
    <2>4. args[1] = graph[root].val /\ args[2].val = graph[n].op
      BY <2>1, <2>2, <2>3 DEF Fakes
    <2> HIDE DEF args
    <2>5. u.op = graph[n].op /\ u.args[1] = graph[root].val
      BY <2>4 DEF Unpacked
    <2>6. Specs(u) # {}
      BY <1>2, <1>3 DEF args
    <2> HIDE DEF u
    <2>7. ReduceSpecs(u) # {}
      <3>1. u.op \in ReduceOps
        BY <1>1, <2>5
      <3>2. Specs(u) = ReduceSpecs(u)
        BY <3>1 DEF Specs, ReduceOps, SdpaOps, ElementwiseOps, Arithmetic, Unary, Binary, Compare
      <3> QED BY <2>6, <3>2
    <2>8. Len(u.args[1].shape) \in 1..4
      BY <2>7 DEF ReduceSpecs
    <2> QED BY <2>5, <2>8
  <1> DEFINE t == CallIn(graph, [op |-> f.node.op, args |-> f.node.args, kw |-> NoKw])
  <1>12. /\ t.op = "kuiperjit.hreduce_poly" /\ 1 \in DOMAIN f.node.args
         /\ f.node.args[1] = Ref(root) /\ t.args[1] = graph[root].val
         /\ Unpacks(Unpacked(t.args), CallIn(graph, graph[n]), pre, post)
    <2> DEFINE fused == Fused(graph[n], root, pre, post)
               w == CallIn(graph, [op |-> fused.op, args |-> fused.args, kw |-> NoKw])
    <2>1. graph[root].val = graph[graph[n].args[1].id].val
      BY <1>10 DEF src
    <2>2. /\ w.op = "kuiperjit.hreduce_poly" /\ 1 \in DOMAIN fused.args
          /\ fused.args[1] = Ref(root) /\ w.args[1] = graph[root].val
          /\ Unpacks(Unpacked(w.args), CallIn(graph, graph[n]), pre, post)
      <3>1. FusedStands(n, root, pre, post)
        BY <1>1, <1>2, <1>4, <1>8, <1>11, <2>1, FusedUnpacks, Zenon
      <3> QED BY <3>1, Zenon DEF FusedStands
    <2> HIDE DEF fused
    <2>3. f.node = fused
      BY <1>3 DEF fused
    <2> QED BY <2>2, <2>3
  <1>13. graph[n].args[1].kind = "node" /\ graph[n].args[1].id = src /\ 1 \in DOMAIN graph[n].args
    BY <1>5 DEF src
  <1> QED BY <1>1, <1>3, <1>5, <1>6, <1>7, <1>9, <1>12, <1>13 DEF FusesChains, pre, post, back, forth, src, root

LEMMA FusionsFake ==
  ASSUME NodesInv, WellFormed, MetaInv, NEW n, NEW f \in Fusions(n)
  PROVE  Agrees(f.node.op, graph[f.tail].val, Fake(CallIn(graph, [op |-> f.node.op, args |-> f.node.args, kw |-> NoKw])))
  <1> DEFINE back == CollectPre(graph[n].args[1].id)
             forth == CollectPost(n)
             c == CallIn(graph, graph[n])
             t == CallIn(graph, [op |-> f.node.op, args |-> f.node.args, kw |-> NoKw])
             u == Unpacked(t.args)
  <1>1. FusesChains(f, n, back, forth)
    BY FusionsAre
  <1> HIDE DEF back, forth
  <1>2. /\ n \in DOMAIN graph /\ graph[n].op \in ReduceOps /\ forth \in Seq(DOMAIN graph) /\ Len(forth) > 0
        /\ IsChain(forth) /\ forth[1] = n /\ f.tail = Last(forth)
        /\ t.op = "kuiperjit.hreduce_poly" /\ Unpacks(u, c, Maps(Tail(back)), Maps(Tail(forth)))
    BY <1>1 DEF FusesChains
  <1>3. graph[f.tail].val = graph[n].val
    <2>1. Len(forth) \in 1..Len(forth) /\ Last(forth) = forth[Len(forth)]
      BY <1>2 DEF Last
    <2> QED BY <1>2, <2>1, ChainVal
  <1>4. graph[n].val = Fake(c)
    <2>1. Settled(graph, graph[n]) /\ graph[n].op \notin {"placeholder", "output"} \cup AttentionOps
      BY <1>2 DEF MetaInv, AllSettled, ReduceOps, AttentionOps
    <2> QED BY <2>1, SettledElsewhere
  <1>5. c.op = graph[n].op /\ t.op = f.node.op
    BY CallFields
  <1> HIDE DEF c, t
  <1>6. Fake(c) = FakeReduce(c) /\ Fake(t) = FakeReduce(u)
    BY <1>2, <1>5, FakeOps
  <1>7. FakeReduce(u) = FakeReduce(c)
    <2> HIDE DEF u
    <2> QED BY <1>2, Zenon DEF FakeReduce, Unpacks
  <1>8. graph[f.tail].val = Fake(t) /\ f.node.op \notin AttentionOps
    BY <1>2, <1>3, <1>4, <1>5, <1>6, <1>7 DEF AttentionOps
  <1> QED BY <1>8, AgreesElsewhere DEF t
-----------------------------------------------------------------------------
(* Fake values at every step *)

LEMMA AddSettles ==
  ASSUME NodesInv, WellFormed, MetaInv, NEW k \in Nat, NEW node, Adds(graph, graph', k, node), Settled(graph, node)
  PROVE  MetaInv'
  <1>1. /\ DOMAIN graph = 1..k /\ InputNodes(node) \subseteq DOMAIN graph
        /\ graph' = [n \in DOMAIN graph \cup {k + 1} |-> IF n = k + 1 THEN node ELSE graph[n]]
    BY DEF Adds
  <1>2. \A x \in DOMAIN graph : graph'[x] = graph[x]
    BY <1>1
  <1>3. graph'[k + 1] = node /\ DOMAIN graph' = DOMAIN graph \cup {k + 1}
    BY <1>1
  <1>4. ASSUME NEW some, InputNodes(some) \subseteq DOMAIN graph, Settled(graph, some)
        PROVE  Settled(graph', some)
    <2>1. CallIn(graph', some) = CallIn(graph, some)
      BY <1>2, <1>4, CallSame
    <2> QED BY <1>4, <2>1 DEF Settled
  <1>5. ASSUME NEW n \in DOMAIN graph PROVE Settled(graph', graph'[n])
    <2>1. InputNodes(graph[n]) \subseteq DOMAIN graph /\ Settled(graph, graph[n])
      BY DEF WellFormed, MetaInv, AllSettled
    <2> QED BY <1>2, <1>4, <2>1
  <1>6. Settled(graph', graph'[k + 1])
    BY <1>1, <1>3, <1>4
  <1> QED BY <1>3, <1>5, <1>6 DEF MetaInv, AllSettled

LEMMA OutputSettled ==
  ASSUME NEW g, NEW node, node.op \in {"placeholder", "output"}
  PROVE  Settled(g, node)
  BY DEF Settled, ReduceOps, SdpaOps

LEMMA MetaInit == Init => MetaInv
  <1> SUFFICES ASSUME Init PROVE MetaInv
    OBVIOUS
  <1> DEFINE node == [op |-> "placeholder", args |-> <<>>, kw |-> NoKw, val |-> kind.input]
  <1>1. graph = <<node>>
    BY DEF Init
  <1>2. node.op = "placeholder"
    OBVIOUS
  <1> HIDE DEF node
  <1>3. DOMAIN graph = {1} /\ graph[1] = node
    BY <1>1
  <1> QED BY <1>2, <1>3, OutputSettled DEF MetaInv, AllSettled

LEMMA MetaStep == IInv /\ MetaInv /\ [Next]_vars => MetaInv'
  <1> SUFFICES ASSUME IInv, MetaInv, [Next]_vars PROVE MetaInv'
    OBVIOUS
  <1>1. ASSUME UNCHANGED graph PROVE MetaInv'
    BY <1>1 DEF MetaInv
  <1>2. CASE Trace
    <2>1. PICK k, node : k \in 1..MaxNodes /\ Adds(graph, graph', k, node) /\ Settled(graph, node)
      BY <1>2, TraceAdds
    <2>2. k \in Nat
      BY <2>1, PostGradAssumption
    <2> QED BY <2>1, <2>2, AddSettles DEF IInv
  <1>3. CASE Call
    <2>1. PICK k, node : k \in 1..MaxNodes /\ Adds(graph, graph', k, node) /\ node.op = "output"
      BY <1>3, CallAdds
    <2>2. k \in Nat /\ Settled(graph, node)
      BY <2>1, PostGradAssumption, OutputSettled
    <2> QED BY <2>1, <2>2, AddSettles DEF IInv
  <1>4. CASE Fuse /\ UNCHANGED kind
    <2>1. PICK n \in todo : UNCHANGED graph \/ \E f \in Fusions(n) : Rewrite(n, f.tail, f.node, f.dead)
      BY <1>4 DEF Fuse
    <2>2. ASSUME NEW f \in Fusions(n), Rewrite(n, f.tail, f.node, f.dead) PROVE MetaInv'
      <3>1. Closed(n, f.tail, f.node, f.dead)
        BY <1>4, FusionsClosed DEF Fuse, IInv
      <3>2. Agrees(f.node.op, graph[f.tail].val,
                   Fake(CallIn(graph, [op |-> f.node.op, args |-> f.node.args, kw |-> NoKw])))
        BY FusionsFake DEF IInv
      <3> QED BY <2>2, <3>1, <3>2, RewriteSettles DEF IInv
    <2> QED BY <1>1, <2>1, <2>2
  <1>5. CASE Replace /\ UNCHANGED kind
    <2>1. PICK n \in todo : UNCHANGED graph \/ \E claimed \in Claims(n) : Rewrite(n, n, claimed, {n})
      BY <1>5 DEF Replace
    <2>2. ASSUME NEW claimed \in Claims(n), Rewrite(n, n, claimed, {n}) PROVE MetaInv'
      <3>1. n \in DOMAIN graph
        BY <1>5 DEF Replace, IInv, WalkInv
      <3>2. Closed(n, n, claimed, {n})
        BY <1>5, <3>1, ClaimsClosed DEF Replace, IInv
      <3>3. Agrees(claimed.op, graph[n].val,
                   Fake(CallIn(graph, [op |-> claimed.op, args |-> claimed.args, kw |-> NoKw])))
        BY <3>1, ClaimsFake DEF IInv
      <3> QED BY <2>2, <3>2, <3>3, RewriteSettles DEF IInv
    <2> QED BY <1>1, <2>1, <2>2
  <1>6. CASE EndFusion \/ BeginGraph \/ FinishGraph \/ UNCHANGED vars
    BY <1>1, <1>6 DEF EndFusion, BeginGraph, FinishGraph, vars
  <1> QED BY <1>2, <1>3, <1>4, <1>5, <1>6 DEF Next, Pass

\* For graphs of any ops and any size, after every rewrite: each node that is not
\* attention carries the fake value its own op's fake returns for those it reads,
\* whichever maps a reduction took in; attention that was replaced never does, and
\* keeps the number of its results and the type and the shape of the first.
THEOREM MetaCarried == Spec => []MetaKept
  <1>1. MetaInv => MetaKept
    <2> SUFFICES ASSUME MetaInv, NEW n \in DOMAIN graph, graph[n].op \notin {"placeholder", "output"}
                 PROVE  Agrees(graph[n].op, graph[n].val, Fake(CallOf(graph[n])))
      BY DEF MetaKept
    <2> QED BY CallOfIn DEF MetaInv, AllSettled, Settled
  <1>2. Init => IInv /\ MetaInv
    BY InvInit, MetaInit
  <1>3. (IInv /\ MetaInv) /\ [Next]_vars => (IInv /\ MetaInv)'
    BY InvStep, MetaStep
  <1> QED BY <1>1, <1>2, <1>3, PTL DEF Spec
-----------------------------------------------------------------------------
(* The values of the nodes *)

\* The equation Value solves, over a graph.
IsValues(g, vals) == vals = [n \in DOMAIN g |-> Computes(CallIn(g, g[n]), TermsOf(g[n], vals))]

LEMMA TermSame ==
  ASSUME NEW a, NEW v, NEW w, \A x \in NodesOf(a) : w[x] = v[x]
  PROVE  TermOf(a, w) = TermOf(a, v)
  <1>1. CASE a.kind = "node"
    BY <1>1, NodesOfNode DEF TermOf
  <1>2. CASE a.kind = "list"
    <2> DEFINE item(j, vals) == IF a.items[j].kind = "node" THEN vals[a.items[j].id] ELSE a.items[j]
    <2>1. TermOf(a, w) = [j \in DOMAIN a.items |-> item(j, w)] /\ TermOf(a, v) = [j \in DOMAIN a.items |-> item(j, v)]
      BY <1>2 DEF TermOf
    <2>2. ASSUME NEW j \in DOMAIN a.items PROVE item(j, w) = item(j, v)
      <3>1. NodesOf(a) = {b.id : b \in {b \in Range(a.items) : b.kind = "node"}} /\ a.items[j] \in Range(a.items)
        BY <1>2 DEF NodesOf, Range
      <3> QED BY <3>1
    <2> QED BY <2>1, <2>2
  <1>3. CASE a.kind \notin {"node", "list"}
    BY <1>3 DEF TermOf
  <1> QED BY <1>1, <1>2, <1>3

LEMMA TermsSame ==
  ASSUME NEW node, NEW v, NEW w, \A x \in InputNodes(node) : w[x] = v[x]
  PROVE  TermsOf(node, w) = TermsOf(node, v)
  <1>1. ASSUME NEW i \in DOMAIN node.args PROVE TermOf(node.args[i], w) = TermOf(node.args[i], v)
    BY InputNodesArg, TermSame
  <1> QED BY <1>1 DEF TermsOf

\* What an argument stands for, when the node it is renamed to has the same value.
LEMMA TermSwapped ==
  ASSUME NEW a, NEW v, NEW w, NEW from, NEW to,
         from \in NodesOf(a) => w[to] = v[from],
         \A x \in NodesOf(a) : x # from => w[x] = v[x]
  PROVE  TermOf(Swapped(a, from, to), w) = TermOf(a, v)
  <1>1. CASE from \notin NodesOf(a)
    <2>1. Swapped(a, from, to) = a
      BY <1>1 DEF Swapped
    <2> QED BY <1>1, <2>1, TermSame
  <1>2. CASE from \in NodesOf(a) /\ a.kind # "list"
    <2>1. a.kind = "node"
      BY <1>2, NodesOfOther
    <2>2. a.id = from
      BY <1>2, <2>1, NodesOfNode
    <2>3. Swapped(a, from, to) = Ref(to) /\ Ref(to).kind = "node" /\ Ref(to).id = to
      BY <1>2 DEF Swapped, Ref
    <2> QED BY <1>2, <2>1, <2>2, <2>3 DEF TermOf
  <1>3. CASE from \in NodesOf(a) /\ a.kind = "list"
    <2> DEFINE new(j) == IF a.items[j].kind = "node" /\ a.items[j].id = from THEN Ref(to) ELSE a.items[j]
               news == [j \in DOMAIN a.items |-> new(j)]
               item(b, vals) == IF b.kind = "node" THEN vals[b.id] ELSE b
    <2>1. Swapped(a, from, to) = List(news)
      BY <1>3 DEF Swapped
    <2>2. /\ TermOf(List(news), w) = [j \in DOMAIN news |-> item(news[j], w)]
          /\ TermOf(a, v) = [j \in DOMAIN a.items |-> item(a.items[j], v)]
      <3>1. List(news).kind = "list" /\ List(news).items = news
        BY DEF List
      <3> HIDE DEF news
      <3> QED BY <1>3, <3>1 DEF TermOf
    <2>3. ASSUME NEW j \in DOMAIN a.items PROVE item(new(j), w) = item(a.items[j], v)
      <3>1. a.items[j].kind = "node" => a.items[j].id \in NodesOf(a)
        BY <1>3 DEF NodesOf, Range
      <3>2. CASE a.items[j].kind = "node" /\ a.items[j].id = from
        <4>1. new(j) = Ref(to) /\ Ref(to).kind = "node" /\ Ref(to).id = to
          BY <3>2 DEF Ref
        <4> HIDE DEF new
        <4> QED BY <1>3, <3>2, <4>1
      <3>3. CASE ~(a.items[j].kind = "node" /\ a.items[j].id = from)
        BY <3>1, <3>3
      <3> QED BY <3>2, <3>3
    <2>4. DOMAIN news = DOMAIN a.items /\ \A j \in DOMAIN a.items : news[j] = new(j)
      OBVIOUS
    <2> HIDE DEF new, news, item
    <2> QED BY <2>1, <2>2, <2>3, <2>4
  <1> QED BY <1>1, <1>2, <1>3

LEMMA TermsRenamed ==
  ASSUME NEW node, IsNode(node), NEW v, NEW w, NEW from, NEW to,
         from \in InputNodes(node) => w[to] = v[from],
         \A x \in InputNodes(node) : x # from => w[x] = v[x]
  PROVE  TermsOf(Renamed(node, from, to), w) = TermsOf(node, v)
  <1> DEFINE new == Renamed(node, from, to)
  <1>1. new.args = [i \in DOMAIN node.args |-> Swapped(node.args[i], from, to)]
    BY RenamedFields
  <1> HIDE DEF new
  <1>2. ASSUME NEW i \in DOMAIN node.args
        PROVE  TermOf(Swapped(node.args[i], from, to), w) = TermOf(node.args[i], v)
    BY InputNodesArg, TermSwapped
  <1>3. TermsOf(new, w) = [i \in DOMAIN node.args |-> TermOf(Swapped(node.args[i], from, to), w)]
    BY <1>1 DEF TermsOf
  <1> QED BY <1>2, <1>3 DEF TermsOf, new

\* The equation has one solution at most.
LEMMA OneSolution ==
  ASSUME NodesInv, WellFormed, NEW v, NEW w, IsValues(graph, v), IsValues(graph, w)
  PROVE  v = w
  <1> DEFINE bad == {n \in DOMAIN graph : v[n] # w[n]}
             places == {Place(n) : n \in bad}
  <1>1. ASSUME bad # {} PROVE FALSE
    <2>1. PICK p \in places : \A q \in places : p <= q
      <3> places \subseteq Nat /\ places # {}
        BY <1>1, Places, PostGradAssumption
      <3> QED BY LeastNumber
    <2>2. PICK n \in bad : p = Place(n)
      OBVIOUS
    <2>3. ASSUME NEW x \in InputNodes(graph[n]) PROVE v[x] = w[x]
      <3>1. x \in DOMAIN graph /\ Place(x) < Place(n) /\ Place(x) \in Nat /\ Place(n) \in Nat
        BY <2>2, Places, PostGradAssumption DEF WellFormed
      <3>2. ~(Place(n) <= Place(x))
        BY <3>1
      <3> QED BY <2>1, <2>2, <3>1, <3>2
    <2>4. TermsOf(graph[n], v) = TermsOf(graph[n], w)
      BY <2>3, TermsSame
    <2>5. /\ v[n] = Computes(CallIn(graph, graph[n]), TermsOf(graph[n], v))
          /\ w[n] = Computes(CallIn(graph, graph[n]), TermsOf(graph[n], w))
      BY <2>2 DEF IsValues
    <2> QED BY <2>2, <2>4, <2>5
  <1>2. /\ DOMAIN v = DOMAIN graph /\ DOMAIN w = DOMAIN graph
        /\ v = [n \in DOMAIN v |-> v[n]] /\ w = [n \in DOMAIN w |-> w[n]]
    BY DEF IsValues
  <1>3. \A n \in DOMAIN graph : v[n] = w[n]
    BY <1>1
  <1> HIDE DEF bad
  <1> QED BY <1>2, <1>3

LEMMA ValueIs ==
  ASSUME NodesInv, WellFormed, NEW vals, IsValues(graph, vals), NEW n \in DOMAIN graph
  PROVE  Value(n) = vals[n]
  <1> DEFINE value == CHOOSE v : IsValues(graph, v)
  <1>1. IsValues(graph, value)
    OBVIOUS
  <1>2. Value(n) = value[n]
    BY DEF Value, IsValues, CallOf, CallIn, Fakes, FakesIn
  <1> QED BY <1>1, <1>2, OneSolution

\* What the ops compute, op by op.
LEMMA ComputesOps ==
  ASSUME NEW c, NEW ins
  PROVE  LET number(name) == Keyword(c, name, Num("int", Unit)).val
             given == Keyword(c, "scale", Absent)
             scale == IF given = Absent THEN Word(<<"1/sqrt", c.args[1].shape[4]>>) ELSE given
         IN
         /\ c.op = "placeholder" => Computes(c, ins) = <<"input">>
         /\ c.op = "output" => Computes(c, ins) = ins[1]
         /\ c.op \in ReduceOps => Computes(c, ins) = ReduceMeaning(c, ins[1])
         /\ c.op = "kuiperjit.hreduce_poly" => Computes(c, ins) = ReduceMeaning(Unpacked(c.args), ins[1])
         /\ c.op \in {"mm", "kuiperjit.mm"} => Computes(c, ins) = <<"mm", ins[1], ins[2]>>
         /\ c.op \in {"bmm", "kuiperjit.bmm"} => Computes(c, ins) = <<"bmm", ins[1], ins[2]>>
         /\ c.op = "addmm" => Computes(c, ins) = <<"addmm", ins[1], ins[2], ins[3], number("beta"), number("alpha")>>
         /\ c.op = "kuiperjit.addmm" =>
              Computes(c, ins) = <<"addmm", ins[1], ins[2], ins[3], c.args[4].val, c.args[5].val>>
         /\ c.op \in SdpaOps =>
              Computes(c, ins) =
                <<"attention", ins[1], ins[2], ins[3], ins[4], scale.val, Argument(c, 7, "is_causal", Flag(FALSE)).val,
                  Argument(c, 6, "dropout_p", Num("float", 0)).val>>
         /\ c.op \in {"kuiperjit.sdpa", "kuiperjit.sdpa_cudnn"} =>
              Computes(c, ins) = <<"attention", ins[1], ins[2], ins[3], ins[4], c.args[5].val, c.args[6].val, 0>>
         /\ c.op \in Arithmetic => Computes(c, ins) = (IF c.kw = NoKw THEN <<c.op>> ELSE <<c.op, c.kw>>) \o ins
  <1> DEFINE number(name) == Keyword(c, name, Num("int", Unit)).val
             given == Keyword(c, "scale", Absent)
             scale == IF given = Absent THEN Word(<<"1/sqrt", c.args[1].shape[4]>>) ELSE given
             input == <<"input">>
             output == ins[1]
             reduced == ReduceMeaning(c, ins[1])
             fused == ReduceMeaning(Unpacked(c.args), ins[1])
             mm == <<"mm", ins[1], ins[2]>>
             bmm == <<"bmm", ins[1], ins[2]>>
             addmm == <<"addmm", ins[1], ins[2], ins[3], number("beta"), number("alpha")>>
             addmm2 == <<"addmm", ins[1], ins[2], ins[3], c.args[4].val, c.args[5].val>>
             attention == <<"attention", ins[1], ins[2], ins[3], ins[4], scale.val,
                            Argument(c, 7, "is_causal", Flag(FALSE)).val, Argument(c, 6, "dropout_p", Num("float", 0)).val>>
             sdpa == <<"attention", ins[1], ins[2], ins[3], ins[4], c.args[5].val, c.args[6].val, 0>>
             other == (IF c.kw = NoKw THEN <<c.op>> ELSE <<c.op, c.kw>>) \o ins
  <1>1. Computes(c, ins) =
          CASE c.op = "placeholder" -> input
            [] c.op = "output" -> output
            [] c.op \in ReduceOps -> reduced
            [] c.op = "kuiperjit.hreduce_poly" -> fused
            [] c.op \in {"mm", "kuiperjit.mm"} -> mm
            [] c.op \in {"bmm", "kuiperjit.bmm"} -> bmm
            [] c.op = "addmm" -> addmm
            [] c.op = "kuiperjit.addmm" -> addmm2
            [] c.op \in SdpaOps -> attention
            [] c.op \in AttentionOps -> sdpa
            [] OTHER -> other
    BY Zenon DEF Computes
  <1> HIDE DEF input, output, reduced, fused, mm, bmm, addmm, addmm2, attention, sdpa, other
  <1>2. /\ c.op = "placeholder" => Computes(c, ins) = input
        /\ c.op = "output" => Computes(c, ins) = output
        /\ c.op \in ReduceOps => Computes(c, ins) = reduced
        /\ c.op = "kuiperjit.hreduce_poly" => Computes(c, ins) = fused
        /\ c.op \in {"mm", "kuiperjit.mm"} => Computes(c, ins) = mm
        /\ c.op \in {"bmm", "kuiperjit.bmm"} => Computes(c, ins) = bmm
        /\ c.op = "addmm" => Computes(c, ins) = addmm
        /\ c.op = "kuiperjit.addmm" => Computes(c, ins) = addmm2
        /\ c.op \in SdpaOps => Computes(c, ins) = attention
        /\ c.op \in {"kuiperjit.sdpa", "kuiperjit.sdpa_cudnn"} => Computes(c, ins) = sdpa
        /\ c.op \in Arithmetic => Computes(c, ins) = other
    BY <1>1 DEF ReduceOps, SdpaOps, AttentionOps, Arithmetic, Unary, Binary
  <1> QED BY <1>2, Zenon DEF input, output, reduced, fused, mm, bmm, addmm, addmm2, attention, sdpa, other

-----------------------------------------------------------------------------
(* Steps and values *)

\* A last node leaves the values of the others.
LEMMA AddComputes ==
  ASSUME WellFormed, NEW k \in Nat, NEW node, Adds(graph, graph', k, node), NEW vals, IsValues(graph, vals)
  PROVE  \E more : /\ IsValues(graph', more)
                   /\ more[k + 1] = Computes(CallIn(graph, node), TermsOf(node, vals))
  <1> DEFINE last == Computes(CallIn(graph, node), TermsOf(node, vals))
             more == [n \in DOMAIN graph \cup {k + 1} |-> IF n = k + 1 THEN last ELSE vals[n]]
  <1>1. /\ DOMAIN graph = 1..k /\ InputNodes(node) \subseteq DOMAIN graph
        /\ graph' = [n \in DOMAIN graph \cup {k + 1} |-> IF n = k + 1 THEN node ELSE graph[n]]
    BY DEF Adds
  <1>2. /\ \A x \in DOMAIN graph : graph'[x] = graph[x]
        /\ graph'[k + 1] = node /\ DOMAIN graph' = DOMAIN graph \cup {k + 1} /\ k + 1 \notin DOMAIN graph
    BY <1>1
  <1> HIDE DEF last
  <1>3. /\ \A x \in DOMAIN graph : more[x] = vals[x]
        /\ more[k + 1] = last /\ DOMAIN more = DOMAIN graph'
    BY <1>2
  <1>m. more = [n \in DOMAIN graph' |-> more[n]]
    BY <1>2
  <1> HIDE DEF more
  <1>4. ASSUME NEW some, InputNodes(some) \subseteq DOMAIN graph
        PROVE  /\ CallIn(graph', some) = CallIn(graph, some)
               /\ TermsOf(some, more) = TermsOf(some, vals)
    <2>1. \A x \in InputNodes(some) : graph'[x].val = graph[x].val /\ more[x] = vals[x]
      BY <1>2, <1>3, <1>4
    <2> QED BY <2>1, CallSame, TermsSame
  <1>5. ASSUME NEW n \in DOMAIN graph'
        PROVE  more[n] = Computes(CallIn(graph', graph'[n]), TermsOf(graph'[n], more))
    <2>1. CASE n = k + 1
      BY <1>1, <1>2, <1>3, <1>4, <2>1 DEF last
    <2>2. CASE n # k + 1
      <3>1. n \in DOMAIN graph /\ graph'[n] = graph[n] /\ more[n] = vals[n]
        BY <1>2, <1>3, <2>2
      <3>2. InputNodes(graph[n]) \subseteq DOMAIN graph
        BY <3>1 DEF WellFormed
      <3>3. vals[n] = Computes(CallIn(graph, graph[n]), TermsOf(graph[n], vals))
        BY <3>1 DEF IsValues
      <3> QED BY <1>4, <3>1, <3>2, <3>3
    <2> QED BY <2>1, <2>2
  <1>6. IsValues(graph', more)
    BY <1>m, <1>5 DEF IsValues
  <1> QED BY <1>3, <1>6 DEF last

\* The node a rewrite puts in has the value of the one it stands for, and no
\* other value changes.
LEMMA RewriteComputes ==
  ASSUME NodesInv, NEW n, NEW old, NEW target, Leaves(graph, graph', n, old, target), NEW vals, IsValues(graph, vals),
         LET call == [op |-> target.op, args |-> target.args, kw |-> NoKw]
         IN  Computes(CallIn(graph, call), TermsOf(call, vals)) = vals[old]
  PROVE  \E more : IsValues(graph', more) /\ \A m \in DOMAIN graph' : m # n => more[m] = vals[m]
  <1> DEFINE more == [m \in DOMAIN graph' |-> IF m = n THEN vals[old] ELSE vals[m]]
             call == [op |-> target.op, args |-> target.args, kw |-> NoKw]
             new == [op |-> target.op, args |-> target.args, kw |-> NoKw, val |-> graph[old].val]
  <1>1. /\ n \in DOMAIN graph'
        /\ graph'[n] = new
        /\ \A m \in DOMAIN graph' : m # n => m \in DOMAIN graph /\ graph'[m] = Renamed(graph[m], old, n)
        /\ \A m \in DOMAIN graph' : m # n => \A x \in InputNodes(graph[m]) : x # old => x \in DOMAIN graph' \ {n}
        /\ \A x \in InputNodes(target) : x \in DOMAIN graph' \ {n}
    BY DEF Leaves
  <1>2. /\ \A m \in DOMAIN graph' : m # n => more[m] = vals[m]
        /\ more[n] = vals[old] /\ more = [m \in DOMAIN graph' |-> more[m]]
    BY <1>1
  <1> HIDE DEF more
  <1>3. new.op = call.op /\ new.args = call.args /\ new.kw = call.kw /\ new.val = graph[old].val /\ call.args = target.args
    OBVIOUS
  <1>4. ASSUME NEW m \in DOMAIN graph', m # n PROVE graph'[m].val = graph[m].val
    BY <1>1, <1>4, RenamedVal DEF NodesInv
  <1>5. ASSUME NEW m \in DOMAIN graph', m # n
        PROVE  more[m] = Computes(CallIn(graph', graph'[m]), TermsOf(graph'[m], more))
    <2>1. /\ m \in DOMAIN graph /\ IsNode(graph[m]) /\ Flat(graph[m])
          /\ graph'[m] = Renamed(graph[m], old, n)
      BY <1>1, <1>5 DEF NodesInv
    <2>2. graph'[n].val = graph[old].val /\ \A x \in InputNodes(graph[m]) : x # old => graph'[x].val = graph[x].val
      BY <1>1, <1>3, <1>4, <1>5
    <2>3. TermsOf(graph'[m], more) = TermsOf(graph[m], vals)
      <3>1. \A x \in InputNodes(graph[m]) : x # old => more[x] = vals[x]
        BY <1>1, <1>2, <1>5
      <3>2. more[n] = vals[old]
        BY <1>2
      <3>3. TermsOf(Renamed(graph[m], old, n), more) = TermsOf(graph[m], vals)
        BY <2>1, <3>1, <3>2, TermsRenamed
      <3> QED BY <2>1, <3>3
    <2>4. vals[m] = Computes(CallIn(graph, graph[m]), TermsOf(graph[m], vals)) /\ more[m] = vals[m]
      BY <1>2, <1>5, <2>1 DEF IsValues
    <2>5. CASE graph[m].op = "output"
      <3>1. CallIn(graph, graph[m]).op = "output" /\ CallIn(graph', graph'[m]).op = "output"
        BY <2>1, <2>5, RenamedOp, CallFields
      <3>2. ASSUME NEW c, NEW ins, c.op = "output" PROVE Computes(c, ins) = ins[1]
        BY <3>2, ComputesOps
      <3> QED BY <2>3, <2>4, <3>1, <3>2
    <2>6. CASE graph[m].op # "output"
      BY <2>1, <2>2, <2>3, <2>4, <2>6, CallKept
    <2> QED BY <2>5, <2>6
  <1>6. more[n] = Computes(CallIn(graph', graph'[n]), TermsOf(graph'[n], more))
    <2>1. InputNodes(new) = InputNodes(target) /\ CallIn(graph, new) = CallIn(graph, call) /\ TermsOf(new, vals) = TermsOf(call, vals)
      BY <1>3 DEF InputNodes, CallIn, FakesIn, TermsOf
    <2>2. \A x \in InputNodes(new) : graph'[x].val = graph[x].val /\ more[x] = vals[x]
      BY <1>1, <1>2, <1>4, <2>1
    <2> HIDE DEF new
    <2>3. CallIn(graph', new) = CallIn(graph, call) /\ TermsOf(new, more) = TermsOf(call, vals)
      BY <2>1, <2>2, CallSame, TermsSame
    <2>4. Computes(CallIn(graph, call), TermsOf(call, vals)) = vals[old]
      OBVIOUS
    <2> QED BY <1>1, <1>2, <2>3, <2>4
  <1>7. IsValues(graph', more)
    BY <1>2, <1>5, <1>6 DEF IsValues
  <1> QED BY <1>2, <1>7
\* A custom op that is claimed for a node computes what the node does.
LEMMA ClaimsCompute ==
  ASSUME NodesInv, NEW n \in DOMAIN graph, NEW claimed \in Claims(n), NEW vals, IsValues(graph, vals)
  PROVE  LET call == [op |-> claimed.op, args |-> claimed.args, kw |-> NoKw]
         IN  Computes(CallIn(graph, call), TermsOf(call, vals)) = vals[n]
  <1> DEFINE node == graph[n]
             c == CallIn(graph, node)
             ins == TermsOf(node, vals)
             call == [op |-> claimed.op, args |-> claimed.args, kw |-> NoKw]
             d == CallIn(graph, call)
             outs == TermsOf(call, vals)
  <1>0. call.op = claimed.op /\ call.args = claimed.args
    OBVIOUS
  <1> HIDE DEF call
  <1>1. /\ c.op = node.op /\ c.kw = node.kw /\ c.args = FakesIn(graph, node)
        /\ d.op = claimed.op /\ d.args = FakesIn(graph, call)
    BY <1>0, CallFields
  <1>2. Signature(node)
    BY DEF NodesInv
  <1>3. Fakes(node) = c.args
    BY <1>1 DEF Fakes, FakesIn
  <1>4. ASSUME NEW i, i \in DOMAIN node.args, i \in DOMAIN claimed.args, claimed.args[i] = node.args[i]
        PROVE  outs[i] = ins[i] /\ d.args[i] = c.args[i]
    BY <1>0, <1>1, <1>4 DEF TermsOf, FakesIn
  <1>5. ASSUME NEW i \in DOMAIN claimed.args, claimed.args[i].kind # "node" PROVE d.args[i] = claimed.args[i]
    BY <1>0, <1>1, <1>5 DEF FakesIn
  <1>6. vals[n] = Computes(c, ins)
    BY DEF IsValues
  <1>7. ASSUME Computes(d, outs) = Computes(c, ins)
        PROVE  Computes(CallIn(graph, call), TermsOf(call, vals)) = vals[n]
    BY <1>6, <1>7
  <1>8. CASE node.op \in {"mm", "bmm"} /\ claimed.args = node.args
             /\ claimed.op = IF node.op = "mm" THEN "kuiperjit.mm" ELSE "kuiperjit.bmm"
    <2>1. outs = ins
      BY <1>0, <1>8 DEF TermsOf
    <2> HIDE DEF c, d, node, ins, outs
    <2>2. ASSUME NEW x, x.op \in {"mm", "kuiperjit.mm"} PROVE Computes(x, ins) = <<"mm", ins[1], ins[2]>>
      BY <2>2, ComputesOps
    <2>3. ASSUME NEW x, x.op \in {"bmm", "kuiperjit.bmm"} PROVE Computes(x, ins) = <<"bmm", ins[1], ins[2]>>
      BY <2>3, ComputesOps
    <2>4. Computes(d, outs) = Computes(c, ins)
      BY <1>1, <1>8, <2>1, <2>2, <2>3
    <2> QED BY <1>7, <2>4 DEF call
  <1>9. CASE node.op = "addmm" /\ claimed.op = "kuiperjit.addmm"
             /\ claimed.args = <<node.args[1], node.args[2], node.args[3],
                                 ClaimedNumber(node, "beta"), ClaimedNumber(node, "alpha")>>
    <2> DEFINE beta == Keyword(node, "beta", Num("int", Unit)).val
               alpha == Keyword(node, "alpha", Num("int", Unit)).val
    <2>1. 1 \in DOMAIN node.args /\ 2 \in DOMAIN node.args /\ 3 \in DOMAIN node.args
      BY <1>2, <1>9 DEF Signature
    <2>2. /\ 1 \in DOMAIN claimed.args /\ claimed.args[1] = node.args[1]
          /\ 2 \in DOMAIN claimed.args /\ claimed.args[2] = node.args[2]
          /\ 3 \in DOMAIN claimed.args /\ claimed.args[3] = node.args[3]
          /\ 4 \in DOMAIN claimed.args /\ claimed.args[4] = ClaimedNumber(node, "beta")
          /\ 5 \in DOMAIN claimed.args /\ claimed.args[5] = ClaimedNumber(node, "alpha")
      BY <1>9
    <2>3. outs[1] = ins[1] /\ outs[2] = ins[2] /\ outs[3] = ins[3]
      BY <1>4, <2>1, <2>2
    <2>4. /\ ClaimedNumber(node, "beta").val = beta /\ ClaimedNumber(node, "beta").kind # "node"
          /\ ClaimedNumber(node, "alpha").val = alpha /\ ClaimedNumber(node, "alpha").kind # "node"
      BY DEF ClaimedNumber, Num
    <2>5. d.args[4].val = beta /\ d.args[5].val = alpha
      BY <1>5, <2>2, <2>4
    <2>6. Keyword(c, "beta", Num("int", Unit)).val = beta /\ Keyword(c, "alpha", Num("int", Unit)).val = alpha
      BY <1>1 DEF Keyword
    <2> HIDE DEF c, d, node, ins, outs, beta, alpha
    <2>7. Computes(d, outs) = <<"addmm", outs[1], outs[2], outs[3], d.args[4].val, d.args[5].val>>
      BY <1>1, <1>9, ComputesOps
    <2>8. Computes(c, ins) = <<"addmm", ins[1], ins[2], ins[3], Keyword(c, "beta", Num("int", Unit)).val,
                               Keyword(c, "alpha", Num("int", Unit)).val>>
      BY <1>1, <1>9, ComputesOps
    <2>9. Computes(d, outs) = Computes(c, ins)
      BY <2>3, <2>5, <2>6, <2>7, <2>8
    <2> QED BY <1>7, <2>9 DEF call
  <1>10. CASE node.op \in SdpaOps /\ claimed.args = SdpaArgs(node)
              /\ claimed.op \in {"kuiperjit.sdpa", "kuiperjit.sdpa_cudnn"}
    <2> DEFINE default == Flag(FALSE)
               nodrop == Num("float", 0)
               word == Word(<<"1/sqrt", c.args[1].shape[4]>>)
               given == Keyword(node, "scale", Absent)
               scale == IF given = Absent THEN word ELSE given
               causal == IF 7 \in DOMAIN node.args THEN node.args[7] ELSE default
    <2>1. /\ 1 \in DOMAIN node.args /\ 2 \in DOMAIN node.args /\ 3 \in DOMAIN node.args /\ 4 \in DOMAIN node.args
          /\ \A k \in DOMAIN node.kw : NodesOf(node.kw[k]) = {}
          /\ DOMAIN node.kw \subseteq {"given", "scale"}
          /\ \A i \in DOMAIN node.args : i \notin 1..4 => NodesOf(node.args[i]) = {}
          /\ 6 \in DOMAIN node.args => node.args[6].val = 0
      BY <1>2, <1>10 DEF Signature
    <2>2. ClaimedScale(node) = scale /\ ClaimedGiven(node, 7) = causal
      BY <1>3 DEF ClaimedScale, ClaimedGiven
    <2>3. default.kind # "node" /\ word.kind # "node" /\ Absent.kind # "node" /\ nodrop.val = 0
      BY DEF Flag, Word, Absent, Num
    <2> HIDE DEF default, word, nodrop
    <2>4. /\ 1 \in DOMAIN claimed.args /\ claimed.args[1] = node.args[1]
          /\ 2 \in DOMAIN claimed.args /\ claimed.args[2] = node.args[2]
          /\ 3 \in DOMAIN claimed.args /\ claimed.args[3] = node.args[3]
          /\ 4 \in DOMAIN claimed.args /\ claimed.args[4] = node.args[4]
          /\ 5 \in DOMAIN claimed.args /\ claimed.args[5] = scale
          /\ 6 \in DOMAIN claimed.args /\ claimed.args[6] = causal
      <3> HIDE DEF scale, causal
      <3> QED BY <1>10, <2>2 DEF SdpaArgs
    <2>5. outs[1] = ins[1] /\ outs[2] = ins[2] /\ outs[3] = ins[3] /\ outs[4] = ins[4]
      BY <1>4, <2>1, <2>4
    <2>6. \A a : NodesOf(a) = {} => a.kind # "node"
      BY NodesOfNode
    <2>7. 7 \notin 1..4 /\ 6 \notin 1..4
      OBVIOUS
    <2>8. causal.kind # "node" /\ (7 \in DOMAIN node.args => node.args[7].kind # "node")
      BY <2>1, <2>3, <2>6, <2>7, Zenon
    <2>9. scale.kind # "node"
      <3>1. given.kind # "node"
        BY <2>1, <2>3, <2>6 DEF Keyword
      <3> QED BY <2>3, <3>1
    <2>10. d.args[5] = scale /\ d.args[6] = causal
      BY <1>5, <2>4, <2>8, <2>9
    <2>11. Keyword(c, "scale", Absent) = given
      BY <1>1 DEF Keyword
    <2>12. Argument(c, 7, "is_causal", default) = causal
      <3>1. "is_causal" \notin DOMAIN c.kw
        BY <1>1, <2>1
      <3>2. DOMAIN c.args = DOMAIN node.args /\ (7 \in DOMAIN node.args => c.args[7] = node.args[7])
        BY <1>1, <2>8 DEF FakesIn
      <3> HIDE DEF c, node
      <3> QED BY <3>1, <3>2, Zenon DEF Argument, Keyword
    <2>13. Argument(c, 6, "dropout_p", nodrop).val = 0
      <3>1. "dropout_p" \notin DOMAIN c.kw
        BY <1>1, <2>1
      <3>2. 6 \in DOMAIN node.args => node.args[6].kind # "node"
        BY <2>1, <2>6, <2>7, Zenon
      <3>3. DOMAIN c.args = DOMAIN node.args /\ (6 \in DOMAIN node.args => c.args[6].val = 0)
        BY <1>1, <2>1, <3>2 DEF FakesIn
      <3> HIDE DEF c, node
      <3> QED BY <2>3, <3>1, <3>3 DEF Argument, Keyword
    <2> HIDE DEF c, d, node, ins, outs, given, causal
    <2>14. Computes(d, outs) = <<"attention", outs[1], outs[2], outs[3], outs[4], d.args[5].val, d.args[6].val, 0>>
      BY <1>1, <1>10, ComputesOps
    <2>15. Computes(c, ins) = <<"attention", ins[1], ins[2], ins[3], ins[4],
                 (IF Keyword(c, "scale", Absent) = Absent THEN word ELSE Keyword(c, "scale", Absent)).val,
                 Argument(c, 7, "is_causal", default).val, Argument(c, 6, "dropout_p", nodrop).val>>
      BY <1>1, <1>10, ComputesOps, Zenon DEF default, word, nodrop
    <2>16. Computes(c, ins) = <<"attention", ins[1], ins[2], ins[3], ins[4], scale.val, causal.val, 0>>
      BY <2>11, <2>12, <2>13, <2>15
    <2> HIDE DEF scale
    <2>17. Computes(d, outs) = Computes(c, ins)
      BY <2>5, <2>10, <2>14, <2>16
    <2> QED BY <1>7, <2>17 DEF call
  <1> HIDE DEF call
  <1> QED BY ClaimsAre, <1>8, <1>9, <1>10 DEF call
-----------------------------------------------------------------------------
(* What a chain of maps computes *)

\* The equation Composed solves.
IsBody(body, steps, var) ==
  body = [i \in 0..Len(steps) |-> IF i = 0 THEN var ELSE <<steps[i].op, body[i - 1]>> \o steps[i].consts]

LEMMA ComposedIs ==
  ASSUME NEW steps, Len(steps) \in Nat, NEW var, NEW f, IsBody(f, steps, var)
  PROVE  Composed(steps, var) = f[Len(steps)]
  <1> DEFINE l == Len(steps)
             body == CHOOSE b : IsBody(b, steps, var)
             bad == {i \in 0..l : body[i] # f[i]}
             at(b, i) == IF i = 0 THEN var ELSE <<steps[i].op, b[i - 1]>> \o steps[i].consts
  <1>1. IsBody(body, steps, var) /\ l \in Nat
    OBVIOUS
  <1>2. Composed(steps, var) = body[l]
    BY DEF Composed, IsBody
  <1> HIDE DEF body
  <1>3. \A i \in 0..l : body[i] = at(body, i) /\ f[i] = at(f, i)
    <2>1. body = [i \in 0..l |-> at(body, i)] /\ f = [i \in 0..l |-> at(f, i)]
      BY <1>1, Zenon DEF IsBody
    <2> HIDE DEF l, at
    <2> QED BY <2>1
  <1> HIDE DEF l
  <1>4. ASSUME bad # {} PROVE FALSE
    <2>1. PICK i \in bad : \A j \in bad : i <= j
      <3> bad \subseteq Nat
        BY <1>1
      <3> QED BY <1>4, LeastNumber
    <2>2. i \in 0..l /\ i \in Nat
      BY <1>1
    <2>3. i # 0
      <3>1. at(body, 0) = var /\ at(f, 0) = var
        OBVIOUS
      <3> HIDE DEF at
      <3> QED BY <1>3, <2>1, <3>1
    <2>4. i - 1 \in 0..l /\ ~(i <= i - 1)
      BY <1>1, <2>2, <2>3
    <2>5. body[i - 1] = f[i - 1]
      BY <2>1, <2>4
    <2>6. at(body, i) = at(f, i)
      BY <2>5
    <2> HIDE DEF at
    <2> QED BY <1>3, <2>1, <2>6
  <1>5. l \in 0..l
    BY <1>1
  <1> HIDE DEF at
  <1> QED BY <1>2, <1>4, <1>5 DEF l

\* No step or one, applied to a term.
After(first, x) == IF first = <<>> THEN x ELSE <<first[1].op, x>> \o first[1].consts

\* The steps of the entries of a map list.
EntrySteps(list) == [i \in DOMAIN list.items |-> MeantStep(list.items[i])]

LEMMA PairConcat ==
  ASSUME NEW a, NEW b, NEW c
  PROVE  /\ <<a>> \o <<b>> = <<a, b>> \o <<>>
         /\ <<a>> \o <<b, c>> = <<a, b>> \o <<c>>
  <1> DEFINE S == {a, b, c}
  <1>1. /\ <<a>> \in Seq(S) /\ Len(<<a>>) = 1 /\ <<b>> \in Seq(S) /\ Len(<<b>>) = 1 /\ <<c>> \in Seq(S) /\ Len(<<c>>) = 1
        /\ <<a, b>> \in Seq(S) /\ Len(<<a, b>>) = 2 /\ <<b, c>> \in Seq(S) /\ Len(<<b, c>>) = 2
        /\ <<>> \in Seq(S) /\ Len(<<>>) = 0
        /\ <<a>>[1] = a /\ <<b>>[1] = b /\ <<c>>[1] = c /\ <<a, b>>[1] = a /\ <<a, b>>[2] = b
        /\ <<b, c>>[1] = b /\ <<b, c>>[2] = c
    OBVIOUS
  <1> HIDE DEF S
  <1> DEFINE Is(s, l, x, y, z) ==
               /\ s \in Seq(S) /\ Len(s) = l
               /\ 1 \in 1..l => s[1] = x
               /\ 2 \in 1..l => s[2] = y
               /\ 3 \in 1..l => s[3] = z
  <1>2. ASSUME NEW s \in Seq(S), NEW t \in Seq(S)
        PROVE  /\ s \o t \in Seq(S) /\ Len(s \o t) = Len(s) + Len(t)
               /\ \A i \in 1..(Len(s) + Len(t)) : (s \o t)[i] = IF i <= Len(s) THEN s[i] ELSE t[i - Len(s)]
    BY ConcatProperties, Zenon
  <1>3. /\ Is(<<a>> \o <<b>>, 2, a, b, a) /\ Is(<<a, b>> \o <<>>, 2, a, b, a)
        /\ Is(<<a>> \o <<b, c>>, 3, a, b, c) /\ Is(<<a, b>> \o <<c>>, 3, a, b, c)
    BY <1>1, <1>2
  <1>4. ASSUME NEW s, NEW t, NEW l \in 0..3, NEW x, NEW y, NEW z, Is(s, l, x, y, z), Is(t, l, x, y, z) PROVE s = t
    BY <1>4, SeqEqual
  <1>5. 2 \in 0..3 /\ 3 \in 0..3
    OBVIOUS
  <1> HIDE DEF Is
  <1> QED BY <1>3, <1>4, <1>5, Zenon

LEMMA MapComputes ==
  ASSUME NodesInv, NEW vals, IsValues(graph, vals), NEW n \in DOMAIN graph, MapOf(n) # None
  PROVE  LET step == MeantStep(MapOf(n))
         IN  vals[n] = <<step.op, vals[graph[n].args[1].id]>> \o step.consts
  <1> DEFINE node == graph[n]
             c == CallIn(graph, node)
             ins == TermsOf(node, vals)
             const == IF Len(node.args) = 1 THEN Absent ELSE node.args[2]
             step == MeantStep(MapOf(n))
             src == vals[node.args[1].id]
  <1>1. /\ node.op \in Arithmetic /\ node.kw = NoKw
        /\ node.args[1].kind = "node" /\ Len(node.args) <= 2
        /\ Len(node.args) = 2 => node.args[2].kind \in {"int", "float"}
        /\ MapOf(n) = [kind |-> "map", op |-> node.op, c |-> const]
    BY DEF MapOf
  <1>2. 1 \in DOMAIN node.args /\ node.args \in Seq(Range(node.args))
    BY <1>1 DEF NodesInv, Signature, IsSeq
  <1>3. vals[n] = Computes(c, ins) /\ c.op = node.op /\ c.kw = node.kw
    BY CallFields DEF IsValues
  <1>4. vals[n] = <<node.op>> \o ins
    <2> HIDE DEF c, ins, node
    <2>1. Computes(c, ins) = (IF c.kw = NoKw THEN <<c.op>> ELSE <<c.op, c.kw>>) \o ins
      BY <1>1, <1>3, ComputesOps
    <2> QED BY <1>1, <1>3, <2>1
  <1>5. step.op = node.op /\ step.consts = IF const = Absent THEN <<>> ELSE <<<<"c", const.val>>>>
    <2> HIDE DEF const
    <2> QED BY <1>1 DEF MeantStep, Step
  <1>6. DOMAIN ins = DOMAIN node.args /\ ins[1] = src
    BY <1>1, <1>2 DEF TermsOf, TermOf
  <1> DEFINE l == Len(node.args)
  <1>7. l \in Nat /\ DOMAIN node.args = 1..l /\ l <= 2
    BY <1>1, <1>2, LenProperties
  <1> HIDE DEF l
  <1>8. l \in {1, 2}
    <2>1. 1 \in 1..l
      BY <1>2, <1>7
    <2> QED BY <1>7, <2>1
  <1>9. ins = [i \in 1..l |-> ins[i]]
    BY <1>7 DEF TermsOf
  <1>10. ASSUME l = 1 PROVE vals[n] = <<step.op, src>> \o step.consts
    <2>1. ins = <<src>>
      <3> HIDE DEF ins, src
      <3> QED BY <1>6, <1>9, <1>10
    <2>2. step.consts = <<>>
      BY <1>5, <1>10 DEF l
    <2>3. step.op = node.op
      BY <1>5
    <2> HIDE DEF step, src, ins, node
    <2> QED BY <1>4, <2>1, <2>2, <2>3, PairConcat
  <1>11. ASSUME l = 2 PROVE vals[n] = <<step.op, src>> \o step.consts
    <2>1. const = node.args[2] /\ const.kind \in {"int", "float"}
      BY <1>1, <1>11 DEF l
    <2>2. ins[2] = <<"c", const.val>>
      <3>1. ins[2] = TermOf(const, vals)
        BY <1>7, <1>11, <2>1 DEF TermsOf
      <3> HIDE DEF const
      <3>2. TermOf(const, vals) = <<"c", const.val>>
        BY <2>1 DEF TermOf
      <3> QED BY <3>1, <3>2
    <2>3. const # Absent
      <3>1. Absent.kind = "none"
        BY DEF Absent
      <3> HIDE DEF const
      <3> QED BY <2>1, <3>1
    <2> HIDE DEF const
    <2>4. step.consts = <<<<"c", const.val>>>>
      BY <1>5, <2>3
    <2> HIDE DEF step, src
    <2>5. ins = <<src, <<"c", const.val>>>>
      <3> DEFINE second == <<"c", const.val>>
      <3>1. ins[2] = second
        BY <2>2
      <3> HIDE DEF ins, second
      <3>2. ins = <<src, second>>
        BY <1>6, <1>9, <1>11, <3>1
      <3> QED BY <3>2 DEF second
    <2> DEFINE second == <<"c", const.val>>
    <2>6. step.consts = <<second>> /\ ins = <<src, second>> /\ step.op = node.op
      BY <1>5, <2>4, <2>5
    <2> HIDE DEF ins, second, step, src, node
    <2>7. vals[n] = <<node.op>> \o <<src, second>>
      BY <1>4, <2>6
    <2>8. <<node.op>> \o <<src, second>> = <<node.op, src>> \o <<second>>
      BY PairConcat, SMTT(30)
    <2> QED BY <2>6, <2>7, <2>8, Zenon
  <1> QED BY <1>8, <1>10, <1>11
\* A chain of maps computes what its entries say of the value at its head; the
\* steps first, none or one, lead to that value.
LEMMA ChainComposes ==
  ASSUME NodesInv, WellFormed, NEW vals, IsValues(graph, vals),
         NEW chain \in Seq(DOMAIN graph), Len(chain) > 0, IsChain(chain),
         NEW first, NEW x, After(first, x) = vals[chain[1]], first = <<>> \/ \E s : first = <<s>>
  PROVE  /\ Composed(first \o EntrySteps(Maps(Tail(chain))), x) = vals[chain[Len(chain)]]
         /\ first = <<>> => Composed(EntrySteps(Maps(Tail(chain))), x) = vals[chain[Len(chain)]]
  <1> DEFINE k == Len(chain) - 1
             m == Len(first)
             entries == Maps(Tail(chain)).items
             more == EntrySteps(Maps(Tail(chain)))
             steps == first \o more
  <1>1. k \in Nat /\ \A i \in 1..(k + 1) : chain[i] \in DOMAIN graph
    OBVIOUS
  <1>2. m \in {0, 1} /\ (m = 0 => first = <<>>) /\ (m = 1 => first = <<first[1]>> /\ first # <<>>)
    OBVIOUS
  <1>3. DOMAIN entries = 1..k /\ \A i \in 1..k : entries[i] = MapOf(chain[i + 1])
    <2> DEFINE tail == Tail(chain)
    <2>1. DOMAIN tail = 1..k /\ \A i \in 1..k : tail[i] = chain[i + 1]
      <3>1. chain # <<>>
        OBVIOUS
      <3>2. tail \in Seq(DOMAIN graph) /\ Len(tail) = k /\ \A i \in 1..Len(tail) : tail[i] = chain[i + 1]
        BY <3>1, HeadTailProperties, Zenon
      <3> HIDE DEF tail, k
      <3> QED BY <3>2, LenProperties
    <2> HIDE DEF tail
    <2>2. entries = [i \in DOMAIN tail |-> MapOf(tail[i])]
      BY DEF Maps, List, tail
    <2> QED BY <2>1, <2>2
  <1>4. more = [i \in 1..k |-> MeantStep(MapOf(chain[i + 1]))]
    <2>1. more = [i \in DOMAIN entries |-> MeantStep(entries[i])]
      BY DEF EntrySteps
    <2> HIDE DEF more, entries, k
    <2> QED BY <1>3, <2>1
  <1> HIDE DEF entries
  <1>5. /\ Len(steps) = m + k /\ (first = <<>> => steps = more)
        /\ \A i \in 1..(m + k) : steps[i] = IF i <= m THEN first[i] ELSE MeantStep(MapOf(chain[(i - m) + 1]))
    <2> DEFINE S == {first[1]} \cup {MeantStep(MapOf(chain[i + 1])) : i \in 1..k}
    <2>1. more \in [1..k -> S] /\ first \in Seq(S)
      <3>1. more \in [1..k -> S]
        <4> HIDE DEF k, more
        <4> QED BY <1>4
      <3>2. first[1] \in S
        OBVIOUS
      <3> HIDE DEF S
      <3>3. first \in Seq(S)
        <4>1. <<>> \in Seq(S) /\ \A s \in S : <<s>> \in Seq(S)
          OBVIOUS
        <4> DEFINE a == first[1]
        <4>2. first = <<>> \/ first = <<a>>
          BY <1>2
        <4> HIDE DEF a
        <4> QED BY <3>2, <4>1, <4>2 DEF a
      <3> QED BY <3>1, <3>3
    <2> HIDE DEF S, more, k
    <2>2. more \in Seq(S)
      BY <1>1, <2>1, SeqDef
    <2>3. Len(more) = k /\ \A i \in 1..k : more[i] = MeantStep(MapOf(chain[i + 1]))
      <3>1. DOMAIN more = 1..k /\ DOMAIN more = 1..Len(more) /\ Len(more) \in Nat
        BY <2>1, <2>2, LenProperties
      <3> DEFINE l == Len(more)
      <3>2. l \in Nat /\ 1..l = 1..k
        BY <3>1
      <3> HIDE DEF l
      <3>3. l = k
        BY <1>1, <3>2, SMTT(30)
      <3> QED BY <1>4, <3>3 DEF l
    <2>4. /\ Len(steps) = Len(first) + Len(more)
          /\ \A i \in 1..(Len(first) + Len(more)) : steps[i] = IF i <= Len(first) THEN first[i] ELSE more[i - Len(first)]
      BY <2>1, <2>2, ConcatProperties, ZenonT(60)
    <2>e. ASSUME first = <<>> PROVE steps = more
      BY <2>2, <2>e, ConcatEmptySeq, Zenon
    <2> HIDE DEF steps, m
    <2>5. Len(steps) = m + k /\ \A i \in 1..(m + k) : steps[i] = IF i <= m THEN first[i] ELSE more[i - m]
      BY <2>3, <2>4 DEF m
    <2> QED BY <1>1, <1>2, <2>3, <2>5, <2>e
  <1> DEFINE f == [i \in 0..(m + k) |-> IF i < m THEN x ELSE vals[chain[(i - m) + 1]]]
             at(i) == IF i = 0 THEN x ELSE <<steps[i].op, f[i - 1]>> \o steps[i].consts
  <1> HIDE DEF more, steps, k, m
  <1>6. \A i \in 0..(m + k) : f[i] = IF i < m THEN x ELSE vals[chain[(i - m) + 1]]
    OBVIOUS
  <1>f. f = [i \in 0..(m + k) |-> f[i]]
    OBVIOUS
  <1> HIDE DEF f
  <1>7. ASSUME NEW i \in 0..(m + k) PROVE f[i] = at(i)
    <2>1. CASE i = 0 /\ m = 1
      BY <1>1, <1>6, <2>1
    <2>2. CASE i = 0 /\ m = 0
      <3>1. x = vals[chain[1]]
        BY <1>2, <2>2 DEF After
      <3>2. (0 - 0) + 1 = 1 /\ ~(0 < 0)
        OBVIOUS
      <3> QED BY <1>6, <2>2, <3>1, <3>2
    <2>3. CASE i # 0 /\ i <= m
      <3>1. i = 1 /\ m = 1 /\ (1 - 1) + 1 = 1 /\ 1 - 1 = 0 /\ ~(1 < 1) /\ 0 < 1 /\ 0 \in 0..(m + k) /\ 1 \in 1..(m + k) /\ 1 \in 0..(m + k)
        BY <1>1, <1>2, <2>3
      <3>2. f[1] = vals[chain[1]] /\ f[0] = x
        BY <1>6, <3>1
      <3>3. vals[chain[1]] = <<first[1].op, x>> \o first[1].consts
        BY <1>2, <3>1 DEF After
      <3>4. steps[1] = first[1]
        BY <1>5, <3>1
      <3> QED BY <3>1, <3>2, <3>3, <3>4
    <2>4. CASE i > m
      <3> DEFINE j == i - m
      <3>1. /\ j \in 1..k /\ i = j + m /\ i # 0 /\ i - 1 \in 0..(m + k) /\ ~(i < m) /\ ~(i - 1 < m) /\ ~(i <= m)
            /\ ((i - 1) - m) + 1 = j /\ i \in 1..(m + k)
        BY <1>1, <1>2, <2>4
      <3> HIDE DEF j
      <3>2. f[i] = vals[chain[j + 1]] /\ f[i - 1] = vals[chain[j]]
        BY <1>6, <3>1 DEF j
      <3>3. steps[i] = MeantStep(MapOf(chain[j + 1]))
        BY <1>5, <3>1 DEF j
      <3>4. /\ MapOf(chain[j + 1]) # None /\ graph[chain[j + 1]].args[1].id = chain[j]
            /\ chain[j + 1] \in DOMAIN graph
        <4>1. j \in 1..(Len(chain) - 1) /\ j + 1 \in 1..(k + 1)
          BY <1>1, <3>1 DEF k
        <4> QED BY <1>1, <4>1 DEF IsChain
      <3>5. vals[chain[j + 1]] = <<steps[i].op, vals[chain[j]]>> \o steps[i].consts
        BY <3>3, <3>4, MapComputes
      <3> QED BY <3>1, <3>2, <3>5
    <2> QED BY <1>1, <1>2, <2>1, <2>2, <2>3, <2>4
  <1>8. IsBody(f, steps, x)
    <2>1. f = [i \in 0..(m + k) |-> at(i)]
      <3> HIDE DEF at
      <3> QED BY <1>f, <1>7
    <2> QED BY <1>5, <2>1 DEF IsBody
  <1>9. Len(steps) \in Nat
    BY <1>1, <1>2, <1>5
  <1>10. Composed(steps, x) = f[m + k]
    BY <1>5, <1>8, <1>9, ComposedIs
  <1>11. f[m + k] = vals[chain[Len(chain)]]
    <2>1. m + k \in 0..(m + k) /\ ~(m + k < m) /\ ((m + k) - m) + 1 = k + 1
      BY <1>1, <1>2
    <2>2. k + 1 = Len(chain)
      BY DEF k
    <2> QED BY <1>6, <2>1, <2>2
  <1> QED BY <1>5, <1>10, <1>11 DEF steps, more
LEMMA ComposedFirst ==
  ASSUME NEW first, first = <<>> \/ \E s : first = <<s>>, NEW x
  PROVE  Composed(first, x) = After(first, x)
  <1>1. CASE first = <<>>
    <2> DEFINE f == [i \in 0..0 |-> x]
    <2>1. Len(first) = 0 /\ f[0] = x
      BY <1>1
    <2>2. IsBody(f, first, x)
      BY <2>1 DEF IsBody
    <2> HIDE DEF f
    <2>3. Composed(first, x) = f[Len(first)]
      BY <2>1, <2>2, ComposedIs
    <2> QED BY <1>1, <2>1, <2>3 DEF After
  <1>2. ASSUME NEW s, first = <<s>> PROVE Composed(first, x) = After(first, x)
    <2> DEFINE y == <<first[1].op, x>> \o first[1].consts
               f == [i \in 0..1 |-> IF i = 0 THEN x ELSE y]
    <2>1. Len(first) = 1 /\ first # <<>>
      BY <1>2
    <2>2. f = [i \in 0..1 |-> IF i = 0 THEN x ELSE <<first[i].op, f[i - 1]>> \o first[i].consts]
      <3>1. \A i \in 0..1 : i = 0 \/ (i = 1 /\ i - 1 = 0)
        OBVIOUS
      <3>2. f[0] = x
        OBVIOUS
      <3> QED BY <3>1, <3>2
    <2>3. f[1] = y
      OBVIOUS
    <2> HIDE DEF f, y
    <2>4. IsBody(f, first, x)
      BY <2>1, <2>2 DEF IsBody
    <2>5. Composed(first, x) = f[Len(first)]
      BY <2>1, <2>4, ComposedIs
    <2> QED BY <2>1, <2>3, <2>5 DEF After, y
  <1> QED BY <1>1, <1>2

\* What a reduction does between the maps before it and those behind it.
Combined(c, x) ==
  LET toBool == Keyword(c, "dtype", Absent) = Word("bool")
      combiner == CASE c.op \in {"sum", "mean"} -> IF toBool THEN "or" ELSE "add"
                    [] c.op = "prod" -> IF toBool THEN "and" ELSE "mul"
                    [] c.op = "all" -> "and"
                    [] OTHER -> "or"
  IN  <<combiner, ReducedDims(c, Len(c.args[1].shape)), Argument(c, 3, "keepdim", Flag(FALSE)).val, x>>

LEMMA ReduceMeans ==
  ASSUME NEW c, NEW x
  PROVE  ReduceMeaning(c, x) =
           Composed(MeanSteps(c.op) \o EntrySteps(Keyword(c, "post_map", List(<<>>))),
                    Combined(c, Composed(EntrySteps(Keyword(c, "pre_map", List(<<>>))), x)))
  BY Zenon DEF ReduceMeaning, Reduction, MeantSteps, Combined, EntrySteps

LEMMA MeanIsFirst == \A op : MeanSteps(op) = <<>> \/ \E s : MeanSteps(op) = <<s>>
  BY DEF MeanSteps

\* Without maps, it is all there is.
LEMMA PlainMeans ==
  ASSUME NEW c, "pre_map" \notin DOMAIN c.kw, "post_map" \notin DOMAIN c.kw, NEW x
  PROVE  ReduceMeaning(c, x) = After(MeanSteps(c.op), Combined(c, x))
  <1> DEFINE none == List(<<>>)
             first == MeanSteps(c.op)
  <1>1. EntrySteps(none) = <<>>
    BY DEF EntrySteps, List
  <1> HIDE DEF none
  <1>2. Keyword(c, "pre_map", none) = none /\ Keyword(c, "post_map", none) = none
    BY DEF Keyword
  <1>3. ReduceMeaning(c, x) = Composed(first \o <<>>, Combined(c, Composed(<<>>, x)))
    BY <1>1, <1>2, ReduceMeans, Zenon DEF none
  <1>4. first = <<>> \/ \E s : first = <<s>>
    BY MeanIsFirst
  <1> HIDE DEF first
  <1>5. first \o <<>> = first
    BY <1>4
  <1>6. Composed(<<>>, x) = x
    BY ComposedFirst DEF After
  <1>7. Composed(first, Combined(c, x)) = After(first, Combined(c, x))
    BY <1>4, ComposedFirst
  <1> QED BY <1>3, <1>5, <1>6, <1>7, Zenon DEF first

\* A fused op computes what the last map of its chain does.
LEMMA FusionsCompute ==
  ASSUME NodesInv, WellFormed, MetaInv, NEW n, NEW f \in Fusions(n), NEW vals, IsValues(graph, vals)
  PROVE  LET call == [op |-> f.node.op, args |-> f.node.args, kw |-> NoKw]
         IN  Computes(CallIn(graph, call), TermsOf(call, vals)) = vals[f.tail]
  <1> DEFINE back == CollectPre(graph[n].args[1].id)
             forth == CollectPost(n)
             c == CallIn(graph, graph[n])
             ins == TermsOf(graph[n], vals)
             call == [op |-> f.node.op, args |-> f.node.args, kw |-> NoKw]
             t == CallIn(graph, call)
             outs == TermsOf(call, vals)
             u == Unpacked(t.args)
             pre == Maps(Tail(back))
             post == Maps(Tail(forth))
             none == List(<<>>)
  <1>1. FusesChains(f, n, back, forth)
    BY FusionsAre
  <1> HIDE DEF back, forth
  <1>2. /\ n \in DOMAIN graph /\ graph[n].op \in ReduceOps
        /\ 1 \in DOMAIN graph[n].args /\ graph[n].args[1].kind = "node" /\ graph[n].args[1].id = Last(back)
        /\ back \in Seq(DOMAIN graph) /\ Len(back) > 0 /\ IsChain(back)
        /\ forth \in Seq(DOMAIN graph) /\ Len(forth) > 0 /\ IsChain(forth) /\ forth[1] = n /\ f.tail = Last(forth)
        /\ t.op = "kuiperjit.hreduce_poly" /\ 1 \in DOMAIN f.node.args /\ f.node.args[1] = Ref(back[1])
        /\ Unpacks(u, c, pre, post)
    BY <1>1 DEF FusesChains
  <1>3. Last(back) = back[Len(back)] /\ Last(forth) = forth[Len(forth)]
    BY DEF Last
  <1>4. ins[1] = vals[back[Len(back)]]
    BY <1>2, <1>3 DEF TermsOf, TermOf
  <1>5. outs[1] = vals[back[1]]
    <2>1. call.args = f.node.args
      OBVIOUS
    <2>2. Ref(back[1]).kind = "node" /\ Ref(back[1]).id = back[1]
      BY DEF Ref
    <2> HIDE DEF call
    <2> QED BY <1>2, <2>1, <2>2 DEF TermsOf, TermOf
  <1>6. c.op = graph[n].op /\ c.kw = graph[n].kw
    BY CallFields
  <1>7. vals[n] = ReduceMeaning(c, ins[1])
    <2>1. vals[n] = Computes(c, ins)
      BY <1>2 DEF IsValues
    <2>2. ASSUME NEW d, NEW w, d.op \in ReduceOps PROVE Computes(d, w) = ReduceMeaning(d, w[1])
      BY <2>2, ComputesOps
    <2> HIDE DEF c, ins
    <2> QED BY <1>2, <1>6, <2>1, <2>2
  <1>8. Computes(t, outs) = ReduceMeaning(u, outs[1])
    <2> HIDE DEF t, outs
    <2> QED BY <1>2, ComputesOps
  <1>9. "pre_map" \notin DOMAIN c.kw /\ "post_map" \notin DOMAIN c.kw
    <2>1. DOMAIN graph[n].kw \subseteq {"given", "dtype"}
      BY <1>2 DEF NodesInv, Signature
    <2> QED BY <1>6, <2>1
  <1> HIDE DEF c, ins, t, outs, call, u, none, pre, post
  <1> DEFINE x == Combined(c, vals[back[Len(back)]])
             first == MeanSteps(c.op)
  <1>10. vals[n] = After(first, x)
    BY <1>4, <1>7, <1>9, PlainMeans
  <1>11. /\ u.op = c.op /\ Keyword(u, "pre_map", none) = pre /\ Keyword(u, "post_map", none) = post
         /\ \A y : Combined(u, y) = Combined(c, y)
    <2>1. u.op = c.op /\ Keyword(u, "pre_map", none) = pre /\ Keyword(u, "post_map", none) = post
      BY <1>2 DEF Unpacks, none
    <2>2. /\ u.op = c.op /\ u.args[1] = c.args[1]
          /\ ReducedDims(u, Len(c.args[1].shape)) = ReducedDims(c, Len(c.args[1].shape))
          /\ Argument(u, 3, "keepdim", Flag(FALSE)) = Argument(c, 3, "keepdim", Flag(FALSE))
          /\ Keyword(u, "dtype", Absent) = Keyword(c, "dtype", Absent)
      BY <1>2, Zenon DEF Unpacks
    <2>3. \A y : Combined(u, y) = Combined(c, y)
      BY <2>2, Zenon DEF Combined
    <2> QED BY <2>1, <2>3
  <1>12. Composed(EntrySteps(pre), vals[back[1]]) = vals[back[Len(back)]]
    <2>1. <<>> = <<>> /\ After(<<>>, vals[back[1]]) = vals[back[1]]
      BY DEF After
    <2> QED BY <1>2, <2>1, ChainComposes, Zenon DEF pre
  <1>13. Computes(t, outs) = Composed(first \o EntrySteps(post), x)
    BY <1>5, <1>8, <1>11, <1>12, ReduceMeans, Zenon DEF none
  <1>14. Composed(first \o EntrySteps(post), x) = vals[forth[Len(forth)]]
    <2>1. first = <<>> \/ \E s : first = <<s>>
      BY MeanIsFirst
    <2> HIDE DEF first, x
    <2> QED BY <1>2, <1>10, <2>1, ChainComposes, Zenon DEF post
  <1>15. Computes(t, outs) = vals[f.tail]
    BY <1>2, <1>3, <1>13, <1>14
  <1> QED BY <1>15 DEF t, outs, call

-----------------------------------------------------------------------------
(* The outputs at every step *)

\* The one node of g for the outputs has the value asked for.
Returns(g, o, values, asked) ==
  /\ o \in DOMAIN g /\ values[o] = asked
  /\ \A n \in DOMAIN g : g[n].op = "output" <=> n = o
ValuesInv ==
  \E vals : /\ IsValues(graph, vals)
            /\ phase = "build" => \A n \in DOMAIN graph : graph[n].op # "output"
            /\ phase # "build" => \E o : Returns(graph, o, vals, promised)

LEMMA ValuesInit == Init => ValuesInv
  <1> SUFFICES ASSUME Init PROVE ValuesInv
    OBVIOUS
  <1> DEFINE node == [op |-> "placeholder", args |-> <<>>, kw |-> NoKw, val |-> kind.input]
             vals == [n \in DOMAIN graph |-> <<"input">>]
  <1>1. graph = <<node>> /\ phase = "build"
    BY DEF Init
  <1>2. node.op = "placeholder"
    OBVIOUS
  <1> HIDE DEF node
  <1>3. DOMAIN graph = {1} /\ graph[1].op = "placeholder"
    BY <1>1, <1>2
  <1>4. ASSUME NEW c, NEW ins, c.op = "placeholder" PROVE Computes(c, ins) = <<"input">>
    BY <1>4, ComputesOps
  <1>5. CallIn(graph, graph[1]).op = "placeholder"
    BY <1>3, CallFields
  <1>6. \A n \in DOMAIN graph : vals[n] = Computes(CallIn(graph, graph[n]), TermsOf(graph[n], vals))
    BY <1>3, <1>4, <1>5
  <1>7. IsValues(graph, vals)
    <2>1. vals = [n \in DOMAIN graph |-> vals[n]]
      OBVIOUS
    <2> HIDE DEF vals
    <2> QED BY <1>6, <2>1 DEF IsValues
  <1> QED BY <1>1, <1>3, <1>7 DEF ValuesInv

\* What the pass rewrites leaves the value of the outputs.
LEMMA RewriteReturns ==
  ASSUME NodesInv, WellFormed, NEW at, NEW old, NEW target, NEW dead,
         Closed(at, old, target, dead), Rewrite(at, old, target, dead), UNCHANGED promised,
         NEW vals, IsValues(graph, vals), NEW o, Returns(graph, o, vals, promised),
         LET call == [op |-> target.op, args |-> target.args, kw |-> NoKw]
         IN  Computes(CallIn(graph, call), TermsOf(call, vals)) = vals[old]
  PROVE  \E more : IsValues(graph', more) /\ Returns(graph', o, more, promised')
  <1> DEFINE n == at + MaxNodes
             new == [op |-> target.op, args |-> target.args, kw |-> NoKw, val |-> graph[old].val]
  <1>1. Leaves(graph, graph', n, old, target)
    BY RewriteLeaves
  <1> HIDE DEF n
  <1>2. PICK more : IsValues(graph', more) /\ \A m \in DOMAIN graph' : m # n => more[m] = vals[m]
    BY <1>1, RewriteComputes
  <1>3. /\ n \notin DOMAIN graph /\ n \in DOMAIN graph' /\ graph'[n] = new
        /\ \A m \in DOMAIN graph' : m # n => m \in DOMAIN graph /\ graph'[m] = Renamed(graph[m], old, n)
        /\ \A m \in DOMAIN graph : graph[m].op = "output" => m \in DOMAIN graph'
    BY <1>1 DEF Leaves
  <1>4. graph'[n].op # "output"
    <2>1. new.op = target.op
      OBVIOUS
    <2> HIDE DEF new
    <2> QED BY <1>3, <2>1 DEF Closed, KuiperOps
  <1>5. \A m \in DOMAIN graph' : m # n => graph'[m].op = graph[m].op
    BY <1>3, RenamedOp DEF NodesInv
  <1>6. /\ o \in DOMAIN graph /\ graph[o].op = "output" /\ vals[o] = promised
        /\ \A m \in DOMAIN graph : graph[m].op = "output" <=> m = o
    BY DEF Returns
  <1>7. o \in DOMAIN graph' /\ o # n /\ more[o] = promised'
    BY <1>2, <1>3, <1>6
  <1>8. \A m \in DOMAIN graph' : graph'[m].op = "output" <=> m = o
    BY <1>3, <1>4, <1>5, <1>6, <1>7
  <1> QED BY <1>2, <1>7, <1>8 DEF Returns

LEMMA TraceValues == IInv /\ ValuesInv /\ Trace => ValuesInv'
  <1> SUFFICES ASSUME IInv, ValuesInv, Trace PROVE ValuesInv'
    OBVIOUS
  <1>1. phase = "build" /\ phase' = "build"
    BY DEF Trace
  <1>2. PICK vals : IsValues(graph, vals) /\ \A n \in DOMAIN graph : graph[n].op # "output"
    BY <1>1 DEF ValuesInv
  <1>3. PICK k, node : k \in 1..MaxNodes /\ Adds(graph, graph', k, node) /\ node.op # "output"
    BY TraceAdds
  <1>4. k \in Nat
    BY <1>3, PostGradAssumption
  <1>5. PICK more : IsValues(graph', more)
    BY <1>2, <1>3, <1>4, AddComputes DEF IInv
  <1>6. \A n \in DOMAIN graph' : graph'[n].op # "output"
    BY <1>2, <1>3 DEF Adds
  <1> QED BY <1>1, <1>5, <1>6 DEF ValuesInv

LEMMA CallValues == IInv /\ ValuesInv /\ Call => ValuesInv'
  <1> SUFFICES ASSUME IInv, ValuesInv, Call PROVE ValuesInv'
    OBVIOUS
  <1>1. phase = "build" /\ phase' \in {"fuse", "begin"}
    BY DEF Call
  <1>2. PICK vals : IsValues(graph, vals) /\ \A n \in DOMAIN graph : graph[n].op # "output"
    BY <1>1 DEF ValuesInv
  <1>3. PICK k, node, outs :
          /\ k \in 1..MaxNodes
          /\ Adds(graph, graph', k, node) /\ \A i \in DOMAIN outs : outs[i] \in DOMAIN graph
          /\ node.op = "output" /\ node.args = <<List([i \in DOMAIN outs |-> Ref(outs[i])])>>
          /\ promised' = [i \in DOMAIN outs |-> Value(outs[i])]
    BY CallAdds
  <1>4. k \in Nat
    BY <1>3, PostGradAssumption
  <1>5. PICK more : /\ IsValues(graph', more)
                    /\ more[k + 1] = Computes(CallIn(graph, node), TermsOf(node, vals))
    BY <1>2, <1>3, <1>4, AddComputes DEF IInv
  <1>6. promised' = [i \in DOMAIN outs |-> vals[outs[i]]]
    BY <1>2, <1>3, ValueIs DEF IInv
  <1>7. TermsOf(node, vals)[1] = promised'
    <2> DEFINE items == [i \in DOMAIN outs |-> Ref(outs[i])]
               a == List(items)
    <2>1. a.kind = "list" /\ a.items = items
      BY DEF List
    <2>2. node.args = <<a>>
      BY <1>3
    <2>3. DOMAIN items = DOMAIN outs /\ \A i \in DOMAIN outs : items[i].kind = "node" /\ items[i].id = outs[i]
      BY DEF Ref
    <2> HIDE DEF items, a
    <2>4. TermsOf(node, vals)[1] = TermOf(a, vals)
      BY <2>2 DEF TermsOf
    <2>5. TermOf(a, vals) = [j \in DOMAIN outs |-> vals[outs[j]]]
      BY <2>1, <2>3 DEF TermOf
    <2> QED BY <1>6, <2>4, <2>5
  <1>8. more[k + 1] = promised'
    <2>1. ASSUME NEW c, NEW ins, c.op = "output" PROVE Computes(c, ins) = ins[1]
      BY <2>1, ComputesOps
    <2>2. CallIn(graph, node).op = "output"
      BY <1>3, CallFields
    <2> QED BY <1>5, <1>7, <2>1, <2>2
  <1>9. /\ k + 1 \in DOMAIN graph'
        /\ \A n \in DOMAIN graph' : graph'[n].op = "output" <=> n = k + 1
    BY <1>2, <1>3, <1>4 DEF Adds
  <1>10. Returns(graph', k + 1, more, promised')
    BY <1>8, <1>9 DEF Returns
  <1> QED BY <1>1, <1>5, <1>10 DEF ValuesInv

LEMMA ValuesStep == IInv /\ MetaInv /\ ValuesInv /\ [Next]_vars => ValuesInv'
  <1> SUFFICES ASSUME IInv, MetaInv, ValuesInv, [Next]_vars PROVE ValuesInv'
    OBVIOUS
  <1>1. ASSUME UNCHANGED <<graph, promised>>, phase = "build" <=> phase' = "build" PROVE ValuesInv'
    BY <1>1 DEF ValuesInv, Returns
  <1>2. ASSUME phase # "build", phase' = phase, UNCHANGED promised, NEW at, NEW old, NEW target, NEW dead,
               Closed(at, old, target, dead), Rewrite(at, old, target, dead),
               \A vals : IsValues(graph, vals) =>
                 LET call == [op |-> target.op, args |-> target.args, kw |-> NoKw]
                 IN  Computes(CallIn(graph, call), TermsOf(call, vals)) = vals[old]
        PROVE  ValuesInv'
    <2>1. PICK vals, o : IsValues(graph, vals) /\ Returns(graph, o, vals, promised)
      BY <1>2 DEF ValuesInv
    <2>2. PICK more : IsValues(graph', more) /\ Returns(graph', o, more, promised')
      BY <1>2, <2>1, RewriteReturns DEF IInv
    <2> QED BY <1>2, <2>2 DEF ValuesInv
  <1>3. CASE Fuse /\ UNCHANGED kind
    <2>1. phase = "fuse" /\ UNCHANGED promised
      BY <1>3 DEF Fuse
    <2>2. PICK n \in todo : UNCHANGED <<graph, phase>> \/ \E f \in Fusions(n) : Rewrite(n, f.tail, f.node, f.dead)
      BY <1>3 DEF Fuse
    <2>3. ASSUME NEW f \in Fusions(n), Rewrite(n, f.tail, f.node, f.dead) PROVE ValuesInv'
      <3>1. Closed(n, f.tail, f.node, f.dead)
        BY FusionsClosed DEF IInv
      <3>2. phase' = phase
        BY <1>3, <2>3, <3>1, RewriteKeeps DEF IInv
      <3>3. \A vals : IsValues(graph, vals) =>
              LET call == [op |-> f.node.op, args |-> f.node.args, kw |-> NoKw]
              IN  Computes(CallIn(graph, call), TermsOf(call, vals)) = vals[f.tail]
        BY FusionsCompute DEF IInv
      <3> QED BY <1>2, <2>1, <2>3, <3>1, <3>2, <3>3
    <2> QED BY <1>1, <2>1, <2>2, <2>3
  <1>4. CASE Replace /\ UNCHANGED kind
    <2>1. phase = "replace" /\ UNCHANGED promised
      BY <1>4 DEF Replace
    <2>2. PICK n \in todo : UNCHANGED <<graph, phase>> \/ \E claimed \in Claims(n) : Rewrite(n, n, claimed, {n})
      BY <1>4 DEF Replace
    <2>3. ASSUME NEW claimed \in Claims(n), Rewrite(n, n, claimed, {n}) PROVE ValuesInv'
      <3>1. n \in DOMAIN graph
        BY <2>1 DEF IInv, WalkInv
      <3>2. Closed(n, n, claimed, {n})
        BY <3>1, ClaimsClosed DEF IInv
      <3>3. phase' = phase
        BY <1>4, <2>3, <3>2, RewriteKeeps DEF IInv
      <3>4. \A vals : IsValues(graph, vals) =>
              LET call == [op |-> claimed.op, args |-> claimed.args, kw |-> NoKw]
              IN  Computes(CallIn(graph, call), TermsOf(call, vals)) = vals[n]
        BY <3>1, ClaimsCompute DEF IInv
      <3> QED BY <1>2, <2>1, <2>3, <3>2, <3>3, <3>4
    <2> QED BY <1>1, <2>1, <2>2, <2>3
  <1>5. CASE EndFusion \/ BeginGraph \/ FinishGraph
    BY <1>1, <1>5 DEF EndFusion, BeginGraph, FinishGraph
  <1>6. CASE UNCHANGED vars
    BY <1>1, <1>6 DEF vars
  <1> QED BY <1>3, <1>4, <1>5, <1>6, TraceValues, CallValues DEF Next, Pass

\* The value of the outputs does not depend on how the values are found.
LEMMA ReturnedIs == IInv /\ ValuesInv => ValuesKept
  <1> SUFFICES ASSUME IInv, ValuesInv, phase # "build" PROVE Value(Output) = promised
    BY DEF ValuesKept
  <1>1. PICK vals, o : IsValues(graph, vals) /\ Returns(graph, o, vals, promised)
    BY DEF ValuesInv
  <1>2. Output = o
    BY <1>1 DEF Output, Returns
  <1>3. Value(o) = vals[o]
    BY <1>1, ValueIs DEF IInv, Returns
  <1> QED BY <1>1, <1>2, <1>3 DEF Returns

\* For graphs of any ops and any size, after every rewrite: the outputs of the
\* graph are the terms over its input that they were when Inductor called the
\* pass, so fusing any chain of maps into any reduction and replacing any node
\* by the custom op that claims it changes nothing a caller can see.
THEOREM ReturnsKept == Spec => []ValuesKept
  <1>1. Init => IInv /\ MetaInv /\ ValuesInv
    BY InvInit, MetaInit, ValuesInit
  <1>2. (IInv /\ MetaInv /\ ValuesInv) /\ [Next]_vars => (IInv /\ MetaInv /\ ValuesInv)'
    BY InvStep, MetaStep, ValuesStep
  <1> QED BY <1>1, <1>2, ReturnedIs, PTL DEF Spec

-----------------------------------------------------------------------------
(* What stands between the nodes that are recorded *)

\* What is not recorded reads nothing, or a list: no item is read off an item.
ItemsInv ==
  /\ \A n \in DOMAIN graph : Items(graph, graph[n])
  /\ \A n \in DOMAIN graph : graph[n].op = "output" => \A m \in DOMAIN graph : Place(m) <= Place(n)
  /\ phase = "build" => \A n \in DOMAIN graph : graph[n].op # "output"

LEMMA ItemsInit == Init => ItemsInv
  <1> SUFFICES ASSUME Init PROVE ItemsInv
    OBVIOUS
  <1> DEFINE node == [op |-> "placeholder", args |-> <<>>, kw |-> NoKw, val |-> kind.input]
  <1>1. graph = <<node>> /\ phase = "build" /\ kind \in Kinds
    BY DEF Init
  <1>2. node.op = "placeholder" /\ node.args = <<>> /\ node.val = kind.input
    OBVIOUS
  <1> HIDE DEF node
  <1>3. DOMAIN graph = {1} /\ graph[1] = node
    BY <1>1
  <1>4. InputNodes(node) = {}
    BY <1>2 DEF InputNodes, Range
  <1>5. IsTensor(node.val)
    BY <1>1, <1>2, PostGradAssumption
  <1>6. Items(graph, node)
    BY <1>2, <1>4, <1>5 DEF Items
  <1> QED BY <1>2, <1>3, <1>6 DEF ItemsInv

LEMMA AddItems ==
  ASSUME WellFormed, ItemsInv, NEW k \in Nat, NEW node, Adds(graph, graph', k, node), Items(graph, node)
  PROVE  \A n \in DOMAIN graph' : Items(graph', graph'[n])
  <1>1. /\ \A x \in DOMAIN graph : graph'[x] = graph[x]
        /\ graph'[k + 1] = node /\ DOMAIN graph' = DOMAIN graph \cup {k + 1}
        /\ InputNodes(node) \subseteq DOMAIN graph
    BY DEF Adds
  <1>2. ASSUME NEW some, InputNodes(some) \subseteq DOMAIN graph, Items(graph, some) PROVE Items(graph', some)
    BY <1>1, <1>2 DEF Items
  <1>3. ASSUME NEW n \in DOMAIN graph PROVE Items(graph', graph'[n])
    BY <1>1, <1>2 DEF WellFormed, ItemsInv
  <1> QED BY <1>1, <1>2, <1>3

LEMMA RewriteItems ==
  ASSUME NodesInv, WellFormed, ItemsInv, phase' # "build", NEW at, NEW old, NEW target, NEW dead,
         Closed(at, old, target, dead), Rewrite(at, old, target, dead)
  PROVE  ItemsInv'
  <1> DEFINE n == at + MaxNodes
             new == [op |-> target.op, args |-> target.args, kw |-> NoKw, val |-> graph[old].val]
  <1>1. /\ n \notin DOMAIN graph /\ n \in DOMAIN graph' /\ old \in DOMAIN graph /\ graph'[n] = new
        /\ \A m \in DOMAIN graph' : m # n => m \in DOMAIN graph /\ graph'[m] = Renamed(graph[m], old, n)
        /\ \A m \in DOMAIN graph' : m # n => \A x \in InputNodes(graph[m]) : x # old => x \in DOMAIN graph' \ {n}
    <2>1. n = at + MaxNodes
      OBVIOUS
    <2> HIDE DEF n
    <2>2. Leaves(graph, graph', n, old, target)
      BY <2>1, RewriteLeaves
    <2> QED BY <2>2 DEF Leaves
  <1>2. at \in DOMAIN graph /\ Place(n) = Place(at)
    BY PostGradAssumption, Places DEF Closed, Place, NodesInv
  <1>3. new.op \in KuiperOps /\ new.val = graph[old].val
    BY DEF Closed
  <1> HIDE DEF n, new
  <1>4. graph'[n].op \notin {"placeholder", "getitem", "output"}
    BY <1>1, <1>3 DEF KuiperOps
  <1>5. ASSUME NEW m \in DOMAIN graph', m # n
        PROVE  graph'[m].op = graph[m].op /\ graph'[m].val = graph[m].val /\ IsNode(graph[m])
    BY <1>1, <1>5, RenamedOp, RenamedVal DEF NodesInv
  <1>6. ASSUME NEW m \in DOMAIN graph', m # n PROVE Items(graph', graph'[m])
    <2>1. Items(graph, graph[m])
      BY <1>1, <1>6 DEF ItemsInv
    <2>2. ASSUME NEW x \in InputNodes(graph'[m])
          PROVE  \E y \in InputNodes(graph[m]) : graph'[x].val = graph[y].val
      <3>1. (x \in InputNodes(graph[m]) /\ x # old) \/ (x = n /\ old \in InputNodes(graph[m]))
        BY <1>1, <1>5, <1>6, RenamedInputs
      <3> QED BY <1>1, <1>3, <1>5, <1>6, <3>1
    <2> QED BY <1>5, <1>6, <2>1, <2>2 DEF Items
  <1>7. Items(graph', graph'[n])
    BY <1>4 DEF Items
  <1>8. ASSUME NEW o \in DOMAIN graph', graph'[o].op = "output", NEW m \in DOMAIN graph' PROVE Place(m) <= Place(o)
    <2>1. o # n /\ o \in DOMAIN graph /\ graph[o].op = "output"
      BY <1>1, <1>4, <1>5, <1>8
    <2>2. m = n \/ m \in DOMAIN graph
      BY <1>1
    <2> QED BY <1>2, <2>1, <2>2 DEF ItemsInv
  <1> QED BY <1>6, <1>7, <1>8 DEF ItemsInv

LEMMA ItemsStep == IInv /\ ItemsInv /\ [Next]_vars => ItemsInv'
  <1> SUFFICES ASSUME IInv, ItemsInv, [Next]_vars PROVE ItemsInv'
    OBVIOUS
  <1>1. ASSUME UNCHANGED graph, phase' = phase \/ phase' # "build" PROVE ItemsInv'
    BY <1>1 DEF ItemsInv
  <1>2. CASE Trace
    <2>1. PICK k, node : /\ k \in 1..MaxNodes /\ Adds(graph, graph', k, node)
                         /\ Items(graph, node) /\ node.op # "output"
      BY <1>2, TraceAdds
    <2>2. k \in Nat /\ phase = "build"
      BY <1>2, <2>1, PostGradAssumption DEF Trace
    <2>3. \A n \in DOMAIN graph' : Items(graph', graph'[n])
      BY <2>1, <2>2, AddItems DEF IInv
    <2>4. \A n \in DOMAIN graph' : graph'[n].op # "output"
      BY <2>1, <2>2 DEF Adds, ItemsInv
    <2> QED BY <2>3, <2>4 DEF ItemsInv
  <1>3. CASE Call
    <2>1. PICK k, node : k \in 1..MaxNodes /\ Adds(graph, graph', k, node) /\ k + 1 <= MaxNodes /\ node.op = "output"
      BY <1>3, CallAdds
    <2>2. k \in Nat /\ MaxNodes \in Nat /\ phase = "build" /\ phase' # "build"
      BY <1>3, <2>1, PostGradAssumption DEF Call
    <2>3. Items(graph, node)
      BY <2>1 DEF Items
    <2>4. \A n \in DOMAIN graph' : Items(graph', graph'[n])
      BY <2>1, <2>2, <2>3, AddItems DEF IInv
    <2>5. DOMAIN graph' = 1..(k + 1) /\ \A n \in DOMAIN graph' : graph'[n].op = "output" => n = k + 1
      BY <2>1, <2>2 DEF Adds, ItemsInv
    <2>6. \A m \in DOMAIN graph' : Place(m) <= Place(k + 1)
      BY <2>1, <2>2, <2>5 DEF Place
    <2> QED BY <2>2, <2>4, <2>5, <2>6 DEF ItemsInv
  <1>4. CASE Fuse /\ UNCHANGED kind
    <2>1. phase = "fuse"
      BY <1>4 DEF Fuse
    <2>2. PICK n \in todo : UNCHANGED <<graph, phase>> \/ \E f \in Fusions(n) : Rewrite(n, f.tail, f.node, f.dead)
      BY <1>4 DEF Fuse
    <2>3. ASSUME NEW f \in Fusions(n), Rewrite(n, f.tail, f.node, f.dead) PROVE ItemsInv'
      <3>1. Closed(n, f.tail, f.node, f.dead)
        BY FusionsClosed DEF IInv
      <3>2. phase' = phase
        BY <1>4, <2>3, <3>1, RewriteKeeps DEF IInv
      <3> QED BY <2>1, <2>3, <3>1, <3>2, RewriteItems DEF IInv
    <2> QED BY <1>1, <2>2, <2>3
  <1>5. CASE Replace /\ UNCHANGED kind
    <2>1. phase = "replace"
      BY <1>5 DEF Replace
    <2>2. PICK n \in todo : UNCHANGED <<graph, phase>> \/ \E claimed \in Claims(n) : Rewrite(n, n, claimed, {n})
      BY <1>5 DEF Replace
    <2>3. ASSUME NEW claimed \in Claims(n), Rewrite(n, n, claimed, {n}) PROVE ItemsInv'
      <3>1. n \in DOMAIN graph
        BY <2>1 DEF IInv, WalkInv
      <3>2. Closed(n, n, claimed, {n})
        BY <3>1, ClaimsClosed DEF IInv
      <3>3. phase' = phase
        BY <1>5, <2>3, <3>2, RewriteKeeps DEF IInv
      <3> QED BY <2>1, <2>3, <3>2, <3>3, RewriteItems DEF IInv
    <2> QED BY <1>1, <2>2, <2>3
  <1>6. CASE EndFusion \/ BeginGraph \/ FinishGraph \/ UNCHANGED vars
    BY <1>1, <1>6 DEF EndFusion, BeginGraph, FinishGraph, vars
  <1> QED BY <1>2, <1>3, <1>4, <1>5, <1>6 DEF Next, Pass

-----------------------------------------------------------------------------
(* The trace follows the graph *)

\* Renaming trades one node for another, and reads no fewer.
LEMMA SwappedReads ==
  ASSUME NEW a, NEW from, NEW to, NEW x \in NodesOf(a)
  PROVE  (IF x = from THEN to ELSE x) \in NodesOf(Swapped(a, from, to))
  <1>1. CASE from \notin NodesOf(a)
    BY <1>1 DEF Swapped
  <1>2. CASE from \in NodesOf(a) /\ a.kind # "list"
    <2>1. a.kind = "node"
      BY NodesOfOther, <1>2
    <2>2. x = from
      BY <1>2, <2>1, NodesOfNode
    <2>3. Swapped(a, from, to) = Ref(to)
      BY <1>2 DEF Swapped
    <2>4. Ref(to).kind = "node" /\ Ref(to).id = to
      BY DEF Ref
    <2> QED BY <2>2, <2>3, <2>4, NodesOfNode
  <1>3. CASE from \in NodesOf(a) /\ a.kind = "list"
    <2> DEFINE item(j) == IF a.items[j].kind = "node" /\ a.items[j].id = from THEN Ref(to) ELSE a.items[j]
               items == [j \in DOMAIN a.items |-> item(j)]
    <2>1. Swapped(a, from, to) = List(items)
      BY <1>3 DEF Swapped
    <2>2. PICK b \in Range(a.items) : b.kind = "node" /\ x = b.id
      BY <1>3 DEF NodesOf
    <2>3. PICK j \in DOMAIN a.items : b = a.items[j]
      BY <2>2 DEF Range
    <2>4. item(j).kind = "node" /\ item(j).id = IF x = from THEN to ELSE x
      BY <2>2, <2>3 DEF Ref
    <2>5. items[j] = item(j) /\ j \in DOMAIN items
      OBVIOUS
    <2> HIDE DEF item, items
    <2>6. item(j) \in Range(items)
      BY <2>5 DEF Range
    <2> QED BY <2>1, <2>4, <2>6, NodesOfList
  <1> QED BY <1>1, <1>2, <1>3

LEMMA RenamedReads ==
  ASSUME NEW node, IsNode(node), NEW from, NEW to
  PROVE  InputNodes(Renamed(node, from, to)) = {IF x = from THEN to ELSE x : x \in InputNodes(node)}
  <1> DEFINE new == Renamed(node, from, to)
  <1>1. new.args = [i \in DOMAIN node.args |-> Swapped(node.args[i], from, to)]
    BY RenamedFields
  <1>2. ASSUME NEW x \in InputNodes(new) PROVE \E y \in InputNodes(node) : x = IF y = from THEN to ELSE y
    BY RenamedInputs
  <1> HIDE DEF new
  <1>3. ASSUME NEW x \in InputNodes(node) PROVE (IF x = from THEN to ELSE x) \in InputNodes(new)
    <2>1. PICK i \in DOMAIN node.args : x \in NodesOf(node.args[i])
      BY InputNodesIn
    <2>2. i \in DOMAIN new.args /\ (IF x = from THEN to ELSE x) \in NodesOf(new.args[i])
      BY <1>1, <2>1, SwappedReads
    <2> QED BY <2>2, InputNodesArg
  <1>4. InputNodes(new) = {IF x = from THEN to ELSE x : x \in InputNodes(node)}
    BY <1>2, <1>3
  <1> QED BY <1>4 DEF new

\* A custom op reads what the op it is claimed for reads.
LEMMA ClaimsRead ==
  ASSUME NodesInv, NEW n \in DOMAIN graph, NEW claimed \in Claims(n)
  PROVE  InputNodes(claimed) = InputNodes(graph[n])
  <1> DEFINE node == graph[n]
  <1>1. Signature(node)
    BY DEF NodesInv
  <1>2. ASSUME NEW same, same \subseteq DOMAIN node.args, same \subseteq DOMAIN claimed.args,
               \A i \in same : claimed.args[i] = node.args[i],
               \A i \in DOMAIN node.args \ same : NodesOf(node.args[i]) = {},
               \A i \in DOMAIN claimed.args \ same : NodesOf(claimed.args[i]) = {}
        PROVE  InputNodes(claimed) = InputNodes(node)
    <2>1. ASSUME NEW x \in InputNodes(claimed) PROVE x \in InputNodes(node)
      <3>1. PICK i \in DOMAIN claimed.args : x \in NodesOf(claimed.args[i])
        BY InputNodesIn
      <3> QED BY <1>2, <3>1, InputNodesArg
    <2>2. ASSUME NEW x \in InputNodes(node) PROVE x \in InputNodes(claimed)
      <3>1. PICK i \in DOMAIN node.args : x \in NodesOf(node.args[i])
        BY InputNodesIn
      <3> QED BY <1>2, <3>1, InputNodesArg
    <2> QED BY <2>1, <2>2
  <1>3. CASE node.op \in {"mm", "bmm"} /\ claimed.args = node.args
    BY <1>3 DEF InputNodes
  <1>4. CASE node.op = "addmm" /\ claimed.args = <<node.args[1], node.args[2], node.args[3],
                                                    ClaimedNumber(node, "beta"), ClaimedNumber(node, "alpha")>>
    <2>1. DOMAIN claimed.args = 1..5 /\ 1..3 \subseteq 1..5
      BY <1>4
    <2>2. 1..3 \subseteq DOMAIN node.args /\ \A i \in DOMAIN node.args \ 1..3 : NodesOf(node.args[i]) = {}
      BY <1>1, <1>4 DEF Signature
    <2>3. \A i \in 1..3 : claimed.args[i] = node.args[i]
      BY <1>4
    <2>4. ASSUME NEW name PROVE NodesOf(ClaimedNumber(node, name)) = {}
      BY NodesOfOther DEF ClaimedNumber, Num
    <2>5. \A i \in 1..5 \ 1..3 : claimed.args[i] = ClaimedNumber(node, "beta") \/ claimed.args[i] = ClaimedNumber(node, "alpha")
      BY <1>4
    <2>6. \A i \in DOMAIN claimed.args \ 1..3 : NodesOf(claimed.args[i]) = {}
      BY <2>1, <2>4, <2>5
    <2> QED BY <1>2, <2>1, <2>2, <2>3, <2>6
  <1>5. CASE node.op \in SdpaOps /\ claimed.args = SdpaArgs(node)
    <2> DEFINE scale == ClaimedScale(node)
               causal == ClaimedGiven(node, 7)
    <2>1. /\ 1..4 \subseteq DOMAIN node.args
          /\ \A i \in DOMAIN node.args \ 1..4 : NodesOf(node.args[i]) = {}
          /\ \A k \in DOMAIN node.kw : NodesOf(node.kw[k]) = {}
      BY <1>1, <1>5 DEF Signature
    <2>2. NodesOf(scale) = {}
      <3>1. NodesOf(Absent) = {} /\ \A w : NodesOf(Word(w)) = {}
        BY NodesOfOther DEF Absent, Word
      <3>2. NodesOf(Keyword(node, "scale", Absent)) = {}
        BY <2>1, <3>1 DEF Keyword
      <3> QED BY <3>1, <3>2 DEF ClaimedScale
    <2>3. NodesOf(causal) = {}
      <3>1. NodesOf(Flag(FALSE)) = {}
        BY NodesOfOther DEF Flag
      <3>2. 7 \notin 1..4
        OBVIOUS
      <3> QED BY <2>1, <3>1, <3>2, Zenon DEF ClaimedGiven
    <2> HIDE DEF scale, causal
    <2>4. claimed.args = <<node.args[1], node.args[2], node.args[3], node.args[4], scale, causal>>
      BY <1>5 DEF SdpaArgs, scale, causal
    <2>5. DOMAIN claimed.args = 1..6 /\ 1..4 \subseteq 1..6
      BY <2>4
    <2>6. \A i \in 1..4 : claimed.args[i] = node.args[i]
      BY <2>4
    <2>7. \A i \in 1..6 \ 1..4 : claimed.args[i] = scale \/ claimed.args[i] = causal
      BY <2>4
    <2> QED BY <1>2, <2>1, <2>2, <2>3, <2>5, <2>6, <2>7
  <1> QED BY ClaimsAre, <1>3, <1>4, <1>5

\* The node of the snapshot that a node of the graph is, or stands for.
Was(inputs, n) == IF n \in DOMAIN inputs THEN n ELSE n - MaxNodes
Named(g, n) == g[n].op \notin {"placeholder", "output", "getitem"}

\* The snapshot has the shape of the graph, and left the nodes not yet recorded.
Follows(g, inputs, keys, left) ==
  /\ DOMAIN keys \subseteq DOMAIN inputs /\ left \subseteq DOMAIN inputs
  /\ \A n \in DOMAIN g : Was(inputs, n) \in DOMAIN inputs
  /\ \A t \in DOMAIN inputs : \E n \in DOMAIN g : Was(inputs, n) = t
  /\ \A m, n \in DOMAIN g : Was(inputs, m) = Was(inputs, n) => m = n
  /\ \A n \in DOMAIN g :
       /\ {Was(inputs, m) : m \in InputNodes(g[n])} = inputs[Was(inputs, n)]
       /\ Was(inputs, n) \in DOMAIN keys <=> Named(g, n) /\ Was(inputs, n) \notin left
TraceInv ==
  /\ tracer = [inputs |-> tracer.inputs, keys |-> tracer.keys, edges |-> tracer.edges]
  /\ phase \notin {"replace", "done"} => DOMAIN tracer.keys = {}
  /\ phase \in {"replace", "done"} => Follows(graph, tracer.inputs, tracer.keys, todo)
  /\ phase = "done" => todo = {} /\ tracer.edges = Edges(tracer.keys, tracer.inputs)

LEMMA TraceBegins ==
  ASSUME WellFormed, TraceInv, BeginGraph
  PROVE  TraceInv'
  <1> DEFINE inputs == [n \in DOMAIN graph |-> InputNodes(graph[n])]
  <1>1. /\ phase = "begin" /\ phase' = "replace" /\ todo' = DOMAIN graph /\ graph' = graph
        /\ tracer' = [tracer EXCEPT !.inputs = inputs]
    BY DEF BeginGraph
  <1> HIDE DEF inputs
  <1>2. /\ tracer' = [inputs |-> tracer'.inputs, keys |-> tracer'.keys, edges |-> tracer'.edges]
        /\ tracer'.inputs = inputs /\ tracer'.keys = tracer.keys
    BY <1>1 DEF TraceInv
  <1>3. DOMAIN tracer.keys = {}
    BY <1>1 DEF TraceInv
  <1>4. DOMAIN inputs = DOMAIN graph /\ \A n \in DOMAIN graph : inputs[n] = InputNodes(graph[n])
    BY DEF inputs
  <1>5. \A n \in DOMAIN graph : Was(inputs, n) = n
    BY <1>4 DEF Was
  <1>6. ASSUME NEW n \in DOMAIN graph PROVE {Was(inputs, m) : m \in InputNodes(graph[n])} = inputs[n]
    <2>1. InputNodes(graph[n]) \subseteq DOMAIN graph
      BY DEF WellFormed
    <2> QED BY <1>4, <1>5, <2>1
  <1>7. Follows(graph, inputs, tracer.keys, DOMAIN graph)
    BY <1>3, <1>4, <1>5, <1>6 DEF Follows
  <1> QED BY <1>1, <1>2, <1>7 DEF TraceInv

\* Recording a node takes it off what is left.
LEMMA RecordFollows ==
  ASSUME NEW inputs, NEW keys, NEW left, Follows(graph, inputs, keys, left), NEW n \in left, n \in DOMAIN graph,
         NEW more, DOMAIN more = IF Named(graph, n) THEN DOMAIN keys \cup {n} ELSE DOMAIN keys
  PROVE  Follows(graph, inputs, more, left \ {n})
  <1>1. n \in DOMAIN inputs /\ Was(inputs, n) = n
    BY DEF Follows, Was
  <1>2. ASSUME NEW m \in DOMAIN graph
        PROVE  Was(inputs, m) \in DOMAIN more <=> Named(graph, m) /\ Was(inputs, m) \notin left \ {n}
    <2>1. CASE m = n
      <3>1. n \notin DOMAIN keys
        BY <1>1 DEF Follows
      <3> QED BY <1>1, <2>1, <3>1
    <2>2. CASE m # n
      <3>1. Was(inputs, m) # n
        BY <1>1, <2>2 DEF Follows
      <3> QED BY <3>1 DEF Follows
    <2> QED BY <2>1, <2>2
  <1>3. DOMAIN more \subseteq DOMAIN inputs
    BY <1>1 DEF Follows
  <1> QED BY <1>2, <1>3 DEF Follows

\* So does replacing one that is recorded.
LEMMA ReplacedFollows ==
  ASSUME NodesInv, WellFormed, NEW inputs, NEW keys, NEW left, Follows(graph, inputs, keys, left),
         NEW old \in DOMAIN inputs, NEW target, Closed(old, old, target, {old}), Rewrite(old, old, target, {old}),
         InputNodes(target) = InputNodes(graph[old]), Named(graph, old)
  PROVE  Follows(graph', inputs, keys, left)
  <1> DEFINE n == old + MaxNodes
             new == [op |-> target.op, args |-> target.args, kw |-> NoKw, val |-> graph[old].val]
  <1>1. /\ n \notin DOMAIN graph /\ n \in DOMAIN graph' /\ old \in DOMAIN graph /\ old \notin DOMAIN graph' /\ graph'[n] = new
        /\ \A m \in DOMAIN graph' : m # n => m \in DOMAIN graph /\ graph'[m] = Renamed(graph[m], old, n)
    BY RewriteLeaves DEF Leaves
  <1>2. DOMAIN graph' = (DOMAIN graph \cup {n}) \ {old}
    BY DEF Rewrite
  <1>3. old \in 1..MaxNodes /\ MaxNodes \in Nat /\ n - MaxNodes = old /\ n > MaxNodes
    BY PostGradAssumption DEF Closed, NodesInv
  <1>4. new.op \in KuiperOps /\ new.args = target.args
    BY DEF Closed
  <1>5. n \notin DOMAIN inputs
    <2> SUFFICES ASSUME n \in DOMAIN inputs PROVE FALSE
      OBVIOUS
    <2>1. PICK x \in DOMAIN graph : Was(inputs, x) = n
      BY DEF Follows
    <2>2. x # n /\ x \in 1..(2 * MaxNodes)
      BY <1>1, <2>1 DEF NodesInv
    <2>3. x - MaxNodes = n
      BY <2>1, <2>2 DEF Was
    <2> QED BY <1>3, <2>2, <2>3
  <1>6. Was(inputs, n) = old /\ Was(inputs, old) = old
    BY <1>3, <1>5 DEF Was
  <1> HIDE DEF n, new
  <1>7. Named(graph', n)
    BY <1>1, <1>4 DEF Named, KuiperOps
  <1>8. InputNodes(graph'[n]) = InputNodes(graph[old])
    BY <1>1, <1>4 DEF InputNodes
  <1>9. ASSUME NEW m \in DOMAIN graph', m # n
        PROVE  /\ m \in DOMAIN graph
               /\ Named(graph', m) <=> Named(graph, m)
               /\ InputNodes(graph'[m]) = {IF x = old THEN n ELSE x : x \in InputNodes(graph[m])}
    BY <1>1, <1>9, RenamedOp, RenamedReads DEF NodesInv, Named
  <1>10. ASSUME NEW m \in DOMAIN graph', m # n
         PROVE  {Was(inputs, x) : x \in InputNodes(graph'[m])} = {Was(inputs, x) : x \in InputNodes(graph[m])}
    <2>1. \A x : Was(inputs, IF x = old THEN n ELSE x) = Was(inputs, x)
      BY <1>6
    <2> QED BY <1>9, <1>10, <2>1
  <1>11. ASSUME NEW m \in DOMAIN graph'
         PROVE  \E x \in DOMAIN graph : /\ Was(inputs, m) = Was(inputs, x) /\ (Named(graph', m) <=> Named(graph, x))
                                        /\ {Was(inputs, y) : y \in InputNodes(graph'[m])} =
                                             {Was(inputs, y) : y \in InputNodes(graph[x])}
                                        /\ (x = m \/ (m = n /\ x = old))
    <2>1. CASE m = n
      BY <1>1, <1>6, <1>7, <1>8, <2>1
    <2>2. CASE m # n
      BY <1>9, <1>10, <2>2
    <2> QED BY <2>1, <2>2
  <1>12. ASSUME NEW x \in DOMAIN graph PROVE \E m \in DOMAIN graph' : Was(inputs, m) = Was(inputs, x)
    BY <1>1, <1>2, <1>6
  <1>13. \A m \in DOMAIN graph' : Was(inputs, m) \in DOMAIN inputs
    BY <1>11 DEF Follows
  <1>14. ASSUME NEW t \in DOMAIN inputs PROVE \E m \in DOMAIN graph' : Was(inputs, m) = t
    <2>1. PICK x \in DOMAIN graph : Was(inputs, x) = t
      BY DEF Follows
    <2> QED BY <1>12, <2>1
  <1>15. ASSUME NEW l \in DOMAIN graph', NEW m \in DOMAIN graph', Was(inputs, l) = Was(inputs, m) PROVE l = m
    <2>1. PICK x \in DOMAIN graph : Was(inputs, l) = Was(inputs, x) /\ (x = l \/ (l = n /\ x = old))
      BY <1>11
    <2>2. PICK y \in DOMAIN graph : Was(inputs, m) = Was(inputs, y) /\ (y = m \/ (m = n /\ y = old))
      BY <1>11
    <2>3. x = y
      BY <1>15, <2>1, <2>2 DEF Follows
    <2> QED BY <1>1, <2>1, <2>2, <2>3
  <1>16. \A m \in DOMAIN graph' :
           /\ {Was(inputs, x) : x \in InputNodes(graph'[m])} = inputs[Was(inputs, m)]
           /\ Was(inputs, m) \in DOMAIN keys <=> Named(graph', m) /\ Was(inputs, m) \notin left
    BY <1>11 DEF Follows
  <1> QED BY <1>13, <1>14, <1>15, <1>16 DEF Follows
LEMMA TraceInit == Init => TraceInv
  BY DEF Init, TraceInv

LEMMA ReplaceFollows == IInv /\ TraceInv /\ Replace /\ UNCHANGED kind => TraceInv'
  <1> SUFFICES ASSUME IInv, TraceInv, Replace, UNCHANGED kind PROVE TraceInv'
    OBVIOUS
  <1> DEFINE inputs == tracer.inputs
             keys == tracer.keys
  <1>1. PICK n \in todo : /\ phase = "replace" /\ todo' = todo \ {n} /\ Record(n)
                          /\ UNCHANGED <<graph, phase>> \/ \E claimed \in Claims(n) : Rewrite(n, n, claimed, {n})
    BY DEF Replace
  <1>2. n \in DOMAIN graph /\ Follows(graph, inputs, keys, todo)
    BY <1>1 DEF IInv, WalkInv, TraceInv
  <1>3. /\ tracer' = [inputs |-> tracer'.inputs, keys |-> tracer'.keys, edges |-> tracer'.edges]
        /\ tracer'.inputs = inputs
        /\ DOMAIN tracer'.keys = IF Named(graph, n) THEN DOMAIN keys \cup {n} ELSE DOMAIN keys
    <2>1. tracer = [inputs |-> tracer.inputs, keys |-> tracer.keys, edges |-> tracer.edges]
      BY DEF TraceInv
    <2>2. Recorded(n) <=> Named(graph, n)
      BY DEF Recorded, Named
    <2> QED BY <1>1, <2>1, <2>2 DEF Record
  <1>4. Follows(graph, inputs, tracer'.keys, todo')
    BY <1>1, <1>2, <1>3, RecordFollows
  <1> HIDE DEF inputs, keys
  <1>5. phase' = "replace" /\ Follows(graph', inputs, tracer'.keys, todo')
    <2>1. CASE UNCHANGED <<graph, phase>>
      BY <1>1, <1>4, <2>1
    <2>2. CASE \E claimed \in Claims(n) : Rewrite(n, n, claimed, {n})
      <3>1. PICK claimed \in Claims(n) : Rewrite(n, n, claimed, {n})
        BY <2>2
      <3>2. Closed(n, n, claimed, {n}) /\ InputNodes(claimed) = InputNodes(graph[n])
        BY <1>2, ClaimsClosed, ClaimsRead DEF IInv
      <3>3. Named(graph, n)
        BY ClaimsAre DEF Named, SdpaOps
      <3>4. phase' = phase
        <4>1. NodesInv /\ WellFormed /\ Closed(n, n, claimed, {n})
          BY <3>2 DEF IInv
        <4> QED BY <3>1, <4>1, RewriteKeeps
      <3>5. n \in DOMAIN inputs
        BY <1>1, <1>2 DEF Follows
      <3>6. Follows(graph', inputs, tracer'.keys, todo')
        BY <1>4, <3>1, <3>2, <3>3, <3>5, ReplacedFollows DEF IInv
      <3> QED BY <1>1, <3>4, <3>6
    <2> QED BY <1>1, <2>1, <2>2
  <1> QED BY <1>3, <1>5 DEF TraceInv

LEMMA TraceStep == IInv /\ TraceInv /\ [Next]_vars => TraceInv'
  <1> SUFFICES ASSUME IInv, TraceInv, [Next]_vars PROVE TraceInv'
    OBVIOUS
  <1>1. ASSUME UNCHANGED tracer, phase \notin {"replace", "done"}, phase' \notin {"replace", "done"} PROVE TraceInv'
    BY <1>1 DEF TraceInv
  <1>2. CASE Trace \/ Call \/ EndFusion
    BY <1>1, <1>2 DEF Trace, Call, EndFusion
  <1>3. CASE Fuse
    <2>1. UNCHANGED tracer /\ phase = "fuse" /\ phase' \in {"fuse", "raised"}
      BY <1>3 DEF Fuse, Rewrite
    <2> QED BY <1>1, <2>1
  <1>4. CASE BeginGraph
    BY <1>4, TraceBegins DEF IInv
  <1>5. CASE Replace /\ UNCHANGED kind
    BY <1>5, ReplaceFollows
  <1>6. CASE FinishGraph
    <2>1. /\ phase = "replace" /\ phase' = "done" /\ UNCHANGED <<graph, todo>> /\ todo = {}
          /\ tracer' = [tracer EXCEPT !.edges = Edges(tracer.keys, tracer.inputs)]
      BY <1>6 DEF FinishGraph
    <2>2. /\ tracer' = [inputs |-> tracer'.inputs, keys |-> tracer'.keys, edges |-> tracer'.edges]
          /\ tracer'.inputs = tracer.inputs /\ tracer'.keys = tracer.keys
          /\ tracer'.edges = Edges(tracer.keys, tracer.inputs)
      BY <2>1 DEF TraceInv
    <2>3. Follows(graph', tracer'.inputs, tracer'.keys, todo')
      BY <2>1, <2>2 DEF TraceInv
    <2> QED BY <2>1, <2>2, <2>3 DEF TraceInv
  <1>7. CASE UNCHANGED vars
    BY <1>7 DEF vars, TraceInv
  <1> QED BY <1>2, <1>3, <1>4, <1>5, <1>6, <1>7 DEF Next, Pass

\* What the edges of a trace are where the nodes in between read only recorded ones.
Sources(keys, inputs, t) == DOMAIN keys \cap (inputs[t] \cup UNION {inputs[m] : m \in inputs[t] \ DOMAIN keys})
IsUpstream(keys, inputs, up) ==
  up = [n \in DOMAIN inputs |-> IF n \in DOMAIN keys THEN {keys[n]} ELSE UNION {up[m] : m \in inputs[n]}]
Near(keys, inputs, n) == IF n \in DOMAIN keys THEN {keys[n]} ELSE {keys[m] : m \in inputs[n]}

LEMMA EdgesAre ==
  ASSUME NEW keys, NEW inputs, DOMAIN keys \subseteq DOMAIN inputs,
         \A n \in DOMAIN inputs : inputs[n] \subseteq DOMAIN inputs,
         \A n \in DOMAIN inputs : \A m \in inputs[n] : m \in DOMAIN keys \/ inputs[m] \subseteq DOMAIN keys
  PROVE  Edges(keys, inputs) = UNION {{<<keys[s], keys[t], t>> : s \in Sources(keys, inputs, t)} : t \in DOMAIN keys}
  <1> DEFINE upstream == CHOOSE v : IsUpstream(keys, inputs, v)
             up == [n \in DOMAIN inputs |->
                      IF n \in DOMAIN keys THEN {keys[n]}
                      ELSE IF inputs[n] \subseteq DOMAIN keys THEN {keys[m] : m \in inputs[n]}
                      ELSE UNION {Near(keys, inputs, m) : m \in inputs[n]}]
  <1>1. ASSUME NEW n \in DOMAIN inputs, NEW m \in inputs[n] PROVE up[m] = Near(keys, inputs, m)
    BY <1>1 DEF Near
  <1>2. ASSUME NEW n \in DOMAIN inputs, n \notin DOMAIN keys, inputs[n] \subseteq DOMAIN keys
        PROVE  {keys[m] : m \in inputs[n]} = UNION {Near(keys, inputs, m) : m \in inputs[n]}
    <2>1. \A m \in inputs[n] : Near(keys, inputs, m) = {keys[m]}
      BY <1>2 DEF Near
    <2> QED BY <2>1
  <1>3. IsUpstream(keys, inputs, up)
    <2>1. ASSUME NEW n \in DOMAIN inputs, n \notin DOMAIN keys PROVE up[n] = UNION {up[m] : m \in inputs[n]}
      <3>1. up[n] = UNION {Near(keys, inputs, m) : m \in inputs[n]}
        BY <1>2, <2>1
      <3> HIDE DEF up
      <3> QED BY <1>1, <3>1
    <2>2. up = [n \in DOMAIN inputs |-> up[n]] /\ \A n \in DOMAIN inputs : n \in DOMAIN keys => up[n] = {keys[n]}
      OBVIOUS
    <2> HIDE DEF up
    <2> QED BY <2>1, <2>2 DEF IsUpstream
  <1>4. IsUpstream(keys, inputs, upstream)
    BY <1>3
  <1>5. Edges(keys, inputs) = UNION {{<<source, keys[n], n>> : source \in UNION {upstream[m] : m \in inputs[n]}} :
                                     n \in DOMAIN keys \cap DOMAIN inputs}
    BY DEF Edges, IsUpstream
  <1> HIDE DEF up, upstream
  <1>6. \A n \in DOMAIN inputs : upstream[n] = IF n \in DOMAIN keys THEN {keys[n]} ELSE UNION {upstream[m] : m \in inputs[n]}
    BY <1>4 DEF IsUpstream
  <1>7. ASSUME NEW n \in DOMAIN inputs, NEW m \in inputs[n] PROVE upstream[m] = Near(keys, inputs, m)
    <2>1. m \in DOMAIN inputs /\ (m \in DOMAIN keys \/ inputs[m] \subseteq DOMAIN keys)
      BY <1>7
    <2>2. CASE m \in DOMAIN keys
      BY <1>6, <2>1, <2>2 DEF Near
    <2>3. CASE m \notin DOMAIN keys
      <3>1. \A k \in inputs[m] : k \in DOMAIN inputs /\ upstream[k] = {keys[k]}
        BY <1>6, <2>1, <2>3
      <3>2. upstream[m] = UNION {upstream[k] : k \in inputs[m]}
        BY <1>6, <2>1, <2>3
      <3>3. upstream[m] = {keys[k] : k \in inputs[m]}
        BY <3>1, <3>2
      <3> QED BY <2>3, <3>3 DEF Near
    <2> QED BY <2>2, <2>3
  <1>8. ASSUME NEW t \in DOMAIN keys
        PROVE  UNION {upstream[m] : m \in inputs[t]} = {keys[s] : s \in Sources(keys, inputs, t)}
    <2>1. t \in DOMAIN inputs
      OBVIOUS
    <2>2. ASSUME NEW m \in inputs[t], NEW x \in upstream[m] PROVE \E s \in Sources(keys, inputs, t) : x = keys[s]
      <3>1. x \in Near(keys, inputs, m) /\ (m \in DOMAIN keys \/ inputs[m] \subseteq DOMAIN keys)
        BY <1>7, <2>1, <2>2
      <3>2. CASE m \in DOMAIN keys
        BY <3>1, <3>2 DEF Near, Sources
      <3>3. CASE m \notin DOMAIN keys
        <4>1. PICK s \in inputs[m] : x = keys[s] /\ s \in DOMAIN keys
          BY <3>1, <3>3 DEF Near
        <4> QED BY <3>3, <4>1 DEF Sources
      <3> QED BY <3>2, <3>3
    <2>3. ASSUME NEW s \in Sources(keys, inputs, t) PROVE \E m \in inputs[t] : keys[s] \in upstream[m]
      <3>1. CASE s \in inputs[t]
        <4>1. s \in DOMAIN keys
          BY DEF Sources
        <4>2. keys[s] \in Near(keys, inputs, s)
          BY <4>1 DEF Near
        <4> QED BY <1>7, <2>1, <3>1, <4>2
      <3>2. CASE s \notin inputs[t]
        <4>1. PICK m \in inputs[t] \ DOMAIN keys : s \in inputs[m]
          BY <3>2 DEF Sources
        <4>2. keys[s] \in Near(keys, inputs, m)
          BY <4>1 DEF Near
        <4> QED BY <1>7, <2>1, <4>1, <4>2
      <3> QED BY <3>1, <3>2
    <2> QED BY <2>2, <2>3
  <1>9. DOMAIN keys \cap DOMAIN inputs = DOMAIN keys
    OBVIOUS
  <1>10. \A t \in DOMAIN keys : {<<source, keys[t], t>> : source \in UNION {upstream[m] : m \in inputs[t]}} =
                                {<<keys[s], keys[t], t>> : s \in Sources(keys, inputs, t)}
    BY <1>8
  <1> QED BY <1>5, <1>9, <1>10
LEMMA TraceMatches == IInv /\ ItemsInv /\ TraceInv => TraceMatchesResult
  <1> SUFFICES ASSUME IInv, ItemsInv, TraceInv, phase = "done"
               PROVE  LET was(n) == IF n \in DOMAIN tracer.inputs THEN n ELSE n - MaxNodes
                          named == {n \in DOMAIN graph : Recorded(n)}
                          feeds(t) == InputNodes(graph[t]) \cup
                                      UNION {InputNodes(graph[m]) : m \in {m \in InputNodes(graph[t]) : graph[m].op = "getitem"}}
                      IN  /\ DOMAIN tracer.keys = {was(n) : n \in named}
                          /\ tracer.edges = UNION {{<<tracer.keys[was(s)], tracer.keys[was(t)], was(t)>> :
                                                    s \in feeds(t) \cap named} : t \in named}
    BY DEF TraceMatchesResult
  <1> DEFINE keys == tracer.keys
             inputs == tracer.inputs
             was(n) == Was(inputs, n)
             named == {n \in DOMAIN graph : Recorded(n)}
             feeds(t) == InputNodes(graph[t]) \cup
                         UNION {InputNodes(graph[m]) : m \in {m \in InputNodes(graph[t]) : graph[m].op = "getitem"}}
  <1>1. Follows(graph, inputs, keys, {}) /\ tracer.edges = Edges(keys, inputs)
    BY DEF TraceInv
  <1> HIDE DEF keys, inputs
  <1>2. \A n \in DOMAIN graph : Recorded(n) <=> Named(graph, n)
    BY DEF Recorded, Named
  <1>3. ASSUME NEW n \in DOMAIN graph
        PROVE  /\ was(n) \in DOMAIN inputs /\ inputs[was(n)] = {was(m) : m \in InputNodes(graph[n])}
               /\ was(n) \in DOMAIN keys <=> n \in named
               /\ InputNodes(graph[n]) \subseteq DOMAIN graph
    BY <1>1, <1>2 DEF Follows, IInv, WellFormed
  <1>4. ASSUME NEW t \in DOMAIN inputs PROVE \E n \in DOMAIN graph : was(n) = t
    BY <1>1 DEF Follows
  <1>5. ASSUME NEW m \in DOMAIN graph, NEW n \in DOMAIN graph, was(m) = was(n) PROVE m = n
    BY <1>1, <1>5 DEF Follows
  <1>6. DOMAIN keys \subseteq DOMAIN inputs
    BY <1>1 DEF Follows
  <1> HIDE DEF was
  <1>7. ASSUME NEW n \in DOMAIN graph, NEW m \in InputNodes(graph[n]), m \notin named
        PROVE  \/ graph[m].op = "placeholder" /\ InputNodes(graph[m]) = {}
               \/ graph[m].op = "getitem" /\ InputNodes(graph[m]) \subseteq named
    <2>1. m \in DOMAIN graph /\ Place(m) < Place(n) /\ Place(m) \in Nat /\ Place(n) \in Nat
      BY Places, PostGradAssumption DEF IInv, WellFormed
    <2>2. graph[m].op # "output"
      <3>1. ~(Place(n) <= Place(m))
        BY <2>1
      <3> QED BY <2>1, <3>1 DEF ItemsInv
    <2>3. graph[m].op \in {"placeholder", "getitem"} /\ Items(graph, graph[m])
      BY <1>7, <2>1, <2>2 DEF Recorded, ItemsInv
    <2>4. CASE graph[m].op = "placeholder"
      BY <2>3, <2>4 DEF Items
    <2>5. CASE graph[m].op = "getitem"
      <3>1. ASSUME NEW k \in InputNodes(graph[m]) PROVE k \in named
        <4>1. k \in DOMAIN graph /\ Place(k) < Place(m) /\ Place(k) \in Nat
          BY <2>1, Places, PostGradAssumption DEF IInv, WellFormed
        <4>2. graph[k].val.kind = "list" /\ Items(graph, graph[k])
          BY <2>3, <2>5, <4>1 DEF Items, ItemsInv
        <4>3. graph[k].op \notin {"placeholder", "getitem"}
          BY <4>2 DEF Items, IsTensor
        <4>4. graph[k].op # "output"
          <5>1. ~(Place(m) <= Place(k))
            BY <2>1, <4>1
          <5> QED BY <2>1, <4>1, <5>1 DEF ItemsInv
        <4> QED BY <4>1, <4>3, <4>4 DEF Recorded
      <3> QED BY <2>5, <3>1
    <2> QED BY <2>3, <2>4, <2>5
  <1> HIDE DEF named
  <1>8. named \subseteq DOMAIN graph
    BY DEF named
  <1>9. \A t \in DOMAIN inputs : inputs[t] \subseteq DOMAIN inputs
    <2>1. SUFFICES ASSUME NEW t \in DOMAIN inputs, NEW x \in inputs[t] PROVE x \in DOMAIN inputs
      OBVIOUS
    <2>2. PICK n \in DOMAIN graph : was(n) = t
      BY <1>4
    <2>3. PICK m \in InputNodes(graph[n]) : x = was(m)
      BY <1>3, <2>2
    <2> QED BY <1>3, <2>3
  <1>10. ASSUME NEW t \in DOMAIN inputs, NEW x \in inputs[t] PROVE x \in DOMAIN keys \/ inputs[x] \subseteq DOMAIN keys
    <2>1. PICK n \in DOMAIN graph : was(n) = t
      BY <1>4
    <2>2. PICK m \in InputNodes(graph[n]) : x = was(m) /\ m \in DOMAIN graph
      BY <1>3, <2>1
    <2>3. CASE m \in named
      BY <1>3, <2>2, <2>3
    <2>4. CASE m \notin named
      <3>1. \A k \in InputNodes(graph[m]) : k \in named /\ k \in DOMAIN graph
        BY <1>7, <1>8, <2>2, <2>4
      <3>2. \A k \in InputNodes(graph[m]) : was(k) \in DOMAIN keys
        BY <1>3, <3>1
      <3> QED BY <1>3, <2>2, <3>2
    <2> QED BY <2>3, <2>4
  <1>11. tracer.edges = UNION {{<<keys[s], keys[t], t>> : s \in Sources(keys, inputs, t)} : t \in DOMAIN keys}
    BY <1>1, <1>6, <1>9, <1>10, EdgesAre
  <1>12. DOMAIN keys = {was(n) : n \in named}
    BY <1>3, <1>4, <1>6, <1>8
  <1>13. ASSUME NEW t \in named
         PROVE  Sources(keys, inputs, was(t)) = {was(s) : s \in feeds(t) \cap named}
    <2>1. t \in DOMAIN graph
      BY <1>8
    <2>2. ASSUME NEW x \in Sources(keys, inputs, was(t)) PROVE \E s \in feeds(t) \cap named : x = was(s)
      <3>1. x \in DOMAIN keys
        BY DEF Sources
      <3>2. CASE x \in inputs[was(t)]
        <4>1. PICK s \in InputNodes(graph[t]) : x = was(s) /\ s \in DOMAIN graph
          BY <1>3, <2>1, <3>2
        <4> QED BY <1>3, <3>1, <4>1
      <3>3. CASE x \notin inputs[was(t)]
        <4>1. PICK y \in inputs[was(t)] : y \notin DOMAIN keys /\ x \in inputs[y]
          BY <3>3 DEF Sources
        <4>2. PICK m \in InputNodes(graph[t]) : y = was(m) /\ m \in DOMAIN graph
          BY <1>3, <2>1
        <4>3. m \notin named
          BY <1>3, <4>1, <4>2
        <4>4. PICK s \in InputNodes(graph[m]) : x = was(s) /\ s \in DOMAIN graph
          BY <1>3, <4>1, <4>2
        <4>5. graph[m].op = "getitem" /\ s \in named
          BY <1>7, <2>1, <4>3, <4>4
        <4> QED BY <4>4, <4>5
      <3> QED BY <3>2, <3>3
    <2>3. ASSUME NEW s \in feeds(t), s \in named PROVE was(s) \in Sources(keys, inputs, was(t))
      <3>1. was(s) \in DOMAIN keys
        BY <1>3, <1>8, <2>3
      <3>2. CASE s \in InputNodes(graph[t])
        <4>1. was(s) \in inputs[was(t)]
          BY <1>3, <2>1, <3>2
        <4> QED BY <3>1, <4>1 DEF Sources
      <3>3. CASE s \notin InputNodes(graph[t])
        <4>1. PICK m \in InputNodes(graph[t]) : graph[m].op = "getitem" /\ s \in InputNodes(graph[m])
          BY <3>3
        <4>2. m \in DOMAIN graph /\ m \notin named
          BY <1>3, <2>1, <4>1 DEF named, Recorded
        <4>3. was(m) \in inputs[was(t)] \ DOMAIN keys /\ was(s) \in inputs[was(m)]
          BY <1>3, <2>1, <4>1, <4>2
        <4> QED BY <3>1, <4>3 DEF Sources
      <3> QED BY <3>2, <3>3
    <2> QED BY <2>2, <2>3
  <1> HIDE DEF feeds
  <1>14. tracer.edges = UNION {{<<keys[was(s)], keys[was(t)], was(t)>> : s \in feeds(t) \cap named} : t \in named}
    <2>1. tracer.edges = UNION {{<<keys[s], keys[was(t)], was(t)>> : s \in Sources(keys, inputs, was(t))} : t \in named}
      BY <1>11, <1>12
    <2>2. ASSUME NEW t \in named
          PROVE  {<<keys[s], keys[was(t)], was(t)>> : s \in Sources(keys, inputs, was(t))} =
                   {<<keys[was(s)], keys[was(t)], was(t)>> : s \in feeds(t) \cap named}
      BY <1>13
    <2> QED BY <2>1, <2>2
  <1> QED BY <1>12, <1>14 DEF was, Was, named, feeds, keys, inputs

\* For graphs of any ops and any size: the trace of a pass that is done has the
\* kernels of the rewritten graph, and an edge between two of them exactly where
\* one reads the other, directly or as an item of its result, though the names
\* were taken before the replacement and the dependencies before the walk.
THEOREM TraceFollows == Spec => []TraceMatchesResult
  <1>1. Init => IInv /\ ItemsInv /\ TraceInv
    BY InvInit, ItemsInit, TraceInit
  <1>2. (IInv /\ ItemsInv /\ TraceInv) /\ [Next]_vars => (IInv /\ ItemsInv /\ TraceInv)'
    BY InvStep, ItemsStep, TraceStep
  <1> QED BY <1>1, <1>2, TraceMatches, PTL DEF Spec

-----------------------------------------------------------------------------
(* Walks along the chains of maps *)

\* Two walks from one node along functions that agree where the first goes are one.
Along(p, next) ==
  /\ Len(p) > 0 /\ p[Len(p)] \notin DOMAIN next
  /\ \A i \in 1..(Len(p) - 1) : p[i] \in DOMAIN next /\ p[i + 1] = next[p[i]]

LEMMA SameWalk ==
  ASSUME NEW next, NEW after, NEW S, NEW p \in Seq(S), NEW T, NEW q \in Seq(T),
         Along(p, next), Along(q, after), p[1] = q[1],
         \A i \in 1..Len(p) : /\ p[i] \in DOMAIN after <=> p[i] \in DOMAIN next
                              /\ p[i] \in DOMAIN next => after[p[i]] = next[p[i]]
  PROVE  q = p
  <1> DEFINE Bad == {i \in 1..Len(p) : i <= Len(q) /\ p[i] # q[i]}
  <1>1. Len(p) \in Nat /\ Len(q) \in Nat /\ Len(p) > 0 /\ Len(q) > 0
    BY DEF Along
  <1>2. ASSUME Bad # {} PROVE FALSE
    <2>1. PICK i \in Bad : \A j \in Bad : i <= j
      <3> Bad \subseteq Nat
        BY <1>1
      <3> QED BY <1>2, LeastNumber
    <2>2. i \in 1..Len(p) /\ i <= Len(q) /\ p[i] # q[i] /\ i # 1 /\ i - 1 \in Nat
      BY <1>1, <2>1
    <2> DEFINE j == i - 1
    <2>3. j \in 1..(Len(p) - 1) /\ j \in 1..(Len(q) - 1) /\ j + 1 = i /\ j \in 1..Len(p) /\ ~(i <= j)
      BY <1>1, <2>2
    <2> HIDE DEF j
    <2>4. p[j] = q[j]
      BY <1>1, <2>1, <2>3
    <2>5. p[j] \in DOMAIN next /\ p[i] = next[p[j]] /\ q[i] = after[q[j]]
      BY <2>3 DEF Along
    <2> QED BY <2>2, <2>3, <2>4, <2>5
  <1>3. \A i \in 1..Len(p) : i <= Len(q) => p[i] = q[i]
    BY <1>2
  <1> HIDE DEF Bad
  <1>4. ASSUME Len(p) < Len(q) PROVE FALSE
    <2>1. Len(p) \in 1..(Len(q) - 1) /\ Len(p) \in 1..Len(p)
      BY <1>1, <1>4
    <2>2. p[Len(p)] = q[Len(p)]
      BY <1>3, <1>4, <1>1
    <2>3. q[Len(p)] \in DOMAIN after /\ p[Len(p)] \notin DOMAIN next
      BY <2>1 DEF Along
    <2> QED BY <2>1, <2>2, <2>3
  <1>5. ASSUME Len(q) < Len(p) PROVE FALSE
    <2>1. Len(q) \in 1..(Len(p) - 1) /\ Len(q) \in 1..Len(p)
      BY <1>1, <1>5
    <2>2. p[Len(q)] = q[Len(q)]
      BY <1>1, <1>3, <2>1
    <2>3. p[Len(q)] \in DOMAIN next /\ q[Len(q)] \notin DOMAIN after
      BY <2>1 DEF Along
    <2> QED BY <2>1, <2>2, <2>3
  <1>6. Len(p) = Len(q)
    BY <1>1, <1>4, <1>5
  <1>7. \A i \in 1..Len(p) : p[i] = q[i]
    BY <1>1, <1>3, <1>6
  <1> QED BY <1>6, <1>7, SeqEqual

-----------------------------------------------------------------------------
(* What one rewrite leaves of the others *)

\* What the two collections walk along.
BackAreWalks ==
  NodesInv /\ WellFormed =>
    \A src \in DOMAIN graph : \E p \in Seq(DOMAIN graph) : \E next :
      /\ DOMAIN next = SingleMaps /\ \A n \in SingleMaps : next[n] = graph[n].args[1].id
      /\ p[1] = src /\ Along(p, next) /\ CollectPre(src) = Reverse(p)
ForthAreWalks ==
  NodesInv /\ WellFormed =>
    \A n \in DOMAIN graph : \E p \in Seq(DOMAIN graph) : \E next :
      next = Forth /\ p[1] = n /\ Along(p, next) /\ CollectPost(n) = p

LEMMA BackWalks == BackAreWalks
  <1> SUFFICES ASSUME NodesInv, WellFormed, NEW src \in DOMAIN graph
               PROVE  \E p \in Seq(DOMAIN graph) : \E next :
                        /\ DOMAIN next = SingleMaps /\ \A n \in SingleMaps : next[n] = graph[n].args[1].id
                        /\ p[1] = src /\ Along(p, next) /\ CollectPre(src) = Reverse(p)
    BY DEF BackAreWalks
  <1> DEFINE next == Back(SingleMaps)
             rank == [m \in DOMAIN graph |-> Place(m)]
             p == Path(next, src)
  <1>1. \A m \in DOMAIN graph : m \in Nat /\ Place(m) \in 1..MaxNodes
    BY Places
  <1>2. DOMAIN next = SingleMaps /\ \A m \in SingleMaps : next[m] = graph[m].args[1].id
    BY DEF Back
  <1>3. \A m \in SingleMaps : m \in DOMAIN graph /\ next[m] \in DOMAIN graph /\ Place(next[m]) < Place(m)
    BY <1>2, MapReads DEF SingleMaps
  <1>4. CollectPre(src) = Reverse(p)
    BY DEF CollectPre, SingleMaps
  <1> HIDE DEF next
  <1>5. Descends(next, rank, DOMAIN graph)
    BY <1>1, <1>2, <1>3 DEF Descends
  <1>6. IsWalk(p, next, rank, DOMAIN graph, src)
    <2>1. MaxNodes + 1 \in Nat /\ \A m \in DOMAIN graph : rank[m] < MaxNodes + 1
      BY <1>1, PostGradAssumption
    <2> QED BY <1>5, <2>1, PathWalks
  <1> HIDE DEF p
  <1>7. p \in Seq(DOMAIN graph) /\ p[1] = src /\ Along(p, next)
    BY <1>6 DEF IsWalk, Along
  <1> QED BY <1>2, <1>4, <1>7

LEMMA ForthWalks == ForthAreWalks
  <1> SUFFICES ASSUME NodesInv, WellFormed, NEW node \in DOMAIN graph
               PROVE  \E p \in Seq(DOMAIN graph) : \E next :
                        next = Forth /\ p[1] = node /\ Along(p, next) /\ CollectPost(node) = p
    BY DEF ForthAreWalks
  <1> DEFINE rank == [m \in DOMAIN graph |-> MaxNodes - Place(m)]
             On == {n \in DOMAIN graph : Continues(n)}
  <1>1. MaxNodes \in Nat /\ \A m \in DOMAIN graph : m \in Nat /\ Place(m) \in 1..MaxNodes
    BY Places, PostGradAssumption
  <1>2. ASSUME NEW n \in On PROVE n \in DOMAIN graph /\ Forth[n] \in DOMAIN graph /\ Place(n) < Place(Forth[n])
    <2>1. PICK m \in Users(n) : Users(n) = {m} /\ MapOf(m) # None /\ graph[m].args[1].id = n
      BY DEF Continues
    <2>2. Forth[n] = m
      BY <2>1 DEF Forth
    <2>3. m \in DOMAIN graph
      BY <2>1 DEF Users
    <2> QED BY <2>1, <2>2, <2>3, MapReads
  <1>3. DOMAIN Forth = On
    BY DEF Forth
  <1> HIDE DEF On
  <1>4. Descends(Forth, rank, DOMAIN graph)
    <2>1. \A m \in DOMAIN graph : rank[m] \in Nat
      BY <1>1
    <2>2. ASSUME NEW n \in On PROVE rank[Forth[n]] < rank[n]
      <3>1. rank[n] = MaxNodes - Place(n) /\ rank[Forth[n]] = MaxNodes - Place(Forth[n])
        BY <1>2
      <3> HIDE DEF rank
      <3> QED BY <1>1, <1>2, <3>1
    <2> QED BY <1>2, <1>3, <2>1, <2>2 DEF Descends
  <1>5. IsWalk(CollectPost(node), Forth, rank, DOMAIN graph, node)
    <2>1. \A m \in DOMAIN graph : rank[m] < MaxNodes
      BY <1>1
    <2> QED BY <1>1, <1>4, <2>1, PathWalks DEF CollectPost
  <1> QED BY <1>5 DEF IsWalk, Along

\* They do so in the graph that results as well.
LEMMA BackWalksAfter == BackAreWalks'
  BY BackWalks, PTL
LEMMA ForthWalksAfter == ForthAreWalks'
  BY ForthWalks, PTL

\* A map reads one node, and so does a reduction.
LEMMA MapInputs ==
  ASSUME NodesInv, NEW n \in DOMAIN graph, MapOf(n) # None
  PROVE  InputNodes(graph[n]) = {graph[n].args[1].id}
  <1> DEFINE node == graph[n]
  <1>1. /\ node.op \in Arithmetic /\ node.args[1].kind = "node" /\ Len(node.args) <= 2
        /\ Len(node.args) = 2 => node.args[2].kind \in {"int", "float"}
    BY DEF MapOf
  <1>2. 1 \in DOMAIN node.args /\ node.args \in Seq(Range(node.args))
    BY <1>1 DEF NodesInv, Signature, IsSeq
  <1> HIDE DEF node
  <1>3. DOMAIN node.args = 1..Len(node.args) /\ Len(node.args) \in Nat
    BY <1>2
  <1>4. ASSUME NEW x \in InputNodes(node) PROVE x = node.args[1].id
    <2>1. PICK i \in DOMAIN node.args : x \in NodesOf(node.args[i])
      BY InputNodesIn
    <2>2. i = 1 \/ (i = 2 /\ Len(node.args) = 2)
      <3> DEFINE k == Len(node.args)
      <3>1. k <= 2 /\ k \in Nat /\ i \in 1..k
        BY <1>1, <1>3
      <3> HIDE DEF k
      <3>2. i = 1 \/ (i = 2 /\ k = 2)
        BY <3>1
      <3> QED BY <3>2 DEF k
    <2> QED BY <1>1, <2>1, <2>2, NodesOfNode, NodesOfOther
  <1>5. node.args[1].id \in InputNodes(node)
    BY <1>1, <1>2, NodesOfNode, InputNodesArg
  <1> QED BY <1>4, <1>5 DEF node

LEMMA ReduceInputs ==
  ASSUME NEW node, Signature(node), node.op \in ReduceOps
  PROVE  InputNodes(node) = {node.args[1].id}
  <1>1. /\ 1 \in DOMAIN node.args /\ node.args[1].kind = "node"
        /\ \A i \in DOMAIN node.args : i # 1 => NodesOf(node.args[i]) = {}
    BY DEF Signature
  <1>2. ASSUME NEW x \in InputNodes(node) PROVE x = node.args[1].id
    <2>1. PICK i \in DOMAIN node.args : x \in NodesOf(node.args[i])
      BY InputNodesIn
    <2>2. i = 1
      BY <1>1, <2>1
    <2> QED BY <1>1, <2>1, <2>2, NodesOfNode
  <1>3. node.args[1].id \in InputNodes(node)
    BY <1>1, NodesOfNode, InputNodesArg
  <1> QED BY <1>2, <1>3

\* What a fusion at a node erases: a tree whose only way out is at its end, and
\* whose only way in is one use of a root that is not in the chain.
CutsOut(at, root, tail, dead) ==
  /\ at \in dead /\ tail \in dead /\ dead \subseteq DOMAIN graph /\ Place(at) <= Place(tail)
  /\ root \in DOMAIN graph \ dead /\ root \notin SingleMaps
  /\ \A x \in dead : x # tail => Users(x) \subseteq dead
  /\ \A x \in dead : InputNodes(graph[x]) \subseteq dead \cup {root}
  /\ \E first \in Users(root) : \A x \in dead \cap Users(root) : x = first

LEMMA FusionCuts ==
  ASSUME NodesInv, WellFormed, NEW n, NEW f \in Fusions(n), NEW src, src = graph[n].args[1].id,
         NEW back, back = CollectPre(src)
  PROVE  /\ n \in DOMAIN graph /\ graph[n].op \in ReduceOps /\ src \in DOMAIN graph /\ n \in Users(src)
         /\ CutsOut(n, Head(back), f.tail, f.dead)
         /\ Continues(Head(back)) => Len(back) > 1 /\ CollectPost(Head(back)) = back
  <1> DEFINE forth == CollectPost(n)
             before == Range(Tail(back))
             after == Range(forth)
             root == Head(back)
  <1>1. n \in DOMAIN graph /\ graph[n].op \in ReduceOps
    BY DEF Fusions
  <1>2. f = [node |-> Fused(graph[n], root, Maps(Tail(back)), Maps(Tail(forth))), tail |-> Last(forth), dead |-> before \cup after]
    BY <1>1 DEF Fusions
  <1>3. f.tail = Last(forth) /\ f.dead = before \cup after
    BY <1>2
  <1>4. Signature(graph[n])
    BY <1>1 DEF NodesInv
  <1>5. src \in DOMAIN graph /\ Place(src) < Place(n) /\ n \in Users(src) /\ InputNodes(graph[n]) = {src}
    <2>1. InputNodes(graph[n]) = {src}
      BY <1>1, <1>4, ReduceInputs
    <2> QED BY <1>1, <2>1 DEF WellFormed, Users
  <1>6. /\ back \in Seq(DOMAIN graph) /\ Len(back) > 0 /\ root \in DOMAIN graph /\ Place(root) <= Place(src)
        /\ root \notin before /\ root \notin SingleMaps
        /\ \A m \in before : m \in DOMAIN graph /\ MapOf(m) # None /\ Users(m) \subseteq before \cup {n}
        /\ IsChain(back) /\ Last(back) = src
        /\ \A i \in 1..(Len(back) - 1) : back[i + 1] \in SingleMaps
    BY <1>5, PreChain
  <1>7. /\ forth \in Seq(DOMAIN graph) /\ Len(forth) > 0 /\ n \in after /\ Last(forth) \in after
        /\ \A m \in after : m \in DOMAIN graph /\ Place(n) <= Place(m)
        /\ \A m \in after : m # Last(forth) => Users(m) \subseteq after
        /\ \A m \in after : m = n \/ MapOf(m) # None
        /\ IsChain(forth) /\ Head(forth) = n
    BY <1>1, PostChain
  <1> HIDE DEF forth
  <1> DEFINE k == Len(back)
  <1>l. back \in Seq(DOMAIN graph) /\ Len(back) > 0 /\ Last(back) = src
    BY <1>6
  <1>m. k \in Nat /\ k >= 1
    BY <1>l
  <1>8. /\ DOMAIN back = 1..k /\ back[1] = root /\ back[k] = src
        /\ \A m \in before : \E i \in 1..(k - 1) : m = back[i + 1]
        /\ \A i \in 1..(k - 1) : /\ back[i + 1] \in before /\ back[i + 1] \in SingleMaps
                                 /\ MapOf(back[i + 1]) # None /\ graph[back[i + 1]].args[1].id = back[i]
                                 /\ back[i] \in DOMAIN graph /\ back[i + 1] \in DOMAIN graph
    <2>1. /\ back \in Seq(DOMAIN graph) /\ k \in Nat /\ k > 0 /\ back # <<>> /\ DOMAIN back = 1..k /\ k = Len(back)
          /\ \A i \in 1..k : back[i] \in DOMAIN graph
      BY <1>l
    <2>2. /\ Tail(back) \in Seq(DOMAIN graph) /\ Len(Tail(back)) = k - 1
          /\ \A i \in 1..(k - 1) : Tail(back)[i] = back[i + 1]
      BY <2>1, HeadTailProperties
    <2>3. DOMAIN Tail(back) = 1..(k - 1)
      BY <2>2
    <2>4. back[1] = root /\ back[k] = src
      BY <1>l, <2>1 DEF Last
    <2>5. \A i \in 1..(k - 1) : MapOf(back[i + 1]) # None /\ graph[back[i + 1]].args[1].id = back[i]
      BY <1>6 DEF IsChain
    <2>6. \A i \in 1..(k - 1) : back[i + 1] \in SingleMaps
      BY <1>6
    <2> HIDE DEF k
    <2>7. \A m \in before : \E i \in 1..(k - 1) : m = back[i + 1]
      BY <2>2, <2>3 DEF Range
    <2>8. \A i \in 1..(k - 1) : back[i + 1] \in before
      BY <2>2, <2>3 DEF Range
    <2>9. ASSUME NEW i \in 1..(k - 1)
          PROVE  /\ back[i + 1] \in before /\ back[i + 1] \in SingleMaps
                 /\ MapOf(back[i + 1]) # None /\ graph[back[i + 1]].args[1].id = back[i]
                 /\ back[i] \in DOMAIN graph /\ back[i + 1] \in DOMAIN graph
      <3>1. i \in 1..k /\ i + 1 \in 1..k
        BY <1>m
      <3> QED BY <2>1, <2>5, <2>6, <2>8, <3>1, Zenon
    <2> HIDE DEF before, root
    <2> QED BY <2>1, <2>4, <2>7, <2>9, Zenon
  <1>k. k = Len(back)
    OBVIOUS
  <1> HIDE DEF k
  <1>n. /\ \A i \in 1..(k - 1) : i # 1 => i - 1 \in 1..(k - 1) /\ (i - 1) + 1 = i
        /\ k # 1 => k > 1 /\ k - 1 \in 1..(k - 1) /\ (k - 1) + 1 = k /\ 1 \in 1..(k - 1) /\ 1 + 1 = 2
        /\ k = 1 => 1..(k - 1) = {}
    BY <1>m
  <1>9. \A m \in after : m = n \/ \E i \in 1..(Len(forth) - 1) : m = forth[i + 1] /\ forth[i] \in after
    <2>1. Len(forth) \in Nat /\ DOMAIN forth = 1..Len(forth) /\ forth[1] = n
      BY <1>7
    <2>2. ASSUME NEW i \in 1..Len(forth), forth[i] # n
          PROVE  \E j \in 1..(Len(forth) - 1) : forth[i] = forth[j + 1] /\ forth[j] \in after
      <3>1. i - 1 \in 1..(Len(forth) - 1) /\ (i - 1) + 1 = i /\ i - 1 \in 1..Len(forth)
        BY <2>1, <2>2
      <3>2. forth[i - 1] \in after
        BY <2>1, <3>1 DEF Range
      <3> QED BY <3>1, <3>2
    <2>3. \A m \in after : \E i \in 1..Len(forth) : m = forth[i]
      BY <2>1 DEF Range
    <2> HIDE DEF after
    <2> QED BY <2>2, <2>3
  <1>10. root \notin before \cup after /\ Place(root) < Place(n)
    <2>1. Place(src) \in Nat /\ Place(root) \in Nat /\ Place(n) \in Nat
      BY <1>1, <1>5, <1>6, Places
    <2>l. Place(src) < Place(n) /\ Place(root) <= Place(src)
      BY <1>5, <1>6
    <2>2. Place(root) < Place(n)
      BY <2>1, <2>l
    <2>3. root \notin after
      BY <1>7, <2>1, <2>2
    <2> QED BY <1>6, <2>2, <2>3
  <1> DEFINE first == IF k = 1 THEN n ELSE back[2]
  <1>11. ASSUME NEW x \in before
         PROVE  \E i \in 1..(k - 1) : x = back[i + 1] /\ InputNodes(graph[x]) = {back[i]} /\ (i # 1 => back[i] \in before)
    <2>1. PICK i \in 1..(k - 1) : x = back[i + 1]
      BY <1>8
    <2>2. InputNodes(graph[x]) = {back[i]}
      <3>1. back[i + 1] \in DOMAIN graph /\ MapOf(back[i + 1]) # None /\ graph[back[i + 1]].args[1].id = back[i]
        BY <1>8, Zenon
      <3>2. InputNodes(graph[back[i + 1]]) = {graph[back[i + 1]].args[1].id}
        BY <3>1, MapInputs, Zenon
      <3> QED BY <2>1, <3>1, <3>2, Zenon
    <2>3. ASSUME i # 1 PROVE back[i] \in before
      <3>1. i - 1 \in 1..(k - 1) /\ (i - 1) + 1 = i
        BY <1>n, <2>3
      <3> QED BY <1>8, <3>1
    <2> QED BY <2>1, <2>2, <2>3
  <1>12. ASSUME NEW x \in after, x # n PROVE InputNodes(graph[x]) \subseteq after
    <2>1. PICK i \in 1..(Len(forth) - 1) : x = forth[i + 1] /\ forth[i] \in after
      BY <1>9, <1>12
    <2>2. InputNodes(graph[x]) = {forth[i]}
      BY <1>7, <1>12, <2>1, MapInputs DEF IsChain
    <2> QED BY <2>1, <2>2
  <1>13. src = root \/ src \in before
    <2>1. CASE k = 1
      BY <1>8, <2>1
    <2>2. CASE k # 1
      <3>1. k - 1 \in 1..(k - 1) /\ (k - 1) + 1 = k
        BY <1>n, <2>2
      <3> QED BY <1>8, <3>1
    <2> QED BY <2>1, <2>2
  <1>14. ASSUME NEW x \in before \cup after PROVE InputNodes(graph[x]) \subseteq before \cup after \cup {root}
    <2>1. CASE x \in before
      <3>1. PICK i \in 1..(k - 1) : InputNodes(graph[x]) = {back[i]} /\ (i # 1 => back[i] \in before)
        BY <1>11, <2>1
      <3> QED BY <1>8, <3>1
    <2>2. CASE x = n
      BY <1>5, <1>13, <2>2
    <2>3. CASE x \in after /\ x # n
      BY <1>12, <2>3
    <2> QED BY <2>1, <2>2, <2>3
  <1>15. first \in Users(root)
    <2>1. CASE k = 1
      BY <1>5, <1>8, <2>1
    <2>2. CASE k # 1
      <3>1. 1 \in 1..(k - 1) /\ 1 + 1 = 2
        BY <1>n, <2>2
      <3>2. back[1 + 1] \in before /\ graph[back[1 + 1]].args[1].id = root /\ MapOf(back[1 + 1]) # None
        BY <1>8, <3>1, Zenon
      <3>3. back[1 + 1] \in Users(root)
        BY <1>6, <3>2, MapReads
      <3> QED BY <2>2, <3>1, <3>3
    <2> QED BY <2>1, <2>2
  <1>16. ASSUME NEW x \in before \cup after, x \in Users(root) PROVE x = first
    <2>1. root \in InputNodes(graph[x])
      BY <1>16 DEF Users
    <2>2. CASE x \in before
      <3>1. PICK i \in 1..(k - 1) : x = back[i + 1] /\ InputNodes(graph[x]) = {back[i]} /\ (i # 1 => back[i] \in before)
        BY <1>11, <2>2
      <3>2. i = 1
        BY <1>6, <2>1, <3>1
      <3>3. k # 1
        BY <1>n, <3>1
      <3> QED BY <3>1, <3>2, <3>3
    <2>3. CASE x = n
      <3>1. k = 1
        <4>1. ASSUME k # 1 PROVE FALSE
          <5>1. k - 1 \in 1..(k - 1) /\ (k - 1) + 1 = k
            BY <1>n, <4>1
          <5>2. src \in before
            <6>1. back[(k - 1) + 1] \in before /\ back[k] = src
              BY <1>8, <5>1, Zenon
            <6> QED BY <5>1, <6>1
          <5> QED BY <1>5, <1>6, <2>1, <2>3, <5>2
        <4> QED BY <4>1
      <3> QED BY <2>3, <3>1
    <2>4. CASE x \in after /\ x # n
      BY <1>10, <1>12, <2>1, <2>4
    <2> QED BY <2>2, <2>3, <2>4
  <1>17. CutsOut(n, root, f.tail, f.dead)
    <2> HIDE DEF first, before, after, root
    <2>1. n \in f.dead /\ f.tail \in f.dead /\ f.dead \subseteq DOMAIN graph /\ Place(n) <= Place(f.tail)
      BY <1>3, <1>6, <1>7
    <2>2. \A x \in f.dead : x # f.tail => Users(x) \subseteq f.dead
      BY <1>3, <1>6, <1>7
    <2> QED BY <1>3, <1>6, <1>10, <1>14, <1>15, <1>16, <2>1, <2>2 DEF CutsOut
  <1> HIDE DEF before, after
  <1>18. ASSUME Continues(root) PROVE Len(back) > 1 /\ CollectPost(root) = back
    <2>1. PICK m \in Users(root) : Users(root) = {m} /\ MapOf(m) # None /\ graph[m].args[1].id = root
      BY <1>18 DEF Continues
    <2>2. m = first
      BY <1>15, <2>1
    <2>3. MapOf(n) = None
      <3>1. graph[n].op \notin Arithmetic
        BY <1>1, KuiperOpsNew DEF ReduceOps, Arithmetic, Unary, Binary
      <3> QED BY <3>1 DEF MapOf
    <2>4. k > 1 /\ m = back[2]
      <3>1. k # 1 /\ m = back[2]
        BY <2>1, <2>2, <2>3
      <3> QED BY <1>n, <3>1
    <2> HIDE DEF root, first
    <2>5. ASSUME NEW i \in 1..(k - 1) PROVE back[i] \in DOMAIN Forth /\ back[i + 1] = Forth[back[i]]
      <3>1. MapOf(back[i + 1]) # None /\ graph[back[i + 1]].args[1].id = back[i] /\ back[i + 1] \in DOMAIN graph
            /\ back[i] \in DOMAIN graph
        BY <1>8
      <3>2. back[i + 1] \in Users(back[i])
        BY <3>1, MapReads
      <3>3. Users(back[i]) = {back[i + 1]}
        <4>1. CASE i = 1
          BY <1>8, <2>1, <3>2, <4>1
        <4>2. CASE i # 1
          <5>1. i - 1 \in 1..(k - 1) /\ (i - 1) + 1 = i
            BY <1>n, <4>2
          <5>2. back[(i - 1) + 1] \in SingleMaps
            BY <1>8, <5>1, Zenon
          <5>3. Cardinality(Users(back[i])) = 1
            BY <5>1, <5>2 DEF SingleMaps
          <5>4. IsFiniteSet(Users(back[i]))
            BY FiniteGraph, FS_Subset DEF Users
          <5>5. PICK v : Users(back[i]) = {v}
            BY <5>3, <5>4, FS_Singleton, Zenon
          <5> QED BY <3>2, <5>5
        <4> QED BY <4>1, <4>2
      <3>4. Continues(back[i])
        BY <3>1, <3>3 DEF Continues
      <3> QED BY <3>1, <3>3, <3>4 DEF Forth
    <2>6. src \notin DOMAIN Forth
      <3>1. ASSUME Continues(src) PROVE FALSE
        <4>1. PICK u \in Users(src) : Users(src) = {u} /\ MapOf(u) # None
          BY <3>1 DEF Continues
        <4> QED BY <1>5, <2>3, <4>1
      <3> QED BY <3>1 DEF Forth
    <2>7. Along(back, Forth)
      <3>1. Len(back) > 0 /\ \A i \in 1..(Len(back) - 1) : back[i] \in DOMAIN Forth /\ back[i + 1] = Forth[back[i]]
        BY <1>6, <1>k, <2>5
      <3>2. back[Len(back)] \notin DOMAIN Forth
        BY <1>8, <1>k, <2>6
      <3> QED BY <3>1, <3>2 DEF Along
    <2>8. CollectPost(root) \in Seq(DOMAIN graph) /\ CollectPost(root)[1] = root /\ Along(CollectPost(root), Forth)
      BY <1>6, ForthWalks DEF ForthAreWalks
    <2>9. CollectPost(root) = back
      <3> DEFINE q == CollectPost(root)
      <3>1. q \in Seq(DOMAIN graph) /\ q[1] = back[1] /\ Along(q, Forth)
        BY <1>8, <2>8
      <3> HIDE DEF q
      <3> QED BY <1>6, <2>7, <3>1, SameWalk DEF q
    <2> QED BY <1>k, <2>4, <2>9
  <1> QED BY <1>1, <1>5, <1>17, <1>18
\* MapOf, by the node and the fake values it reads.
MapIn(node, ins) ==
  IF /\ node.op \in Arithmetic /\ node.kw = NoKw
     /\ node.args[1].kind = "node" /\ Len(node.args) <= 2
     /\ Len(node.args) = 2 => node.args[2].kind \in {"int", "float"}
     /\ IsTensor(ins[1]) /\ IsTensor(node.val) /\ ins[1].dtype = node.val.dtype /\ ins[1].shape = node.val.shape
  THEN [kind |-> "map", op |-> node.op, c |-> IF Len(node.args) = 1 THEN Absent ELSE node.args[2]]
  ELSE None

\* It is the same under any name of what it reads.
LEMMA MapRenamed ==
  ASSUME NEW node, IsNode(node), Signature(node), Flat(node), NEW from, NEW to, NEW ins
  PROVE  /\ MapIn(Renamed(node, from, to), ins) = MapIn(node, ins)
         /\ MapIn(node, ins) # None \/ node.op \in ReduceOps =>
              Renamed(node, from, to).args[1].id = IF node.args[1].id = from THEN to ELSE node.args[1].id
  <1> DEFINE new == Renamed(node, from, to)
  <1>1. /\ new.op = node.op /\ new.kw = node.kw /\ new.val = node.val
        /\ new.args = [i \in DOMAIN node.args |-> Swapped(node.args[i], from, to)]
    BY RenamedFields
  <1> HIDE DEF new
  <1>2. ASSUME node.op \in Arithmetic \cup ReduceOps, NEW i \in DOMAIN node.args
        PROVE  IF node.args[i].kind = "node"
               THEN new.args[i].kind = "node" /\ new.args[i].id = IF node.args[i].id = from THEN to ELSE node.args[i].id
               ELSE new.args[i] = node.args[i]
    <2> DEFINE a == node.args[i]
    <2>1. FlatList(a) /\ new.args[i] = Swapped(a, from, to)
      BY <1>1, <1>2 DEF Flat, Arithmetic, Unary, Binary, ReduceOps
    <2> HIDE DEF a
    <2>2. CASE a.kind = "node"
      <3>1. NodesOf(a) = {a.id}
        BY <2>2, NodesOfNode
      <3>2. Ref(to).kind = "node" /\ Ref(to).id = to
        BY DEF Ref
      <3>3. Swapped(a, from, to) = IF a.id = from THEN Ref(to) ELSE a
        BY <2>2, <3>1 DEF Swapped
      <3> QED BY <2>1, <2>2, <3>2, <3>3 DEF a
    <2>3. CASE a.kind # "node"
      <3>1. NodesOf(a) = {}
        BY <2>1, <2>3, NodesOfOther DEF FlatList
      <3>2. Swapped(a, from, to) = a
        BY <3>1 DEF Swapped
      <3> QED BY <2>1, <2>3, <3>2 DEF a
    <2> QED BY <2>2, <2>3
  <1>3. MapIn(new, ins) = MapIn(node, ins)
    <2>1. CASE node.op \notin Arithmetic
      BY <1>1, <2>1 DEF MapIn
    <2>2. CASE node.op \in Arithmetic
      <3> DEFINE k == Len(node.args)
      <3>1. 1 \in DOMAIN node.args /\ node.args \in Seq(Range(node.args)) /\ k = Len(node.args)
        BY <2>2 DEF Signature, IsSeq
      <3>2. DOMAIN node.args = 1..k /\ k \in Nat /\ DOMAIN new.args = 1..k
        BY <1>1, <3>1
      <3>3. Len(new.args) = k
        <4>1. new.args = [i \in 1..k |-> Swapped(node.args[i], from, to)]
          BY <1>1, <3>2
        <4> HIDE DEF k
        <4> QED BY <3>2, <4>1
      <3> HIDE DEF k
      <3>4. new.args[1].kind = "node" <=> node.args[1].kind = "node"
        BY <1>2, <2>2, <3>1
      <3>5. ASSUME k = 2 PROVE /\ new.args[2].kind \in {"int", "float"} <=> node.args[2].kind \in {"int", "float"}
                               /\ node.args[2].kind \in {"int", "float"} => new.args[2] = node.args[2]
        <4>1. 2 \in DOMAIN node.args
          BY <3>2, <3>5
        <4> QED BY <1>2, <2>2, <4>1
      <3>6. k = 1 \/ k = 2 \/ ~(k <= 2)
        <4>1. k \in Nat /\ 1 \in 1..k
          BY <3>1, <3>2, Zenon
        <4> QED BY <4>1
      <3> QED BY <1>1, <3>1, <3>3, <3>4, <3>5, <3>6, Zenon DEF MapIn
    <2> QED BY <2>1, <2>2
  <1>4. ASSUME MapIn(node, ins) # None \/ node.op \in ReduceOps
        PROVE  new.args[1].id = IF node.args[1].id = from THEN to ELSE node.args[1].id
    <2>1. node.op \in Arithmetic \cup ReduceOps /\ node.args[1].kind = "node" /\ 1 \in DOMAIN node.args
      BY <1>4 DEF MapIn, Signature
    <2> QED BY <1>2, <2>1
  <1> QED BY <1>3, <1>4 DEF new

\* What a fusion leaves: the same maps, in the place of the chain one node that
\* is none and reads the root, and the same users of all but the root.
Remains(new, root, tail, dead) ==
  /\ DOMAIN graph' = (DOMAIN graph \cup {new}) \ dead /\ new \notin DOMAIN graph
  /\ graph'[new].op \notin ReduceOps /\ MapOf(new)' = None
  /\ \A x \in DOMAIN graph \ dead :
       /\ graph'[x].op = graph[x].op /\ graph'[x].val = graph[x].val /\ graph'[x] = Renamed(graph[x], tail, new)
       /\ MapOf(x)' = MapOf(x)
       /\ MapOf(x) # None \/ graph[x].op \in ReduceOps =>
            graph'[x].args[1].id = IF graph[x].args[1].id = tail THEN new ELSE graph[x].args[1].id
       /\ x # root => Users(x)' = Users(x) /\ Users(x) \cap dead = {}
  /\ Users(root)' = (Users(root) \ dead) \cup {new}

LEMMA FusionRemains ==
  ASSUME NodesInv, WellFormed, UNCHANGED kind, NEW at, NEW root, NEW tail, NEW target, NEW dead, NEW new, new = at + MaxNodes,
         CutsOut(at, root, tail, dead), Closed(at, tail, target, dead), InputNodes(target) = {root},
         Rewrite(at, tail, target, dead)
  PROVE  Remains(new, root, tail, dead)
  <1>1. DOMAIN graph' = (DOMAIN graph \cup {new}) \ dead
    BY RewriteKeeps
  <1>2. /\ new \notin DOMAIN graph /\ new \in DOMAIN graph'
        /\ graph'[new] = [op |-> target.op, args |-> target.args, kw |-> NoKw, val |-> graph[tail].val]
        /\ \A m \in DOMAIN graph' : m # new => m \in DOMAIN graph /\ graph'[m] = Renamed(graph[m], tail, new)
        /\ \A m \in DOMAIN graph' : m # new => \A x \in InputNodes(graph[m]) : x # tail => x \in DOMAIN graph' \ {new}
    BY RewriteLeaves DEF Leaves
  <1>3. graph'[new].op = target.op /\ graph'[new].args = target.args /\ graph'[new].val = graph[tail].val
    BY <1>2
  <1>4. graph'[new].op \notin ReduceOps /\ graph'[new].op \notin Arithmetic
    BY <1>3, KuiperOpsNew DEF Closed, Rewritten
  <1>5. MapOf(new)' = None
    BY <1>4 DEF MapOf
  <1>6. ASSUME NEW x \in DOMAIN graph \ dead
        PROVE  /\ x \in DOMAIN graph' /\ x # new /\ x # tail /\ graph'[x] = Renamed(graph[x], tail, new)
               /\ IsNode(graph[x]) /\ Signature(graph[x]) /\ Flat(graph[x])
               /\ graph'[x].op = graph[x].op /\ graph'[x].val = graph[x].val
    <2>1. x \in DOMAIN graph' /\ x # new /\ x # tail /\ graph'[x] = Renamed(graph[x], tail, new)
      BY <1>1, <1>2 DEF CutsOut
    <2>2. IsNode(graph[x]) /\ Signature(graph[x]) /\ Flat(graph[x])
      BY DEF NodesInv
    <2> QED BY <2>1, <2>2, RenamedOp, RenamedVal
  <1>7. ASSUME NEW x \in DOMAIN graph \ dead
        PROVE  /\ MapOf(x)' = MapOf(x)
               /\ MapOf(x) # None \/ graph[x].op \in ReduceOps =>
                    graph'[x].args[1].id = IF graph[x].args[1].id = tail THEN new ELSE graph[x].args[1].id
    <2> DEFINE ins == FakesIn(graph, graph[x])
    <2>1. MapOf(x) = MapIn(graph[x], ins)
      BY DEF MapOf, MapIn, Fakes, FakesIn
    <2>2. MapOf(x)' = MapIn(graph'[x], FakesIn(graph', graph'[x]))
      BY DEF MapOf, MapIn, Fakes, FakesIn
    <2>3. graph'[x] = Renamed(graph[x], tail, new) /\ IsNode(graph[x]) /\ Signature(graph[x]) /\ Flat(graph[x])
          /\ graph'[x].op = graph[x].op
      BY <1>6
    <2>4. CASE graph[x].op = "output"
      BY <2>1, <2>2, <2>3, <2>4 DEF MapIn, Arithmetic, Unary, Binary, ReduceOps
    <2>5. CASE graph[x].op # "output"
      <3>1. \A y \in InputNodes(graph[x]) : y # tail => graph'[y].val = graph[y].val
        <4>1. ASSUME NEW y \in InputNodes(graph[x]), y # tail PROVE y \in DOMAIN graph \ dead
          <5>1. y \in DOMAIN graph' \ {new}
            BY <1>2, <1>6, <4>1
          <5> QED BY <1>1, <5>1
        <4> QED BY <1>6, <4>1
      <3>2. CallIn(graph', graph'[x]) = CallIn(graph, graph[x])
        BY <1>3, <2>3, <2>5, <3>1, CallKept
      <3>3. FakesIn(graph', graph'[x]) = ins
        BY <3>2, CallFields
      <3> HIDE DEF ins
      <3>4. MapOf(x)' = MapIn(Renamed(graph[x], tail, new), ins)
        BY <2>2, <2>3, <3>3
      <3> QED BY <2>1, <2>3, <3>4, MapRenamed
    <2> QED BY <2>4, <2>5
  <1>8. ASSUME NEW x \in DOMAIN graph \ dead, NEW m \in DOMAIN graph \ dead
        PROVE  x \in InputNodes(graph'[m]) <=> x \in InputNodes(graph[m])
    <2>1. InputNodes(graph'[m]) = {IF y = tail THEN new ELSE y : y \in InputNodes(graph[m])}
      BY <1>6, RenamedReads
    <2> QED BY <1>6, <2>1
  <1>9. InputNodes(graph'[new]) = {root}
    BY <1>3 DEF InputNodes
  <1>10. ASSUME NEW x \in DOMAIN graph \ dead
         PROVE  Users(x)' = (Users(x) \ dead) \cup (IF x = root THEN {new} ELSE {})
    <2>1. Users(x)' = {m \in DOMAIN graph' : x \in InputNodes(graph'[m])}
      BY DEF Users, InputNodes
    <2>2. DOMAIN graph' = (DOMAIN graph \ dead) \cup {new} /\ root \in DOMAIN graph \ dead
      BY <1>1, <1>2 DEF CutsOut
    <2>3. ASSUME NEW m \in DOMAIN graph \ dead PROVE m \in Users(x)' <=> m \in Users(x)
      BY <1>8, <2>1, <2>2, <2>3, Zenon DEF Users
    <2>4. new \in Users(x)' <=> x = root
      BY <1>9, <2>1, <2>2
    <2>5. Users(x)' \subseteq (DOMAIN graph \ dead) \cup {new} /\ Users(x) \subseteq DOMAIN graph /\ new \notin DOMAIN graph
      BY <1>2, <2>1, <2>2 DEF Users
    <2> QED BY <2>3, <2>4, <2>5
  <1>11. ASSUME NEW x \in DOMAIN graph \ dead, x # root PROVE Users(x) \cap dead = {}
    BY <1>11 DEF CutsOut, Users
  <1>12. Users(root)' = (Users(root) \ dead) \cup {new}
    BY <1>10 DEF CutsOut
  <1>13. \A x \in DOMAIN graph \ dead : x # root => Users(x)' = Users(x) /\ Users(x) \cap dead = {}
    BY <1>10, <1>11
  <1> QED BY <1>1, <1>2, <1>4, <1>5, <1>6, <1>7, <1>12, <1>13, Zenon DEF Remains

\* The same maps are used once.
LEMMA SinglesRemain ==
  ASSUME NodesInv, NEW at, NEW root, NEW tail, NEW dead, NEW new,
         CutsOut(at, root, tail, dead), Remains(new, root, tail, dead), NEW x \in DOMAIN graph \ dead
  PROVE  x \in SingleMaps' <=> x \in SingleMaps
  <1>1. /\ x \in DOMAIN graph' /\ MapOf(x)' = MapOf(x) /\ (x # root => Users(x)' = Users(x))
        /\ Users(root)' = (Users(root) \ dead) \cup {new} /\ new \notin DOMAIN graph
    BY DEF Remains
  <1>2. SingleMaps' = {n \in DOMAIN graph' : Cardinality(Users(n)') = 1 /\ MapOf(n)' # None}
    BY DEF SingleMaps
  <1>3. CASE x # root
    BY <1>1, <1>2, <1>3 DEF SingleMaps
  <1>4. CASE x = root
    <2>1. root \notin SingleMaps
      BY DEF CutsOut
    <2>2. ASSUME MapOf(root) # None, Cardinality(Users(root)') = 1 PROVE FALSE
      <3>1. Cardinality(Users(root)) # 1 /\ IsFiniteSet(Users(root)) /\ Users(root) \subseteq DOMAIN graph
        BY <1>4, <2>1, <2>2, FiniteGraph, FS_Subset DEF SingleMaps, Users
      <3>2. PICK first \in Users(root) : \A y \in dead \cap Users(root) : y = first
        BY DEF CutsOut
      <3>3. Users(root) # {first}
        BY <3>1, FS_Singleton
      <3>4. PICK u \in Users(root) : u # first
        BY <3>2, <3>3
      <3>5. u \in Users(root)' /\ new \in Users(root)' /\ u # new
        BY <1>1, <3>1, <3>2, <3>4
      <3>6. IsFiniteSet(Users(root)')
        <4>1. IsFiniteSet(Users(root) \ dead)
          BY <3>1, FS_Subset
        <4> QED BY <1>1, <4>1, FS_AddElement
      <3>7. \E v : Users(root)' = {v}
        BY <2>2, <3>6, FS_Singleton
      <3> QED BY <3>5, <3>7
    <2> QED BY <1>1, <1>2, <1>4, <2>1, <2>2
  <1> QED BY <1>3, <1>4

\* The same nodes continue in a map, but for the root.
LEMMA ContinuesRemain ==
  ASSUME NEW at, NEW root, NEW tail, NEW dead, NEW new,
         CutsOut(at, root, tail, dead), Remains(new, root, tail, dead), NEW x \in DOMAIN graph \ dead
  PROVE  /\ root \notin DOMAIN Forth'
         /\ x # root => /\ x \in DOMAIN Forth' <=> x \in DOMAIN Forth
                        /\ x \in DOMAIN Forth => Forth'[x] = Forth[x]
  <1>1. /\ DOMAIN graph' = (DOMAIN graph \cup {new}) \ dead /\ new \notin DOMAIN graph
        /\ Users(root)' = (Users(root) \ dead) \cup {new} /\ MapOf(new)' = None /\ new \notin dead
    BY DEF Remains, CutsOut
  <1>2. DOMAIN Forth' = {n \in DOMAIN graph' : Continues(n)'}
    BY DEF Forth
  <1>3. ASSUME Continues(root)' PROVE FALSE
    <2>1. PICK m \in Users(root)' : Users(root)' = {m} /\ MapOf(m)' # None
      BY <1>3 DEF Continues
    <2> QED BY <1>1, <2>1
  <1>4. ASSUME x # root
        PROVE  /\ x \in DOMAIN Forth' <=> x \in DOMAIN Forth
               /\ x \in DOMAIN Forth => Forth'[x] = Forth[x]
    <2>1. Users(x)' = Users(x) /\ Users(x) \cap dead = {} /\ x \in DOMAIN graph' /\ x # new /\ x # tail
      BY <1>1, <1>4 DEF Remains, CutsOut
    <2>2. ASSUME NEW m \in Users(x)
          PROVE  (MapOf(m)' # None /\ graph'[m].args[1].id = x) <=> (MapOf(m) # None /\ graph[m].args[1].id = x)
      <3>1. m \in DOMAIN graph \ dead
        BY <2>1 DEF Users
      <3>2. /\ MapOf(m)' = MapOf(m)
            /\ MapOf(m) # None => graph'[m].args[1].id = IF graph[m].args[1].id = tail THEN new ELSE graph[m].args[1].id
        BY <3>1 DEF Remains
      <3> QED BY <2>1, <3>2
    <2>3. Continues(x)' <=> Continues(x)
      <3>1. Continues(x)' <=> \E m \in Users(x)' : Users(x)' = {m} /\ MapOf(m)' # None /\ graph'[m].args[1].id = x
        BY DEF Continues
      <3>2. Continues(x) <=> \E m \in Users(x) : Users(x) = {m} /\ MapOf(m) # None /\ graph[m].args[1].id = x
        BY DEF Continues
      <3> QED BY <2>1, <2>2, <3>1, <3>2
    <2>4. x \in DOMAIN Forth' <=> x \in DOMAIN Forth
      BY <1>2, <2>1, <2>3 DEF Forth
    <2>5. ASSUME x \in DOMAIN Forth PROVE Forth'[x] = Forth[x]
      <3>1. Forth[x] = CHOOSE m \in Users(x) : TRUE
        BY <2>5 DEF Forth
      <3>2. Forth'[x] = CHOOSE m \in Users(x)' : TRUE
        BY <2>4, <2>5 DEF Forth
      <3> QED BY <2>1, <3>1, <3>2
    <2> QED BY <2>4, <2>5
  <1> QED BY <1>2, <1>3, <1>4

\* A walk stays where its steps keep it.
LEMMA WalkStays ==
  ASSUME NEW S, NEW p \in Seq(S), NEW Good, p[1] \in Good, \A i \in 1..(Len(p) - 1) : p[i] \in Good => p[i + 1] \in Good
  PROVE  \A i \in 1..Len(p) : p[i] \in Good
  <1> DEFINE k == Len(p)
             Bad == {i \in 1..k : p[i] \notin Good}
  <1> SUFFICES ASSUME Bad # {} PROVE FALSE
    OBVIOUS
  <1>1. k \in Nat /\ \A i \in 1..(k - 1) : p[i] \in Good => p[i + 1] \in Good
    OBVIOUS
  <1> HIDE DEF k
  <1>2. PICK i \in Bad : \A j \in Bad : i <= j
    <2>1. Bad \subseteq Nat
      BY <1>1
    <2> QED BY <2>1, LeastNumber
  <1>3. i \in 1..k /\ i # 1 /\ p[i] \notin Good
    OBVIOUS
  <1> DEFINE j == i - 1
  <1>4. j \in 1..(k - 1) /\ j + 1 = i /\ j \in 1..k /\ ~(i <= j)
    BY <1>1, <1>3
  <1> HIDE DEF j
  <1>5. p[j] \in Good
    BY <1>2, <1>4
  <1> QED BY <1>1, <1>3, <1>4, <1>5

\* The chain into a node before the fusion is the same after it.
LEMMA PreRemains ==
  ASSUME NodesInv, WellFormed, NodesInv', WellFormed', NEW at, NEW root, NEW tail, NEW dead, NEW new,
         CutsOut(at, root, tail, dead), Remains(new, root, tail, dead),
         NEW src \in DOMAIN graph \ dead, Place(src) < Place(at)
  PROVE  /\ CollectPre(src)' = CollectPre(src)
         /\ CollectPre(src) \in Seq(DOMAIN graph \ dead)
  <1> DEFINE Good == {x \in DOMAIN graph \ dead : Place(x) < Place(at)}
  <1>1. /\ src \in DOMAIN graph' /\ tail \notin Good /\ Place(at) <= Place(tail)
        /\ \A x \in DOMAIN graph : Place(x) \in Nat
        /\ at \in DOMAIN graph /\ tail \in DOMAIN graph
    BY Places DEF Remains, CutsOut
  <1>2. PICK p \in Seq(DOMAIN graph) : \E next :
          /\ DOMAIN next = SingleMaps /\ \A n \in SingleMaps : next[n] = graph[n].args[1].id
          /\ p[1] = src /\ Along(p, next) /\ CollectPre(src) = Reverse(p)
    BY BackWalks DEF BackAreWalks
  <1>3. PICK next : /\ DOMAIN next = SingleMaps /\ \A n \in SingleMaps : next[n] = graph[n].args[1].id
                    /\ p[1] = src /\ Along(p, next) /\ CollectPre(src) = Reverse(p)
    BY <1>2
  <1>4. PICK q \in Seq(DOMAIN graph') : \E after :
          /\ DOMAIN after = SingleMaps' /\ \A n \in SingleMaps' : after[n] = graph'[n].args[1].id
          /\ q[1] = src /\ Along(q, after) /\ CollectPre(src)' = Reverse(q)
    BY <1>1, BackWalksAfter DEF BackAreWalks
  <1>5. PICK after : /\ DOMAIN after = SingleMaps' /\ \A n \in SingleMaps' : after[n] = graph'[n].args[1].id
                     /\ q[1] = src /\ Along(q, after) /\ CollectPre(src)' = Reverse(q)
    BY <1>4
  <1>6. ASSUME NEW x \in Good, x \in SingleMaps PROVE next[x] \in Good /\ graph'[x].args[1].id = next[x]
    <2>1. x \in DOMAIN graph \ dead /\ MapOf(x) # None /\ next[x] = graph[x].args[1].id /\ Place(x) < Place(at)
      BY <1>3, <1>6 DEF SingleMaps
    <2>2. next[x] \in DOMAIN graph /\ Place(next[x]) < Place(x) /\ x \in Users(next[x])
      BY <2>1, MapReads
    <2>3. Place(next[x]) < Place(at) /\ next[x] # tail
      BY <1>1, <2>1, <2>2
    <2>4. next[x] \notin dead
      BY <2>1, <2>2, <2>3 DEF CutsOut
    <2>5. graph'[x].args[1].id = next[x]
      BY <2>1, <2>3 DEF Remains
    <2> QED BY <2>2, <2>3, <2>4, <2>5
  <1> HIDE DEF Good
  <1>7. \A i \in 1..Len(p) : p[i] \in Good
    <2>1. p[1] \in Good
      BY <1>3 DEF Good
    <2>2. \A i \in 1..(Len(p) - 1) : p[i] \in Good => p[i + 1] \in Good
      BY <1>3, <1>6 DEF Along
    <2> QED BY <2>1, <2>2, WalkStays
  <1>8. \A x \in Good : /\ x \in DOMAIN after <=> x \in DOMAIN next
                        /\ x \in DOMAIN next => after[x] = next[x]
    <2>1. \A x \in Good : x \in SingleMaps' <=> x \in SingleMaps
      BY SinglesRemain DEF Good
    <2> QED BY <1>3, <1>5, <1>6, <2>1
  <1>9. q = p
    BY <1>3, <1>5, <1>7, <1>8, SameWalk
  <1>10. p \in Seq(DOMAIN graph \ dead)
    <2>1. \A i \in 1..Len(p) : p[i] \in DOMAIN graph \ dead
      BY <1>7 DEF Good
    <2>2. Len(p) \in Nat /\ p \in [1..Len(p) -> DOMAIN graph]
      OBVIOUS
    <2>3. p \in [1..Len(p) -> DOMAIN graph \ dead]
      BY <2>1, <2>2
    <2> QED BY <2>2, <2>3, SeqDef
  <1>11. Reverse(p) \in Seq(DOMAIN graph \ dead)
    <2> DEFINE T == DOMAIN graph \ dead
    <2>1. p \in Seq(T)
      BY <1>10
    <2> HIDE DEF T
    <2>2. Reverse(p) \in Seq(T)
      BY <2>1 DEF Reverse
    <2> QED BY <2>2 DEF T
  <1> QED BY <1>3, <1>5, <1>9, <1>11
\* So is the chain out of a node, unless it runs through the root.
LEMMA PostRemains ==
  ASSUME NodesInv, WellFormed, NodesInv', WellFormed', NEW at, NEW root, NEW tail, NEW dead, NEW new,
         CutsOut(at, root, tail, dead), Remains(new, root, tail, dead),
         NEW m \in DOMAIN graph \ dead, m = root => ~Continues(root)
  PROVE  /\ CollectPost(m)' = CollectPost(m)
         /\ CollectPost(m) \in Seq(DOMAIN graph \ dead)
  <1> DEFINE Good == {x \in DOMAIN graph \ dead : x = root => ~Continues(root)}
  <1>1. m \in DOMAIN graph' /\ m \in Good
    BY DEF Remains
  <1>2. PICK p \in Seq(DOMAIN graph) : \E next :
          next = Forth /\ p[1] = m /\ Along(p, next) /\ CollectPost(m) = p
    BY ForthWalks DEF ForthAreWalks
  <1>3. PICK next : next = Forth /\ p[1] = m /\ Along(p, next) /\ CollectPost(m) = p
    BY <1>2
  <1>4. PICK q \in Seq(DOMAIN graph') : \E after :
          after = Forth' /\ q[1] = m /\ Along(q, after) /\ CollectPost(m)' = q
    BY <1>1, ForthWalksAfter DEF ForthAreWalks
  <1>5. PICK after : after = Forth' /\ q[1] = m /\ Along(q, after) /\ CollectPost(m)' = q
    BY <1>4
  <1>6. ASSUME NEW x \in Good, x \in DOMAIN next PROVE next[x] \in Good
    <2>1. Continues(x) /\ x \in DOMAIN graph \ dead
      BY <1>3, <1>6 DEF Forth
    <2>2. x # root
      BY <1>6, <2>1
    <2>3. PICK y \in Users(x) : Users(x) = {y} /\ MapOf(y) # None /\ graph[y].args[1].id = x
      BY <2>1 DEF Continues
    <2>4. next[x] = y
      BY <1>3, <1>6, <2>3 DEF Forth
    <2>5. y \in DOMAIN graph \ dead
      BY <2>1, <2>2, <2>3 DEF Remains, Users
    <2>6. ASSUME y = root, Continues(root) PROVE FALSE
      <3>1. \E v : Users(root) = {v}
        BY <2>6 DEF Continues
      <3>2. Cardinality(Users(root)) = 1
        BY <3>1, FS_Singleton
      <3> QED BY <2>3, <2>5, <2>6, <3>2 DEF CutsOut, SingleMaps
    <2> QED BY <2>4, <2>5, <2>6
  <1>7. ASSUME NEW x \in Good
        PROVE  /\ x \in DOMAIN after <=> x \in DOMAIN next
               /\ x \in DOMAIN next => after[x] = next[x]
    <2>1. x \in DOMAIN graph \ dead /\ root \notin DOMAIN Forth'
      BY ContinuesRemain
    <2>2. CASE x # root
      BY <1>3, <1>5, <2>1, <2>2, ContinuesRemain
    <2>3. CASE x = root
      <3>1. x \notin DOMAIN Forth
        BY <2>3 DEF Forth
      <3> QED BY <1>3, <1>5, <2>1, <2>3, <3>1
    <2> QED BY <2>2, <2>3
  <1> HIDE DEF Good
  <1>8. \A i \in 1..Len(p) : p[i] \in Good
    <2>1. \A i \in 1..(Len(p) - 1) : p[i] \in Good => p[i + 1] \in Good
      BY <1>3, <1>6 DEF Along
    <2> QED BY <1>1, <1>3, <2>1, WalkStays
  <1>9. q = p
    BY <1>3, <1>5, <1>7, <1>8, SameWalk
  <1>10. p \in Seq(DOMAIN graph \ dead)
    <2>1. \A i \in 1..Len(p) : p[i] \in DOMAIN graph \ dead
      BY <1>8 DEF Good
    <2>2. Len(p) \in Nat /\ p \in [1..Len(p) -> DOMAIN graph]
      OBVIOUS
    <2>3. p \in [1..Len(p) -> DOMAIN graph \ dead]
      BY <2>1, <2>2
    <2> QED BY <2>2, <2>3, SeqDef
  <1> QED BY <1>3, <1>5, <1>9, <1>10

\* Nothing continues out of the root.
LEMMA RootEnds ==
  ASSUME NodesInv', WellFormed', NEW at, NEW root, NEW tail, NEW dead, NEW new,
         CutsOut(at, root, tail, dead), Remains(new, root, tail, dead)
  PROVE  CollectPost(root)' = <<root>>
  <1>1. root \in DOMAIN graph' /\ root \in DOMAIN graph \ dead
    BY DEF CutsOut, Remains
  <1>2. PICK q \in Seq(DOMAIN graph') : \E after :
          after = Forth' /\ q[1] = root /\ Along(q, after) /\ CollectPost(root)' = q
    BY <1>1, ForthWalksAfter DEF ForthAreWalks
  <1>3. q[1] = root /\ CollectPost(root)' = q /\ Len(q) > 0 /\ \A i \in 1..(Len(q) - 1) : q[i] \in DOMAIN Forth'
    BY <1>2 DEF Along
  <1>4. root \notin DOMAIN Forth'
    BY <1>1, ContinuesRemain
  <1>5. Len(q) = 1
    <2> DEFINE k == Len(q)
    <2>1. k \in Nat /\ k > 0
      BY <1>3
    <2>2. 1 \notin 1..(k - 1)
      BY <1>3, <1>4
    <2> HIDE DEF k
    <2>3. k = 1
      BY <2>1, <2>2
    <2> QED BY <2>3 DEF k
  <1> QED BY <1>3, <1>5

\* What a chain that stays is as a list of maps.
LEMMA MapsRemain ==
  ASSUME NEW root, NEW tail, NEW dead, NEW new, Remains(new, root, tail, dead), NEW chain \in Seq(DOMAIN graph \ dead)
  PROVE  Maps(chain)' = Maps(chain)
  <1>1. DOMAIN chain = 1..Len(chain) /\ \A i \in DOMAIN chain : chain[i] \in DOMAIN graph \ dead
    OBVIOUS
  <1>2. \A i \in DOMAIN chain : MapOf(chain[i])' = MapOf(chain[i])
    BY <1>1 DEF Remains
  <1> QED BY <1>2 DEF Maps
\* Whether a kernel serves a reduction with the maps pre and post around it.
Serves(n, root, pre, post) ==
  /\ ReduceDim(graph[n], Len(graph[root].val.shape)) # None
  /\ Specs(Unpacked(Fakes(Fused(graph[n], root, pre, post)))) # {}

\* What a fusion asks for.
FusionsReduce == \A n : n \notin DOMAIN graph \/ graph[n].op \notin ReduceOps => Fusions(n) = {}
FusionsAsk ==
  \A n, src, back, forth, root, before, after, pre, post :
    /\ n \in DOMAIN graph /\ graph[n].op \in ReduceOps /\ src = graph[n].args[1].id
    /\ back = CollectPre(src) /\ root = Head(back) /\ before = Tail(back) /\ pre = Maps(before)
    /\ forth = CollectPost(n) /\ after = Tail(forth) /\ post = Maps(after)
    => (Fusions(n) # {} <=> (Len(back) > 1 \/ Len(forth) > 1) /\ Serves(n, root, pre, post))

LEMMA FusionsReduced == FusionsReduce
  BY DEF FusionsReduce, Fusions
LEMMA FusionsAsked == FusionsAsk
  <1>1. SUFFICES ASSUME NEW n, NEW src, NEW back, NEW forth, NEW root, NEW before, NEW after, NEW pre, NEW post,
                        /\ n \in DOMAIN graph /\ graph[n].op \in ReduceOps /\ src = graph[n].args[1].id
                        /\ back = CollectPre(src) /\ root = Head(back) /\ before = Tail(back) /\ pre = Maps(before)
                        /\ forth = CollectPost(n) /\ after = Tail(forth) /\ post = Maps(after)
                 PROVE  Fusions(n) # {} <=> (Len(back) > 1 \/ Len(forth) > 1) /\ Serves(n, root, pre, post)
    BY DEF FusionsAsk
  <1> DEFINE g == [node |-> Fused(graph[n], root, pre, post), tail |-> Last(forth), dead |-> Range(before) \cup Range(forth)]
  <1>2. Fusions(n) = {f \in {g} : /\ Len(back) > 1 \/ Len(forth) > 1
                                  /\ ReduceDim(graph[n], Len(graph[root].val.shape)) # None
                                  /\ Specs(Unpacked(Fakes(f.node))) # {}}
    BY <1>1, Zenon DEF Fusions
  <1>3. g.node = Fused(graph[n], root, pre, post)
    OBVIOUS
  <1> HIDE DEF g
  <1>4. Fusions(n) # {} <=> /\ Len(back) > 1 \/ Len(forth) > 1
                            /\ ReduceDim(graph[n], Len(graph[root].val.shape)) # None
                            /\ Specs(Unpacked(Fakes(g.node))) # {}
    BY <1>2
  <1> QED BY <1>3, <1>4, Zenon DEF Serves

\* The same, asked of a node and the tensor at the root.
ServesIn(node, X, pre, post) ==
  LET d == ReduceDim(node, Len(X.shape)) IN
  /\ d # None
  /\ ReduceSpecs(Unpacked(<<X, Word(node.op), Index(d), Argument(node, 3, "keepdim", Flag(FALSE)),
                            Keyword(node, "dtype", Absent), pre, post>>)) # {}

ServesAre ==
  \A n, root, pre, post, node, X :
    /\ Signature(node) /\ node.op \in ReduceOps /\ node = graph[n] /\ X = graph[root].val
    /\ pre.kind = "list" /\ post.kind = "list"
    => (Serves(n, root, pre, post) <=> ServesIn(node, X, pre, post))

LEMMA ServesSame == ServesAre
  <1> SUFFICES ASSUME NEW n, NEW root, NEW pre, NEW post, NEW node, NEW X,
                      Signature(node), node.op \in ReduceOps, node = graph[n], X = graph[root].val,
                      pre.kind = "list", post.kind = "list"
               PROVE  Serves(n, root, pre, post) <=> ServesIn(node, X, pre, post)
    BY Zenon DEF ServesAre
  <1> DEFINE rank == Len(X.shape)
             d == ReduceDim(node, rank)
             default == Flag(FALSE)
             keepdim == Argument(node, 3, "keepdim", default)
             dtype == Keyword(node, "dtype", Absent)
             fused == Fused(node, root, pre, post)
             args == <<Ref(root), Word(node.op), Index(d), keepdim, dtype, pre, post>>
             fakes == <<X, Word(node.op), Index(d), keepdim, dtype, pre, post>>
             u == Unpacked(fakes)
  <1>1. \A i \in DOMAIN node.args : i # 1 => NodesOf(node.args[i]) = {}
    BY DEF Signature
  <1>2. \A k \in DOMAIN node.kw : NodesOf(node.kw[k]) = {}
    BY DEF Signature
  <1>3. \A a : NodesOf(a) = {} => a.kind # "node"
    BY NodesOfNode
  <1>4. keepdim.kind # "node" /\ dtype.kind # "node"
    <2>1. default.kind # "node" /\ Absent.kind # "node"
      BY DEF Flag, Absent
    <2> HIDE DEF default
    <2>2. ASSUME 3 \in DOMAIN node.args PROVE node.args[3].kind # "node"
      <3>1. 3 # 1
        OBVIOUS
      <3> QED BY <1>1, <1>3, <2>2, <3>1, Zenon
    <2>3. \A k \in DOMAIN node.kw : node.kw[k].kind # "node"
      BY <1>2, <1>3
    <2> QED BY <2>1, <2>2, <2>3 DEF Argument, Keyword
  <1>5. fused.args = args
    BY DEF Fused
  <1>6. Ref(root).kind = "node" /\ Ref(root).id = root /\ Word(node.op).kind # "node" /\ Index(d).kind # "node"
    BY DEF Ref, Word, Index
  <1> HIDE DEF keepdim, dtype, d, default, fused
  <1>7. [i \in DOMAIN args |-> IF args[i].kind = "node" THEN graph[args[i].id].val ELSE args[i]] = fakes
    BY <1>4, <1>6
  <1> HIDE DEF args, fakes
  <1>8. Fakes(fused) = fakes
    BY <1>5, <1>7 DEF Fakes
  <1>9. u.op \in ReduceOps
    <2>1. PassedOn(u, X, node.op, d, keepdim, dtype, pre, post)
      BY UnpackedArgs DEF fakes
    <2> QED BY <2>1 DEF PassedOn
  <1> HIDE DEF u
  <1>10. Specs(u) = ReduceSpecs(u)
    BY <1>9 DEF Specs, ReduceOps, SdpaOps, ElementwiseOps, Arithmetic, Unary, Binary, Compare
  <1>11. Serves(n, root, pre, post) <=> d # None /\ Specs(u) # {}
    BY <1>8, Zenon DEF Serves, u, d, rank, fused
  <1>12. ServesIn(node, X, pre, post) <=> d # None /\ ReduceSpecs(u) # {}
    BY Zenon DEF ServesIn, u, fakes, d, rank, keepdim, default, dtype
  <1> QED BY <1>10, <1>11, <1>12\* Both hold of the graph that results as well.
LEMMA FusionsReducedAfter == FusionsReduce'
  BY FusionsReduced, PTL
LEMMA FusionsAskedAfter == FusionsAsk'
  BY FusionsAsked, PTL
LEMMA ServesSameAfter == ServesAre'
  BY ServesSame, PTL

\* What a reduction is served by, the maps around it apart.
Servable(u) ==
  LET X == u.args[1]
      rank == Len(X.shape)
  IN  /\ IsTensor(X) /\ IsContiguous(X) /\ rank \in 1..4 /\ ReduceTyping(u) # None
      /\ ReducedDims(u, rank) = {rank} /\ ReduceFits(X.shape)
Resolves(u, name, dtype) ==
  ResolveMaps(Keyword(u, name, List(<<>>)).items, dtype, u.args[1].dtype \in FloatDtypes) # None

LEMMA ReduceServed ==
  ASSUME NEW u
  PROVE  ReduceSpecs(u) # {} <=> /\ Servable(u)
                                 /\ Resolves(u, "pre_map", u.args[1].dtype)
                                 /\ Resolves(u, "post_map", ReduceTyping(u).out)
  <1> DEFINE X == u.args[1]
             rank == Len(X.shape)
             approx == X.dtype \in FloatDtypes
             typing == ReduceTyping(u)
             pre == ResolveMaps(Keyword(u, "pre_map", List(<<>>)).items, X.dtype, approx)
             post == ResolveMaps(Keyword(u, "post_map", List(<<>>)).items, typing.out, approx)
             spec == [family |-> "reduce", op |-> typing.op, in |-> X.dtype, out |-> typing.out, rank |-> rank,
                      approx |-> approx, keepdim |-> Argument(u, 3, "keepdim", Flag(FALSE)).val,
                      pre |-> pre, post |-> Scaled(u.op, post)]
             none == \/ ~IsTensor(X) \/ ~IsContiguous(X) \/ rank \notin 1..4 \/ typing = None
                     \/ ReducedDims(u, rank) # {rank} \/ ~ReduceFits(X.shape) \/ pre = None \/ post = None
  <1>1. ReduceSpecs(u) = IF none THEN {} ELSE {spec}
    BY Zenon DEF ReduceSpecs
  <1>2. Servable(u) <=> /\ IsTensor(X) /\ IsContiguous(X) /\ rank \in 1..4 /\ typing # None
                        /\ ReducedDims(u, rank) = {rank} /\ ReduceFits(X.shape)
    BY Zenon DEF Servable
  <1>3. Resolves(u, "pre_map", X.dtype) <=> pre # None
    BY Zenon DEF Resolves
  <1>4. Resolves(u, "post_map", typing.out) <=> post # None
    BY Zenon DEF Resolves
  <1>5. none <=> ~(Servable(u) /\ Resolves(u, "pre_map", X.dtype) /\ Resolves(u, "post_map", typing.out))
    <2> HIDE DEF rank, typing, pre, post, X
    <2> QED BY <1>2, <1>3, <1>4
  <1> HIDE DEF none, spec
  <1>6. ReduceSpecs(u) # {} <=> ~none
    BY <1>1
  <1> QED BY <1>5, <1>6, Zenon

\* The type a reduction stores is the one its fake value has, and is floating if what it reads is.
LEMMA ReduceOut ==
  ASSUME NEW c, NEW u, u.op = c.op, u.args[1] = c.args[1], Keyword(u, "dtype", Absent) = Keyword(c, "dtype", Absent),
         c.op \in ReduceOps, ReduceTyping(u) # None
  PROVE  /\ FakeReduce(c).dtype = ReduceTyping(u).out
         /\ ReduceTyping(u).out \in FloatDtypes <=> c.args[1].dtype \in FloatDtypes
  <1> DEFINE in == c.args[1].dtype
             asked == Keyword(c, "dtype", Absent)
             out == IF c.op \in {"all", "any"} THEN IF in = "u8" THEN "u8" ELSE "bool"
                    ELSE IF asked # Absent THEN asked.val ELSE IF in \in FloatDtypes THEN in ELSE "i64"
             typing == ReduceTyping(u)
  <1>1. FakeReduce(c).dtype = out
    BY DEF FakeReduce, Plain, Tensor
  <1>2. Word(in).val = in
    BY DEF Word
  <1>3. typing.out = out /\ (out \in FloatDtypes <=> in \in FloatDtypes)
    <2>1. CASE in \in FloatDtypes
      <3>1. c.op \in {"sum", "mean", "prod"} /\ asked \in {Absent, Word(in)} /\ typing.out = in
        BY <2>1 DEF ReduceTyping
      <3> QED BY <1>2, <2>1, <3>1
    <2>2. CASE in \notin FloatDtypes /\ c.op \in {"sum", "prod"}
      BY <2>2 DEF ReduceTyping
    <2>3. CASE in \notin FloatDtypes /\ c.op = "mean"
      BY <2>3 DEF ReduceTyping
    <2>4. CASE in \notin FloatDtypes /\ c.op \in {"all", "any"}
      BY <2>4 DEF ReduceTyping, FloatDtypes
    <2> QED BY <2>1, <2>2, <2>3, <2>4 DEF ReduceOps
  <1> QED BY <1>1, <1>3
\* The maps around a call are all that tells two calls of one reduction apart.
LEMMA UnpackedAlike ==
  ASSUME NEW x, NEW op, NEW d, NEW keepdim, NEW dtype, NEW pre, NEW post, NEW other,
         NEW u, u = Unpacked(<<x, Word(op), Index(d), keepdim, dtype, pre, post>>),
         NEW v, v = Unpacked(<<x, Word(op), Index(d), keepdim, dtype, pre, other>>)
  PROVE  (Servable(u) <=> Servable(v)) /\ ReduceTyping(u) = ReduceTyping(v)
  <1>1. PassedOn(u, x, op, d, keepdim, dtype, pre, post) /\ PassedOn(v, x, op, d, keepdim, dtype, pre, other)
    BY UnpackedArgs
  <1>2. /\ u.op = op /\ v.op = op /\ u.args[1] = x /\ v.args[1] = x
        /\ Argument(u, 2, "dim", Absent) = u.args[2] /\ Argument(v, 2, "dim", Absent) = v.args[2]
        /\ Keyword(u, "dtype", Absent) = dtype /\ Keyword(v, "dtype", Absent) = dtype
    BY <1>1 DEF PassedOn
  <1>3. u.args = v.args
    <2> DEFINE dim == IF op \in {"sum", "mean"} THEN List(<<Index(d)>>) ELSE Index(d)
    <2>1. Word(op).val = op
      BY DEF Word
    <2>2. ASSUME NEW after, NEW w, w = Unpacked(<<x, Word(op), Index(d), keepdim, dtype, pre, after>>)
          PROVE  w.args = <<x, dim, keepdim>>
      BY <2>1, <2>2 DEF Unpacked
    <2> HIDE DEF dim
    <2> QED BY <2>2
  <1>4. ReducedDims(u, Len(x.shape)) = ReducedDims(v, Len(x.shape))
    BY <1>2, <1>3, DimsAre
  <1>5. ReduceTyping(u) = ReduceTyping(v)
    BY <1>2 DEF ReduceTyping
  <1> QED BY <1>2, <1>4, <1>5 DEF Servable

\* Maps that the reduction after them absorbs, the reduction before them can absorb
\* as well: what one reads is what the other stores.
LEMMA AbsorbedEitherWay ==
  ASSUME MetaInv, NEW m \in DOMAIN graph, graph[m].op \in ReduceOps, Signature(graph[m]),
         NEW X, X = graph[graph[m].args[1].id].val, NEW node, NEW pre, NEW post, NEW maps,
         ServesIn(graph[m], X, pre, List(<<>>)), ServesIn(node, graph[m].val, maps, post)
  PROVE  ServesIn(graph[m], X, pre, maps)
  <1> DEFINE red == graph[m]
             Y == red.val
             c == CallIn(graph, red)
             d == ReduceDim(red, Len(X.shape))
             keepdim == Argument(red, 3, "keepdim", Flag(FALSE))
             dtype == Keyword(red, "dtype", Absent)
             none == List(<<>>)
             u == Unpacked(<<X, Word(red.op), Index(d), keepdim, dtype, pre, none>>)
             w == Unpacked(<<X, Word(red.op), Index(d), keepdim, dtype, pre, maps>>)
             dn == ReduceDim(node, Len(Y.shape))
             kn == Argument(node, 3, "keepdim", Flag(FALSE))
             tn == Keyword(node, "dtype", Absent)
             v == Unpacked(<<Y, Word(node.op), Index(dn), kn, tn, maps, post>>)
  <1>1. /\ ServesIn(red, X, pre, none) <=> d # None /\ ReduceSpecs(u) # {}
        /\ ServesIn(red, X, pre, maps) <=> d # None /\ ReduceSpecs(w) # {}
        /\ ServesIn(node, Y, maps, post) <=> dn # None /\ ReduceSpecs(v) # {}
    BY Zenon DEF ServesIn
  <1>2. red.op \in ReduceOps /\ red.args[1].kind = "node" /\ 1 \in DOMAIN red.args /\ Settled(graph, red)
    BY DEF MetaInv, AllSettled, Signature
  <1>3. c.op = red.op /\ c.args = FakesIn(graph, red) /\ c.kw = red.kw
    BY CallFields
  <1>4. c.args[1] = X /\ Keyword(c, "dtype", Absent) = dtype
    BY <1>2, <1>3 DEF FakesIn, Keyword
  <1>5. Y = FakeReduce(c)
    <2>1. red.op \notin {"placeholder", "output"} \cup AttentionOps
      BY <1>2 DEF ReduceOps, AttentionOps
    <2>2. Y = Fake(c)
      BY <1>2, <2>1, SettledElsewhere
    <2> QED BY <1>2, <1>3, <2>2, FakeOps
  <1>6. /\ PassedOn(u, X, red.op, d, keepdim, dtype, pre, none)
        /\ PassedOn(w, X, red.op, d, keepdim, dtype, pre, maps)
        /\ PassedOn(v, Y, node.op, dn, kn, tn, maps, post)
    BY UnpackedArgs
  <1>7. (Servable(u) <=> Servable(w)) /\ ReduceTyping(u) = ReduceTyping(w)
    <2> HIDE DEF keepdim, dtype, d, none, red
    <2>1. /\ u = Unpacked(<<X, Word(red.op), Index(d), keepdim, dtype, pre, none>>)
          /\ w = Unpacked(<<X, Word(red.op), Index(d), keepdim, dtype, pre, maps>>)
      OBVIOUS
    <2> HIDE DEF u, w
    <2> QED BY <2>1, UnpackedAlike
  <1>8. ServesIn(red, X, pre, none) /\ ServesIn(node, Y, maps, post)
    OBVIOUS
  <1> HIDE DEF c, d, keepdim, dtype, u, w, v, dn, kn, tn, red, Y
  <1>9. /\ u.op = red.op /\ u.args[1] = X /\ w.args[1] = X /\ v.args[1] = Y
        /\ Keyword(u, "dtype", Absent) = dtype
        /\ Keyword(u, "pre_map", none) = pre /\ Keyword(w, "pre_map", none) = pre
        /\ Keyword(w, "post_map", none) = maps /\ Keyword(v, "pre_map", none) = maps
    BY <1>6 DEF PassedOn
  <1> HIDE DEF none
  <1>10. d # None /\ Servable(u) /\ Resolves(u, "pre_map", X.dtype)
    BY <1>1, <1>8, <1>9, ReduceServed
  <1>11. Y.dtype = ReduceTyping(u).out /\ (Y.dtype \in FloatDtypes <=> X.dtype \in FloatDtypes)
    <2>1. ReduceTyping(u) # None
      BY <1>10 DEF Servable
    <2> QED BY <1>2, <1>3, <1>4, <1>5, <1>9, <2>1, ReduceOut
  <1>12. Resolves(w, "pre_map", X.dtype)
    BY <1>9, <1>10 DEF Resolves, none
  <1>13. Resolves(w, "post_map", ReduceTyping(w).out)
    <2>1. Resolves(v, "pre_map", Y.dtype)
      BY <1>1, <1>8, <1>9, ReduceServed
    <2>2. ResolveMaps(maps.items, Y.dtype, Y.dtype \in FloatDtypes) # None
      BY <1>9, <2>1 DEF Resolves, none
    <2>3. ResolveMaps(maps.items, Y.dtype, X.dtype \in FloatDtypes) # None
      <3>1. CASE X.dtype \in FloatDtypes
        <4>1. (Y.dtype \in FloatDtypes) = (X.dtype \in FloatDtypes)
          BY <1>11, <3>1
        <4> QED BY <2>2, <4>1
      <3>2. CASE X.dtype \notin FloatDtypes
        <4>1. (Y.dtype \in FloatDtypes) = (X.dtype \in FloatDtypes)
          BY <1>11, <3>2
        <4> QED BY <2>2, <4>1
      <3> QED BY <3>1, <3>2
    <2> QED BY <1>7, <1>9, <1>11, <2>3 DEF Resolves, none
  <1>14. ReduceSpecs(w) # {}
    BY <1>7, <1>9, <1>10, <1>12, <1>13, ReduceServed
  <1> QED BY <1>1, <1>10, <1>14 DEF red
LEMMA ServesRenamed ==
  ASSUME NEW node, IsNode(node), Signature(node), node.op \in ReduceOps, NEW from, NEW to, NEW new, new = Renamed(node, from, to),
         NEW X, NEW pre, NEW post
  PROVE  ServesIn(new, X, pre, post) <=> ServesIn(node, X, pre, post)
  <1>1. new.op = node.op /\ new.kw = node.kw /\ new.args = [i \in DOMAIN node.args |-> Swapped(node.args[i], from, to)]
    BY RenamedFields
  <1>2. \A i \in DOMAIN node.args : i # 1 => NodesOf(node.args[i]) = {}
    BY DEF Signature
  <1>3. DOMAIN new.args = DOMAIN node.args /\ \A i \in DOMAIN node.args : i # 1 => new.args[i] = node.args[i]
    BY <1>1, <1>2 DEF Swapped
  <1>4. \A i, name, default : i # 1 => Argument(new, i, name, default) = Argument(node, i, name, default)
    BY <1>1, <1>3 DEF Argument, Keyword
  <1>5. Argument(new, 2, "dim", Absent) = Argument(node, 2, "dim", Absent)
    <2>1. 2 # 1
      OBVIOUS
    <2> QED BY <1>4, <2>1, Zenon
  <1>6. Argument(new, 3, "keepdim", Flag(FALSE)) = Argument(node, 3, "keepdim", Flag(FALSE))
    <2>1. 3 # 1
      OBVIOUS
    <2> QED BY <1>4, <2>1, Zenon
  <1>7. Keyword(new, "dtype", Absent) = Keyword(node, "dtype", Absent)
    BY <1>1 DEF Keyword
  <1>8. ReduceDim(new, Len(X.shape)) = ReduceDim(node, Len(X.shape))
    BY <1>5, DimIs
  <1> QED BY <1>1, <1>6, <1>7, <1>8 DEF ServesIn

\* What fusion had passed by it would pass by again.
LEMMA WalkedStays ==
  ASSUME NodesInv, WellFormed, MetaInv, NodesInv', WellFormed',
         NEW n, NEW f \in Fusions(n), NEW src, src = graph[n].args[1].id, NEW back, back = CollectPre(src),
         NEW root, root = Head(back), NEW new, Remains(new, root, f.tail, f.dead),
         NEW m \in DOMAIN graph \ f.dead, Place(m) < Place(n), Fusions(m) = {}
  PROVE  Fusions(m)' = {}
  <1> DEFINE dead == f.dead
             tail == f.tail
  <1>1. /\ n \in DOMAIN graph /\ graph[n].op \in ReduceOps /\ src \in DOMAIN graph
        /\ CutsOut(n, root, tail, dead) /\ n \in Users(src)
        /\ Continues(root) => Len(back) > 1 /\ CollectPost(root) = back
    BY FusionCuts
  <1>2. /\ m \in DOMAIN graph' /\ graph'[m].op = graph[m].op /\ graph'[m] = Renamed(graph[m], tail, new)
        /\ graph[m].op \in ReduceOps => graph'[m].args[1].id = IF graph[m].args[1].id = tail THEN new ELSE graph[m].args[1].id
    BY DEF Remains
  <1>3. CASE graph[m].op \notin ReduceOps
    BY <1>2, <1>3, FusionsReducedAfter DEF FusionsReduce
  <1>4. CASE graph[m].op \in ReduceOps
    <2>1. IsNode(graph[m]) /\ Signature(graph[m]) /\ Signature(graph[n])
      BY <1>1 DEF NodesInv
    <2>2. PICK at : at = graph[m].args[1].id
      OBVIOUS
    <2>3. at \in DOMAIN graph /\ Place(at) < Place(m) /\ m \in Users(at)
      BY <1>4, <2>1, <2>2, ReduceInputs DEF WellFormed, Users
    <2>4. Place(at) < Place(n) /\ at # tail
      <3>1. Place(at) \in Nat /\ Place(m) \in Nat /\ Place(n) \in Nat /\ Place(tail) \in Nat /\ Place(n) <= Place(tail)
        BY <1>1, <2>3, Places DEF CutsOut
      <3>2. Place(at) < Place(n)
        BY <2>3, <3>1
      <3> QED BY <3>1, <3>2
    <2>5. at \in DOMAIN graph \ dead
      BY <2>3, <2>4, <1>1 DEF CutsOut
    <2>6. graph'[m].args[1].id = at
      BY <1>2, <1>4, <2>2, <2>4
    <2>7. PICK chain : chain = CollectPre(at)
      OBVIOUS
    <2>8. CollectPre(at)' = chain /\ chain \in Seq(DOMAIN graph \ dead)
      BY <1>1, <2>4, <2>5, <2>7, PreRemains
    <2>9. Len(chain) > 0 /\ IsChain(chain) /\ Last(chain) = at
      BY <2>3, <2>7, PreChain
    <2>10. PICK top, before, pre : top = Head(chain) /\ before = Tail(chain) /\ pre = Maps(before)
      OBVIOUS
    <2>11. top = chain[1] /\ top \in DOMAIN graph \ dead /\ before \in Seq(DOMAIN graph \ dead) /\ chain \in Seq(DOMAIN graph)
      <3> DEFINE T == DOMAIN graph \ dead
      <3>1. chain \in Seq(T)
        BY <2>8
      <3> HIDE DEF T
      <3>2. chain # <<>> /\ Len(chain) \in Nat /\ top = chain[1] /\ 1 \in 1..Len(chain)
        BY <2>9, <2>10, <3>1
      <3>3. top \in T /\ before \in Seq(T)
        BY <2>10, <3>1, <3>2, HeadTailProperties
      <3>4. chain \in Seq(DOMAIN graph)
        <4>1. T \subseteq DOMAIN graph
          BY DEF T
        <4> QED BY <3>1, <4>1
      <3> QED BY <3>2, <3>3, <3>4 DEF T
    <2>12. pre = Maps(before)' /\ pre.kind = "list"
      <3>1. Maps(before)' = Maps(before)
        BY <2>11, MapsRemain
      <3> QED BY <2>10, <3>1 DEF Maps, List
    <2>13. PICK X : X = graph[top].val
      OBVIOUS
    <2>14. X = graph'[top].val /\ X = graph[graph[m].args[1].id].val
      <3>1. graph'[top].val = graph[top].val
        BY <2>11 DEF Remains
      <3>2. Last(chain) = chain[Len(chain)] /\ Len(chain) \in 1..Len(chain)
        BY <2>9, <2>11 DEF Last
      <3>3. graph[at].val = graph[top].val
        BY <2>9, <2>11, <3>2, ChainVal
      <3> QED BY <2>2, <2>13, <3>1, <3>3
    <2>15. ASSUME NEW post, post.kind = "list"
           PROVE  /\ Serves(m, top, pre, post) <=> ServesIn(graph[m], X, pre, post)
                  /\ Serves(m, top, pre, post)' <=> ServesIn(graph[m], X, pre, post)
      <3>1. Serves(m, top, pre, post) <=> ServesIn(graph[m], X, pre, post)
        BY <1>4, <2>1, <2>12, <2>13, <2>15, ServesSame DEF ServesAre
      <3>2. PICK node : node = graph'[m]
        OBVIOUS
      <3>3. Signature(node) /\ node.op \in ReduceOps
        BY <1>2, <1>4, <3>2 DEF NodesInv
      <3>4. Serves(m, top, pre, post)' <=> ServesIn(node, X, pre, post)
        BY <2>12, <2>14, <2>15, <3>2, <3>3, ServesSameAfter DEF ServesAre
      <3>5. ServesIn(node, X, pre, post) <=> ServesIn(graph[m], X, pre, post)
        BY <1>2, <1>4, <2>1, <3>2, ServesRenamed
      <3> QED BY <3>1, <3>4, <3>5
    <2>16. ASSUME NEW forth, forth = CollectPost(m), NEW after, after = Tail(forth), NEW post, post = Maps(after)
           PROVE  ~((Len(chain) > 1 \/ Len(forth) > 1) /\ Serves(m, top, pre, post))
      BY <1>4, <2>2, <2>7, <2>10, <2>16, FusionsAsked DEF FusionsAsk
    <2>17. ASSUME NEW forth, forth = CollectPost(m)', NEW after, after = Tail(forth), NEW post, post = Maps(after)'
           PROVE  Fusions(m)' # {} <=> (Len(chain) > 1 \/ Len(forth) > 1) /\ Serves(m, top, pre, post)'
      <3>1. /\ m \in DOMAIN graph' /\ graph'[m].op \in ReduceOps /\ at = graph'[m].args[1].id
            /\ chain = CollectPre(at)' /\ top = Head(chain) /\ before = Tail(chain) /\ pre = Maps(before)'
        BY <1>2, <1>4, <2>6, <2>8, <2>10, <2>12
      <3> QED BY <2>17, <3>1, FusionsAskedAfter DEF FusionsAsk
    <2>18. CASE m = root => ~Continues(root)
      <3>1. PICK forth, after, post : forth = CollectPost(m) /\ after = Tail(forth) /\ post = Maps(after)
        OBVIOUS
      <3>2. CollectPost(m)' = forth /\ forth \in Seq(DOMAIN graph \ dead)
        <4>1. CollectPost(m)' = CollectPost(m) /\ CollectPost(m) \in Seq(DOMAIN graph \ dead)
          BY <1>1, <2>18, PostRemains
        <4> QED BY <3>1, <4>1
      <3>3. Len(forth) > 0
        BY <3>1, PostChain
      <3>4. after \in Seq(DOMAIN graph \ dead)
        <4> DEFINE T == DOMAIN graph \ dead
        <4>1. forth \in Seq(T)
          BY <3>2
        <4> HIDE DEF T
        <4>2. forth # <<>>
          BY <3>3, <4>1
        <4>3. after \in Seq(T)
          BY <3>1, <4>1, <4>2, HeadTailProperties
        <4> QED BY <4>3 DEF T
      <3>5. post = Maps(after)' /\ post.kind = "list"
        <4>1. Maps(after)' = Maps(after)
          BY <3>4, MapsRemain
        <4> QED BY <3>1, <4>1 DEF Maps, List
      <3>6. Fusions(m)' # {} <=> (Len(chain) > 1 \/ Len(forth) > 1) /\ Serves(m, top, pre, post)'
        BY <2>17, <3>1, <3>2, <3>5
      <3>7. Serves(m, top, pre, post)' <=> Serves(m, top, pre, post)
        BY <2>15, <3>5
      <3> QED BY <2>16, <3>1, <3>6, <3>7
    <2>19. CASE m = root /\ Continues(root)
      <3>1. PICK maps : maps = Maps(Tail(back))
        OBVIOUS
      <3>2. Len(back) > 1 /\ CollectPost(m) = back /\ maps.kind = "list"
        BY <1>1, <2>19, <3>1 DEF Maps, List
      <3>3. PICK forth, after, post : forth = CollectPost(m)' /\ after = Tail(forth) /\ post = Maps(after)'
        OBVIOUS
      <3>4. forth = <<m>>
        BY <1>1, <2>19, <3>3, RootEnds
      <3>5. after = <<>> /\ Len(forth) = 1
        BY <3>3, <3>4
      <3>6. post = List(<<>>) /\ post.kind = "list"
        <4> DEFINE items == [i \in DOMAIN after |-> MapOf(after[i])']
        <4>1. post = List(items)
          BY <3>3 DEF Maps
        <4>2. DOMAIN after = {}
          BY <3>5
        <4>3. items = <<>>
          BY <4>2
        <4> QED BY <4>1, <4>3 DEF List
      <3>7. ASSUME Serves(m, top, pre, post)' PROVE Serves(m, top, pre, maps)
        <4>1. ServesIn(graph[m], X, pre, List(<<>>))
          BY <2>15, <3>6, <3>7
        <4>2. PICK other : other = Maps(Tail(CollectPost(n)))
          OBVIOUS
        <4>3. other.kind = "list"
          BY <4>2 DEF Maps, List
        <4>4. Serves(n, m, maps, other)
          <5>1. Fusions(n) # {}
            OBVIOUS
          <5> QED BY <1>1, <2>19, <3>1, <4>2, <5>1, FusionsAsked DEF FusionsAsk
        <4>5. ServesIn(graph[n], graph[m].val, maps, other)
          BY <1>1, <2>1, <3>2, <4>3, <4>4, ServesSame DEF ServesAre
        <4>6. ServesIn(graph[m], X, pre, maps)
          BY <1>4, <2>1, <2>14, <4>1, <4>5, AbsorbedEitherWay
        <4> QED BY <2>15, <3>2, <4>6
      <3>8. ~Serves(m, top, pre, maps)
        BY <2>16, <3>1, <3>2
      <3> QED BY <2>17, <3>3, <3>7, <3>8
    <2> QED BY <2>18, <2>19
  <1> QED BY <1>3, <1>4
\* A step that leaves the graph leaves what there is to fuse.
LEMMA GraphSame ==
  ASSUME UNCHANGED graph, NEW m, Fusions(m) = {}
  PROVE  Fusions(m)' = {}
  <1>1. \A n : Users(n)' = Users(n)
    BY DEF Users
  <1>2. \A n : MapOf(n)' = MapOf(n)
    BY DEF MapOf, Fakes
  <1>3. Forth' = Forth
    BY <1>1, <1>2 DEF Forth, Continues
  <1>4. \A src : CollectPre(src)' = CollectPre(src)
    BY <1>1, <1>2 DEF CollectPre, Path, Back
  <1>5. \A n : CollectPost(n)' = CollectPost(n)
    BY <1>3 DEF CollectPost, Path
  <1>6. \A chain : Maps(chain)' = Maps(chain)
    BY <1>2 DEF Maps
  <1>7. \A n, root, pre, post : Serves(n, root, pre, post)' <=> Serves(n, root, pre, post)
    BY DEF Serves, Fused, Fakes
  <1>8. CASE m \notin DOMAIN graph \/ graph[m].op \notin ReduceOps
    BY <1>8, FusionsReducedAfter DEF FusionsReduce
  <1>9. CASE m \in DOMAIN graph /\ graph[m].op \in ReduceOps
    <2>1. PICK src : src = graph[m].args[1].id
      OBVIOUS
    <2>2. PICK back, forth : back = CollectPre(src) /\ forth = CollectPost(m)
      OBVIOUS
    <2>3. PICK root, before, after, pre, post :
            root = Head(back) /\ before = Tail(back) /\ after = Tail(forth) /\ pre = Maps(before) /\ post = Maps(after)
      OBVIOUS
    <2>4. ~((Len(back) > 1 \/ Len(forth) > 1) /\ Serves(m, root, pre, post))
      BY <1>9, <2>1, <2>2, <2>3, FusionsAsked DEF FusionsAsk
    <2>5. /\ src = graph'[m].args[1].id /\ back = CollectPre(src)' /\ forth = CollectPost(m)'
          /\ pre = Maps(before)' /\ post = Maps(after)' /\ m \in DOMAIN graph' /\ graph'[m].op \in ReduceOps
      BY <1>4, <1>5, <1>6, <1>9, <2>1, <2>2, <2>3
    <2>6. ~Serves(m, root, pre, post)' \/ ~(Len(back) > 1 \/ Len(forth) > 1)
      BY <1>7, <2>4
    <2> QED BY <2>3, <2>5, <2>6, FusionsAskedAfter DEF FusionsAsk
  <1> QED BY <1>8, <1>9
\* The walk has nothing to come back to: what it has passed by stays as it is, and
\* it has passed by every node at an earlier place.
WalkedInv ==
  /\ phase = "fuse" => \A m \in DOMAIN graph \ todo : Fusions(m) = {} /\ \A k \in todo : Place(m) <= Place(k)
  /\ phase = "begin" /\ replace => \A n \in DOMAIN graph : Fusions(n) = {}

LEMMA FuseWalks == IInv /\ MetaInv /\ WalkedInv /\ Fuse /\ UNCHANGED kind => WalkedInv'
  <1> SUFFICES ASSUME IInv, MetaInv, WalkedInv, Fuse, UNCHANGED kind PROVE WalkedInv'
    OBVIOUS
  <1>1. phase = "fuse" /\ NodesInv /\ WellFormed
    BY DEF Fuse, IInv
  <1>2. NodesInv' /\ WellFormed'
    BY FuseKeeps DEF IInv
  <1>3. PICK n \in todo : /\ IsNext(n) /\ todo' = todo \ {n}
                          /\ \/ Fusions(n) = {} /\ UNCHANGED <<graph, phase>>
                             \/ \E f \in Fusions(n) : Rewrite(n, f.tail, f.node, f.dead)
    BY DEF Fuse
  <1>4. \A m \in DOMAIN graph \ todo : Fusions(m) = {} /\ \A k \in todo : Place(m) <= Place(k)
    BY <1>1 DEF WalkedInv
  <1>5. \A k \in todo : Place(n) <= Place(k)
    BY <1>3 DEF IsNext
  <1>6. CASE Fusions(n) = {} /\ UNCHANGED <<graph, phase>>
    <2>1. ASSUME NEW m \in DOMAIN graph' \ todo' PROVE Fusions(m)' = {} /\ \A k \in todo' : Place(m) <= Place(k)
      <3>1. Fusions(m) = {} /\ \A k \in todo : Place(m) <= Place(k)
        BY <1>3, <1>4, <1>5, <1>6, <2>1
      <3> QED BY <1>3, <1>6, <3>1, GraphSame
    <2> QED BY <1>1, <1>6, <2>1 DEF WalkedInv, Place
  <1>7. ASSUME NEW f \in Fusions(n), Rewrite(n, f.tail, f.node, f.dead) PROVE WalkedInv'
    <2>1. PICK src : src = graph[n].args[1].id
      OBVIOUS
    <2>2. PICK back : back = CollectPre(src)
      OBVIOUS
    <2>3. PICK root : root = Head(back)
      OBVIOUS
    <2>4. PICK new : new = n + MaxNodes
      OBVIOUS
    <2>5. n \in DOMAIN graph /\ CutsOut(n, root, f.tail, f.dead)
      BY <1>1, <2>1, <2>2, <2>3, FusionCuts
    <2>6. Closed(n, f.tail, f.node, f.dead)
      BY <1>1, FusionsClosed
    <2>7. InputNodes(f.node) = {root}
      <3> DEFINE pre == Maps(Tail(back))
                 post == Maps(Tail(CollectPost(n)))
      <3>1. graph[n].op \in ReduceOps /\ Signature(graph[n]) /\ src \in DOMAIN graph /\ n \in Users(src)
        BY <1>1, <2>1, <2>2, <2>5, FusionCuts DEF NodesInv
      <3>2. f = [node |-> Fused(graph[n], root, pre, post), tail |-> Last(CollectPost(n)),
                 dead |-> Range(Tail(back)) \cup Range(CollectPost(n))]
        BY <2>1, <2>2, <2>3, <2>5, <3>1 DEF Fusions
      <3>3. f.node = Fused(graph[n], root, pre, post)
        BY <3>2
      <3>4. \A m \in Range(Tail(back)) : MapOf(m).kind = "map"
        BY <1>1, <2>2, <3>1, PreChain
      <3>5. \A m \in Range(Tail(CollectPost(n))) : MapOf(m).kind = "map"
        BY <1>1, <2>5, PostChain
      <3>6. NodesOf(pre) = {} /\ NodesOf(post) = {}
        BY <3>4, <3>5, MapsReadNothing
      <3> HIDE DEF pre, post
      <3>7. InputNodes(f.node) \subseteq {root}
        BY <3>1, <3>3, <3>6, FusedInputs
      <3>8. root \in InputNodes(f.node)
        <4>1. 1 \in DOMAIN f.node.args /\ f.node.args[1] = Ref(root)
          BY <3>3 DEF Fused
        <4>2. NodesOf(f.node.args[1]) = {root}
          <5>1. Ref(root).kind = "node" /\ Ref(root).id = root
            BY DEF Ref
          <5> QED BY <4>1, <5>1, NodesOfNode
        <4> QED BY <4>1, <4>2, InputNodesArg
      <3> QED BY <3>7, <3>8
    <2>8. Remains(new, root, f.tail, f.dead)
      BY <1>1, <1>7, <2>4, <2>5, <2>6, <2>7, FusionRemains
    <2>9. phase' = phase
      BY <1>1, <1>7, <2>6, RewriteKeeps
    <2>10. Place(new) = Place(n) /\ n \in f.dead
      <3>1. n \in 1..MaxNodes /\ MaxNodes \in Nat /\ n \in f.dead
        BY <1>1, <2>5, <2>6, Places, PostGradAssumption DEF Closed, NodesInv
      <3> QED BY <2>4, <3>1 DEF Place
    <2>11. ASSUME NEW m \in DOMAIN graph' \ todo' PROVE Fusions(m)' = {} /\ \A k \in todo' : Place(m) <= Place(k)
      <3>1. m = new \/ m \in DOMAIN graph \ f.dead
        BY <2>8 DEF Remains
      <3>2. CASE m = new
        <4>1. graph'[new].op \notin ReduceOps
          BY <2>8 DEF Remains
        <4>2. Fusions(m)' = {}
          BY <3>2, <4>1, FusionsReducedAfter DEF FusionsReduce
        <4> QED BY <1>3, <1>5, <2>10, <3>2, <4>2
      <3>3. CASE m \in DOMAIN graph \ f.dead
        <4>1. m # n /\ m \notin todo
          BY <1>3, <2>10, <2>11, <3>3
        <4>2. Fusions(m) = {} /\ \A k \in todo : Place(m) <= Place(k)
          BY <1>4, <3>3, <4>1
        <4>3. Place(m) < Place(n)
          <5>1. Place(m) \in Nat /\ Place(n) \in Nat /\ Place(m) <= Place(n)
            BY <1>1, <2>5, <3>3, <4>2, Places
          <5>2. Place(m) # Place(n)
            BY <1>1, <2>5, <3>3, <4>1 DEF WellFormed
          <5> QED BY <5>1, <5>2
        <4>4. Fusions(m)' = {}
          BY <1>1, <1>2, <2>1, <2>2, <2>3, <2>8, <3>3, <4>2, <4>3, WalkedStays
        <4> QED BY <1>3, <4>2, <4>4
      <3> QED BY <3>1, <3>2, <3>3
    <2> QED BY <1>1, <2>9, <2>11 DEF WalkedInv, Place
  <1> QED BY <1>3, <1>6, <1>7

LEMMA WalkInit == Init => WalkedInv
  BY DEF Init, WalkedInv

LEMMA WalkStep == IInv /\ MetaInv /\ WalkedInv /\ [Next]_vars => WalkedInv'
  <1> SUFFICES ASSUME IInv, MetaInv, WalkedInv, [Next]_vars PROVE WalkedInv'
    OBVIOUS
  <1>1. CASE Trace
    <2>1. phase' = "build"
      BY <1>1 DEF Trace
    <2> QED BY <2>1 DEF WalkedInv
  <1>2. CASE Call
    <2>1. todo' = DOMAIN graph' /\ phase' = (IF replace' THEN "fuse" ELSE "begin")
      BY <1>2 DEF Call
    <2> QED BY <2>1 DEF WalkedInv
  <1>3. CASE EndFusion
    <2>1. UNCHANGED <<graph, replace>> /\ phase = "fuse" /\ todo = {} /\ phase' = "begin"
      BY <1>3 DEF EndFusion
    <2>2. \A n \in DOMAIN graph : Fusions(n) = {}
      BY <2>1 DEF WalkedInv
    <2>3. \A n \in DOMAIN graph' : Fusions(n)' = {}
      BY <2>1, <2>2, GraphSame
    <2> QED BY <2>1, <2>3 DEF WalkedInv
  <1>4. CASE BeginGraph \/ Replace \/ FinishGraph
    <2>1. phase' \notin {"fuse", "begin"}
      BY <1>4 DEF BeginGraph, Replace, Rewrite, FinishGraph
    <2> QED BY <2>1 DEF WalkedInv
  <1>5. CASE UNCHANGED vars
    <2>1. UNCHANGED <<graph, phase, todo, replace>>
      BY <1>5 DEF vars
    <2>2. \A n : Fusions(n) = {} => Fusions(n)' = {}
      BY <2>1, GraphSame
    <2> QED BY <2>1, <2>2 DEF WalkedInv, Place
  <1> QED BY <1>1, <1>2, <1>3, <1>4, <1>5, FuseWalks DEF Next, Pass

\* For graphs of any ops and any size, however chains of maps meet, share nodes or
\* run from one reduction into the next: when the walk ends there is no fusion
\* left in the graph, though every rewrite changed the nodes around the anchors
\* that the walk had already passed by.
THEOREM WalkSuffices == Spec => []OneWalkSuffices
  <1>1. Init => IInv /\ MetaInv /\ WalkedInv
    BY InvInit, MetaInit, WalkInit
  <1>2. (IInv /\ MetaInv /\ WalkedInv) /\ [Next]_vars => (IInv /\ MetaInv /\ WalkedInv)'
    BY InvStep, MetaStep, WalkStep
  <1>3. WalkedInv => OneWalkSuffices
    BY DEF WalkedInv, OneWalkSuffices
  <1> QED BY <1>1, <1>2, <1>3, PTL DEF Spec
=============================================================================
