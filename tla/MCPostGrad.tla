----------------------------- MODULE MCPostGrad ----------------------------
(* Graphs of maps around reductions, of products, and of attention.          *)
EXTENDS PostGrad

matrix == Plain("f32", <<32, 32>>)
heads == Plain("f16", <<1, 2, 16, 16>>)
two == Num("float", 2 * Unit)

Template(op, tensors, args) == [op |-> op, tensors |-> tensors, args |-> args, kw |-> NoKw]
Relu == Template("relu", 1, <<>>)
Cos == Template("cos", 1, <<>>)        \* has no model over the reals
Twice == Template("mul", 1, <<two>>)
Double == Template("double", 1, <<>>)  \* changes the type
Plus == Template("add", 2, <<>>)
Sum == Template("sum", 1, <<List(<<Index(-1)>>), Flag(TRUE)>>)
Mean == Template("mean", 1, <<List(<<Index(-1)>>)>>)
First == Template("sum", 1, <<List(<<Index(0)>>)>>)
Mm == Template("mm", 2, <<>>)
Addmm == [op |-> "addmm", tensors |-> 3, args |-> <<>>, kw |-> [alpha |-> two]]
Attention == Template("efficient", 3, <<Absent, Flag(FALSE), Num("float", 0), Flag(TRUE)>>)
Cudnn == Template("cudnn", 3, <<Absent, Flag(FALSE), Num("float", 0), Flag(TRUE)>>)
Item == Template("getitem", 1, <<>>)

GraphKinds == {
  [input |-> matrix, templates |-> {Relu, Twice, Sum}, nodes |-> 6],
  [input |-> matrix, templates |-> {Relu, Cos, Double, Plus, Sum, Mean, First}, nodes |-> 5],
  [input |-> matrix, templates |-> {Twice, Mean, Mm, Addmm}, nodes |-> 5],
  [input |-> heads, templates |-> {Twice, Sum, Attention, Cudnn, Item}, nodes |-> 5] }
=============================================================================
