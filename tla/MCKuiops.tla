------------------------------ MODULE MCKuiops -----------------------------
(* Calls for TLC: each family at its edges, neighbours in the memo's key and *)
(* in the module names, and calls the predicates decline.                    *)
EXTENDS Kuiops

T(dtype, shape) == Tensor(dtype, shape, RowMajor(shape), TRUE, 0)
Shifted(dtype, shape) == Tensor(dtype, shape, RowMajor(shape), FALSE, 0)   \* an offset view
Transposed(dtype, shape) == Tensor(dtype, shape, <<1, shape[1]>>, TRUE, 0)
Cell(v) == Tensor("f64", <<>>, <<>>, TRUE, v)
Whole(n) == Num("int", n * Unit)
Real(n) == Num("float", n * Unit)
Call(op, args) == [op |-> op, args |-> args, kw |-> [given |-> Absent]]
CallWith(op, args, kw) == [op |-> op, args |-> args, kw |-> kw]
MapOf(op) == [kind |-> "map", op |-> op, c |-> Absent]
MapBy(op, c) == [kind |-> "map", op |-> op, c |-> c]
Attend(op, q, kv, bias, causal) ==
  Call(op, <<q, kv, kv, bias, Flag(FALSE), Num("float", 0), Flag(causal)>>)

mat == <<2, 4>>
\* A 0-dim tensor is a constant of the spec and not of the key.
CellCalls == <<Call("mul", <<T("f32", mat), Cell(2 * Unit)>>), Call("mul", <<T("f32", mat), Cell(3 * Unit)>>)>>

ElementwiseCalls == <<
  Call("relu", <<T("f32", mat)>>), Call("relu", <<T("f16", mat)>>),
  Call("mul", <<T("f32", mat), Whole(2)>>), Call("mul", <<T("f32", mat), Real(3)>>),
  Call("mul", <<T("f32", mat), T("f32", mat)>>), Call("mul", <<T("u32", mat), Whole(2)>>),
  Call("mul", <<T("u32", mat), Num("float", Unit \div 2)>>),
  CallWith("add", <<T("f32", mat), T("f32", mat)>>, [alpha |-> Whole(2)]),
  CallWith("add", <<T("f32", mat), Whole(3)>>, [alpha |-> Whole(2)]),
  Call("add", <<T("f32", mat), Whole(2)>>),
  Call("pow", <<T("f32", mat), Whole(2)>>), Call("pow", <<T("f32", mat), Whole(3)>>),
  Call("le", <<T("f32", mat), Whole(2)>>),
  Call("bitwise_and", <<T("bool", mat), T("bool", mat)>>),
  Call("where", <<T("bool", mat), T("f32", mat), Transposed("f32", mat)>>),
  Call("relu", <<T("f32", <<512, 1024>>)>>), Call("relu", <<T("f32", <<513, 1024>>)>>),
  Call("pow", <<T("f32", mat), Real(2)>>),
  \* A factor of 10^-7, which "%f" prints as zero, and one an integral kernel declines.
  Call("mul", <<T("f32", mat), Num("float", 1)>>), Call("mul", <<T("u32", mat), Num("float", 1)>>),
  CallWith("add", <<T("f32", mat), T("f32", mat)>>, [alpha |-> Num("float", 1)]),
  CallWith("sub", <<T("f32", mat), T("f32", mat)>>, [alpha |-> Whole(2)]),
  Call("sub", <<T("f32", mat), Transposed("f32", mat)>>) >> \o CellCalls

ReduceCalls == <<
  Call("sum", <<T("f32", mat), List(<<Index(-1)>>)>>),
  CallWith("sum", <<T("f32", mat), List(<<Index(1)>>)>>, [keepdim |-> Flag(TRUE)]),
  CallWith("sum", <<T("bool", mat), List(<<Index(1)>>)>>, [dtype |-> Word("bool")]),
  Call("sum", <<T("i32", mat), List(<<Index(1)>>)>>), Call("sum", <<T("f32", mat), List(<<Index(0)>>)>>),
  CallWith("mean", <<T("f32", mat), List(<<Index(1)>>)>>,
           [pre_map |-> List(<<MapBy("pow", Whole(2))>>), post_map |-> List(<<MapBy("add", Whole(1)), MapOf("rsqrt")>>)]),
  Call("mean", <<T("f32", mat), List(<<Index(1)>>)>>),
  CallWith("sum", <<T("u32", mat), List(<<Index(1)>>)>>, [pre_map |-> List(<<MapBy("mul", Num("float", Unit \div 2))>>)]),
  CallWith("sum", <<T("f32", mat), List(<<Index(1)>>)>>, [pre_map |-> List(<<MapOf("cos")>>)]),
  CallWith("sum", <<T("f32", mat), List(<<Index(1)>>)>>, [post_map |-> List(<<MapBy("div", Whole(4))>>)]),
  CallWith("mean", <<T("f32", mat), List(<<Index(1)>>)>>, [post_map |-> List(<<MapBy("add", Num("float", 1))>>)]),
  Call("all", <<T("u8", mat), Index(1)>>), Call("any", <<T("bool", mat), Index(1)>>),
  Call("sum", <<T("f32", <<512, 2047>>), List(<<Index(1)>>)>>),
  Call("sum", <<T("f32", <<513, 4>>), List(<<Index(1)>>)>>),
  Call("sum", <<T("f32", <<2, 0>>), List(<<Index(1)>>)>>) >>

gemm == [A |-> <<128, 32>>, B |-> <<32, 128>>]
GemmCalls == <<
  Call("mm", <<T("bf16", gemm.A), Transposed("bf16", gemm.B)>>),
  Call("mm", <<T("bf16", <<128, 16>>), T("bf16", <<16, 128>>)>>),
  Call("mm", <<T("bf16", <<128, 16>>), Transposed("bf16", <<16, 128>>)>>),
  Call("mm", <<Transposed("bf16", <<64, 16>>), T("bf16", <<16, 64>>)>>),
  Call("mm", <<T("f32", <<64, 32>>), T("f32", <<32, 64>>)>>),
  CallWith("mm", <<T("f32", <<64, 32>>), T("f32", <<32, 64>>)>>, [impl |-> Word("supergemm")]),
  Call("bmm", <<T("bf16", <<2, 32, 64>>), T("bf16", <<2, 64, 32>>)>>),
  Call("bmm", <<T("bf16", <<2, 8192, 64>>), T("bf16", <<2, 64, 32>>)>>),
  Call("addmm", <<T("bf16", <<64, 64>>), T("bf16", <<64, 32>>), T("bf16", <<32, 64>>)>>),
  CallWith("addmm", <<T("bf16", <<64>>), T("bf16", <<64, 32>>), T("bf16", <<32, 64>>)>>, [alpha |-> Whole(2)]),
  Call("addmm", <<T("bf16", <<64, 1>>), T("bf16", <<64, 32>>), T("bf16", <<32, 64>>)>>),
  \* Contiguous operands that do not start on a 16-byte boundary.
  Call("mm", <<Shifted("bf16", gemm.A), Transposed("bf16", gemm.B)>>),
  Call("mm", <<T("bf16", <<128, 16>>), Shifted("bf16", <<16, 128>>)>>),
  Call("addmm", <<Shifted("bf16", <<64, 64>>), T("bf16", <<64, 32>>), T("bf16", <<32, 64>>)>>),
  \* Partial sums in f16, an output of more elements than 32 bits count, and none.
  CallWith("mm", <<T("f16", gemm.A), Transposed("f16", gemm.B)>>, [acc_dtype |-> Word("f16"), impl |-> Word("supergemm_splitk")]),
  Call("mm", <<T("bf16", <<1024, 16>>), T("bf16", <<16, 1024>>)>>), Call("mm", <<T("bf16", <<0, 16>>), T("bf16", <<16, 128>>)>>) >>

MoveCalls == <<
  Call("softmax", <<T("f32", mat), Index(-1), Flag(FALSE)>>),
  Call("softmax", <<T("f32", <<513, 2>>), Index(1), Flag(FALSE)>>),
  Attend("efficient", T("bf16", <<1, 4, 1, 16>>), T("bf16", <<1, 2, 8, 16>>), Absent, FALSE),
  Attend("efficient", T("bf16", <<1, 4, 1, 16>>), T("bf16", <<1, 2, 8, 16>>), T("bf16", <<1, 1, 1, 8>>), FALSE),
  Attend("efficient", T("bf16", <<1, 4, 1, 16>>), T("bf16", <<1, 2, 8, 16>>), T("bf16", <<1, 4, 1, 8>>), FALSE),
  Attend("efficient", T("bf16", <<1, 4, 8, 16>>), T("bf16", <<1, 2, 8, 16>>), Absent, TRUE),
  Attend("efficient", T("bf16", <<1, 4, 8, 16>>), T("bf16", <<1, 2, 16, 16>>), Absent, TRUE),
  Attend("cudnn", T("bf16", <<1, 512, 256, 16>>), T("bf16", <<1, 1, 256, 16>>), Absent, FALSE),
  Attend("efficient", T("bf16", <<2, 4, 512, 32>>), T("bf16", <<2, 2, 512, 32>>), Absent, FALSE),
  Attend("efficient", T("bf16", <<1, 1, 16, 512>>), T("bf16", <<1, 1, 16, 512>>), Absent, FALSE),
  Call("gather", <<T("f32", <<4, 4>>), Index(1), T("i64", mat)>>),
  Call("gather", <<T("f32", <<4, 4>>), Index(0), T("i64", mat)>>),
  Call("gather", <<T("f32", <<1024, 1024>>), Index(1), T("i64", mat)>>),
  Call("gather", <<T("f32", <<2, 1, 1, 1, 1>>), Index(0), T("i64", <<1, 1, 1, 1, 1>>)>>),
  Call("scatter", <<T("f32", <<4, 4>>), Index(-1), T("i64", mat), T("f32", mat)>>),
  Call("cat", <<List(<<T("f32", mat), T("f32", <<2, 1>>)>>), Index(-1)>>),
  Call("cat", <<List(<<T("f32", mat), T("f32", mat)>>)>>), Call("cat", <<List(<<T("f32", mat), T("f32", <<2, 0>>)>>), Index(1)>>),
  Call("cat", <<List(<<T("f32", mat), T("f32", mat), T("f32", mat)>>)>>) >>

AllCalls == ElementwiseCalls \o ReduceCalls \o GemmCalls \o MoveCalls
=============================================================================
