------------------------------ MODULE Tensors ------------------------------
(***************************************************************************)
(* Arguments of an ATen call as kuipy.kuiops inspects them.                *)
(*                                                                         *)
(* A tensor keeps its metadata and whether its pointer is 16-byte aligned; *)
(* of the elements only the value of a 0-dim tensor matters.  Numbers are  *)
(* counted in units of 10^-7, so that what "%f" drops can be seen.  Every  *)
(* tensor is on one CUDA device.                                           *)
(***************************************************************************)
EXTENDS Integers, FiniteSets, Sequences, SequencesExt

CONSTANTS
  None,       \* Python's None
  U32,        \* 2^32, the bound of Kuiper's SizeT; scaled down for TLC
  MaxBlocks   \* _MAX_BLOCKS, scaled down likewise

MaxThreads == 1024
MaxNumel == MaxBlocks * MaxThreads   \* _MAX_NUMEL

ASSUME SizeAssumption ==
  /\ U32 \in Nat /\ MaxBlocks \in Nat \ {0}
  /\ MaxBlocks * MaxThreads < U32   \* 2^31 and 2^32 in the code

Unit == 10000000   \* the number 1

-----------------------------------------------------------------------------
(* Element types.  Those of the code's tables are strings here; the tables    *)
(* that rename them for F*, C++ and libtorch are injective but for torch.bool. *)

FloatDtypes == {"f16", "f32", "f64", "bf16"}
SignedDtypes == {"i8", "i16", "i32", "i64"}
UnsignedDtypes == {"bool", "u8", "u16", "u32", "u64"}
\* Types with Kuiper's scalar typeclass.
ScalarDtypes == FloatDtypes \cup {"u16", "u32", "u64"}

ItemSize == [f16 |-> 2, bf16 |-> 2, f32 |-> 4, f64 |-> 8,
             i8 |-> 1, i16 |-> 2, i32 |-> 4, i64 |-> 8,
             bool |-> 1, u8 |-> 1, u16 |-> 2, u32 |-> 4, u64 |-> 8]

\* F* has no bool buffers: a torch.bool is a byte.
FStar(dtype) == IF dtype = "bool" THEN "u8" ELSE dtype

-----------------------------------------------------------------------------
(* Arguments *)

Tensor(dtype, shape, stride, aligned, val) ==
  [kind |-> "tensor", dtype |-> dtype, shape |-> shape, stride |-> stride,
   aligned |-> aligned, val |-> val]
Num(kind, val) == [kind |-> kind, val |-> val]   \* "int" or "float"
Index(n) == [kind |-> "index", val |-> n]   \* an axis
Flag(b) == [kind |-> "flag", val |-> b]
Word(w) == [kind |-> "word", val |-> w]          \* a dtype or a backend name
List(items) == [kind |-> "list", items |-> items]
Absent == [kind |-> "none"]

\* What an argument may be; an entry of a map list is an op and a constant.
Numbers == [kind : {"int", "float"}, val : Int]
MapEntries == [kind : {"map"}, op : STRING, c : Numbers \cup {Absent}]
Simple == [kind : {"tensor"}, dtype : FloatDtypes \cup SignedDtypes \cup UnsignedDtypes,
           shape : Seq(Nat), stride : Seq(Nat), aligned : BOOLEAN, val : Int]
            \cup Numbers \cup MapEntries \cup {Absent}
            \cup [kind : {"index"}, val : Int] \cup [kind : {"flag"}, val : BOOLEAN]
            \cup [kind : {"word"}, val : STRING]
Arguments == Simple \cup [kind : {"list"}, items : Seq(Simple)]

\* None is no number.
ASSUME NoneAssumption == None \notin Numbers

\* A call of op with positional and keyword arguments.
IsCall(c) ==
  /\ c = [op |-> c.op, args |-> c.args, kw |-> c.kw]
  /\ c.args \in Seq(Arguments)
  /\ c.kw \in [DOMAIN c.kw -> Arguments]

IsTensor(x) == x.kind = "tensor"

Product(dims) ==
  LET upTo[i \in 0..Len(dims)] == IF i = 0 THEN 1 ELSE upTo[i - 1] * dims[i]
  IN  upTo[Len(dims)]
Numel(t) == Product(t.shape)

RowMajor(shape) == [i \in DOMAIN shape |-> Product(SubSeq(shape, i + 1, Len(shape)))]
IsContiguous(t) ==
  Numel(t) = 0 \/ \A i \in DOMAIN t.shape : t.shape[i] = 1 \/ t.stride[i] = RowMajor(t.shape)[i]

\* .contiguous() copies, into aligned memory, only what is not contiguous.
AlignedAfterContiguous(t) == t.aligned \/ ~IsContiguous(t)

\* _scalar: the number an argument stands for.
Scalar(x) ==
  IF x.kind \in {"int", "float"} THEN x
  ELSE IF IsTensor(x) /\ x.shape = <<>> /\ x.dtype = "f64" THEN Num("float", x.val)
  ELSE None

\* A keyword argument of a call, or its default.
Keyword(c, name, default) == IF name \in DOMAIN c.kw THEN c.kw[name] ELSE default
\* A positional argument that may be given by keyword or left out.
Argument(c, i, name, default) == IF i \in DOMAIN c.args THEN c.args[i] ELSE Keyword(c, name, default)

NormDim(d, rank) == IF d < 0 THEN d + rank ELSE d
ShapeLe(small, large) == Len(small) = Len(large) /\ \A i \in DOMAIN small : small[i] <= large[i]
=============================================================================
