---------------------------- MODULE MoveFamilies ---------------------------
(***************************************************************************)
(* Row softmax, attention, and the kernels that only move elements: gather,*)
(* scatter and cat.                                                        *)
(***************************************************************************)
EXTENDS Tensors

MoveOps == {"gather", "scatter", "cat"}
SdpaOps == {"efficient", "cudnn"}

SdpaShmem == 101376
Divisible(n, d) == n % d = 0

-----------------------------------------------------------------------------
(* Row softmax, along the last axis *)

SoftmaxSpecs(c) ==
  LET X == c.args[1]
      rank == Len(X.shape)
      n == X.shape[rank]
      m == IF n = 0 THEN 0 ELSE Numel(X) \div n
  IN
  IF \/ X.dtype \notin FloatDtypes \/ c.args[3].val
     \/ rank < 1 \/ NormDim(c.args[2].val, rank) # rank - 1
     \/ m \notin 1..MaxBlocks \/ m * n > MaxNumel THEN {}
  ELSE {[family |-> "softmax", dtype |-> X.dtype, rows |-> m, cols |-> n]}

\* Kuiops.Softmax: rows are blocks, rows * cols an array it can address.
SoftmaxAccepts(s) ==
  s.rows \in 1..MaxBlocks /\ s.cols > 0 /\ s.rows * s.cols <= MaxNumel

-----------------------------------------------------------------------------
(* Attention: query, key, value, mask, compute_log_sumexp, dropout_p,        *)
(* is_causal, return_debug_mask, and scale by keyword                        *)

\* Bytes of shared memory of a block of nw warps.
Shmem(nw, d) ==
  32 * d + 64 * nw * d + 2048 * nw + 512 * nw + 256 * nw + 64 * nw * d + 128

\* The largest warp count that fits, None if none does.
ChooseNw(d) ==
  LET fits == {nw \in {4, 2, 1} : nw * 32 <= MaxThreads /\ Shmem(nw, d) <= SdpaShmem}
  IN  IF fits = {} THEN None ELSE CHOOSE nw \in fits : \A other \in fits : other <= nw

\* The layout the mask is read through, None for one that has no kernel.
MaskLayout(bias, b, hq, sq, sk) ==
  CASE bias = Absent -> "none"
    [] bias # Absent /\ bias.shape = <<b, hq, sq, sk>> -> "dense"
    [] bias # Absent /\ bias.shape # <<b, hq, sq, sk>> /\ bias.shape = <<1, 1, 1, sk>> -> "keys"
    [] OTHER -> None

\* Sizes the instantiation computes with.
SdpaSizes(b, hq, hkv, sq, sk, d, nw) ==
  LET group == hq \div hkv
      rows == group * sq
      tiles == (rows + 15) \div 16
  IN  {rows + 15, tiles * 16, hkv * group + rows, b * hq * sq * d, b * hkv * sk * d, b * hq * sq * sk,
       16 * d + nw * 32, 16 * d + 32, nw * 16 * 16, nw * 16 * d, sk + 32 + nw}

SdpaSpecs(c) ==
  LET Q == c.args[1]  K == c.args[2]  V == c.args[3]  bias == c.args[4]
      tensors == {c.args[i] : i \in {i \in 1..4 : c.args[i] # Absent}}
      b == Q.shape[1]  hq == Q.shape[2]  sq == Q.shape[3]  d == Q.shape[4]
      hkv == K.shape[2]  sk == K.shape[3]
      nw == ChooseNw(d)
      mask == MaskLayout(bias, b, hq, sq, sk)
      declined ==
        \/ Len(c.args) < 5
        \/ c.op = "cudnn" /\ Argument(c, 8, "return_debug_mask", Flag(FALSE)).val
        \/ c.args[5].val \/ Argument(c, 6, "dropout_p", Num("float", 0)).val # 0
        \/ \E t \in tensors : ~IsTensor(t) \/ Len(t.shape) # 4 \/ ~IsContiguous(t) \/ t.dtype # Q.dtype
        \/ Q.dtype \notin {"bf16", "f16"}
        \/ V.shape # K.shape \/ mask = None
        \/ b # K.shape[1] \/ d # K.shape[4] \/ \E n \in {b, hq, hkv, sq, sk, d} : n <= 0
        \/ ~Divisible(d, 16) \/ ~Divisible(hq, hkv) \/ sq > sk
        \/ b * hkv * (((hq \div hkv) * sq + 15) \div 16) > MaxBlocks
        \/ nw = None
        \/ \E n \in SdpaSizes(b, hq, hkv, sq, sk, d, nw) : n >= U32
  IN
  IF declined THEN {}
  ELSE {[family |-> "sdpa", dtype |-> Q.dtype, nw |-> nw, variant |-> c.op, mask |-> mask,
         causal |-> Argument(c, 7, "is_causal", Flag(FALSE)).val,
         scale |-> LET scale == Keyword(c, "scale", Absent)
                   IN  IF scale = Absent THEN <<"1/sqrt", d>> ELSE <<"c", scale.val>>]}

SdpaName(s) == <<"Sdpa", s.dtype, s.mask>>
SdpaKernel(s) == [et |-> s.dtype, mask |-> s.mask]

\* The axes an axis-wise lookup in a tensor of these sizes depends on.
LiveAxes(shape, axes) == {i \in axes : shape[i] # 1}

\* Which cell of the mask a score gets, which keys a query sees, and the scale;
\* s carries what the launch passes.
SdpaTerm(k, s, c) ==
  LET full == <<c.args[1].shape[1], c.args[1].shape[2], c.args[1].shape[3], c.args[2].shape[3]>>
  IN  <<"attention", s.scale,
        CASE k.mask = "none" -> <<"unmasked">>
          [] k.mask = "dense" -> <<"masked", LiveAxes(full, 1..4)>>
          [] OTHER -> <<"masked", LiveAxes(full, {4})>>,
        IF s.causal THEN <<"last key", full[4] - full[3]>> ELSE <<"every key">> >>
\* is_causal masks as torch.tril does, from the top left corner.
SdpaMeaning(c) ==
  LET bias == c.args[4]
      scale == Keyword(c, "scale", Absent)
  IN  <<"attention", IF scale = Absent THEN <<"1/sqrt", c.args[1].shape[4]>> ELSE <<"c", scale.val>>,
        IF bias = Absent THEN <<"unmasked">> ELSE <<"masked", LiveAxes(bias.shape, 1..4)>>,
        IF Argument(c, 7, "is_causal", Flag(FALSE)).val THEN <<"last key", 0>> ELSE <<"every key">> >>

\* The refinements of Kuiops.Sdpa.Flash.Inst.
SdpaAccepts(s, c) ==
  LET Q == c.args[1]  K == c.args[2]
      b == Q.shape[1]  hq == Q.shape[2]  sq == Q.shape[3]  d == Q.shape[4]
      hkv == K.shape[2]  sk == K.shape[3]
      rows == (hq \div hkv) * sq
      tiles == (rows + 15) \div 16
      nthr == s.nw * 32
  IN
  /\ \A n \in {b, hq, hkv, sq, sk, d} : n > 0
  /\ b * hkv * tiles <= MaxBlocks /\ nthr <= MaxThreads
  /\ hq = hkv * (hq \div hkv) /\ Divisible(d, 16) /\ sq <= sk
  /\ \A n \in {rows + 15, tiles * 16, hq + rows,
               sq * d, hq * (sq * d), b * (hq * (sq * d)),
               sk * d, hkv * (sk * d), b * (hkv * (sk * d)),
               sq * sk, hq * (sq * sk), b * (hq * (sq * sk)),
               16 * d, s.nw * 16, s.nw * 256, s.nw * 16 * d, 16 * d + nthr, 16 * d + 32,
               sk + 32, sk + 32 + s.nw} : n < U32
  /\ Shmem(s.nw, d) <= SdpaShmem

-----------------------------------------------------------------------------
(* Gather, scatter, cat: one module per element type, rank and axis *)

MoveSpec(family, t, dim) ==
  [family |-> family, dtype |-> t.dtype, rank |-> Len(t.shape), dim |-> NormDim(dim, Len(t.shape))]

\* gather(self, dim, index, *, sparse_grad) and scatter(self, dim, index, src).
IndexedSpecs(c) ==
  LET X == c.args[1]  dim == c.args[2].val  I == c.args[3]
      source == IF c.op = "scatter" THEN c.args[4] ELSE I   \* the shape the index runs over
  IN
  {s \in {MoveSpec(c.op, X, dim)} :
     /\ ~Keyword(c, "sparse_grad", Flag(FALSE)).val
     /\ I.dtype = "i64"
     /\ c.op = "scatter" => source.dtype = X.dtype
     /\ s.rank >= 1 /\ s.dim \in 0..(s.rank - 1)
     /\ source.shape = I.shape /\ ShapeLe(I.shape, X.shape)
     /\ Numel(I) \in 1..MaxNumel}

\* cat(tensors, dim)
CatSpecs(c) ==
  LET tensors == c.args[1].items
      A == tensors[1]  B == tensors[2]
      rank == Len(A.shape)
      dim == NormDim(Argument(c, 2, "dim", Index(0)).val, rank)
  IN
  IF Len(tensors) # 2 THEN {}
  ELSE {s \in {MoveSpec("cat", A, dim)} :
          /\ A.dtype = B.dtype /\ Len(B.shape) = rank /\ rank >= 1 /\ dim \in 0..(rank - 1)
          /\ \A i \in 1..rank : i # dim + 1 => A.shape[i] = B.shape[i]
          /\ Numel(A) + Numel(B) \in 1..MaxNumel}

MoveName(s) == <<s.family, FStar(s.dtype), s.rank, s.dim>>
MoveKernel(s) == [family |-> s.family, et |-> FStar(s.dtype), rank |-> s.rank, axis |-> s.dim]

MoveTerm(k) == <<k.family, k.axis>>
MoveMeaning(c) ==
  LET shape == IF c.op = "cat" THEN c.args[1].items[1].shape ELSE c.args[1].shape
      dim == IF c.op = "cat" THEN Argument(c, 2, "dim", Index(0)).val ELSE c.args[2].val
  IN  <<c.op, NormDim(dim, Len(shape))>>

Sizes(shape) == (\A i \in DOMAIN shape : shape[i] > 0) /\ Product(shape) < U32

\* The templates know ranks 1 to 4, and every size they pass is positive.
MoveAccepts(c) ==
  /\ c.op = "cat" =>
       /\ Sizes(c.args[1].items[1].shape) /\ Sizes(c.args[1].items[2].shape)
       /\ Len(c.args[1].items[1].shape) \in 1..4
  /\ c.op # "cat" =>
       /\ Sizes(c.args[1].shape) /\ Sizes(c.args[3].shape) /\ Len(c.args[1].shape) \in 1..4
       /\ ShapeLe(c.args[3].shape, c.args[1].shape) /\ Numel(c.args[3]) <= MaxNumel
=============================================================================
