----------------------------- MODULE GemmTiles -----------------------------
(***************************************************************************)
(* What mm, bmm and addmm can run: the backends a call admits, the tilings *)
(* listed for each, and the contract of the verified kernel behind it.     *)
(*                                                                         *)
(* A list of tilings in preference order is a set and the rank that orders *)
(* it.  A tiling is a record of the tuning parameters the template gets.   *)
(***************************************************************************)
EXTENDS Tensors

CONSTANT TcTypes   \* tensor-core input types the device supports

ASSUME TcAssumption == TcTypes \subseteq {"f16", "bf16"}

ShmemBytes == 101376
Warp == 32
Frag == 16
RegBudget == 224
PreferredWarps == 8

Divides(d, n) == n % d = 0
Chunk(et) == 16 \div ItemSize[et]
Distance(m, n) == IF m < n THEN n - m ELSE m - n

-----------------------------------------------------------------------------
(* Tilings.  An operand triple ty has the fields in, acc and out. *)

Bt2dTiles(ty, M, N, K) ==
  {t \in [bm : {128, 64, 32}, bn : {128, 64, 32}, bk : {64, 32}, tm : {16, 8}, tn : {16, 8}] :
     LET chunk == Chunk(ty.in)
         threads == (t.bm \div t.tm) * (t.bn \div t.tn)
         fill == chunk * threads
     IN
     /\ Divides(t.bm, M) /\ Divides(t.bn, N) /\ Divides(t.bk, K)
     /\ Divides(chunk, t.bn) /\ Divides(chunk, t.bk)
     /\ ItemSize[ty.in] * (t.bm * t.bk + t.bk * t.bn) <= ShmemBytes
     /\ Divides(t.tm, t.bm) /\ Divides(t.tn, t.bn)
     /\ threads <= MaxThreads
     /\ Divides(fill, t.bm * t.bk) /\ Divides(fill, t.bk * t.bn)}

\* Registers the fragments of one warp occupy; wm and wn count fragments.
FragRegs(wm, wn) == wm * wn * 8 + (wm + wn) * 4

Tc2dWarps(t) == (t.bm \div (t.wm * Frag)) * (t.bn \div (t.wn * Frag))

Tc2dTiles(ty, M, N, K) ==
  {t \in [bm : {128, 64}, bn : {128, 64}, bk : {32, 64, 16}, tm : {Frag}, tn : {Frag},
          tk : {Frag}, wm : {8, 4, 2, 16}, wn : {4, 8, 2, 16}] :
     LET chunk == Chunk(ty.in)
         fill == chunk * Tc2dWarps(t) * Warp
     IN
     /\ Divides(t.bm, M) /\ Divides(t.bn, N) /\ Divides(t.bk, K)
     /\ Divides(chunk, t.bn) /\ Divides(chunk, t.bk)
     /\ 2 * (t.bm * t.bk + t.bk * t.bn) <= ShmemBytes
     /\ Divides(t.wm * Frag, t.bm) /\ Divides(t.wn * Frag, t.bn)
     /\ Tc2dWarps(t) * Warp <= MaxThreads
     /\ Divides(fill, t.bm * t.bk) /\ Divides(fill, t.bk * t.bn)}

\* SuperGEMM's warp tile wm x wn is in elements.
SuperWarps(t) == (t.bm \div t.wm) * (t.bn \div t.wn)

SuperShapes(ty) ==
  [bm : {128, 64}, bn : {128, 64}, bk : {32, 64, 16}, wm : {64, 32, 16, 128},
   wn : {64, 32, 16, 128}, skew : {Chunk(ty.in)}, group : {1}]

\* What the two SuperGEMM enumerations filter in the same words: k is the
\* extent the k loop runs over, scratch the bytes of the epilogue's tile.
SuperFits(t, ty, M, N, k, scratch) ==
  LET chunk == Chunk(ty.in)
      fill == chunk * SuperWarps(t) * Warp
  IN
  /\ Divides(t.bm, M) /\ Divides(t.bn, N) /\ Divides(t.bk, k)
  /\ Divides(Frag, t.bk) /\ Divides(chunk, t.bk)
  /\ Divides(Frag, t.wm) /\ Divides(t.wm, t.bm)
  /\ Divides(Frag, t.wn) /\ Divides(t.wn, t.bn)
  /\ SuperWarps(t) * Warp <= MaxThreads
  /\ Divides(fill, t.bm * t.bk) /\ Divides(fill, t.bn * t.bk) /\ Divides(t.bk, fill)
  /\ 2 * (t.bm + t.bn) * (t.bk + t.skew) * ItemSize[ty.in] + scratch <= ShmemBytes
  /\ FragRegs(t.wm \div Frag, t.wn \div Frag) <= RegBudget

SuperScratch(t, ty) == SuperWarps(t) * Frag * (t.wn + Chunk(ty.acc)) * ItemSize[ty.acc]

\* Mutant: the epilogue's scratch tile is left out of the budget.
SuperGemmTilesNoScratch(ty, M, N, K) ==
  {t \in SuperShapes(ty) : Divides(Chunk(ty.out), N) /\ SuperFits(t, ty, M, N, K, 0)}
SuperGemmTiles(ty, M, N, K) ==
  {t \in SuperShapes(ty) :
     Divides(Chunk(ty.out), N) /\ SuperFits(t, ty, M, N, K, SuperScratch(t, ty))}

Splits == {2, 3, 4, 5, 6, 7, 8, 9, 10, 12, 14, 16}

Split(t, n) == [bm |-> t.bm, bn |-> t.bn, bk |-> t.bk, wm |-> t.wm, wn |-> t.wn,
                skew |-> t.skew, group |-> t.group, splits |-> n]

SplitKTiles(ty, M, N, K) ==
  IF /\ Divides(Chunk(ty.out), N) /\ Divides(Chunk(ty.acc), Chunk(ty.out))
     /\ M * (N \div Chunk(ty.out)) <= MaxBlocks * MaxThreads
  THEN UNION {LET ks == K \div n IN
              {Split(t, n) : t \in {t \in SuperShapes(ty) :
                 /\ n * (M \div t.bm) * (N \div t.bn) <= MaxBlocks
                 /\ t.bk <= ks /\ Divides(Chunk(ty.in), ks)
                 /\ SuperFits(t, ty, M, N, ks, 0)}} :
              n \in {n \in Splits : Divides(n, K)}}
  ELSE {}

\* How the enumerations order the warp shapes of one block shape.  Tc2d lists
\* also tilings whose fragments spill, last.
Rank(backend, t) ==
  CASE backend = "tc2d_to" ->
         <<IF FragRegs(t.wm, t.wn) > RegBudget THEN 1 ELSE 0, Distance(Tc2dWarps(t), PreferredWarps), -t.wn>>
    [] backend = "bt2d" -> <<0, -t.tm, -t.tn>>
    [] OTHER -> <<0, Distance(SuperWarps(t), PreferredWarps), -t.wn>>

\* The place of a block shape in the loops: larger bm and bn first, bk as
\* listed, fewer splits before more.
BlockRank(backend, t) ==
  LET bks == IF backend = "bt2d" THEN <<64, 32>> ELSE <<32, 64, 16>>
  IN  <<IF "splits" \in DOMAIN t THEN t.splits ELSE 1, -t.bm, -t.bn,
        CHOOSE i \in DOMAIN bks : bks[i] = t.bk>>

Before(r, s) ==
  \E i \in DOMAIN r : r[i] < s[i] /\ \A j \in 1..(i - 1) : r[j] = s[j]

SplitBackends == {"supergemm_splitk", "supergemm_splitk_epi"}
\* _TN_BACKENDS, which are also _CPASYNC_BACKENDS.
TnBackends == {"supergemm"} \cup SplitBackends

Grid(t, batch, M, N) ==
  batch * (IF "splits" \in DOMAIN t THEN t.splits ELSE 1) * (M \div t.bm) * (N \div t.bn)

Tiles(backend, ty, batch, M, N, K) ==
  {t \in CASE backend = "bt2d" -> Bt2dTiles(ty, M, N, K)
           [] backend = "supergemm" -> SuperGemmTiles(ty, M, N, K)
           [] backend \in SplitBackends -> SplitKTiles(ty, M, N, K)
           [] OTHER -> Tc2dTiles(ty, M, N, K) :
     Grid(t, batch, M, N) <= MaxBlocks}

-----------------------------------------------------------------------------
(* Plans: backend and element types *)

VecCopyTypes == {"f16", "f32", "bf16"}

BackendSupports(backend, ty) ==
  IF backend = "bt2d"
  THEN ty.in \in VecCopyTypes /\ ty.acc = ty.in /\ ty.out = ty.in
  ELSE /\ ty.in \in TcTypes
       /\ ty.acc \in IF ty.in = "f16" THEN {"f16", "f32"} ELSE {"f32"}
       /\ ty.out \in VecCopyTypes

\* The element types a call asks of a backend.
TypesFor(c, backend, in) ==
  [in  |-> in,
   acc |-> Keyword(c, "acc_dtype", Word(IF backend = "bt2d" THEN in ELSE "f32")).val,
   out |-> Keyword(c, "out_dtype", Word(in)).val]

Plans(c, backends, in) ==
  {p \in {[backend |-> b, ty |-> TypesFor(c, b, in)] : b \in backends} :
     /\ Keyword(c, "impl", Word(p.backend)).val = p.backend
     /\ BackendSupports(p.backend, p.ty)}

\* B exactly as a transposed-B kernel takes it: column-major, aligned.
ColumnMajor(B, K) == B.stride = <<1, K>> /\ B.aligned

\* _tn_filtered, then _a_aligned_filtered.
OperandBackends(backends, A, B, K) ==
  {b \in backends : b \in TnBackends => ColumnMajor(B, K) /\ A.aligned}

TnOutOk(backend, N, out) == backend \in TnBackends => Divides(Chunk(out), N)

-----------------------------------------------------------------------------
(* The specs supported() lists for a call *)

GemmSpecs(op, c, backends, batch, M, N, K, cbcast) ==
  UNION {{[family |-> op, backend |-> p.backend, ty |-> p.ty, tile |-> t, cbcast |-> cbcast] :
          t \in Tiles(p.backend, p.ty, batch, M, N, K)} :
         p \in {p \in Plans(c, backends, c.args[Len(c.args)].dtype) : TnOutOk(p.backend, N, p.ty.out)}}

Matrices(A, B, rank) ==
  /\ Len(A.shape) = rank /\ Len(B.shape) = rank /\ A.dtype = B.dtype
  /\ A.shape[rank] = B.shape[rank - 1]

MmBackends == {"supergemm", "tc2d_to", "bt2d", "supergemm_splitk"}

MmSpecs(c) ==
  LET A == c.args[1]  B == c.args[2] IN
  IF ~Matrices(A, B, 2) THEN {}
  ELSE GemmSpecs("mm", c, OperandBackends(MmBackends, A, B, A.shape[2]), 1,
                 A.shape[1], B.shape[2], A.shape[2], FALSE)

BmmSpecs(c) ==
  LET A == c.args[1]  B == c.args[2] IN
  IF \/ ~Matrices(A, B, 3) \/ A.shape[1] # B.shape[1]
     \/ Numel(A) >= U32 \/ Numel(B) >= U32 \/ A.shape[1] * A.shape[2] * B.shape[3] >= U32
  THEN {}
  ELSE GemmSpecs("bmm", c, {"bt2d"}, A.shape[1], A.shape[2], B.shape[3], A.shape[3], FALSE)

AddmmBackends == {"supergemm", "tc2d_to", "bt2d", "supergemm_splitk_epi"}

\* bt2d updates a copy of C in place, so it needs a cell per output element.
AddmmSpecs(c) ==
  LET C == c.args[1]  A == c.args[2]  B == c.args[3] IN
  IF ~Matrices(A, B, 2) \/ Scalar(Keyword(c, "alpha", Num("int", Unit))) = None
                        \/ Scalar(Keyword(c, "beta", Num("int", Unit))) = None THEN {}
  ELSE LET M == A.shape[1]  K == A.shape[2]  N == B.shape[2]
           specs(backends, cbcast) ==
             {s \in GemmSpecs("addmm", c, OperandBackends(backends, A, B, K), 1, M, N, K, cbcast) :
                C.dtype = s.ty.out}
       IN  CASE C.shape = <<M, N>> -> specs(AddmmBackends, FALSE)
             [] C.shape # <<M, N>> /\ C.shape \in {<<N>>, <<1, N>>} -> specs(AddmmBackends \ {"bt2d"}, TRUE)
             [] OTHER -> {}

\* The candidate an untuned call takes: the first backend with a tiling, and
\* its first tiling.
BackendOrder == <<"supergemm", "tc2d_to", "bt2d", "supergemm_splitk", "supergemm_splitk_epi">>
FirstSpec(specs) ==
  LET place(s) == CHOOSE i \in DOMAIN BackendOrder : BackendOrder[i] = s.backend
      rank(s) == <<place(s)>> \o BlockRank(s.backend, s.tile) \o Rank(s.backend, s.tile)
  IN  CHOOSE s \in specs : \A other \in specs : ~Before(rank(other), rank(s))

-----------------------------------------------------------------------------
(* Modules and kernels *)

\* Batched products exist at one backend and one type throughout.
GemmName(s) ==
  IF s.family = "bmm" THEN <<"bmm", s.ty.in, s.tile>>
  ELSE <<s.family, s.backend, s.cbcast, s.ty.in, s.ty.acc, s.ty.out, s.tile>>
GemmKernel(s) == s   \* the templates get the whole spec

\* The axes of C the result's index selects by.
GemmTerm(s, c) ==
  IF s.family # "addmm" THEN <<s.family>>
  ELSE LET M == c.args[2].shape[1]  N == c.args[3].shape[2]
           axes == IF s.cbcast THEN {2} ELSE {1, 2}
       IN  <<"addmm", {i \in axes : <<M, N>>[i] # 1}, Scalar(Keyword(c, "alpha", Num("int", Unit))).val,
             Scalar(Keyword(c, "beta", Num("int", Unit))).val>>
\* C is broadcast from the right.
GemmMeaning(c) ==
  IF c.op # "addmm" THEN <<c.op>>
  ELSE LET shape == IF Len(c.args[1].shape) = 1 THEN <<1>> \o c.args[1].shape ELSE c.args[1].shape
       IN  <<"addmm", {i \in 1..2 : shape[i] # 1}, Scalar(Keyword(c, "alpha", Num("int", Unit))).val,
             Scalar(Keyword(c, "beta", Num("int", Unit))).val>>

\* What the wrappers of the transposed-B backends check again before a launch.
WrapperRefuses(s, c) ==
  LET A == c.args[Len(c.args) - 1]  B == c.args[Len(c.args)] IN
  s.backend \in TnBackends /\ ~(ColumnMajor(B, A.shape[2]) /\ AlignedAfterContiguous(A))

-----------------------------------------------------------------------------
(* The kernels' contracts, from their F* interfaces *)

\* Kuiops.SuperGEMM.Mm.Params.constraints and Stage.geo_ok; k is the extent of
\* the k loop.
SuperContract(t, ty, M, N, k) ==
  LET chunk == Chunk(ty.in)
      nthr == SuperWarps(t) * Warp
      geo(rows) == Divides(chunk, t.bk) /\ Divides(t.bk, chunk * nthr) /\ Divides(chunk * nthr, rows * t.bk)
  IN
  /\ Divides(t.wm, t.bm) /\ Divides(t.wn, t.bn)
  /\ Divides(Frag, t.wm) /\ Divides(Frag, t.wn) /\ Divides(Frag, t.bk)
  /\ Divides(chunk, t.skew) /\ geo(t.bm) /\ geo(t.bn)
  /\ nthr <= MaxThreads
  /\ Divides(t.bm, M) /\ Divides(t.bn, N) /\ Divides(t.bk, k) /\ t.bk <= k
  /\ Divides(Chunk(ty.out), N)

Bt2dContract(t, ty, M, N, k) ==
  LET fill == Chunk(ty.in) * (t.bm \div t.tm) * (t.bn \div t.tn) IN
  /\ Divides(Chunk(ty.in), t.bn) /\ Divides(Chunk(ty.in), t.bk)
  /\ Divides(t.tm, t.bm) /\ Divides(t.tn, t.bn)
  /\ (t.bm \div t.tm) * (t.bn \div t.tn) <= MaxThreads
  /\ Divides(fill, t.bm * t.bk) /\ Divides(fill, t.bk * t.bn)
  /\ Divides(t.bm, M) /\ Divides(t.bn, N) /\ Divides(t.bk, k)

Tc2dContract(t, ty, M, N, k) ==
  LET fill == Chunk(ty.in) * Tc2dWarps(t) * Warp IN
  /\ Divides(Chunk(ty.in), t.bk) /\ Divides(Chunk(ty.in), t.bn)
  /\ Divides(t.wm * t.tm, t.bm) /\ Divides(t.wn * t.tn, t.bn) /\ Divides(t.tk, t.bk)
  /\ Divides(fill, t.bm * t.bk) /\ Divides(fill, t.bk * t.bn)
  /\ Divides(Chunk(ty.out), t.tn) /\ Divides(Chunk(ty.out), N)
  /\ Tc2dWarps(t) * Warp <= MaxThreads
  /\ Divides(t.bm, M) /\ Divides(t.bn, N) /\ Divides(t.bk, k)

\* What the kernel behind a spec requires of the tiling.
TileContract(s, M, N, K) ==
  CASE s.backend = "bt2d" -> Bt2dContract(s.tile, s.ty, M, N, K)
    [] s.backend = "tc2d_to" -> Tc2dContract(s.tile, s.ty, M, N, K)
    [] s.backend = "supergemm" -> SuperContract(s.tile, s.ty, M, N, K)
    [] OTHER -> /\ Divides(s.tile.splits, K) /\ Divides(Chunk(s.ty.acc), Chunk(s.ty.out))
                /\ SuperContract(s.tile, s.ty, M, N, K \div s.tile.splits)

\* What it requires of the operands: vector copies of A and B, and of C where
\* tc2d_to combines into it; 32-bit sizes; an f32 workspace.
GemmAccepts(s, c) ==
  LET A == c.args[Len(c.args) - 1]  B == c.args[Len(c.args)]
      rank == Len(A.shape)
      batch == IF rank = 3 THEN A.shape[1] ELSE 1
      M == A.shape[rank - 1]  K == A.shape[rank]  N == B.shape[rank]
  IN
  /\ \A n \in {batch, M, N, K} : n > 0
  /\ \A n \in {batch * M * K, batch * K * N, batch * M * N} : n < U32
  /\ AlignedAfterContiguous(A)
  /\ IF s.backend \in TnBackends THEN ColumnMajor(B, K) ELSE AlignedAfterContiguous(B)
  /\ s.backend = "tc2d_to" /\ s.family = "addmm" => AlignedAfterContiguous(c.args[1])
  /\ s.backend \in SplitBackends => s.ty.acc = "f32"
  /\ TileContract(s, M, N, K)

\* Shared memory a block allocates, in bytes.
SharedMemory(backend, t, ty) ==
  CASE backend = "bt2d" -> ItemSize[ty.in] * (t.bm + t.bn) * t.bk
    [] backend = "tc2d_to" -> ItemSize[ty.in] * (t.bm + t.bn) * t.bk
    [] OTHER -> 2 * (t.bm + t.bn) * (t.bk + t.skew) * ItemSize[ty.in]
                + (IF backend = "supergemm" THEN SuperScratch(t, ty) ELSE 0)
=============================================================================
