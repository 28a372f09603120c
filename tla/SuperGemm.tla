----------------------------- MODULE SuperGemm -----------------------------
(***************************************************************************)
(* One block of the software-pipelined tensor-core GEMM                    *)
(* (src/kuiops/common/supergemm/mm): the K loop of KLoop.kloop with its    *)
(* two shared buffers, the cp.async copies of Stage.stage_tiles, the one   *)
(* __syncthreads per K tile, and Epilogue.epilogue with its two            *)
(* __syncwarps per band.                                                   *)
(*                                                                         *)
(* The F* text proves ownership of memory with ghost state.  This module   *)
(* keeps only what the emitted CUDA executes and lets the threads and the  *)
(* copies run in every order the hardware may choose:                      *)
(*   - an asynchronous copy lands at any time between its issue and a wait *)
(*     of the thread that issued it (__pipeline_wait_prior(0) waits for    *)
(*     the committed copies of the calling thread and of no other);        *)
(*   - __syncthreads waits for every thread, __syncwarp for the lanes of   *)
(*     one warp, and neither says anything of copies in flight;            *)
(*   - mma loads and stores take no ordering from the warp beyond those    *)
(*     barriers.                                                           *)
(*                                                                         *)
(* Data: a shared cell holds the number of the K tile it was copied from,  *)
(* a sum is the sequence of the tiles added to it.  The A and the B buffer *)
(* of a parity are staged, waited for and read together, so they are one   *)
(* buffer here whose cells are the 16-byte chunks of both: thread t owns   *)
(* chunks <<t, 1>> .. <<t, Copies>>, a_iters of A and then b_iters of B.   *)
(***************************************************************************)
EXTENDS Integers, Sequences, FiniteSets

CONSTANTS Threads,    \* threads of the block
          Warps,      \* its warps
          WarpOf,     \* [Threads -> Warps]
          Copies,     \* copies a thread issues per tile: a_iters + b_iters
          KTiles,     \* num_k_tiles = k / bk
          Bands,      \* mfrag, the 16-row bands of a warp tile
          None        \* an output cell not written yet

ASSUME GemmAssumption ==
  /\ Threads # {}
  /\ WarpOf \in [Threads -> Warps]
  /\ Copies \in Nat \ {0}
  /\ KTiles \in Nat \ {0}
  /\ Bands \in Nat \ {0}

VARIABLES pc,         \* where a thread is
          idx,        \* its loop variable idx
          left,       \* copies it has yet to issue for the tile being staged
          inflight,   \* copies it issued and the hardware has not finished
          smem,       \* the two shared buffers
          todo,       \* cells it has yet to multiply in this iteration
          acc,        \* its accumulator fragments
          band,       \* the epilogue's loop variable i
          scratch,    \* its part of the warp's fp32 scratch band
          lanes,      \* lanes whose part of the band it has yet to drain
          out         \* the cells of D it wrote

kvars == <<idx, left, inflight, smem, todo, acc>>
evars == <<band, scratch, lanes, out>>
vars == <<pc, kvars, evars>>

Tiles == 0..KTiles-1
Chunks == 1..Copies
Cells == Threads \X Chunks
NoTile == -1                            \* shared memory is not initialised
Junk == [band |-> -1, sum |-> [c \in Cells |-> <<>>]]
Warp(t) == {u \in Threads : WarpOf[u] = WarpOf[t]}

Abstract == INSTANCE TileProduct

PC == {"prologue", "loop", "wait", "sync", "guard", "stage", "math",
       "band", "empty", "store", "full", "drain", "done"}

\* kti & 1 selects the buffer read in iteration k, the other one is staged.
Src(k) == k % 2
Dst(k) == 1 - (k % 2)

\* Without uniformity: one thread leaves the loop a tile early.
TilesOfRagged(t) == IF t = CHOOSE u \in Threads : TRUE THEN KTiles - 1 ELSE KTiles

\* num_k_tiles = k / bk, the same for every thread of the block.
TilesOf(t) == KTiles

Init ==
  /\ pc = [t \in Threads |-> "prologue"]
  /\ idx = [t \in Threads |-> 0]
  /\ left = [t \in Threads |-> Copies]
  /\ inflight = [t \in Threads |-> {}]
  /\ smem = [b \in {0, 1} |-> [c \in Cells |-> NoTile]]
  /\ todo = [t \in Threads |-> {}]
  /\ acc = [t \in Threads |-> [c \in Cells |-> <<>>]]
  /\ band = [t \in Threads |-> 0]
  /\ scratch = [t \in Threads |-> Junk]
  /\ lanes = [t \in Threads |-> {}]
  /\ out = [t \in Threads |-> [b \in 0..Bands-1 |-> [u \in Threads |-> None]]]

Goto(t, l) == pc' = [pc EXCEPT ![t] = l]

-----------------------------------------------------------------------------
(* Staging: a cp.async per chunk, then pipeline_commit.                    *)

\* The tile and the buffer stage_tiles is called with: tile 0 and buffer 0
\* before the loop, tile kti + 1 and the opposite buffer in it.
StagedTile(t) == IF pc[t] = "prologue" THEN 0 ELSE idx[t] + 1
StagedBuf(t) == IF pc[t] = "prologue" THEN 0 ELSE Dst(idx[t])

\* array2_vec_cpy_pipelined: the copy is issued and not waited for.
Copy(t) ==
  /\ pc[t] \in {"prologue", "stage"}
  /\ left[t] > 0
  /\ inflight' = [inflight EXCEPT ![t] = @ \cup
        {[chunk |-> Copies - left[t] + 1, tile |-> StagedTile(t),
          buf |-> StagedBuf(t), committed |-> FALSE]}]
  /\ left' = [left EXCEPT ![t] = @ - 1]
  /\ UNCHANGED <<pc, idx, smem, todo, acc, evars>>

\* pipeline_commit closes the batch; the math on the current tile follows.
Commit(t) ==
  /\ pc[t] \in {"prologue", "stage"}
  /\ left[t] = 0
  /\ inflight' = [inflight EXCEPT ![t] = {[c EXCEPT !.committed = TRUE] : c \in @}]
  /\ left' = [left EXCEPT ![t] = Copies]
  /\ Goto(t, IF pc[t] = "prologue" THEN "loop" ELSE "math")
  /\ todo' = [todo EXCEPT ![t] = IF pc[t] = "prologue" THEN {} ELSE Cells]
  /\ UNCHANGED <<idx, smem, acc, evars>>

\* The hardware finishes a copy, whether it was committed or not.
Deliver(t) ==
  /\ \E c \in inflight[t] :
       /\ smem' = [smem EXCEPT ![c.buf][<<t, c.chunk>>] = c.tile]
       /\ inflight' = [inflight EXCEPT ![t] = @ \ {c}]
  /\ UNCHANGED <<pc, idx, left, todo, acc, evars>>

-----------------------------------------------------------------------------
(* The K loop.                                                             *)

LoopTest(t) ==
  /\ pc[t] = "loop"
  /\ Goto(t, IF idx[t] < TilesOf(t) THEN "wait" ELSE "band")
  /\ UNCHANGED <<kvars, evars>>

\* Without the wait: the barrier is trusted to complete the copies.
WaitNot(t) ==
  /\ pc[t] = "wait"
  /\ Goto(t, "sync")
  /\ UNCHANGED <<kvars, evars>>

\* __pipeline_wait_prior(0): every committed copy of this thread has landed.
Wait(t) ==
  /\ pc[t] = "wait"
  /\ \A c \in inflight[t] : ~c.committed
  /\ Goto(t, "sync")
  /\ UNCHANGED <<kvars, evars>>

\* Without the barrier: a thread that has waited for its own copies goes on.
SyncthreadsNot ==
  \E t \in Threads :
    /\ pc[t] = "sync"
    /\ Goto(t, "guard")
    /\ UNCHANGED <<kvars, evars>>

\* B.barrier_wait, the one block barrier of an iteration.
Syncthreads ==
  /\ \A t \in Threads : pc[t] = "sync"
  /\ pc' = [t \in Threads |-> "guard"]
  /\ UNCHANGED <<kvars, evars>>

MoreToStageOffByOne(t) == idx[t] + 1 <= KTiles

\* kt1 < num_k_tiles.
MoreToStage(t) == idx[t] + 1 < KTiles

\* Stage the next tile, or go on to the math of the last one.
Guard(t) ==
  /\ pc[t] = "guard"
  /\ IF MoreToStage(t)
       THEN Goto(t, "stage") /\ UNCHANGED todo
       ELSE Goto(t, "math") /\ todo' = [todo EXCEPT ![t] = Cells]
  /\ UNCHANGED <<idx, left, inflight, smem, acc, evars>>

\* subproducts_buf: load a cell of the read buffer and multiply it in.
Multiply(t) ==
  /\ pc[t] = "math"
  /\ \E c \in todo[t] :
       /\ acc' = [acc EXCEPT ![t][c] = Append(@, smem[Src(idx[t])][c])]
       /\ todo' = [todo EXCEPT ![t] = @ \ {c}]
  /\ UNCHANGED <<pc, idx, left, inflight, smem, evars>>

NextTile(t) ==
  /\ pc[t] = "math"
  /\ todo[t] = {}
  /\ idx' = [idx EXCEPT ![t] = @ + 1]
  /\ Goto(t, "loop")
  /\ UNCHANGED <<left, inflight, smem, todo, acc, evars>>

-----------------------------------------------------------------------------
(* The epilogue: accumulator to the warp's scratch band, scratch to D.     *)

BandTest(t) ==
  /\ pc[t] = "band"
  /\ Goto(t, IF band[t] < Bands THEN "empty" ELSE "done")
  /\ UNCHANGED <<kvars, evars>>

\* Without the barriers: a lane goes on alone.
SyncwarpNot(w) ==
  \E t \in Threads :
    /\ WarpOf[t] = w
    /\ pc[t] \in {"empty", "full"}
    /\ Goto(t, IF pc[t] = "empty" THEN "store" ELSE "drain")
    /\ lanes' = [lanes EXCEPT ![t] = IF pc[t] = "full" THEN Warp(t) ELSE @]
    /\ UNCHANGED <<kvars, band, scratch, out>>

\* warp_barrier_wait, before the band is overwritten ("empty") and before it
\* is read back ("full").  The hardware only counts lanes: it does not tell
\* the two call sites apart.
Syncwarp(w) ==
  /\ \E t \in Threads : WarpOf[t] = w
  /\ \A t \in Threads : WarpOf[t] = w => pc[t] \in {"empty", "full"}
  /\ pc' = [t \in Threads |-> IF WarpOf[t] # w THEN pc[t]
                              ELSE IF pc[t] = "empty" THEN "store" ELSE "drain"]
  /\ lanes' = [t \in Threads |-> IF WarpOf[t] = w /\ pc[t] = "full"
                                   THEN Warp(t) ELSE lanes[t]]
  /\ UNCHANGED <<kvars, band, scratch, out>>

\* store_band: mma_store of the fragments of this band.
StoreBand(t) ==
  /\ pc[t] = "store"
  /\ scratch' = [scratch EXCEPT ![t] = [band |-> band[t], sum |-> acc[t]]]
  /\ Goto(t, "full")
  /\ UNCHANGED <<kvars, band, lanes, out>>

\* drain_band: read a group another lane may have stored, cast it, write D.
Drain(t) ==
  /\ pc[t] = "drain"
  /\ \E u \in lanes[t] :
       /\ out' = [out EXCEPT ![t][band[t]][u] = scratch[u]]
       /\ lanes' = [lanes EXCEPT ![t] = @ \ {u}]
  /\ UNCHANGED <<pc, kvars, band, scratch>>

NextBand(t) ==
  /\ pc[t] = "drain"
  /\ lanes[t] = {}
  /\ band' = [band EXCEPT ![t] = @ + 1]
  /\ Goto(t, "band")
  /\ UNCHANGED <<kvars, scratch, lanes, out>>

-----------------------------------------------------------------------------
KStep(t) ==
  Copy(t) \/ Commit(t) \/ LoopTest(t) \/ Wait(t) \/ Guard(t) \/ Multiply(t) \/ NextTile(t)

EStep(t) == BandTest(t) \/ StoreBand(t) \/ Drain(t) \/ NextBand(t)

Next ==
  \/ \E t \in Threads : KStep(t) \/ EStep(t) \/ Deliver(t)
  \/ Syncthreads
  \/ \E w \in Warps : Syncwarp(w)

Spec == Init /\ [][Next]_vars

(* Resident threads of a block are scheduled independently, issued copies  *)
(* complete, and a barrier opens once everyone has arrived.                *)
FairSpec ==
  /\ Spec
  /\ \A t \in Threads : WF_vars(KStep(t)) /\ WF_vars(EStep(t)) /\ WF_vars(Deliver(t))
  /\ WF_vars(Syncthreads)
  /\ \A w \in Warps : WF_vars(Syncwarp(w))

-----------------------------------------------------------------------------
(* Properties.                                                             *)

InFlightCopy == [chunk : Chunks, tile : Tiles, buf : {0, 1}, committed : BOOLEAN]
Sum == [Cells -> Seq(Tiles \cup {NoTile})]
Fragment == [band : -1..Bands-1, sum : Sum]

\* Every variable has the type its comment gives it.
TypeOK ==
  /\ pc \in [Threads -> PC]
  /\ idx \in [Threads -> 0..KTiles]
  /\ left \in [Threads -> 0..Copies]
  /\ inflight \in [Threads -> SUBSET InFlightCopy]
  /\ smem \in [{0, 1} -> [Cells -> Tiles \cup {NoTile}]]
  /\ todo \in [Threads -> SUBSET Cells]
  /\ acc \in [Threads -> Sum]
  /\ band \in [Threads -> 0..Bands]
  /\ scratch \in [Threads -> Fragment]
  /\ lanes \in [Threads -> SUBSET Threads]
  /\ out \in [Threads -> [0..Bands-1 -> [Threads -> Fragment \cup {None}]]]

\* No copy is in flight into a cell some thread has yet to read for the math
\* of its iteration, no two copies are in flight into one cell, and no lane
\* overwrites its part of the scratch band while another still drains it
\* (one __syncthreads per tile and two __syncwarps per band suffice).
NoRace ==
  /\ \A t, u \in Threads : \A c \in inflight[t] :
       ~(pc[u] = "math" /\ Src(idx[u]) = c.buf /\ <<t, c.chunk>> \in todo[u])
  /\ \A t \in Threads : \A c, d \in inflight[t] :
       c.chunk = d.chunk /\ c.buf = d.buf => c = d
  /\ \A t, u \in Threads : ~(pc[t] = "drain" /\ u \in lanes[t] /\ pc[u] = "store")

\* Between two iterations an accumulator is the sum of exactly the tiles
\* below idx, each added once, from cells every thread had staged
\* (__gmatmul_single ... vkt in the loop invariant of kloop).
TilesExact ==
  \A t \in Threads : pc[t] # "math" =>
    \A c \in Cells : acc[t][c] = Abstract!Upto(idx[t])

\* A thread that has left the K loop has no copy in flight into the shared
\* memory the block is about to give back.
QuiescentAtExit ==
  \A t \in Threads :
    pc[t] \in {"band", "empty", "store", "full", "drain", "done"} => inflight[t] = {}

\* The block implements its specification: D receives full sums only.
StoresProduct == Abstract!Spec

\* No barrier is missed by a thread others wait for: every thread returns.
EveryThreadReturns == <>(\A t \in Threads : pc[t] = "done")
=============================================================================
