-------------------------- MODULE SuperGemmProofs --------------------------
(***************************************************************************)
(* The block of the SuperGEMM kernel is correct for every number of        *)
(* threads, warps, copies, K tiles and bands.                              *)
(*                                                                         *)
(* The argument.  Past(t) counts the block barriers thread t has passed.   *)
(* A barrier is passed by all threads at once, so Past is the same number  *)
(* n for all of them, wherever they are in their loops.  Then every copy   *)
(* in flight carries tile n into buffer n % 2, the cells of that buffer    *)
(* whose copy has landed hold n, and the whole other buffer holds n - 1,   *)
(* the tile being read.  A thread reaches the barrier only after its own   *)
(* copies landed, so when all are there buffer n % 2 is full and the roles *)
(* swap.  WPast plays the same part for a warp and its two barriers.       *)
(***************************************************************************)
EXTENDS SuperGemm, TLAPS

Epilogue == {"band", "empty", "store", "full", "drain", "done"}
Staging == {"prologue", "stage"}

\* Block barriers thread t has passed.
Past(t) == IF pc[t] \in {"guard", "stage", "math"} THEN idx[t] + 1 ELSE idx[t]

Lockstep == \A t, u \in Threads : Past(t) = Past(u)

Control == \A t \in Threads :
  /\ pc[t] = "prologue" => idx[t] = 0
  /\ pc[t] \in {"wait", "sync", "guard", "stage", "math"} => idx[t] < KTiles
  /\ pc[t] = "stage" => idx[t] + 1 < KTiles
  /\ pc[t] \in Epilogue => idx[t] = KTiles
  /\ pc[t] \notin Staging => left[t] = Copies
  /\ pc[t] \in {"empty", "store", "full", "drain"} => band[t] < Bands
  /\ pc[t] \notin Epilogue => band[t] = 0

\* A copy in flight carries the next tile into the buffer nobody reads.
CopiesInv == \A t \in Threads : \A c \in inflight[t] :
  /\ c.tile = Past(t)
  /\ c.buf = Past(t) % 2
  /\ c.committed <=> pc[t] \notin Staging
  /\ pc[t] \in Staging => c.chunk <= Copies - left[t]
  /\ pc[t] \notin {"sync", "guard"}

\* Chunks of the next tile thread t has issued a copy for.
Issued(t, j) ==
  /\ Past(t) < KTiles
  /\ IF pc[t] \in Staging THEN j <= Copies - left[t] ELSE pc[t] # "guard"

StagedInv == \A t \in Threads : \A j \in Chunks :
  Issued(t, j) /\ (\A c \in inflight[t] : c.chunk # j)
    => smem[Past(t) % 2][<<t, j>>] = Past(t)

ReadableInv == \A t \in Threads : Past(t) > 0 =>
  \A c \in Cells : smem[(Past(t) - 1) % 2][c] = Past(t) - 1

Upto(n) == Abstract!Upto(n)

SumInv == \A t \in Threads : \A c \in Cells :
  acc[t][c] = IF pc[t] = "math" /\ c \notin todo[t] THEN Upto(idx[t] + 1) ELSE Upto(idx[t])

\* Warp barriers thread t has passed.
WPast(t) == IF pc[t] \in {"store", "full"} THEN 2 * band[t] + 1
            ELSE IF pc[t] = "drain" THEN 2 * band[t] + 2 ELSE 2 * band[t]

WarpLockstep == \A t, u \in Threads : WarpOf[t] = WarpOf[u] => WPast(t) = WPast(u)

ScratchInv == \A t \in Threads :
  /\ pc[t] \in {"full", "drain"} => scratch[t] = Abstract!Product(band[t])
  /\ pc[t] \in {"band", "empty", "done"} /\ band[t] > 0
       => scratch[t] = Abstract!Product(band[t] - 1)

LanesInv == \A t \in Threads : lanes[t] \subseteq Warp(t)

EInv == WarpLockstep /\ ScratchInv /\ LanesInv

-----------------------------------------------------------------------------
(* Arithmetic and sums.                                                    *)

\* The staged buffer is the one not read, and the buffers alternate.
LEMMA Parity ==
  ASSUME NEW n \in Nat
  PROVE  /\ n % 2 \in {0, 1}
         /\ (n + 1) % 2 = 1 - (n % 2)
         /\ (n + 1) % 2 # n % 2
         /\ n > 0 => (n - 1) % 2 # n % 2
  OBVIOUS

\* What equal counts of warp barriers say of the bands of two lanes.
LEMMA Halves ==
  ASSUME NEW x \in Nat, NEW y \in Nat
  PROVE  /\ 2 * x + 2 = 2 * y + 2 => x = y
         /\ 2 * x = 2 * y + 2 => x = y + 1
         /\ 2 * x + 1 # 2 * y + 2
  OBVIOUS

\* Adding tile n to the sum of the tiles below n.
LEMMA UptoAppend ==
  ASSUME NEW n \in Nat
  PROVE  Append(Upto(n), n) = Upto(n + 1)
  BY DEF Upto, Abstract!Upto

LEMMA UptoType ==
  ASSUME NEW n \in 0..KTiles
  PROVE  Upto(n) \in Seq(Tiles \cup {NoTile})
  BY GemmAssumption DEF Upto, Abstract!Upto, Tiles

LEMMA FullIsUpto == Abstract!Full = [c \in Cells |-> Upto(KTiles)]
  BY DEF Abstract!Full, Upto

-----------------------------------------------------------------------------
(* Types.                                                                  *)

LEMMA InitType == Init => TypeOK
  <1> SUFFICES ASSUME Init PROVE TypeOK
    OBVIOUS
  <1> USE GemmAssumption DEF Init
  <1>1. pc \in [Threads -> PC] /\ idx \in [Threads -> 0..KTiles] /\ left \in [Threads -> 0..Copies]
    BY DEF PC
  <1>2. inflight \in [Threads -> SUBSET InFlightCopy] /\ todo \in [Threads -> SUBSET Cells]
    OBVIOUS
  <1>3. smem \in [{0, 1} -> [Cells -> Tiles \cup {NoTile}]]
    OBVIOUS
  <1>4. acc \in [Threads -> Sum] /\ scratch \in [Threads -> Fragment]
    BY DEF Sum, Junk, Fragment
  <1>5. band \in [Threads -> 0..Bands] /\ lanes \in [Threads -> SUBSET Threads]
    OBVIOUS
  <1>6. out \in [Threads -> [0..Bands-1 -> [Threads -> Fragment \cup {None}]]]
    OBVIOUS
  <1> QED
    BY <1>1, <1>2, <1>3, <1>4, <1>5, <1>6 DEF TypeOK

TC == TypeOK /\ Control

LEMMA CopyType ==
  ASSUME TC, NEW t \in Threads, Copy(t) PROVE TC'
  <1> USE GemmAssumption DEF TC, Copy, kvars, evars
  <1> DEFINE c == [chunk |-> Copies - left[t] + 1, tile |-> StagedTile(t),
                   buf |-> StagedBuf(t), committed |-> FALSE]
  <1>1. c \in InFlightCopy
    <2>1. idx[t] \in Nat /\ left[t] \in 1..Copies
      BY DEF TypeOK
    <2>2. StagedTile(t) \in Tiles
      BY <2>1 DEF StagedTile, Tiles, Control, TypeOK
    <2>3. StagedBuf(t) \in {0, 1}
      BY <2>1, Parity DEF StagedBuf, Dst
    <2> QED
      BY <2>1, <2>2, <2>3 DEF InFlightCopy, Chunks
  <1>2. inflight' \in [Threads -> SUBSET InFlightCopy]
    <2>1. inflight' = [inflight EXCEPT ![t] = @ \cup {c}]
      BY DEF Copy
    <2>2. inflight[t] \cup {c} \in SUBSET InFlightCopy
      BY <1>1 DEF TypeOK
    <2> HIDE DEF c, Copy
    <2> QED
      BY <2>1, <2>2 DEF TypeOK
  <1>3. left' \in [Threads -> 0..Copies]
    BY DEF TypeOK
  <1>4. TypeOK'
    BY <1>2, <1>3 DEF TypeOK
  <1>5. Control'
    BY DEF TypeOK, Control, Staging, Epilogue
  <1> QED
    BY <1>4, <1>5

LEMMA CommitType ==
  ASSUME TC, NEW t \in Threads, Commit(t) PROVE TC'
  <1> USE GemmAssumption DEF TC, Commit, kvars, evars, Goto
  <1> DEFINE S == {[c EXCEPT !.committed = TRUE] : c \in inflight[t]}
  <1>1. inflight' \in [Threads -> SUBSET InFlightCopy]
    <2>1. S \in SUBSET InFlightCopy
      <3> HIDE DEF Commit
      <3>1. ASSUME NEW c \in InFlightCopy PROVE [c EXCEPT !.committed = TRUE] \in InFlightCopy
        BY DEF InFlightCopy
      <3> QED
        BY <3>1, ZenonT(30) DEF TypeOK
    <2>2. inflight' = [inflight EXCEPT ![t] = S]
      BY DEF TypeOK
    <2> HIDE DEF S, Commit
    <2> QED
      BY <2>1, <2>2 DEF TypeOK
  <1>2. TypeOK'
    BY <1>1 DEF TypeOK, PC
  <1>3. Control'
    BY DEF TypeOK, Control, Staging, Epilogue
  <1> QED
    BY <1>2, <1>3

LEMMA DeliverType ==
  ASSUME TC, NEW t \in Threads, Deliver(t) PROVE TC'
  <1> USE GemmAssumption DEF TC, Deliver, kvars, evars
  <1>1. PICK c \in inflight[t] :
          /\ smem' = [smem EXCEPT ![c.buf][<<t, c.chunk>>] = c.tile]
          /\ inflight' = [inflight EXCEPT ![t] = @ \ {c}]
    OBVIOUS
  <1>2. c \in InFlightCopy
    BY DEF TypeOK
  <1>3. c.buf \in {0, 1} /\ <<t, c.chunk>> \in Cells /\ c.tile \in Tiles
    BY <1>2 DEF InFlightCopy, Cells
  <1>4. smem' \in [{0, 1} -> [Cells -> Tiles \cup {NoTile}]]
    BY <1>1, <1>3 DEF TypeOK
  <1>5. TypeOK'
    BY <1>1, <1>4 DEF TypeOK
  <1>6. Control'
    BY DEF Control
  <1> QED
    BY <1>5, <1>6

LEMMA LoopType ==
  ASSUME TC, NEW t \in Threads, LoopTest(t) \/ Wait(t) \/ Guard(t) \/ NextTile(t)
  PROVE  TC'
  <1> USE GemmAssumption DEF TC, LoopTest, TilesOf, Wait, Guard, NextTile, MoreToStage,
                             kvars, evars, Goto
  <1>1. CASE LoopTest(t)
    BY <1>1, SMTT(30) DEF TypeOK, Control, PC, Staging, Epilogue
  <1>2. CASE Wait(t)
    BY <1>2 DEF TypeOK, Control, PC, Staging, Epilogue
  <1>3. CASE Guard(t)
    <2> DEFINE S == Cells
               l == IF MoreToStage(t) THEN "stage" ELSE "math"
    <2>1. /\ pc \in [Threads -> PC] /\ todo \in [Threads -> SUBSET Cells]
          /\ pc' = [pc EXCEPT ![t] = l]
          /\ todo' = todo \/ todo' = [todo EXCEPT ![t] = S]
      BY <1>3 DEF TypeOK
    <2>2. l \in PC /\ S \in SUBSET Cells
      BY DEF PC
    <2>3. pc' \in [Threads -> PC] /\ todo' \in [Threads -> SUBSET Cells]
      <3> HIDE DEF S, l
      <3> QED
        BY <2>1, <2>2, Zenon
    <2> HIDE DEF Goto
    <2>4. TypeOK'
      BY <1>3, <2>3 DEF TypeOK
    <2> USE DEF Goto
    <2>5. Control'
      BY <1>3, SMTT(30) DEF TypeOK, Control, Staging, Epilogue
    <2> QED
      BY <2>4, <2>5
  <1>4. CASE NextTile(t)
    <2>1. TypeOK'
      BY <1>4, SMTT(30) DEF TypeOK, Control, PC
    <2>2. Control'
      BY <1>4 DEF TypeOK, Control, Staging, Epilogue
    <2> QED
      BY <2>1, <2>2
  <1> QED
    BY <1>1, <1>2, <1>3, <1>4

LEMMA SyncthreadsType ==
  ASSUME TC, Syncthreads PROVE TC'
  <1> USE GemmAssumption DEF TC, Syncthreads, kvars, evars
  <1>1. TypeOK'
    BY DEF TypeOK, PC
  <1>2. Control'
    BY DEF TypeOK, Control, Staging, Epilogue
  <1> QED
    BY <1>1, <1>2

LEMMA MultiplyType ==
  ASSUME TC, NEW t \in Threads, Multiply(t) PROVE TC'
  <1> USE GemmAssumption DEF TC, Multiply, evars
  <1>1. PICK c \in todo[t] :
          /\ acc' = [acc EXCEPT ![t][c] = Append(@, smem[Src(idx[t])][c])]
          /\ todo' = [todo EXCEPT ![t] = @ \ {c}]
    OBVIOUS
  <1>2. c \in Cells /\ Src(idx[t]) \in {0, 1}
    BY Parity DEF TypeOK, Src
  <1>3. smem[Src(idx[t])][c] \in Tiles \cup {NoTile}
    BY <1>2 DEF TypeOK
  <1>4. acc' \in [Threads -> Sum]
    <2> DEFINE x == smem[Src(idx[t])][c]
    <2>1. x \in Tiles \cup {NoTile}
      BY <1>3
    <2> HIDE DEF x
    <2>2. Append(acc[t][c], x) \in Seq(Tiles \cup {NoTile})
      BY <1>2, <2>1 DEF TypeOK, Sum
    <2>3. [acc[t] EXCEPT ![c] = Append(acc[t][c], x)] \in Sum
      BY <1>2, <2>2 DEF TypeOK, Sum
    <2>4. acc' = [acc EXCEPT ![t] = [acc[t] EXCEPT ![c] = Append(acc[t][c], x)]]
      BY <1>1 DEF TypeOK, x
    <2> QED
      BY <2>3, <2>4 DEF TypeOK
  <1>5. TypeOK'
    BY <1>1, <1>4 DEF TypeOK
  <1>6. Control'
    BY DEF Control
  <1> QED
    BY <1>5, <1>6

LEMMA BandType ==
  ASSUME TC, NEW t \in Threads, BandTest(t) \/ NextBand(t) PROVE TC'
  <1> USE GemmAssumption DEF TC, BandTest, NextBand, kvars, evars, Goto
  <1>1. CASE BandTest(t)
    BY <1>1 DEF TypeOK, Control, PC, Staging, Epilogue
  <1>2. CASE NextBand(t)
    <2>1. TypeOK'
      BY <1>2, SMTT(30) DEF TypeOK, Control, PC
    <2>2. Control'
      BY <1>2 DEF TypeOK, Control, Staging, Epilogue
    <2> QED
      BY <2>1, <2>2
  <1> QED
    BY <1>1, <1>2

LEMMA StoreBandType ==
  ASSUME TC, NEW t \in Threads, StoreBand(t) PROVE TC'
  <1> USE GemmAssumption DEF TC, StoreBand, kvars, Goto
  <1>1. [band |-> band[t], sum |-> acc[t]] \in Fragment
    BY DEF TypeOK, Control, Fragment
  <1>2. TypeOK'
    BY <1>1 DEF TypeOK, PC
  <1>3. Control'
    BY DEF TypeOK, Control, Staging, Epilogue
  <1> QED
    BY <1>2, <1>3

LEMMA DrainType ==
  ASSUME TC, NEW t \in Threads, Drain(t) PROVE TC'
  <1> USE GemmAssumption DEF TC, Drain, kvars
  <1>1. PICK u \in lanes[t] : /\ out' = [out EXCEPT ![t][band[t]][u] = scratch[u]]
                              /\ lanes' = [lanes EXCEPT ![t] = @ \ {u}]
    OBVIOUS
  <1>2. u \in Threads /\ band[t] \in 0..Bands-1 /\ scratch[u] \in Fragment
    BY DEF TypeOK, Control
  <1>3. out' \in [Threads -> [0..Bands-1 -> [Threads -> Fragment \cup {None}]]]
    <2> DEFINE F == Fragment \cup {None}
               b == band[t]
               x == scratch[u]
    <2>1. out \in [Threads -> [0..Bands-1 -> [Threads -> F]]] /\ x \in F /\ b \in 0..Bands-1
      BY <1>2 DEF TypeOK
    <2>2. out' = [out EXCEPT ![t][b][u] = x]
      BY <1>1
    <2> HIDE DEF F, b, x, Drain
    <2>3. [out[t][b] EXCEPT ![u] = x] \in [Threads -> F]
      BY <1>2, <2>1
    <2>4. [out[t] EXCEPT ![b] = [out[t][b] EXCEPT ![u] = x]] \in [0..Bands-1 -> [Threads -> F]]
      BY <2>1, <2>3
    <2>5. out' = [out EXCEPT ![t] = [out[t] EXCEPT ![b] = [out[t][b] EXCEPT ![u] = x]]]
      BY <2>1, <2>2
    <2>6. out' \in [Threads -> [0..Bands-1 -> [Threads -> F]]]
      BY <2>1, <2>4, <2>5
    <2> QED
      BY <2>6 DEF F
  <1>4. TypeOK'
    BY <1>1, <1>3 DEF TypeOK
  <1>5. Control'
    BY DEF Control
  <1> QED
    BY <1>4, <1>5

LEMMA SyncwarpType ==
  ASSUME TC, NEW w \in Warps, Syncwarp(w) PROVE TC'
  <1> USE GemmAssumption DEF TC, Syncwarp, kvars
  <1>1. TypeOK'
    BY DEF TypeOK, PC, Warp
  <1>2. Control'
    BY DEF TypeOK, Control, Staging, Epilogue
  <1> QED
    BY <1>1, <1>2

LEMMA StutterType == ASSUME TC, UNCHANGED vars PROVE TC'
  BY DEF TC, TypeOK, Control, vars, kvars, evars

-----------------------------------------------------------------------------
(* The K loop: the K-loop conjuncts of Inv, TC already given.              *)

KI == Lockstep /\ CopiesInv /\ StagedInv /\ ReadableInv /\ SumInv

LEMMA PastType ==
  ASSUME TC, NEW t \in Threads
  PROVE  /\ Past(t) \in 0..KTiles
         /\ Past(t) % 2 \in {0, 1}
         /\ (Past(t) + 1) % 2 # Past(t) % 2
         /\ Past(t) > 0 => (Past(t) - 1) % 2 # Past(t) % 2
  <1>1. Past(t) \in 0..KTiles
    BY GemmAssumption DEF TC, TypeOK, Control, Past
  <1> QED
    BY <1>1, Parity

\* What a thread does outside the K loop does not disturb it.
LEMMA EpilogueKeepsLoop ==
  ASSUME TC, KI, UNCHANGED kvars,
         \A t \in Threads : pc'[t] = pc[t] \/ (pc[t] \in Epilogue /\ pc'[t] \in Epilogue)
  PROVE  KI'
  <1> USE DEF kvars
  <1>1. ASSUME NEW t \in Threads PROVE Past(t)' = Past(t)
    BY DEF Past, Epilogue
  <1>2. Lockstep'
    BY <1>1 DEF KI, Lockstep
  <1>3. CopiesInv'
    BY <1>1 DEF KI, CopiesInv, Epilogue, Staging
  <1>4. ASSUME NEW t \in Threads, NEW j \in Chunks, Issued(t, j)' PROVE Issued(t, j)
    BY <1>1, <1>4 DEF Issued, Epilogue, Staging
  <1>5. StagedInv'
    BY <1>1, <1>4 DEF KI, StagedInv
  <1>6. ReadableInv'
    BY <1>1 DEF KI, ReadableInv
  <1>7. SumInv'
    BY DEF KI, SumInv, Epilogue
  <1> QED
    BY <1>2, <1>3, <1>5, <1>6, <1>7 DEF KI

LEMMA CopyInv ==
  ASSUME TC, KI, NEW t \in Threads, Copy(t) PROVE KI'
  <1> USE GemmAssumption DEF evars
  <1> DEFINE c == [chunk |-> Copies - left[t] + 1, tile |-> StagedTile(t),
                   buf |-> StagedBuf(t), committed |-> FALSE]
  <1>1. /\ pc[t] \in Staging /\ left[t] \in 1..Copies
        /\ inflight' = [inflight EXCEPT ![t] = @ \cup {c}]
        /\ left' = [left EXCEPT ![t] = @ - 1]
        /\ UNCHANGED <<pc, idx, smem, todo, acc>>
    BY DEF Copy, TC, TypeOK, Staging
  <1>2. StagedTile(t) = Past(t) /\ StagedBuf(t) = Past(t) % 2
    <2>1. idx[t] \in Nat
      BY DEF TC, TypeOK
    <2> QED
      BY <1>1, <2>1, Parity DEF TC, Control, StagedTile, StagedBuf, Past, Dst, Staging
  <1>3. ASSUME NEW u \in Threads PROVE Past(u)' = Past(u)
    BY <1>1 DEF Past
  <1>4. /\ c.chunk = Copies - left[t] + 1 /\ c.tile = Past(t)
        /\ c.buf = Past(t) % 2 /\ c.committed = FALSE
    BY <1>2
  <1>5. inflight'[t] = inflight[t] \cup {c} /\ left'[t] = left[t] - 1
    BY <1>1 DEF TC, TypeOK
  <1>6. \A u \in Threads \ {t} : inflight'[u] = inflight[u] /\ left'[u] = left[u]
    BY <1>1 DEF TC, TypeOK
  <1> HIDE DEF c
  <1>7. Lockstep'
    BY <1>3 DEF KI, Lockstep
  <1>8. CopiesInv'
    <2>1. ASSUME NEW u \in Threads, NEW d \in inflight'[u]
          PROVE  /\ d.tile = Past(u)
                 /\ d.buf = Past(u) % 2
                 /\ d.committed <=> pc[u] \notin Staging
                 /\ pc[u] \in Staging => d.chunk <= Copies - left'[u]
                 /\ pc[u] \notin {"sync", "guard"}
      <3>1. CASE u = t /\ d = c
        BY <3>1, <1>1, <1>4, <1>5 DEF Staging
      <3>2. CASE u = t /\ d \in inflight[t]
        <4>1. d.chunk \in Int
          BY <3>2 DEF TC, TypeOK, InFlightCopy, Chunks
        <4> QED
          BY <3>2, <4>1, <1>1, <1>5 DEF KI, CopiesInv
      <3>3. CASE u # t
        BY <3>3, <1>6 DEF KI, CopiesInv
      <3> QED
        BY <2>1, <3>1, <3>2, <3>3, <1>5
    <2> QED
      BY <1>1, <1>3, <2>1 DEF CopiesInv
  <1>9. StagedInv'
    <2>1. ASSUME NEW u \in Threads, NEW j \in Chunks, Issued(u, j)', \A d \in inflight'[u] : d.chunk # j
          PROVE  smem[Past(u) % 2][<<u, j>>] = Past(u)
      <3>1. \A d \in inflight[u] : d.chunk # j
        BY <2>1, <1>5, <1>6
      <3>2. Issued(u, j)
        <4>1. CASE u = t
          <5>1. j # c.chunk
            BY <2>1, <4>1, <1>5
          <5>2. j \in Int
            BY DEF Chunks
          <5> QED
            BY <2>1, <4>1, <5>1, <5>2, <1>1, <1>3, <1>4, <1>5 DEF Issued
        <4>2. CASE u # t
          BY <2>1, <4>2, <1>1, <1>3, <1>6 DEF Issued
        <4> QED
          BY <4>1, <4>2
      <3> QED
        BY <3>1, <3>2 DEF KI, StagedInv
    <2> QED
      BY <1>1, <1>3, <2>1 DEF StagedInv
  <1>10. ReadableInv'
    BY <1>1, <1>3 DEF KI, ReadableInv
  <1>11. SumInv'
    BY <1>1 DEF KI, SumInv
  <1> QED
    BY <1>7, <1>8, <1>9, <1>10, <1>11 DEF KI

LEMMA CommitInv ==
  ASSUME TC, KI, NEW t \in Threads, Commit(t) PROVE KI'
  <1> USE GemmAssumption DEF evars
  <1>1. /\ pc[t] \in Staging /\ left[t] = 0
        /\ inflight' = [inflight EXCEPT ![t] = {[c EXCEPT !.committed = TRUE] : c \in inflight[t]}]
        /\ left' = [left EXCEPT ![t] = Copies]
        /\ pc' = [pc EXCEPT ![t] = IF pc[t] = "prologue" THEN "loop" ELSE "math"]
        /\ todo' = [todo EXCEPT ![t] = IF pc[t] = "prologue" THEN {} ELSE Cells]
        /\ UNCHANGED <<idx, smem, acc>>
    BY DEF Commit, Staging, Goto, TC, TypeOK
  <1>2. /\ inflight'[t] = {[c EXCEPT !.committed = TRUE] : c \in inflight[t]}
        /\ \A u \in Threads \ {t} : inflight'[u] = inflight[u] /\ left'[u] = left[u] /\ pc'[u] = pc[u]
                                     /\ todo'[u] = todo[u]
        /\ pc'[t] = IF pc[t] = "prologue" THEN "loop" ELSE "math"
    BY <1>1 DEF TC, TypeOK
  <1>3. ASSUME NEW u \in Threads PROVE Past(u)' = Past(u)
    BY <1>1, <1>2 DEF Past, Staging
  <1>4. Lockstep'
    BY <1>3 DEF KI, Lockstep
  <1>5. CopiesInv'
    <2>1. ASSUME NEW u \in Threads, NEW d \in inflight'[u]
          PROVE  /\ d.tile = Past(u)
                 /\ d.buf = Past(u) % 2
                 /\ d.committed <=> pc'[u] \notin Staging
                 /\ pc'[u] \in Staging => d.chunk <= Copies - left'[u]
                 /\ pc'[u] \notin {"sync", "guard"}
      <3>1. CASE u = t
        <4>1. PICK c \in inflight[t] : d = [c EXCEPT !.committed = TRUE]
          BY <3>1, <2>1, <1>2
        <4>2. c \in InFlightCopy
          BY DEF TC, TypeOK
        <4>3. d.tile = c.tile /\ d.buf = c.buf /\ d.committed = TRUE
          BY <4>1, <4>2 DEF InFlightCopy
        <4> QED
          BY <3>1, <4>3, <1>2 DEF KI, CopiesInv, Staging
      <3>2. CASE u # t
        BY <3>2, <2>1, <1>2 DEF KI, CopiesInv
      <3> QED
        BY <3>1, <3>2
    <2> QED
      BY <1>3, <2>1 DEF CopiesInv
  <1>6. StagedInv'
    <2>1. ASSUME NEW u \in Threads, NEW j \in Chunks, Issued(u, j)', \A d \in inflight'[u] : d.chunk # j
          PROVE  smem[Past(u) % 2][<<u, j>>] = Past(u)
      <3>1. CASE u = t
        <4>1. Issued(t, j)
          BY <2>1, <3>1, <1>1, <1>3 DEF Issued, Chunks
        <4>2. ASSUME NEW c \in inflight[t] PROVE c.chunk # j
          <5>1. [c EXCEPT !.committed = TRUE] \in inflight'[t]
            BY <1>2
          <5>2. c \in InFlightCopy
            BY DEF TC, TypeOK
          <5>3. [c EXCEPT !.committed = TRUE].chunk = c.chunk
            BY <5>2 DEF InFlightCopy
          <5> QED
            BY <2>1, <3>1, <5>1, <5>3
        <4> QED
          BY <3>1, <4>1, <4>2 DEF KI, StagedInv
      <3>2. CASE u # t
        <4>1. Issued(u, j)
          BY <2>1, <3>2, <1>2, <1>3 DEF Issued
        <4> QED
          BY <3>2, <4>1, <2>1, <1>2 DEF KI, StagedInv
      <3> QED
        BY <3>1, <3>2
    <2> QED
      BY <1>1, <1>3, <2>1 DEF StagedInv
  <1>7. ReadableInv'
    BY <1>1, <1>3 DEF KI, ReadableInv
  <1>8. SumInv'
    <2>1. ASSUME NEW u \in Threads, NEW c \in Cells
          PROVE  acc[u][c] = IF pc'[u] = "math" /\ c \notin todo'[u] THEN Upto(idx[u] + 1) ELSE Upto(idx[u])
      <3>1. CASE u = t
        <4>1. acc[u][c] = Upto(idx[u])
          BY <3>1, <1>1 DEF KI, SumInv, Staging
        <4>2. pc'[t] = "math" => c \in todo'[t]
          BY <1>1 DEF TC, TypeOK, Staging
        <4> QED
          BY <3>1, <4>1, <4>2
      <3>2. CASE u # t
        BY <3>2, <1>2 DEF KI, SumInv
      <3> QED
        BY <3>1, <3>2
    <2> QED
      BY <1>1, <2>1 DEF SumInv
  <1> QED
    BY <1>4, <1>5, <1>6, <1>7, <1>8 DEF KI

LEMMA DeliverInv ==
  ASSUME TC, KI, NEW t \in Threads, Deliver(t) PROVE KI'
  <1> USE GemmAssumption DEF evars
  <1>1. PICK c \in inflight[t] :
          /\ smem' = [smem EXCEPT ![c.buf][<<t, c.chunk>>] = c.tile]
          /\ inflight' = [inflight EXCEPT ![t] = @ \ {c}]
    BY DEF Deliver
  <1>2. UNCHANGED <<pc, idx, left, todo, acc>>
    BY DEF Deliver
  <1>3. c.tile = Past(t) /\ c.buf = Past(t) % 2 /\ c \in InFlightCopy
    BY DEF KI, CopiesInv, TC, TypeOK
  <1>4. /\ inflight'[t] = inflight[t] \ {c}
        /\ \A u \in Threads \ {t} : inflight'[u] = inflight[u]
    BY <1>1 DEF TC, TypeOK
  <1>5. ASSUME NEW u \in Threads PROVE Past(u)' = Past(u) /\ Past(u) = Past(t)
    BY <1>2 DEF Past, KI, Lockstep
  <1>6. \A b \in {0, 1}, d \in Cells :
          smem'[b][d] = IF b = Past(t) % 2 /\ d = <<t, c.chunk>> THEN Past(t) ELSE smem[b][d]
    <2>1. smem \in [{0, 1} -> [Cells -> Tiles \cup {NoTile}]]
      BY DEF TC, TypeOK
    <2> QED
      BY <2>1, <1>1, <1>3
  <1>7. Lockstep'
    BY <1>5 DEF KI, Lockstep
  <1>8. CopiesInv'
    BY <1>2, <1>4, <1>5 DEF KI, CopiesInv
  <1>9. StagedInv'
    <2>1. ASSUME NEW u \in Threads, NEW j \in Chunks, Issued(u, j)', \A d \in inflight'[u] : d.chunk # j
          PROVE  smem'[Past(u) % 2][<<u, j>>] = Past(u)
      <3>1. <<u, j>> \in Cells /\ Past(u) % 2 \in {0, 1}
        BY PastType DEF Cells
      <3>2. CASE u = t /\ j = c.chunk
        BY <3>1, <3>2, <1>6
      <3>3. CASE ~(u = t /\ j = c.chunk)
        <4>1. \A d \in inflight[u] : d.chunk # j
          BY <2>1, <3>3, <1>4
        <4>2. Issued(u, j)
          BY <2>1, <1>2, <1>5 DEF Issued
        <4>3. smem[Past(u) % 2][<<u, j>>] = Past(u)
          BY <4>1, <4>2 DEF KI, StagedInv
        <4>4. <<u, j>> # <<t, c.chunk>>
          BY <3>3
        <4> QED
          BY <3>1, <4>3, <4>4, <1>6
      <3> QED
        BY <3>2, <3>3
    <2> QED
      BY <1>5, <2>1 DEF StagedInv
  <1>10. ReadableInv'
    <2>1. ASSUME NEW u \in Threads, Past(u) > 0, NEW d \in Cells
          PROVE  smem'[(Past(u) - 1) % 2][d] = Past(u) - 1
      <3>1. (Past(u) - 1) % 2 \in {0, 1} /\ (Past(u) - 1) % 2 # Past(t) % 2
        <4>1. Past(u) - 1 \in Nat
          BY <2>1, PastType
        <4> QED
          BY <4>1, <2>1, <1>5, PastType, Parity
      <3>2. smem[(Past(u) - 1) % 2][d] = Past(u) - 1
        BY <2>1 DEF KI, ReadableInv
      <3> QED
        BY <3>1, <3>2, <1>6
    <2> QED
      BY <1>5, <2>1 DEF ReadableInv
  <1>11. SumInv'
    BY <1>2 DEF KI, SumInv
  <1> QED
    BY <1>7, <1>8, <1>9, <1>10, <1>11 DEF KI

LEMMA LoopTestInv ==
  ASSUME TC, KI, NEW t \in Threads, LoopTest(t) \/ Wait(t) PROVE KI'
  <1> USE GemmAssumption DEF evars
  <1>1. /\ pc[t] = "loop" => pc'[t] \in {"wait", "band"} /\ (pc'[t] = "band" => Past(t) = KTiles)
        /\ pc[t] # "loop" => pc[t] = "wait" /\ pc'[t] = "sync" /\ \A c \in inflight[t] : ~c.committed
        /\ \A u \in Threads \ {t} : pc'[u] = pc[u]
        /\ UNCHANGED <<idx, left, inflight, smem, todo, acc>>
    BY DEF LoopTest, Wait, TilesOf, Goto, Past, kvars, TC, TypeOK
  <1>2. ASSUME NEW u \in Threads PROVE Past(u)' = Past(u)
    BY <1>1 DEF Past
  <1>3. Lockstep'
    BY <1>2 DEF KI, Lockstep
  <1>4. CopiesInv'
    <2>1. ASSUME NEW c \in inflight[t] PROVE c.committed /\ c.tile < KTiles /\ c.tile = Past(t)
      <3>1. c \in InFlightCopy
        BY DEF TC, TypeOK
      <3>2. c.tile < KTiles
        BY <3>1 DEF InFlightCopy, Tiles
      <3> QED
        BY <1>1, <3>2 DEF KI, CopiesInv, Staging
    <2>2. pc'[t] \in {"sync", "guard", "band"} => inflight[t] = {}
      BY <1>1, <2>1
    <2> QED
      BY <1>1, <1>2, <2>1, <2>2 DEF KI, CopiesInv, Staging
  <1>5. ASSUME NEW u \in Threads, NEW j \in Chunks, Issued(u, j)' PROVE Issued(u, j)
    BY <1>1, <1>2, <1>5 DEF Issued, Staging
  <1>6. StagedInv'
    BY <1>1, <1>2, <1>5 DEF KI, StagedInv
  <1>7. ReadableInv'
    BY <1>1, <1>2 DEF KI, ReadableInv
  <1>8. SumInv'
    BY <1>1 DEF KI, SumInv
  <1> QED
    BY <1>3, <1>4, <1>6, <1>7, <1>8 DEF KI

LEMMA SyncthreadsInv ==
  ASSUME TC, KI, Syncthreads PROVE KI'
  <1> USE GemmAssumption
  <1>1. /\ \A t \in Threads : pc[t] = "sync" /\ pc'[t] = "guard"
        /\ UNCHANGED <<idx, left, inflight, smem, todo, acc>>
    BY DEF Syncthreads, kvars
  <1>2. ASSUME NEW t \in Threads
        PROVE  Past(t) < KTiles /\ Past(t) = idx[t] /\ Past(t)' = Past(t) + 1
    BY <1>1 DEF Past, TC, Control
  <1>3. \A t \in Threads : inflight[t] = {}
    BY <1>1 DEF KI, CopiesInv
  <1>4. Lockstep'
    BY <1>2 DEF KI, Lockstep
  <1>5. CopiesInv'
    BY <1>1, <1>3 DEF CopiesInv
  <1>6. StagedInv'
    BY <1>1 DEF StagedInv, Issued, Staging
  <1>7. ASSUME NEW t \in Threads, NEW c \in Cells PROVE smem[Past(t) % 2][c] = Past(t)
    <2>1. PICK u \in Threads, j \in Chunks : c = <<u, j>>
      BY DEF Cells
    <2>2. Issued(u, j)
      BY <1>1, <1>2 DEF Issued, Staging
    <2>3. Past(u) = Past(t)
      BY DEF KI, Lockstep
    <2> QED
      BY <2>1, <2>2, <2>3, <1>3 DEF KI, StagedInv
  <1>8. ReadableInv'
    <2>1. ASSUME NEW t \in Threads PROVE Past(t)' - 1 = Past(t)
      BY <1>2, PastType
    <2> QED
      BY <1>1, <1>7, <2>1 DEF ReadableInv
  <1>9. SumInv'
    BY <1>1 DEF KI, SumInv
  <1> QED
    BY <1>4, <1>5, <1>6, <1>8, <1>9 DEF KI

LEMMA GuardInv ==
  ASSUME TC, KI, NEW t \in Threads, Guard(t) PROVE KI'
  <1> USE GemmAssumption DEF evars
  <1>1. /\ pc[t] = "guard" /\ left[t] = Copies /\ inflight[t] = {}
        /\ \A u \in Threads \ {t} : pc'[u] = pc[u] /\ todo'[u] = todo[u]
        /\ pc'[t] = IF idx[t] + 1 < KTiles THEN "stage" ELSE "math"
        /\ pc'[t] = "math" => todo'[t] = Cells
        /\ UNCHANGED <<idx, left, inflight, smem, acc>>
    <2>1. /\ pc[t] = "guard"
          /\ UNCHANGED <<idx, left, inflight, smem, acc>>
          /\ pc' = [pc EXCEPT ![t] = IF idx[t] + 1 < KTiles THEN "stage" ELSE "math"]
          /\ todo' = IF idx[t] + 1 < KTiles THEN todo ELSE [todo EXCEPT ![t] = Cells]
      BY DEF Guard, MoreToStage, Goto
    <2>2. left[t] = Copies /\ inflight[t] = {}
      BY <2>1 DEF TC, Control, Staging, KI, CopiesInv
    <2>3. /\ pc \in [Threads -> PC]
          /\ todo \in [Threads -> SUBSET Cells]
      BY DEF TC, TypeOK
    <2> QED
      BY <2>1, <2>2, <2>3
  <1>2. ASSUME NEW u \in Threads PROVE Past(u)' = Past(u)
    BY <1>1 DEF Past
  <1>3. Lockstep'
    BY <1>2 DEF KI, Lockstep
  <1>4. CopiesInv'
    BY <1>1, <1>2 DEF KI, CopiesInv
  <1>5. ASSUME NEW u \in Threads, NEW j \in Chunks, Issued(u, j)' PROVE u # t /\ Issued(u, j)
    <2>1. idx[t] \in Nat
      BY DEF TC, TypeOK
    <2> QED
      BY <1>1, <1>2, <1>5, <2>1 DEF Issued, Staging, Past, Chunks
  <1>6. StagedInv'
    BY <1>1, <1>2, <1>5 DEF KI, StagedInv
  <1>7. ReadableInv'
    BY <1>1, <1>2 DEF KI, ReadableInv
  <1>8. SumInv'
    BY <1>1 DEF KI, SumInv
  <1> QED
    BY <1>3, <1>4, <1>6, <1>7, <1>8 DEF KI

LEMMA MultiplyInv ==
  ASSUME TC, KI, NEW t \in Threads, Multiply(t) PROVE KI'
  <1> USE GemmAssumption DEF evars
  <1>1. PICK c \in todo[t] :
          /\ acc' = [acc EXCEPT ![t][c] = Append(@, smem[Src(idx[t])][c])]
          /\ todo' = [todo EXCEPT ![t] = @ \ {c}]
    BY DEF Multiply
  <1>2. pc[t] = "math" /\ UNCHANGED <<pc, idx, left, inflight, smem>>
    BY DEF Multiply
  <1>3. ASSUME NEW u \in Threads PROVE Past(u)' = Past(u)
    BY <1>2 DEF Past
  <1>4. Lockstep' /\ CopiesInv'
    BY <1>2, <1>3 DEF KI, Lockstep, CopiesInv
  <1>5. StagedInv'
    BY <1>2, <1>3 DEF KI, StagedInv, Issued
  <1>6. ReadableInv'
    BY <1>2, <1>3 DEF KI, ReadableInv
  <1>7. SumInv'
    <2>1. c \in Cells /\ idx[t] \in Nat
      BY DEF TC, TypeOK
    <2>2. smem[Src(idx[t])][c] = idx[t]
      <3>1. Past(t) = idx[t] + 1
        BY <1>2 DEF Past
      <3> QED
        BY <2>1, <3>1 DEF KI, ReadableInv, Src
    <2>3. Append(acc[t][c], smem[Src(idx[t])][c]) = Upto(idx[t] + 1)
      BY <2>1, <2>2, UptoAppend DEF KI, SumInv
    <2>4. ASSUME NEW u \in Threads, NEW d \in Cells
          PROVE  acc'[u][d] = IF u = t /\ d = c THEN Upto(idx[t] + 1) ELSE acc[u][d]
      BY <1>1, <2>1, <2>3 DEF TC, TypeOK, Sum
    <2>5. \A u \in Threads : todo'[u] = IF u = t THEN todo[t] \ {c} ELSE todo[u]
      BY <1>1 DEF TC, TypeOK
    <2> QED
      BY <1>2, <2>4, <2>5 DEF KI, SumInv
  <1> QED
    BY <1>4, <1>5, <1>6, <1>7 DEF KI

LEMMA NextTileInv ==
  ASSUME TC, KI, NEW t \in Threads, NextTile(t) PROVE KI'
  <1> USE GemmAssumption DEF evars
  <1>1. /\ pc[t] = "math" /\ pc'[t] = "loop" /\ todo[t] = {} /\ idx'[t] = idx[t] + 1
        /\ \A u \in Threads \ {t} : pc'[u] = pc[u] /\ idx'[u] = idx[u]
        /\ UNCHANGED <<left, inflight, smem, todo, acc>>
    BY DEF NextTile, Goto, TC, TypeOK
  <1>2. ASSUME NEW u \in Threads PROVE Past(u)' = Past(u)
    BY <1>1 DEF Past
  <1>3. Lockstep' /\ CopiesInv'
    BY <1>1, <1>2 DEF KI, Lockstep, CopiesInv, Staging
  <1>4. ASSUME NEW u \in Threads, NEW j \in Chunks, Issued(u, j)' PROVE Issued(u, j)
    BY <1>1, <1>2, <1>4 DEF Issued, Staging
  <1>5. StagedInv'
    BY <1>1, <1>2, <1>4 DEF KI, StagedInv
  <1>6. ReadableInv'
    BY <1>1, <1>2 DEF KI, ReadableInv
  <1>7. SumInv'
    BY <1>1 DEF KI, SumInv
  <1> QED
    BY <1>3, <1>5, <1>6, <1>7 DEF KI

-----------------------------------------------------------------------------
(* The epilogue.                                                           *)

\* What a thread does in the K loop does not disturb the epilogue of others.
LEMMA LoopKeepsEpilogue ==
  ASSUME TC, EInv, UNCHANGED evars,
         \A t \in Threads : pc'[t] = pc[t]
            \/ (pc[t] \notin Epilogue /\ (pc'[t] \notin Epilogue \/ pc'[t] = "band"))
  PROVE  EInv'
  <1> USE DEF evars
  <1>1. ASSUME NEW t \in Threads PROVE WPast(t)' = WPast(t)
    BY DEF WPast, Epilogue
  <1>2. WarpLockstep'
    BY <1>1 DEF EInv, WarpLockstep
  <1>3. ScratchInv'
    BY DEF EInv, ScratchInv, Epilogue, TC, Control
  <1>4. LanesInv'
    BY DEF EInv, LanesInv, Warp
  <1> QED
    BY <1>2, <1>3, <1>4 DEF EInv

LEMMA BandEInv ==
  ASSUME TC, EInv, NEW t \in Threads, BandTest(t) \/ NextBand(t) PROVE EInv'
  <1> USE DEF kvars
  <1>1. /\ \A u \in Threads \ {t} : pc'[u] = pc[u] /\ band'[u] = band[u]
        /\ \/ pc[t] = "band" /\ pc'[t] \in {"empty", "done"} /\ band'[t] = band[t]
           \/ pc[t] = "drain" /\ pc'[t] = "band" /\ band'[t] = band[t] + 1
        /\ UNCHANGED <<scratch, lanes>>
    BY DEF BandTest, NextBand, Goto, evars, TC, TypeOK
  <1>2. ASSUME NEW u \in Threads PROVE WPast(u)' = WPast(u)
    <2>1. band[t] \in Nat
      BY DEF TC, TypeOK
    <2> QED
      BY <1>1, <2>1 DEF WPast
  <1>3. WarpLockstep'
    BY <1>2 DEF EInv, WarpLockstep
  <1>4. ScratchInv'
    <2>1. band[t] \in Nat
      BY DEF TC, TypeOK
    <2>2. band[t] + 1 - 1 = band[t]
      BY <2>1
    <2>3. ASSUME NEW u \in Threads
          PROVE  /\ pc'[u] \in {"full", "drain"} => scratch[u] = Abstract!Product(band'[u])
                 /\ pc'[u] \in {"band", "empty", "done"} /\ band'[u] > 0
                      => scratch[u] = Abstract!Product(band'[u] - 1)
      <3>1. CASE u # t
        BY <3>1, <1>1 DEF EInv, ScratchInv
      <3>2. CASE u = t /\ pc[t] = "band"
        BY <3>2, <1>1 DEF EInv, ScratchInv
      <3>3. CASE u = t /\ pc[t] = "drain"
        <4>1. band'[t] = band[t] + 1 /\ pc'[t] = "band"
          BY <3>3, <1>1
        <4>2. scratch[t] = Abstract!Product(band[t])
          BY <3>3 DEF EInv, ScratchInv
        <4>3. band'[u] - 1 = band[t]
          <5>1. band'[u] = band[t] + 1
            BY <3>3, <4>1
          <5> QED
            BY <5>1, <2>1, <2>2
        <4>4. pc'[u] = "band"
          BY <3>3, <4>1
        <4> QED
          BY <3>3, <4>2, <4>3, <4>4
      <3> QED
        BY <3>1, <3>2, <3>3, <1>1
    <2> QED
      BY <1>1, <2>3 DEF ScratchInv
  <1>5. LanesInv'
    BY <1>1 DEF EInv, LanesInv, Warp
  <1> QED
    BY <1>3, <1>4, <1>5 DEF EInv

LEMMA StoreBandEInv ==
  ASSUME TC, KI, EInv, NEW t \in Threads, StoreBand(t) PROVE EInv'
  <1>1. /\ pc[t] = "store" /\ pc'[t] = "full"
        /\ \A u \in Threads \ {t} : pc'[u] = pc[u] /\ scratch'[u] = scratch[u]
        /\ scratch'[t] = [band |-> band[t], sum |-> acc[t]]
        /\ UNCHANGED <<band, lanes>>
    BY DEF StoreBand, Goto, TC, TypeOK
  <1>2. acc[t] = Abstract!Full
    <2>1. acc[t] = [c \in Cells |-> acc[t][c]]
      BY DEF TC, TypeOK, Sum
    <2>2. idx[t] = KTiles
      BY <1>1 DEF TC, Control, Epilogue
    <2>3. \A c \in Cells : acc[t][c] = Upto(KTiles)
      BY <1>1, <2>2 DEF KI, SumInv
    <2> HIDE DEF Upto
    <2> QED
      BY <2>1, <2>3, FullIsUpto
  <1>3. scratch'[t] = Abstract!Product(band[t])
    BY <1>1, <1>2 DEF Abstract!Product
  <1>4. WarpLockstep'
    <2>1. ASSUME NEW u \in Threads PROVE WPast(u)' = WPast(u)
      BY <1>1 DEF WPast
    <2> QED
      BY <2>1 DEF EInv, WarpLockstep
  <1>5. ScratchInv'
    BY <1>1, <1>3 DEF EInv, ScratchInv
  <1>6. LanesInv'
    BY <1>1 DEF EInv, LanesInv, Warp
  <1> QED
    BY <1>4, <1>5, <1>6 DEF EInv

LEMMA DrainEInv ==
  ASSUME TC, EInv, NEW t \in Threads, Drain(t) PROVE EInv'
  <1> USE DEF Drain
  <1>1. WarpLockstep' /\ ScratchInv'
    BY DEF EInv, WarpLockstep, WPast, ScratchInv
  <1>2. LanesInv'
    BY DEF EInv, LanesInv, Warp, TC, TypeOK
  <1> QED
    BY <1>1, <1>2 DEF EInv

LEMMA SyncwarpEInv ==
  ASSUME TC, EInv, NEW w \in Warps, Syncwarp(w) PROVE EInv'
  <1>1. /\ \A t \in Threads : WarpOf[t] # w => pc'[t] = pc[t] /\ lanes'[t] = lanes[t]
        /\ \A t \in Threads : WarpOf[t] = w =>
              \/ pc[t] = "empty" /\ pc'[t] = "store" /\ lanes'[t] = lanes[t]
              \/ pc[t] = "full" /\ pc'[t] = "drain" /\ lanes'[t] = Warp(t)
        /\ UNCHANGED <<band, scratch>>
    BY DEF Syncwarp
  <1>2. ASSUME NEW t \in Threads, NEW u \in Threads, WarpOf[t] = WarpOf[u] PROVE WPast(t)' = WPast(u)'
    <2>1. WPast(t) = WPast(u) /\ band[t] \in Nat /\ band[u] \in Nat
      BY <1>2 DEF EInv, WarpLockstep, TC, TypeOK
    <2>2. CASE WarpOf[t] # w
      BY <1>1, <1>2, <2>1, <2>2 DEF WPast
    <2>3. CASE WarpOf[t] = w
      <3>1. WPast(t)' = WPast(t) + 1
        BY <1>1, <2>1, <2>3 DEF WPast
      <3>2. WPast(u)' = WPast(u) + 1
        <4>1. WarpOf[u] = w
          BY <1>2, <2>3
        <4> QED
          BY <1>1, <2>1, <4>1 DEF WPast
      <3> QED
        BY <2>1, <3>1, <3>2
    <2> QED
      BY <2>2, <2>3
  <1>3. WarpLockstep'
    BY <1>2 DEF WarpLockstep
  <1>4. ScratchInv'
    BY <1>1 DEF EInv, ScratchInv
  <1>5. LanesInv'
    BY <1>1 DEF EInv, LanesInv, Warp
  <1> QED
    BY <1>3, <1>4, <1>5 DEF EInv

-----------------------------------------------------------------------------
(* The invariant of the block.                                             *)

Inv == TC /\ KI /\ EInv

LEMMA InitInv == Init => Inv
  <1> SUFFICES ASSUME Init PROVE Inv
    OBVIOUS
  <1> USE GemmAssumption
  <1>1. TC
    BY InitType DEF TC, Control, Init, Staging, Epilogue
  <1>2. Lockstep /\ CopiesInv /\ ReadableInv
    BY DEF Init, Lockstep, CopiesInv, ReadableInv, Past
  <1>3. StagedInv
    BY DEF Init, StagedInv, Issued, Staging, Chunks
  <1>4. SumInv
    BY DEF Init, SumInv, Upto, Abstract!Upto
  <1>5. EInv
    BY DEF Init, EInv, WarpLockstep, WPast, ScratchInv, LanesInv, Warp
  <1> QED
    BY <1>1, <1>2, <1>3, <1>4, <1>5 DEF Inv, KI

LEMMA StepInv == Inv /\ [Next]_vars => Inv'
  <1> SUFFICES ASSUME Inv, [Next]_vars PROVE Inv'
    OBVIOUS
  <1> USE DEF Inv
  <1>1. ASSUME NEW t \in Threads, KStep(t) \/ Deliver(t) PROVE Inv'
    <2>1. TC'
      BY <1>1, CopyType, CommitType, DeliverType, LoopType, MultiplyType DEF KStep
    <2>2. KI'
      BY <1>1, CopyInv, CommitInv, DeliverInv, LoopTestInv, GuardInv, MultiplyInv, NextTileInv DEF KStep
    <2>3. /\ UNCHANGED evars
          /\ \A u \in Threads : pc'[u] = pc[u]
               \/ (pc[u] \notin Epilogue /\ (pc'[u] \notin Epilogue \/ pc'[u] = "band"))
      BY <1>1 DEF KStep, Copy, Commit, Deliver, LoopTest, Wait, Guard, Multiply, NextTile, Goto,
                  Epilogue, TC, TypeOK
    <2>4. EInv'
      BY <2>3, LoopKeepsEpilogue
    <2> QED
      BY <2>1, <2>2, <2>4
  <1>2. CASE Syncthreads
    <2>1. /\ UNCHANGED evars
          /\ \A u \in Threads : pc[u] \notin Epilogue /\ pc'[u] \notin Epilogue
      BY <1>2 DEF Syncthreads, Epilogue
    <2> QED
      BY <1>2, <2>1, SyncthreadsType, SyncthreadsInv, LoopKeepsEpilogue
  <1>3. ASSUME NEW t \in Threads, EStep(t) PROVE Inv'
    <2>1. TC'
      BY <1>3, BandType, StoreBandType, DrainType DEF EStep
    <2>2. /\ UNCHANGED kvars
          /\ \A u \in Threads : pc'[u] = pc[u] \/ (pc[u] \in Epilogue /\ pc'[u] \in Epilogue)
      BY <1>3 DEF EStep, BandTest, StoreBand, Drain, NextBand, Goto, Epilogue, TC, TypeOK
    <2>3. KI'
      BY <2>2, EpilogueKeepsLoop
    <2>4. EInv'
      BY <1>3, BandEInv, StoreBandEInv, DrainEInv DEF EStep
    <2> QED
      BY <2>1, <2>3, <2>4
  <1>4. ASSUME NEW w \in Warps, Syncwarp(w) PROVE Inv'
    <2>1. /\ UNCHANGED kvars
          /\ \A u \in Threads : pc'[u] = pc[u] \/ (pc[u] \in Epilogue /\ pc'[u] \in Epilogue)
      BY <1>4 DEF Syncwarp, Epilogue
    <2> QED
      BY <1>4, <2>1, SyncwarpType, EpilogueKeepsLoop, SyncwarpEInv
  <1>5. CASE UNCHANGED vars
    <2>1. TC'
      BY <1>5, StutterType
    <2>2. KI'
      BY <1>5, EpilogueKeepsLoop DEF vars
    <2>3. EInv'
      BY <1>5, LoopKeepsEpilogue DEF vars
    <2> QED
      BY <2>1, <2>2, <2>3
  <1> QED
    BY <1>1, <1>2, <1>3, <1>4, <1>5 DEF Next

LEMMA AlwaysInv == Spec => []Inv
  BY InitInv, StepInv, PTL DEF Spec

-----------------------------------------------------------------------------
(* The theorems.                                                           *)

\* Every variable keeps its type.
THEOREM TypeCorrect == Spec => []TypeOK
  <1>1. Inv => TypeOK
    BY DEF Inv, TC
  <1> QED
    BY <1>1, AlwaysInv, PTL

\* One __syncthreads per tile and two __syncwarps per band keep copies,
\* reads and writes of shared memory apart, for any number of threads.
THEOREM RaceFree == Spec => []NoRace
  <1>1. Inv => NoRace
    <2> SUFFICES ASSUME Inv PROVE NoRace
      OBVIOUS
    <2> USE DEF Inv
    <2>1. ASSUME NEW t \in Threads, NEW u \in Threads, NEW c \in inflight[t], pc[u] = "math"
          PROVE  Src(idx[u]) # c.buf
      <3>1. c.buf = Past(u) % 2 /\ Past(u) = idx[u] + 1 /\ idx[u] \in Nat
        BY <2>1 DEF KI, CopiesInv, Lockstep, Past, TC, TypeOK
      <3> QED
        BY <3>1, Parity DEF Src
    <2>2. ASSUME NEW t \in Threads, NEW c \in inflight[t], NEW d \in inflight[t], c.chunk = d.chunk
          PROVE  c = d
      <3>1. c \in InFlightCopy /\ d \in InFlightCopy
        BY DEF TC, TypeOK
      <3>2. c.tile = d.tile /\ c.buf = d.buf /\ (c.committed <=> d.committed)
        BY DEF KI, CopiesInv
      <3>3. c.committed = d.committed
        BY <3>1, <3>2 DEF InFlightCopy
      <3> QED
        BY <2>2, <3>1, <3>2, <3>3 DEF InFlightCopy
    <2>3. ASSUME NEW t \in Threads, NEW u \in Threads, pc[t] = "drain", u \in lanes[t]
          PROVE  pc[u] # "store"
      <3>1. WPast(t) = WPast(u) /\ band[t] \in Nat /\ band[u] \in Nat
        BY <2>3 DEF EInv, LanesInv, Warp, WarpLockstep, TC, TypeOK
      <3> QED
        BY <2>3, <3>1 DEF WPast
    <2> QED
      BY <2>1, <2>2, <2>3 DEF NoRace
  <1> QED
    BY <1>1, AlwaysInv, PTL

\* An accumulator is the sum of exactly the tiles below the loop variable.
THEOREM SumsExact == Spec => []TilesExact
  <1>1. Inv => TilesExact
    BY DEF Inv, KI, SumInv, TilesExact, Upto
  <1> QED
    BY <1>1, AlwaysInv, PTL

\* No thread leaves the K loop with a copy in flight.
THEOREM Quiescent == Spec => []QuiescentAtExit
  <1>1. Inv => QuiescentAtExit
    <2> SUFFICES ASSUME Inv, NEW t \in Threads, pc[t] \in Epilogue, NEW c \in inflight[t]
                 PROVE  FALSE
      BY DEF QuiescentAtExit, Epilogue
    <2>1. c.tile = KTiles
      BY DEF Inv, KI, CopiesInv, TC, Control, Past, Epilogue
    <2>2. c.tile \in 0..KTiles-1
      BY DEF Inv, TC, TypeOK, InFlightCopy, Tiles
    <2> QED
      BY <2>1, <2>2, GemmAssumption
  <1> QED
    BY <1>1, AlwaysInv, PTL

\* The block implements its specification: what it stores in D is the sum
\* over all K tiles, whichever lane computed it and whichever stores it.
THEOREM ImplementsProduct == Spec => StoresProduct
  <1>1. Init => Abstract!Init
    BY DEF Init, Abstract!Init
  <1>2. Inv /\ [Next]_vars => [Abstract!Next]_out
    <2> SUFFICES ASSUME Inv, [Next]_vars, out' # out PROVE Abstract!Next
      OBVIOUS
    <2> USE DEF Inv
    <2>1. PICK t \in Threads : Drain(t)
      BY DEF Next, KStep, EStep, Copy, Commit, LoopTest, Wait, Guard, Multiply, NextTile, Deliver,
             Syncthreads, Syncwarp, BandTest, StoreBand, NextBand, vars, kvars, evars
    <2>2. PICK u \in lanes[t] : out' = [out EXCEPT ![t][band[t]][u] = scratch[u]]
      BY <2>1 DEF Drain
    <2>3. u \in Threads /\ WarpOf[t] = WarpOf[u] /\ pc[t] = "drain"
      BY <2>1 DEF Drain, EInv, LanesInv, Warp
    <2>4. band[t] \in 0..Bands-1
      BY <2>3, GemmAssumption DEF TC, TypeOK, Control
    <2>5. scratch[u] = Abstract!Product(band[t])
      <3>1. WPast(t) = WPast(u) /\ band[t] \in Nat /\ band[u] \in Nat
        BY <2>3 DEF EInv, WarpLockstep, TC, TypeOK
      <3>2. \/ pc[u] = "drain" /\ band[u] = band[t]
            \/ pc[u] \notin {"store", "full", "drain"} /\ band[u] = band[t] + 1
        <4>1. WPast(t) = 2 * band[t] + 2
          BY <2>3 DEF WPast
        <4>2. CASE pc[u] \in {"store", "full"}
          BY <3>1, <4>1, <4>2 DEF WPast
        <4>3. CASE pc[u] = "drain"
          <5>1. WPast(u) = 2 * band[u] + 2
            BY <4>3 DEF WPast
          <5> QED
            BY <3>1, <4>1, <4>3, <5>1, Halves
        <4>4. CASE pc[u] \notin {"store", "full", "drain"}
          <5>1. WPast(u) = 2 * band[u]
            BY <4>4 DEF WPast
          <5> QED
            <6>1. 2 * band[u] = 2 * band[t] + 2
              BY <3>1, <4>1, <5>1
            <6>2. band[u] = band[t] + 1
              BY <3>1, <6>1, Halves
            <6> QED
              BY <4>4, <6>2
        <4> QED
          BY <4>2, <4>3, <4>4
      <3>3. CASE pc[u] = "drain" /\ band[u] = band[t]
        BY <2>3, <3>3 DEF EInv, ScratchInv
      <3>4. CASE pc[u] \notin {"store", "full", "drain"} /\ band[u] = band[t] + 1
        <4>1. pc[u] \in {"band", "empty", "done"}
          BY <2>3, <3>1, <3>4 DEF TC, TypeOK, PC, Control, Epilogue
        <4>2. band[u] > 0 /\ band[u] - 1 = band[t]
          BY <3>1, <3>4
        <4> QED
          BY <2>3, <4>1, <4>2 DEF EInv, ScratchInv
      <3> QED
        BY <3>2, <3>3, <3>4
    <2>6. Abstract!Store(t, band[t], u)
      BY <2>2, <2>5 DEF Abstract!Store
    <2> QED
      BY <2>3, <2>4, <2>6 DEF Abstract!Next
  <1> QED
    BY <1>1, <1>2, AlwaysInv, PTL DEF Spec, StoresProduct, Abstract!Spec
=============================================================================
