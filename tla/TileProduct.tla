---------------------------- MODULE TileProduct ----------------------------
(***************************************************************************)
(* What a block of the SuperGEMM kernel promises: an output cell is either *)
(* untouched or holds the sum over all K tiles, each added once and in     *)
(* order.  This is gmatmul_single of the F* specification                  *)
(* (Kuiops.SuperGEMM.Mm.Spec, warp_matmul) with the numbers abstracted:    *)
(* a sum is the sequence of the tiles added to it, one per cell of the     *)
(* shared tile that is multiplied in.                                      *)
(***************************************************************************)
EXTENDS Naturals, Sequences

CONSTANTS Threads,    \* threads of the block
          Cells,      \* cells of a staged tile
          KTiles,     \* tiles along K
          Bands,      \* 16-row bands of a warp's accumulator
          None        \* an output cell not written yet

VARIABLE out          \* out[t][b][u]: what t stored from lane u's part of band b

\* The tiles 0 .. n-1 in the order the K loop adds them.
Upto(n) == [i \in 1..n |-> i - 1]

Full == [c \in Cells |-> Upto(KTiles)]

Product(b) == [band |-> b, sum |-> Full]

Init == out = [t \in Threads |-> [b \in 0..Bands-1 |-> [u \in Threads |-> None]]]

Store(t, b, u) == out' = [out EXCEPT ![t][b][u] = Product(b)]

Next == \E t, u \in Threads, b \in 0..Bands-1 : Store(t, b, u)

Spec == Init /\ [][Next]_out
=============================================================================
