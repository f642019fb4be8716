---------------------------- MODULE MCLockedHeap ----------------------------
(* Chunks of five bytes and objects of two: two objects and a wasted byte   *)
(* per chunk, at two adjacent addresses.                                    *)
EXTENDS LockedHeap

const_NoThread == 0
const_ChunkAddrs == {5, 10}
=============================================================================
