----------------------------- MODULE MCMmapHeap -----------------------------
(* Pages of two bytes, blocks of one and of two pages, and a request whose *)
(* rounding wraps to 0.                                                    *)
EXTENDS MmapHeap

const_NoThread == 0
=============================================================================
