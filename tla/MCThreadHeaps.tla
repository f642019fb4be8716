--------------------------- MODULE MCThreadHeaps ---------------------------
(* Two threads whose ids are equal modulo the number of heaps: under       *)
(* ThreadHeap they share a heap, under ThreadSpecificHeap each has one.    *)
(* Caches of two objects, and a third object for the overflow.  One thread *)
(* may end, with objects in its cache or blocks in the hands of clients.   *)
EXTENDS ThreadHeaps

const_Threads == {1, 3}
const_Id == [t \in const_Threads |-> t]
=============================================================================
