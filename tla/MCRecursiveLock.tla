--------------------------- MODULE MCRecursiveLock ---------------------------
(* Three threads, two nested calls each, one spin before a yield.  The      *)
(* handles are in three pages, one of them beyond the width of an int.      *)
EXTENDS RecursiveLock

const_Threads == 1 .. 3
const_NoThread == 0
const_PthreadSelf == <<5, 9, 46>>
=============================================================================
