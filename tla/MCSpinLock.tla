----------------------------- MODULE MCSpinLock -----------------------------
(* Three threads on one spin lock, two spins before a yield. *)
EXTENDS SpinLock

const_Threads == 1 .. 3
const_NoThread == 0
=============================================================================
