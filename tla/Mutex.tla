------------------------------- MODULE Mutex -------------------------------
(***************************************************************************)
(* What every lock class of locks/ promises to the heap that holds one:    *)
(* lock() returns to one thread at a time, and only the thread that owns   *)
(* the lock gives it back.  It is the abstract specification SpinLock      *)
(* implements, and the model of the pthread mutex under PosixLockType,     *)
(* whose own code is not part of the repository.                           *)
(***************************************************************************)
CONSTANTS
  Threads,    \* the threads of the program
  NoThread    \* the owner of a free lock, not one of Threads

VARIABLE owner

Init == owner = NoThread

Acquire(t) == owner = NoThread /\ owner' = t

Release(t) == owner = t /\ owner' = NoThread

Next == \E t \in Threads : Acquire(t) \/ Release(t)

Spec == Init /\ [][Next]_owner
=============================================================================
