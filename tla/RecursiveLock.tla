---------------------------- MODULE RecursiveLock ----------------------------
(***************************************************************************)
(* RecursiveLockType<SpinLockType> (locks/recursivelock.h): a lock its     *)
(* owner may take again.  The class derives from the base lock and adds    *)
(* the owner's thread id and a recursion depth, both plain ints.           *)
(*                                                                         *)
(* lock() and unlock() read _tid without holding the base lock, a data     *)
(* race.  The value such a read may give is modelled by readable[t], the   *)
(* values of _tid thread t may still see: its own last write or the value  *)
(* published by the last release it acquired from, and everything other    *)
(* threads wrote since.                                                    *)
(***************************************************************************)
EXTENDS SpinLock, Integers

CONSTANTS
  PthreadSelf,   \* pthread_self() of each thread
  IntRange,      \* 2^32: the cast to unsigned int in getThreadId
  PageSize,      \* 2^12: the shift in getThreadId
  MaxDepth       \* bound: nested lock() calls of one thread

(* CPUInfo::getThreadId on Linux: the handle cut to an unsigned int, then  *)
(* shifted.                                                                *)
ThreadId(t) == (PthreadSelf[t] % IntRange) \div PageSize

NoTid == -1

(* The lock tells threads apart by getThreadId alone, so it is correct     *)
(* only while no two threads' control blocks share those address bits.     *)
ASSUME RecursiveLockAssumption ==
  /\ PthreadSelf \in [Threads -> Nat]
  /\ IntRange \in Nat \ {0}
  /\ PageSize \in Nat \ {0}
  /\ MaxDepth \in Nat \ {0}
  /\ \A t, u \in Threads : ThreadId(t) = ThreadId(u) => t = u

VARIABLES
  tid,        \* _tid
  depth,      \* _recursiveDepth
  readable,   \* the values of _tid each thread may read
  place,      \* where each thread is in lock() and unlock()
  nest        \* per thread: lock() calls returned, unlock() not yet called

ownVars == <<tid, depth, readable, place, nest>>
vars == <<lockVars, ownVars>>

Tids == {ThreadId(t) : t \in Threads} \union {NoTid}

Places == {"client", "base", "enter", "leave", "clear", "release", "abort"}

Init ==
  /\ LockInit
  /\ tid = NoTid
  /\ depth = 0
  /\ readable = [t \in Threads |-> {NoTid}]
  /\ place = [t \in Threads |-> "client"]
  /\ nest = [t \in Threads |-> 0]

Goto(t, where) == place' = [place EXCEPT ![t] = where]

(* A write to _tid: the writer sees it from now on, the others may. *)
WriteTid(t, v) ==
  /\ tid' = v
  /\ readable' = [u \in Threads |-> IF u = t THEN {v} ELSE readable[u] \union {v}]

-----------------------------------------------------------------------------
(* lock(): read _tid and compare it with the caller's id. *)
CallLock(t) ==
  /\ place[t] = "client" /\ nest[t] < MaxDepth
  /\ \E v \in readable[t] : Goto(t, IF v = ThreadId(t) THEN "enter" ELSE "base")
  /\ UNCHANGED <<lockVars, tid, depth, readable, nest>>

(* BaseLock::lock() and the steps it takes. *)
BaseLock(t) ==
  /\ place[t] = "base"
  /\ Lock(t) \/ Contend(t)
  /\ UNCHANGED ownVars

(* Seeded bug: the handle itself is stored, not the id made from it. *)
SetTidRaw(t) ==
  /\ place[t] = "base" /\ Holds(t)
  /\ WriteTid(t, PthreadSelf[t])
  /\ Goto(t, "enter")
  /\ UNCHANGED <<lockVars, depth, nest>>

(* lock(): _tid = currthread, once the base lock is held. *)
SetTid(t) ==
  /\ place[t] = "base" /\ Holds(t)
  /\ WriteTid(t, ThreadId(t))
  /\ Goto(t, "enter")
  /\ UNCHANGED <<lockVars, depth, nest>>

(* Seeded bug: a nested lock() forgets to count itself. *)
EnterOnce(t) ==
  /\ place[t] = "enter"
  /\ depth' = 1
  /\ nest' = [nest EXCEPT ![t] = @ + 1]
  /\ Goto(t, "client")
  /\ UNCHANGED <<lockVars, tid, readable>>

(* lock(): _recursiveDepth++, the end of both branches. *)
Enter(t) ==
  /\ place[t] = "enter"
  /\ depth' = depth + 1
  /\ nest' = [nest EXCEPT ![t] = @ + 1]
  /\ Goto(t, "client")
  /\ UNCHANGED <<lockVars, tid, readable>>

(* unlock(): called by a thread that has the lock.  Reading another id     *)
(* runs into assert(0) and abort().                                        *)
CallUnlock(t) ==
  /\ place[t] = "client" /\ nest[t] > 0
  /\ nest' = [nest EXCEPT ![t] = @ - 1]
  /\ \E v \in readable[t] : Goto(t, IF v = ThreadId(t) THEN "leave" ELSE "abort")
  /\ UNCHANGED <<lockVars, tid, depth, readable>>

(* Seeded bug: the base lock is released first, by the holder that then   *)
(* withdraws its id.                                                      *)
LeaveReleaseFirst(t) ==
  /\ place[t] = "leave"
  /\ depth' = depth - 1
  /\ IF depth = 1
       THEN Unlock(t) /\ Goto(t, "clear")
       ELSE UNCHANGED lockVars /\ Goto(t, "client")
  /\ UNCHANGED <<tid, readable, nest>>

(* Seeded bug: the lock is given back one unlock() early. *)
LeaveEarly(t) ==
  /\ place[t] = "leave"
  /\ depth' = depth - 1
  /\ Goto(t, IF depth <= 2 THEN "clear" ELSE "client")
  /\ UNCHANGED <<lockVars, tid, readable, nest>>

(* Seeded bug: the lock is given back one unlock() late. *)
LeaveLate(t) ==
  /\ place[t] = "leave"
  /\ depth' = depth - 1
  /\ Goto(t, IF depth = 0 THEN "clear" ELSE "client")
  /\ UNCHANGED <<lockVars, tid, readable, nest>>

(* unlock(): _recursiveDepth--, and the test for zero. *)
Leave(t) ==
  /\ place[t] = "leave"
  /\ depth' = depth - 1
  /\ Goto(t, IF depth = 1 THEN "clear" ELSE "client")
  /\ UNCHANGED <<lockVars, tid, readable, nest>>

(* Seeded bug: the id stays behind. *)
ClearTidForgotten(t) ==
  /\ place[t] = "clear"
  /\ Goto(t, "release")
  /\ UNCHANGED <<lockVars, tid, depth, readable, nest>>

(* unlock(): _tid = -1, before the base lock is released. *)
ClearTid(t) ==
  /\ place[t] = "clear"
  /\ WriteTid(t, NoTid)
  /\ Goto(t, "release")
  /\ UNCHANGED <<lockVars, depth, nest>>

(* unlock(): BaseLock::unlock(). *)
Release(t) ==
  /\ place[t] = "release"
  /\ Unlock(t)
  /\ Goto(t, "client")
  /\ UNCHANGED <<tid, depth, readable, nest>>

(* The steps inside lock() and unlock(). *)
Inside(t) ==
  BaseLock(t) \/ SetTid(t) \/ Enter(t) \/ Leave(t) \/ ClearTid(t) \/ Release(t)

Next == \E t \in Threads : CallLock(t) \/ CallUnlock(t) \/ Inside(t)

(* The scheduler never stops a thread inside lock() or unlock(), and a     *)
(* client that has the lock goes on to unlock it.                          *)
Fairness == \A t \in Threads :
  WF_vars(Inside(t)) /\ WF_vars(CallUnlock(t))

Spec == Init /\ [][Next]_vars

FairSpec == Spec /\ Fairness

-----------------------------------------------------------------------------
RecTypeOK ==
  /\ LockTypeOK
  /\ tid \in Tids
  /\ depth \in 0 .. MaxDepth
  /\ readable \in [Threads -> SUBSET Tids]
  /\ place \in [Threads -> Places]
  /\ nest \in [Threads -> 0 .. MaxDepth]

(* unlock() never reaches assert(0) and abort(): whatever other threads    *)
(* write to _tid around it, the owner reads its own id there.              *)
NeverAborts == \A t \in Threads : place[t] # "abort"

(* While its owner runs client code, _recursiveDepth is the number of      *)
(* unlock() calls the owner still has to make: the lock is given back by   *)
(* the matching unlock(), neither before nor after.                        *)
DepthMatchesNesting ==
  \A t \in Threads : place[t] = "client" /\ nest[t] > 0 => depth = nest[t]

(* A free base lock finds no owner and depth zero, so the next owner does  *)
(* not start with what the last one left behind.                           *)
FreeLockIsClean == ~mutex => tid = NoTid /\ depth = 0

(* Only the thread that holds the base lock can find its own id in _tid:   *)
(* the unlocked comparison at the top of lock() and unlock() is right for  *)
(* every value the racing read may give.                                   *)
OwnIdMeansHeld ==
  \A t \in Threads : ThreadId(t) \in readable[t] => Holds(t)

(* The owner the clients see: the thread inside its outermost lock().      *)
RecOwner == IF \E t \in Threads : nest[t] > 0
              THEN CHOOSE t \in Threads : nest[t] > 0
              ELSE NoThread

(* The recursive lock still implements the abstract lock: the outermost    *)
(* lock() acquires, its matching unlock() releases, nested calls stutter.  *)
RecursiveMutex == INSTANCE Mutex WITH owner <- RecOwner
ImplementsMutexRec == RecursiveMutex!Spec

(* A thread that called lock() gets it, or some other thread does: the     *)
(* order of "_tid = -1" and the release of the base lock leaves nobody     *)
(* waiting for a lock without an owner.                                    *)
LockReturns ==
  (\E t \in Threads : place[t] \in {"base", "enter"})
    ~> (\E t \in Threads : place[t] = "client" /\ nest[t] > 0)

-----------------------------------------------------------------------------
(* The inductive invariant, one conjunct per fact a step relies on. *)

(* Where a thread holds the base lock. *)
PlacesOfHolder == \A t \in Threads :
  /\ place[t] # "abort"
  /\ place[t] = "base" => nest[t] = 0
  /\ place[t] = "client" /\ nest[t] > 0 => Holds(t)
  /\ place[t] = "client" /\ nest[t] = 0 => spin[t] = "out"
  /\ place[t] \in {"enter", "leave", "clear", "release"} => Holds(t)
  /\ place[t] = "enter" => nest[t] < MaxDepth

(* Between SetTid and ClearTid, and only then, _tid names the holder. *)
Named(t) == Holds(t) /\ place[t] \notin {"base", "release"}

TidOfHolder == \A t \in Threads :
  /\ Named(t) => tid = ThreadId(t) /\ readable[t] = {ThreadId(t)}
  /\ Holds(t) /\ ~Named(t) => tid = NoTid
  /\ ThreadId(t) \in readable[t] => Named(t)

DepthOfHolder == \A t \in Threads : Holds(t) =>
  /\ depth = nest[t] + (IF place[t] = "leave" THEN 1 ELSE 0)
  /\ place[t] \in {"clear", "release"} => depth = 0

RecInv ==
  /\ RecTypeOK
  /\ MutualExclusion
  /\ FlagMeansHeld
  /\ PlacesOfHolder
  /\ TidOfHolder
  /\ DepthOfHolder
  /\ FreeLockIsClean
=============================================================================
