------------------------ MODULE RecursiveLock_proofs ------------------------
(* The two locks.  The spin lock is mutually exclusive, and implements the *)
(* abstract lock, for every set of threads and every spinning bound.  The  *)
(* recursive lock never aborts, counts its nesting and implements the      *)
(* abstract lock, for every set of threads whose ids are distinct.         *)
EXTENDS RecursiveLock, TLAPS

-----------------------------------------------------------------------------
(* The spin lock.                                                          *)

USE SpinLockAssumption DEF SpinLockAssumption

(* LockInv holds of a lock nobody has touched. *)
LEMMA LockInitInv == LockInit => LockInv
<1> SUFFICES ASSUME LockInit PROVE LockInv
  OBVIOUS
<1>1. LockTypeOK
  <2>1. 0 \in 0 .. MaxSpin
    OBVIOUS
  <2> QED BY <2>1, Zenon DEF LockInit, LockTypeOK, SpinPlaces
<1>2. ~mutex /\ \A t \in Threads : ~Holds(t)
  BY DEF LockInit, Holds
<1> QED BY <1>1, <1>2 DEF LockInv, MutualExclusion, FlagMeansHeld

(* One exchange keeps every part of LockInv: it lets a thread in only when *)
(* the flag was down, and then nobody holds the lock.                      *)
LEMMA ExchangeKeeps ==
  ASSUME NEW t \in Threads, NEW otherwise \in SpinPlaces \ {"in"},
         LockInv, ~Holds(t), Exchange(t, otherwise),
         count' \in [Threads -> 0 .. MaxSpin]
  PROVE  LockInv'
<1>1. LockTypeOK'
  BY DEF LockInv, LockTypeOK, Exchange, SpinPlaces
<1>2. MutualExclusion'
  BY DEF LockInv, LockTypeOK, MutualExclusion, FlagMeansHeld, Holds, Exchange, SpinPlaces
<1>3. FlagMeansHeld'
  <2>1. CASE mutex
    <3>1. PICK u \in Threads : Holds(u)
      BY <2>1 DEF LockInv, FlagMeansHeld
    <3>2. u # t /\ Holds(u)'
      BY <2>1, <3>1 DEF LockInv, LockTypeOK, Holds, Exchange
    <3> QED BY <3>2 DEF FlagMeansHeld, Exchange
  <2>2. CASE ~mutex
    BY <2>2 DEF LockInv, LockTypeOK, FlagMeansHeld, Holds, Exchange
  <2> QED BY <2>1, <2>2
<1> QED BY <1>1, <1>2, <1>3 DEF LockInv

(* The steps in which no thread gets or gives back the lock. *)
LEMMA WaitKeeps ==
  ASSUME NEW t \in Threads, LockInv, SpinOnce(t) \/ YieldProcessor(t)
  PROVE  LockInv'
<1>1. /\ mutex' = mutex
      /\ \A u \in Threads : Holds(u)' <=> Holds(u)
      /\ spin' \in [Threads -> SpinPlaces]
      /\ count' \in [Threads -> 0 .. MaxSpin]
  BY DEF SpinOnce, YieldProcessor, LockInv, LockTypeOK, Holds, SpinPlaces
<1> QED BY <1>1 DEF LockInv, LockTypeOK, MutualExclusion, FlagMeansHeld

(* unlock() by the holder leaves nobody in and the flag down. *)
LEMMA UnlockKeeps ==
  ASSUME NEW t \in Threads, LockInv, Unlock(t)
  PROVE  LockInv' /\ \A u \in Threads : ~Holds(u)'
<1>1. \A u \in Threads : ~Holds(u)'
  BY DEF Unlock, Holds, LockInv, LockTypeOK, MutualExclusion
<1>2. LockTypeOK'
  BY DEF Unlock, LockInv, LockTypeOK, SpinPlaces
<1> QED BY <1>1, <1>2 DEF Unlock, LockInv, MutualExclusion, FlagMeansHeld

(* Every step of a thread in lock(), didLock() or unlock() keeps LockInv.  *)
LEMMA LockStepInv ==
  ASSUME NEW t \in Threads, LockInv,
         Lock(t) \/ DidLock(t) \/ Unlock(t) \/ Contend(t)
  PROVE  LockInv'
<1>1. CASE Lock(t)
  BY <1>1, ExchangeKeeps DEF Lock, LockInv, LockTypeOK, Holds, SpinPlaces
<1>2. CASE DidLock(t)
  BY <1>2, ExchangeKeeps DEF DidLock, LockInv, LockTypeOK, Holds, SpinPlaces
<1>3. CASE Unlock(t)
  BY <1>3, UnlockKeeps
<1>4. CASE ContendedExchange(t)
  <2>1. count' \in [Threads -> 0 .. MaxSpin]
    BY <1>4 DEF ContendedExchange, LockInv, LockTypeOK
  <2> QED BY <1>4, <2>1, ExchangeKeeps DEF ContendedExchange, Holds, SpinPlaces
<1>5. CASE SpinOnce(t) \/ YieldProcessor(t)
  BY <1>5, WaitKeeps
<1> QED BY <1>1, <1>2, <1>3, <1>4, <1>5 DEF Contend

(* LockInv is inductive. *)
THEOREM LockInvariant == LockSpec => []LockInv
<1>1. LockInv /\ [LockNext]_lockVars => LockInv'
  <2>1. ASSUME LockInv, LockNext PROVE LockInv'
    BY <2>1, LockStepInv DEF LockNext
  <2>2. ASSUME LockInv, UNCHANGED lockVars PROVE LockInv'
    BY <2>2 DEF lockVars, LockInv, LockTypeOK, MutualExclusion, FlagMeansHeld, Holds
  <2> QED BY <2>1, <2>2
<1> QED BY <1>1, LockInitInv, PTL DEF LockSpec

(* The variables of the lock keep their ranges; in particular the counter  *)
(* stops at MAX_SPIN, so the test for equality after the loop is enough.   *)
THEOREM LockTypeCorrect == LockSpec => []LockTypeOK
BY LockInvariant, PTL DEF LockInv

(* lock() and didLock() let one thread in at a time. *)
THEOREM LockIsMutuallyExclusive == LockSpec => []MutualExclusion
BY LockInvariant, PTL DEF LockInv

(* The flag is never left up without a holder. *)
THEOREM LockFlagMeansHeld == LockSpec => []FlagMeansHeld
BY LockInvariant, PTL DEF LockInv

-----------------------------------------------------------------------------
(* Under LockInv the owner is the thread that holds the lock, if any. *)
LEMMA OwnerOfHeld ==
  ASSUME MutualExclusion, NEW t \in Threads, Holds(t)
  PROVE  Owner = t
BY DEF MutualExclusion, Owner

LEMMA OwnerOfFree ==
  ASSUME \A t \in Threads : ~Holds(t)
  PROVE  Owner = NoThread
BY DEF Owner

(* Every step of the spin lock is a step of the abstract lock or leaves    *)
(* its owner alone.                                                        *)
LEMMA LockStepRefines ==
  ASSUME LockInv, LockInv', [LockNext]_lockVars
  PROVE  [AbstractMutex!Next]_Owner
<1>1. ASSUME NEW t \in Threads, NEW otherwise \in SpinPlaces \ {"in"},
             ~Holds(t), Exchange(t, otherwise)
      PROVE  AbstractMutex!Acquire(t) \/ Owner' = Owner
  <2>1. CASE mutex
    <3>1. PICK u \in Threads : Holds(u)
      BY <2>1 DEF LockInv, FlagMeansHeld
    <3>2. Holds(u)'
      BY <1>1, <2>1, <3>1 DEF LockInv, LockTypeOK, Holds, Exchange
    <3>3. Owner = u
      BY <3>1, OwnerOfHeld DEF LockInv
    <3>4. Owner' = u
      BY <3>2 DEF LockInv, MutualExclusion, Owner
    <3> QED BY <3>3, <3>4
  <2>2. CASE ~mutex
    <3>1. Owner = NoThread
      BY <2>2, OwnerOfFree DEF LockInv, FlagMeansHeld
    <3>2. Holds(t)'
      BY <1>1, <2>2 DEF LockInv, LockTypeOK, Holds, Exchange
    <3>3. Owner' = t
      BY <3>2 DEF LockInv, MutualExclusion, Owner
    <3> QED BY <3>1, <3>3 DEF AbstractMutex!Acquire
  <2> QED BY <2>1, <2>2
<1>2. ASSUME NEW t \in Threads, Lock(t) \/ DidLock(t) \/ ContendedExchange(t)
      PROVE  AbstractMutex!Acquire(t) \/ Owner' = Owner
  BY <1>1, <1>2 DEF Lock, DidLock, ContendedExchange, Holds, SpinPlaces
<1>3. ASSUME NEW t \in Threads, Unlock(t)
      PROVE  AbstractMutex!Release(t)
  <2>1. Owner = t
    BY <1>3, OwnerOfHeld DEF Unlock, LockInv
  <2>2. Owner' = NoThread
    <3>1. \A u \in Threads : ~Holds(u)'
      BY <1>3, UnlockKeeps
    <3> QED BY <3>1 DEF Owner
  <2> QED BY <2>1, <2>2 DEF AbstractMutex!Release
<1>4. ASSUME NEW t \in Threads, SpinOnce(t) \/ YieldProcessor(t)
      PROVE  Owner' = Owner
  <2>1. \A u \in Threads : Holds(u)' <=> Holds(u)
    BY <1>4 DEF SpinOnce, YieldProcessor, LockInv, LockTypeOK, Holds
  <2>2. CASE \E u \in Threads : Holds(u)
    <3>1. PICK u \in Threads : Holds(u)
      BY <2>2
    <3>2. Owner = u
      BY <3>1, OwnerOfHeld DEF LockInv
    <3>3. Owner' = u
      BY <2>1, <3>1 DEF LockInv, MutualExclusion, Owner
    <3> QED BY <3>2, <3>3
  <2>3. CASE ~\E u \in Threads : Holds(u)
    BY <2>1, <2>3 DEF Owner
  <2> QED BY <2>2, <2>3
<1>5. ASSUME UNCHANGED lockVars PROVE Owner' = Owner
  BY <1>5 DEF lockVars, Owner, Holds
<1> QED
  BY <1>2, <1>3, <1>4, <1>5 DEF LockNext, Contend, AbstractMutex!Next

(* The spin lock implements the abstract lock that PosixLockType, too,     *)
(* stands for: a heap cannot tell the two apart.                           *)
THEOREM LockImplementsMutex == LockSpec => ImplementsMutex
<1>1. LockInit => AbstractMutex!Init
  BY OwnerOfFree DEF LockInit, Holds, AbstractMutex!Init
<1>2. LockInv /\ LockInv' /\ [LockNext]_lockVars => [AbstractMutex!Next]_Owner
  BY LockStepRefines
<1> QED
  BY <1>1, <1>2, LockInvariant, PTL DEF LockSpec, ImplementsMutex, AbstractMutex!Spec

-----------------------------------------------------------------------------
(* The recursive lock.                                                     *)

USE RecursiveLockAssumption DEF RecursiveLockAssumption

(* Thread ids are numbers, so none of them is the id of "no owner". *)
LEMMA ThreadIdType ==
  ASSUME NEW t \in Threads
  PROVE  ThreadId(t) \in Tids /\ ThreadId(t) # NoTid
<1>1. PthreadSelf[t] \in Nat
  OBVIOUS
<1>2. PthreadSelf[t] % IntRange \in 0 .. IntRange - 1
  BY <1>1
<1>3. ThreadId(t) \in Nat
  BY <1>2 DEF ThreadId
<1> QED BY <1>3 DEF Tids, NoTid

LEMMA RecInitInv == Init => RecInv
<1> SUFFICES ASSUME Init PROVE RecInv
  OBVIOUS
<1>1. LockTypeOK /\ MutualExclusion /\ FlagMeansHeld
  BY LockInitInv DEF Init, LockInv
<1>2. \A t \in Threads : ~Holds(t)
  BY DEF Init, LockInit, Holds
<1>3. RecTypeOK
  BY <1>1 DEF Init, RecTypeOK, Tids, Places
<1>4. PlacesOfHolder
  <2>1. \A t \in Threads : place[t] = "client" /\ nest[t] = 0 /\ spin[t] = "out"
    BY DEF Init, LockInit
  <2>2. ~(0 > 0)
    OBVIOUS
  <2> QED BY <2>1, <2>2, Zenon DEF PlacesOfHolder
<1>5. TidOfHolder
  BY <1>2, ThreadIdType DEF Init, TidOfHolder, Named
<1>6. DepthOfHolder /\ FreeLockIsClean
  BY <1>2 DEF Init, DepthOfHolder, FreeLockIsClean
<1> QED BY <1>1, <1>3, <1>4, <1>5, <1>6 DEF RecInv

-----------------------------------------------------------------------------
(* Steps on the base lock, which leave the fields of the class alone.      *)
LEMMA BaseLockKeeps ==
  ASSUME RecInv, NEW t \in Threads, BaseLock(t)
  PROVE  RecInv'
<1>1. LockInv'
  BY LockStepInv DEF BaseLock, RecInv, RecTypeOK, LockInv
<1>2. /\ place[t] = "base" /\ ~Holds(t)
      /\ UNCHANGED <<tid, depth, readable, place, nest>>
      /\ \A u \in Threads \ {t} : spin'[u] = spin[u]
  BY DEF BaseLock, ownVars, Lock, Contend, ContendedExchange, SpinOnce,
         YieldProcessor, Exchange, Holds, RecInv, RecTypeOK, LockTypeOK
<1>3. Holds(t)' => ~mutex
  BY DEF BaseLock, Lock, Contend, ContendedExchange, SpinOnce, YieldProcessor,
         Exchange, Holds, RecInv, RecTypeOK, LockTypeOK
<1>4. mutex => mutex'
  BY DEF BaseLock, Lock, Contend, ContendedExchange, SpinOnce, YieldProcessor, Exchange
<1>5. RecTypeOK'
  BY <1>1, <1>2 DEF RecInv, RecTypeOK, LockInv
<1>6. PlacesOfHolder'
  BY <1>2 DEF RecInv, PlacesOfHolder, Holds
<1>7. TidOfHolder'
  BY <1>2, <1>3 DEF RecInv, TidOfHolder, Named, Holds, FreeLockIsClean
<1>8. DepthOfHolder'
  BY <1>2, <1>3 DEF RecInv, RecTypeOK, DepthOfHolder, PlacesOfHolder, Holds, FreeLockIsClean
<1>9. FreeLockIsClean'
  BY <1>2, <1>4 DEF RecInv, FreeLockIsClean
<1> QED BY <1>1, <1>5, <1>6, <1>7, <1>8, <1>9 DEF RecInv, LockInv

(* Steps on the fields, which leave the base lock alone: what LockInv says *)
(* carries over.                                                           *)
LEMMA LockUntouched ==
  ASSUME RecInv, UNCHANGED lockVars
  PROVE  /\ LockTypeOK' /\ MutualExclusion' /\ FlagMeansHeld'
         /\ \A u \in Threads : Holds(u)' <=> Holds(u)
BY DEF lockVars, RecInv, RecTypeOK, LockTypeOK, MutualExclusion, FlagMeansHeld, Holds

LEMMA CallLockKeeps ==
  ASSUME RecInv, NEW t \in Threads, CallLock(t)
  PROVE  RecInv'
<1> USE DEF RecInv, RecTypeOK
<1>1. LockTypeOK' /\ MutualExclusion' /\ FlagMeansHeld'
  BY LockUntouched DEF CallLock
<1>2. PICK v \in readable[t] :
        place' = [place EXCEPT ![t] = IF v = ThreadId(t) THEN "enter" ELSE "base"]
  BY DEF CallLock, Goto
<1>3. /\ UNCHANGED <<mutex, spin, tid, depth, readable, nest>>
      /\ place[t] = "client" /\ nest[t] < MaxDepth
  BY DEF CallLock, lockVars
<1>4. v = ThreadId(t) <=> Holds(t)
  BY <1>2, <1>3 DEF TidOfHolder, Named
<1>5. RecTypeOK'
  BY <1>1, <1>2, <1>3 DEF Places
<1>6. PlacesOfHolder'
  <2>1. nest[t] > 0 <=> Holds(t)
    BY <1>3 DEF PlacesOfHolder, Holds
  <2> QED BY <1>2, <1>3, <1>4, <2>1 DEF PlacesOfHolder, Places, Holds
<1>7. TidOfHolder'
  BY <1>2, <1>3, <1>4 DEF TidOfHolder, Named, Holds
<1>8. DepthOfHolder' /\ FreeLockIsClean'
  BY <1>2, <1>3 DEF DepthOfHolder, FreeLockIsClean, Holds
<1> QED BY <1>1, <1>5, <1>6, <1>7, <1>8

LEMMA SetTidKeeps ==
  ASSUME RecInv, NEW t \in Threads, SetTid(t)
  PROVE  RecInv'
<1> USE DEF RecInv, RecTypeOK
<1>1. LockTypeOK' /\ MutualExclusion' /\ FlagMeansHeld'
  BY LockUntouched DEF SetTid
<1>2. /\ UNCHANGED <<mutex, spin, depth, nest>>
      /\ place[t] = "base" /\ Holds(t)
      /\ tid' = ThreadId(t)
      /\ readable' = [u \in Threads |-> IF u = t THEN {ThreadId(t)}
                                          ELSE readable[u] \union {ThreadId(t)}]
      /\ place' = [place EXCEPT ![t] = "enter"]
  BY DEF SetTid, lockVars, WriteTid, Goto
<1>3. \A u \in Threads : Holds(u) => u = t
  BY <1>2 DEF MutualExclusion
<1>4. mutex
  BY <1>2 DEF FlagMeansHeld
<1>5. RecTypeOK'
  BY <1>1, <1>2, ThreadIdType DEF Places
<1>6. PlacesOfHolder'
  BY <1>2 DEF PlacesOfHolder, Holds
<1>7. TidOfHolder'
  BY <1>2, <1>3 DEF TidOfHolder, Named, Holds
<1>8. DepthOfHolder' /\ FreeLockIsClean'
  BY <1>2, <1>3, <1>4 DEF DepthOfHolder, FreeLockIsClean, Holds
<1> QED BY <1>1, <1>5, <1>6, <1>7, <1>8

LEMMA EnterKeeps ==
  ASSUME RecInv, NEW t \in Threads, Enter(t)
  PROVE  RecInv'
<1> USE DEF RecInv, RecTypeOK
<1>1. LockTypeOK' /\ MutualExclusion' /\ FlagMeansHeld'
  BY LockUntouched DEF Enter
<1>2. /\ UNCHANGED <<mutex, spin, tid, readable>>
      /\ place[t] = "enter" /\ Holds(t) /\ nest[t] < MaxDepth
      /\ depth' = depth + 1
      /\ nest' = [nest EXCEPT ![t] = @ + 1]
      /\ place' = [place EXCEPT ![t] = "client"]
  BY DEF Enter, lockVars, Goto, PlacesOfHolder
<1>3. \A u \in Threads : Holds(u) => u = t
  BY <1>2 DEF MutualExclusion
<1>4. depth = nest[t] /\ mutex
  BY <1>2 DEF DepthOfHolder, FlagMeansHeld
<1>5. RecTypeOK'
  BY <1>1, <1>2, <1>4 DEF Places
<1>6. PlacesOfHolder'
  BY <1>2 DEF PlacesOfHolder, Holds
<1>7. TidOfHolder'
  BY <1>2 DEF TidOfHolder, Named, Holds
<1>8. DepthOfHolder' /\ FreeLockIsClean'
  BY <1>2, <1>3, <1>4 DEF DepthOfHolder, FreeLockIsClean, Holds
<1> QED BY <1>1, <1>5, <1>6, <1>7, <1>8

(* unlock() never takes the aborting branch: the caller's read gives its   *)
(* own id.                                                                 *)
LEMMA CallUnlockKeeps ==
  ASSUME RecInv, NEW t \in Threads, CallUnlock(t)
  PROVE  RecInv'
<1> USE DEF RecInv, RecTypeOK
<1>1. LockTypeOK' /\ MutualExclusion' /\ FlagMeansHeld'
  BY LockUntouched DEF CallUnlock
<1>2. /\ UNCHANGED <<mutex, spin, tid, depth, readable>>
      /\ place[t] = "client" /\ nest[t] > 0
      /\ nest' = [nest EXCEPT ![t] = @ - 1]
  BY DEF CallUnlock, lockVars
<1>3. Holds(t)
  BY <1>2 DEF PlacesOfHolder, Holds
<1>4. readable[t] = {ThreadId(t)}
  BY <1>2, <1>3 DEF TidOfHolder, Named
<1>5. place' = [place EXCEPT ![t] = "leave"]
  BY <1>4 DEF CallUnlock, Goto
<1>6. \A u \in Threads : Holds(u) => u = t
  BY <1>3 DEF MutualExclusion
<1>7. RecTypeOK'
  BY <1>1, <1>2, <1>5 DEF Places
<1>8. PlacesOfHolder'
  BY <1>2, <1>3, <1>5 DEF PlacesOfHolder, Holds
<1>9. TidOfHolder'
  BY <1>2, <1>5 DEF TidOfHolder, Named, Holds
<1>10. DepthOfHolder' /\ FreeLockIsClean'
  BY <1>2, <1>3, <1>5, <1>6 DEF DepthOfHolder, FreeLockIsClean, Holds
<1> QED BY <1>1, <1>7, <1>8, <1>9, <1>10

LEMMA LeaveKeeps ==
  ASSUME RecInv, NEW t \in Threads, Leave(t)
  PROVE  RecInv'
<1> USE DEF RecInv, RecTypeOK
<1>1. LockTypeOK' /\ MutualExclusion' /\ FlagMeansHeld'
  BY LockUntouched DEF Leave
<1>2. /\ UNCHANGED <<mutex, spin, tid, readable, nest>>
      /\ place[t] = "leave" /\ Holds(t)
      /\ depth' = depth - 1
      /\ place' = [place EXCEPT ![t] = IF depth = 1 THEN "clear" ELSE "client"]
  BY DEF Leave, lockVars, Goto, PlacesOfHolder
<1>3. \A u \in Threads : Holds(u) => u = t
  BY <1>2 DEF MutualExclusion
<1>4. depth = nest[t] + 1 /\ nest[t] \in Nat /\ mutex
  BY <1>2 DEF DepthOfHolder, FlagMeansHeld
<1>5. RecTypeOK'
  BY <1>1, <1>2, <1>4 DEF Places
<1>6. PlacesOfHolder'
  BY <1>2, <1>4 DEF PlacesOfHolder, Holds
<1>7. TidOfHolder'
  BY <1>2 DEF TidOfHolder, Named, Holds
<1>8. DepthOfHolder' /\ FreeLockIsClean'
  BY <1>2, <1>3, <1>4 DEF DepthOfHolder, FreeLockIsClean, Holds
<1> QED BY <1>1, <1>5, <1>6, <1>7, <1>8

(* The id is withdrawn before the base lock is, so no thread is named      *)
(* owner of a lock it lost.                                                *)
LEMMA ClearTidKeeps ==
  ASSUME RecInv, NEW t \in Threads, ClearTid(t)
  PROVE  RecInv'
<1> USE DEF RecInv, RecTypeOK
<1>1. LockTypeOK' /\ MutualExclusion' /\ FlagMeansHeld'
  BY LockUntouched DEF ClearTid
<1>2. /\ UNCHANGED <<mutex, spin, depth, nest>>
      /\ place[t] = "clear" /\ Holds(t)
      /\ tid' = NoTid
      /\ readable' = [u \in Threads |-> IF u = t THEN {NoTid}
                                          ELSE readable[u] \union {NoTid}]
      /\ place' = [place EXCEPT ![t] = "release"]
  BY DEF ClearTid, lockVars, WriteTid, Goto, PlacesOfHolder
<1>3. \A u \in Threads : Holds(u) => u = t
  BY <1>2 DEF MutualExclusion
<1>4. mutex
  BY <1>2 DEF FlagMeansHeld
<1>5. RecTypeOK'
  BY <1>1, <1>2 DEF Places, Tids
<1>6. PlacesOfHolder'
  BY <1>2 DEF PlacesOfHolder, Holds
<1>7. TidOfHolder'
  BY <1>2, <1>3, ThreadIdType DEF TidOfHolder, Named, Holds
<1>8. DepthOfHolder' /\ FreeLockIsClean'
  BY <1>2, <1>3, <1>4 DEF DepthOfHolder, FreeLockIsClean, Holds
<1> QED BY <1>1, <1>5, <1>6, <1>7, <1>8

LEMMA ReleaseKeeps ==
  ASSUME RecInv, NEW t \in Threads, Release(t)
  PROVE  RecInv'
<1> USE DEF RecInv, RecTypeOK
<1>1. LockInv' /\ \A u \in Threads : ~Holds(u)'
  BY UnlockKeeps DEF Release, LockInv
<1>2. /\ UNCHANGED <<tid, depth, readable, nest>>
      /\ place[t] = "release" /\ Holds(t)
      /\ spin' = [spin EXCEPT ![t] = "out"]
      /\ place' = [place EXCEPT ![t] = "client"]
  BY DEF Release, Goto, Unlock
<1>3. tid = NoTid /\ depth = 0 /\ nest[t] = 0
  BY <1>2 DEF TidOfHolder, Named, DepthOfHolder
<1>4. RecTypeOK'
  BY <1>1, <1>2 DEF Places, LockInv
<1>5. PlacesOfHolder'
  BY <1>2, <1>3 DEF PlacesOfHolder, Holds, LockTypeOK
<1>6. TidOfHolder'
  <2>1. ASSUME NEW u \in Threads PROVE ThreadId(u) \notin readable[u]
    <3>1. CASE u = t
      BY <1>2, <3>1 DEF TidOfHolder, Named
    <3>2. CASE u # t
      BY <1>2, <3>2 DEF TidOfHolder, Named, MutualExclusion
    <3> QED BY <3>1, <3>2
  <2> QED BY <1>1, <1>2, <2>1 DEF TidOfHolder, Named
<1>7. DepthOfHolder' /\ FreeLockIsClean'
  BY <1>1, <1>2, <1>3 DEF DepthOfHolder, FreeLockIsClean
<1> QED BY <1>1, <1>4, <1>5, <1>6, <1>7 DEF LockInv

(* RecInv is inductive. *)
LEMMA RecStepInv == RecInv /\ [Next]_vars => RecInv'
<1>1. ASSUME RecInv, NEW t \in Threads, CallLock(t) \/ CallUnlock(t) \/ Inside(t)
      PROVE  RecInv'
  BY <1>1, CallLockKeeps, CallUnlockKeeps, BaseLockKeeps, SetTidKeeps, EnterKeeps,
     LeaveKeeps, ClearTidKeeps, ReleaseKeeps DEF Inside
<1>2. ASSUME RecInv, UNCHANGED vars PROVE RecInv'
  <2>1. UNCHANGED <<mutex, spin, count, tid, depth, readable, place, nest>>
    BY <1>2 DEF vars, lockVars, ownVars
  <2> QED
    BY <1>2, <2>1 DEF RecInv, RecTypeOK, LockTypeOK, MutualExclusion, FlagMeansHeld,
       PlacesOfHolder, TidOfHolder, Named, DepthOfHolder, FreeLockIsClean, Holds
<1> QED BY <1>1, <1>2 DEF Next

(* The strengthening the theorems below are read off from. *)
THEOREM RecInvariant == Spec => []RecInv
BY RecInitInv, RecStepInv, PTL DEF Spec

(* The fields of the class keep their ranges: the depth never goes below   *)
(* zero, and _tid is a thread's id or -1.                                  *)
THEOREM RecTypeCorrect == Spec => []RecTypeOK
BY RecInvariant, PTL DEF RecInv

(* No unlock() by the owner reaches abort(), for any racing write to _tid. *)
THEOREM UnlockNeverAborts == Spec => []NeverAborts
<1>1. RecInv => NeverAborts
  BY DEF RecInv, PlacesOfHolder, NeverAborts
<1> QED BY <1>1, RecInvariant, PTL

(* A thread that finds its own id in _tid has the lock: the re-entry test  *)
(* needs no synchronisation.                                               *)
THEOREM UnlockedTestIsRight == Spec => []OwnIdMeansHeld
<1>1. RecInv => OwnIdMeansHeld
  BY DEF RecInv, TidOfHolder, Named, OwnIdMeansHeld
<1> QED BY <1>1, RecInvariant, PTL

(* The depth counts the unlock() calls the owner still owes. *)
THEOREM DepthCountsNesting == Spec => []DepthMatchesNesting
<1>1. RecInv => DepthMatchesNesting
  BY DEF RecInv, RecTypeOK, PlacesOfHolder, DepthOfHolder, DepthMatchesNesting
<1> QED BY <1>1, RecInvariant, PTL

(* A lock that is free carries no trace of its last owner. *)
THEOREM FreeRecursiveLockIsClean == Spec => []FreeLockIsClean
BY RecInvariant, PTL DEF RecInv

-----------------------------------------------------------------------------
(* A thread inside its outermost lock() holds the base lock, so at most    *)
(* one thread is.                                                          *)
LEMMA NestedHolds ==
  ASSUME RecInv, NEW t \in Threads, nest[t] > 0
  PROVE  Holds(t)
BY DEF RecInv, RecTypeOK, PlacesOfHolder, Places

LEMMA RecOwnerOfHeld ==
  ASSUME RecInv, NEW t \in Threads, nest[t] > 0
  PROVE  RecOwner = t
<1>1. \A u \in Threads : nest[u] > 0 => u = t
  BY NestedHolds DEF RecInv, MutualExclusion
<1> QED BY <1>1 DEF RecOwner

(* The owner changes only where nest does, at the two ends of the          *)
(* outermost lock() and unlock().                                          *)
LEMMA RecStepRefines ==
  ASSUME RecInv, RecInv', [Next]_vars
  PROVE  [RecursiveMutex!Next]_RecOwner
<1>1. ASSUME NEW t \in Threads, Enter(t)
      PROVE  [RecursiveMutex!Next]_RecOwner
  <2>1. nest' = [nest EXCEPT ![t] = @ + 1] /\ Holds(t)
    BY <1>1 DEF Enter, RecInv, PlacesOfHolder
  <2>2. nest[t] \in Nat /\ nest'[t] = nest[t] + 1
    BY <2>1 DEF RecInv, RecTypeOK
  <2>3. RecOwner' = t
    <3>1. nest'[t] > 0
      BY <2>2
    <3>2. \A u \in Threads : nest'[u] > 0 => u = t
      <4>1. \A u \in Threads : Holds(u) => u = t
        BY <2>1 DEF RecInv, MutualExclusion
      <4>2. \A u \in Threads \ {t} : nest'[u] = nest[u]
        BY <2>1 DEF RecInv, RecTypeOK
      <4> QED BY <4>1, <4>2, NestedHolds
    <3> QED BY <3>1, <3>2 DEF RecOwner
  <2>4. CASE nest[t] > 0
    BY <2>3, <2>4, RecOwnerOfHeld
  <2>5. CASE ~(nest[t] > 0)
    <3>1. \A u \in Threads : ~(nest[u] > 0)
      BY <2>1, <2>5, NestedHolds DEF RecInv, MutualExclusion
    <3>2. RecOwner = NoThread
      BY <3>1 DEF RecOwner
    <3> QED BY <2>3, <3>2 DEF RecursiveMutex!Next, RecursiveMutex!Acquire
  <2> QED BY <2>4, <2>5
<1>2. ASSUME NEW t \in Threads, CallUnlock(t)
      PROVE  [RecursiveMutex!Next]_RecOwner
  <2>1. nest' = [nest EXCEPT ![t] = @ - 1] /\ nest[t] > 0
    BY <1>2 DEF CallUnlock
  <2>2. nest[t] \in Nat /\ nest'[t] = nest[t] - 1
    BY <2>1 DEF RecInv, RecTypeOK
  <2>3. RecOwner = t
    BY <2>1, RecOwnerOfHeld
  <2>4. \A u \in Threads \ {t} : ~(nest'[u] > 0)
    <3>1. \A u \in Threads \ {t} : nest'[u] = nest[u]
      BY <2>1 DEF RecInv, RecTypeOK
    <3> QED BY <3>1, <2>1, NestedHolds DEF RecInv, MutualExclusion
  <2>5. CASE nest'[t] > 0
    BY <2>3, <2>4, <2>5 DEF RecOwner
  <2>6. CASE ~(nest'[t] > 0)
    <3>1. RecOwner' = NoThread
      BY <2>4, <2>6 DEF RecOwner
    <3> QED BY <2>3, <3>1 DEF RecursiveMutex!Next, RecursiveMutex!Release
  <2> QED BY <2>5, <2>6
<1>3. ASSUME UNCHANGED nest PROVE RecOwner' = RecOwner
  BY <1>3 DEF RecOwner
<1>4. ASSUME NEW t \in Threads,
             \/ CallLock(t) \/ BaseLock(t) \/ SetTid(t)
             \/ Leave(t) \/ ClearTid(t) \/ Release(t)
      PROVE  UNCHANGED nest
  BY <1>4 DEF CallLock, BaseLock, ownVars, SetTid, Leave, ClearTid, Release
<1>5. ASSUME UNCHANGED vars PROVE UNCHANGED nest
  BY <1>5 DEF vars, ownVars
<1> QED BY <1>1, <1>2, <1>3, <1>4, <1>5 DEF Next, Inside

(* The recursive lock implements the abstract lock. *)
THEOREM RecursiveLockImplementsMutex == Spec => ImplementsMutexRec
<1>1. Init => RecursiveMutex!Init
  <2>1. ASSUME Init PROVE \A t \in Threads : ~(nest[t] > 0)
    <3>1. ~(0 > 0) /\ \A t \in Threads : nest[t] = 0
      BY <2>1 DEF Init
    <3> QED BY <3>1
  <2> QED BY <2>1 DEF RecOwner, RecursiveMutex!Init
<1>2. RecInv /\ RecInv' /\ [Next]_vars => [RecursiveMutex!Next]_RecOwner
  BY RecStepRefines
<1> QED
  BY <1>1, <1>2, RecInvariant, PTL DEF Spec, ImplementsMutexRec, RecursiveMutex!Spec
=============================================================================
