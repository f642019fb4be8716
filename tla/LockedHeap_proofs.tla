------------------------- MODULE LockedHeap_proofs -------------------------
(* The locked heap hands every block to one client at a time, for any      *)
(* number of threads and any sizes, as long as mmap does not fail.         *)
EXTENDS LockedHeap, Facts

-----------------------------------------------------------------------------
(* The steps of the lock keep its own invariant.                           *)

USE SpinLockAssumption DEF SpinLockAssumption

(* LockInv holds of a lock nobody has touched. *)
LEMMA LockInitInv == LockInit => LockInv
<1> SUFFICES ASSUME LockInit PROVE LockInv
  OBVIOUS
<1>1. LockTypeOK
  <2>1. 0 \in 0 .. MaxSpin
    OBVIOUS
  <2> QED BY <2>1, Zenon DEF LockInit, LockTypeOK, SpinPlaces
<1>2. ~mutex /\ \A t \in Threads : ~Holds(t)
  BY DEF LockInit, Holds
<1> QED BY <1>1, <1>2 DEF LockInv, MutualExclusion, FlagMeansHeld

(* One exchange keeps every part of LockInv: it lets a thread in only when *)
(* the flag was down, and then nobody holds the lock.                      *)
LEMMA ExchangeKeeps ==
  ASSUME NEW t \in Threads, NEW otherwise \in SpinPlaces \ {"in"},
         LockInv, ~Holds(t), Exchange(t, otherwise),
         count' \in [Threads -> 0 .. MaxSpin]
  PROVE  LockInv'
<1>1. LockTypeOK'
  BY DEF LockInv, LockTypeOK, Exchange, SpinPlaces
<1>2. MutualExclusion'
  BY DEF LockInv, LockTypeOK, MutualExclusion, FlagMeansHeld, Holds, Exchange, SpinPlaces
<1>3. FlagMeansHeld'
  <2>1. CASE mutex
    <3>1. PICK u \in Threads : Holds(u)
      BY <2>1 DEF LockInv, FlagMeansHeld
    <3>2. u # t /\ Holds(u)'
      BY <2>1, <3>1 DEF LockInv, LockTypeOK, Holds, Exchange
    <3> QED BY <3>2 DEF FlagMeansHeld, Exchange
  <2>2. CASE ~mutex
    BY <2>2 DEF LockInv, LockTypeOK, FlagMeansHeld, Holds, Exchange
  <2> QED BY <2>1, <2>2
<1> QED BY <1>1, <1>2, <1>3 DEF LockInv

(* The steps in which no thread gets or gives back the lock. *)
LEMMA WaitKeeps ==
  ASSUME NEW t \in Threads, LockInv, SpinOnce(t) \/ YieldProcessor(t)
  PROVE  LockInv'
<1>1. /\ mutex' = mutex
      /\ \A u \in Threads : Holds(u)' <=> Holds(u)
      /\ spin' \in [Threads -> SpinPlaces]
      /\ count' \in [Threads -> 0 .. MaxSpin]
  BY DEF SpinOnce, YieldProcessor, LockInv, LockTypeOK, Holds, SpinPlaces
<1> QED BY <1>1 DEF LockInv, LockTypeOK, MutualExclusion, FlagMeansHeld

(* unlock() by the holder leaves nobody in and the flag down. *)
LEMMA UnlockKeeps ==
  ASSUME NEW t \in Threads, LockInv, Unlock(t)
  PROVE  LockInv' /\ \A u \in Threads : ~Holds(u)'
<1>1. \A u \in Threads : ~Holds(u)'
  BY DEF Unlock, Holds, LockInv, LockTypeOK, MutualExclusion
<1>2. LockTypeOK'
  BY DEF Unlock, LockInv, LockTypeOK, SpinPlaces
<1> QED BY <1>1, <1>2 DEF Unlock, LockInv, MutualExclusion, FlagMeansHeld

(* Every step of a thread in lock(), didLock() or unlock() keeps LockInv.  *)
LEMMA LockStepInv ==
  ASSUME NEW t \in Threads, LockInv,
         Lock(t) \/ DidLock(t) \/ Unlock(t) \/ Contend(t)
  PROVE  LockInv'
<1>1. CASE Lock(t)
  BY <1>1, ExchangeKeeps DEF Lock, LockInv, LockTypeOK, Holds, SpinPlaces
<1>2. CASE DidLock(t)
  BY <1>2, ExchangeKeeps DEF DidLock, LockInv, LockTypeOK, Holds, SpinPlaces
<1>3. CASE Unlock(t)
  BY <1>3, UnlockKeeps
<1>4. CASE ContendedExchange(t)
  <2>1. count' \in [Threads -> 0 .. MaxSpin]
    BY <1>4 DEF ContendedExchange, LockInv, LockTypeOK
  <2> QED BY <1>4, <2>1, ExchangeKeeps DEF ContendedExchange, Holds, SpinPlaces
<1>5. CASE SpinOnce(t) \/ YieldProcessor(t)
  BY <1>5, WaitKeeps
<1> QED BY <1>1, <1>2, <1>3, <1>4, <1>5 DEF Contend

-----------------------------------------------------------------------------
(* The heap.                                                               *)

USE LockedHeapAssumption DEF LockedHeapAssumption

LEMMA RefillSizeType ==
  RefillSize \in Nat \ {0} /\ ObjSize <= RefillSize
BY DEF RefillSize

(* The bytes of a chunk are addresses, and nullptr is none of them. *)
LEMMA ChunkBytes ==
  ASSUME NEW m \in ChunkAddrs, NEW a \in Nat, m <= a, a < m + RefillSize
  PROVE  a \in Addr
<1>1. a \in Span(m, RefillSize)
  BY RefillSizeType DEF Span
<1> QED BY <1>1 DEF Addr

LEMMA AddrType == \A a \in Addr : a \in Nat /\ a # NULL
BY RefillSizeType DEF Addr, Span, NULL

LEMMA HeapInitInv == Init => HeapInv
<1> SUFFICES ASSUME Init PROVE HeapInv
  OBVIOUS
<1>1. LockTypeOK /\ MutualExclusion /\ FlagMeansHeld
  BY LockInitInv DEF Init, LockInv
<1>2. TypeOK
  <2>1. 0 \in 0 .. RefillSize /\ 0 \in Nat
    BY RefillSizeType
  <2> QED BY <1>1, <2>1 DEF Init, TypeOK, NULL, Places
<1>3. \A t \in Threads : place[t] = "client" /\ spin[t] = "out" /\ hand[t] = NULL
  BY DEF Init, LockInit
<1>4. \A t \in Threads : InFlight(t) = {}
  BY <1>3 DEF InFlight
<1>5. PlaceInv
  BY <1>3 DEF PlaceInv
<1>6. ListInv /\ OwnerInv
  BY <1>4 DEF Init, ListInv, IsList, OwnerInv
<1>7. LayoutInv
  <2>1. Known = {}
    BY <1>4 DEF Init, Known
  <2>2. remaining = 0 /\ ~(0 > 0)
    BY DEF Init
  <2> QED BY <2>1, <2>2 DEF LayoutInv
<1>8. CutInv
  <2>1. Known = {} /\ Cut = {}
    BY <1>4 DEF Init, Known, Cut
  <2> QED BY <2>1 DEF Init, CutInv
<1> QED BY <1>1, <1>2, <1>5, <1>6, <1>7, <1>8 DEF HeapInv

-----------------------------------------------------------------------------
(* Lemmas on the parts of a step that many actions share.                  *)

(* A step that leaves the lock alone leaves its invariant alone. *)
LEMMA LockUntouched ==
  ASSUME HeapInv, UNCHANGED lockVars
  PROVE  /\ LockTypeOK' /\ MutualExclusion' /\ FlagMeansHeld'
         /\ UNCHANGED <<mutex, spin>>
         /\ \A u \in Threads : Holds(u)' <=> Holds(u)
BY DEF lockVars, HeapInv, TypeOK, LockTypeOK, MutualExclusion, FlagMeansHeld, Holds

(* Nobody else is in the locked code beside the holder. *)
LEMMA OnlyHolder ==
  ASSUME HeapInv, NEW t \in Threads, Holds(t), NEW u \in Threads \ {t}
  PROVE  ~Holds(u) /\ place[u] \in {"client", "get", "put", "locked"}
BY DEF HeapInv, MutualExclusion, PlaceInv

(* Layout is a property of the set of known objects and of the chunks. *)
LEMMA SameLayout ==
  ASSUME LayoutInv, CutInv, Known' = Known, UNCHANGED <<bump, remaining, mapped>>
  PROVE  LayoutInv' /\ CutInv'
<1>1. Cut' = Cut
  BY DEF Cut
<1> QED BY <1>1 DEF LayoutInv, CutInv, Within, Apart

(* Calls that only take the lock. *)
LEMMA LockStep ==
  ASSUME HeapInv, NEW t \in Threads, Lock(t) \/ Contend(t)
  PROVE  /\ LockTypeOK' /\ MutualExclusion' /\ FlagMeansHeld'
         /\ ~Holds(t) /\ spin'[t] # "out"
         /\ \A u \in Threads \ {t} : spin'[u] = spin[u]
         /\ Lock(t) => spin[t] = "out"
         /\ Contend(t) => spin[t] # "out"
<1>1. LockInv
  BY DEF HeapInv, TypeOK, LockInv
<1>2. LockInv'
  BY <1>1, LockStepInv
<1> QED
  BY <1>1, <1>2 DEF LockInv, LockTypeOK, Lock, Contend, ContendedExchange, SpinOnce,
     YieldProcessor, Exchange, Holds

(* unlock(): the lock is free afterwards. *)
LEMMA UnlockStep ==
  ASSUME HeapInv, NEW t \in Threads, Unlock(t)
  PROVE  /\ LockTypeOK' /\ MutualExclusion' /\ FlagMeansHeld'
         /\ Holds(t) /\ spin'[t] = "out"
         /\ \A u \in Threads \ {t} : spin'[u] = spin[u] /\ (Holds(u)' <=> Holds(u))
<1>1. LockInv
  BY DEF HeapInv, TypeOK, LockInv
<1>2. LockInv'
  BY <1>1, UnlockKeeps
<1> QED
  BY <1>1, <1>2 DEF LockInv, LockTypeOK, Unlock, Holds

-----------------------------------------------------------------------------
(* The calls. *)
LEMMA CallMallocKeeps ==
  ASSUME HeapInv, NEW t \in Threads,
         CallMalloc(t) \/ CallLock(t) \/ LockWait(t)
  PROVE  HeapInv'
<1> USE DEF HeapInv
<1>1. /\ Lock(t) \/ Contend(t)
      /\ UNCHANGED <<head, next, bump, remaining, mapped, hand, live, onList, dropped>>
  BY DEF CallMalloc, CallLock, LockWait, heapVars, clientVars
<1>2. /\ LockTypeOK' /\ MutualExclusion' /\ FlagMeansHeld'
      /\ ~Holds(t) /\ spin'[t] # "out"
      /\ \A u \in Threads \ {t} : spin'[u] = spin[u]
  BY <1>1, LockStep
<1>3. \/ /\ place[t] = "client"
         /\ place' = [place EXCEPT ![t] = "get"] \/ place' = [place EXCEPT ![t] = "locked"]
      \/ /\ place' = place /\ place[t] # "client" /\ spin[t] # "out"
  BY LockStep DEF CallMalloc, CallLock, LockWait, Goto, PlaceInv
<1>4. TypeOK'
  BY <1>1, <1>2, <1>3 DEF TypeOK, Places, MallocPlaces
<1>5. PlaceInv'
  BY <1>1, <1>2, <1>3, <1>4 DEF PlaceInv, TypeOK, Holds
<1>6. \A u \in Threads : InFlight(u)' = InFlight(u)
  BY <1>1, <1>3 DEF InFlight, TypeOK
<1>7. ListInv' /\ OwnerInv'
  BY <1>1, <1>6 DEF ListInv, OwnerInv
<1>8. LayoutInv' /\ CutInv'
  BY <1>1, <1>6, SameLayout DEF Known
<1> QED BY <1>2, <1>4, <1>5, <1>7, <1>8

LEMMA CallFreeKeeps ==
  ASSUME HeapInv, NEW t \in Threads, CallFree(t)
  PROVE  HeapInv'
<1> USE DEF HeapInv
<1>1. PICK p \in live \union {NULL} :
        hand' = [hand EXCEPT ![t] = p] /\ live' = live \ {p}
  BY DEF CallFree, Take
<1>2. /\ UNCHANGED <<head, next, bump, remaining, mapped, onList, dropped>>
      /\ place[t] = "client" /\ Lock(t)
      /\ place' = [place EXCEPT ![t] = "put"]
  BY DEF CallFree, heapVars, Goto
<1>3. /\ LockTypeOK' /\ MutualExclusion' /\ FlagMeansHeld'
      /\ ~Holds(t) /\ spin'[t] # "out"
      /\ \A u \in Threads \ {t} : spin'[u] = spin[u]
  BY <1>2, LockStep
<1>4. TypeOK'
  BY <1>1, <1>2, <1>3 DEF TypeOK, Places, MallocPlaces
<1>5. PlaceInv'
  BY <1>1, <1>2, <1>3, <1>4 DEF PlaceInv, TypeOK, Holds
<1>6. /\ InFlight(t)' = {p} \ {NULL} /\ InFlight(t) = {}
      /\ \A u \in Threads \ {t} : InFlight(u)' = InFlight(u)
  BY <1>1, <1>2 DEF InFlight, TypeOK
<1>7. ListInv'
  BY <1>2 DEF ListInv
<1>8. OwnerInv'
  BY <1>1, <1>2, <1>6 DEF OwnerInv
<1>9. LayoutInv' /\ CutInv'
  <2>1. p # NULL => p \in live
    OBVIOUS
  <2>2. NULL \notin live
    BY AddrType DEF TypeOK
  <2>3. live' = live \ ({p} \ {NULL}) /\ {p} \ {NULL} \subseteq live
    BY <1>1, <2>1, <2>2
  <2>4. Known' = Known
    BY <1>2, <1>6, <2>3 DEF Known
  <2> QED BY <1>2, <2>4, SameLayout
<1> QED BY <1>3, <1>4, <1>5, <1>7, <1>8, <1>9

-----------------------------------------------------------------------------
(* malloc. *)
LEMMA GetKeeps ==
  ASSUME HeapInv, NEW t \in Threads, Get(t) \/ ClearGet(t) \/ Clear(t)
  PROVE  HeapInv'
<1> USE DEF HeapInv
<1>1. /\ LockTypeOK' /\ MutualExclusion' /\ FlagMeansHeld'
      /\ UNCHANGED <<mutex, spin>>
      /\ UNCHANGED <<head, next, bump, remaining, mapped, live, onList, dropped>>
  BY LockUntouched DEF Get, ClearGet, Clear, heapVars, clientVars
<1>2. Holds(t) /\ place[t] \in {"get", "clear", "locked"}
  BY DEF Get, ClearGet, Clear, At
<1>3. \/ /\ hand' = [hand EXCEPT ![t] = head] /\ head = NULL
         /\ \/ place' = [place EXCEPT ![t] = "super"]
            \/ place' = [place EXCEPT ![t] = "done"]
      \/ /\ hand' = [hand EXCEPT ![t] = head] /\ head # NULL
         /\ \/ place' = [place EXCEPT ![t] = "pop"]
            \/ place' = [place EXCEPT ![t] = "clearpop"]
      \/ hand' = hand /\ place' = [place EXCEPT ![t] = "clear"]
  BY DEF Get, ClearGet, Clear, Take, Goto
<1>4. TypeOK'
  BY <1>1, <1>3 DEF TypeOK, Places, MallocPlaces
<1>5. PlaceInv'
  BY <1>1, <1>2, <1>3, <1>4 DEF PlaceInv, TypeOK, Holds
<1>6. \A u \in Threads : InFlight(u)' = InFlight(u)
  BY <1>2, <1>3 DEF InFlight, TypeOK
<1>7. ListInv' /\ OwnerInv'
  BY <1>1, <1>6 DEF ListInv, OwnerInv
<1>8. LayoutInv' /\ CutInv'
  BY <1>1, <1>6, SameLayout DEF Known
<1> QED BY <1>1, <1>4, <1>5, <1>7, <1>8

(* Taking the first object off the list keeps it a list. *)
LEMMA ListWithoutHead ==
  ASSUME HeapInv, head # NULL, head' = next[head], next' = next,
         onList' = onList \ {head}
  PROVE  ListInv' /\ head \in onList /\ head' \in Addr \union {NULL}
<1>1. head \in onList /\ IsList(next[head], next, onList \ {head}, NULL)
  BY ListTail DEF HeapInv, ListInv
<1> QED BY <1>1 DEF HeapInv, ListInv, IsList, TypeOK

LEMMA PopKeeps ==
  ASSUME HeapInv, NEW t \in Threads, Pop(t)
  PROVE  HeapInv'
<1> USE DEF HeapInv
<1>1. /\ LockTypeOK' /\ MutualExclusion' /\ FlagMeansHeld'
      /\ UNCHANGED <<mutex, spin>>
      /\ UNCHANGED <<next, bump, remaining, mapped, hand, live, dropped>>
  BY LockUntouched DEF Pop
<1>2. /\ Holds(t) /\ place[t] = "pop" /\ hand[t] = head /\ head # NULL
      /\ head' = next[head] /\ onList' = onList \ {head}
      /\ place' = [place EXCEPT ![t] = "give"]
  BY DEF Pop, At, PlaceInv, Goto
<1>3. ListInv' /\ head \in onList /\ head' \in Addr \union {NULL}
  BY <1>1, <1>2, ListWithoutHead
<1>4. TypeOK'
  BY <1>1, <1>2, <1>3 DEF TypeOK, Places, MallocPlaces
<1>5. \A u \in Threads \ {t} : place[u] \in {"client", "get", "put", "locked"}
  BY <1>2, OnlyHolder
<1>6. PlaceInv'
  BY <1>1, <1>2, <1>4, <1>5 DEF PlaceInv, TypeOK, Holds
<1>7. /\ InFlight(t)' = {head} /\ InFlight(t) = {}
      /\ \A u \in Threads \ {t} : InFlight(u)' = InFlight(u)
  BY <1>1, <1>2 DEF InFlight, TypeOK
<1>8. OwnerInv'
  BY <1>1, <1>2, <1>3, <1>7 DEF OwnerInv
<1>9. LayoutInv' /\ CutInv'
  <2>1. Known' = Known
    BY <1>1, <1>2, <1>3, <1>7 DEF Known
  <2> QED BY <1>1, <2>1, SameLayout
<1> QED BY <1>1, <1>3, <1>4, <1>6, <1>8, <1>9

(* A chunk the kernel picks is apart from every object cut so far, because *)
(* they lie in chunks that are still mapped.                               *)
LEMMA RefillKeeps ==
  ASSUME HeapInv, ~MmapMayFail, NEW t \in Threads, Refill(t)
  PROVE  HeapInv'
<1> USE DEF HeapInv
<1>1. /\ LockTypeOK' /\ MutualExclusion' /\ FlagMeansHeld'
      /\ UNCHANGED <<mutex, spin>>
      /\ UNCHANGED <<head, next, hand, live, onList, dropped>>
  BY LockUntouched DEF Refill, clientVars
<1>2. PICK c \in ChunkAddrs :
        /\ \A m \in mapped : Span(c, RefillSize) \intersect Span(m, RefillSize) = {}
        /\ bump' = c /\ mapped' = mapped \union {c}
  BY DEF Refill, MmapResults, NULL
<1>3. /\ Holds(t) /\ place[t] = "super" /\ remaining' = RefillSize
      /\ place' = [place EXCEPT ![t] = "carve"]
  BY DEF Refill, At, Goto
<1>4. TypeOK'
  BY <1>1, <1>2, <1>3, RefillSizeType DEF TypeOK, Places, MallocPlaces
<1>5. PlaceInv'
  <2>1. remaining' >= ObjSize
    BY <1>3, RefillSizeType
  <2>2. \A u \in Threads \ {t} : place[u] \in {"client", "get", "put", "locked"}
    BY <1>3, OnlyHolder
  <2> QED BY <1>1, <1>3, <1>4, <2>1, <2>2 DEF PlaceInv, TypeOK, Holds
<1>6. \A u \in Threads : InFlight(u)' = InFlight(u)
  BY <1>1, <1>3 DEF InFlight, TypeOK
<1>7. ListInv' /\ OwnerInv'
  BY <1>1, <1>6 DEF ListInv, OwnerInv
<1>8. LayoutInv' /\ CutInv'
  <2>1. Known' = Known
    BY <1>1, <1>6 DEF Known
  <2>2. \A m \in mapped : Apart(c, RefillSize, m, RefillSize)
    <3>1. ASSUME NEW m \in mapped PROVE Apart(c, RefillSize, m, RefillSize)
      <4>1. c \in Nat /\ m \in Nat
        BY <1>2 DEF TypeOK
      <4>2. c \notin Span(m, RefillSize) \/ c \notin Span(c, RefillSize)
        BY <1>2
      <4>3. m \notin Span(c, RefillSize) \/ m \notin Span(m, RefillSize)
        BY <1>2
      <4> QED BY <4>1, <4>2, <4>3, RefillSizeType DEF Span, Apart
    <3> QED BY <3>1
  <2>3. \A o \in Known : o \in Nat /\ (\E m \in mapped : Within(o, ObjSize, m))
    BY AddrType DEF LayoutInv, Known, InFlight, TypeOK
  <2>4. \A o \in Known : Apart(o, ObjSize, bump', remaining')
    <3>1. ASSUME NEW o \in Known PROVE Apart(o, ObjSize, c, RefillSize)
      <4>1. PICK m \in mapped : Within(o, ObjSize, m)
        BY <2>3
      <4>2. c \in Nat /\ m \in Nat /\ o \in Nat
        BY <1>2, <2>3 DEF TypeOK
      <4>3. Apart(c, RefillSize, m, RefillSize)
        BY <2>2
      <4> QED BY <4>1, <4>2, <4>3, RefillSizeType DEF Within, Apart
    <3> QED BY <1>2, <1>3, <3>1
  <2>5. Within(bump', remaining', c) /\ c \in mapped'
    <3>1. c \in Nat
      OBVIOUS
    <3> QED BY <1>2, <1>3, <3>1, RefillSizeType DEF Within
  <2>6. LayoutInv'
    BY <1>2, <2>1, <2>4, <2>5 DEF LayoutInv, Within, Apart
  <2>7. Cut' = Known
    <3> USE RefillSizeType
    <3>0. /\ c \in Nat /\ bump' \in Nat /\ remaining < ObjSize /\ remaining \in Nat /\ bump \in Nat
          /\ \A m \in mapped : m \in Nat
      <4>1. bump \in Nat /\ remaining \in 0 .. RefillSize /\ mapped \subseteq ChunkAddrs
        BY DEF TypeOK
      <4>2. remaining < ObjSize
        BY DEF Refill
      <4> QED BY <1>2, <4>1, <4>2
    <3>1. ASSUME NEW a \in Cut' PROVE a \in Cut
      <4>1. /\ a \in Addr /\ a \in Nat /\ a \notin Span(c, RefillSize)
            /\ \E m \in mapped \union {c} : /\ a >= m /\ (a - m) % ObjSize = 0
                                            /\ a + ObjSize <= m + RefillSize
        BY <1>2, <1>3, <3>1, AddrType DEF Cut
      <4>2. PICK m \in mapped \union {c} : /\ a >= m /\ (a - m) % ObjSize = 0
                                            /\ a + ObjSize <= m + RefillSize
        BY <4>1
      <4>3. m # c
        BY <3>0, <4>1, <4>2 DEF Span
      <4>4. m \in mapped /\ m \in Nat
        BY <3>0, <4>3
      <4>5. PICK k \in mapped : k <= bump /\ bump + remaining = k + RefillSize
        BY <4>4 DEF CutInv
      <4>6. a \notin Span(bump, remaining)
        <5>1. CASE k = m
          BY <3>0, <4>1, <4>2, <4>4, <4>5, <5>1 DEF Span
        <5>2. CASE k # m
          <6>1. Apart(k, RefillSize, m, RefillSize) /\ k \in Nat
            BY <3>0, <4>4, <4>5, <5>2 DEF CutInv
          <6> QED BY <3>0, <4>1, <4>2, <4>4, <4>5, <6>1 DEF Span, Apart
        <5> QED BY <5>1, <5>2
      <4> QED BY <4>1, <4>2, <4>4, <4>6 DEF Cut
    <3>2. ASSUME NEW a \in Cut PROVE a \in Cut'
      <4>1. a \in Addr /\ a \in Nat
        BY AddrType DEF Cut
      <4>2. PICK m \in mapped : /\ a >= m /\ (a - m) % ObjSize = 0
                                /\ a + ObjSize <= m + RefillSize
        BY DEF Cut
      <4>3. a \notin Span(c, RefillSize)
        <5>1. Apart(c, RefillSize, m, RefillSize) /\ m \in Nat
          BY <2>2, <3>0
        <5> QED BY <3>0, <4>1, <4>2, <5>1 DEF Span, Apart
      <4> QED BY <1>2, <1>3, <4>1, <4>2, <4>3 DEF Cut
    <3> QED BY <3>1, <3>2 DEF CutInv
  <2>8. CutInv'
    <3>1. \A m, k \in mapped \union {c} : m # k => Apart(m, RefillSize, k, RefillSize)
      <4>1. \A m \in mapped : Apart(m, RefillSize, c, RefillSize)
        BY <2>2 DEF Apart
      <4> QED BY <2>2, <4>1 DEF CutInv
    <3>2. c <= bump' /\ (bump' - c) % ObjSize = 0 /\ bump' + remaining' = c + RefillSize
      <4>1. c \in Nat /\ c - c = 0 /\ 0 * ObjSize = 0
        OBVIOUS
      <4>2. 0 % ObjSize = 0
        BY <4>1, MultipleMod
      <4> QED BY <1>2, <1>3, <4>1, <4>2, RefillSizeType
    <3> QED BY <1>2, <2>1, <2>7, <3>1, <3>2 DEF CutInv, Apart
  <2> QED BY <2>6, <2>8
<1> QED BY <1>1, <1>4, <1>5, <1>7, <1>8

(* The object that is cut is new: it was part of the uncut rest.           *)
LEMMA CarveKeeps ==
  ASSUME HeapInv, NEW t \in Threads, Carve(t)
  PROVE  HeapInv'
<1> USE DEF HeapInv
<1>1. /\ LockTypeOK' /\ MutualExclusion' /\ FlagMeansHeld'
      /\ UNCHANGED <<mutex, spin>>
      /\ UNCHANGED <<head, next, mapped, live, onList, dropped>>
  BY LockUntouched DEF Carve, clientVars
<1>2. /\ Holds(t) /\ place[t] \in {"carve", "super"} /\ remaining >= ObjSize
      /\ hand' = [hand EXCEPT ![t] = bump]
      /\ bump' = bump + ObjSize /\ remaining' = remaining - ObjSize
      /\ place' = [place EXCEPT ![t] = "give"]
  BY DEF Carve, At, PlaceInv, Take, Goto
<1>3. bump \in Nat /\ remaining \in Nat /\ remaining <= RefillSize /\ mapped \subseteq ChunkAddrs
  BY RefillSizeType DEF TypeOK
<1>4. PICK m \in mapped : Within(bump, remaining, m)
  <2>1. remaining > 0
    BY <1>2, <1>3
  <2> QED BY <2>1 DEF LayoutInv
<1>5. bump \in Addr /\ Within(bump, ObjSize, m) /\ bump # NULL
  <2>1. m <= bump /\ bump < m + RefillSize /\ m \in ChunkAddrs /\ m \in Nat
    BY <1>2, <1>3, <1>4, RefillSizeType DEF Within
  <2> QED BY <1>2, <1>3, <1>4, <2>1, ChunkBytes, AddrType, RefillSizeType DEF Within
<1>6. TypeOK'
  <2>1. remaining' \in 0 .. RefillSize /\ bump' \in Nat
    BY <1>2, <1>3, RefillSizeType
  <2> QED BY <1>1, <1>2, <1>5, <2>1 DEF TypeOK, Places, MallocPlaces
<1>7. \A u \in Threads \ {t} : place[u] \in {"client", "get", "put", "locked"}
  BY <1>2, OnlyHolder
<1>8. PlaceInv'
  BY <1>1, <1>2, <1>6, <1>7 DEF PlaceInv, TypeOK, Holds
<1>9. /\ InFlight(t)' = {bump} /\ InFlight(t) = {}
      /\ \A u \in Threads \ {t} : InFlight(u)' = InFlight(u)
  BY <1>1, <1>2, <1>5 DEF InFlight, TypeOK
<1>10. Known' = Known \union {bump}
  BY <1>1, <1>9 DEF Known
<1>11. \A o \in Known : o \in Nat /\ Apart(o, ObjSize, bump, remaining)
  BY AddrType DEF LayoutInv, Known, InFlight, TypeOK
<1>12. \A o \in Known : /\ Apart(o, ObjSize, bump, ObjSize) /\ Apart(bump, ObjSize, o, ObjSize)
                        /\ Apart(o, ObjSize, bump', remaining') /\ o # bump
  BY <1>2, <1>3, <1>11 DEF Apart
<1>13. ListInv' /\ OwnerInv'
  BY <1>1, <1>9, <1>12 DEF ListInv, OwnerInv, Known
<1>14. LayoutInv' /\ CutInv'
  <2>1. Apart(bump, ObjSize, bump', remaining')
    BY <1>2, <1>3 DEF Apart
  <2>2. remaining' > 0 => Within(bump', remaining', m)
    BY <1>2, <1>3, <1>4 DEF Within
  <2>3. ASSUME NEW o \in Known'
        PROVE  /\ \E k \in mapped : Within(o, ObjSize, k)
               /\ Apart(o, ObjSize, bump', remaining')
               /\ \A p \in Known' \ {o} : Apart(o, ObjSize, p, ObjSize)
    BY <1>5, <1>10, <1>12, <2>1 DEF LayoutInv
  <2>4. LayoutInv'
    BY <1>1, <2>2, <2>3 DEF LayoutInv, Within, Apart
  <2> USE RefillSizeType
  <2>5. PICK k \in mapped : /\ k <= bump /\ (bump - k) % ObjSize = 0
                            /\ bump + remaining = k + RefillSize
    BY <1>4 DEF CutInv
  <2>6. /\ k \in Nat /\ bump' \in Nat /\ remaining' \in Nat
        /\ k <= bump' /\ bump' + remaining' = k + RefillSize
    BY <1>2, <1>3, <2>5
  <2>7. (bump' - k) % ObjSize = 0
    <3>1. bump - k \in Nat /\ bump' - k = (bump - k) + ObjSize
      BY <1>2, <1>3, <2>5, <2>6
    <3> QED BY <2>5, <3>1, NextMultiple
  <2>8. Cut' = Cut \union {bump}
    <3>1. ASSUME NEW a \in Cut', a \notin Cut PROVE a = bump
      <4>1. /\ a \in Addr /\ a \in Nat /\ a \notin Span(bump', remaining')
            /\ a \in Span(bump, remaining)
        BY <1>1, <3>1, AddrType DEF Cut
      <4>2. PICK n \in mapped : /\ a >= n /\ (a - n) % ObjSize = 0
                                /\ a + ObjSize <= n + RefillSize
        BY <1>1 DEF Cut
      <4>3. n = k
        <5>1. n # k => Apart(n, RefillSize, k, RefillSize)
          BY <2>5 DEF CutInv
        <5>2. n \in Nat
          BY <1>3
        <5> QED BY <1>3, <2>5, <2>6, <4>1, <4>2, <5>1, <5>2 DEF Span, Apart
      <4>4. bump <= a /\ a < bump + ObjSize
        BY <1>2, <1>3, <4>1 DEF Span
      <4>5. ~(bump - k < a - k)
        <5> SUFFICES ASSUME bump - k < a - k PROVE FALSE
          OBVIOUS
        <5>1. bump - k \in Nat /\ a - k \in Nat
          BY <1>3, <2>5, <2>6, <4>1, <4>2, <4>3
        <5>2. (bump - k) + ObjSize <= a - k
          BY <2>5, <4>2, <4>3, <5>1, ModApart
        <5> QED BY <1>3, <2>6, <4>1, <4>4, <5>2
      <4> QED BY <1>3, <2>6, <4>1, <4>4, <4>5
    <3>2. bump \in Cut'
      <4>1. bump \notin Span(bump', remaining')
        BY <1>2, <1>3 DEF Span
      <4>2. bump >= k /\ bump + ObjSize <= k + RefillSize
        BY <1>2, <1>3, <2>5, <2>6
      <4> QED BY <1>1, <1>5, <2>5, <4>1, <4>2 DEF Cut
    <3>3. ASSUME NEW a \in Cut PROVE a \in Cut'
      <4>1. a \notin Span(bump', remaining')
        BY <1>2, <1>3 DEF Cut, Span
      <4> QED BY <1>1, <4>1 DEF Cut
    <3> QED BY <3>1, <3>2, <3>3
  <2>9. CutInv'
    BY <1>1, <1>10, <2>5, <2>6, <2>7, <2>8 DEF CutInv, Apart
  <2> QED BY <2>4, <2>9
<1> QED BY <1>1, <1>6, <1>8, <1>13, <1>14

LEMMA GiveKeeps ==
  ASSUME HeapInv, NEW t \in Threads, Give(t)
  PROVE  HeapInv'
<1> USE DEF HeapInv
<1>1. /\ UNCHANGED <<head, next, bump, remaining, mapped, onList, dropped>>
      /\ place[t] = "give"
      /\ place' = [place EXCEPT ![t] = "client"]
      /\ live' = live \union ({hand[t]} \ {NULL})
      /\ hand' = [hand EXCEPT ![t] = NULL]
  BY DEF Give, heapVars, Goto, Take
<1>2. /\ LockTypeOK' /\ MutualExclusion' /\ FlagMeansHeld'
      /\ Holds(t) /\ spin'[t] = "out"
      /\ \A u \in Threads \ {t} : spin'[u] = spin[u] /\ (Holds(u)' <=> Holds(u))
  BY UnlockStep DEF Give
<1>3. TypeOK'
  BY <1>1, <1>2 DEF TypeOK, Places, MallocPlaces
<1>4. PlaceInv'
  BY <1>1, <1>2, <1>3 DEF PlaceInv, TypeOK
<1>5. /\ InFlight(t) = {hand[t]} \ {NULL} /\ InFlight(t)' = {}
      /\ \A u \in Threads \ {t} : InFlight(u)' = InFlight(u)
  BY <1>1 DEF InFlight, TypeOK
<1>6. ListInv' /\ OwnerInv'
  BY <1>1, <1>5 DEF ListInv, OwnerInv
<1>7. LayoutInv' /\ CutInv'
  <2>1. Known' = Known
    BY <1>1, <1>5 DEF Known
  <2> QED BY <1>1, <2>1, SameLayout
<1> QED BY <1>2, <1>3, <1>4, <1>6, <1>7

-----------------------------------------------------------------------------
(* free, unlock() and clear. *)
LEMMA PutKeeps ==
  ASSUME HeapInv, NEW t \in Threads, Put(t)
  PROVE  HeapInv'
<1> USE DEF HeapInv
<1>1. /\ LockTypeOK' /\ MutualExclusion' /\ FlagMeansHeld'
      /\ UNCHANGED <<mutex, spin>>
      /\ UNCHANGED <<head, bump, remaining, mapped, hand, live, onList, dropped>>
  BY LockUntouched DEF Put, clientVars
<1>2. /\ Holds(t) /\ place[t] = "put"
      /\ \/ /\ hand[t] = NULL /\ next' = next
            /\ place' = [place EXCEPT ![t] = "done"]
         \/ /\ hand[t] # NULL /\ next' = [next EXCEPT ![hand[t]] = head]
            /\ place' = [place EXCEPT ![t] = "link"]
  BY DEF Put, At, Goto
<1>3. hand[t] # NULL => hand[t] \in Addr /\ hand[t] \notin onList /\ hand[t] \in InFlight(t)
  BY <1>2 DEF TypeOK, OwnerInv, InFlight
<1>4. TypeOK'
  BY <1>1, <1>2, <1>3 DEF TypeOK, Places, MallocPlaces
<1>5. \A u \in Threads \ {t} : place[u] \in {"client", "get", "put", "locked"}
  BY <1>2, OnlyHolder
<1>6. PlaceInv'
  BY <1>1, <1>2, <1>3, <1>4, <1>5 DEF PlaceInv, TypeOK, Holds
<1>7. \A u \in Threads : InFlight(u)' = InFlight(u)
  BY <1>1, <1>2 DEF InFlight, TypeOK
<1>8. \A o \in onList : next'[o] = next[o]
  BY <1>2, <1>3 DEF TypeOK
<1>9. ListInv' /\ OwnerInv'
  BY <1>1, <1>7, <1>8, SameList DEF ListInv, OwnerInv
<1>10. LayoutInv' /\ CutInv'
  BY <1>1, <1>7, SameLayout DEF Known
<1> QED BY <1>1, <1>4, <1>6, <1>9, <1>10

(* The object in hand is on no list, so it can become the new head. *)
LEMMA LinkKeeps ==
  ASSUME HeapInv, NEW t \in Threads, Link(t)
  PROVE  HeapInv'
<1> USE DEF HeapInv
<1>1. /\ LockTypeOK' /\ MutualExclusion' /\ FlagMeansHeld'
      /\ UNCHANGED <<mutex, spin>>
      /\ UNCHANGED <<next, bump, remaining, mapped, live, dropped>>
  BY LockUntouched DEF Link
<1>2. /\ Holds(t) /\ place[t] = "link" /\ hand[t] # NULL /\ next[hand[t]] = head
      /\ head' = hand[t] /\ onList' = onList \union {hand[t]}
      /\ hand' = [hand EXCEPT ![t] = NULL]
      /\ place' = [place EXCEPT ![t] = "done"]
  BY DEF Link, At, PlaceInv, Take, Goto
<1>3. hand[t] \in Addr /\ hand[t] \notin onList /\ InFlight(t) = {hand[t]}
  BY <1>2 DEF TypeOK, OwnerInv, InFlight
<1>4. TypeOK'
  BY <1>1, <1>2, <1>3 DEF TypeOK, Places
<1>5. \A u \in Threads \ {t} : place[u] \in {"client", "get", "put", "locked"}
  BY <1>2, OnlyHolder
<1>6. PlaceInv'
  BY <1>1, <1>2, <1>4, <1>5 DEF PlaceInv, TypeOK, Holds
<1>7. InFlight(t)' = {} /\ \A u \in Threads \ {t} : InFlight(u)' = InFlight(u)
  BY <1>1, <1>2 DEF InFlight, TypeOK
<1>8. ListInv'
  BY <1>1, <1>2, <1>3, ListPush DEF ListInv
<1>9. OwnerInv'
  BY <1>1, <1>2, <1>3, <1>7 DEF OwnerInv
<1>10. LayoutInv' /\ CutInv'
  <2>1. Known' = Known
    BY <1>1, <1>2, <1>3, <1>7 DEF Known
  <2> QED BY <1>1, <2>1, SameLayout
<1> QED BY <1>1, <1>4, <1>6, <1>8, <1>9, <1>10

LEMMA DoneKeeps ==
  ASSUME HeapInv, NEW t \in Threads, Done(t)
  PROVE  HeapInv'
<1> USE DEF HeapInv
<1>1. /\ UNCHANGED <<head, next, bump, remaining, mapped, hand, live, onList, dropped>>
      /\ place[t] \in {"done", "locked"}
      /\ place' = [place EXCEPT ![t] = "client"]
  BY DEF Done, heapVars, clientVars, Goto
<1>2. /\ LockTypeOK' /\ MutualExclusion' /\ FlagMeansHeld'
      /\ Holds(t) /\ spin'[t] = "out"
      /\ \A u \in Threads \ {t} : spin'[u] = spin[u] /\ (Holds(u)' <=> Holds(u))
  BY UnlockStep DEF Done
<1>3. TypeOK'
  BY <1>1, <1>2 DEF TypeOK, Places
<1>4. PlaceInv'
  BY <1>1, <1>2, <1>3 DEF PlaceInv, TypeOK
<1>5. \A u \in Threads : InFlight(u)' = InFlight(u)
  BY <1>1 DEF InFlight, TypeOK
<1>6. ListInv' /\ OwnerInv'
  BY <1>1, <1>5 DEF ListInv, OwnerInv
<1>7. LayoutInv' /\ CutInv'
  BY <1>1, <1>5, SameLayout DEF Known
<1> QED BY <1>2, <1>3, <1>4, <1>6, <1>7

LEMMA ClearPopKeeps ==
  ASSUME HeapInv, NEW t \in Threads, ClearPop(t)
  PROVE  HeapInv'
<1> USE DEF HeapInv
<1>1. /\ LockTypeOK' /\ MutualExclusion' /\ FlagMeansHeld'
      /\ UNCHANGED <<mutex, spin>>
      /\ UNCHANGED <<next, bump, remaining, mapped, live>>
  BY LockUntouched DEF ClearPop
<1>2. /\ Holds(t) /\ place[t] = "clearpop" /\ hand[t] = head /\ head # NULL
      /\ head' = next[head] /\ onList' = onList \ {head}
      /\ dropped' = dropped \union {head}
      /\ hand' = [hand EXCEPT ![t] = NULL]
      /\ place' = [place EXCEPT ![t] = "clear"]
  BY DEF ClearPop, At, PlaceInv, Take, Goto
<1>3. ListInv' /\ head \in onList /\ head' \in Addr \union {NULL}
  BY <1>1, <1>2, ListWithoutHead
<1>4. TypeOK'
  BY <1>1, <1>2, <1>3 DEF TypeOK, Places
<1>5. \A u \in Threads \ {t} : place[u] \in {"client", "get", "put", "locked"}
  BY <1>2, OnlyHolder
<1>6. PlaceInv'
  BY <1>1, <1>2, <1>4, <1>5 DEF PlaceInv, TypeOK, Holds
<1>7. \A u \in Threads : InFlight(u)' = InFlight(u)
  BY <1>1, <1>2 DEF InFlight, TypeOK
<1>8. OwnerInv'
  BY <1>1, <1>2, <1>3, <1>7 DEF OwnerInv
<1>9. LayoutInv' /\ CutInv'
  <2>1. Known' = Known
    BY <1>1, <1>2, <1>3, <1>7 DEF Known
  <2> QED BY <1>1, <2>1, SameLayout
<1> QED BY <1>1, <1>3, <1>4, <1>6, <1>8, <1>9

(* A client's write reaches no link of the list, because it owns no object *)
(* on the list.                                                            *)
LEMMA ClientWriteKeeps ==
  ASSUME HeapInv, NEW p \in live, ClientWrite(p)
  PROVE  HeapInv'
<1> USE DEF HeapInv
<1>1. /\ LockTypeOK' /\ MutualExclusion' /\ FlagMeansHeld'
      /\ UNCHANGED <<mutex, spin>>
      /\ UNCHANGED <<head, bump, remaining, mapped, place, hand, live, onList, dropped>>
      /\ next' = [next EXCEPT ![p] = Junk]
  BY LockUntouched DEF ClientWrite, clientVars
<1>2. TypeOK'
  BY <1>1 DEF TypeOK
<1>3. \A u \in Threads : InFlight(u)' = InFlight(u)
  BY <1>1 DEF InFlight
<1>4. \A o \in onList : next'[o] = next[o]
  BY <1>1 DEF OwnerInv, TypeOK
<1>5. \A u \in Threads : place[u] = "link" => next'[hand[u]] = next[hand[u]]
  <2>1. ASSUME NEW u \in Threads, place[u] = "link" PROVE hand[u] # p
    BY <2>1 DEF OwnerInv, InFlight, PlaceInv
  <2> QED BY <1>1, <2>1 DEF TypeOK
<1>6. PlaceInv'
  BY <1>1, <1>5 DEF PlaceInv, Holds
<1>7. ListInv' /\ OwnerInv'
  BY <1>1, <1>3, <1>4, SameList DEF ListInv, OwnerInv
<1>8. LayoutInv' /\ CutInv'
  BY <1>1, <1>3, SameLayout DEF Known
<1> QED BY <1>1, <1>2, <1>6, <1>7, <1>8

-----------------------------------------------------------------------------
LEMMA HeapStutter ==
  ASSUME HeapInv, UNCHANGED vars
  PROVE  HeapInv'
<1>1. UNCHANGED <<mutex, spin, count, head, next, bump, remaining, mapped,
                  place, hand, live, onList, dropped>>
  BY DEF vars, lockVars, heapVars, clientVars
<1>2. /\ LockTypeOK' /\ MutualExclusion' /\ FlagMeansHeld'
  BY LockUntouched DEF vars
<1>3. \A u \in Threads : InFlight(u)' = InFlight(u)
  BY <1>1 DEF InFlight
<1>4. TypeOK' /\ PlaceInv'
  BY <1>1, <1>2 DEF HeapInv, TypeOK, PlaceInv, Holds
<1>5. ListInv' /\ OwnerInv' /\ LayoutInv' /\ CutInv'
  BY <1>1, <1>3, SameLayout DEF HeapInv, ListInv, OwnerInv, Known
<1> QED BY <1>2, <1>4, <1>5 DEF HeapInv

LEMMA HeapStepInv == ~MmapMayFail /\ HeapInv /\ [Next]_vars => HeapInv'
<1>1. ASSUME ~MmapMayFail, HeapInv, NEW t \in Threads, Call(t) \/ Inside(t)
      PROVE  HeapInv'
  BY <1>1, CallMallocKeeps, CallFreeKeeps, GetKeeps, PopKeeps, RefillKeeps, CarveKeeps,
     GiveKeeps, PutKeeps, LinkKeeps, DoneKeeps, ClearPopKeeps DEF Call, Inside
<1> QED BY <1>1, ClientWriteKeeps, HeapStutter DEF Next

(* While the kernel gives memory, the locked heap keeps its invariant. *)
THEOREM HeapInvariant == ~MmapMayFail => (Spec => []HeapInv)
<1> SUFFICES ASSUME ~MmapMayFail PROVE Spec => []HeapInv
  OBVIOUS
<1>1. HeapInv /\ [Next]_vars => HeapInv'
  BY HeapStepInv
<1> QED BY <1>1, HeapInitInv, PTL DEF Spec

(* The fields of the layers, the links and the clients' pointers stay in   *)
(* range: no link is ever client data.                                     *)
THEOREM HeapTypeCorrect == ~MmapMayFail => (Spec => []TypeOK)
BY HeapInvariant, PTL DEF HeapInv

(* Every byte of a block in use is in memory the kernel mapped. *)
THEOREM HeapBlocksAreMapped == ~MmapMayFail => (Spec => []BlocksAreMapped)
<1>1. HeapInv => BlocksAreMapped
  <2> SUFFICES ASSUME HeapInv, NEW p \in live, NEW a \in Span(p, ObjSize)
               PROVE  \E m \in mapped : a \in Span(m, RefillSize)
    BY DEF BlocksAreMapped
  <2>1. PICK m \in mapped : Within(p, ObjSize, m)
    BY DEF HeapInv, LayoutInv, Known
  <2>2. p \in Nat /\ m \in Nat
    BY AddrType DEF HeapInv, TypeOK
  <2>3. a \in Nat /\ p <= a /\ a < p + ObjSize
    BY <2>2 DEF Span
  <2> QED BY <2>1, <2>2, <2>3, RefillSizeType DEF Within, Span
<1> QED BY <1>1, HeapInvariant, PTL

(* lock() gives a thread the heap at rest. *)
THEOREM HeapQuietWhileLocked == ~MmapMayFail => (Spec => []QuietWhileLocked)
<1>1. HeapInv => QuietWhileLocked
  BY OnlyHolder DEF QuietWhileLocked, At
<1> QED BY <1>1, HeapInvariant, PTL

-----------------------------------------------------------------------------
(* Counting: the objects are finitely many, and owned counts them.         *)
LEMMA CountInitInv == Init => CountInv
BY FS_EmptySet DEF Init, CountInv

(* A thread that brings an object to its client adds one to the clients'.  *)
LEMMA GiveCounts ==
  ASSUME HeapInv, CountInv, NEW t \in Threads, Give(t)
  PROVE  CountInv'
<1>1. /\ place[t] = "give" /\ onList' = onList
      /\ live' = live \union ({hand[t]} \ {NULL})
      /\ owned' = IF hand[t] = NULL THEN owned ELSE owned + 1
  BY DEF Give
<1>2. CASE hand[t] = NULL
  BY <1>1, <1>2 DEF CountInv
<1>3. CASE hand[t] # NULL
  <2>1. hand[t] \notin live
    BY <1>1, <1>3 DEF HeapInv, OwnerInv, InFlight
  <2>2. live' = live \union {hand[t]}
    BY <1>1, <1>3
  <2>3. IsFiniteSet(live') /\ Cardinality(live') = Cardinality(live) + 1
    BY <2>1, <2>2, FS_AddElement DEF CountInv
  <2> QED BY <1>1, <1>3, <2>3 DEF CountInv
<1> QED BY <1>2, <1>3

(* A call of free takes one away. *)
LEMMA CallFreeCounts ==
  ASSUME HeapInv, CountInv, NEW t \in Threads, CallFree(t)
  PROVE  CountInv'
<1>1. PICK p \in live \union {NULL} :
        live' = live \ {p} /\ owned' = IF p = NULL THEN owned ELSE owned - 1
  BY DEF CallFree
<1>2. onList' = onList
  BY DEF CallFree
<1>3. NULL \notin live
  BY AddrType DEF HeapInv, TypeOK
<1> QED BY <1>1, <1>2, <1>3, FS_RemoveElement DEF CountInv

LEMMA CountStepInv == HeapInv /\ CountInv /\ [Next]_vars => CountInv'
<1> SUFFICES ASSUME HeapInv, CountInv, [Next]_vars PROVE CountInv'
  OBVIOUS
<1>1. ASSUME NEW t \in Threads, Pop(t) \/ ClearPop(t) \/ Link(t) PROVE CountInv'
  <2>1. /\ UNCHANGED <<live, owned>>
        /\ onList' = onList \ {hand[t]} \/ onList' = onList \union {hand[t]}
    BY <1>1 DEF Pop, ClearPop, Link
  <2>2. IsFiniteSet(onList \ {hand[t]}) /\ IsFiniteSet(onList \union {hand[t]})
    BY FS_AddElement, FS_RemoveElement DEF CountInv
  <2> QED BY <2>1, <2>2 DEF CountInv
<1>2. ASSUME NEW t \in Threads,
             \/ CallMalloc(t) \/ CallLock(t) \/ Clear(t) \/ LockWait(t) \/ Get(t)
             \/ Refill(t) \/ Carve(t) \/ Put(t) \/ ClearGet(t) \/ Done(t)
      PROVE  CountInv'
  <2>1. UNCHANGED <<live, owned, onList>>
    BY <1>2 DEF CallMalloc, CallLock, Clear, LockWait, Get, Refill, Carve, Put, ClearGet,
       Done, clientVars
  <2> QED BY <2>1 DEF CountInv
<1>3. CASE \E p \in live : ClientWrite(p)
  BY <1>3 DEF ClientWrite, clientVars, CountInv
<1>4. CASE UNCHANGED vars
  BY <1>4 DEF vars, clientVars, CountInv
<1> QED BY <1>1, <1>2, <1>3, <1>4, GiveCounts, CallFreeCounts DEF Next, Call, Inside

LEMMA CountInvariant == ~MmapMayFail => (Spec => []CountInv)
<1> SUFFICES ASSUME ~MmapMayFail PROVE Spec => []CountInv
  OBVIOUS
<1>1. HeapInv /\ CountInv /\ [Next]_vars => CountInv'
  BY CountStepInv
<1> QED BY <1>1, CountInitInv, HeapInvariant, PTL DEF Spec

(* Every object ever cut from a chunk is in one place: with one client, in *)
(* one thread's hands, on the list, or dropped; none is lost or doubled.   *)
THEOREM HeapNothingLost == ~MmapMayFail => (Spec => []NothingLost)
<1>1. HeapInv /\ CountInv => NothingLost
  BY DEF HeapInv, CountInv, CutInv, OwnerInv, Known, NothingLost
<1> QED BY <1>1, HeapInvariant, CountInvariant, PTL

(* Following the free list's links visits every freed object once and ends *)
(* at nullptr, also between the two writes of an insertion.                *)
THEOREM HeapListIsIntact == ~MmapMayFail => (Spec => []ListIsIntact)
<1>1. HeapInv /\ CountInv => ListIsIntact
  <2> SUFFICES ASSUME HeapInv, CountInv PROVE ListIsIntact
    OBVIOUS
  <2> DEFINE k == Cardinality(onList)
             walk == CHOOSE w : Follows(w, k, head, next, Addr, NULL)
  <2>1. k \in Nat /\ IsFiniteSet(onList) /\ onList \in SUBSET Addr
    BY FS_CardinalityType DEF CountInv, HeapInv, TypeOK
  <2>2. \E w : Follows(w, k, head, next, Addr, NULL)
    <3> HIDE DEF k
    <3> QED BY <2>1, WalkExists
  <2>3. Follows(walk, k, head, next, Addr, NULL)
    BY <2>2
  <2>4. IsList(head, next, onList, NULL)
    BY DEF HeapInv, ListInv
  <2>5. Visited(walk, k) = onList /\ walk[k] = NULL
    <3> HIDE DEF walk
    <3> QED BY <2>1, <2>3, <2>4, WalkVisits
  <2> QED BY <2>5 DEF ListIsIntact, Follows, Visited
<1> QED BY <1>1, HeapInvariant, CountInvariant, PTL

-----------------------------------------------------------------------------
(* The refinement of HeapContract.                                         *)

Blocks == {<<p, ObjSize>> : p \in live}
Requests == [t \in Threads |-> IF place[t] \in MallocPlaces THEN ObjSize ELSE 0]

(* Objects that lie apart have no byte in common. *)
LEMMA ApartDisjoint ==
  ASSUME NEW a \in Nat, NEW b \in Nat, Apart(a, ObjSize, b, ObjSize)
  PROVE  Contract!Disjoint(<<a, ObjSize>>, <<b, ObjSize>>)
BY DEF Apart, Contract!Disjoint, Contract!Bytes

(* A step that moves no thread into or out of malloc asks for nothing.     *)
LEMMA SameRequests ==
  ASSUME HeapInv, NEW t \in Threads, NEW where \in Places,
         place' = [place EXCEPT ![t] = where],
         where \in MallocPlaces <=> place[t] \in MallocPlaces
  PROVE  Requests' = Requests
<1>1. \A u \in Threads : place'[u] \in MallocPlaces <=> place[u] \in MallocPlaces
  BY DEF HeapInv, TypeOK
<1> QED BY <1>1 DEF Requests

LEMMA CallMallocRefines ==
  ASSUME HeapInv, NEW t \in Threads, CallMalloc(t)
  PROVE  Contract!Malloc(t)
<1>1. /\ place[t] = "client" /\ place' = [place EXCEPT ![t] = "get"]
      /\ live' = live /\ owned' = owned
  BY DEF CallMalloc, Goto, clientVars
<1>2. Requests[t] = 0 /\ Requests' = [Requests EXCEPT ![t] = ObjSize]
  BY <1>1 DEF Requests, MallocPlaces, HeapInv, TypeOK
<1>3. Requests'[t] = ObjSize
  BY <1>2 DEF Requests
<1> QED BY <1>1, <1>2, <1>3 DEF Contract!Malloc, Requests

LEMMA GiveRefines ==
  ASSUME HeapInv, NEW t \in Threads, Give(t)
  PROVE  Contract!Deliver(t)
<1>1. /\ place[t] = "give" /\ place' = [place EXCEPT ![t] = "client"]
      /\ live' = live \union ({hand[t]} \ {NULL})
      /\ owned' = IF hand[t] = NULL THEN owned ELSE owned + 1
  BY DEF Give, Goto
<1>2. Requests[t] = ObjSize /\ Requests' = [Requests EXCEPT ![t] = 0]
  BY <1>1 DEF Requests, MallocPlaces, HeapInv, TypeOK
<1>3. CASE hand[t] = NULL
  <2>1. live' = live /\ owned' = owned
    BY <1>1, <1>3
  <2> QED BY <1>2, <2>1 DEF Contract!Deliver, Requests
<1>4. CASE hand[t] # NULL
  <2>1. hand[t] \in Known /\ hand[t] \notin live /\ hand[t] \in Addr
    BY <1>1, <1>4 DEF HeapInv, OwnerInv, InFlight, Known, TypeOK
  <2>2. ASSUME NEW p \in live
        PROVE  Contract!Disjoint(<<hand[t], ObjSize>>, <<p, ObjSize>>)
    <3>1. Apart(hand[t], ObjSize, p, ObjSize)
      BY <2>1 DEF HeapInv, LayoutInv, Known
    <3>2. p \in Nat /\ hand[t] \in Nat
      BY <2>1, AddrType DEF HeapInv, TypeOK
    <3> QED BY <3>1, <3>2, ApartDisjoint
  <2>3. Blocks' = Blocks \union {<<hand[t], ObjSize>>} /\ owned' = owned + 1
    BY <1>1, <1>4 DEF Blocks
  <2>4. \A c \in Blocks : Contract!Disjoint(<<hand[t], ObjSize>>, c)
    BY <2>2 DEF Blocks
  <2>5. <<hand[t], ObjSize>>[2] >= Requests[t] /\ Requests[t] # 0
    BY <1>2
  <2> QED BY <1>2, <2>3, <2>4, <2>5 DEF Contract!Deliver, Requests, Blocks
<1> QED BY <1>3, <1>4

LEMMA CallFreeRefines ==
  ASSUME HeapInv, NEW t \in Threads, CallFree(t)
  PROVE  Contract!Free \/ UNCHANGED <<Blocks, owned, Requests>>
<1>1. PICK p \in live \union {NULL} :
        live' = live \ {p} /\ owned' = IF p = NULL THEN owned ELSE owned - 1
  BY DEF CallFree
<1>2. place[t] = "client" /\ place' = [place EXCEPT ![t] = "put"]
  BY DEF CallFree, Goto
<1>3. Requests' = Requests
  BY <1>2, SameRequests DEF Places, MallocPlaces
<1>4. Blocks' = Blocks \ {<<p, ObjSize>>}
  BY <1>1 DEF Blocks
<1>5. CASE p \in live
  <2>1. <<p, ObjSize>> \in Blocks
    BY <1>5 DEF Blocks
  <2>2. owned' = owned - 1
    BY <1>1, <1>5, AddrType DEF HeapInv, TypeOK
  <2> QED BY <1>3, <1>4, <2>1, <2>2 DEF Contract!Free, Blocks, Requests
<1>6. CASE p \notin live
  <2>1. Blocks' = Blocks /\ owned' = owned
    BY <1>1, <1>6 DEF Blocks
  <2> QED BY <1>3, <2>1
<1> QED BY <1>5, <1>6

(* All other steps are invisible to clients. *)
LEMMA InsideStutters ==
  ASSUME HeapInv, NEW t \in Threads,
         \/ CallLock(t) \/ Clear(t) \/ LockWait(t) \/ Get(t) \/ Pop(t) \/ Refill(t)
         \/ Carve(t) \/ Put(t) \/ Link(t) \/ ClearGet(t) \/ ClearPop(t) \/ Done(t)
  PROVE  UNCHANGED <<Blocks, owned, Requests>>
<1>1. live' = live /\ owned' = owned
  BY DEF CallLock, Clear, LockWait, Get, Pop, Refill, Carve, Put, Link, ClearGet, ClearPop,
     Done, clientVars
<1>2. \/ place' = place
      \/ \E where \in Places :
           /\ place' = [place EXCEPT ![t] = where]
           /\ where \in MallocPlaces <=> place[t] \in MallocPlaces
  BY DEF CallLock, Clear, LockWait, Get, Pop, Refill, Carve, Put, Link, ClearGet, ClearPop,
     Done, Goto, At, Places, MallocPlaces
<1>3. Requests' = Requests
  BY <1>2, SameRequests DEF Requests
<1> QED BY <1>1, <1>3 DEF Blocks

LEMMA HeapStepRefines ==
  ASSUME HeapInv, [Next]_vars
  PROVE  [Contract!Next]_<<Blocks, owned, Requests>>
<1>1. ASSUME NEW t \in Threads, Call(t) \/ Inside(t)
      PROVE  [Contract!Next]_<<Blocks, owned, Requests>>
  BY <1>1, CallMallocRefines, GiveRefines, CallFreeRefines, InsideStutters
     DEF Call, Inside, Contract!Next
<1>2. ASSUME NEW p \in live, ClientWrite(p)
      PROVE  UNCHANGED <<Blocks, owned, Requests>>
  BY <1>2 DEF ClientWrite, clientVars, Blocks, Requests
<1>3. ASSUME UNCHANGED vars
      PROVE  UNCHANGED <<Blocks, owned, Requests>>
  BY <1>3 DEF vars, clientVars, Blocks, Requests
<1> QED BY <1>1, <1>2, <1>3 DEF Next

(* The locked heap implements the contract of a heap. *)
THEOREM HeapImplementsContract == ~MmapMayFail => (Spec => ImplementsContract)
<1> SUFFICES ASSUME ~MmapMayFail PROVE Spec => ImplementsContract
  OBVIOUS
<1>1. Init => Contract!Init
  BY DEF Init, Contract!Init, MallocPlaces
<1>2. HeapInv /\ [Next]_vars => [Contract!Next]_<<Blocks, owned, Requests>>
  BY HeapStepRefines
<1>3. Spec => []HeapInv
  BY HeapInvariant
<1> QED
  BY <1>1, <1>2, <1>3, PTL DEF Spec, ImplementsContract, Contract!Spec, Blocks, Requests
=============================================================================
