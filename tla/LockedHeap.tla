----------------------------- MODULE LockedHeap -----------------------------
(***************************************************************************)
(* LockedHeap<SpinLockType, FreelistHeap<BumpAlloc<ChunkSize, mmap>>>: the *)
(* stack MmapHeap keeps for its own map nodes, and the simplest complete   *)
(* thread-safe heap of the repository.  Threads allocate and free blocks   *)
(* of one size; freed blocks are kept on a list threaded through their own *)
(* first word (FreeSLList), new ones are cut from chunks the kernel maps.  *)
(*                                                                         *)
(* Every read and write of the shared state is a step of its own, so the   *)
(* lock is all that orders them.                                           *)
(***************************************************************************)
EXTENDS SpinLock, FreeLists, Integers, FiniteSets

CONSTANTS
  ObjSize,        \* the one request size, rounded up to the alignment
  ChunkSize,      \* template parameter of BumpAlloc
  ChunkAddrs,     \* addresses the kernel may map a chunk at
  MmapMayFail,    \* whether mmap may return MAP_FAILED
  Junk,           \* whatever a client stores in the first word of its block
  MaxObjects,     \* bound: objects with clients or on their way
  MaxDropped      \* bound: objects given up by clear()

NULL == 0

RefillSize == IF ObjSize < ChunkSize THEN ChunkSize ELSE ObjSize

Span(a, n) == a .. a + n - 1

Addr == UNION {Span(c, RefillSize) : c \in ChunkAddrs}

ASSUME LockedHeapAssumption ==
  /\ ObjSize \in Nat \ {0}
  /\ ChunkSize \in Nat \ {0}
  /\ ChunkAddrs \subseteq Nat \ {0}
  /\ MmapMayFail \in BOOLEAN
  /\ Junk \notin Addr \union {NULL}
  /\ MaxObjects \in Nat /\ MaxDropped \in Nat


VARIABLES
  head,       \* FreeSLList::head.next
  next,       \* the first word of every object: Entry::next, or client data
  bump,       \* BumpAlloc::_bump
  remaining,  \* BumpAlloc::_remaining
  mapped,     \* chunks the kernel has mapped
  place,      \* where each thread is in malloc, free or clear
  hand,       \* the object each thread has in a local variable
  live,       \* history: the objects clients own
  owned,      \* history: how many, counted as they come and go
  onList,     \* history: the objects inserted and not yet taken
  dropped     \* history: the objects clear() gave to BumpAlloc::free

heapVars == <<head, next, bump, remaining, mapped>>
clientVars == <<live, owned, onList, dropped>>
vars == <<lockVars, heapVars, place, hand, clientVars>>

MallocPlaces == {"get", "pop", "super", "carve", "give"}
Places == MallocPlaces \union
          {"client", "put", "link", "done", "locked", "clear", "clearpop"}

Init ==
  /\ LockInit
  /\ head = NULL
  /\ next = [a \in Addr |-> NULL]     \* mmap hands out zeroed pages
  /\ bump = NULL /\ remaining = 0
  /\ mapped = {}
  /\ place = [t \in Threads |-> "client"]
  /\ hand = [t \in Threads |-> NULL]
  /\ live = {} /\ owned = 0 /\ onList = {} /\ dropped = {}

Goto(t, where) == place' = [place EXCEPT ![t] = where]
Take(t, p) == hand' = [hand EXCEPT ![t] = p]

(* Thread t has the lock and is at this place of the locked code. *)
At(t, where) == place[t] = where /\ Holds(t)

-----------------------------------------------------------------------------
(* The calls: each begins with the lock_guard's lock().                    *)

(* The objects with clients, on their way, or about to be asked for. *)
InUse == Cardinality(live) + Cardinality({t \in Threads : place[t] # "client"})

CallMalloc(t) ==
  /\ place[t] = "client" /\ InUse < MaxObjects
  /\ Lock(t) /\ Goto(t, "get")
  /\ UNCHANGED <<heapVars, hand, clientVars>>

(* free(ptr) of a block some client owns, or of nullptr. *)
CallFree(t) ==
  /\ place[t] = "client"
  /\ Lock(t) /\ Goto(t, "put")
  /\ \E p \in live \union {NULL} :
       /\ Take(t, p)
       /\ live' = live \ {p}
       /\ owned' = IF p = NULL THEN owned ELSE owned - 1
  /\ UNCHANGED <<heapVars, onList, dropped>>

(* lock(), which the fork handlers call and a client must call round       *)
(* clear(): LockedHeap does not wrap it.                                   *)
CallLock(t) ==
  /\ place[t] = "client"
  /\ Lock(t) /\ Goto(t, "locked")
  /\ UNCHANGED <<heapVars, hand, clientVars>>

(* The thread waits in SpinLockType::lock(). *)
LockWait(t) ==
  /\ Contend(t)
  /\ UNCHANGED <<heapVars, place, hand, clientVars>>

-----------------------------------------------------------------------------
(* FreelistHeap::malloc over FreeSLList::get and BumpAlloc::malloc.        *)

(* get(): e = head.next; an empty list sends malloc to the superheap. *)
Get(t) ==
  /\ At(t, "get")
  /\ Take(t, head)
  /\ Goto(t, IF head = NULL THEN "super" ELSE "pop")
  /\ UNCHANGED <<lockVars, heapVars, clientVars>>

(* Seeded bug: the head is read but not advanced. *)
PopPeek(t) ==
  /\ At(t, "pop")
  /\ Goto(t, "give")
  /\ UNCHANGED <<lockVars, heapVars, hand, clientVars>>

(* get(): head.next = e->next. *)
Pop(t) ==
  /\ At(t, "pop")
  /\ head' = next[hand[t]]
  /\ onList' = onList \ {hand[t]}
  /\ Goto(t, "give")
  /\ UNCHANGED <<lockVars, next, bump, remaining, mapped, hand, live, owned, dropped>>

(* What mmap may return for a chunk: any place free of other mappings.     *)
MmapResults ==
  {c \in ChunkAddrs : \A m \in mapped : Span(c, RefillSize) \intersect Span(m, RefillSize) = {}}
    \union (IF MmapMayFail THEN {NULL} ELSE {})

(* Seeded bug: the last object of a chunk is thought not to fit. *)
RefillTooEarly(t) ==
  /\ At(t, "super") /\ remaining <= ObjSize + 1
  /\ \E c \in MmapResults : bump' = c /\ mapped' = mapped \union ({c} \ {NULL})
  /\ remaining' = RefillSize
  /\ Goto(t, "carve")
  /\ UNCHANGED <<lockVars, head, next, hand, clientVars>>

(* BumpAlloc::refill: the new chunk replaces the old one, whatever mmap    *)
(* returned.                                                               *)
Refill(t) ==
  /\ At(t, "super") /\ remaining < ObjSize
  /\ \E c \in MmapResults :
       /\ bump' = c
       /\ mapped' = mapped \union ({c} \ {NULL})
  /\ remaining' = RefillSize
  /\ Goto(t, "carve")
  /\ UNCHANGED <<lockVars, head, next, hand, clientVars>>

(* Seeded bug: the pointer is bumped whatever is left of the chunk. *)
CarveUnchecked(t) ==
  /\ At(t, "carve") \/ (At(t, "super") /\ remaining > 0)
  /\ Take(t, bump)
  /\ bump' = bump + ObjSize
  /\ remaining' = remaining - ObjSize
  /\ Goto(t, "give")
  /\ UNCHANGED <<lockVars, head, next, mapped, clientVars>>

(* BumpAlloc::malloc: bump the pointer. *)
Carve(t) ==
  /\ At(t, "carve") \/ (At(t, "super") /\ remaining >= ObjSize)
  /\ Take(t, bump)
  /\ bump' = bump + ObjSize
  /\ remaining' = remaining - ObjSize
  /\ Goto(t, "give")
  /\ UNCHANGED <<lockVars, head, next, mapped, clientVars>>

(* malloc returns: unlock, and the client owns what it got. *)
Give(t) ==
  /\ place[t] = "give"
  /\ Unlock(t) /\ Goto(t, "client")
  /\ live' = live \union ({hand[t]} \ {NULL})
  /\ owned' = IF hand[t] = NULL THEN owned ELSE owned + 1
  /\ Take(t, NULL)
  /\ UNCHANGED <<heapVars, onList, dropped>>

-----------------------------------------------------------------------------
(* FreelistHeap::free over FreeSLList::insert.                             *)

(* Seeded bug: the object keeps what its client wrote where the link goes. *)
PutUnlinked(t) ==
  /\ At(t, "put")
  /\ Goto(t, IF hand[t] = NULL THEN "done" ELSE "link")
  /\ UNCHANGED <<lockVars, heapVars, hand, clientVars>>

(* Seeded bug: the early return of free(nullptr) skips the unlock. *)
PutKeepsLock(t) ==
  /\ At(t, "put")
  /\ IF hand[t] = NULL
       THEN Goto(t, "client") /\ UNCHANGED next
       ELSE Goto(t, "link") /\ next' = [next EXCEPT ![hand[t]] = head]
  /\ UNCHANGED <<lockVars, head, bump, remaining, mapped, hand, clientVars>>

(* insert(): entry->next = head.next; nullptr is ignored. *)
Put(t) ==
  /\ At(t, "put")
  /\ IF hand[t] = NULL
       THEN Goto(t, "done") /\ UNCHANGED next
       ELSE Goto(t, "link") /\ next' = [next EXCEPT ![hand[t]] = head]
  /\ UNCHANGED <<lockVars, head, bump, remaining, mapped, hand, clientVars>>

(* insert(): head.next = entry. *)
Link(t) ==
  /\ At(t, "link")
  /\ head' = hand[t]
  /\ onList' = onList \union {hand[t]}
  /\ Take(t, NULL)
  /\ Goto(t, "done")
  /\ UNCHANGED <<lockVars, next, bump, remaining, mapped, live, owned, dropped>>

(* The end of free(), and unlock() after lock(). *)
Done(t) ==
  /\ place[t] \in {"done", "locked"}
  /\ Unlock(t) /\ Goto(t, "client")
  /\ UNCHANGED <<heapVars, hand, clientVars>>

-----------------------------------------------------------------------------
(* FreelistHeap::clear, called between lock() and unlock().                *)
Clear(t) ==
  /\ At(t, "locked") /\ Goto(t, "clear")
  /\ Cardinality(onList) + Cardinality(dropped) <= MaxDropped
  /\ UNCHANGED <<lockVars, heapVars, hand, clientVars>>

ClearGet(t) ==
  /\ At(t, "clear")
  /\ Take(t, head)
  /\ Goto(t, IF head = NULL THEN "done" ELSE "clearpop")
  /\ UNCHANGED <<lockVars, heapVars, clientVars>>

(* The object goes to BumpAlloc::free, which ignores it. *)
ClearPop(t) ==
  /\ At(t, "clearpop")
  /\ head' = next[hand[t]]
  /\ onList' = onList \ {hand[t]}
  /\ dropped' = dropped \union {hand[t]}
  /\ Take(t, NULL)
  /\ Goto(t, "clear")
  /\ UNCHANGED <<lockVars, next, bump, remaining, mapped, live, owned>>

(* A client writes to a block it owns, link word included. *)
ClientWrite(p) ==
  /\ p \in live
  /\ next' = [next EXCEPT ![p] = Junk]
  /\ UNCHANGED <<lockVars, head, bump, remaining, mapped, place, hand, clientVars>>

-----------------------------------------------------------------------------
(* The steps of a call that is under way; Done ends lock() as well. *)
Inside(t) ==
  \/ LockWait(t) \/ Get(t) \/ Pop(t) \/ Refill(t) \/ Carve(t) \/ Give(t)
  \/ Put(t) \/ Link(t) \/ ClearGet(t) \/ ClearPop(t) \/ Done(t)

Call(t) == CallMalloc(t) \/ CallFree(t) \/ CallLock(t) \/ Clear(t)

Next ==
  \/ \E t \in Threads : Call(t) \/ Inside(t)
  \/ \E p \in live : ClientWrite(p)

(* A thread inside a call is run again and again, and the client that took *)
(* the lock with lock() goes on to unlock it.  Clients need not call.      *)
Fairness == \A t \in Threads : WF_vars(Inside(t))

Spec == Init /\ [][Next]_vars
FairSpec == Spec /\ Fairness

-----------------------------------------------------------------------------
TypeOK ==
  /\ LockTypeOK
  /\ head \in Addr \union {NULL}
  /\ next \in [Addr -> Addr \union {NULL, Junk}]
  /\ bump \in Nat /\ remaining \in 0 .. RefillSize
  /\ mapped \subseteq ChunkAddrs
  /\ place \in [Threads -> Places]
  /\ hand \in [Threads -> Addr \union {NULL}]
  /\ live \subseteq Addr /\ onList \subseteq Addr /\ dropped \subseteq Addr

(* Following the links from the head visits every freed object once and    *)
(* ends at nullptr, although the links are stored in memory that clients   *)
(* wrote to before, and whoever is between the two writes of insert().     *)
ListIsIntact ==
  LET k == Cardinality(onList)
      walk[i \in 0 .. k] == IF i = 0 THEN head
                            ELSE IF walk[i - 1] \in Addr THEN next[walk[i - 1]] ELSE NULL
  IN  /\ {walk[i] : i \in 0 .. k - 1} = onList
      /\ walk[k] = NULL

(* The object only thread t knows of: on its way to a client or the list.  *)
InFlight(t) == IF place[t] \in {"give", "put", "link"} THEN {hand[t]} \ {NULL} ELSE {}

(* The objects cut from the mapped chunks so far. *)
Cut == {a \in Addr :
          /\ \E m \in mapped : /\ a >= m /\ (a - m) % ObjSize = 0
                               /\ a + ObjSize <= m + RefillSize
          /\ a \notin Span(bump, remaining)}

(* Every object ever cut is in one place only: owned by one client, in the *)
(* hands of one thread, on the free list, or dropped by clear(), and none  *)
(* is lost on the way.                                                     *)
NothingLost ==
  /\ owned = Cardinality(live)
  /\ Cut = live \union onList \union dropped \union UNION {InFlight(t) : t \in Threads}
  /\ live \intersect onList = {} /\ dropped \intersect (live \union onList) = {}
  /\ \A t \in Threads :
       /\ InFlight(t) \intersect (live \union onList \union dropped) = {}
       /\ \A u \in Threads \ {t} : InFlight(t) \intersect InFlight(u) = {}

(* "Obtains memory in chunks and bumps a pointer through the chunks"       *)
(* (bumpalloc.h:32): every byte of a block lies in a chunk mmap returned.  *)
BlocksAreMapped ==
  \A p \in live : Span(p, ObjSize) \subseteq UNION {Span(m, RefillSize) : m \in mapped}

(* A thread that has the heap's lock through lock(), as the fork handlers  *)
(* do, finds no other thread inside malloc, free or clear, and all freed   *)
(* memory on the list: the copy a child process gets is usable.            *)
QuietWhileLocked ==
  \A t \in Threads : At(t, "locked") =>
    \A u \in Threads \ {t} :
      /\ ~Holds(u)
      /\ place[u] \in {"client", "get", "put", "locked"}

(* The detailed heap implements the contract of HeapContract: taking and   *)
(* returning blocks is atomic for the clients, between call and return.    *)
Contract == INSTANCE HeapContract WITH
  live <- {<<p, ObjSize>> : p \in live},
  owned <- owned,
  request <- [t \in Threads |-> IF place[t] \in MallocPlaces THEN ObjSize ELSE 0]
ImplementsContract == Contract!Spec

(* While threads are inside calls, calls complete: neither the lock nor a  *)
(* walk along the list can hold all of them up for ever.                   *)
SomeCallReturns ==
  (\E t \in Threads : place[t] # "client")
    ~> (\E t \in Threads : At(t, "give") \/ At(t, "done") \/ At(t, "locked"))

-----------------------------------------------------------------------------
(* The inductive invariant, for a kernel that never refuses memory.        *)

(* What a thread has in its hands at each place.  Only the first place of  *)
(* a call is reached before the lock is.                                   *)
PlaceInv == \A t \in Threads :
  /\ place[t] = "client" <=> spin[t] = "out"
  /\ place[t] \notin {"client", "get", "put", "locked"} => Holds(t)
  /\ place[t] \notin {"pop", "clearpop", "give", "put", "link"} => hand[t] = NULL
  /\ place[t] \in {"pop", "clearpop"} => hand[t] = head /\ head # NULL
  /\ place[t] = "link" => hand[t] # NULL /\ next[hand[t]] = head
  /\ place[t] = "carve" => remaining >= ObjSize

(* The freed objects are a list. *)
ListInv == IsList(head, next, onList, NULL)

(* Each object has one owner. *)
OwnerInv ==
  /\ live \intersect onList = {} /\ dropped \intersect (live \union onList) = {}
  /\ \A t \in Threads :
       /\ InFlight(t) \intersect (live \union onList \union dropped) = {}
       /\ \A u \in Threads \ {t} : InFlight(t) \intersect InFlight(u) = {}

(* The objects cut so far, as the list, the clients and the threads know   *)
(* them.                                                                   *)
Known == live \union onList \union dropped \union UNION {InFlight(t) : t \in Threads}

Within(a, n, m) == m <= a /\ a + n <= m + RefillSize
Apart(a, n, b, k) == a + n <= b \/ b + k <= a

(* Objects lie in mapped chunks, apart from each other and from the part   *)
(* of the chunk that is still to be cut.                                   *)
LayoutInv ==
  /\ \A o \in Known : /\ \E m \in mapped : Within(o, ObjSize, m)
                      /\ Apart(o, ObjSize, bump, remaining)
                      /\ \A p \in Known \ {o} : Apart(o, ObjSize, p, ObjSize)
  /\ remaining > 0 => \E m \in mapped : Within(bump, remaining, m)

(* Chunks are apart, and what was cut of them is known: the current chunk  *)
(* m is cut into objects up to bump, and the others are used up.           *)
CutInv ==
  /\ \A m, k \in mapped : m # k => Apart(m, RefillSize, k, RefillSize)
  /\ mapped # {} => \E m \in mapped : /\ m <= bump /\ (bump - m) % ObjSize = 0
                                     /\ bump + remaining = m + RefillSize
  /\ mapped = {} => remaining = 0
  /\ Cut = Known

HeapInv ==
  /\ TypeOK
  /\ MutualExclusion /\ FlagMeansHeld
  /\ PlaceInv
  /\ ListInv
  /\ OwnerInv
  /\ LayoutInv
  /\ CutInv

(* The clients' objects, and the list's, can be counted. *)
CountInv ==
  /\ IsFiniteSet(live) /\ IsFiniteSet(onList)
  /\ owned = Cardinality(live)
=============================================================================
