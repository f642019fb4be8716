---------------------------- MODULE ThreadHeaps ----------------------------
(***************************************************************************)
(* Caches of freed objects for each thread, in front of one heap they      *)
(* share:                                                                  *)
(*                                                                         *)
(*   ThreadHeap<NumHeaps, P>  or  ThreadSpecificHeap<P>, where P is        *)
(*   LockedHeap<Lock, AllocatedHeap<BoundedFreeListHeap<NumObjects,        *)
(*     SizeHeap<UniqueHeap<LockedHeap<Lock, FreelistHeap<BumpAlloc>>>>>>>  *)
(*                                                                         *)
(* ThreadHeap picks one of NumHeaps heaps by the thread's id, so threads   *)
(* may share one; ThreadSpecificHeap has a heap in the storage of each     *)
(* thread, which ends with it.  Either way a block goes to the cache of    *)
(* the thread that frees it, whichever allocated it.  The shared heap is   *)
(* that of module LockedHeap: its calls are atomic, as HeapContract says.  *)
(***************************************************************************)
EXTENDS Integers, FiniteSets, Functions

CONSTANTS
  Threads, NoThread,
  Id,            \* getThreadId of each thread
  NumHeaps,      \* template parameter of ThreadHeap
  NumObjects,    \* template parameter of BoundedFreeListHeap
  Mortal,        \* the threads that may end
  Junk,          \* what clients write into the first word of their blocks
  MaxObjects     \* bound: objects the shared heap cuts

NULL == 0
ObjSize == 1     \* all objects have one size, the unit of this module

ASSUME ThreadHeapsAssumption ==
  /\ IsFiniteSet(Threads) /\ NoThread \notin Threads
  /\ Id \in [Threads -> Nat]
  /\ \A t, u \in Threads : Id[t] = Id[u] => t = u
  /\ NumHeaps \in Nat \ {0} /\ NumObjects \in Nat
  /\ Mortal \subseteq Threads
  /\ MaxObjects \in Nat
  /\ Junk \notin 0 .. MaxObjects

VARIABLES
  front,      \* which of the two front ends the program has
  asserts,    \* whether it was compiled with assertions
  lock,       \* owner of the lock of each heap
  head,       \* FreeSLList::head.next of each heap
  nObjects,   \* of each heap's BoundedFreeListHeap
  allocated,  \* of each heap's AllocatedHeap
  next,       \* the first word of every object: a link, or client data
  pool,       \* the shared heap's free objects
  cut,        \* how many objects it has cut from chunks: 1 .. cut
  place,      \* where each thread is in malloc or free
  hand,       \* the object each thread has in a local variable
  live,       \* history: the objects clients own
  owned,      \* history: how many, counted as they come and go
  cached,     \* history: the objects on the list of each heap
  lost        \* history: the objects nothing leads to any more

build == <<front, asserts>>
heapVars == <<lock, head, nObjects, allocated, next>>
sharedVars == <<pool, cut>>
history == <<live, owned, cached, lost>>
vars == <<build, heapVars, sharedVars, place, hand, history>>

Objects == 1 .. MaxObjects

(* The array of ThreadHeap, and behind it the storage of the threads.      *)
Heaps == 0 .. NumHeaps - 1 \union {NumHeaps + Id[t] : t \in Threads}

(* The heap of a call by thread t. *)
HeapOf(t) == IF front = "ThreadHeap" THEN Id[t] % NumHeaps ELSE NumHeaps + Id[t]

MallocPlaces == {"malloc", "get", "pop", "super", "give"}
FreePlaces == {"free", "put", "link", "clear", "drop", "done"}

Init ==
  /\ front \in {"ThreadHeap", "ThreadSpecificHeap"} /\ asserts \in BOOLEAN
  /\ lock = [h \in Heaps |-> NoThread]
  /\ head = [h \in Heaps |-> NULL]
  /\ nObjects = [h \in Heaps |-> 0]
  /\ allocated = [h \in Heaps |-> 0]
  /\ next = [o \in Objects |-> NULL]
  /\ pool = {} /\ cut = 0
  /\ place = [t \in Threads |-> "client"]
  /\ hand = [t \in Threads |-> NULL]
  /\ live = {} /\ owned = 0 /\ lost = {}
  /\ cached = [h \in Heaps |-> {}]

Goto(t, where) == place' = [place EXCEPT ![t] = where]
Take(t, o) == hand' = [hand EXCEPT ![t] = o]

-----------------------------------------------------------------------------
(* ThreadHeap or ThreadSpecificHeap, and LockedHeap round what follows.    *)

CallMalloc(t) ==
  /\ place[t] = "client"
  /\ Cardinality({u \in Threads : place[u] \in MallocPlaces \ {"give"}})
       < MaxObjects - cut + Cardinality(pool)
  /\ Goto(t, "malloc")
  /\ UNCHANGED <<build, heapVars, sharedVars, hand, history>>

CallFree(t) ==
  /\ place[t] = "client"
  /\ \E o \in live : Take(t, o) /\ live' = live \ {o} /\ owned' = owned - 1
  /\ Goto(t, "free")
  /\ UNCHANGED <<build, heapVars, sharedVars, cached, lost>>

(* Seeded bug: free goes ahead whoever has the lock. *)
AcquireToMalloc(t) ==
  /\ place[t] \in {"malloc", "free"}
  /\ place[t] = "malloc" => lock[HeapOf(t)] = NoThread
  /\ lock' = [lock EXCEPT ![HeapOf(t)] = t]
  /\ Goto(t, IF place[t] = "malloc" THEN "get" ELSE "put")
  /\ UNCHANGED <<build, head, nObjects, allocated, next, sharedVars, hand, history>>

Acquire(t) ==
  /\ place[t] \in {"malloc", "free"}
  /\ lock[HeapOf(t)] = NoThread
  /\ lock' = [lock EXCEPT ![HeapOf(t)] = t]
  /\ Goto(t, IF place[t] = "malloc" THEN "get" ELSE "put")
  /\ UNCHANGED <<build, head, nObjects, allocated, next, sharedVars, hand, history>>

(* Seeded bug: the lock of ThreadHeap's first heap is released. *)
ReleaseFirst(t) == lock' = [lock EXCEPT ![0] = NoThread]

Release(t) == lock' = [lock EXCEPT ![HeapOf(t)] = NoThread]

-----------------------------------------------------------------------------
(* BoundedFreeListHeap::malloc, over the shared heap.                      *)

Get(t) ==
  /\ place[t] = "get"
  /\ Take(t, head[HeapOf(t)])
  /\ Goto(t, IF head[HeapOf(t)] = NULL THEN "super" ELSE "pop")
  /\ UNCHANGED <<build, heapVars, sharedVars, history>>

Pop(t) ==
  LET h == HeapOf(t)
  IN  /\ place[t] = "pop"
      /\ head' = [head EXCEPT ![h] = next[hand[t]]]
      /\ nObjects' = [nObjects EXCEPT ![h] = @ - 1]
      /\ cached' = [cached EXCEPT ![h] = @ \ {hand[t]}]
      /\ Goto(t, "give")
      /\ UNCHANGED <<build, lock, allocated, next, sharedVars, hand, live, owned, lost>>

(* The shared heap's own free list comes before new memory. *)
Super(t) ==
  /\ place[t] = "super"
  /\ \E o \in IF pool = {} THEN {cut + 1} ELSE pool :
       /\ Take(t, o)
       /\ pool' = pool \ {o}
       /\ cut' = IF o > cut THEN o ELSE cut
  /\ Goto(t, "give")
  /\ UNCHANGED <<build, heapVars, history>>

(* AllocatedHeap counts the object, malloc returns, and the client fills   *)
(* its block.                                                              *)
Give(t) ==
  /\ place[t] = "give"
  /\ allocated' = [allocated EXCEPT ![HeapOf(t)] = @ + ObjSize]
  /\ Release(t)
  /\ live' = live \union {hand[t]} /\ owned' = owned + 1
  /\ next' = [next EXCEPT ![hand[t]] = Junk]
  /\ Take(t, NULL)
  /\ Goto(t, "client")
  /\ UNCHANGED <<build, head, nObjects, sharedVars, cached, lost>>

-----------------------------------------------------------------------------
(* AllocatedHeap::free and BoundedFreeListHeap::free.                      *)

(* Seeded bug: an object that finds no room is not counted. *)
PutUncounted(t) ==
  LET h == HeapOf(t)
  IN  /\ place[t] = "put"
      /\ IF nObjects[h] < NumObjects
         THEN /\ allocated' = [allocated EXCEPT ![h] = @ - ObjSize]
              /\ next' = [next EXCEPT ![hand[t]] = head[h]]
              /\ Goto(t, "link") /\ UNCHANGED <<hand, lost>>
         ELSE /\ Take(t, NULL) /\ lost' = lost \union {hand[t]}
              /\ Goto(t, "clear") /\ UNCHANGED <<next, allocated>>
      /\ UNCHANGED <<build, lock, head, nObjects, sharedVars, live, owned, cached>>

(* The counter of the freeing thread's heap goes down, whoever counted the *)
(* block.  While there is room the object goes to the list.  Otherwise the *)
(* list is emptied, and the object itself forgotten.                       *)
Put(t) ==
  LET h == HeapOf(t)
  IN  /\ place[t] = "put"
      /\ allocated' = [allocated EXCEPT ![h] = @ - ObjSize]
      /\ IF nObjects[h] < NumObjects
         THEN /\ next' = [next EXCEPT ![hand[t]] = head[h]]
              /\ Goto(t, "link") /\ UNCHANGED <<hand, lost>>
         ELSE /\ Take(t, NULL) /\ lost' = lost \union {hand[t]}
              /\ Goto(t, "clear") /\ UNCHANGED next
      /\ UNCHANGED <<build, lock, head, nObjects, sharedVars, live, owned, cached>>

Link(t) ==
  LET h == HeapOf(t)
  IN  /\ place[t] = "link"
      /\ head' = [head EXCEPT ![h] = hand[t]]
      /\ nObjects' = [nObjects EXCEPT ![h] = @ + 1]
      /\ cached' = [cached EXCEPT ![h] = @ \union {hand[t]}]
      /\ Take(t, NULL)
      /\ Goto(t, "done")
      /\ UNCHANGED <<build, lock, allocated, next, sharedVars, live, owned, lost>>

(* clear: one object after the other leaves the list ... *)
Clear(t) ==
  LET h == HeapOf(t)
      o == head[h]
  IN  /\ place[t] = "clear"
      /\ IF o = NULL THEN Goto(t, "done") /\ UNCHANGED <<head, cached, hand>>
         ELSE /\ head' = [head EXCEPT ![h] = next[o]]
              /\ cached' = [cached EXCEPT ![h] = @ \ {o}]
              /\ Take(t, o) /\ Goto(t, "drop")
      /\ UNCHANGED <<build, lock, nObjects, allocated, next, sharedVars, live, owned, lost>>

(* ... and goes to the shared heap.  The count goes down inside an assert. *)
Drop(t) ==
  /\ place[t] = "drop"
  /\ pool' = pool \union {hand[t]}
  /\ nObjects' = IF asserts THEN [nObjects EXCEPT ![HeapOf(t)] = @ - 1] ELSE nObjects
  /\ Take(t, NULL)
  /\ Goto(t, "clear")
  /\ UNCHANGED <<build, lock, head, allocated, next, cut, history>>

Done(t) ==
  /\ place[t] = "done"
  /\ Release(t)
  /\ Goto(t, "client")
  /\ UNCHANGED <<build, head, nObjects, allocated, next, sharedVars, hand, history>>

-----------------------------------------------------------------------------
(* Seeded bug: the heap of a thread that ends, shared or not, gives what   *)
(* it has cached to the shared heap, and keeps its list.                   *)
ExitToPool(t) ==
  /\ t \in Mortal /\ place[t] = "client"
  /\ Goto(t, "exited")
  /\ pool' = pool \union cached[HeapOf(t)]
  /\ UNCHANGED <<build, heapVars, cut, hand, history>>

(* A thread ends.  The storage of a thread goes without a destructor, and  *)
(* what its heap has cached with it.  Blocks stay with the clients.        *)
Exit(t) ==
  /\ t \in Mortal /\ place[t] = "client"
  /\ Goto(t, "exited")
  /\ IF front = "ThreadHeap" THEN UNCHANGED <<head, nObjects, cached, lost>>
     ELSE /\ head' = [head EXCEPT ![HeapOf(t)] = NULL]
          /\ nObjects' = [nObjects EXCEPT ![HeapOf(t)] = 0]
          /\ cached' = [cached EXCEPT ![HeapOf(t)] = {}]
          /\ lost' = lost \union cached[HeapOf(t)]
  /\ UNCHANGED <<build, lock, allocated, next, sharedVars, hand, live, owned>>

Inside(t) ==
  \/ Acquire(t) \/ Get(t) \/ Pop(t) \/ Super(t) \/ Give(t)
  \/ Put(t) \/ Link(t) \/ Clear(t) \/ Drop(t) \/ Done(t)

Next == \E t \in Threads : CallMalloc(t) \/ CallFree(t) \/ Exit(t) \/ Inside(t)

(* A thread inside a call is run again and again.  Clients need not call.  *)
Fairness == \A t \in Threads : WF_vars(Inside(t))

Spec == Init /\ [][Next]_vars
FairSpec == Spec /\ Fairness

-----------------------------------------------------------------------------
(* Properties.                                                             *)

TypeOK ==
  /\ front \in {"ThreadHeap", "ThreadSpecificHeap"} /\ asserts \in BOOLEAN
  /\ lock \in [Heaps -> Threads \union {NoThread}]
  /\ head \in [Heaps -> Objects \union {NULL}]
  /\ nObjects \in [Heaps -> 0 .. NumObjects]
  /\ allocated \in [Heaps -> Int]
  /\ next \in [Objects -> Objects \union {NULL, Junk}]
  /\ pool \subseteq Objects /\ cut \in 0 .. MaxObjects
  /\ place \in [Threads -> MallocPlaces \union FreePlaces \union {"client", "exited"}]
  /\ hand \in [Threads -> Objects \union {NULL}]
  /\ live \subseteq Objects /\ lost \subseteq Objects /\ owned \in Int
  /\ cached \in [Heaps -> SUBSET Objects]

(* The object thread t has in its hands, on the way from one place to      *)
(* another.  A thread about to pop its list's head has only seen it.       *)
InFlight(t) == IF place[t] = "pop" THEN {} ELSE {hand[t]} \ {NULL}

(* The links of each cache lead through its objects, each once, to the     *)
(* end, although the threads that cache an object and the threads that     *)
(* take it out are not those that wrote to it; the count never falls below *)
(* their number, so that the bound holds with and without assertions, and  *)
(* with assertions it is their number whenever the heap is not locked.     *)
CacheIsIntact(h) ==
  LET k == Cardinality(cached[h])
      walk[i \in 0 .. k] == IF i = 0 THEN head[h]
                            ELSE IF walk[i - 1] \in Objects THEN next[walk[i - 1]] ELSE NULL
  IN  /\ {walk[i] : i \in 0 .. k - 1} = cached[h] /\ walk[k] = NULL
      /\ k <= nObjects[h] /\ nObjects[h] <= NumObjects
      /\ asserts /\ lock[h] = NoThread => k = nObjects[h]

(* Every object the shared heap ever cut is in one place: with a client,   *)
(* in the hands of one thread, in one cache, in the shared heap, or among  *)
(* those the heaps forgot.                                                 *)
InOnePlace(o) ==
  1 = Cardinality({t \in Threads : o \in InFlight(t)})
      + Cardinality({h \in Heaps : o \in cached[h]})
      + (IF o \in live THEN 1 ELSE 0) + (IF o \in pool THEN 1 ELSE 0)
      + (IF o \in lost THEN 1 ELSE 0)

CachesAreIntact ==
  /\ \A h \in Heaps : CacheIsIntact(h)
  /\ \A o \in 1 .. cut : InOnePlace(o)

(* Threads count what they allocate in one heap and what they free in      *)
(* another, so that a heap's counter may go below zero.  Together the      *)
(* counters are the memory clients have, but for what calls under way have *)
(* not counted yet; the counter of a thread that ended is its last value.  *)
StatsAddUp ==
  SumFunction(allocated) =
    ObjSize * (owned + Cardinality({t \in Threads : place[t] \in {"free", "put"}}))

(* The caches change nothing for the clients: a block comes to one client  *)
(* at a time, whichever thread freed it before and whichever heap of the   *)
(* two front ends it went through.                                         *)
Contract == INSTANCE HeapContract WITH
  live <- {<<o, ObjSize>> : o \in live},
  owned <- owned,
  request <- [t \in Threads |-> IF place[t] \in MallocPlaces THEN ObjSize ELSE 0]
ImplementsContract == Contract!Spec

(* While threads are inside calls, calls complete: neither threads that    *)
(* share a heap nor an overflow of a cache hold all of them up for ever.   *)
SomeCallReturns ==
  (\E t \in Threads : place[t] \in MallocPlaces \union FreePlaces)
    ~> (\E t \in Threads : place[t] \in {"give", "done"})
=============================================================================
