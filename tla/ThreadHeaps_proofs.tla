------------------------ MODULE ThreadHeaps_proofs ------------------------
(* The caches of freed objects change nothing for clients, for any number  *)
(* of threads and heaps and any bound on the caches: every object is in    *)
(* one place, and a block goes to one client at a time.                    *)
EXTENDS ThreadHeaps, Facts

USE ThreadHeapsAssumption DEF ThreadHeapsAssumption

(* Where a thread has the lock of its heap, and where an object in hand.   *)
LockedPlaces == {"get", "pop", "super", "give", "put", "link", "clear", "drop", "done"}
HoldingPlaces == {"pop", "give", "free", "put", "link", "drop"}

(* The calls of malloc that may still need an object of the shared heap.   *)
Pending == {u \in Threads : place[u] \in MallocPlaces \ {"give"}}

PlaceInv ==
  \A t \in Threads :
    /\ hand[t] = NULL <=> place[t] \notin HoldingPlaces
    /\ lock[HeapOf(t)] = t <=> place[t] \in LockedPlaces
    /\ place[t] = "pop" => hand[t] = head[HeapOf(t)]
    /\ place[t] = "link" => /\ next[hand[t]] = head[HeapOf(t)]
                            /\ nObjects[HeapOf(t)] < NumObjects

(* The objects of a cache are a list. *)
ListInv == \A h \in Heaps : IsList(head[h], next, cached[h], NULL)

CountInv ==
  /\ \A h \in Heaps : /\ IsFiniteSet(cached[h])
                      /\ Cardinality(cached[h]) <= nObjects[h]
  /\ \A t \in Threads :
       place[t] = "drop" => Cardinality(cached[HeapOf(t)]) < nObjects[HeapOf(t)]

(* The guard of CallMalloc leaves an object for every call under way.      *)
RoomInv ==
  /\ IsFiniteSet(Pending) /\ IsFiniteSet(pool)
  /\ Cardinality(Pending) <= MaxObjects - cut + Cardinality(pool)

(* The sets objects can be in do not overlap, and hold all that were cut.  *)
OwnerInv ==
  /\ live \intersect pool = {} /\ live \intersect lost = {} /\ pool \intersect lost = {}
  /\ \A h \in Heaps : cached[h] \intersect (live \union pool \union lost) = {}
  /\ \A t \in Threads : InFlight(t) \intersect (live \union pool \union lost) = {}
  /\ \A h \in Heaps, t \in Threads : cached[h] \intersect InFlight(t) = {}
  /\ \A h, g \in Heaps : h # g => cached[h] \intersect cached[g] = {}
  /\ \A t, u \in Threads : t # u => InFlight(t) \intersect InFlight(u) = {}

Somewhere(o) ==
  \/ o \in live \union pool \union lost
  \/ \E h \in Heaps : o \in cached[h]
  \/ \E t \in Threads : o \in InFlight(t)

CutInv == \A o \in Objects : o <= cut <=> Somewhere(o)

CachesInv == TypeOK /\ PlaceInv /\ ListInv /\ CountInv /\ RoomInv /\ OwnerInv /\ CutInv

-----------------------------------------------------------------------------
LEMMA HeapOfType == ASSUME TypeOK, NEW t \in Threads PROVE HeapOf(t) \in Heaps
<1>1. Id[t] \in Nat /\ NumHeaps \in Nat /\ NumHeaps > 0
  OBVIOUS
<1>2. Id[t] % NumHeaps \in 0 .. NumHeaps - 1
  BY <1>1
<1> QED BY <1>2 DEF HeapOf, Heaps

(* The front end is chosen once. *)
LEMMA HeapOfFixed == ASSUME UNCHANGED build PROVE \A t \in Threads : HeapOf(t)' = HeapOf(t)
BY DEF build, HeapOf

(* Nobody else is inside the calls of a heap beside the one with its lock. *)
LEMMA OnlyHolder ==
  ASSUME PlaceInv, NEW t \in Threads, place[t] \in LockedPlaces,
         NEW u \in Threads \ {t}, HeapOf(u) = HeapOf(t)
  PROVE  place[u] \notin LockedPlaces
BY DEF PlaceInv

(* The storage of a thread is its own. *)
LEMMA OwnStorage ==
  ASSUME TypeOK, front # "ThreadHeap", NEW t \in Threads, NEW u \in Threads \ {t}
  PROVE  HeapOf(t) # HeapOf(u)
<1>1. Id[t] \in Nat /\ Id[u] \in Nat /\ Id[t] # Id[u]
  OBVIOUS
<1> QED BY <1>1 DEF HeapOf

LEMMA CachesInitInv == Init => CachesInv
<1> SUFFICES ASSUME Init PROVE CachesInv
  OBVIOUS
<1>1. TypeOK
  BY DEF Init, TypeOK, NULL
<1>2. \A t \in Threads : place[t] = "client" /\ hand[t] = NULL /\ InFlight(t) = {}
  BY DEF Init, InFlight
<1>3. PlaceInv
  BY <1>1, <1>2, HeapOfType DEF Init, PlaceInv, HoldingPlaces, LockedPlaces
<1>4. ListInv
  BY DEF Init, ListInv, IsList
<1>5. CountInv
  BY <1>2, FS_EmptySet DEF Init, CountInv
<1>6. RoomInv
  <2>1. Pending = {}
    BY <1>2 DEF Pending, MallocPlaces
  <2> QED BY <2>1, FS_EmptySet DEF Init, RoomInv
<1>7. OwnerInv /\ CutInv
  BY <1>2 DEF Init, OwnerInv, CutInv, Somewhere, Objects
<1> QED BY <1>1, <1>3, <1>4, <1>5, <1>6, <1>7 DEF CachesInv

-----------------------------------------------------------------------------
(* Lemmas on the parts of a step that many actions share.                  *)

Waiting == MallocPlaces \ {"give"}

LEMMA PendingSame ==
  ASSUME TypeOK, NEW t \in Threads, NEW where, Goto(t, where),
         where \in Waiting <=> place[t] \in Waiting
  PROVE  Pending' = Pending
<1>1. \A u \in Threads : place'[u] \in Waiting <=> place[u] \in Waiting
  BY DEF Goto, TypeOK
<1> QED BY <1>1 DEF Pending, Waiting

(* A call that has its object leaves the others one less to wait for.      *)
LEMMA PendingServed ==
  ASSUME TypeOK, RoomInv, NEW t \in Threads, place[t] \in Waiting, Goto(t, "give")
  PROVE  /\ IsFiniteSet(Pending')
         /\ Cardinality(Pending') = Cardinality(Pending) - 1
         /\ Cardinality(Pending') \in Nat
<1>1. t \in Pending /\ IsFiniteSet(Pending)
  BY DEF Pending, Waiting, RoomInv
<1>2. Pending' = Pending \ {t}
  BY DEF Pending, Goto, TypeOK, Waiting
<1> QED BY <1>1, <1>2, FS_RemoveElement, FS_CardinalityType

(* Calls that move no object. *)
LEMMA OwnersSame ==
  ASSUME OwnerInv, CutInv, UNCHANGED <<live, pool, lost, cached, cut>>,
         \A u \in Threads : InFlight(u)' = InFlight(u)
  PROVE  OwnerInv' /\ CutInv'
<1>1. OwnerInv'
  BY DEF OwnerInv
<1>2. \A o : Somewhere(o)' <=> Somewhere(o)
  BY DEF Somewhere
<1>3. CutInv'
  BY <1>2 DEF CutInv
<1> QED BY <1>1, <1>3

LEMMA ListSame ==
  ASSUME ListInv, UNCHANGED <<head, cached>>,
         \A h \in Heaps : \A o \in cached[h] : next'[o] = next[o]
  PROVE  ListInv'
BY SameList DEF ListInv

-----------------------------------------------------------------------------
(* The calls and the lock. *)

LEMMA CallMallocKeeps ==
  ASSUME CachesInv, NEW t \in Threads, CallMalloc(t)
  PROVE  CachesInv'
<1> USE DEF CachesInv
<1>1. /\ place[t] = "client" /\ place' = [place EXCEPT ![t] = "malloc"]
      /\ Cardinality(Pending) < MaxObjects - cut + Cardinality(pool)
      /\ UNCHANGED <<build, front, asserts, lock, head, nObjects, allocated, next, pool, cut,
                    hand, live, owned, cached, lost>>
  BY DEF CallMalloc, Goto, Pending, build, heapVars, sharedVars, history
<1>2. \A u \in Threads : HeapOf(u)' = HeapOf(u)
  BY <1>1, HeapOfFixed
<1>3. TypeOK'
  BY <1>1 DEF TypeOK, MallocPlaces
<1>4. PlaceInv'
  BY <1>1, <1>2 DEF PlaceInv, TypeOK, LockedPlaces, HoldingPlaces
<1>5. ListInv'
  BY <1>1, ListSame
<1>6. CountInv'
  BY <1>1, <1>2 DEF CountInv, TypeOK
<1>7. RoomInv'
  <2>1. Pending' = Pending \union {t} /\ t \notin Pending
    BY <1>1 DEF Pending, TypeOK, MallocPlaces
  <2>2. IsFiniteSet(Pending') /\ Cardinality(Pending') = Cardinality(Pending) + 1
    BY <2>1, FS_AddElement DEF RoomInv
  <2>3. Cardinality(Pending) \in Nat /\ Cardinality(pool) \in Nat /\ cut \in Nat
    BY FS_CardinalityType DEF RoomInv, TypeOK
  <2> QED BY <1>1, <2>2, <2>3 DEF RoomInv
<1>8. \A u \in Threads : InFlight(u)' = InFlight(u)
  BY <1>1 DEF InFlight, TypeOK
<1>9. OwnerInv' /\ CutInv'
  BY <1>1, <1>8, OwnersSame
<1> QED BY <1>3, <1>4, <1>5, <1>6, <1>7, <1>9

LEMMA CallFreeKeeps ==
  ASSUME CachesInv, NEW t \in Threads, CallFree(t)
  PROVE  CachesInv'
<1> USE DEF CachesInv
<1>1. PICK o \in live : /\ hand' = [hand EXCEPT ![t] = o]
                        /\ live' = live \ {o} /\ owned' = owned - 1
  BY DEF CallFree, Take
<1>2. /\ place[t] = "client" /\ Goto(t, "free")
      /\ place' = [place EXCEPT ![t] = "free"]
      /\ UNCHANGED <<build, front, asserts, lock, head, nObjects, allocated, next, pool, cut,
                    cached, lost>>
  BY DEF CallFree, Goto, build, heapVars, sharedVars
<1>3. \A u \in Threads : HeapOf(u)' = HeapOf(u)
  BY <1>2, HeapOfFixed
<1>4. o \in Objects /\ o # NULL
  BY DEF TypeOK, Objects, NULL
<1>5. TypeOK'
  BY <1>1, <1>2, <1>4 DEF TypeOK, FreePlaces
<1>6. PlaceInv'
  BY <1>1, <1>2, <1>3, <1>4 DEF PlaceInv, TypeOK, LockedPlaces, HoldingPlaces
<1>7. ListInv'
  BY <1>2, ListSame
<1>8. CountInv'
  BY <1>2, <1>3 DEF CountInv, TypeOK
<1>9. RoomInv'
  <2>1. Pending' = Pending
    BY <1>2, PendingSame DEF Waiting, MallocPlaces
  <2> QED BY <1>2, <2>1 DEF RoomInv
<1>10. /\ InFlight(t) = {} /\ InFlight(t)' = {o}
       /\ \A u \in Threads \ {t} : InFlight(u)' = InFlight(u)
  BY <1>1, <1>2, <1>4 DEF InFlight, TypeOK, PlaceInv, HoldingPlaces
<1>11. OwnerInv'
  BY <1>1, <1>2, <1>10 DEF OwnerInv
<1>12. CutInv'
  <2>1. \A q : Somewhere(q)' <=> Somewhere(q)
    BY <1>1, <1>2, <1>10 DEF Somewhere
  <2> QED BY <1>2, <2>1 DEF CutInv
<1> QED BY <1>5, <1>6, <1>7, <1>8, <1>9, <1>11, <1>12

LEMMA AcquireKeeps ==
  ASSUME CachesInv, NEW t \in Threads, Acquire(t)
  PROVE  CachesInv'
<1> USE DEF CachesInv
<1>1. /\ lock[HeapOf(t)] = NoThread /\ lock' = [lock EXCEPT ![HeapOf(t)] = t]
      /\ UNCHANGED <<build, front, asserts, head, nObjects, allocated, next, pool, cut,
                    hand, live, owned, cached, lost>>
  BY DEF Acquire, build, sharedVars, history
<1>2. PICK where \in {"get", "put"} :
        /\ Goto(t, where) /\ place' = [place EXCEPT ![t] = where]
        /\ where = "get" => place[t] = "malloc"
        /\ where = "put" => place[t] = "free"
  BY DEF Acquire, Goto
<1>3. \A u \in Threads : HeapOf(u)' = HeapOf(u) /\ HeapOf(u) \in Heaps
  BY <1>1, HeapOfFixed, HeapOfType
<1>4. TypeOK'
  BY <1>1, <1>2, <1>3 DEF TypeOK, MallocPlaces, FreePlaces
<1>5. PlaceInv'
  BY <1>1, <1>2, <1>3 DEF PlaceInv, TypeOK, LockedPlaces, HoldingPlaces
<1>6. ListInv'
  BY <1>1, ListSame
<1>7. CountInv'
  BY <1>1, <1>2, <1>3 DEF CountInv, TypeOK
<1>8. RoomInv'
  <2>1. Pending' = Pending
    BY <1>2, PendingSame DEF Waiting, MallocPlaces
  <2> QED BY <1>1, <2>1 DEF RoomInv
<1>9. \A u \in Threads : InFlight(u)' = InFlight(u)
  BY <1>1, <1>2 DEF InFlight, TypeOK
<1>10. OwnerInv' /\ CutInv'
  BY <1>1, <1>9, OwnersSame
<1> QED BY <1>4, <1>5, <1>6, <1>7, <1>8, <1>10

-----------------------------------------------------------------------------
(* malloc. *)

LEMMA GetKeeps ==
  ASSUME CachesInv, NEW t \in Threads, Get(t)
  PROVE  CachesInv'
<1> USE DEF CachesInv
<1>1. /\ place[t] = "get" /\ hand' = [hand EXCEPT ![t] = head[HeapOf(t)]]
      /\ UNCHANGED <<build, front, asserts, lock, head, nObjects, allocated, next, pool, cut,
                    live, owned, cached, lost>>
  BY DEF Get, Take, build, heapVars, sharedVars, history
<1>2. PICK where \in {"super", "pop"} :
        /\ Goto(t, where) /\ place' = [place EXCEPT ![t] = where]
        /\ where = "super" <=> head[HeapOf(t)] = NULL
  BY DEF Get, Goto
<1>3. \A u \in Threads : HeapOf(u)' = HeapOf(u) /\ HeapOf(u) \in Heaps
  BY <1>1, HeapOfFixed, HeapOfType
<1>4. TypeOK'
  BY <1>1, <1>2, <1>3 DEF TypeOK, MallocPlaces
<1>5. PlaceInv'
  BY <1>1, <1>2, <1>3 DEF PlaceInv, TypeOK, LockedPlaces, HoldingPlaces
<1>6. ListInv'
  BY <1>1, ListSame
<1>7. CountInv'
  BY <1>1, <1>2, <1>3 DEF CountInv, TypeOK
<1>8. RoomInv'
  <2>1. Pending' = Pending
    BY <1>1, <1>2, PendingSame DEF Waiting, MallocPlaces
  <2> QED BY <1>1, <2>1 DEF RoomInv
<1>9. \A u \in Threads : InFlight(u)' = InFlight(u)
  BY <1>1, <1>2 DEF InFlight, TypeOK, PlaceInv, HoldingPlaces
<1>10. OwnerInv' /\ CutInv'
  BY <1>1, <1>9, OwnersSame
<1> QED BY <1>4, <1>5, <1>6, <1>7, <1>8, <1>10

(* The first object leaves the list of thread t's heap, and no other list  *)
(* changes.                                                                *)
LEMMA Unlinked ==
  ASSUME TypeOK, ListInv, CountInv, NEW h \in Heaps, NEW o, o = head[h], o # NULL,
         head' = [head EXCEPT ![h] = next[o]],
         cached' = [cached EXCEPT ![h] = @ \ {o}],
         next' = next
  PROVE  /\ ListInv' /\ o \in cached[h] /\ next[o] \in Objects \union {NULL}
         /\ \A g \in Heaps : IsFiniteSet(cached'[g])
         /\ Cardinality(cached'[h]) = Cardinality(cached[h]) - 1
         /\ Cardinality(cached[h]) \in Nat
<1>1. IsList(o, next, cached[h], NULL) /\ IsFiniteSet(cached[h])
  BY DEF ListInv, CountInv
<1>2. o \in cached[h] /\ next[o] \in Objects \union {NULL}
  BY <1>1, ListTail DEF TypeOK, IsList
<1>3. IsList(next[o], next, cached[h] \ {o}, NULL)
  BY <1>1, ListTail
<1>4. head'[h] = next[o] /\ cached'[h] = cached[h] \ {o}
  BY DEF TypeOK
<1>5. \A g \in Heaps : IsList(head'[g], next, cached'[g], NULL)
  <2>1. ASSUME NEW g \in Heaps, g # h PROVE head'[g] = head[g] /\ cached'[g] = cached[g]
    BY <2>1 DEF TypeOK
  <2> QED BY <1>3, <1>4, <2>1 DEF ListInv
<1>6. ListInv'
  BY <1>5 DEF ListInv
<1>7. /\ IsFiniteSet(cached'[h]) /\ Cardinality(cached'[h]) = Cardinality(cached[h]) - 1
      /\ Cardinality(cached[h]) \in Nat
  <2>1. /\ IsFiniteSet(cached[h] \ {o})
        /\ Cardinality(cached[h] \ {o}) = Cardinality(cached[h]) - 1
    BY <1>1, <1>2, FS_RemoveElement
  <2>2. Cardinality(cached[h]) \in Nat
    BY <1>1, FS_CardinalityType
  <2> QED BY <1>4, <2>1, <2>2
<1>8. \A g \in Heaps : IsFiniteSet(cached'[g])
  BY <1>7 DEF CountInv, TypeOK
<1> QED BY <1>1, <1>2, <1>6, <1>7, <1>8

LEMMA PopKeeps ==
  ASSUME CachesInv, NEW t \in Threads, Pop(t)
  PROVE  CachesInv'
<1> USE DEF CachesInv
<1> DEFINE h == HeapOf(t)
           o == hand[t]
<1>1. /\ place[t] = "pop" /\ Goto(t, "give") /\ place' = [place EXCEPT ![t] = "give"]
      /\ head' = [head EXCEPT ![h] = next[o]]
      /\ nObjects' = [nObjects EXCEPT ![h] = @ - 1]
      /\ cached' = [cached EXCEPT ![h] = @ \ {o}]
      /\ UNCHANGED <<build, front, asserts, lock, allocated, next, pool, cut, hand,
                    live, owned, lost>>
  BY DEF Pop, Goto, build, sharedVars
<1>2. \A u \in Threads : HeapOf(u)' = HeapOf(u) /\ HeapOf(u) \in Heaps
  BY <1>1, HeapOfFixed, HeapOfType
<1>3. o = head[h] /\ o # NULL /\ h \in Heaps
  BY <1>1, <1>2 DEF PlaceInv, HoldingPlaces
<1>4. /\ ListInv' /\ o \in cached[h] /\ next[o] \in Objects \union {NULL}
      /\ \A g \in Heaps : IsFiniteSet(cached'[g])
      /\ Cardinality(cached'[h]) = Cardinality(cached[h]) - 1
      /\ Cardinality(cached[h]) \in Nat
  BY <1>1, <1>3, Unlinked
<1>5. Cardinality(cached[h]) >= 1
  <2>1. IsFiniteSet(cached[h]) /\ cached[h] # {}
    BY <1>3, <1>4 DEF CountInv
  <2>2. Cardinality(cached[h]) # 0
    BY <2>1, FS_EmptySet
  <2> QED BY <1>4, <2>2
<1>6. nObjects[h] \in 0 .. NumObjects /\ nObjects[h] >= 1 /\ nObjects'[h] = nObjects[h] - 1
  BY <1>1, <1>3, <1>4, <1>5 DEF CountInv, TypeOK
<1>7. TypeOK'
  <2>1. nObjects' \in [Heaps -> 0 .. NumObjects]
    BY <1>1, <1>3, <1>6 DEF TypeOK
  <2> QED BY <1>1, <1>3, <1>4, <2>1 DEF TypeOK, MallocPlaces
<1>8. \A u \in Threads \ {t} : HeapOf(u) = h => place[u] \notin LockedPlaces
  BY <1>1, OnlyHolder DEF LockedPlaces
<1>9. PlaceInv'
  BY <1>1, <1>2, <1>3, <1>8 DEF PlaceInv, TypeOK, LockedPlaces, HoldingPlaces
<1>10. CountInv'
  <2>1. \A g \in Heaps \ {h} : cached'[g] = cached[g] /\ nObjects'[g] = nObjects[g]
    BY <1>1, <1>3 DEF TypeOK
  <2>2. \A u \in Threads : place'[u] = "drop" => HeapOf(u) # h /\ place[u] = "drop"
    BY <1>1, <1>8 DEF TypeOK, LockedPlaces
  <2> QED BY <1>2, <1>4, <1>6, <2>1, <2>2 DEF CountInv
<1>11. RoomInv'
  <2>1. /\ IsFiniteSet(Pending') /\ Cardinality(Pending') = Cardinality(Pending) - 1
        /\ Cardinality(Pending') \in Nat
    BY <1>1, PendingServed DEF Waiting, MallocPlaces
  <2>2. Cardinality(Pending) \in Nat /\ Cardinality(pool) \in Nat /\ cut \in Nat
    BY FS_CardinalityType DEF RoomInv, TypeOK
  <2> QED BY <1>1, <2>1, <2>2 DEF RoomInv
<1>12. /\ InFlight(t) = {} /\ InFlight(t)' = {o}
       /\ \A u \in Threads \ {t} : InFlight(u)' = InFlight(u)
  BY <1>1, <1>3 DEF InFlight, TypeOK
<1>13. cached'[h] = cached[h] \ {o} /\ \A g \in Heaps \ {h} : cached'[g] = cached[g]
  BY <1>1, <1>3 DEF TypeOK
<1>14. OwnerInv'
  BY <1>1, <1>3, <1>4, <1>12, <1>13 DEF OwnerInv
<1>15. CutInv'
  <2>1. \A q : Somewhere(q)' <=> Somewhere(q)
    BY <1>1, <1>3, <1>4, <1>12, <1>13 DEF Somewhere
  <2> QED BY <1>1, <2>1 DEF CutInv
<1> QED BY <1>4, <1>7, <1>9, <1>10, <1>11, <1>14, <1>15

(* The guard of CallMalloc has kept an object for this call.               *)
LEMMA SuperKeeps ==
  ASSUME CachesInv, NEW t \in Threads, Super(t)
  PROVE  CachesInv'
<1> USE DEF CachesInv
<1>1. PICK o \in IF pool = {} THEN {cut + 1} ELSE pool :
        /\ hand' = [hand EXCEPT ![t] = o] /\ pool' = pool \ {o}
        /\ cut' = IF o > cut THEN o ELSE cut
  BY DEF Super, Take
<1>2. /\ place[t] = "super" /\ Goto(t, "give") /\ place' = [place EXCEPT ![t] = "give"]
      /\ UNCHANGED <<build, front, asserts, lock, head, nObjects, allocated, next,
                    live, owned, cached, lost>>
  BY DEF Super, Goto, build, heapVars, history
<1>3. \A u \in Threads : HeapOf(u)' = HeapOf(u) /\ HeapOf(u) \in Heaps
  BY <1>2, HeapOfFixed, HeapOfType
<1>4. /\ IsFiniteSet(Pending') /\ Cardinality(Pending') = Cardinality(Pending) - 1
      /\ Cardinality(Pending') \in Nat
  BY <1>2, PendingServed DEF Waiting, MallocPlaces
<1>5. Cardinality(Pending) \in Nat /\ Cardinality(pool) \in Nat /\ cut \in 0 .. MaxObjects
  BY FS_CardinalityType DEF RoomInv, TypeOK
<1>6. pool = {} => cut < MaxObjects
  BY <1>4, <1>5, FS_EmptySet DEF RoomInv
<1>7. o \in Objects /\ o # NULL
  BY <1>1, <1>5, <1>6 DEF TypeOK, Objects, NULL
<1>8. \/ /\ pool = {} /\ o = cut + 1 /\ cut' = cut + 1 /\ pool' = {}
         /\ ~Somewhere(o)
      \/ /\ o \in pool /\ cut' = cut
  <2>1. CASE pool = {}
    <3>1. o = cut + 1 /\ o > cut /\ ~(o <= cut)
      BY <1>1, <1>5, <2>1
    <3> QED BY <1>1, <1>7, <2>1, <3>1 DEF CutInv
  <2>2. CASE pool # {}
    <3>1. o \in pool /\ o <= cut
      BY <1>1, <1>7, <2>2 DEF CutInv, Somewhere
    <3>2. ~(o > cut)
      BY <1>5, <1>7, <3>1 DEF Objects
    <3> QED BY <1>1, <3>1, <3>2
  <2> QED BY <2>1, <2>2
<1>9. TypeOK'
  <2>1. cut' \in 0 .. MaxObjects
    BY <1>5, <1>6, <1>8
  <2>2. pool' \subseteq Objects
    BY <1>1 DEF TypeOK
  <2> QED BY <1>1, <1>2, <1>7, <2>1, <2>2 DEF TypeOK, MallocPlaces
<1>10. PlaceInv'
  BY <1>1, <1>2, <1>3, <1>7 DEF PlaceInv, TypeOK, LockedPlaces, HoldingPlaces
<1>11. ListInv'
  BY <1>2, ListSame
<1>12. CountInv'
  BY <1>2, <1>3 DEF CountInv, TypeOK
<1>13. RoomInv'
  <2>1. CASE pool = {}
    <3>1. Cardinality(pool) = 0 /\ cut' = cut + 1 /\ pool' = pool
      BY <1>8, <2>1, FS_EmptySet
    <3> QED BY <1>4, <1>5, <3>1 DEF RoomInv
  <2>2. CASE pool # {}
    <3>1. o \in pool /\ cut' = cut
      BY <1>1, <1>8, <2>2
    <3>2. IsFiniteSet(pool') /\ Cardinality(pool') = Cardinality(pool) - 1
      BY <1>1, <3>1, FS_RemoveElement DEF RoomInv
    <3> QED BY <1>4, <1>5, <3>1, <3>2 DEF RoomInv
  <2> QED BY <2>1, <2>2
<1>14. /\ InFlight(t) = {} /\ InFlight(t)' = {o}
       /\ \A u \in Threads \ {t} : InFlight(u)' = InFlight(u)
  BY <1>1, <1>2, <1>7 DEF InFlight, TypeOK, PlaceInv, HoldingPlaces
<1>15. OwnerInv'
  <2>1. /\ o \notin live \union lost
        /\ \A h \in Heaps : o \notin cached[h]
        /\ \A u \in Threads : o \notin InFlight(u)
    BY <1>8 DEF OwnerInv, Somewhere
  <2> QED BY <1>1, <1>2, <1>14, <2>1 DEF OwnerInv
<1>16. CutInv'
  <2>1. \A q : Somewhere(q)' <=> Somewhere(q) \/ q = o
    BY <1>1, <1>2, <1>14 DEF Somewhere
  <2>2. CASE pool = {}
    <3>1. \A q \in Objects : q <= cut' <=> q <= cut \/ q = o
      BY <1>5, <1>8, <2>2 DEF Objects
    <3> QED BY <2>1, <3>1 DEF CutInv
  <2>3. CASE pool # {}
    <3>1. cut' = cut /\ Somewhere(o)
      BY <1>8, <2>3 DEF Somewhere
    <3> QED BY <2>1, <3>1 DEF CutInv
  <2> QED BY <2>2, <2>3
<1> QED BY <1>9, <1>10, <1>11, <1>12, <1>13, <1>15, <1>16

(* Writing to the object in hand reaches no list and no other hand. *)
LEMMA OwnObject ==
  ASSUME TypeOK, PlaceInv, OwnerInv, NEW t \in Threads, hand[t] # NULL, place[t] # "pop",
         NEW v, next' = [next EXCEPT ![hand[t]] = v]
  PROVE  /\ \A h \in Heaps : \A o \in cached[h] : next'[o] = next[o]
         /\ \A u \in Threads \ {t} : place[u] = "link" => next'[hand[u]] = next[hand[u]]
<1>1. hand[t] \in InFlight(t) /\ hand[t] \in Objects
  BY DEF InFlight, TypeOK
<1>2. \A h \in Heaps : hand[t] \notin cached[h] /\ cached[h] \subseteq Objects
  BY <1>1 DEF OwnerInv, TypeOK
<1>3. \A u \in Threads \ {t} :
        place[u] = "link" => hand[u] # hand[t] /\ hand[u] \in Objects
  BY <1>1 DEF OwnerInv, InFlight, PlaceInv, HoldingPlaces, TypeOK
<1>4. \A o \in Objects : o # hand[t] => next'[o] = next[o]
  BY DEF TypeOK
<1> QED BY <1>2, <1>3, <1>4

LEMMA GiveKeeps ==
  ASSUME CachesInv, NEW t \in Threads, Give(t)
  PROVE  CachesInv'
<1> USE DEF CachesInv
<1> DEFINE h == HeapOf(t)
           o == hand[t]
<1>1. /\ place[t] = "give" /\ Goto(t, "client") /\ place' = [place EXCEPT ![t] = "client"]
      /\ allocated' = [allocated EXCEPT ![h] = @ + ObjSize]
      /\ lock' = [lock EXCEPT ![h] = NoThread]
      /\ live' = live \union {o} /\ owned' = owned + 1
      /\ next' = [next EXCEPT ![o] = Junk]
      /\ hand' = [hand EXCEPT ![t] = NULL]
      /\ UNCHANGED <<build, front, asserts, head, nObjects, pool, cut, cached, lost>>
  BY DEF Give, Goto, Take, Release, build, sharedVars
<1>2. \A u \in Threads : HeapOf(u)' = HeapOf(u) /\ HeapOf(u) \in Heaps
  BY <1>1, HeapOfFixed, HeapOfType
<1>3. o # NULL /\ o \in Objects
  BY <1>1 DEF PlaceInv, HoldingPlaces, TypeOK
<1>4. TypeOK'
  <2>1. allocated[h] + ObjSize \in Int
    BY <1>2 DEF TypeOK, ObjSize
  <2>2. allocated' \in [Heaps -> Int]
    BY <1>1, <2>1 DEF TypeOK
  <2> QED BY <1>1, <1>3, <2>2 DEF TypeOK
<1>5. /\ \A g \in Heaps : \A q \in cached[g] : next'[q] = next[q]
      /\ \A u \in Threads \ {t} : place[u] = "link" => next'[hand[u]] = next[hand[u]]
  BY <1>1, <1>3, OwnObject
<1>6. \A u \in Threads \ {t} : HeapOf(u) = h => place[u] \notin LockedPlaces
  BY <1>1, OnlyHolder DEF LockedPlaces
<1>7. PlaceInv'
  BY <1>1, <1>2, <1>5, <1>6 DEF PlaceInv, TypeOK, LockedPlaces, HoldingPlaces
<1>8. ListInv'
  BY <1>1, <1>5, ListSame
<1>9. CountInv'
  BY <1>1, <1>2 DEF CountInv, TypeOK
<1>10. RoomInv'
  <2>1. Pending' = Pending
    BY <1>1, PendingSame DEF Waiting, MallocPlaces
  <2> QED BY <1>1, <2>1 DEF RoomInv
<1>11. /\ InFlight(t) = {o} /\ InFlight(t)' = {}
       /\ \A u \in Threads \ {t} : InFlight(u)' = InFlight(u)
  BY <1>1, <1>3 DEF InFlight, TypeOK
<1>12. OwnerInv'
  BY <1>1, <1>11 DEF OwnerInv
<1>13. CutInv'
  <2>1. \A q : Somewhere(q)' <=> Somewhere(q)
    BY <1>1, <1>11 DEF Somewhere
  <2> QED BY <1>1, <2>1 DEF CutInv
<1> QED BY <1>4, <1>7, <1>8, <1>9, <1>10, <1>12, <1>13

-----------------------------------------------------------------------------
(* free. *)

LEMMA PutKeeps ==
  ASSUME CachesInv, NEW t \in Threads, Put(t)
  PROVE  CachesInv'
<1> USE DEF CachesInv
<1> DEFINE h == HeapOf(t)
           o == hand[t]
<1>1. /\ place[t] = "put"
      /\ allocated' = [allocated EXCEPT ![h] = @ - ObjSize]
      /\ UNCHANGED <<build, front, asserts, lock, head, nObjects, pool, cut, live, owned,
                    cached>>
  BY DEF Put, build, sharedVars
<1>2. \A u \in Threads : HeapOf(u)' = HeapOf(u) /\ HeapOf(u) \in Heaps
  BY <1>1, HeapOfFixed, HeapOfType
<1>3. o # NULL /\ o \in Objects /\ InFlight(t) = {o}
  BY <1>1 DEF PlaceInv, HoldingPlaces, TypeOK, InFlight
<1>4. allocated' \in [Heaps -> Int]
  <2>1. allocated[h] - ObjSize \in Int
    BY <1>2 DEF TypeOK, ObjSize
  <2> QED BY <1>1, <2>1 DEF TypeOK
<1>5. CASE nObjects[h] < NumObjects
  <2>1. /\ next' = [next EXCEPT ![o] = head[h]]
        /\ Goto(t, "link") /\ place' = [place EXCEPT ![t] = "link"]
        /\ UNCHANGED <<hand, lost>>
    BY <1>5 DEF Put, Goto
  <2>2. TypeOK'
    BY <1>1, <1>2, <1>3, <1>4, <2>1 DEF TypeOK, FreePlaces
  <2>3. /\ \A g \in Heaps : \A q \in cached[g] : next'[q] = next[q]
        /\ \A u \in Threads \ {t} : place[u] = "link" => next'[hand[u]] = next[hand[u]]
    BY <1>1, <1>3, <2>1, OwnObject
  <2>4. PlaceInv'
    BY <1>1, <1>2, <1>3, <1>5, <2>1, <2>3 DEF PlaceInv, TypeOK, LockedPlaces, HoldingPlaces
  <2>5. ListInv'
    BY <1>1, <2>3, ListSame
  <2>6. CountInv'
    BY <1>1, <1>2, <2>1 DEF CountInv, TypeOK
  <2>7. RoomInv'
    <3>1. Pending' = Pending
      BY <1>1, <2>1, PendingSame DEF Waiting, MallocPlaces
    <3> QED BY <1>1, <3>1 DEF RoomInv
  <2>8. \A u \in Threads : InFlight(u)' = InFlight(u)
    BY <1>1, <2>1 DEF InFlight, TypeOK
  <2>9. OwnerInv' /\ CutInv'
    BY <1>1, <2>1, <2>8, OwnersSame
  <2> QED BY <2>2, <2>4, <2>5, <2>6, <2>7, <2>9
<1>6. CASE ~(nObjects[h] < NumObjects)
  <2>1. /\ hand' = [hand EXCEPT ![t] = NULL] /\ lost' = lost \union {o}
        /\ Goto(t, "clear") /\ place' = [place EXCEPT ![t] = "clear"]
        /\ UNCHANGED next
    BY <1>6 DEF Put, Goto, Take
  <2>2. TypeOK'
    BY <1>1, <1>3, <1>4, <2>1 DEF TypeOK, FreePlaces
  <2>3. PlaceInv'
    BY <1>1, <1>2, <1>3, <2>1 DEF PlaceInv, TypeOK, LockedPlaces, HoldingPlaces
  <2>4. ListInv'
    BY <1>1, <2>1, ListSame
  <2>5. CountInv'
    BY <1>1, <1>2, <2>1 DEF CountInv, TypeOK
  <2>6. RoomInv'
    <3>1. Pending' = Pending
      BY <1>1, <2>1, PendingSame DEF Waiting, MallocPlaces
    <3> QED BY <1>1, <3>1 DEF RoomInv
  <2>7. InFlight(t)' = {} /\ \A u \in Threads \ {t} : InFlight(u)' = InFlight(u)
    BY <1>1, <2>1 DEF InFlight, TypeOK
  <2>8. OwnerInv'
    BY <1>1, <1>3, <2>1, <2>7 DEF OwnerInv
  <2>9. CutInv'
    <3>1. \A q : Somewhere(q)' <=> Somewhere(q)
      BY <1>1, <1>3, <2>1, <2>7 DEF Somewhere
    <3> QED BY <1>1, <3>1 DEF CutInv
  <2> QED BY <2>2, <2>3, <2>4, <2>5, <2>6, <2>8, <2>9
<1> QED BY <1>5, <1>6

LEMMA LinkKeeps ==
  ASSUME CachesInv, NEW t \in Threads, Link(t)
  PROVE  CachesInv'
<1> USE DEF CachesInv
<1> DEFINE h == HeapOf(t)
           o == hand[t]
<1>1. /\ place[t] = "link" /\ Goto(t, "done") /\ place' = [place EXCEPT ![t] = "done"]
      /\ head' = [head EXCEPT ![h] = o]
      /\ nObjects' = [nObjects EXCEPT ![h] = @ + 1]
      /\ cached' = [cached EXCEPT ![h] = @ \union {o}]
      /\ hand' = [hand EXCEPT ![t] = NULL]
      /\ UNCHANGED <<build, front, asserts, lock, allocated, next, pool, cut, live, owned,
                    lost>>
  BY DEF Link, Goto, Take, build, sharedVars
<1>2. \A u \in Threads : HeapOf(u)' = HeapOf(u) /\ HeapOf(u) \in Heaps
  BY <1>1, HeapOfFixed, HeapOfType
<1>3. /\ o # NULL /\ o \in Objects /\ InFlight(t) = {o} /\ h \in Heaps
      /\ next[o] = head[h] /\ nObjects[h] < NumObjects
  BY <1>1, <1>2 DEF PlaceInv, HoldingPlaces, TypeOK, InFlight
<1>4. o \notin cached[h] /\ IsFiniteSet(cached[h]) /\ IsList(head[h], next, cached[h], NULL)
  BY <1>3 DEF OwnerInv, CountInv, ListInv
<1>5. /\ head'[h] = o /\ cached'[h] = cached[h] \union {o}
      /\ nObjects'[h] = nObjects[h] + 1
      /\ \A g \in Heaps \ {h} : /\ head'[g] = head[g] /\ cached'[g] = cached[g]
                                /\ nObjects'[g] = nObjects[g]
  BY <1>1, <1>3 DEF TypeOK
<1>6. TypeOK'
  <2>1. nObjects' \in [Heaps -> 0 .. NumObjects]
    BY <1>1, <1>3 DEF TypeOK
  <2>2. cached' \in [Heaps -> SUBSET Objects]
    BY <1>1, <1>3 DEF TypeOK
  <2> QED BY <1>1, <1>3, <2>1, <2>2 DEF TypeOK, FreePlaces
<1>7. \A u \in Threads \ {t} : HeapOf(u) = h => place[u] \notin LockedPlaces
  BY <1>1, OnlyHolder DEF LockedPlaces
<1>8. PlaceInv'
  BY <1>1, <1>2, <1>3, <1>5, <1>7 DEF PlaceInv, TypeOK, LockedPlaces, HoldingPlaces
<1>9. ListInv'
  <2>1. IsList(o, next, cached[h] \union {o}, NULL)
    BY <1>3, <1>4, ListPush
  <2>2. \A g \in Heaps : IsList(head'[g], next, cached'[g], NULL)
    BY <1>5, <2>1 DEF ListInv
  <2> QED BY <1>1, <2>2 DEF ListInv
<1>10. CountInv'
  <2>1. /\ IsFiniteSet(cached[h] \union {o})
        /\ Cardinality(cached[h] \union {o}) = Cardinality(cached[h]) + 1
        /\ Cardinality(cached[h]) \in Nat
    BY <1>4, FS_AddElement, FS_CardinalityType
  <2>2. \A u \in Threads : place'[u] = "drop" => HeapOf(u) # h /\ place[u] = "drop"
    BY <1>1, <1>7 DEF TypeOK, LockedPlaces
  <2>3. nObjects[h] \in Nat
    BY <1>3 DEF TypeOK
  <2>4. IsFiniteSet(cached'[h]) /\ Cardinality(cached'[h]) <= nObjects'[h]
    BY <1>3, <1>5, <2>1, <2>3 DEF CountInv
  <2> HIDE DEF h, o
  <2>5. \A g \in Heaps : IsFiniteSet(cached'[g]) /\ Cardinality(cached'[g]) <= nObjects'[g]
    BY <1>5, <2>4 DEF CountInv
  <2>6. ASSUME NEW u \in Threads, place'[u] = "drop"
        PROVE  Cardinality(cached'[HeapOf(u)']) < nObjects'[HeapOf(u)']
    <3>1. HeapOf(u)' = HeapOf(u) /\ HeapOf(u) \in Heaps \ {h} /\ place[u] = "drop"
      BY <1>2, <2>2, <2>6
    <3>2. Cardinality(cached[HeapOf(u)]) < nObjects[HeapOf(u)]
      BY <3>1 DEF CountInv
    <3> QED BY <1>5, <3>1, <3>2
  <2> QED BY <2>5, <2>6 DEF CountInv
<1>11. RoomInv'
  <2>1. Pending' = Pending
    BY <1>1, PendingSame DEF Waiting, MallocPlaces
  <2> QED BY <1>1, <2>1 DEF RoomInv
<1>12. InFlight(t)' = {} /\ \A u \in Threads \ {t} : InFlight(u)' = InFlight(u)
  BY <1>1 DEF InFlight, TypeOK
<1>13. OwnerInv'
  BY <1>1, <1>3, <1>5, <1>12 DEF OwnerInv
<1>14. CutInv'
  <2>1. \A q : Somewhere(q)' <=> Somewhere(q)
    BY <1>1, <1>3, <1>5, <1>12 DEF Somewhere
  <2> QED BY <1>1, <2>1 DEF CutInv
<1> QED BY <1>6, <1>8, <1>9, <1>10, <1>11, <1>13, <1>14

(* An overflow: the objects of the list go back one by one. *)
LEMMA ClearKeeps ==
  ASSUME CachesInv, NEW t \in Threads, Clear(t)
  PROVE  CachesInv'
<1> USE DEF CachesInv
<1> DEFINE h == HeapOf(t)
           o == head[h]
<1>1. /\ place[t] = "clear"
      /\ UNCHANGED <<build, front, asserts, lock, nObjects, allocated, next, pool, cut, live,
                    owned, lost>>
  BY DEF Clear, build, sharedVars
<1>2. \A u \in Threads : HeapOf(u)' = HeapOf(u) /\ HeapOf(u) \in Heaps
  BY <1>1, HeapOfFixed, HeapOfType
<1>3. hand[t] = NULL /\ InFlight(t) = {} /\ h \in Heaps
  BY <1>1, <1>2 DEF PlaceInv, HoldingPlaces, InFlight
<1>4. CASE o = NULL
  <2>1. /\ Goto(t, "done") /\ place' = [place EXCEPT ![t] = "done"]
        /\ UNCHANGED <<head, cached, hand>>
    BY <1>4 DEF Clear, Goto
  <2>2. TypeOK'
    BY <1>1, <2>1 DEF TypeOK, FreePlaces
  <2>3. PlaceInv'
    BY <1>1, <1>2, <1>3, <2>1 DEF PlaceInv, TypeOK, LockedPlaces, HoldingPlaces
  <2>4. ListInv'
    BY <1>1, <2>1, ListSame
  <2>5. CountInv'
    BY <1>1, <1>2, <2>1 DEF CountInv, TypeOK
  <2>6. RoomInv'
    <3>1. Pending' = Pending
      BY <1>1, <2>1, PendingSame DEF Waiting, MallocPlaces
    <3> QED BY <1>1, <3>1 DEF RoomInv
  <2>7. \A u \in Threads : InFlight(u)' = InFlight(u)
    BY <1>1, <2>1 DEF InFlight, TypeOK
  <2>8. OwnerInv' /\ CutInv'
    BY <1>1, <2>1, <2>7, OwnersSame
  <2> QED BY <2>2, <2>3, <2>4, <2>5, <2>6, <2>8
<1>5. CASE o # NULL
  <2>1. /\ head' = [head EXCEPT ![h] = next[o]]
        /\ cached' = [cached EXCEPT ![h] = @ \ {o}]
        /\ hand' = [hand EXCEPT ![t] = o]
        /\ Goto(t, "drop") /\ place' = [place EXCEPT ![t] = "drop"]
    BY <1>5 DEF Clear, Goto, Take
  <2>2. /\ ListInv' /\ o \in cached[h] /\ next[o] \in Objects \union {NULL}
        /\ \A g \in Heaps : IsFiniteSet(cached'[g])
        /\ Cardinality(cached'[h]) = Cardinality(cached[h]) - 1
        /\ Cardinality(cached[h]) \in Nat
    BY <1>1, <1>3, <1>5, <2>1, Unlinked
  <2>3. cached'[h] = cached[h] \ {o} /\ \A g \in Heaps \ {h} : cached'[g] = cached[g]
    BY <1>3, <2>1 DEF TypeOK
  <2>4. o \in Objects
    BY <1>3, <2>2 DEF TypeOK
  <2>5. TypeOK'
    <3>1. cached' \in [Heaps -> SUBSET Objects]
      BY <1>3, <2>1 DEF TypeOK
    <3> QED BY <1>1, <2>1, <2>2, <2>4, <3>1 DEF TypeOK, FreePlaces
  <2>6. \A u \in Threads \ {t} : HeapOf(u) = h => place[u] \notin LockedPlaces
    BY <1>1, OnlyHolder DEF LockedPlaces
  <2>7. PlaceInv'
    BY <1>1, <1>2, <1>3, <1>5, <2>1, <2>6 DEF PlaceInv, TypeOK, LockedPlaces, HoldingPlaces
  <2>8. CountInv'
    <3>1. \A u \in Threads \ {t} : place'[u] = "drop" => HeapOf(u) # h /\ place[u] = "drop"
      BY <2>1, <2>6 DEF TypeOK, LockedPlaces
    <3>2. nObjects[h] \in Nat /\ Cardinality(cached[h]) <= nObjects[h]
      BY <1>3 DEF TypeOK, CountInv
    <3>3. Cardinality(cached'[h]) < nObjects'[h] /\ Cardinality(cached'[h]) <= nObjects'[h]
      BY <1>1, <2>2, <3>2
    <3> QED BY <1>1, <1>2, <2>2, <2>3, <3>1, <3>3 DEF CountInv
  <2>9. RoomInv'
    <3>1. Pending' = Pending
      BY <1>1, <2>1, PendingSame DEF Waiting, MallocPlaces
    <3> QED BY <1>1, <3>1 DEF RoomInv
  <2>10. InFlight(t)' = {o} /\ \A u \in Threads \ {t} : InFlight(u)' = InFlight(u)
    BY <1>5, <2>1 DEF InFlight, TypeOK
  <2>11. OwnerInv'
    BY <1>1, <1>3, <2>2, <2>3, <2>10 DEF OwnerInv
  <2>12. CutInv'
    <3>1. \A q : Somewhere(q)' <=> Somewhere(q)
      BY <1>1, <1>3, <2>2, <2>3, <2>10 DEF Somewhere
    <3> QED BY <1>1, <3>1 DEF CutInv
  <2> QED BY <2>2, <2>5, <2>7, <2>8, <2>9, <2>11, <2>12
<1> QED BY <1>4, <1>5

LEMMA DropKeeps ==
  ASSUME CachesInv, NEW t \in Threads, Drop(t)
  PROVE  CachesInv'
<1> USE DEF CachesInv
<1> DEFINE h == HeapOf(t)
           o == hand[t]
<1>1. /\ place[t] = "drop" /\ Goto(t, "clear") /\ place' = [place EXCEPT ![t] = "clear"]
      /\ pool' = pool \union {o}
      /\ hand' = [hand EXCEPT ![t] = NULL]
      /\ UNCHANGED <<build, front, asserts, lock, head, allocated, next, cut, live, owned,
                    cached, lost>>
  BY DEF Drop, Goto, Take, build, history
<1>2. nObjects' = [nObjects EXCEPT ![h] = @ - 1] \/ nObjects' = nObjects
  BY DEF Drop
<1>3. \A u \in Threads : HeapOf(u)' = HeapOf(u) /\ HeapOf(u) \in Heaps
  BY <1>1, HeapOfFixed, HeapOfType
<1>4. o # NULL /\ o \in Objects /\ InFlight(t) = {o} /\ h \in Heaps
  BY <1>1, <1>3 DEF PlaceInv, HoldingPlaces, TypeOK, InFlight
<1>5. /\ Cardinality(cached[h]) < nObjects[h] /\ nObjects[h] \in 0 .. NumObjects
      /\ Cardinality(cached[h]) \in Nat
  BY <1>1, <1>4, FS_CardinalityType DEF CountInv, TypeOK
<1>6. /\ nObjects'[h] \in {nObjects[h], nObjects[h] - 1}
      /\ \A g \in Heaps \ {h} : nObjects'[g] = nObjects[g]
  BY <1>2, <1>4 DEF TypeOK
<1>7. TypeOK'
  <2>1. nObjects' \in [Heaps -> 0 .. NumObjects]
    BY <1>2, <1>4, <1>5 DEF TypeOK
  <2> QED BY <1>1, <1>4, <2>1 DEF TypeOK, FreePlaces
<1>8. \A u \in Threads \ {t} : HeapOf(u) = h => place[u] \notin LockedPlaces
  BY <1>1, OnlyHolder DEF LockedPlaces
<1>9. PlaceInv'
  BY <1>1, <1>3, <1>4, <1>6, <1>8 DEF PlaceInv, TypeOK, LockedPlaces, HoldingPlaces
<1>10. ListInv'
  BY <1>1, ListSame
<1>11. CountInv'
  <2>1. \A u \in Threads : place'[u] = "drop" => HeapOf(u) # h /\ place[u] = "drop"
    BY <1>1, <1>8 DEF TypeOK, LockedPlaces
  <2>2. Cardinality(cached[h]) <= nObjects'[h]
    BY <1>5, <1>6
  <2> QED BY <1>1, <1>3, <1>6, <2>1, <2>2 DEF CountInv
<1>12. RoomInv'
  <2>1. Pending' = Pending
    BY <1>1, PendingSame DEF Waiting, MallocPlaces
  <2>2. /\ IsFiniteSet(pool') /\ Cardinality(pool') >= Cardinality(pool)
        /\ Cardinality(pool') \in Nat /\ Cardinality(pool) \in Nat
    <3>1. /\ IsFiniteSet(pool \union {o})
          /\ Cardinality(pool \union {o}) =
               IF o \in pool THEN Cardinality(pool) ELSE Cardinality(pool) + 1
      BY FS_AddElement DEF RoomInv
    <3>2. Cardinality(pool) \in Nat
      BY FS_CardinalityType DEF RoomInv
    <3> QED BY <1>1, <3>1, <3>2
  <2>3. Cardinality(Pending) \in Nat /\ cut \in Nat
    BY FS_CardinalityType DEF RoomInv, TypeOK
  <2> QED BY <1>1, <2>1, <2>2, <2>3 DEF RoomInv
<1>13. InFlight(t)' = {} /\ \A u \in Threads \ {t} : InFlight(u)' = InFlight(u)
  BY <1>1 DEF InFlight, TypeOK
<1>14. OwnerInv'
  BY <1>1, <1>4, <1>13 DEF OwnerInv
<1>15. CutInv'
  <2>1. \A q : Somewhere(q)' <=> Somewhere(q)
    BY <1>1, <1>4, <1>13 DEF Somewhere
  <2> QED BY <1>1, <2>1 DEF CutInv
<1> QED BY <1>7, <1>9, <1>10, <1>11, <1>12, <1>14, <1>15

LEMMA DoneKeeps ==
  ASSUME CachesInv, NEW t \in Threads, Done(t)
  PROVE  CachesInv'
<1> USE DEF CachesInv
<1>1. /\ place[t] = "done" /\ Goto(t, "client") /\ place' = [place EXCEPT ![t] = "client"]
      /\ lock' = [lock EXCEPT ![HeapOf(t)] = NoThread]
      /\ UNCHANGED <<build, front, asserts, head, nObjects, allocated, next, pool, cut, hand,
                    live, owned, cached, lost>>
  BY DEF Done, Goto, Release, build, sharedVars, history
<1>2. \A u \in Threads : HeapOf(u)' = HeapOf(u) /\ HeapOf(u) \in Heaps
  BY <1>1, HeapOfFixed, HeapOfType
<1>3. TypeOK'
  BY <1>1 DEF TypeOK
<1>4. \A u \in Threads \ {t} : HeapOf(u) = HeapOf(t) => place[u] \notin LockedPlaces
  BY <1>1, OnlyHolder DEF LockedPlaces
<1>5. PlaceInv'
  BY <1>1, <1>2, <1>4 DEF PlaceInv, TypeOK, LockedPlaces, HoldingPlaces
<1>6. ListInv'
  BY <1>1, ListSame
<1>7. CountInv'
  BY <1>1, <1>2 DEF CountInv, TypeOK
<1>8. RoomInv'
  <2>1. Pending' = Pending
    BY <1>1, PendingSame DEF Waiting, MallocPlaces
  <2> QED BY <1>1, <2>1 DEF RoomInv
<1>9. \A u \in Threads : InFlight(u)' = InFlight(u)
  BY <1>1 DEF InFlight, TypeOK
<1>10. OwnerInv' /\ CutInv'
  BY <1>1, <1>9, OwnersSame
<1> QED BY <1>3, <1>5, <1>6, <1>7, <1>8, <1>10

-----------------------------------------------------------------------------
(* The end of a thread takes what is in its storage, and only that. *)
LEMMA ExitKeeps ==
  ASSUME CachesInv, NEW t \in Threads, Exit(t)
  PROVE  CachesInv'
<1> USE DEF CachesInv
<1> DEFINE h == HeapOf(t)
<1>1. /\ place[t] = "client" /\ Goto(t, "exited") /\ place' = [place EXCEPT ![t] = "exited"]
      /\ UNCHANGED <<build, front, asserts, lock, allocated, next, pool, cut, hand, live, owned>>
  BY DEF Exit, Goto, build, sharedVars
<1>2. \A u \in Threads : HeapOf(u)' = HeapOf(u) /\ HeapOf(u) \in Heaps
  BY <1>1, HeapOfFixed, HeapOfType
<1>3. RoomInv'
  <2>1. Pending' = Pending
    BY <1>1, PendingSame DEF Waiting, MallocPlaces
  <2> QED BY <1>1, <2>1 DEF RoomInv
<1>4. \A u \in Threads : InFlight(u)' = InFlight(u)
  BY <1>1 DEF InFlight, TypeOK
<1>5. CASE front = "ThreadHeap"
  <2>1. UNCHANGED <<head, nObjects, cached, lost>>
    BY <1>5 DEF Exit
  <2>2. TypeOK'
    BY <1>1, <2>1 DEF TypeOK
  <2>3. PlaceInv'
    BY <1>1, <1>2, <2>1 DEF PlaceInv, TypeOK, LockedPlaces, HoldingPlaces
  <2>4. ListInv'
    BY <1>1, <2>1, ListSame
  <2>5. CountInv'
    BY <1>1, <1>2, <2>1 DEF CountInv, TypeOK
  <2>6. OwnerInv' /\ CutInv'
    BY <1>1, <1>4, <2>1, OwnersSame
  <2> QED BY <1>3, <2>2, <2>3, <2>4, <2>5, <2>6
<1>6. CASE front # "ThreadHeap"
  <2>1. /\ head' = [head EXCEPT ![h] = NULL]
        /\ nObjects' = [nObjects EXCEPT ![h] = 0]
        /\ cached' = [cached EXCEPT ![h] = {}]
        /\ lost' = lost \union cached[h]
    BY <1>6 DEF Exit
  <2>2. h \in Heaps /\ cached[h] \subseteq Objects
    BY <1>2 DEF TypeOK
  <2>3. \A u \in Threads \ {t} : HeapOf(u) # h
    BY <1>6, OwnStorage
  <2>4. /\ head'[h] = NULL /\ nObjects'[h] = 0 /\ cached'[h] = {}
        /\ \A g \in Heaps \ {h} : /\ head'[g] = head[g] /\ nObjects'[g] = nObjects[g]
                                  /\ cached'[g] = cached[g]
    BY <2>1, <2>2 DEF TypeOK
  <2>5. TypeOK'
    <3>1. nObjects' \in [Heaps -> 0 .. NumObjects]
      <4>1. 0 \in 0 .. NumObjects
        OBVIOUS
      <4> QED BY <2>1, <4>1 DEF TypeOK
    <3>2. cached' \in [Heaps -> SUBSET Objects]
      BY <2>1 DEF TypeOK
    <3> QED BY <1>1, <2>1, <2>2, <3>1, <3>2 DEF TypeOK
  <2>6. PlaceInv'
    BY <1>1, <1>2, <2>3, <2>4 DEF PlaceInv, TypeOK, LockedPlaces, HoldingPlaces
  <2>7. ListInv'
    <3>1. IsList(NULL, next, {}, NULL)
      BY DEF IsList
    <3>2. \A g \in Heaps : IsList(head'[g], next, cached'[g], NULL)
      BY <2>4, <3>1 DEF ListInv
    <3> QED BY <1>1, <2>1, <3>2 DEF ListInv
  <2>8. CountInv'
    <3>1. IsFiniteSet(cached'[h]) /\ Cardinality(cached'[h]) = 0
      BY <2>4, FS_EmptySet
    <3>2. \A u \in Threads : place'[u] = "drop" => HeapOf(u) # h /\ place[u] = "drop"
      BY <1>1, <2>3 DEF TypeOK
    <3>3. \A g \in Heaps : IsFiniteSet(cached'[g]) /\ Cardinality(cached'[g]) <= nObjects'[g]
      <4>1. Cardinality(cached'[h]) <= nObjects'[h]
        BY <2>4, <3>1
      <4> QED BY <2>4, <3>1, <4>1 DEF CountInv
    <3>4. \A u \in Threads : place'[u] = "drop" =>
            Cardinality(cached'[HeapOf(u)]) < nObjects'[HeapOf(u)]
      BY <1>2, <2>4, <3>2 DEF CountInv
    <3> QED BY <1>2, <3>3, <3>4 DEF CountInv
  <2>9. OwnerInv'
    BY <1>1, <1>4, <2>1, <2>2, <2>4 DEF OwnerInv
  <2>10. CutInv'
    <3>1. \A q : Somewhere(q)' <=> Somewhere(q)
      BY <1>1, <1>4, <2>1, <2>2, <2>4 DEF Somewhere
    <3> QED BY <1>1, <3>1 DEF CutInv
  <2> QED BY <1>3, <2>5, <2>6, <2>7, <2>8, <2>9, <2>10
<1> QED BY <1>5, <1>6

LEMMA CachesStutter ==
  ASSUME CachesInv, UNCHANGED vars
  PROVE  CachesInv'
<1> USE DEF CachesInv
<1>1. UNCHANGED <<build, front, asserts, lock, head, nObjects, allocated, next, pool, cut,
                  place, hand, live, owned, cached, lost>>
  BY DEF vars, build, heapVars, sharedVars, history
<1>2. \A u \in Threads : HeapOf(u)' = HeapOf(u) /\ InFlight(u)' = InFlight(u)
  BY <1>1, HeapOfFixed DEF InFlight
<1>3. TypeOK' /\ PlaceInv' /\ CountInv' /\ RoomInv'
  BY <1>1, <1>2 DEF TypeOK, PlaceInv, CountInv, RoomInv, Pending
<1>4. ListInv' /\ OwnerInv' /\ CutInv'
  BY <1>1, <1>2, ListSame, OwnersSame
<1> QED BY <1>3, <1>4

LEMMA CachesStepInv == CachesInv /\ [Next]_vars => CachesInv'
<1>1. ASSUME CachesInv, NEW t \in Threads,
             CallMalloc(t) \/ CallFree(t) \/ Exit(t) \/ Inside(t)
      PROVE  CachesInv'
  BY <1>1, CallMallocKeeps, CallFreeKeeps, ExitKeeps, AcquireKeeps, GetKeeps, PopKeeps,
     SuperKeeps, GiveKeeps, PutKeeps, LinkKeeps, ClearKeeps, DropKeeps, DoneKeeps DEF Inside
<1> QED BY <1>1, CachesStutter DEF Next

THEOREM CachesInvariant == Spec => []CachesInv
BY CachesInitInv, CachesStepInv, PTL DEF Spec

(* Links, counts and pointers of the caches stay in range: no link is ever *)
(* client data, no count exceeds NumObjects or falls below zero.           *)
THEOREM CachesTypeCorrect == Spec => []TypeOK
BY CachesInvariant, PTL DEF CachesInv

(* A cache never holds more objects than it counts, with and without the   *)
(* assertion whose side effect is to count down.                           *)
THEOREM CachesAreBounded ==
  Spec => [](\A h \in Heaps : Cardinality(cached[h]) <= nObjects[h] /\ nObjects[h] <= NumObjects)
<1>1. CachesInv => \A h \in Heaps : Cardinality(cached[h]) <= nObjects[h]
                                   /\ nObjects[h] <= NumObjects
  BY DEF CachesInv, CountInv, TypeOK
<1> QED BY <1>1, CachesInvariant, PTL

(* At most one element: the sets InOnePlace counts. *)
LEMMA OneOrNone ==
  ASSUME NEW S, \A a, b \in S : a = b
  PROVE  Cardinality(S) = IF S = {} THEN 0 ELSE 1
<1>1. CASE S = {}
  BY <1>1, FS_EmptySet
<1>2. CASE S # {}
  <2>1. PICK a \in S : S = {a}
    BY <1>2
  <2> QED BY <1>2, <2>1, FS_Singleton
<1> QED BY <1>1, <1>2

(* No object is given out twice, cached twice or in two caches: each one   *)
(* the shared heap ever cut is in exactly one place.                       *)
THEOREM ObjectsInOnePlace == Spec => [](\A o \in 1 .. cut : InOnePlace(o))
<1>1. ASSUME CachesInv, NEW o \in 1 .. cut PROVE InOnePlace(o)
  <2> USE <1>1 DEF CachesInv
  <2> DEFINE ts == {t \in Threads : o \in InFlight(t)}
             hs == {h \in Heaps : o \in cached[h]}
  <2>1. o \in Objects /\ o <= cut
    BY DEF TypeOK, Objects
  <2>2. Somewhere(o)
    BY <2>1 DEF CutInv
  <2>3. /\ \A a, b \in ts : a = b
        /\ \A a, b \in hs : a = b
    BY DEF OwnerInv
  <2>4. /\ Cardinality(ts) = IF ts = {} THEN 0 ELSE 1
        /\ Cardinality(hs) = IF hs = {} THEN 0 ELSE 1
    BY <2>3, OneOrNone
  <2>5. /\ o \in live \/ o \in pool \/ o \in lost \/ hs # {} \/ ts # {}
        /\ o \in live => o \notin pool /\ o \notin lost /\ hs = {} /\ ts = {}
        /\ o \in pool => o \notin live /\ o \notin lost /\ hs = {} /\ ts = {}
        /\ o \in lost => o \notin live /\ o \notin pool /\ hs = {} /\ ts = {}
        /\ hs # {} => ts = {}
    BY <2>2 DEF Somewhere, OwnerInv
  <2> HIDE DEF ts, hs
  <2>6. 1 = Cardinality(ts) + Cardinality(hs)
            + (IF o \in live THEN 1 ELSE 0) + (IF o \in pool THEN 1 ELSE 0)
            + (IF o \in lost THEN 1 ELSE 0)
    BY <2>4, <2>5
  <2> QED BY <2>6 DEF InOnePlace, ts, hs
<1>2. CachesInv => \A o \in 1 .. cut : InOnePlace(o)
  BY <1>1
<1> QED BY <1>2, CachesInvariant, PTL

-----------------------------------------------------------------------------
(* The counts are exact where assertions are compiled in, but for the      *)
(* object that a clear has taken off the list and not yet counted down.    *)
Dropping(h) == \E t \in Threads : place[t] = "drop" /\ HeapOf(t) = h

Exact(h) == nObjects[h] = Cardinality(cached[h]) + (IF Dropping(h) THEN 1 ELSE 0)
ExactInv == asserts => \A h \in Heaps : Exact(h)

LEMMA ExactInitInv == Init => ExactInv
BY FS_EmptySet DEF Init, ExactInv, Exact, Dropping

(* Steps that neither begin nor end the drop of an object. *)
LEMMA DroppingSame ==
  ASSUME TypeOK, NEW t \in Threads, NEW where, Goto(t, where), UNCHANGED build,
         where # "drop", place[t] # "drop"
  PROVE  \A h : Dropping(h)' <=> Dropping(h)
<1>1. \A u \in Threads : HeapOf(u)' = HeapOf(u) /\ (place'[u] = "drop" <=> place[u] = "drop")
  BY HeapOfFixed DEF Goto, TypeOK
<1> QED BY <1>1 DEF Dropping

LEMMA CountedSame ==
  ASSUME CachesInv, ExactInv, NEW t \in Threads, NEW where, Goto(t, where), UNCHANGED build,
         where # "drop", place[t] # "drop", UNCHANGED <<nObjects, cached>>
  PROVE  ExactInv'
<1>1. (\A h : Dropping(h)' <=> Dropping(h)) /\ asserts' = asserts
  BY DroppingSame DEF CachesInv, build
<1> QED BY <1>1 DEF ExactInv, Exact

(* A step that counts in one heap only. *)
LEMMA CountedOnce ==
  ASSUME ExactInv, NEW h \in Heaps, asserts' = asserts,
         \A g \in Heaps \ {h} : /\ nObjects'[g] = nObjects[g] /\ cached'[g] = cached[g]
                                /\ Dropping(g)' <=> Dropping(g),
         asserts /\ Exact(h) => Exact(h)'
  PROVE  ExactInv'
<1>1. ASSUME NEW g \in Heaps, g # h, Exact(g) PROVE Exact(g)'
  BY <1>1 DEF Exact
<1> QED BY <1>1 DEF ExactInv

(* Nobody drops an object of a heap whose lock another thread has. *)
LEMMA NobodyDrops ==
  ASSUME CachesInv, NEW t \in Threads, place[t] \in LockedPlaces, place[t] # "drop"
  PROVE  ~Dropping(HeapOf(t))
BY OnlyHolder DEF CachesInv, Dropping, LockedPlaces

LEMMA PopExact ==
  ASSUME CachesInv, ExactInv, NEW t \in Threads, Pop(t)
  PROVE  ExactInv'
<1> PICK h \in Heaps : h = HeapOf(t)
  BY HeapOfType DEF CachesInv
<1> DEFINE o == hand[t]
<1>1. /\ place[t] = "pop" /\ Goto(t, "give") /\ UNCHANGED <<build, asserts>> /\ next' = next
      /\ head' = [head EXCEPT ![h] = next[o]]
      /\ nObjects' = [nObjects EXCEPT ![h] = @ - 1]
      /\ cached' = [cached EXCEPT ![h] = @ \ {o}]
  BY DEF Pop, build
<1>2. o = head[h] /\ o # NULL
  BY <1>1 DEF CachesInv, PlaceInv, HoldingPlaces
<1>3. Cardinality(cached'[h]) = Cardinality(cached[h]) - 1 /\ Cardinality(cached[h]) \in Nat
  BY <1>1, <1>2, Unlinked DEF CachesInv
<1>4. /\ nObjects'[h] = nObjects[h] - 1 /\ nObjects[h] \in Nat
      /\ \A g \in Heaps \ {h} : nObjects'[g] = nObjects[g] /\ cached'[g] = cached[g]
  BY <1>1, <1>2 DEF CachesInv, TypeOK
<1>5. \A g : Dropping(g)' <=> Dropping(g)
  BY <1>1, DroppingSame DEF CachesInv
<1>6. Exact(h) => Exact(h)'
  BY <1>3, <1>4, <1>5 DEF Exact
<1> QED BY <1>1, <1>2, <1>4, <1>5, <1>6, CountedOnce

LEMMA LinkExact ==
  ASSUME CachesInv, ExactInv, NEW t \in Threads, Link(t)
  PROVE  ExactInv'
<1> PICK h \in Heaps : h = HeapOf(t)
  BY HeapOfType DEF CachesInv
<1> DEFINE o == hand[t]
<1>1. /\ place[t] = "link" /\ Goto(t, "done") /\ UNCHANGED <<build, asserts>>
      /\ nObjects' = [nObjects EXCEPT ![h] = @ + 1]
      /\ cached' = [cached EXCEPT ![h] = @ \union {o}]
  BY DEF Link, build
<1>2. o \in InFlight(t)
  BY <1>1 DEF CachesInv, PlaceInv, HoldingPlaces, InFlight
<1>3. o \notin cached[h] /\ IsFiniteSet(cached[h])
  BY <1>2 DEF CachesInv, OwnerInv, CountInv
<1>4. /\ nObjects'[h] = nObjects[h] + 1 /\ nObjects[h] \in Nat
      /\ cached'[h] = cached[h] \union {o}
      /\ \A g \in Heaps \ {h} : nObjects'[g] = nObjects[g] /\ cached'[g] = cached[g]
  BY <1>1, <1>2 DEF CachesInv, TypeOK
<1>5. Cardinality(cached'[h]) = Cardinality(cached[h]) + 1 /\ Cardinality(cached[h]) \in Nat
  <2> HIDE DEF o
  <2>1. Cardinality(cached[h] \union {o}) = Cardinality(cached[h]) + 1
    BY <1>3, FS_AddElement
  <2>2. Cardinality(cached[h]) \in Nat
    BY <1>3, FS_CardinalityType
  <2> QED BY <1>4, <2>1, <2>2
<1>6. \A g : Dropping(g)' <=> Dropping(g)
  BY <1>1, DroppingSame DEF CachesInv
<1>7. Exact(h) => Exact(h)'
  BY <1>4, <1>5, <1>6 DEF Exact
<1> QED BY <1>1, <1>2, <1>4, <1>6, <1>7, CountedOnce

(* The object that leaves the list is counted until it is dropped. *)
LEMMA ClearExact ==
  ASSUME CachesInv, ExactInv, NEW t \in Threads, Clear(t)
  PROVE  ExactInv'
<1> PICK h \in Heaps : h = HeapOf(t)
  BY HeapOfType DEF CachesInv
<1> DEFINE o == head[h]
<1>1. place[t] = "clear" /\ UNCHANGED <<build, asserts, nObjects>> /\ next' = next
  BY DEF Clear, build
<1>3. CASE o = NULL
  <2>1. Goto(t, "done") /\ cached' = cached
    BY <1>3 DEF Clear
  <2> QED BY <1>1, <2>1, CountedSame
<1>4. CASE o # NULL
  <2>1. /\ Goto(t, "drop")
        /\ head' = [head EXCEPT ![h] = next[o]]
        /\ cached' = [cached EXCEPT ![h] = @ \ {o}]
    BY <1>4 DEF Clear
  <2>2. Cardinality(cached'[h]) = Cardinality(cached[h]) - 1 /\ Cardinality(cached[h]) \in Nat
    BY <1>1, <1>4, <2>1, Unlinked DEF CachesInv
  <2>3. \A g \in Heaps \ {h} : cached'[g] = cached[g]
    BY <2>1 DEF CachesInv, TypeOK
  <2>4. ~Dropping(h)
    BY <1>1, NobodyDrops DEF LockedPlaces
  <2>5. /\ place'[t] = "drop" /\ \A u \in Threads \ {t} : place'[u] = place[u]
        /\ \A u \in Threads : HeapOf(u)' = HeapOf(u)
    BY <1>1, <2>1, HeapOfFixed DEF Goto, CachesInv, TypeOK
  <2>6. Dropping(h)' /\ \A g \in Heaps \ {h} : Dropping(g)' <=> Dropping(g)
    BY <1>1, <2>5 DEF Dropping
  <2>7. Exact(h) => Exact(h)'
    BY <1>1, <2>2, <2>4, <2>6 DEF Exact
  <2> QED BY <1>1, <2>3, <2>6, <2>7, CountedOnce
<1> QED BY <1>3, <1>4

LEMMA DropExact ==
  ASSUME CachesInv, ExactInv, NEW t \in Threads, Drop(t)
  PROVE  ExactInv'
<1> SUFFICES ASSUME asserts' PROVE ExactInv'
  BY DEF ExactInv
<1> PICK h \in Heaps : h = HeapOf(t)
  BY HeapOfType DEF CachesInv
<1>1. /\ place[t] = "drop" /\ Goto(t, "clear") /\ UNCHANGED <<build, asserts, cached>>
  BY DEF Drop, build, history
<1>3. /\ nObjects'[h] = nObjects[h] - 1 /\ nObjects[h] \in Nat
      /\ \A g \in Heaps \ {h} : nObjects'[g] = nObjects[g]
  BY <1>1 DEF Drop, CachesInv, TypeOK
<1>4. /\ place'[t] = "clear" /\ \A u \in Threads \ {t} : place'[u] = place[u]
      /\ \A u \in Threads : HeapOf(u)' = HeapOf(u)
  BY <1>1, HeapOfFixed DEF Goto, CachesInv, TypeOK
<1>5. \A u \in Threads \ {t} : HeapOf(u) = h => place[u] # "drop"
  BY <1>1, OnlyHolder DEF LockedPlaces, CachesInv
<1>6. Dropping(h) /\ ~Dropping(h)' /\ \A g \in Heaps \ {h} : Dropping(g)' <=> Dropping(g)
  BY <1>1, <1>4, <1>5 DEF Dropping
<1>7. Cardinality(cached[h]) \in Nat
  BY FS_CardinalityType DEF CachesInv, CountInv
<1>8. Exact(h) => Exact(h)'
  <2>1. cached' = cached
    BY <1>1
  <2> QED BY <1>3, <1>6, <1>7, <2>1 DEF Exact
<1> QED BY <1>1, <1>3, <1>6, <1>8, CountedOnce

LEMMA ExitExact ==
  ASSUME CachesInv, ExactInv, NEW t \in Threads, Exit(t)
  PROVE  ExactInv'
<1> PICK h \in Heaps : h = HeapOf(t)
  BY HeapOfType DEF CachesInv
<1>1. place[t] = "client" /\ Goto(t, "exited") /\ UNCHANGED <<build, asserts>>
  BY DEF Exit, build
<1>2. CASE front = "ThreadHeap"
  <2>1. UNCHANGED <<nObjects, cached>>
    BY <1>2 DEF Exit
  <2> QED BY <1>1, <2>1, CountedSame
<1>3. CASE front # "ThreadHeap"
  <2>2. /\ nObjects'[h] = 0 /\ cached'[h] = {}
        /\ \A g \in Heaps \ {h} : nObjects'[g] = nObjects[g] /\ cached'[g] = cached[g]
    BY <1>3 DEF Exit, CachesInv, TypeOK
  <2>3. \A u \in Threads \ {t} : HeapOf(u) # h
    BY <1>3, OwnStorage DEF CachesInv
  <2>4. \A g : Dropping(g)' <=> Dropping(g)
    BY <1>1, DroppingSame DEF CachesInv
  <2>5. ~Dropping(h)
    BY <1>1, <2>3 DEF Dropping
  <2>6. Cardinality(cached'[h]) = 0
    BY <2>2, FS_EmptySet
  <2>7. Exact(h)'
    BY <2>2, <2>4, <2>5, <2>6 DEF Exact
  <2> QED BY <1>1, <2>2, <2>4, <2>7, CountedOnce
<1> QED BY <1>2, <1>3

LEMMA ExactStepInv == CachesInv /\ ExactInv /\ [Next]_vars => ExactInv'
<1> SUFFICES ASSUME CachesInv, ExactInv, [Next]_vars PROVE ExactInv'
  OBVIOUS
<1>1. ASSUME NEW t \in Threads,
             \/ CallMalloc(t) \/ CallFree(t) \/ Acquire(t) \/ Get(t) \/ Super(t) \/ Give(t)
             \/ Put(t) \/ Done(t)
      PROVE  ExactInv'
  <2>1. UNCHANGED <<build, nObjects, cached>> /\ place[t] # "drop"
    BY <1>1 DEF CallMalloc, CallFree, Acquire, Get, Super, Give, Put, Done, heapVars, history
  <2>2. \E where \in {"malloc", "free", "get", "put", "super", "pop", "give", "client",
                      "link", "clear"} : Goto(t, where)
    BY <1>1 DEF CallMalloc, CallFree, Acquire, Get, Super, Give, Put, Done
  <2> QED BY <2>1, <2>2, CountedSame
<1>2. CASE UNCHANGED vars
  <2>1. UNCHANGED <<build, asserts, place, nObjects, cached>>
    BY <1>2 DEF vars, build, heapVars, history
  <2>2. \A g : Dropping(g)' <=> Dropping(g)
    BY <2>1, HeapOfFixed DEF Dropping
  <2> QED BY <2>1, <2>2 DEF ExactInv, Exact
<1> QED BY <1>1, <1>2, PopExact, LinkExact, ClearExact, DropExact, ExitExact DEF Next, Inside

LEMMA ExactInvariant == Spec => []ExactInv
<1>1. CachesInv /\ ExactInv /\ [Next]_vars => ExactInv'
  BY ExactStepInv
<1> QED BY <1>1, ExactInitInv, CachesInvariant, PTL DEF Spec

(* The links of each cache lead through its objects, each once, to the     *)
(* end, the bound holds with and without assertions, and every object is   *)
(* in one place.                                                           *)
THEOREM CachesIntact == Spec => []CachesAreIntact
<1>1. ASSUME CachesInv, ExactInv, NEW h \in Heaps PROVE CacheIsIntact(h)
  <2> DEFINE k == Cardinality(cached[h])
             walk == CHOOSE w : Follows(w, k, head[h], next, Objects, NULL)
  <2>1. k \in Nat /\ IsFiniteSet(cached[h]) /\ cached[h] \in SUBSET Objects
    BY <1>1, FS_CardinalityType DEF CachesInv, CountInv, TypeOK
  <2>2. \E w : Follows(w, k, head[h], next, Objects, NULL)
    <3> HIDE DEF k
    <3> QED BY <2>1, WalkExists
  <2>3. Follows(walk, k, head[h], next, Objects, NULL)
    BY <2>2
  <2>4. IsList(head[h], next, cached[h], NULL)
    BY <1>1 DEF CachesInv, ListInv
  <2>5. Visited(walk, k) = cached[h] /\ walk[k] = NULL
    <3> HIDE DEF walk
    <3> QED BY <2>1, <2>3, <2>4, WalkVisits
  <2>6. k <= nObjects[h] /\ nObjects[h] <= NumObjects
    BY <1>1 DEF CachesInv, CountInv, TypeOK
  <2>7. asserts /\ lock[h] = NoThread => k = nObjects[h]
    <3>1. lock[h] = NoThread => ~Dropping(h)
      BY <1>1 DEF CachesInv, PlaceInv, Dropping, LockedPlaces
    <3> QED BY <1>1, <2>1, <3>1 DEF ExactInv, Exact
  <2> QED BY <2>5, <2>6, <2>7 DEF CacheIsIntact, Follows, Visited
<1>2. CachesInv /\ ExactInv => \A h \in Heaps : CacheIsIntact(h)
  BY <1>1
<1> QED BY <1>2, ExactInvariant, CachesInvariant, ObjectsInOnePlace, PTL DEF CachesAreIntact

-----------------------------------------------------------------------------
(* The counters of the heaps add up. *)

Freeing == {t \in Threads : place[t] \in {"free", "put"}}

LEMMA HeapsFinite == IsFiniteSet(Heaps)
<1>1. IsFiniteSet(0 .. NumHeaps - 1)
  BY FS_Interval
<1>2. IsFiniteSet({NumHeaps + Id[t] : t \in Threads})
  <2> DEFINE T == {NumHeaps + Id[t] : t \in Threads}
             f == [t \in Threads |-> NumHeaps + Id[t]]
  <2>1. f \in Surjection(Threads, T)
    BY DEF Surjection
  <2> HIDE DEF f, T
  <2>2. IsFiniteSet(T)
    BY <2>1, FS_Surjection
  <2> QED BY <2>2 DEF T
<1> QED BY <1>1, <1>2, FS_Union DEF Heaps

LEMMA FreeingFinite == IsFiniteSet(Freeing) /\ Cardinality(Freeing) \in Nat
<1>1. Freeing \in SUBSET Threads
  BY DEF Freeing
<1> QED BY <1>1, FS_Subset, FS_CardinalityType

LEMMA StatsIs ==
  ASSUME TypeOK
  PROVE  StatsAddUp <=> SumFunction(allocated) = owned + Cardinality(Freeing)
<1>1. owned + Cardinality(Freeing) \in Int
  BY FreeingFinite DEF TypeOK
<1>2. ObjSize * (owned + Cardinality(Freeing)) = owned + Cardinality(Freeing)
  BY <1>1 DEF ObjSize
<1> QED BY <1>2 DEF StatsAddUp, Freeing

LEMMA StatsInit == Init => StatsAddUp
<1> SUFFICES ASSUME Init PROVE StatsAddUp
  OBVIOUS
<1>1. allocated \in [Heaps -> Int] /\ \A h \in Heaps : allocated[h] = 0
  BY DEF Init
<1>2. SumFunction(allocated) = 0
  BY <1>1, HeapsFinite, SumZero
<1>3. Freeing = {} /\ owned = 0
  BY DEF Init, Freeing
<1>4. TypeOK
  BY CachesInitInv DEF CachesInv
<1> QED BY <1>2, <1>3, <1>4, StatsIs, FS_EmptySet

(* A heap's counter changes by d, and so does the total. *)
LEMMA OneCounts ==
  ASSUME TypeOK, TypeOK', NEW h \in Heaps, NEW d \in Int, allocated'[h] = allocated[h] + d,
         \A g \in Heaps \ {h} : allocated'[g] = allocated[g]
  PROVE  SumFunction(allocated') = SumFunction(allocated) + d
<1>1. allocated \in [Heaps -> Int] /\ allocated' \in [Heaps -> Int]
  BY DEF TypeOK
<1> QED BY <1>1, HeapsFinite, SumAdd

LEMMA StatsStep == CachesInv /\ StatsAddUp /\ [Next]_vars => StatsAddUp'
<1> SUFFICES ASSUME CachesInv, StatsAddUp, [Next]_vars PROVE StatsAddUp'
  OBVIOUS
<1>0. /\ SumFunction(allocated) = owned + Cardinality(Freeing)
      /\ Cardinality(Freeing) \in Nat /\ owned \in Int
  BY FreeingFinite, StatsIs DEF CachesInv, TypeOK
<1> DEFINE Goal == SumFunction(allocated') = owned' + Cardinality(Freeing')
<1>10. Goal => StatsAddUp'
  <2>1. TypeOK'
    BY CachesStepInv DEF CachesInv
  <2>2. Freeing' \in SUBSET Threads
    BY DEF Freeing
  <2>3. Cardinality(Freeing') \in Nat
    BY <2>2, FS_Subset, FS_CardinalityType
  <2>4. ObjSize * (owned' + Cardinality(Freeing')) = owned' + Cardinality(Freeing')
    BY <2>1, <2>3 DEF ObjSize, TypeOK
  <2> QED BY <2>4 DEF StatsAddUp, Freeing
<1>1. ASSUME NEW t \in Threads, CallFree(t) PROVE StatsAddUp'
  <2>1. owned' = owned - 1 /\ allocated' = allocated /\ place[t] = "client" /\ Goto(t, "free")
    BY <1>1 DEF CallFree, heapVars
  <2>2. Freeing' = Freeing \union {t} /\ t \notin Freeing
    BY <2>1 DEF Freeing, Goto, CachesInv, TypeOK
  <2>3. Cardinality(Freeing') = Cardinality(Freeing) + 1
    BY <2>2, FreeingFinite, FS_AddElement
  <2>4. Goal
    BY <1>0, <2>1, <2>3
  <2> QED BY <1>10, <2>4
<1>2. ASSUME NEW t \in Threads, Give(t) PROVE StatsAddUp'
  <2>1. owned' = owned + 1 /\ place[t] = "give" /\ Goto(t, "client")
    BY <1>2 DEF Give
  <2>2. Freeing' = Freeing
    BY <2>1 DEF Freeing, Goto, CachesInv, TypeOK
  <2>3. PICK h \in Heaps : h = HeapOf(t)
    BY HeapOfType DEF CachesInv
  <2>4. /\ allocated'[h] = allocated[h] + 1
        /\ \A g \in Heaps \ {h} : allocated'[g] = allocated[g]
    BY <1>2, <2>3 DEF Give, ObjSize, CachesInv, TypeOK
  <2>5. SumFunction(allocated') = SumFunction(allocated) + 1
    BY <2>4, CachesStepInv, OneCounts DEF CachesInv
  <2>6. Goal
    BY <1>0, <2>1, <2>2, <2>5
  <2> QED BY <1>10, <2>6
<1>3. ASSUME NEW t \in Threads, Put(t) PROVE StatsAddUp'
  <2>1. owned' = owned /\ place[t] = "put" /\ (Goto(t, "link") \/ Goto(t, "clear"))
    BY <1>3 DEF Put
  <2>2. Freeing' = Freeing \ {t} /\ t \in Freeing
    BY <2>1 DEF Freeing, Goto, CachesInv, TypeOK
  <2>3. Cardinality(Freeing') = Cardinality(Freeing) - 1
    BY <2>2, FreeingFinite, FS_RemoveElement
  <2>4. PICK h \in Heaps : h = HeapOf(t)
    BY HeapOfType DEF CachesInv
  <2>5. /\ allocated'[h] = allocated[h] + (-1)
        /\ \A g \in Heaps \ {h} : allocated'[g] = allocated[g]
    BY <1>3, <2>4 DEF Put, ObjSize, CachesInv, TypeOK
  <2>6. SumFunction(allocated') = SumFunction(allocated) + (-1)
    BY <2>5, CachesStepInv, OneCounts DEF CachesInv
  <2>7. Goal
    BY <1>0, <2>1, <2>3, <2>6
  <2> QED BY <1>10, <2>7
<1>4. ASSUME NEW t \in Threads,
             \/ CallMalloc(t) \/ Exit(t) \/ Acquire(t) \/ Get(t) \/ Pop(t) \/ Super(t)
             \/ Link(t) \/ Clear(t) \/ Drop(t) \/ Done(t)
      PROVE  StatsAddUp'
  <2>1. UNCHANGED <<owned, allocated>>
    BY <1>4 DEF CallMalloc, Exit, Acquire, Get, Pop, Super, Link, Clear, Drop, Done, heapVars,
       history
  <2>2. \E where : Goto(t, where) /\ (where \in {"free", "put"} <=> place[t] \in {"free", "put"})
    BY <1>4 DEF CallMalloc, Exit, Acquire, Get, Pop, Super, Link, Clear, Drop, Done
  <2>3. Freeing' = Freeing
    BY <2>2 DEF Freeing, Goto, CachesInv, TypeOK
  <2> QED BY <2>1, <2>3 DEF StatsAddUp, Freeing
<1>5. CASE UNCHANGED vars
  BY <1>5 DEF vars, heapVars, history, StatsAddUp
<1> QED BY <1>1, <1>2, <1>3, <1>4, <1>5 DEF Next, Inside

(* Although a block counted in one heap may be uncounted in another, the   *)
(* counters of all heaps together are the memory clients have.             *)
THEOREM HeapStatsAddUp == Spec => []StatsAddUp
<1>1. CachesInv /\ StatsAddUp /\ [Next]_vars => StatsAddUp'
  BY StatsStep
<1> QED BY <1>1, StatsInit, CachesInvariant, PTL DEF Spec

-----------------------------------------------------------------------------
(* The refinement of HeapContract. *)

Blocks == {<<o, ObjSize>> : o \in live}
Requests == [t \in Threads |-> IF place[t] \in MallocPlaces THEN ObjSize ELSE 0]

(* A step that moves no thread into or out of malloc asks for nothing.     *)
LEMMA SameRequests ==
  ASSUME TypeOK, NEW t \in Threads, NEW where, Goto(t, where),
         where \in MallocPlaces <=> place[t] \in MallocPlaces
  PROVE  Requests' = Requests
<1>1. \A u \in Threads : place'[u] \in MallocPlaces <=> place[u] \in MallocPlaces
  BY DEF TypeOK, Goto
<1> QED BY <1>1 DEF Requests

LEMMA CallMallocRefines ==
  ASSUME TypeOK, NEW t \in Threads, CallMalloc(t)
  PROVE  Contract!Malloc(t)
<1>1. /\ place[t] = "client" /\ place' = [place EXCEPT ![t] = "malloc"]
      /\ live' = live /\ owned' = owned
  BY DEF CallMalloc, Goto, history
<1>2. Requests[t] = 0 /\ Requests' = [Requests EXCEPT ![t] = ObjSize]
  BY <1>1 DEF Requests, MallocPlaces, TypeOK
<1>3. Requests'[t] = ObjSize /\ ObjSize \in Nat \ {0}
  BY <1>2 DEF Requests, ObjSize
<1> QED BY <1>1, <1>2, <1>3 DEF Contract!Malloc, Requests

LEMMA GiveRefines ==
  ASSUME CachesInv, NEW t \in Threads, Give(t)
  PROVE  Contract!Deliver(t)
<1>1. /\ place[t] = "give" /\ place' = [place EXCEPT ![t] = "client"]
      /\ live' = live \union {hand[t]} /\ owned' = owned + 1
  BY DEF Give, Goto
<1>2. Requests[t] = ObjSize /\ Requests' = [Requests EXCEPT ![t] = 0]
  BY <1>1 DEF Requests, MallocPlaces, CachesInv, TypeOK
<1>3. hand[t] \in Objects /\ hand[t] \in InFlight(t)
  BY <1>1 DEF CachesInv, PlaceInv, TypeOK, HoldingPlaces, InFlight
<1>4. hand[t] \notin live /\ live \subseteq Objects
  BY <1>3 DEF CachesInv, OwnerInv, TypeOK
<1>5. ASSUME NEW p \in live
      PROVE  Contract!Disjoint(<<hand[t], ObjSize>>, <<p, ObjSize>>)
  <2>1. hand[t] \in Int /\ p \in Int /\ hand[t] # p
    BY <1>3, <1>4 DEF Objects
  <2> QED BY <2>1 DEF Contract!Disjoint, Contract!Bytes, ObjSize
<1>6. Blocks' = Blocks \union {<<hand[t], ObjSize>>}
  BY <1>1 DEF Blocks
<1>7. \A c \in Blocks : Contract!Disjoint(<<hand[t], ObjSize>>, c)
  BY <1>5 DEF Blocks
<1>8. <<hand[t], ObjSize>>[2] >= Requests[t] /\ Requests[t] # 0
  BY <1>2 DEF ObjSize
<1> QED BY <1>1, <1>2, <1>6, <1>7, <1>8 DEF Contract!Deliver, Requests, Blocks

LEMMA CallFreeRefines ==
  ASSUME TypeOK, NEW t \in Threads, CallFree(t)
  PROVE  Contract!Free
<1>1. PICK o \in live : live' = live \ {o} /\ owned' = owned - 1
  BY DEF CallFree
<1>2. Requests' = Requests
  BY SameRequests DEF CallFree, MallocPlaces
<1>3. Blocks' = Blocks \ {<<o, ObjSize>>} /\ <<o, ObjSize>> \in Blocks
  BY <1>1 DEF Blocks
<1> QED BY <1>1, <1>2, <1>3 DEF Contract!Free, Blocks, Requests

(* All other steps are invisible to clients. *)
LEMMA OthersStutter ==
  ASSUME TypeOK, NEW t \in Threads,
         \/ Acquire(t) \/ Get(t) \/ Pop(t) \/ Super(t) \/ Put(t) \/ Link(t) \/ Clear(t)
         \/ Drop(t) \/ Done(t) \/ Exit(t)
  PROVE  UNCHANGED <<Blocks, owned, Requests>>
<1>1. live' = live /\ owned' = owned
  BY DEF Acquire, Get, Pop, Super, Put, Link, Clear, Drop, Done, Exit, history
<1>2. \E where : Goto(t, where) /\ (where \in MallocPlaces <=> place[t] \in MallocPlaces)
  BY DEF Acquire, Get, Pop, Super, Put, Link, Clear, Drop, Done, Exit, MallocPlaces
<1>3. Requests' = Requests
  BY <1>2, SameRequests
<1> QED BY <1>1, <1>3 DEF Blocks

LEMMA CachesStepRefines ==
  ASSUME CachesInv, [Next]_vars
  PROVE  [Contract!Next]_<<Blocks, owned, Requests>>
<1>1. ASSUME NEW t \in Threads, CallMalloc(t) \/ CallFree(t) \/ Exit(t) \/ Inside(t)
      PROVE  [Contract!Next]_<<Blocks, owned, Requests>>
  BY <1>1, CallMallocRefines, GiveRefines, CallFreeRefines, OthersStutter
     DEF Inside, Contract!Next, CachesInv
<1>2. ASSUME UNCHANGED vars
      PROVE  UNCHANGED <<Blocks, owned, Requests>>
  BY <1>2 DEF vars, history, Blocks, Requests
<1> QED BY <1>1, <1>2 DEF Next

(* Clients cannot tell the caches, in either front end, from a heap that   *)
(* gives every block to one of them at a time.                             *)
THEOREM CachesImplementContract == Spec => ImplementsContract
<1>1. Init => Contract!Init
  BY DEF Init, Contract!Init, MallocPlaces
<1>2. CachesInv /\ [Next]_vars => [Contract!Next]_<<Blocks, owned, Requests>>
  BY CachesStepRefines
<1> QED
  BY <1>1, <1>2, CachesInvariant, PTL
     DEF Spec, ImplementsContract, Contract!Spec, Blocks, Requests
=============================================================================
