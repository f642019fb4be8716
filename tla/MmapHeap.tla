------------------------------ MODULE MmapHeap ------------------------------
(***************************************************************************)
(* MmapHeap over SizedMmapHeap: the source heap at the bottom of every     *)
(* shipped stack.  Memory comes from mmap in whole pages, and a map from   *)
(* addresses to requested sizes lets free(ptr) find what to unmap.  The    *)
(* map is guarded by MyMapLock; mmap, and free(ptr, sz), run outside it,   *)
(* so the kernel may hand out an address again as soon as it is unmapped.  *)
(*                                                                         *)
(* Addresses are page numbers and sizes are bytes.  A block is a pair      *)
(* <<page, size>> of the size that was asked for.                          *)
(***************************************************************************)
EXTENDS Integers, FiniteSets

CONSTANTS
  Threads, NoThread,
  Pages,        \* the pages the kernel may map
  PageSize,     \* CPUInfo::PageSize
  Sizes,        \* the sizes clients ask for
  SizeRange,    \* one more than the largest size_t
  MaxObjects    \* bound: blocks with clients or on their way

NULL == 0
NoEntry == -1

ASSUME MmapHeapAssumption ==
  /\ NoThread \notin Threads
  /\ Pages \subseteq Nat \ {NULL}
  /\ PageSize \in Nat \ {0}
  /\ SizeRange \in Nat
  /\ Sizes \subseteq 1 .. SizeRange - 1
  /\ MaxObjects \in Nat

VARIABLES
  mapped,     \* the pages the kernel has mapped for this heap
  table,      \* MyMap, with NoEntry where it has no entry
  owner,      \* MyMapLock: the thread that holds it, or NoThread
  place,      \* where each thread is in malloc, free or getSize
  block,      \* the block each call is about: its argument or its result
  sz,         \* the variable sz of each call
  live,       \* history: the blocks clients own
  owned       \* history: how many, counted as they come and go

clientVars == <<live, owned>>
vars == <<mapped, table, owner, place, block, sz, clientVars>>

MyMapLock == INSTANCE Mutex

None == <<NULL, 0>>
Blocks == (Pages \union {NULL}) \X (Sizes \union {0})

MallocPlaces == {"mmap", "lock", "record", "give"}
FreePlaces == {"flock", "find", "unmap", "erase", "funlock"}
Places == MallocPlaces \union FreePlaces
          \union {"client", "sunmap", "glock", "look", "gunlock"}

Init ==
  /\ mapped = {}
  /\ table = [p \in Pages \union {NULL} |-> NoEntry]
  /\ MyMapLock!Init
  /\ place = [t \in Threads |-> "client"]
  /\ block = [t \in Threads |-> None]
  /\ sz = [t \in Threads |-> 0]
  /\ live = {} /\ owned = 0

Goto(t, from, to) == place[t] = from /\ place' = [place EXCEPT ![t] = to]

-----------------------------------------------------------------------------
(* The kernel.  It rounds a length up to whole pages.                      *)

PageCount(n) == (n + PageSize - 1) \div PageSize
PagesOf(p, n) == p .. p + PageCount(n) - 1

(* mmap returns pages that are free, or fails; a length of 0 is refused.   *)
MmapResults(len) ==
  {p \in Pages : len > 0 /\ PagesOf(p, len) \subseteq Pages \ mapped} \union {NULL}

(* munmap does not mind pages that are not mapped. *)
Munmap(p, len) == mapped' = mapped \ PagesOf(p, len)

-----------------------------------------------------------------------------
(* malloc(sz)                                                              *)

InUse == Cardinality(live) + Cardinality({t \in Threads : place[t] # "client"})

CallMalloc(t) ==
  /\ Goto(t, "client", "mmap") /\ InUse < MaxObjects
  /\ \E n \in Sizes : sz' = [sz EXCEPT ![t] = n]
  /\ UNCHANGED <<mapped, table, owner, block, clientVars>>

(* SizedMmapHeap::malloc rounds its own copy of sz up to a multiple of the *)
(* page size; the sum wraps round.                                         *)
RoundUp(n) == (((n + PageSize - 1) % SizeRange) \div PageSize) * PageSize

Mmap(t) ==
  /\ Goto(t, "mmap", "lock")
  /\ \E p \in MmapResults(RoundUp(sz[t])) :
       /\ block' = [block EXCEPT ![t] = <<p, sz[t]>>]
       /\ mapped' = mapped \union (IF p = NULL THEN {} ELSE PagesOf(p, RoundUp(sz[t])))
  /\ UNCHANGED <<table, owner, sz, clientVars>>

(* MyMapLock.lock(), at each of the three places that take it. *)
TakeLock(t) ==
  /\ \/ Goto(t, "lock", "record") \/ Goto(t, "flock", "find") \/ Goto(t, "glock", "look")
  /\ MyMapLock!Acquire(t)
  /\ UNCHANGED <<mapped, table, block, sz, clientVars>>

(* Seeded bug: the map keeps an old entry, as map::insert would. *)
RecordKeepsOld(t) ==
  /\ Goto(t, "record", "give")
  /\ LET p == block[t][1]
     IN  table' = [table EXCEPT ![p] = IF @ = NoEntry THEN sz[t] ELSE @]
  /\ UNCHANGED <<mapped, owner, block, sz, clientVars>>

(* Seeded bug: the map is given the rounded size. *)
RecordRounded(t) ==
  /\ Goto(t, "record", "give")
  /\ table' = [table EXCEPT ![block[t][1]] = RoundUp(sz[t])]
  /\ UNCHANGED <<mapped, owner, block, sz, clientVars>>

(* MyMap[ptr] = sz, for the null pointer of a failed mmap as well. *)
Record(t) ==
  /\ Goto(t, "record", "give")
  /\ table' = [table EXCEPT ![block[t][1]] = sz[t]]
  /\ UNCHANGED <<mapped, owner, block, sz, clientVars>>

(* unlock() and return ptr. *)
Give(t) ==
  /\ Goto(t, "give", "client")
  /\ MyMapLock!Release(t)
  /\ IF block[t][1] = NULL
       THEN UNCHANGED clientVars
       ELSE live' = live \union {block[t]} /\ owned' = owned + 1
  /\ block' = [block EXCEPT ![t] = None]
  /\ sz' = [sz EXCEPT ![t] = 0]
  /\ UNCHANGED <<mapped, table>>

-----------------------------------------------------------------------------
(* free(ptr).  The client owns the block, and is not asking for its size   *)
(* at the same time; nullptr is kept away by ANSIWrapper.                  *)
GiveUp(t, b) ==
  /\ b \in live /\ \A u \in Threads : block[u] # b
  /\ live' = live \ {b} /\ owned' = owned - 1
  /\ block' = [block EXCEPT ![t] = b]

CallFree(t) ==
  /\ Goto(t, "client", "flock")
  /\ \E b \in live : GiveUp(t, b)
  /\ UNCHANGED <<mapped, table, owner, sz>>

(* MyMap[ptr]: operator[] makes an entry of 0 where there is none. *)
Lookup(t) ==
  LET p == block[t][1]
      found == IF table[p] = NoEntry THEN 0 ELSE table[p]
  IN  /\ table' = [table EXCEPT ![p] = found]
      /\ sz' = [sz EXCEPT ![t] = found]

Find(t) ==
  /\ Goto(t, "find", "unmap")
  /\ Lookup(t)
  /\ UNCHANGED <<mapped, owner, block, clientVars>>

(* Seeded bug: the pages go back before the entry does, without the lock.  *)
UnmapUnlocks(t) ==
  /\ Goto(t, "unmap", "erase")
  /\ Munmap(block[t][1], sz[t])
  /\ MyMapLock!Release(t)
  /\ UNCHANGED <<table, block, sz, clientVars>>

(* Seeded bug: the pages are not given back. *)
UnmapForgotten(t) ==
  /\ Goto(t, "unmap", "erase")
  /\ UNCHANGED <<mapped, table, owner, block, sz, clientVars>>

Unmap(t) ==
  /\ Goto(t, "unmap", "erase")
  /\ Munmap(block[t][1], sz[t])
  /\ UNCHANGED <<table, owner, block, sz, clientVars>>

(* Seeded bug: erases until a lookup finds no entry; operator[] puts one   *)
(* back every time.                                                        *)
EraseUntilGone(t) ==
  /\ Goto(t, "erase", "find")
  /\ table' = [table EXCEPT ![block[t][1]] = NoEntry]
  /\ UNCHANGED <<mapped, owner, block, sz, clientVars>>

Erase(t) ==
  /\ Goto(t, "erase", "funlock")
  /\ table' = [table EXCEPT ![block[t][1]] = NoEntry]
  /\ UNCHANGED <<mapped, owner, block, sz, clientVars>>

(* unlock() at the end of free and getSize. *)
Return(t) ==
  /\ Goto(t, "funlock", "client") \/ Goto(t, "gunlock", "client")
  /\ MyMapLock!Release(t)
  /\ block' = [block EXCEPT ![t] = None]
  /\ sz' = [sz EXCEPT ![t] = 0]
  /\ UNCHANGED <<mapped, table, clientVars>>

-----------------------------------------------------------------------------
(* free(ptr, sz): unmaps what the caller says, and leaves the entry.  The  *)
(* callers (ZoneHeap) pass the size they asked for.                        *)
CallSizedFree(t) ==
  /\ Goto(t, "client", "sunmap")
  /\ \E b \in live : GiveUp(t, b) /\ sz' = [sz EXCEPT ![t] = b[2]]
  /\ UNCHANGED <<mapped, table, owner>>

SizedUnmap(t) ==
  /\ Goto(t, "sunmap", "client")
  /\ Munmap(block[t][1], sz[t])
  /\ block' = [block EXCEPT ![t] = None]
  /\ sz' = [sz EXCEPT ![t] = 0]
  /\ UNCHANGED <<table, owner, clientVars>>

(* getSize(ptr) of a block the caller owns. *)
CallGetSize(t) ==
  /\ Goto(t, "client", "glock")
  /\ \E b \in live : block' = [block EXCEPT ![t] = b]
  /\ UNCHANGED <<mapped, table, owner, sz, clientVars>>

Look(t) ==
  /\ Goto(t, "look", "gunlock")
  /\ Lookup(t)
  /\ UNCHANGED <<mapped, owner, block, clientVars>>

-----------------------------------------------------------------------------
Inside(t) ==
  \/ Mmap(t) \/ TakeLock(t) \/ Record(t) \/ Give(t)
  \/ Find(t) \/ Unmap(t) \/ Erase(t) \/ Return(t)
  \/ SizedUnmap(t) \/ Look(t)

Call(t) == CallMalloc(t) \/ CallFree(t) \/ CallSizedFree(t) \/ CallGetSize(t)

Next == \E t \in Threads : Call(t) \/ Inside(t)

(* A thread inside a call is run again and again.  Clients need not call. *)
Fairness == \A t \in Threads : WF_vars(Inside(t))

Spec == Init /\ [][Next]_vars
FairSpec == Spec /\ Fairness

-----------------------------------------------------------------------------
TypeOK ==
  /\ mapped \subseteq Pages
  /\ table \in [Pages \union {NULL} -> Sizes \union {0, NoEntry}]
  /\ owner \in Threads \union {NoThread}
  /\ place \in [Threads -> Places]
  /\ block \in [Threads -> Blocks]
  /\ sz \in [Threads -> Sizes \union {0}]
  /\ live \subseteq Blocks

(* The block only thread t knows of: mapped and not yet given out, or      *)
(* given back and not yet unmapped.                                        *)
InFlight(t) ==
  IF place[t] \in {"lock", "record", "give", "flock", "find", "unmap", "sunmap"}
     /\ block[t][1] # NULL
  THEN {block[t]} ELSE {}

Mine == live \union UNION {InFlight(t) : t \in Threads}

(* The map answers for every block a client owns, with the size it asked   *)
(* for, whatever has happened at that address before: sized frees leave    *)
(* their entry behind, and the kernel reuses addresses while a free(ptr)   *)
(* is still under way.                                                     *)
EntryIsTrue ==
  /\ \A b \in live : table[b[1]] = b[2]
  /\ \A t \in Threads : place[t] \in {"unmap", "gunlock"} => sz[t] = block[t][2]

(* The pages mapped are those of the blocks clients own or that are on     *)
(* their way, page for page: nothing leaks, and no client's page goes.     *)
PagesAccounted == mapped = UNION {PagesOf(b[1], b[2]) : b \in Mine}

(* The contract of a heap, in bytes. *)
Contract == INSTANCE HeapContract WITH
  live <- {<<b[1] * PageSize, b[2]>> : b \in live},
  owned <- owned,
  request <- [t \in Threads |-> IF place[t] \in MallocPlaces THEN sz[t] ELSE 0]
ImplementsContract == Contract!Spec

(* While threads are inside calls, some call comes to its last step:       *)
(* MyMapLock is always given back.                                         *)
SomeCallReturns ==
  (\E t \in Threads : place[t] # "client")
    ~> (\E t \in Threads : place[t] \in {"give", "funlock", "gunlock", "sunmap"})

-----------------------------------------------------------------------------
(* The inductive invariant.                                                *)

LockInv == \A t \in Threads :
  place[t] \in {"record", "give", "find", "unmap", "erase", "funlock", "look", "gunlock"}
    => owner = t

(* What each call knows of its block and of the map's entry for it.        *)
CallInv == \A t \in Threads :
  LET p == block[t][1]
      n == block[t][2]
  IN  /\ place[t] \in {"client", "mmap"} => p = NULL
      /\ place[t] = "mmap" => sz[t] # 0
      /\ place[t] \in {"lock", "record", "give", "unmap", "sunmap", "gunlock"} => sz[t] = n
      /\ place[t] \in {"lock", "record", "give"} => n # 0
      /\ place[t] \in {"flock", "find", "unmap", "sunmap"} => p # NULL /\ n # 0
      /\ place[t] \in {"give", "flock", "find"} => table[p] = n
      /\ place[t] \in {"glock", "look", "gunlock"} => block[t] \in live

(* Between munmap and erase the address may already be someone's again,    *)
(* but nobody has written the map's entry for it.                          *)
EraseInv == \A t \in Threads : place[t] = "erase" =>
  /\ \A b \in live : b[1] # block[t][1]
  /\ \A u \in Threads : place[u] = "flock" => block[u][1] # block[t][1]

Separate(b, c) == PagesOf(b[1], b[2]) \intersect PagesOf(c[1], c[2]) = {}

(* No page belongs to two blocks. *)
BlockInv ==
  /\ \A b \in live : b[1] # NULL /\ b[2] # 0 /\ table[b[1]] = b[2]
  /\ \A b, c \in live : b # c => Separate(b, c)
  /\ \A t \in Threads : \A b \in InFlight(t) :
       /\ \A c \in live : Separate(b, c)
       /\ \A u \in Threads \ {t} : \A c \in InFlight(u) : Separate(b, c)

MmapInv == TypeOK /\ LockInv /\ CallInv /\ EraseInv /\ BlockInv /\ PagesAccounted
=============================================================================
