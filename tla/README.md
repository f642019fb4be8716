# A TLA+ model of Heap Layers

Heap Layers is a C++ library of *layers*: class templates that each add one
thing to the heap they inherit from (a free list, a lock, a header, size
classes). An allocator is a composition of layers. The repository ships one,
`examples/kingsley/libkingsley.cpp`, uses a second one inside `MmapHeap`, and
offers layers for others: a coalescing allocator after Doug Lea's (`dlheap.h`),
heaps for each thread, and obstacks.

This directory models the layers of these compositions and the locks under
them, checks them with TLC on small instances, and proves the central
properties of the concurrent ones, of the shipped allocator, of the coalescing
one and of the obstack with TLAPS for all instances.

## 1. The system

| part | state | operations | what it touches | hard behaviour | what makes it correct |
|---|---|---|---|---|---|
| spin lock (`locks/spinlock.h`) | one atomic flag | lock, didLock, unlock | - | contenders exchange, load and yield in any order | one owner; the flag is up exactly while there is one; contention ends |
| POSIX lock (`locks/posixlock.h`) | a pthread mutex | lock, unlock | pthread | none of its own | one owner |
| recursive lock (`locks/recursivelock.h`, `threads/cpuinfo.h`) | owner's id, depth | lock, unlock | a base lock | the id is read without the lock | the unlocked test is right; the lock goes back at the outermost unlock; no abort |
| locked heap (`heaps/threads/lockedheap.h`) | a lock | malloc, free, getSize, memalign, lock, unlock | any heap below | fork handlers hold it from outside | nobody is inside while another holds it |
| free list heap (`freelistheap.h`, `freesllist.h`) | list head; links in freed blocks | malloc, free, clear | the heap below | links lie in memory clients write to | every freed block is on the list once |
| bump allocator (`special/bumpalloc.h`) | bump pointer, room left | malloc | the heap below | the end of a chunk, no memory | blocks lie in mapped chunks and are disjoint |
| mmap heap (`top/mmapheap.h`) | table of sizes, its lock; the kernel's mappings | malloc, free, sized free, getSize | kernel, a locked heap for the table's nodes | system calls and table updates are not one step | the table is right for every block; no page leaks |
| zone heap (`special/zoneheap.h`) | list of arenas, room left | malloc, clear | mmap heap | the end of an arena | objects lie in arenas and are disjoint |
| header heaps (`objectrep/sizeheap.h`, `headerheap.h`) | two words before each object | malloc, getSize | zone heap | no memory; pointers that are not its own | an object's header tells its size as long as it exists |
| dictionary heap (`adaptheap.h`, `dllist.h`) | list head; two links in freed objects | malloc, free, remove, clear | header heap | links lie in memory clients write to | a ring through exactly the free objects |
| strict segregated fits, Kingsley (`strictsegheap.h`, `kingsleyheap.h`) | one dictionary per size class | malloc, free, clear | dictionaries, a heap for big objects | class boundaries | an object goes back to the bin it came from |
| malloc replacement (`wrappers/wrapper.cpp`, `ansiwrapper.h`, `generic-memalign.cpp`) | none | malloc, calloc, free, memalign and its relatives, realloc, reallocarray, recalloc, strdup, operators new | Kingsley heap | shifted pointers, sizes compared in realloc, products that wrap | C's contract: size, alignment, disjointness, contents |
| segregated fits (`combining/segheap.h`) | bins, a bitmap of non-empty bins | malloc, free | bins, a heap for new memory | the bitmap is only a hint, and its bits may be shared | no free object that fits is overlooked |
| coalescing heap (`coalesceheap.h`, `coalesceableheap.h`, `slopheap.h`) | boundary tags in the headers | malloc with split, free with coalesce | segregated fits | tags of two neighbours change one by one; a header lies behind the last object | tags agree with the layout; every free object is in its bin |
| caches (`boundedfreelistheap.h`, `allocatedheap.h`) | list head, count, bytes allocated | malloc, free, clear | a shared heap (`uniqueheap.h`) | the count goes down inside an assert | the bound holds; no block is cached twice |
| per-thread heaps (`heaps/threads/`) | an array of heaps, or one per thread | malloc, free | thread ids, caches | a block freed by another thread; threads that share a heap; thread exit | a block goes to one client at a time, whoever freed it |
| obstack (`obstackheap.h`, `xallocheap.h`, `staticheap.h`) | chunks and positions; block sizes in the arena | malloc, grow, finalize, free, free all | arena | the end of a chunk, objects that move, no memory | objects form a stack and keep their contents |

Components call each other downwards only (a layer calls its superclass), the
kernel is at the bottom and client code, which may write anything into a block
it owns, on top. Shared state between threads is the fields of the layers; the
only synchronisation is `LockedHeap` and the lock inside `MmapHeap`.
`PROJECT.json` lists the remaining parts, and under "hazards" every place found
so far where something can go wrong that a test would hardly reach.

## 2. The modules

    Mutex            abstract lock; also the pthread mutex of PosixLockType
    SpinLock         implements Mutex
    RecursiveLock    extends SpinLock, implements Mutex
    HeapContract     abstract thread-safe heap: malloc and free of blocks
    LockedHeap       extends SpinLock; implements HeapContract
    MmapHeap         uses Mutex as its lock; implements HeapContract
    ThreadHeaps      caches over a heap as LockedHeap; implements HeapContract
    MallocContract   abstract C allocator: with realloc, alignment, contents
    Kingsley         implements MallocContract
    LeaHeap          implements MallocContract
    StackContract    abstract obstack
    Obstack          implements StackContract
    MC*              constants for TLC
    FreeLists        what a singly linked list is, for LockedHeap and ThreadHeaps
    Facts            lemmas that several proofs cite
    *_proofs         theorems: of the two locks, LockedHeap, MmapHeap,
                     ThreadHeaps, Kingsley, LeaHeap and Obstack

### SpinLock
`mutex` is the flag, `spin[t]` the place of thread t in the code, `count[t]`
the counter of the inner loop. `Exchange` is the atomic exchange that `lock`,
`didLock` and the head of `contendedLock`'s loop share. `SpinOnce` is one
evaluation of the inner loop's condition.

### RecursiveLock
`tid` and `depth` are the two ints of the class. They are not atomic, and
`tid` is read without the lock; `readable[t]` holds the values of `_tid` that
a read by thread t may give, namely its own last write and whatever others
wrote since. The thread's id is computed from its pthread handle as
`getThreadId` does it, and the assumption that no two ids collide is named in
`RecursiveLockAssumption`.

### LockedHeap
The stack `LockedHeap<Lock, FreelistHeap<BumpAlloc<...>>>` that `MmapHeap`
keeps for its table's nodes (with `PosixLockType` there; here with the spin
lock, so that the real lock's steps interleave with the heap's). `head`,
`next`, `bump` and `remaining` are the fields; `next[a]` is the first word of
the object at a, which is a link while the object is free and `Junk` once a
client wrote to it. `place[t]` follows the code statement by statement:

    malloc   CallMalloc, Get, Pop | (Refill), Carve, Give
    free     CallFree, Put, Link, Done
    lock     CallLock, (Clear, ClearGet, ClearPop)*, Done

`LockWait` is the time spent inside the spin lock.

### MmapHeap
`mapped` is the kernel's view in pages, `table` is `MyMap`, `owner` the lock.

    malloc       CallMalloc, Mmap, TakeLock, Record, Give
    free(p)      CallFree, TakeLock, Find, Unmap, Erase, Return
    free(p, n)   CallSizedFree, SizedUnmap
    getSize(p)   CallGetSize, TakeLock, Look, Return

`Mmap` may fail at any time, and the rounding of a size to pages wraps at
`SizeRange`. A client does not free a block while it asks for its size.
The nodes of the hash map are not modelled. `STLAllocator` builds a temporary
allocator object for bucket arrays, so each rehash takes a 64 KB chunk that is
never given back; that is the doing of the C++ library's node and bucket
allocation, and is neither modelled nor listed as a hazard.

### Kingsley
The whole shipped allocator for one thread, so one call is one step. Memory is
an array of 8-byte words, in which the arenas' free space, the headers of
`SizeHeap`, the links of `DLList` and the clients' data lie side by side; a
mistake in one shows up in another. Operators with a heap as argument return
the *outcomes* a layer may have (a pointer and the heap after): `Carve` is
`SizeHeap::malloc` over `ZoneHeap::malloc`, `Get` and `Insert` are the
list's, `Malloc` and `FreeObject` are `StrictSegHeap`'s with `ANSIWrapper`,
and `Memalign`, `Calloc`, `Moved` (realloc) are the wrapper's. `carved`,
`inside` and `live` are history: the objects cut from arenas, the pointers
memalign shifted into objects, and the clients' blocks with what was asked of
them and how many of their words hold known data.
The wrapper's functions are actions: `CallMalloc` (also operator new, which
throws where malloc returns NULL: `CallNew`), `CallCalloc`, `CallFree` (also
cfree, operator delete, free_sized), `CallMemalign`, `CallPosixMemalign`,
`CallAlignedAlloc`, `CallValloc`, `CallPvalloc`, `CallStrdup`, `CallRealloc`
(with size 0 it frees), `CallReallocarray` and `CallRecalloc`.
`Magic` differs from every size, link and word of data: that 0xCAFEBABE does
not turn up by chance in front of a pointer memalign shifted is an assumption of
the code, and a named one here. Size classes are the recursive function
`Class2Size`, for the code's shift of 64 bits, which 29 bins stay far below.
`CallNewAligned` passes its arguments to memalign in the wrong order, as the
code does, and `NewAligned` holds pairs for which that does no harm: equal
ones, or ones memalign refuses. `malloc(0)` behaves as `malloc(1)` does and is
no input of its own. Sums and products wrap at `2 * HalfRange`, as they do in
size_t: the product of recalloc, which is not tested (for the input that wraps
it is 0; for any other the block would be too small), memalign's
`size + 2 * alignment`, and the rounding of pvalloc. With an alignment of
`HalfRange` the sum is the size again and the pointer leaves its object; with a
size in the last page the rounding gives 0 and the block is tiny. What clients
then do to memory outside their object is not modelled, so the inputs of the
runs satisfy `NoWrap`, which says that neither happens, and the theorems have it
as a hypothesis (finding 16).
Assertions are taken as off, as in the shipped build, which defines NDEBUG:
`AdaptHeap`'s that an object is as large as a list entry (adaptheap.h:52) is
false for the shifted pointers that free puts into bin 0. Left out: getcwd,
calloc's guard for the dynamic linker, and functions that do nothing.

### LeaHeap
The allocator of `dlheap.h`, for one thread, call by call: `ANSIWrapper` over
`SelectMmapHeap`, which maps objects above a threshold one by one, over
`CoalesceHeap`, `SegHeap`, a `DLList` in each bin, and, for new memory,
`CoalesceableHeap`, `SlopHeap` and the zone. The full composition of the file
no longer compiles: it calls `clear` and `remove` of layers that have neither,
and `CoalesceHeap` calls `setPrevSize` of its dependent base unqualified
(coalesceheap.h:95). The module takes the layers without the first two, and
the call as the `super::setPrevSize` that is meant. Assertions are taken as
off: the one on the size of a header (coalesceableheap.h:171), at most that of
a double, is false of the header of 16 bytes. Memory is an array of granules of two
words, in which headers, links and data lie side by side, as in `Kingsley`. The
first word of a header packs two flags and the size of the object before; the
flag that an object is free stands in the header of the next. `SegMalloc` has
the search with `Bit(c)`, the bit as a 32-bit shift makes it, so bins may share
one. `regions` is history: where runs of adjacent objects begin. The kernel may
refuse memory at any time. After an arena it refused, the heap goes on without
an arena as the code does; after a single object it refused,
`MappedMalloc` writes the object's header through NULL (dlheap.h:56-58), and
the process is `dead`. `taken` is history: the last call was a realloc that
found no memory, and freed its client's block all the same (finding 7).
The contract holds but for such steps: `ImplementsContract` allows, beside the
steps of `MallocContract`, `ReallocTakes`, which takes that one block and nothing
else.
`LeaAssumption` types the constants and says what the code takes for granted:
classes grow, the class function gives one whose objects are large enough, the
largest class takes a whole arena, objects up to the threshold fit an arena,
and finding 8, about bins, and what finding 11 says of whole pages do not bite.

### ThreadHeaps
`front` chooses the front end, `ThreadHeap` (heap `Id[t] % NumHeaps`) or
`ThreadSpecificHeap` (a heap in the storage of each thread), `asserts` whether
the program has assertions. Below are `LockedHeap`, `AllocatedHeap`'s counter
and `BoundedFreeListHeap`; a call takes the heap's lock and goes through

    malloc   CallMalloc, Acquire, Get, Pop | Super, Give
    free     CallFree, Acquire, Put, Link | (Clear, Drop)*, Done

`Super` is a whole call to the heap all caches share, a `LockedHeap` of
which HeapContract is known to hold: its free objects are `pool`, new ones are
numbers. `CallMalloc` waits while fewer objects are left under the bound
`MaxObjects` than calls under way may take. `Exit` ends a thread; the
storage of a thread has no destructor. `cached` and `lost` are history.
Where the compiler lacks thread-local storage, `ThreadSpecificHeap` keeps its
heaps under pthread keys and runs destructors at exit; that is not modelled.

### Obstack
`ObstackHeap` over `XallocHeap` over a static array, in units of four bytes.
`arena` has the array with the size words (`Nuggie`) before each block and
the bit for a block in use in the word before the next; chunk headers, size
words and clients' data share the array. Memory taken back is set to 0
(`Forget`), which keeps the instance small; no operation reads it before it
writes it. The loops of the two frees are functions of the number of rounds
(`Rounds`: no more chunks have room in the array). After a call found no memory `currentChunk` is NULL, and what
the next call does (`Stop`, `Free`) depends on `asserts`; without assertions the
destructor (`Destroy`) then starts at no chunk, and frees none. The layout and
that behaviour were compared with a compiled instance of the same size.

Definitions marked *Seeded bug* are not part of any specification. Each is a
variant of the definition after it, used to show that a property notices.

## 3. What TLC checks

| run | instance | shows |
|---|---|---|
| `spin_lock` | 3 threads, MAX_SPIN 2 | the lock implements `Mutex`; the counter stays in range; while threads wait, one gets in (`SomeoneGetsIn`) |
| `recursive_lock` | 3 threads, depth 2 | no abort, exact depth, right unlocked test, implements `Mutex`, waiting ends |
| `locked_heap` | 2 threads, 2 chunks of 5 bytes, objects of 2 | list intact, nothing lost, blocks mapped, quiet for fork handlers, implements `HeapContract`, calls return |
| `mmap_heap` | 2 threads, 3 pages of 2 bytes, sizes 1, 3 and one that wraps | table right, pages accounted for, implements `HeapContract`, calls return |
| `kingsley` | 4 bins, 2 arenas of 11 words, of which one may be larger (up to 21), 3 blocks with clients | lists, headers, arenas and contents intact; reuse before growth; implements `MallocContract` |
| `lea_heap` | 6 bins of which 4 share 2 bits, arenas of 11 granules, pages of 7, at most 4 blocks, a kernel that may refuse memory | tags true, bins intact, ends of arenas respected, contents kept, bins before arenas; implements `MallocContract` but for realloc without memory |
| `thread_heaps` | 2 threads whose ids agree modulo 2 heaps, caches of 2, 3 objects, one thread may end; both front ends, with and without assertions | caches intact, counters add up, implements `HeapContract`, calls return |
| `obstack` | an arena for 3 chunks, sizes 0, 5 and 12, at most 4 objects, with and without assertions | chunks and blocks agree; implements `StackContract` |
| `bump_no_memory` | as `locked_heap`, mmap may fail | **violated**: after a failed refill the allocator hands out addresses near 0 |
| `kingsley_alignment` | as `kingsley`, with arenas of 13 words and 2 blocks; alignment of 2 words | **violated**: `memalign(16, n)` is 8 bytes off |
| `kingsley_no_memory` | as `kingsley_alignment`, but mmap may fail, and other alignments | **violated**: the header of a missing object is written at address 0 |
| `kingsley_realloc_aligned` | as `kingsley_alignment`, but memalign'd blocks may be realloc'd, and other alignments | **violated**: their contents are lost |

Why the bounds are enough. Two threads in the heaps already give every
order of two calls; three threads in the locks give two contenders beside an
owner. Chunks of 5 with objects of 2 make the end of a chunk inexact, adjacent
chunks would hide an overrun in a larger unit and are checked bytewise;
`MaxObjects` is one more than fits a chunk. `MaxDropped` bounds only the memory
`clear` throws away. In `mmap_heap` three pages let an address be mapped
again by another thread while a two-page block is on its way out. In
`kingsley`, requests of 1 and 3 words use two classes, calloc of 6 words the
largest class, memalign of 4 words a big object; an arena has exact room for
two small objects or one of the next class with less than a header left, and
the largest class and big objects need larger arenas, so all ways an arena may
end occur, and up to four objects exist. The size 64 has the top bit of
`size_t` in the model and makes calloc's product wrap; arrays add a product that does not. A page is as
large as the largest alignment, and a string has one word.
In `lea_heap`, an arena holds three or four objects, so that an object may be
split, and merged with either neighbour or both; a second arena may start where
the first run ends or apart from it, there is no place for a third, and the
kernel may refuse any. One size has a class one too high, where the code's
function gives, for a range of sizes, one that is six too high. One
request is mapped by itself, one has the top bit. The data of clients is a
word that, read as a header, would be that of an object behind a free one.
In `thread_heaps` two threads share one heap under `ThreadHeap` and have one each
under the other front end; three objects fill a cache of two and make it
overflow. In `obstack`, size 5 leaves an odd rest, size 12 needs a chunk larger
than usual, size 0 may lie on the limit of a chunk, and growing twice moves
an object with another below it. `MaxEnd` bounds how far failed calls
move the end of the array.

Three runs do not check deadlock. In `thread_heaps` the objects that overflow a
cache, and the caches of ended threads, are lost until none are left to cut
under the bound; that calls never block each other is `SomeCallReturns`. In
`obstack` the program stops after memory ran out, and the heap may be
destroyed. In `lea_heap` a refused mapping kills the process.

Fairness. A thread inside a lock's or heap's code is scheduled again
(`WF` of its steps) and a client that holds a lock releases it. Weak fairness
is what an operating system gives; the locks are not fair to single threads,
so all liveness properties say that *some* thread gets on. Clients need not
call anything. In `ThreadHeaps` the lock is one step that is weakly fair: a
thread inside a call runs again (`WF` of `Inside(t)`). The single-threaded
`Kingsley`, `LeaHeap` and `Obstack` have no liveness property: each call ends
by construction of its loops.

## 4. What is proved

All theorems hold for every number of threads and every value of the other
constants that the named assumptions allow.

* `RecursiveLock_proofs`, the spin lock: `LockInv` (types, one holder, flag up exactly while
  held) is inductive: an exchange succeeds only on a flag that is down, which
  excludes a holder. The refinement maps the owner to the holder.
* `RecursiveLock_proofs`, the recursive lock: `RecInv` adds, for the holder, what it finds in
  `_tid` and `_recursiveDepth` at each place of the code (`PlacesOfHolder`,
  `TidOfHolder`, `DepthOfHolder`), and that no one else can read its own id. The
  last is what makes the racing read harmless: others write their own ids or
  -1, and each thread withdrew its own before it released the lock.
  Assumption: thread ids are distinct.
* `LockedHeap_proofs`: `HeapInv` says which object each thread has in its
  hands, that free objects form a list, that list, clients and threads share
  nothing and hold every object cut, and where objects lie. From it follow
  `BlocksAreMapped`, `QuietWhileLocked` and the refinement of `HeapContract`.
  With `CountInv` (there are finitely many objects, and `owned` counts those of
  clients) follow `NothingLost` and `ListIsIntact`; see *Lists* below.
  Assumption: the kernel does not run out of memory; without
  it the statements are false, which is the run `bump_no_memory`.
* `MmapHeap_proofs`: `MmapInv` needs one non-obvious part, `EraseInv`: between
  munmap and erase the address may be mapped again by another thread, but that
  thread cannot have recorded it, because recording takes the lock. From it
  follow `EntryIsTrue`, `PagesAccounted` and the refinement, failures of mmap
  included.
* `ThreadHeaps_proofs`: `CachesInv` says which object each thread has in its
  hands and which thread has which lock (`PlaceInv`), that each cache is a list
  (`ListInv`), that no cache has more objects than it counts, with room for the
  one that is just being dropped (`CountInv`), that the guard of `CallMalloc`
  keeps an object for every call under way (`RoomInv`), and that clients,
  hands, caches, pool and the lost objects share nothing and hold everything
  cut (`OwnerInv`, `CutInv`). From it follow the bound on caches, that
  every object is in one place, and the refinement of `HeapContract`, for both
  front ends. With assertions a count is also exact (`ExactInv`), from which
  follows `CachesAreIntact`. `StatsAddUp` is inductive beside `CachesInv`: the
  sum over the heaps changes by what the one counter does, which is induction
  over the set of heaps. Assumptions: the ids of threads are distinct, which is
  what makes the storage of a thread its own; and threads are finitely many. The
  shared heap is taken to keep its contract, which `HeapImplementsContract`
  proves of `LockedHeap`.
* `Kingsley_proofs`: `KingsleyInv` is stated not of the variables but of any
  heap, objects, shifted pointers and blocks (`AllGood`), because one call of
  the wrapper is up to three calls of the layers below, with a free between two
  mallocs, and each keeps it. Its parts: arenas lie side by side and hold
  what is left of the current one (`ArenasInv`); objects have the size of a
  class and lie in arenas side by side, outside that (`ObjectsInv`); headers are
  as written, and no other word looks like one (`HeadersInv`); an object has
  one user, a block at its start or one pointer that memalign moved into it
  (`UsersInv`); each bin is a ring of the right objects (`RingsInv`); a block
  fits its object and holds what was written (`BlocksInv`). The second half of
  `HeadersInv` is what is easily missed: realloc and free tell a shifted pointer by
  the absence of a header, and with a false one the pointer would go into a bin
  of real objects. The layers become lemmas from the bottom up: `CarveGood` (the
  zone and the header), `GetGood` and `FreeGood` (bins), `MallocServed`,
  `MemalignServed` (its first try goes back, then the larger object fits), `WriteGood`
  (anything written inside one block of a client), `MovedGood` (realloc's
  three cases), and one lemma per call of the client. From the invariant
  follow `TypeOK`, `ListsAreIntact`, `ArenasHoldObjects`, `BlocksInObjects`,
  `ContentsKept` and `ReuseFirst`, whether mmap fails or not.
  Hypotheses: `~ReallocAligned`, without which `ContentsKept` is false, as the run
  `kingsley_realloc_aligned` shows, and `NoWrap`, without which
  `BlocksInObjects` is false (finding 16). `NoWrap` is where the sum in memalign is
  shown not to wrap (`SumDoesNotWrap`, for a size below the top bit; larger ones
  fail before) and pvalloc's rounding (`PagesDoNotWrap`).
  The refinement of `MallocContract` needs `Regular` beside that, which names
  what the findings below are about: no alignment of two words (`kingsley_alignment`), the
  aligned new only with equal arguments or ones memalign refuses, and recalloc
  with products that do not wrap, or wrap to 0. The constants of `MCKingsley.cfg`
  satisfy all three.

* `LeaHeap_proofs`: the state has no variable that says where the objects are;
  the tags in memory do, and they are what must be shown right. `LeaInv`
  therefore says that there *is* a way to divide memory: runs S, objects O in
  them, of which B are in bins, and objects X mapped one by one, each a pair of
  the header it starts at and the header behind it. Its parts: objects of a run adjoin
  and nothing overlaps (`Layout`); mappings are apart and each is that of a run
  or of a mapped object, with the granule before and the one behind it that the layers
  write (`MapsInv`); slop and zone continue the last run (`SlopInv`, `ArenaInv`);
  headers say what the objects are (`Tags`, `RunTags`, `MappedTags`); each
  bin is a ring of its objects (`Rings`); a bin with a bit of its own and an object
  has that bit set (`BitsInv`); a block of a client is exactly one object
  that is in no bin and holds what was written (`BlocksInv`).
  In the middle of a call the objects that their successors call free are
  not those in bins, so `Good` has a set M of its own for them, and `Steady`
  says which they are between calls: those in bins, but for the first of a run,
  which `CoalesceFree` never marks (finding 9).
  Each layer becomes a lemma on one step of `Good`: `JoinGood` and `CutGood`
  (two objects become one, one becomes two), `RemoveGood` and `BinGood` (lists),
  `GrowGood` (a run is begun or continued), `MappedMallocIs` and `MunmapGood`,
  `BodyStep` (a client writes between headers). `LookIsBin` shows by
  arithmetic on bits that what `Looks` takes for a bin is one. From the invariant
  follow `TagsAreTrue`, `BinsAreIntact`, `EndIsOurs`, `ContentsKept`, `BinsFirst`
  and the refinement of `MallocContract`, without a hypothesis other than
  `LeaAssumption`: for every client and a kernel that may refuse memory at any
  time, until a refused mapping kills the process. The refinement is that of
  `ImplementsContract`, which allows a realloc that fails to free its block. That the headers the properties find by walking are those of O
  is induction over the distance to the end of the run (`WalkIs`).
* `Obstack_proofs`: both heaps keep their records between the clients' words,
  so the invariant, again, says that there *is* a set of chunks that explains
  memory (`Stack`): from the start of the array to its end each chunk begins
  after the one before, with that one's size in the word before it, the bit for
  in use, and a link to it. On the chunks lie the objects (`Sound`): each in one
  chunk, above those before it, full of what was written. `ObstackInv` adds the
  positions: an object that grows is the last one, from `currentBase` to `nextPos`.
  Every write is shown to be either to words for objects, which leaves the
  chunks alone (`StackFrame`), or to a new chunk above (`MakeChunkFits`). Going
  back is induction over the rounds of two loops: `FreeTop` (the arena's loop goes
  over one block only, since the one below is in use) and `FreeChunksFacts` (the
  obstack's stops at the chunk of the object, `FreeChunksTo`, or at none). A
  zero-sized object at the limit of a chunk is what makes the last of them
  delicate: the next chunk begins two words later. Copying a growing object to a new
  chunk is `SoundCopy`. From the invariant follow `ChunksAreStacked` (the chunks that
  it finds by the links are all there are, `ChunksFromTop`) and the refinement of
  `StackContract`, whether memory runs out or not, without a hypothesis other
  than `ObstackAssumption`. A destroyed heap leaves the array empty, unless
  memory had run out; then its destructor frees nothing.

*Lists.* What the runs check of a list is a walk: follow the links as often
as there are objects. What is inductive is another statement (`IsList` of
`FreeLists`, `IsRing` of `Kingsley_proofs`): links stay in the set, no two lead to
the same object, and no part of the set is closed under them. Insertion
and removal at the head keep that, by arguments about sets only. That the
walk then visits every object once and ends is proved once in `Facts`
(`WalkVisits`). It needs induction over the length of the walk and
over finite sets. The library's induction theorems take an operator as an argument and
cannot be cited, so `Facts` proves instances for sets (`SetInduction`: a set of
numbers with 0 and all successors is Nat), from the fact that a function
defined by recursion exists; `Class2Size` and sums over heaps are treated alike.

Only model-checked: liveness, which is out of the prover's reach
(`SomeoneGetsIn`, and that waiting and calls end in the runs of the locks and of
the concurrent heaps). Every invariant, action property and refinement the passing runs
check is also a theorem, under the hypotheses named above, which the constants
of those runs satisfy.

## 5. Disagreements between code and comments

1. `BumpAlloc::refill` (bumpalloc.h:88-95) does not test the result of malloc.
2. `generic_xxmemalign` relies on a default alignment the shipped heap does
   not have: the arena header has 24 bytes (zoneheap.h:125), and the
   static_assert against this (128) is in a constructor nobody calls.
3. `HeaderHeap::malloc` (headerheap.h:44) adds to a null pointer, so the shipped
   allocator dies where its callers are prepared for NULL.
4. A block shifted by memalign has no header: its usable size is 0, realloc
   loses its contents, and free loses its memory. generic-memalign.cpp:7
   states the limitation, libkingsley.cpp does not respect it.
5. `strictsegheap.h:34` says malloc returns NULL when the bin is empty; it
   goes to the big heap (line 99). The model follows the code.

6. The aligned operators new (wrapper.cpp:527-536) call
   `CUSTOM_MEMALIGN(n, al)`; memalign takes the alignment first.
7. `ANSIWrapper::realloc` (ansiwrapper.h:115) frees the old block even if there
   is no new one, and its calloc does not test the product. C keeps the block,
   and the class "Implements all prescribed ANSI behavior" (ansiwrapper.h:22).
   `LeaHeap` frees the block. Such a step is not taken for a free that the
   client asked for: `ImplementsContract` tells the two apart by `taken`, allows
   this one by name (`ReallocTakes`), and fails without that.
8. `SegHeap` makes bits of its map with a 32-bit shift (segheap.h:207), which is
   undefined from 32 on; x86 takes the count modulo 32, so bins 32 apart share
   a bit, and so has the model. An object in a bin may then be looked for in vain, which
   the search survives, unless the number of bins modulo 64 is in 33..63: a
   search in the last block may then run past the last bin. With such counts the
   comment at line 140, that no bin had free memory, is wrong as well.
   `LeaAssumption` excludes them.
9. `CoalesceHeap::free` (coalesceheap.h:56) finds no predecessor of the first
   object of a run, and returns before it merges it or marks it free, so it
   never takes part in coalescing as long as it is whole.
10. `DLBigHeapNS::getSizeClass` (dlheap.h:302) is six classes too high from
    2113 to 10752 bytes, so some free objects that fit are overlooked.
11. `CoalesceableMmapHeap::malloc` (dlheap.h:56) does not test for NULL, which
    kills the process when the kernel refuses, and is modelled so. It also
    writes the header behind the object past the mapping if the size and one
    header fill whole pages exactly; `LeaAssumption` excludes such requests.
12. `BoundedFreeListHeap::free` frees the object that overflows the list
    nowhere; without assertions its count stays up after clear
    (boundedfreelistheap.h:51) and nothing is ever cached again.
13. `PHOThreadHeap`'s comment (phothreadheap.h:62) says free returns memory to
    its originating heap; without MULTIPLE_HEAP_SUPPORT getHeap is always 0.
14. After `ObstackHeap` ran out of memory `currentChunk` is NULL, and free
    aborts for objects that are still in their chunks, where the comment
    (obstackheap.h:133-134) takes them for pointers that "wasn't in any chunk".
15. `XallocHeap::malloc` leaves `end_of_array` up when it fails
    (xallocheap.h:43-48), so that later calls that would fit fail too; for sizes
    that are not multiples of 8 the end may pass the arena by 8 bytes. Sizes near
    the top of size_t wrap in `ObstackHeap`; such requests are not inputs here.
16. `generic_xxmemalign` (generic-memalign.cpp:43) asks for size + 2 * alignment,
    which for alignment 2^63 is size again, and returns a pointer outside the
    object; `CUSTOM_PVALLOC` (wrapper.cpp:578) rounds sizes in the last page to 0
    and returns a tiny block. The model computes the same; `NoWrap` excludes such
    arguments from the runs and theorems.

Where a disagreement has no run of its own, the model follows the code, or
excludes the input and says so.

## 6. Not modelled, and the plan

Not modelled because there is nothing to check: pass-through layers, most
debugging layers, wrappers of other allocators, interposition code and other
platforms (they redirect symbols and system calls), containers and timers, the
legacy region code, which includes headers that are gone.
Not modelled because it is undefined: two threads inside `libkingsley`, whose
lock functions are empty.
Not modelled because nothing modelled calls it: `clear` of the zone, of
`StrictSegHeap`, `SegHeap` and `SlopHeap`; the reference count of `UniqueHeap`,
which changes in constructors and destructors only; the size class tables of
`bins*.h`. These are the larger part of the source files by line
count: most headers of the library are single layers of a few lines for
compositions the repository does not contain, or platform code.

Next, in this order:

1. `UniqueHeap`'s count with `ThreadSpecificHeap` over pthread keys, where
   destructors at thread exit do change it, without a lock; `ZoneHeap::clear`,
   which the last reference calls.
2. `PHOThreadHeap` with MULTIPLE_HEAP_SUPPORT, over `LeaHeap`'s headers.
