------------------------------ MODULE Kingsley ------------------------------
(***************************************************************************)
(* The shipped allocator of examples/kingsley/libkingsley.cpp, whole:      *)
(*                                                                         *)
(*   the C and C++ allocation functions of wrappers/wrapper.cpp,           *)
(*   over ANSIWrapper< KingsleyHeap = StrictSegHeap<                       *)
(*     AdaptHeap<DLList, TopHeap>, TopHeap> >                              *)
(*   TopHeap = SizeHeap< UniqueHeap< ZoneHeap< MmapHeap > > >              *)
(*                                                                         *)
(* It takes no lock, so one thread calls it and a call is one step.        *)
(* Memory is an array of words of eight bytes, and sizes are in words: the *)
(* headers SizeHeap puts before objects and the links DLList puts into     *)
(* freed ones lie in it beside what clients write.                         *)
(***************************************************************************)
EXTENDS Integers, FiniteSets

CONSTANTS
  NumBins,        \* 29 in the code
  ChunkSize,      \* of ZoneHeap
  ArenaAddrs,     \* addresses at which the kernel may map an arena
  MemTop,         \* the last word of memory
  HalfRange,      \* half the range of size_t: its top bit
  Requests,       \* the sizes clients ask for
  Alignments,     \* the alignments clients ask memalign for
  ElemSize,       \* the size of elements for calloc and recalloc
  PageSize,       \* CPUInfo::PageSize
  Arrays,         \* counts and sizes clients ask reallocarray for
  Strings,        \* lengths of the strings clients copy
  NewAligned,     \* sizes and alignments clients ask the aligned new for
  Data,           \* what clients write
  Magic,          \* MAGIC_NUMBER
  MmapMayFail,    \* whether mmap may return MAP_FAILED
  ReallocAligned, \* whether clients realloc what memalign returned
  MaxObjects      \* bound: blocks with clients

NULL == 0
Word == 1 .. MemTop
SizeT == 0 .. 2 * HalfRange - 1

(* User memory lies in the lower half of the address space.  Only a header *)
(* holds the magic number: no size, link or word of a client happens to be *)
(* it.                                                                     *)
ASSUME KingsleyAssumption ==
  /\ NumBins \in Nat \ {0, 1} /\ ChunkSize \in Nat \ {0}
  /\ MemTop \in Nat /\ ArenaAddrs \subseteq Word /\ MemTop < HalfRange
  /\ HalfRange \in Nat \ {0} /\ ElemSize \in SizeT /\ PageSize \in Nat \ {0}
  /\ Arrays \subseteq SizeT \X SizeT /\ NewAligned \subseteq SizeT \X SizeT
  /\ Magic \notin Int /\ Magic \notin Data
  /\ Requests \subseteq SizeT /\ Alignments \subseteq SizeT /\ Strings \subseteq SizeT
  /\ MmapMayFail \in BOOLEAN /\ ReallocAligned \in BOOLEAN
  /\ MaxObjects \in Nat

VARIABLES
  heap,    \* memory and ZoneHeap's fields: the current arena, where its free
           \* space starts and how much is left, and all arenas
  dead,    \* the process was killed by a write at address 0
  live,    \* history: the blocks clients own, records of MallocContract
  carved,  \* history: the objects cut from arenas, as <<address, size>>
  inside   \* history: the pointers memalign returned that point into objects

vars == <<heap, dead, live, carved, inside>>

Bins == 0 .. NumBins - 1

(* A list entry is two words, prev and next.  The head of the list of each *)
(* bin has an address of its own, outside the memory clients see.          *)
Head(c) == -2 * (c + 1)
Heads == {Head(c) : c \in Bins}
NextOf(e) == e + 1

Address == Word \union Heads \union {NextOf(h) : h \in Heads}

Init ==
  /\ heap = [mem |-> [a \in Address |->
                        IF a \in Word THEN 0 ELSE IF a \in Heads THEN a ELSE a - 1],
             arenas |-> {}, arena |-> NULL, space |-> NULL, left |-> 0]
  /\ dead = FALSE
  /\ live = {} /\ carved = {} /\ inside = {}

-----------------------------------------------------------------------------
(* Size classes: powers of two.                                            *)

Class2Size[c \in Nat] == IF c = 0 THEN 1 ELSE 2 * Class2Size[c - 1]
MaxObjectSize == Class2Size[NumBins - 1]

(* The ceiling of the logarithm; sizes below a word count as one. *)
Size2Class(n) ==
  CHOOSE c \in 0 .. n : Class2Size[c] >= n /\ \A d \in 0 .. c - 1 : Class2Size[d] < n

AlignUp(a, n) == ((n + a - 1) \div a) * a

(* At least sixteen bytes, and a multiple of them. *)
AnsiSize(n) == AlignUp(2, IF n < 2 THEN 2 ELSE n)

-----------------------------------------------------------------------------
(* ZoneHeap, UniqueHeap (one zone for all bins) and SizeHeap.  What a call *)
(* may do to heap h is a set of outcomes: the pointer and the heap after.  *)

Outcome(p, h) == [ptr |-> p, heap |-> h]
Crash == -1

ArenaHeader == 3     \* sizeof(Arena): two pointers and a size
SizeHeader == 2      \* sizeof(SizeHeapHeader)
MemAlign == 2        \* MallocInfo::Alignment

MmapResults(h, n) ==
  {a \in ArenaAddrs :
     /\ a + n - 1 <= MemTop
     /\ \A m \in h.arenas : a + n <= m[1] \/ m[1] + m[2] <= a}
  \union (IF MmapMayFail THEN {NULL} ELSE {})

(* Seeded bug: the room the arena's own header takes is not asked for. *)
NewArenaShort(h, n) ==
  LET size == IF ChunkSize < n THEN n ELSE ChunkSize
  IN  {IF a = NULL THEN [h EXCEPT !.arena = NULL]
       ELSE [h EXCEPT !.arenas = @ \union {<<a, size>>},
                      !.arena = a, !.space = a + ArenaHeader, !.left = size] :
         a \in MmapResults(h, size)}

(* A new arena becomes the current one.  The old one is only remembered.   *)
NewArena(h, n) ==
  LET size == IF ChunkSize < n THEN n ELSE ChunkSize
  IN  {IF a = NULL THEN [h EXCEPT !.arena = NULL]
       ELSE [h EXCEPT !.arenas = @ \union {<<a, size + ArenaHeader>>},
                      !.arena = a, !.space = a + ArenaHeader, !.left = size] :
         a \in MmapResults(h, size + ArenaHeader)}

(* Seeded bug: the object's header is not counted. *)
HasRoomLoose(h, n) == h.arena # NULL /\ h.left + SizeHeader >= n

HasRoom(h, n) == h.arena # NULL /\ h.left >= n

(* SizeHeap::malloc over zoneMalloc: an object of n words behind its       *)
(* header.  Where the kernel gave nothing, HeaderHeap still steps over the *)
(* header and SizeHeap writes it at address 0.                             *)
Carve(h, n) ==
  LET need == AlignUp(MemAlign, n + SizeHeader)
      Cut(z) == Outcome(z.space + SizeHeader,
                        [z EXCEPT !.mem[z.space] = n, !.mem[z.space + 1] = Magic,
                                  !.space = @ + need, !.left = @ - need])
  IN  {IF z.arena = NULL THEN Outcome(Crash, z) ELSE Cut(z) :
         z \in IF HasRoom(h, need) THEN {h} ELSE NewArena(h, need)}

(* The magic word tells SizeHeap's own objects. *)
GetSize(h, p) == IF h.mem[p - 1] = Magic THEN h.mem[p - 2] ELSE 0

-----------------------------------------------------------------------------
(* AdaptHeap over DLList.                                                  *)

First(h, c) == h.mem[NextOf(Head(c))]
IsEmpty(h, c) == First(h, c) = Head(c)

(* DLList::get: the first entry goes. *)
Get(h, c) ==
  LET next == h.mem[NextOf(First(h, c))]
  IN  Outcome(First(h, c), [h EXCEPT !.mem[NextOf(Head(c))] = next, !.mem[next] = Head(c)])

(* Seeded bug: the old first entry's prev is left as it was. *)
InsertOneWay(h, c, p) ==
  [h EXCEPT !.mem[p] = Head(c), !.mem[NextOf(p)] = First(h, c), !.mem[NextOf(Head(c))] = p]

(* DLList::insert, between the head and the first entry. *)
Insert(h, c, p) ==
  [h EXCEPT !.mem[p] = Head(c), !.mem[NextOf(p)] = First(h, c),
            !.mem[NextOf(Head(c))] = p, !.mem[First(h, c)] = p]

-----------------------------------------------------------------------------
(* StrictSegHeap and ANSIWrapper.                                          *)

(* Seeded bug: the bin is never tried. *)
MallocFresh(h, n) ==
  IF n >= HalfRange THEN {Outcome(NULL, h)} ELSE Carve(h, Class2Size[Size2Class(AnsiSize(n))])

(* Sizes with the top bit are refused.  An object of the class comes from  *)
(* its bin if the bin has one, and from the big heap otherwise.            *)
Malloc(h, n) ==
  LET c == Size2Class(AnsiSize(n))
  IN  CASE n >= HalfRange -> {Outcome(NULL, h)}
        [] n < HalfRange /\ c \in Bins /\ ~IsEmpty(h, c) -> {Get(h, c)}
        [] OTHER -> Carve(h, Class2Size[c])

(* Seeded bug: the search for a bin starts one class too high. *)
FreeBinRoundedUp(n) == IF n > 0 /\ n < MaxObjectSize THEN Size2Class(n) + 1 ELSE Size2Class(n)

(* Where free puts an object of n words: the class of n, or below it one   *)
(* whose objects are no larger.                                            *)
FreeBin(n) ==
  CHOOSE c \in 0 .. Size2Class(n) :
    /\ c = 0 \/ Class2Size[c] <= n
    /\ \A d \in c + 1 .. Size2Class(n) : Class2Size[d] > n

(* Big objects go back to the zone, which ignores them, and so do objects  *)
(* that are larger than those of their bin.  An unknown pointer has size 0 *)
(* and goes to the first bin: AdaptHeap's assertion that an entry fits it  *)
(* is not compiled in.                                                     *)
FreeObject(h, p) ==
  LET n == GetSize(h, p)
  IN  IF n > MaxObjectSize \/ Class2Size[FreeBin(n)] < n THEN h ELSE Insert(h, FreeBin(n), p)

-----------------------------------------------------------------------------
(* The client's calls.                                                     *)

IsPowerOf2(a) == \E c \in 0 .. a : Class2Size[c] = a

(* Seeded bug: the object to align in is only as large as the request. *)
MemalignTight(h, a, n) ==
  UNION {IF try.ptr \in {NULL, Crash} \/ try.ptr % a = 0 THEN {try}
         ELSE {[out EXCEPT !.ptr = IF @ \in {NULL, Crash} THEN @ ELSE AlignUp(a, @)] :
                 out \in Malloc(FreeObject(try.heap, try.ptr), n)} :
           try \in Malloc(h, n)}

(* generic_xxmemalign.  An object that is not aligned by chance is given   *)
(* back, and the block lies somewhere inside a larger one.  Its size is a  *)
(* sum that wraps: for an alignment of HalfRange it is n again, and the    *)
(* block lies outside the object, and outside of memory.                   *)
Memalign(h, a, n) ==
  CASE ~IsPowerOf2(a) -> {Outcome(NULL, h)}
    [] IsPowerOf2(a) /\ a <= MemAlign -> Malloc(h, n)
    [] OTHER ->
         UNION {IF try.ptr \in {NULL, Crash} \/ try.ptr % a = 0 THEN {try}
                ELSE {[out EXCEPT !.ptr = IF @ \in {NULL, Crash} THEN @ ELSE AlignUp(a, @)] :
                        out \in Malloc(FreeObject(try.heap, try.ptr), (n + 2 * a) % (2 * HalfRange))} :
                  try \in Malloc(h, n)}

(* The objects that are in heap k and not yet in h. *)
NewObjects(h, k) ==
  {<<p, k.mem[p - 2]>> : p \in {q \in Word : q > 2 /\ k.mem[q - 1] = Magic /\ h.mem[q - 1] # Magic}}

(* A call comes back with this outcome. *)
Return(out) ==
  /\ heap' = out.heap
  /\ dead' = (out.ptr = Crash)
  /\ carved' = carved \union NewObjects(heap, out.heap)

(* The client's block at p, of which the first kept words hold x. *)
NewBlock(out, a, n, x, kept) ==
  LET n0 == GetSize(out.heap, out.ptr)
  IN  [addr |-> out.ptr, align |-> a, asked |-> n, size |-> IF n0 = 0 THEN n ELSE n0,
       data |-> x, kept |-> kept]

Deliver(out, a, n, x, kept) ==
  live' = IF out.ptr \in {NULL, Crash} THEN live ELSE live \union {NewBlock(out, a, n, x, kept)}

Room == ~dead /\ Cardinality(live) < MaxObjects

CallMalloc(n) ==
  /\ Room
  /\ \E out \in Malloc(heap, n) : Return(out) /\ Deliver(out, 1, n, 0, 0)
  /\ UNCHANGED inside

(* n words from p on are filled with x. *)
Fill(out, n, x) ==
  [out EXCEPT !.heap.mem = [a \in Address |-> IF a \in out.ptr .. out.ptr + n - 1 THEN x ELSE @[a]]]

(* The product wraps; if it did there is no block. *)
Calloc(h, count, size) ==
  LET n == (count * size) % (2 * HalfRange)
  IN  IF size # 0 /\ count # n \div size THEN {Outcome(NULL, h)}
      ELSE {IF out.ptr \in {NULL, Crash} THEN out ELSE Fill(out, n, 0) : out \in Malloc(h, n)}

CallCalloc(count, size) ==
  /\ Room
  /\ \E out \in Calloc(heap, count, size) :
       Return(out) /\ Deliver(out, 1, count * size, 0, count * size)
  /\ UNCHANGED inside

(* memalign(a, n), for a client that wants size words at a multiple of     *)
(* align.                                                                  *)
Aligned(a, n, align, size) ==
  /\ Room
  /\ \E out \in Memalign(heap, a, n) :
       /\ Return(out) /\ Deliver(out, align, size, 0, 0)
       /\ inside' = IF out.ptr \in {NULL, Crash} \/ GetSize(out.heap, out.ptr) # 0
                    THEN inside ELSE inside \union {out.ptr}

CallMemalign(a, n) == Aligned(a, n, a, n)

(* EINVAL otherwise; every alignment here is a multiple of a word. *)
CallPosixMemalign(a, n) == a # 0 /\ IsPowerOf2(a) /\ Aligned(a, n, a, n)

CallAlignedAlloc(a, n) == a # 0 /\ n % a = 0 /\ Aligned(a, n, a, n)

CallValloc(n) == Aligned(PageSize, n, PageSize, n)

(* Rounded up to whole pages, a size in the last page wraps to 0. *)
CallPvalloc(n) == Aligned(PageSize, AlignUp(PageSize, n) % (2 * HalfRange), PageSize, n)

(* operator new(n, al) gives memalign its arguments in the other order. *)
CallNewAligned(n, al) == Aligned(n, al, al, n)

(* operator new, which throws where malloc would return NULL. *)
CallNew(n) == CallMalloc(n)

(* strdup and strndup of a string of n words with its end. *)
CallStrdup(n, x) ==
  /\ Room
  /\ \E out \in Malloc(heap, n) :
       LET end == IF out.ptr \in {NULL, Crash} THEN out ELSE Fill(out, n, x)
       IN  Return(end) /\ Deliver(end, 1, n, x, n)
  /\ UNCHANGED inside

CallFree(b) ==
  /\ ~dead
  /\ heap' = FreeObject(heap, b.addr)
  /\ live' = live \ {b}
  /\ UNCHANGED <<dead, carved, inside>>

(* Seeded bug: the size compared and copied is what the client asked. *)
CopiedAll(h, b, n) == b.asked

(* How much of block b a new one of n words gets. *)
Copied(h, b, n) == IF GetSize(h, b.addr) < n THEN GetSize(h, b.addr) ELSE n

(* The first n words from p on are copied to q. *)
Copy(h, p, q, n) ==
  [h EXCEPT !.mem = [a \in Address |-> IF a \in q .. q + n - 1 THEN @[p + a - q] ELSE @[a]]]

(* realloc once malloc gave it an object: if that is as large as the old   *)
(* one it goes back, otherwise it takes the contents.                      *)
Moved(b, out, n) ==
  IF GetSize(out.heap, b.addr) = GetSize(out.heap, out.ptr)
  THEN Outcome(b.addr, FreeObject(out.heap, out.ptr))
  ELSE Outcome(out.ptr,
               FreeObject(Copy(out.heap, b.addr, out.ptr, Copied(out.heap, b, n)), b.addr))

(* realloc to n words, not zero, for a client that asked for that many or  *)
(* whose product wrapped; recalloc clears them all.                        *)
Resize(b, n, asked, cleared) ==
  /\ ~dead /\ (ReallocAligned \/ b.addr \notin inside)
  /\ \E out \in Malloc(heap, n) :
       IF out.ptr \in {NULL, Crash}
       THEN Return(out) /\ UNCHANGED live
       ELSE LET moved == Moved(b, out, n)
                end == IF cleared THEN Fill(moved, n, 0) ELSE moved
                kept == IF b.kept < n THEN b.kept ELSE n
            IN  /\ Return(end)
                /\ live' = (live \ {b}) \union
                     {IF cleared THEN NewBlock(end, 1, asked, 0, n)
                      ELSE NewBlock(end, 1, asked, b.data, kept)}
  /\ UNCHANGED inside

CallRealloc(b, n) == IF n = 0 THEN CallFree(b) ELSE Resize(b, n, n, FALSE)

(* A product that would wrap is refused. *)
CallReallocarray(b, count, size) ==
  /\ size # 0 => count <= (2 * HalfRange - 1) \div size
  /\ CallRealloc(b, count * size)

(* The product wraps. *)
CallRecalloc(b, count, size) ==
  LET n == (count * size) % (2 * HalfRange)
  IN  IF n = 0 THEN CallFree(b) ELSE Resize(b, n, count * size, TRUE)

(* The client fills its block, as far as it may use it. *)
ClientWrite(b, x) ==
  /\ ~dead /\ <<b.data, b.kept>> # <<x, b.size>>
  /\ heap' = Fill(Outcome(b.addr, heap), b.size, x).heap
  /\ live' = (live \ {b}) \union {[b EXCEPT !.data = x, !.kept = b.size]}
  /\ UNCHANGED <<dead, carved, inside>>

Next ==
  \/ \E n \in Requests :
       \/ CallMalloc(n) \/ CallNew(n) \/ CallCalloc(n, ElemSize)
       \/ CallValloc(n) \/ CallPvalloc(n)
       \/ \E a \in Alignments :
            CallMemalign(a, n) \/ CallPosixMemalign(a, n) \/ CallAlignedAlloc(a, n)
  \/ \E n \in Strings, x \in Data : CallStrdup(n, x)
  \/ \E request \in NewAligned : CallNewAligned(request[1], request[2])
  \/ \E b \in live :
       \/ CallFree(b)
       \/ \E n \in Requests \union {0} : CallRealloc(b, n) \/ CallRecalloc(b, n, ElemSize)
       \/ \E array \in Arrays : CallReallocarray(b, array[1], array[2])
       \/ \E x \in Data : ClientWrite(b, x)

Spec == Init /\ [][Next]_vars

-----------------------------------------------------------------------------
(* Properties.                                                             *)

(* The state has its types; the zone never has less than nothing left.     *)
TypeOK ==
  /\ DOMAIN heap.mem = Address
  /\ heap.arena \in ArenaAddrs \union {NULL} /\ heap.left \in Nat
  /\ dead \in BOOLEAN
  /\ \A b \in live : b.addr \in Word /\ b.size \in Nat /\ b.kept \in 0 .. b.size
  /\ carved \subseteq Word \X Nat /\ inside \subseteq Word

(* No sum of sizes wraps: what holds only for such sizes and alignments is *)
(* proved from this.                                                       *)
NoWrap ==
  /\ \A a \in Alignments \union {PageSize} \union {request[1] : request \in NewAligned} :
       IsPowerOf2(a) => 2 * a <= HalfRange
  /\ \A n \in Requests : AlignUp(PageSize, n) < 2 * HalfRange

(* Object o holds the word at p. *)
Holds(o, p) == p \in o[1] .. o[1] + o[2] - 1

(* What should be in bin c: the objects of its size that no client owns,   *)
(* but for those memalign moved into, whose addresses are forgotten; in    *)
(* bin 0, which malloc never uses, the pointers into those.                *)
FreeIn(c) ==
  IF c = 0
  THEN {p \in inside : \A b \in live : b.addr # p}
  ELSE {o[1] : o \in {o \in carved :
          /\ o[2] = Class2Size[c]
          /\ \A p \in inside \union {b.addr : b \in live} : ~Holds(o, p)}}

(* The links of each bin, which lie in memory clients wrote before and     *)
(* will write again, form one ring, backwards as forwards, through the     *)
(* head and exactly the free objects of the bin's size: none is lost, none *)
(* is there twice, none is a client's and none is too small.               *)
ListsAreIntact ==
  \A c \in Bins :
    LET ring == FreeIn(c) \union {Head(c)}
    IN  /\ \A e \in ring :
             heap.mem[NextOf(e)] \in ring /\ heap.mem[heap.mem[NextOf(e)]] = e
        /\ \A part \in (SUBSET ring) \ {{}, ring} :
             \E e \in part : heap.mem[NextOf(e)] \notin part

(* Objects and their headers lie inside arenas behind the arena's header,  *)
(* share no word, still have the size and the magic they were cut with,    *)
(* and the free space of the current arena is none of theirs.              *)
ArenasHoldObjects ==
  LET Full(o) == o[1] - SizeHeader .. o[1] + o[2] - 1
      free == heap.space .. heap.space + heap.left - 1
      Usable(m) == m[1] + ArenaHeader .. m[1] + m[2] - 1
  IN  /\ \A o \in carved :
           /\ heap.mem[o[1] - 2] = o[2] /\ heap.mem[o[1] - 1] = Magic
           /\ \E m \in heap.arenas : Full(o) \subseteq Usable(m)
           /\ heap.arena # NULL => Full(o) \intersect free = {}
           /\ \A p \in carved : p # o => Full(o) \intersect Full(p) = {}
      /\ heap.arena # NULL => \E m \in heap.arenas : m[1] = heap.arena /\ free \subseteq Usable(m)

(* Every client's block lies inside one object that no other client has a  *)
(* block in: what memalign shifted fits the larger object it asked for.    *)
BlocksInObjects ==
  \A b \in live :
    \E o \in carved :
      /\ Holds(o, b.addr) /\ b.addr + b.size <= o[1] + o[2]
      /\ \A c \in live : Holds(o, c.addr) => c = b

(* What a client wrote stays, over all calls of its own and of others and  *)
(* through realloc, until it frees the block.                              *)
ContentsKept ==
  \A b \in live : \A i \in 0 .. b.kept - 1 : heap.mem[b.addr + i] = b.data

(* An object is only cut from an arena when no free one of its size is in  *)
(* its bin.  (Objects that memalign shifted blocks in are in no bin any    *)
(* more, and those of other sizes are never split or merged.)              *)
ReuseFirst ==
  [][\A o \in carved' \ carved : \A c \in Bins : Class2Size[c] = o[2] => IsEmpty(heap, c)]_vars

(* A block starts at a multiple of the alignment memalign was asked for.   *)
AlignedAsAsked == \A b \in live : b.addr % b.align = 0

(* A call that finds no memory says so, and the process goes on.           *)
NeverCrashes == ~dead

Contract == INSTANCE MallocContract WITH blocks <- live

(* The stack as a whole is the C allocator its wrapper stands for: blocks  *)
(* as large and as aligned as asked, disjoint from all others, and realloc *)
(* keeping the contents.                                                   *)
ImplementsContract == Contract!Spec
=============================================================================
