------------------------------ MODULE LeaHeap ------------------------------
(***************************************************************************)
(* The coalescing allocator of heaps/general/dlheap.h, of the layers in it *)
(* that fit together:                                                      *)
(*                                                                         *)
(*   ANSIWrapper< SelectMmapHeap< Threshold,                               *)
(*     CoalesceHeap< RequireCoalesceable< SegHeap< NumBins,                *)
(*       getSizeClass, getClassSize,                                       *)
(*       AdaptHeap<DLList, RequireCoalesceable<NullHeap>>,                 *)
(*       CoalesceableHeap< SlopHeap< ZoneHeap<MmapHeap> > > > > >,         *)
(*     CoalesceableMmapHeap<MmapHeap> > >                                  *)
(*                                                                         *)
(* It takes no lock, so one thread calls it and a call is one step.        *)
(* Memory is an array of granules of sixteen bytes, two words each: a      *)
(* header of an object is one granule, and so is the entry of a list.      *)
(* Sizes are in granules, as ANSIWrapper makes them.                       *)
(***************************************************************************)
EXTENDS Integers, FiniteSets

CONSTANTS
  ClassMax,       \* getClassSize of each bin, from 0 on
  ClassOf,        \* getSizeClass of each size
  IntBits,        \* bits of an unsigned int: 32
  LongBits,       \* bits of an unsigned long: 64
  ThresholdSize,  \* larger objects are mapped one by one
  ChunkSize,      \* of ZoneHeap
  PageSize,       \* of the kernel
  MapAddrs,       \* addresses at which the kernel may map memory
  MemTop,         \* the last granule of memory
  HalfRange,      \* half the range of size_t: its top bit
  Requests,       \* the sizes clients ask for
  Data,           \* what clients write: words
  MaxObjects      \* bound: blocks with clients

NULL == 0

Slop == 1         \* SLOP, sixteen bytes
Bins == DOMAIN ClassMax
NumBins == Cardinality(Bins)
Sizes == DOMAIN ClassOf
Granule == 1 .. MemTop

(* Where a bin shares its bit of the map, the search that starts at it     *)
(* must stay below the last bin: the last block is full or shares no bit.  *)
(* The largest class takes whatever an arena can merge into, and a mapped  *)
(* object leaves room in its last page for the header behind it.           *)
ASSUME LeaAssumption ==
  /\ IntBits \in Nat \ {0} /\ LongBits \in {IntBits, 2 * IntBits}
  /\ NumBins \in Nat \ {0} /\ Bins = 0 .. NumBins - 1
  /\ NumBins % LongBits \in 0 .. IntBits
  /\ ClassMax \in [Bins -> Nat] /\ ClassOf \in [Sizes -> Bins]
  /\ ClassMax[0] = 1 /\ ClassMax[NumBins - 1] >= ChunkSize
  /\ Sizes = 1 .. ClassMax[NumBins - 1]
  /\ \A c \in Bins \ {0} : ClassMax[c] > ClassMax[c - 1]
  /\ \A n \in Sizes : ClassMax[ClassOf[n]] >= n
  /\ ThresholdSize \in Nat /\ ChunkSize \in Nat /\ ThresholdSize < ChunkSize
  /\ PageSize \in Nat \ {0} /\ MemTop \in Nat /\ MapAddrs \subseteq Granule
  /\ HalfRange \in Nat /\ Requests \subseteq Nat /\ Data \subseteq Int
  /\ \A n \in Requests : n < HalfRange => (n + 1) % PageSize # 0
  /\ MaxObjects \in Nat

VARIABLES
  heap,     \* memory and the fields of the layers, see Init
  dead,     \* the process was killed by a write at address 0
  live,     \* history: the blocks clients own, records of MallocContract
  taken,    \* history: the last call was a realloc that failed, and freed its
            \* client's block all the same
  regions   \* history: the first header of each run of adjacent objects

vars == <<heap, dead, live, taken, regions>>

(* The head of the list of each bin lies outside the memory clients see.   *)
Head(c) == -(c + 1)
Heads == {Head(c) : c \in Bins}

Block(c) == c \div LongBits

Init ==
  /\ heap = [mem |-> [a \in Granule \union Heads |-> IF a \in Heads THEN <<a, a>> ELSE <<0, 0>>],
             maps |-> {},                                     \* what the kernel mapped
             arena |-> NULL, space |-> NULL, left |-> 0,      \* ZoneHeap
             ptr |-> NULL, remaining |-> 0,                   \* SlopHeap
             binmap |-> [k \in {Block(c) : c \in Bins} |-> {}]]   \* SegHeap
  /\ dead = FALSE
  /\ live = {} /\ taken = FALSE /\ regions = {}

-----------------------------------------------------------------------------
(* Headers: word 1 packs the flags and the size of the object before, word *)
(* 2 is the size of the object behind the header.                          *)

GetHeader(p) == p - 1
IsPrevFree(h, g) == h.mem[g][1] % 2 = 1
IsMmapped(h, g) == (h.mem[g][1] \div 2) % 2 = 1
GetPrevSize(h, g) == h.mem[g][1] \div 4
GetSize(h, g) == h.mem[g][2]

Flag(b) == IF b THEN 1 ELSE 0
Pack(free, mmapped, size) == Flag(free) + 2 * Flag(mmapped) + 4 * size

SetSize(h, g, n) == [h EXCEPT !.mem[g][2] = n]
SetPrevSize(h, g, n) == [h EXCEPT !.mem[g][1] = Pack(IsPrevFree(h, g), IsMmapped(h, g), n)]
SetPrevFree(h, g, b) == [h EXCEPT !.mem[g][1] = Pack(b, IsMmapped(h, g), GetPrevSize(h, g))]

NextHeader(h, g) == g + 1 + GetSize(h, g)

(* Whether an object is free stands in the header of its successor.        *)
IsFree(h, p) == IsPrevFree(h, NextHeader(h, GetHeader(p)))
MarkFree(h, p) == SetPrevFree(h, NextHeader(h, GetHeader(p)), TRUE)
MarkInUse(h, p) == SetPrevFree(h, NextHeader(h, GetHeader(p)), FALSE)

GetPrev(h, p) == GetHeader(p) - GetPrevSize(h, GetHeader(p))
GetNext(h, p) == NextHeader(h, GetHeader(p)) + 1

-----------------------------------------------------------------------------
(* MmapHeap, ZoneHeap and SlopHeap.  What a call may do to heap h is a set *)
(* of outcomes: the pointer and the heap after.                            *)

Outcome(p, h) == [ptr |-> p, heap |-> h]
Crash == -1

(* The kernel maps whole pages of zeros.  An arena's header has 24 bytes,  *)
(* so objects lie half a granule off the pages, and half a granule behind  *)
(* the last whole one is still mapped.  These are the ways it may say yes. *)
Pages(n) == ((n + PageSize - 1) \div PageSize) * PageSize + 1

Mmap(h, n) ==
  {Outcome(a, [h EXCEPT !.maps = @ \union {<<a, Pages(n)>>},
                        !.mem = [g \in DOMAIN @ |-> IF g \in a .. a + Pages(n) - 1
                                                    THEN <<0, 0>> ELSE @[g]]]) :
     a \in {a \in MapAddrs :
              /\ a + Pages(n) - 1 <= MemTop
              /\ \A m \in h.maps : a + Pages(n) <= m[1] \/ m[1] + m[2] <= a}}

Munmap(h, a) == [h EXCEPT !.maps = {m \in @ : m[1] # a}]

(* The granules an arena's header has a part of. *)
ArenaHeader == 2

(* A new arena.  Its last header word is where the header of an object     *)
(* before the first one would have its size.  Where the kernel refuses,    *)
(* which it may at any time, there is no arena any more.                   *)
NewArena(h, n) ==
  LET size == IF ChunkSize < n THEN n ELSE ChunkSize
  IN  {[h EXCEPT !.arena = NULL]} \union
      {[out.heap EXCEPT !.arena = out.ptr, !.space = out.ptr + ArenaHeader, !.left = size,
                        !.mem[out.ptr + 1] = <<0, size + ArenaHeader>>] :
         out \in Mmap(h, size + ArenaHeader)}

(* Seeded bug: an arena with one granule too few is good enough. *)
HasRoomLoose(h, n) == h.arena # NULL /\ h.left + 1 >= n

HasRoom(h, n) == h.arena # NULL /\ h.left >= n

ZoneMalloc(h, n) ==
  {IF z.arena = NULL THEN Outcome(NULL, z)
   ELSE Outcome(z.space, [z EXCEPT !.space = @ + n, !.left = @ - n]) :
     z \in IF HasRoom(h, n) THEN {h} ELSE NewArena(h, n)}

(* Whether new memory at p follows the slop of the last. *)
Contiguous(h, p) == h.ptr # NULL /\ h.ptr + h.remaining + Slop = p

(* The slop behind the last object is kept, and handed out once memory     *)
(* that follows it has a slop of its own.                                  *)
SlopMalloc(h, n) ==
  IF n <= h.remaining
  THEN {Outcome(h.ptr, [h EXCEPT !.ptr = @ + n, !.remaining = @ - n])}
  ELSE {LET z == out.heap
        IN  CASE out.ptr = NULL -> out
              [] out.ptr # NULL /\ Contiguous(h, out.ptr) ->
                   Outcome(h.ptr, [z EXCEPT !.ptr = @ + n, !.remaining = @ + Slop])
              [] OTHER ->
                   Outcome(out.ptr, [z EXCEPT !.ptr = out.ptr + n, !.remaining = 0]) :
          out \in ZoneMalloc(h, n + Slop)}

-----------------------------------------------------------------------------
(* CoalesceableHeap.                                                       *)

(* An object of n granules, with its header and that of an empty object    *)
(* behind it, which is in use so that nothing merges with it.  To say so,  *)
(* a bit is cleared one granule further on.                                *)
CoalesceableMalloc(h, n) ==
  {IF out.ptr = NULL THEN out
   ELSE LET g == out.ptr
            next == g + 1 + n
            sized == SetPrevSize(SetSize(out.heap, g, n), next, n)
            plain == [sized EXCEPT !.mem[g][1] = Pack(IsPrevFree(sized, g), FALSE, GetPrevSize(sized, g))]
        IN  Outcome(g + 1, SetPrevFree(SetSize(plain, next, 0), next + 1, FALSE)) :
     out \in SlopMalloc(h, n + 1)}

-----------------------------------------------------------------------------
(* DLList: an entry is one granule, prev and next.                         *)

First(h, c) == h.mem[Head(c)][2]
IsEmpty(h, c) == First(h, c) = Head(c)

Insert(h, c, p) ==
  [h EXCEPT !.mem[p] = <<Head(c), First(h, c)>>,
            !.mem[Head(c)][2] = p, !.mem[First(h, c)][1] = p]

(* Entry::remove, from whatever list the entry is in. *)
Unlink(h, p) == [h EXCEPT !.mem[h.mem[p][1]][2] = h.mem[p][2], !.mem[h.mem[p][2]][1] = h.mem[p][1]]

(* get: the first entry goes. *)
Get(h, c) == Outcome(First(h, c), Unlink(h, First(h, c)))

-----------------------------------------------------------------------------
(* SegHeap.                                                                *)

(* The bit of a bin is made by a shift of an unsigned int, which the       *)
(* processor takes modulo its width: bins IntBits apart share one.         *)
Bit(c) == (c % LongBits) % IntBits

(* Seeded bug: the search ends with the block of the map it starts in. *)
LooksNearby(h, c) ==
  {<<Block(c), b, c + b - Bit(c)>> : b \in {b \in h.binmap[Block(c)] : b >= Bit(c)}}

(* Where malloc looks for an object of class c or more: a bit of the map   *)
(* and the bin it takes it for, upwards from c's own.                      *)
Looks(h, c) ==
  {<<Block(c), b, c + b - Bit(c)>> : b \in {b \in h.binmap[Block(c)] : b >= Bit(c)}}
  \union UNION {{<<k, b, k * LongBits + b>> : b \in h.binmap[k]} :
                  k \in {k \in DOMAIN h.binmap : k > Block(c)}}

(* The bits of the looks in vain are cleared. *)
Cleared(h, looks) ==
  [h EXCEPT !.binmap = [k \in DOMAIN @ |-> {b \in @[k] : \A l \in looks : <<l[1], l[2]>> # <<k, b>>}]]

(* An object from the first bin that has one, and from the big heap if no  *)
(* bin the map knows of has any.                                           *)
SegMalloc(h, n) ==
  LET looks == IF n \in Sizes THEN Looks(h, ClassOf[n]) ELSE {}
      hits == {l[3] : l \in {l \in looks : ~IsEmpty(h, l[3])}}
  IN  IF hits = {} THEN CoalesceableMalloc(Cleared(h, looks), n)
      ELSE LET c == CHOOSE c \in hits : \A d \in hits : c <= d
           IN  {Get(Cleared(h, {l \in looks : l[3] < c}), c)}

(* Seeded bug: the class of the size, whose objects may be larger. *)
FreeClassUp(n) == ClassOf[n]

(* The class of a freed object: the first from the class of its size down  *)
(* whose objects are no larger.                                            *)
FreeClass(n) ==
  CHOOSE c \in 0 .. ClassOf[n] : ClassMax[c] <= n /\ \A d \in c + 1 .. ClassOf[n] : ClassMax[d] > n

(* An object larger than the largest class goes to the big heap, which     *)
(* ignores it.                                                             *)
SegFree(h, p) ==
  LET n == GetSize(h, GetHeader(p))
      c == FreeClass(n)
  IN  IF n > ClassMax[NumBins - 1] THEN h
      ELSE [Insert(h, c, p) EXCEPT !.binmap[Block(c)] = @ \union {Bit(c)}]

-----------------------------------------------------------------------------
(* CoalesceHeap.                                                           *)

(* A piece is split off if a header and the links of a list fit into it.   *)
WorthSplitting(rest) == rest >= 2

(* Seeded bug: the object behind the piece still has the old size before.  *)
SplitQuiet(h, p, n) ==
  LET actual == GetSize(h, GetHeader(p))
      piece == p + n + 1
  IN  IF ~WorthSplitting(actual - n) THEN h
      ELSE LET made == [SetSize(h, GetHeader(p), n) EXCEPT
                          !.mem[GetHeader(piece)] = <<Pack(FALSE, FALSE, n), actual - n - 1>>]
           IN  SegFree(MarkFree(made, piece), piece)

(* split, and what malloc does with the piece: its header says that the    *)
(* object before it is in use and how large it is, the next one how large  *)
(* the piece is and that it is free.                                       *)
Split(h, p, n) ==
  LET actual == GetSize(h, GetHeader(p))
      piece == p + n + 1
      rest == actual - n - 1
  IN  IF ~WorthSplitting(actual - n) THEN h
      ELSE LET cut == [SetSize(h, GetHeader(p), n) EXCEPT
                         !.mem[GetHeader(piece)] = <<Pack(FALSE, FALSE, n), rest>>]
               made == SetPrevSize(cut, NextHeader(cut, GetHeader(piece)), rest)
           IN  SegFree(MarkFree(made, piece), piece)

CoalesceMalloc(h, n) ==
  {IF out.ptr = NULL THEN out ELSE Outcome(out.ptr, Split(MarkInUse(out.heap, out.ptr), out.ptr, n)) :
     out \in SegMalloc(h, n)}

(* The first of two neighbours takes in the second. *)
Coalesce(h, first, second) ==
  LET newSize == second - first + GetSize(h, GetHeader(second))
      grown == SetSize(h, GetHeader(first), newSize)
  IN  SetPrevSize(grown, NextHeader(grown, GetHeader(first)), newSize)

(* Seeded bug: the neighbour stays in its bin. *)
MergeNextKept(h, p, next) ==
  IF IsFree(h, next) THEN Coalesce(h, p, next) ELSE h

MergeNext(h, p, next) ==
  IF IsFree(h, next) THEN Coalesce(Unlink(h, next), p, next) ELSE h

(* The tags of the neighbours do not lead back here: an arena's first      *)
(* object, before which there is no header.                                *)
HasNoNeighbours(h, p) == GetNext(h, GetPrev(h, p)) # p \/ GetPrev(h, GetNext(h, p)) # p

(* An object without neighbours goes to its bin as it is, not even marked  *)
(* as free.  Another one merges with those that are free, leaves the tag   *)
(* and goes to the bin of what has become of it.                           *)
CoalesceFree(h, p) ==
  LET prev == GetPrev(h, p)
      next == GetNext(h, p)
      back == IsPrevFree(h, GetHeader(p))
      start == IF back THEN prev ELSE p
      whole == MergeNext(IF back THEN Coalesce(Unlink(h, prev), prev, p) ELSE h, start, next)
  IN  IF HasNoNeighbours(h, p) THEN SegFree(h, p) ELSE SegFree(MarkFree(whole, start), start)

-----------------------------------------------------------------------------
(* CoalesceableMmapHeap, SelectMmapHeap and ANSIWrapper.                   *)

(* A mapped object has a header, and the next header, which nobody owns,   *)
(* gets its size and state too.  Where the kernel refuses, the header is   *)
(* written at address 0.                                                   *)
MappedMalloc(h, n) ==
  {Outcome(Crash, h)} \union
  {LET g == out.ptr
       made == [out.heap EXCEPT !.mem[g] = <<Pack(FALSE, TRUE, 0), n>>]
   IN  Outcome(g + 1, SetPrevFree(SetPrevSize(made, g + 1 + n, n), g + 1 + n, FALSE)) :
     out \in Mmap(h, n + 1)}

(* The mapped object is also what a small heap without memory falls back   *)
(* on.  ANSIWrapper gives at least a granule, and nothing for sizes with   *)
(* the top bit.                                                            *)
Malloc(h, asked) ==
  LET n == IF asked = 0 THEN 1 ELSE asked
  IN  CASE n >= HalfRange -> {Outcome(NULL, h)}
        [] n \in ThresholdSize + 1 .. HalfRange - 1 -> MappedMalloc(h, n)
        [] OTHER -> UNION {IF out.ptr = NULL THEN MappedMalloc(out.heap, n) ELSE {out} :
                             out \in CoalesceMalloc(h, n)}

(* The header tells whose object it is. *)
Free(h, p) ==
  IF IsMmapped(h, GetHeader(p)) THEN Munmap(h, GetHeader(p)) ELSE CoalesceFree(h, p)

-----------------------------------------------------------------------------
(* The client's calls.                                                     *)

(* The first object of a new arena starts a run of objects. *)
Return(out) ==
  /\ heap' = out.heap
  /\ dead' = (out.ptr = Crash)
  /\ regions' = IF out.ptr \notin {NULL, Crash}
                   /\ ~IsMmapped(out.heap, GetHeader(out.ptr))
                   /\ GetPrevSize(out.heap, GetHeader(out.ptr)) = 0
                THEN regions \union {GetHeader(out.ptr)} ELSE regions

NewBlock(out, n, x, kept) ==
  [addr |-> out.ptr, align |-> 1, asked |-> n, size |-> GetSize(out.heap, GetHeader(out.ptr)),
   data |-> x, kept |-> kept]

(* n granules from p on are filled with x. *)
Fill(h, p, n, x) ==
  [h EXCEPT !.mem = [g \in DOMAIN @ |-> IF g \in p .. p + n - 1 THEN <<x, x>> ELSE @[g]]]

(* malloc; the client fills its block before it does anything else. *)
CallMalloc(n, x) ==
  /\ ~dead /\ Cardinality(live) < MaxObjects /\ taken' = FALSE
  /\ \E out \in Malloc(heap, n) :
       IF out.ptr \in {NULL, Crash} THEN Return(out) /\ UNCHANGED live
       ELSE LET size == GetSize(out.heap, GetHeader(out.ptr))
            IN  /\ Return([out EXCEPT !.heap = Fill(@, out.ptr, size, x)])
                /\ live' = live \union {NewBlock(out, n, x, size)}

CallFree(b) ==
  /\ ~dead
  /\ heap' = Free(heap, b.addr)
  /\ live' = live \ {b} /\ taken' = FALSE
  /\ UNCHANGED <<dead, regions>>

(* Seeded bug: the last granule is left out. *)
CopyShort(h, p, q, n) ==
  [h EXCEPT !.mem = [g \in DOMAIN @ |-> IF g \in q .. q + n - 2 THEN @[p + g - q] ELSE @[g]]]

(* The first n granules from p on are copied to q. *)
Copy(h, p, q, n) ==
  [h EXCEPT !.mem = [g \in DOMAIN @ |-> IF g \in q .. q + n - 1 THEN @[p + g - q] ELSE @[g]]]

(* ANSIWrapper::realloc: a block of that very size stays; otherwise the    *)
(* contents move to a new one, and the old one is freed even if there is   *)
(* no new one.  The client fills what is new of its block.                 *)
CallRealloc(b, n) ==
  /\ ~dead /\ n \notin {0, b.size}
  /\ \E out \in Malloc(heap, n) :
       CASE out.ptr = Crash -> Return(out) /\ UNCHANGED live /\ taken' = FALSE
         [] out.ptr = NULL ->
              /\ Return([out EXCEPT !.heap = Free(@, b.addr)])
              /\ live' = live \ {b} /\ taken' = TRUE
         [] OTHER ->
            LET size == GetSize(out.heap, GetHeader(out.ptr))
                kept == IF b.size < n THEN b.size ELSE n
                moved == Free(Copy(out.heap, b.addr, out.ptr, kept), b.addr)
            IN  /\ Return([out EXCEPT !.heap = Fill(moved, out.ptr + kept, size - kept, b.data)])
                /\ live' = (live \ {b}) \union {NewBlock(out, n, b.data, size)}
                /\ taken' = FALSE

Next ==
  \/ \E n \in Requests : \E x \in Data : CallMalloc(n, x)
  \/ \E b \in live : CallFree(b) \/ \E n \in Requests : CallRealloc(b, n)

Spec == Init /\ [][Next]_vars

-----------------------------------------------------------------------------
(* Properties.                                                             *)

(* The headers of the objects that follow each other from g on, up to the  *)
(* empty one behind the last.                                              *)
HeadersFrom[g \in Granule] ==
  LET next == NextHeader(heap, g)
  IN  IF GetSize(heap, g) \notin Nat \ {0} \/ next \notin Granule THEN {}
      ELSE {g} \union HeadersFrom[next]

Headers == UNION {HeadersFrom[r] : r \in regions}

(* Objects no client owns, by the header. *)
FreeHeaders == {g \in Headers : \A b \in live : b.addr # g + 1}

(* The boundary tags are true.  The objects of each run adjoin, so that    *)
(* sizes lead from its first header to each next one; each header has the  *)
(* size of the object before it and says whether that is free, but for the *)
(* first of a run, which is never said to be; none is said to be mapped;   *)
(* and every block of a client is one of the objects or mapped by itself.  *)
TagsAreTrue ==
  /\ \A g \in Headers :
       LET next == NextHeader(heap, g)
       IN  /\ GetPrevSize(heap, next) = GetSize(heap, g)
           /\ IsPrevFree(heap, next) <=> g \in FreeHeaders \ regions
           /\ ~IsMmapped(heap, g)
  /\ \A r \in regions : ~IsPrevFree(heap, r)
  /\ \A b \in live :
       \/ GetHeader(b.addr) \in Headers /\ b.size = GetSize(heap, GetHeader(b.addr))
       \/ IsMmapped(heap, GetHeader(b.addr)) /\ \E m \in heap.maps : m[1] = GetHeader(b.addr)

(* What should be in bin c: the free objects of its class. *)
FreeIn(c) == {g + 1 : g \in {g \in FreeHeaders : FreeClass(GetSize(heap, g)) = c}}

(* The links of each bin, which lie in memory clients wrote before and     *)
(* will write again, and out of whose middle merging takes objects, form   *)
(* one ring, backwards as forwards, through the head and exactly the free  *)
(* objects of the bin's class: what is split off or merged is in one bin   *)
(* once, and no client's block is in any.                                  *)
BinsAreIntact ==
  \A c \in Bins :
    LET ring == FreeIn(c) \union {Head(c)}
    IN  /\ \A e \in ring : heap.mem[e][2] \in ring /\ heap.mem[heap.mem[e][2]][1] = e
        /\ \A part \in (SUBSET ring) \ {{}, ring} : \E e \in part : heap.mem[e][2] \notin part

(* Bins whose bit no other bin shares. *)
HasOwnBit(c) == \A d \in Bins \ {c} : Block(d) # Block(c) \/ Bit(d) # Bit(c)

(* No layer gives away more than it has.  Behind the last object of the    *)
(* current run there is room for the header CoalesceableHeap writes there  *)
(* and for the bit beyond it, in the mapping; the header is not in what    *)
(* the zone will give away, and says that the object is empty; and while   *)
(* the zone has its arena, what the zone gives next continues the run.     *)
EndIsOurs ==
  /\ heap.left >= 0 /\ heap.remaining >= 0
  /\ heap.ptr # NULL =>
       /\ \E m \in heap.maps :
            /\ heap.ptr + heap.remaining + 1 < m[1] + m[2]
            /\ \E g \in Headers : g >= m[1] /\ NextHeader(heap, g) = heap.ptr
            /\ heap.arena = m[1] => heap.space = heap.ptr + heap.remaining + 1
       /\ GetSize(heap, heap.ptr) = 0

(* What a client wrote stays, while its neighbours are split, merged and   *)
(* linked, until it frees the block.                                       *)
ContentsKept ==
  \A b \in live : \A i \in 0 .. b.kept - 1 : heap.mem[b.addr + i] = <<b.data, b.data>>

(* The map of bins is a hint, written back from a local copy after looks   *)
(* in vain and never told of objects that merging removes.  Still, the     *)
(* arenas grow only when no bin with a bit of its own, from the class of   *)
(* the request on, has an object.                                          *)
BinsFirst ==
  [][\A n \in Requests \intersect Sizes :
       (\E b \in live' \ live : b.asked = n /\ ~IsMmapped(heap', GetHeader(b.addr)))
         /\ <<heap.ptr, heap.remaining>> # <<heap'.ptr, heap'.remaining>>
       => \A c \in Bins : c >= ClassOf[n] /\ HasOwnBit(c) => IsEmpty(heap, c)]_vars

Contract == INSTANCE MallocContract WITH blocks <- live

(* C keeps the block that realloc could not replace.  ANSIWrapper frees    *)
(* it; at least it frees no other.                                         *)
ReallocTakes == taken' /\ \E b \in live : live' = live \ {b}

(* The stack as a whole is the C allocator its wrapper stands for, with    *)
(* blocks as large as asked, disjoint from all others, and realloc keeping *)
(* the contents, but for one thing: a realloc that fails.  No other step   *)
(* departs from the contract, nor does any after it, for a client that     *)
(* takes its block for lost.                                               *)
ImplementsContract == Contract!Init /\ [][ReallocTakes \/ (~taken' /\ Contract!Next)]_live
=============================================================================
