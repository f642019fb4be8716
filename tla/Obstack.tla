------------------------------ MODULE Obstack ------------------------------
(***************************************************************************)
(* ObstackHeap<ChunkSize, XallocHeap<ArenaSize, StaticHeap<MemorySize>>>:  *)
(* a stack of objects in chunks, over a heap that lays out its blocks one  *)
(* after the other in one array.  The unit of addresses and sizes is four  *)
(* bytes.  Both heaps keep their records in the memory they manage: a word *)
(* before every block has the size of the block before it and a bit for    *)
(* this one in use, and a chunk begins with its limit and the chunk before *)
(* it.  One thread: neither heap has a lock.                               *)
(***************************************************************************)
EXTENDS Integers, Sequences, FiniteSets

CONSTANTS
  ArenaSize,     \* template parameter of XallocHeap, and StaticHeap's memory
  ChunkSize,     \* template parameter of ObstackHeap
  Sizes,         \* sizes clients ask malloc for
  Steps,         \* sizes clients ask grow for
  MaxObjects,    \* bound: objects at a time
  MaxEnd         \* bound: where calls that find no memory leave end_of_array

NULL == 0
Alignment == 2   \* sizeof(double)
Nuggie == 2      \* sizeof(Nuggie)
Header == 4      \* sizeof(ChunkHeader)
Start == 2       \* start_of_array
ArenaEnd == Start + ArenaSize
Rounds == ArenaSize \div (Nuggie + Header)   \* of a loop: no more chunks have room

ASSUME ObstackAssumption ==
  /\ ArenaSize \in Nat /\ ArenaSize % Alignment = 0
  /\ ChunkSize \in Nat /\ ChunkSize >= Header /\ ChunkSize % Alignment = 0
  /\ ArenaSize > 2 * Nuggie + Header + ChunkSize
  /\ Sizes \subseteq Nat /\ Steps \subseteq Nat \ {0}
  /\ MaxObjects \in Nat /\ MaxEnd \in Nat

VARIABLES
  asserts,       \* whether the program was compiled with assertions
  arena,         \* XallocHeap: its memory, end_of_array and last_block
  currentChunk, currentBase, nextPos,
  status,        \* of the program: running, stopped, or done with the heap
  objects        \* history: the objects clients own, oldest first

position == <<currentChunk, currentBase, nextPos>>
vars == <<asserts, arena, position, status, objects>>

Align(n) == n + (n % Alignment)

-----------------------------------------------------------------------------
(* XallocHeap.  An operator takes the arena and gives the arena after it.  *)

(* The Nuggie before p: a size in bytes, and the bit of the block at p. *)
SizeLval(m, p) == m[p - Nuggie]
SetSize(m, p, v) == [m EXCEPT ![p - 2] = v, ![p - 1] = v]
InUse(m, p) == SizeLval(m, p) % 2 = 1
SetUse(m, p) == SetSize(m, p, 2 * (SizeLval(m, p) \div 2) + 1)
ClearUse(m, p) == SetSize(m, p, 2 * (SizeLval(m, p) \div 2))
PrevBlock(m, p) == p - (2 * (SizeLval(m, p) \div 2)) \div 4

(* end_of_array goes up before the test, and stays there if it fails. *)
XallocMalloc(a, size) ==
  LET p == a.end
      end == p + Align(size + Nuggie)
  IN  IF p + size >= ArenaEnd THEN [ptr |-> NULL, arena |-> [a EXCEPT !.end = end]]
      ELSE [ptr |-> p,
            arena |-> [mem |-> SetUse(SetSize(a.mem, end, 4 * (end - p)), p),
                       end |-> end, last |-> p]]

(* Memory taken back keeps its contents, which nothing reads again; the    *)
(* module forgets them.                                                    *)
Forget(m, from, end) == [w \in DOMAIN m |-> IF w \in from .. end - 1 THEN 0 ELSE m[w]]

(* The loop of free, from the last block back over blocks that are free    *)
(* already: where it is after n rounds.                                    *)
Retreat(m, p) ==
  LET back[n \in 0 .. Rounds] ==
        IF n = 0 THEN p
        ELSE LET b == back[n - 1]
                 q == PrevBlock(m, b)
             IN  IF q # b /\ ~InUse(m, q) THEN q ELSE b
      end == back[Rounds]
      q == PrevBlock(m, end)
  IN  [mem |-> Forget(m, end, ArenaEnd), end |-> end, last |-> IF q = end THEN NULL ELSE q]

XallocFree(a, p) ==
  LET m == ClearUse(a.mem, p)
  IN  IF p = a.last THEN Retreat(m, p) ELSE [a EXCEPT !.mem = m]

-----------------------------------------------------------------------------
(* ObstackHeap. *)

Limit(m, c) == m[c]
PrevChunk(m, c) == m[c + 2]

MakeChunk(a, prev, sz) ==
  LET size == Align(IF sz > ChunkSize - Header THEN sz ELSE ChunkSize - Header)
      r == XallocMalloc(a, Header + size)
      c == r.ptr
  IN  IF c = NULL THEN r
      ELSE [r EXCEPT !.arena.mem = [@ EXCEPT ![c] = c + Header + size, ![c + 1] = c + Header + size,
                                             ![c + 2] = prev, ![c + 3] = prev]]

(* Seeded bug: a chunk holds no object at its very end. *)
HoldsBeforeEnd(m, c, p) == c <= p /\ p < Limit(m, c)

Holds(m, c, p) == c <= p /\ p <= Limit(m, c)

(* The loop of free: what it has made of the heap after n rounds. *)
FreeChunks(a, c, p) ==
  LET freed[n \in 0 .. Rounds] ==
        IF n = 0 THEN [arena |-> a, chunk |-> c]
        ELSE LET f == freed[n - 1]
             IN  IF f.chunk = NULL \/ Holds(f.arena.mem, f.chunk, p) THEN f
                 ELSE [arena |-> XallocFree(f.arena, f.chunk), chunk |-> PrevChunk(f.arena.mem, f.chunk)]
  IN  freed[Rounds]

(* The block copyToNew asks for: in bytes obj_size + sz + (obj_size >> 3)  *)
(* + 100, rounded up by makeChunk.                                         *)
NewSize(obj, sz) == 2 * ((4 * obj + 4 * sz + obj \div 2 + 100 + 7) \div 8)

(* The client fills size words from p; object n is full of -n. *)
Fill(m, p, size, n) == [w \in DOMAIN m |-> IF w \in p .. p + size - 1 THEN -n ELSE m[w]]

(* Seeded bug: the object moves without its last word. *)
CopyShort(m, from, to, size) ==
  [w \in DOMAIN m |-> IF w \in to .. to + size - 2 THEN m[from + w - to]
                      ELSE Forget(m, from, from + size)[w]]

Copy(m, from, to, size) ==
  [w \in DOMAIN m |-> IF w \in to .. to + size - 1 THEN m[from + w - to]
                      ELSE Forget(m, from, from + size)[w]]

Empty == LET m == [w \in Start .. ArenaEnd - 1 |-> 0]
         IN  [mem |-> m, end |-> Start + Nuggie, last |-> NULL]

Init ==
  /\ asserts \in BOOLEAN
  /\ LET r == MakeChunk(Empty, NULL, ChunkSize)
     IN  /\ arena = r.arena /\ currentChunk = r.ptr
         /\ currentBase = r.ptr + Header /\ nextPos = r.ptr + Header
  /\ status = "running"
  /\ objects = <<>>

Ready == status = "running" /\ currentChunk # NULL
Room == Limit(arena.mem, currentChunk) - nextPos
Growing == nextPos # currentBase

(* No memory: the chunks are forgotten, their objects stay where they are. *)
Fail(a) ==
  /\ arena' = a /\ currentChunk' = NULL
  /\ UNCHANGED <<asserts, currentBase, nextPos, status, objects>>

(* An object of sz words at p in chunk c, which is finalized at once. *)
Bump(a, c, p, sz) ==
  /\ arena' = [a EXCEPT !.mem = Fill(@, p, sz, Len(objects) + 1)]
  /\ currentChunk' = c
  /\ currentBase' = Align(p + sz) /\ nextPos' = Align(p + sz)
  /\ objects' = Append(objects, [addr |-> p, size |-> sz])
  /\ UNCHANGED <<asserts, status>>

Malloc(sz) ==
  /\ Ready /\ Len(objects) < MaxObjects
  /\ IF sz <= Room THEN Bump(arena, currentChunk, nextPos, sz)
     ELSE LET r == MakeChunk(arena, currentChunk, sz)
          IN  IF r.ptr = NULL THEN Fail(r.arena) ELSE Bump(r.arena, r.ptr, r.ptr + Header, sz)

(* The current object, at base in chunk c, gets sz words more.  It is a    *)
(* new one if nothing was grown yet.                                       *)
Extend(a, c, base, sz) ==
  LET size == nextPos - currentBase
      n == IF Growing THEN Len(objects) ELSE Len(objects) + 1
  IN  /\ n <= MaxObjects
      /\ arena' = [a EXCEPT !.mem = Fill(@, base + size, sz, n)]
      /\ currentChunk' = c /\ currentBase' = base /\ nextPos' = base + size + sz
      /\ objects' = Append(SubSeq(objects, 1, n - 1), [addr |-> base, size |-> size + sz])
      /\ UNCHANGED <<asserts, status>>

(* grow, and copyToNew. *)
Grow(sz) ==
  LET size == nextPos - currentBase
      r == MakeChunk(arena, currentChunk, NewSize(size, sz))
      moved == [r.arena EXCEPT !.mem = Copy(@, currentBase, r.ptr + Header, size)]
  IN  /\ Ready
      /\ IF sz <= Room THEN Extend(arena, currentChunk, currentBase, sz)
         ELSE IF r.ptr = NULL THEN Fail(r.arena)
         ELSE Extend(moved, r.ptr, r.ptr + Header, sz)

Finalize ==
  /\ Ready /\ Growing
  /\ currentBase' = Align(nextPos) /\ nextPos' = Align(nextPos)
  /\ UNCHANGED <<asserts, arena, currentChunk, status, objects>>

(* free(ptr) for the object at ptr: chunks go until one holds it.  Without  *)
(* assertions it may also be called when there is no chunk left, and then  *)
(* aborts, wherever the object is.                                         *)
Free(i) ==
  LET p == objects[i].addr
      r == FreeChunks(arena, currentChunk, p)
  IN  /\ status = "running" /\ (currentChunk = NULL => ~asserts)
      /\ currentChunk' = r.chunk
      /\ IF r.chunk = NULL
         THEN status' = "stopped" /\ arena' = r.arena /\ UNCHANGED <<currentBase, nextPos, objects>>
         ELSE /\ currentBase' = p /\ nextPos' = p
              /\ arena' = [r.arena EXCEPT !.mem = Forget(@, p, Limit(@, r.chunk))]
              /\ objects' = SubSeq(objects, 1, i - 1)
              /\ UNCHANGED status
      /\ UNCHANGED asserts

(* free(NULL): every chunk goes, and a first one is made again, if there   *)
(* is memory for it.                                                       *)
FreeAll ==
  LET r == MakeChunk(FreeChunks(arena, currentChunk, NULL).arena, NULL, ChunkSize)
  IN  /\ status = "running" /\ (currentChunk = NULL => ~asserts)
      /\ arena.end < MaxEnd
      /\ arena' = r.arena /\ currentChunk' = r.ptr
      /\ currentBase' = r.ptr + Header /\ nextPos' = r.ptr + Header
      /\ objects' = <<>>
      /\ status' = IF r.ptr = NULL /\ asserts THEN "stopped" ELSE status
      /\ UNCHANGED asserts

(* After a call found no memory there is no chunk: grow reads its limit    *)
(* through the null pointer, and so does the assertion in every call.      *)
(* Without assertions malloc returns NULL again.                           *)
Stop ==
  /\ status = "running" /\ currentChunk = NULL
  /\ status' = "stopped"
  /\ UNCHANGED <<asserts, arena, position, objects>>

(* ~ObstackHeap.  After a call found no memory it starts, where nothing     *)
(* asserts, at the missing current chunk, and frees none.                  *)
Destroy ==
  /\ status = "running" /\ (currentChunk = NULL => ~asserts)
  /\ arena' = FreeChunks(arena, currentChunk, NULL).arena
  /\ status' = "done" /\ objects' = <<>>
  /\ UNCHANGED <<asserts, position>>

Next ==
  \/ \E sz \in Sizes : Malloc(sz)
  \/ \E sz \in Steps : Grow(sz)
  \/ Finalize
  \/ \E i \in 1 .. Len(objects) : Free(i)
  \/ FreeAll \/ Stop \/ Destroy

Spec == Init /\ [][Next]_vars

-----------------------------------------------------------------------------
(* Properties.                                                             *)

(* The chunks, by the links from chunk c back, which must go down. *)
ChunksFrom[c \in Start + Nuggie .. ArenaEnd - Header] ==
  LET d == PrevChunk(arena.mem, c)
  IN  IF d \in Start + Nuggie .. c - 1 THEN {c} \union ChunksFrom[d] ELSE {c}

(* The two heaps agree, though each has its own records and both lie in    *)
(* memory clients write next to: the last block is the current chunk, and  *)
(* from each chunk its size word leads back to the one its own link says,  *)
(* the one made before; each is in use and reaches up to the word before   *)
(* the next; the positions are in the newest chunk, and every object lies  *)
(* in one chunk, older ones below.  Destroyed, the heap leaves the array   *)
(* empty; that it does not, and that a legal call stops the program, only  *)
(* happens after memory ran out.                                           *)
ChunksAreStacked ==
  LET m == arena.mem
      chunks == ChunksFrom[currentChunk]
  IN  /\ status = "stopped" => arena.end > ArenaEnd
      /\ status = "done" =>
           IF currentChunk = NULL THEN arena.end > ArenaEnd
           ELSE arena.last = NULL /\ arena.end = Start + Nuggie
      /\ Ready =>
           /\ arena.end <= ArenaEnd /\ arena.last = currentChunk
           /\ ~InUse(m, arena.end) /\ Limit(m, currentChunk) + Nuggie = arena.end
           /\ \A c \in chunks :
                /\ InUse(m, c)
                /\ \/ PrevBlock(m, c) = c /\ PrevChunk(m, c) = NULL /\ c = Start + Nuggie
                   \/ \E d \in chunks :
                        /\ PrevBlock(m, c) = d /\ PrevChunk(m, c) = d
                        /\ d < c /\ Limit(m, d) + Nuggie = c
           /\ currentChunk + Header <= currentBase /\ currentBase <= nextPos
           /\ nextPos <= Limit(m, currentChunk)
           /\ \A i \in 1 .. Len(objects) :
                LET o == objects[i] IN
                /\ \E c \in chunks : c + Header <= o.addr /\ o.addr + o.size <= Limit(m, c)
                /\ i > 1 => objects[i - 1].addr + objects[i - 1].size <= o.addr

(* The obstack is a stack: no object is moved but the one that grows, none *)
(* is overwritten by a younger one, by a chunk's header or by a size word, *)
(* none goes but by a call of free for it or one below it, and when memory *)
(* runs out the objects are all still there.                               *)
Contents == [i \in 1 .. Len(objects) |->
  LET o == objects[i]
  IN  [addr |-> o.addr, size |-> o.size,
       kept |-> Cardinality({w \in o.addr .. o.addr + o.size - 1 : arena.mem[w] = -i})]]
Contract == INSTANCE StackContract WITH objects <- Contents
ImplementsStack == Contract!Spec
=============================================================================
