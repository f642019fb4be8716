---------------------------- MODULE Obstack_proofs ----------------------------
(***************************************************************************)
(* ObstackHeap over XallocHeap: the chunks and the blocks below them stay  *)
(* one stack, the objects stay in it with what was written in them, and    *)
(* the obstack implements its contract, for every size of the arena and of *)
(* the chunks, and all sizes clients ask for.                              *)
(***************************************************************************)
EXTENDS Obstack, Facts

USE ObstackAssumption DEF ObstackAssumption, NULL, Alignment, Nuggie, Header, Start, ArenaEnd

-----------------------------------------------------------------------------
(* Sizes, and the words that have a size and a bit.                        *)

LEMMA AlignFacts ==
  ASSUME NEW n \in Nat
  PROVE  Align(n) \in Nat /\ Align(n) % 2 = 0 /\ n <= Align(n) /\ (n % 2 = 0 => Align(n) = n)
BY DEF Align

LEMMA AlignBelow ==
  ASSUME NEW n \in Nat, NEW k \in Nat, k % 2 = 0, n <= k
  PROVE  Align(n) <= k
BY DEF Align

(* A size of k words, with and without the bit. *)
LEMMA SizeBits ==
  ASSUME NEW k \in Nat
  PROVE  /\ (2 * ((4 * k) \div 2)) \div 4 = k
         /\ (2 * ((4 * k + 1) \div 2)) \div 4 = k
         /\ 2 * ((4 * k) \div 2) = 4 * k
         /\ 2 * ((4 * k + 1) \div 2) = 4 * k
         /\ (4 * k) % 2 = 0 /\ (4 * k + 1) % 2 = 1
OBVIOUS

(* copyToNew asks for more than the object and what it grows by. *)
LEMMA NewSizeFits ==
  ASSUME NEW obj \in Nat, NEW sz \in Nat
  PROVE  NewSize(obj, sz) \in Nat /\ obj + sz <= NewSize(obj, sz)
<1>1. PICK h \in Nat : h = obj \div 2
  OBVIOUS
<1>2. PICK k \in Nat : k = (4 * obj + 4 * sz + h + 100 + 7) \div 8 /\ 4 * obj + 4 * sz + h + 100 < 8 * k + 1
  <2>1. PICK x \in Nat : x = 4 * obj + 4 * sz + h + 100 + 7
    BY <1>1
  <2>2. x \div 8 \in Nat /\ x < 8 * (x \div 8) + 8
    OBVIOUS
  <2> QED BY <2>1, <2>2
<1> QED BY <1>1, <1>2 DEF NewSize

-----------------------------------------------------------------------------
(* The stack of chunks, with C the set of chunks there are.                *)

Cells == Start .. ArenaEnd - 1

(* From x, a chunk or the end, the next one down is d, if there is any. *)
Below(m, C, x, d) ==
  \/ d \in C /\ m[d] + Nuggie = x
  \/ d = NULL /\ x = Start + Nuggie

Gap(x, d) == IF d = NULL THEN 0 ELSE 4 * (x - d)

Chunk(m, e, c) ==
  /\ c \in Nat /\ c % 2 = 0 /\ Start + Nuggie <= c
  /\ m[c] \in Nat /\ m[c] % 2 = 0 /\ c + Header <= m[c] /\ m[c] + Nuggie <= e

Linked(m, C, x) ==
  \E d : Below(m, C, x, d) /\ m[x - 2] = Gap(x, d) + 1 /\ m[x + 2] = d

Apart(m, C) == \A c, d \in C : c < d => m[c] + Nuggie <= d

(* The chunks of C fill m up to e, where l is the last one: each begins    *)
(* after the one before it, with the size of that in the word before and   *)
(* a link to it.                                                           *)
Stack(m, C, e, l) ==
  /\ m \in [Cells -> Int]
  /\ e \in Nat /\ e % 2 = 0 /\ Start + Nuggie <= e /\ e <= ArenaEnd
  /\ \A c \in C : Chunk(m, e, c)
  /\ Apart(m, C)
  /\ \A c \in C : Linked(m, C, c)
  /\ Below(m, C, e, l) /\ m[e - 2] = Gap(e, l)

(* Words for objects. *)
Body(m, C, w) == \E c \in C : c + Header <= w /\ w < m[c]

(* No record is among them. *)
LEMMA BodyApart ==
  ASSUME NEW m, NEW C, NEW e, NEW l, Stack(m, C, e, l), NEW w \in Int, Body(m, C, w)
  PROVE  w # e - 2 /\ \A x \in C : w # x /\ w # x - 2 /\ w # x + 2
<1>1. PICK c \in C : c + Header <= w /\ w < m[c]
  BY DEF Body
<1>2. Chunk(m, e, c)
  BY DEF Stack
<1>3. ASSUME NEW x \in C PROVE w # x /\ w # x - 2 /\ w # x + 2
  <2>1. Chunk(m, e, x)
    BY DEF Stack
  <2>2. (c < x => m[c] + Nuggie <= x) /\ (x < c => m[x] + Nuggie <= c)
    BY DEF Stack, Apart
  <2> QED BY <1>1, <1>2, <2>1, <2>2 DEF Chunk
<1>4. e \in Nat
  BY DEF Stack
<1> QED BY <1>1, <1>2, <1>3, <1>4 DEF Chunk

OnlyBodies(m, m2, C) == \A w \in Cells : m2[w] # m[w] => Body(m, C, w)

(* So what objects hold does not matter to the stack. *)
LEMMA StackFrame ==
  ASSUME NEW m, NEW C, NEW e, NEW l, Stack(m, C, e, l), NEW m2 \in [Cells -> Int],
         OnlyBodies(m, m2, C)
  PROVE  Stack(m2, C, e, l) /\ \A c \in C : m2[c] = m[c]
<1>0. Cells = 2 .. ArenaSize + 1
  BY DEF Cells
<1>1. ASSUME NEW c \in C
      PROVE  m2[c] = m[c] /\ m2[c - 2] = m[c - 2] /\ m2[c + 2] = m[c + 2]
  <2>1. Chunk(m, e, c) /\ e <= ArenaEnd /\ e \in Nat
    BY DEF Stack
  <2>2. c \in Cells /\ c - 2 \in Cells /\ c + 2 \in Cells
    BY <2>1, <1>0 DEF Chunk
  <2>3. c \in Int /\ c - 2 \in Int /\ c + 2 \in Int
    BY <2>1 DEF Chunk
  <2>4. ~Body(m, C, c) /\ ~Body(m, C, c - 2) /\ ~Body(m, C, c + 2)
    BY <2>3, BodyApart
  <2> QED BY <2>2, <2>4 DEF OnlyBodies
<1>2. m2[e - 2] = m[e - 2]
  <2>1. e \in Nat /\ 4 <= e /\ e <= ArenaEnd
    BY DEF Stack
  <2>2. e - 2 \in Cells /\ e - 2 \in Int
    BY <2>1, <1>0
  <2>3. ~Body(m, C, e - 2)
    BY <2>2, BodyApart
  <2> QED BY <2>2, <2>3 DEF OnlyBodies
<1>3. \A x, d : Below(m, C, x, d) => Below(m2, C, x, d)
  BY <1>1 DEF Below
<1>4. \A c \in C : Chunk(m2, e, c)
  BY <1>1 DEF Chunk, Stack
<1>5. Apart(m2, C)
  BY <1>1 DEF Apart, Stack
<1>6. ASSUME NEW c \in C PROVE Linked(m2, C, c)
  <2>1. PICK d : Below(m, C, c, d) /\ m[c - 2] = Gap(c, d) + 1 /\ m[c + 2] = d
    BY DEF Stack, Linked
  <2> QED BY <2>1, <1>1, <1>3 DEF Linked
<1>7. Below(m2, C, e, l) /\ m2[e - 2] = Gap(e, l)
  BY <1>2, <1>3 DEF Stack
<1> QED BY <1>1, <1>4, <1>5, <1>6, <1>7 DEF Stack

-----------------------------------------------------------------------------
(* The arena. *)

Arenas == [mem : [Cells -> Int], end : Nat, last : Nat]

(* SetSize and the bit change the two words before a block. *)
LEMMA SizeWords ==
  ASSUME NEW m \in [Cells -> Int], NEW p \in Nat, Start + Nuggie <= p, p <= ArenaEnd, NEW v \in Int
  PROVE  /\ SetSize(m, p, v) \in [Cells -> Int]
         /\ SetSize(m, p, v)[p - 2] = v
         /\ \A w \in Cells : w # p - 2 /\ w # p - 1 => SetSize(m, p, v)[w] = m[w]
<1>1. p - 2 \in Cells /\ p - 1 \in Cells
  BY DEF Cells
<1> QED BY <1>1 DEF SetSize

(* XallocHeap::malloc, when there is room: the block takes the place of    *)
(* the end, which goes up by its size and has that before it.              *)
Allocated(m, p, size, r) ==
  /\ r.ptr = p /\ r.arena \in Arenas
  /\ r.arena.end = p + size + Nuggie /\ r.arena.last = p
  /\ r.arena.mem[p + size] = 4 * (size + Nuggie)
  /\ r.arena.mem[p - 2] = 2 * (m[p - 2] \div 2) + 1
  /\ \A w \in Cells : w < p - 2 => r.arena.mem[w] = m[w]
  /\ DOMAIN r = {"ptr", "arena"}

LEMMA XallocMallocFits ==
  ASSUME NEW a \in Arenas, NEW size \in Nat, size % 2 = 0,
         a.end % 2 = 0, Start + Nuggie <= a.end, a.end + size < ArenaEnd
  PROVE  Allocated(a.mem, a.end, size, XallocMalloc(a, size))
<1>1. PICK p \in Nat, m \in [Cells -> Int] : p = a.end /\ m = a.mem
  BY DEF Arenas
<1>2. p % 2 = 0 /\ Start + Nuggie <= p /\ p + size < ArenaEnd
  BY <1>1
<1>3. PICK end \in Nat : end = p + size + 2 /\ end <= ArenaEnd
  BY <1>2
<1>4. Align(size + Nuggie) = size + 2
  BY AlignFacts
<1>5. PICK m1 \in [Cells -> Int] :
        /\ m1 = SetSize(m, end, 4 * (size + 2)) /\ m1[p + size] = 4 * (size + 2)
        /\ \A w \in Cells : w # p + size /\ w # p + size + 1 => m1[w] = m[w]
  <2>1. Start + Nuggie <= end /\ end - 2 = p + size /\ end - 1 = p + size + 1 /\ 4 * (size + 2) \in Int
    BY <1>2, <1>3
  <2> QED BY <2>1, <1>3, SizeWords
<1>6. p - 2 \in Cells /\ p + size \in Cells
  BY <1>2 DEF Cells
<1>7. m1[p - 2] = m[p - 2] /\ m1[p - 2] \in Int
  BY <1>5, <1>6
<1>8. PICK m2 \in [Cells -> Int] :
        /\ m2 = SetUse(m1, p) /\ m2[p - 2] = 2 * (m[p - 2] \div 2) + 1
        /\ \A w \in Cells : w # p - 2 /\ w # p - 1 => m2[w] = m1[w]
  <2>1. 2 * (m1[p - 2] \div 2) + 1 \in Int /\ p <= ArenaEnd
    BY <1>2, <1>7
  <2>2. SetUse(m1, p) = SetSize(m1, p, 2 * (m1[p - 2] \div 2) + 1)
    BY DEF SetUse, SizeLval
  <2> QED BY <2>1, <2>2, <1>2, <1>7, SizeWords
<1>9. XallocMalloc(a, size) = [ptr |-> p, arena |-> [mem |-> m2, end |-> end, last |-> p]]
  <2>1. ~(p + size >= ArenaEnd) /\ p + (size + 2) = end /\ end - p = size + 2
    BY <1>2, <1>3
  <2> QED BY <2>1, <1>1, <1>4, <1>5, <1>8 DEF XallocMalloc
<1>10. \A w \in Cells : w < p - 2 => m2[w] = m[w]
  <2> SUFFICES ASSUME NEW w \in Cells, w < p - 2 PROVE m2[w] = m[w]
    OBVIOUS
  <2>1. w # p - 2 /\ w # p - 1 /\ w # p + size /\ w # p + size + 1
    BY DEF Cells
  <2> QED BY <2>1, <1>5, <1>8
<1>11. m2[p + size] = 4 * (size + Nuggie)
  BY <1>5, <1>6, <1>8
<1> QED BY <1>1, <1>3, <1>8, <1>9, <1>10, <1>11 DEF Allocated, Arenas

(* makeChunk, when there is memory: a chunk with room for sz words at the  *)
(* end of the array, on top of those of C.                                 *)
Made(a, C, sz, r) ==
  /\ r.ptr = a.end /\ r.arena \in Arenas /\ r.arena.last = r.ptr
  /\ Stack(r.arena.mem, C \union {r.ptr}, r.arena.end, r.ptr)
  /\ r.ptr + Header + sz <= r.arena.mem[r.ptr]
  /\ \A w \in Cells : w < a.end - 2 => r.arena.mem[w] = a.mem[w]

(* And when there is none. *)
NotMade(a, r) ==
  /\ r.ptr = NULL /\ r.arena = [a EXCEPT !.end = r.arena.end]
  /\ r.arena.end \in Nat /\ ArenaEnd < r.arena.end

ChunkRoom(sz) == Align(IF sz > ChunkSize - Header THEN sz ELSE ChunkSize - Header)

LEMMA ChunkRoomFacts ==
  ASSUME NEW sz \in Nat
  PROVE  ChunkRoom(sz) \in Nat /\ ChunkRoom(sz) % 2 = 0 /\ sz <= ChunkRoom(sz)
<1>1. ChunkSize - Header \in Nat
  OBVIOUS
<1> QED BY <1>1, AlignFacts DEF ChunkRoom

LEMMA MakeChunkFails ==
  ASSUME NEW a \in Arenas, NEW prev, NEW sz \in Nat,
         ArenaEnd <= a.end + Header + ChunkRoom(sz)
  PROVE  NotMade(a, MakeChunk(a, prev, sz))
<1>1. PICK size \in Nat : size = ChunkRoom(sz) /\ size % 2 = 0
  BY ChunkRoomFacts
<1>2. Align(Header + size + Nuggie) = size + 6
  <2>1. Header + size + Nuggie \in Nat /\ (Header + size + Nuggie) % 2 = 0
    BY <1>1
  <2> QED BY <2>1, AlignFacts
<1>3. a.end + (Header + size) >= ArenaEnd /\ a.end \in Nat
  BY <1>1 DEF Arenas
<1>4. XallocMalloc(a, Header + size) = [ptr |-> NULL, arena |-> [a EXCEPT !.end = a.end + (size + 6)]]
  BY <1>2, <1>3 DEF XallocMalloc
<1>5. MakeChunk(a, prev, sz) = XallocMalloc(a, Header + size)
  BY <1>1, <1>4 DEF MakeChunk, ChunkRoom
<1> QED BY <1>3, <1>4, <1>5 DEF NotMade, Arenas

LEMMA MakeChunkFits ==
  ASSUME NEW a \in Arenas, NEW C, Stack(a.mem, C, a.end, a.last), NEW sz \in Nat,
         a.end + Header + ChunkRoom(sz) < ArenaEnd
  PROVE  Made(a, C, sz, MakeChunk(a, a.last, sz))
<1>1. PICK size \in Nat : size = ChunkRoom(sz) /\ size % 2 = 0 /\ sz <= size
  BY ChunkRoomFacts
<1>2. PICK p \in Nat, m \in [Cells -> Int], l \in Nat : p = a.end /\ m = a.mem /\ l = a.last
  BY DEF Arenas
<1>3. Stack(m, C, p, l) /\ p % 2 = 0 /\ Start + Nuggie <= p /\ p + Header + size < ArenaEnd
  BY <1>1, <1>2 DEF Stack
<1>4. PICK r : r = XallocMalloc(a, Header + size) /\ Allocated(m, p, Header + size, r)
  <2>1. Header + size \in Nat /\ (Header + size) % 2 = 0 /\ a.end + (Header + size) < ArenaEnd
    BY <1>1, <1>2, <1>3
  <2> QED BY <2>1, <1>2, <1>3, XallocMallocFits
<1>5. PICK m1 \in [Cells -> Int] :
        /\ m1 = r.arena.mem /\ m1[p + 4 + size] = 4 * (size + 6)
        /\ m1[p - 2] = 2 * (m[p - 2] \div 2) + 1
        /\ \A w \in Cells : w < p - 2 => m1[w] = m[w]
  BY <1>4 DEF Allocated, Arenas
<1>6. PICK m2 : m2 = [m1 EXCEPT ![p] = p + Header + size, ![p + 1] = p + Header + size,
                                ![p + 2] = l, ![p + 3] = l]
  OBVIOUS
<1>7. p \in Cells /\ p + 1 \in Cells /\ p + 2 \in Cells /\ p + 3 \in Cells /\ p + 4 + size \in Cells /\ p - 2 \in Cells
  BY <1>3 DEF Cells
<1>8. /\ m2 \in [Cells -> Int]
      /\ m2[p] = p + 4 + size /\ m2[p + 2] = l /\ m2[p + 4 + size] = 4 * (size + 6)
      /\ m2[p - 2] = 2 * (m[p - 2] \div 2) + 1
      /\ \A w \in Cells : w < p - 2 => m2[w] = m[w]
  BY <1>5, <1>6, <1>7
<1>9. PICK q : /\ q = MakeChunk(a, a.last, sz) /\ q.ptr = p
               /\ q.arena = [mem |-> m2, end |-> p + size + 6, last |-> p]
  <2>1. r.ptr # NULL /\ r.ptr = p /\ r.arena.end = p + size + 6 /\ r.arena.last = p /\ r.arena \in Arenas
    BY <1>3, <1>4 DEF Allocated
  <2>2. MakeChunk(a, l, sz) =
          [r EXCEPT !.arena.mem = [@ EXCEPT ![p] = p + Header + size, ![p + 1] = p + Header + size,
                                            ![p + 2] = l, ![p + 3] = l]]
    BY <1>1, <1>4, <2>1 DEF MakeChunk, ChunkRoom
  <2>3. DOMAIN r = {"ptr", "arena"}
    BY <1>4 DEF Allocated
  <2>4. MakeChunk(a, l, sz).ptr = p /\ MakeChunk(a, l, sz).arena = [r.arena EXCEPT !.mem = m2]
    BY <2>1, <2>2, <2>3, <1>5, <1>6
  <2> QED BY <1>2, <2>1, <2>4 DEF Arenas
<1>10. PICK e \in Nat : e = p + size + 6 /\ e % 2 = 0 /\ Start + Nuggie <= e /\ e <= ArenaEnd
  BY <1>1, <1>3
<1>11. \A c \in C : c \in Nat /\ c + 6 <= p /\ m2[c] = m[c] /\ m2[c - 2] = m[c - 2] /\ m2[c + 2] = m[c + 2] /\ Chunk(m, p, c)
  <2> SUFFICES ASSUME NEW c \in C
               PROVE  c \in Nat /\ c + 6 <= p /\ m2[c] = m[c] /\ m2[c - 2] = m[c - 2] /\ m2[c + 2] = m[c + 2] /\ Chunk(m, p, c)
    OBVIOUS
  <2>1. Chunk(m, p, c)
    BY <1>3 DEF Stack
  <2>2. c \in Nat /\ 4 <= c /\ c + 6 <= p
    BY <2>1 DEF Chunk
  <2>4. p < ArenaEnd /\ Cells = 2 .. ArenaSize + 1
    BY <1>3 DEF Cells
  <2>3. c \in Cells /\ c - 2 \in Cells /\ c + 2 \in Cells /\ c < p - 2 /\ c - 2 < p - 2 /\ c + 2 < p - 2
    BY <2>2, <2>4
  <2> QED BY <2>1, <2>2, <2>3, <1>8
<1>12. \A x, d : Below(m, C, x, d) => Below(m2, C \union {p}, x, d)
  BY <1>11 DEF Below
<1>13. ASSUME NEW c \in C \union {p} PROVE Chunk(m2, e, c)
  <2>1. CASE c \in C
    BY <2>1, <1>3, <1>10, <1>11 DEF Chunk
  <2>2. CASE c = p
    <3>1. (p + 4 + size) % 2 = 0
      BY <1>1, <1>3
    <3> QED BY <2>2, <3>1, <1>1, <1>3, <1>8, <1>10 DEF Chunk
  <2> QED BY <2>1, <2>2
<1>14. Apart(m2, C \union {p})
  <2>1. \A c \in C : m[c] + Nuggie <= p /\ c < p
    BY <1>11 DEF Chunk
  <2>2. \A c, d \in C : c < d => m2[c] + Nuggie <= d
    BY <1>3, <1>11 DEF Stack, Apart
  <2>3. \A c \in C : ~(p < c)
    BY <2>1, <1>11
  <2> QED BY <2>1, <2>2, <2>3, <1>11 DEF Apart
<1>15. ASSUME NEW c \in C \union {p} PROVE Linked(m2, C \union {p}, c)
  <2>1. CASE c \in C
    <3>1. PICK d : Below(m, C, c, d) /\ m[c - 2] = Gap(c, d) + 1 /\ m[c + 2] = d
      BY <2>1, <1>3 DEF Stack, Linked
    <3> QED BY <2>1, <3>1, <1>11, <1>12 DEF Linked
  <2>2. CASE c = p
    <3>1. Below(m, C, p, l) /\ m[p - 2] = Gap(p, l)
      BY <1>3 DEF Stack
    <3>2. \E k \in Nat : Gap(p, l) = 4 * k
      <4>1. l = NULL \/ l < p
        BY <3>1, <1>11 DEF Below
      <4>2. l = NULL => Gap(p, l) = 4 * 0
        BY DEF Gap
      <4>3. l # NULL => Gap(p, l) = 4 * (p - l)
        BY DEF Gap
      <4> QED BY <4>1, <4>2, <4>3
    <3>3. m2[p - 2] = Gap(p, l) + 1
      BY <3>1, <3>2, <1>8, SizeBits
    <3> QED BY <2>2, <3>1, <3>3, <1>8, <1>12 DEF Linked
  <2> QED BY <2>1, <2>2
<1>16. Below(m2, C \union {p}, e, p) /\ m2[e - 2] = Gap(e, p)
  <2>1. p # 0 /\ e - p = size + 6 /\ e - 2 = p + 4 + size
    BY <1>3, <1>10
  <2> QED BY <2>1, <1>8, <1>10 DEF Below, Gap
<1>17. Stack(m2, C \union {p}, e, p)
  BY <1>8, <1>10, <1>13, <1>14, <1>15, <1>16 DEF Stack
<1>18. q.arena \in Arenas /\ q.arena.mem = m2 /\ q.arena.end = e /\ q.arena.last = p
  BY <1>8, <1>9, <1>10 DEF Arenas
<1>19. p + Header + sz <= m2[p]
  BY <1>1, <1>8
<1> QED BY <1>2, <1>8, <1>9, <1>17, <1>18, <1>19 DEF Made

-----------------------------------------------------------------------------
(* Memory taken back.                                                      *)

LEMMA ForgetType ==
  ASSUME NEW m \in [Cells -> Int], NEW from \in Int, NEW to \in Int
  PROVE  /\ Forget(m, from, to) \in [Cells -> Int]
         /\ \A w \in Cells : w < from \/ to <= w => Forget(m, from, to)[w] = m[w]
<1>1. Cells \subseteq Int
  BY DEF Cells
<1> QED BY <1>1 DEF Forget

(* The loop of XallocHeap::free stops where it is when the block below is  *)
(* in use, or there is none.                                               *)
IsRetreat(back, m, p) ==
  back = [n \in 0 .. Rounds |->
            IF n = 0 THEN p
            ELSE LET b == back[n - 1]
                     q == PrevBlock(m, b)
                 IN  IF q # b /\ ~InUse(m, q) THEN q ELSE b]

LEMMA RoundsType == Rounds \in Nat /\ ArenaSize < 6 * Rounds + 6
BY DEF Rounds

LEMMA RetreatStays ==
  ASSUME NEW m, NEW p, PrevBlock(m, p) = p \/ InUse(m, PrevBlock(m, p))
  PROVE  Retreat(m, p) = [mem |-> Forget(m, p, ArenaEnd), end |-> p,
                          last |-> IF PrevBlock(m, p) = p THEN NULL ELSE PrevBlock(m, p)]
<1>1. IsRetreat([n \in 0 .. Rounds |-> p], m, p)
  BY RoundsType DEF IsRetreat
<1>2. PICK back : back = CHOOSE f : IsRetreat(f, m, p)
  OBVIOUS
<1>3. IsRetreat(back, m, p)
  BY <1>1, <1>2
<1>4. \A n \in Nat : n <= Rounds => back[n] = p
  <2>1. PICK T : T = {n \in Nat : n <= Rounds => back[n] = p}
    OBVIOUS
  <2>2. 0 \in T
    BY <1>3, <2>1, RoundsType DEF IsRetreat
  <2>3. ASSUME NEW n \in Nat, n \in T PROVE n + 1 \in T
    <3>1. CASE n + 1 <= Rounds
      <4>1. back[n] = p
        BY <2>1, <2>3, <3>1, RoundsType
      <4>2. n + 1 \in 0 .. Rounds /\ n + 1 # 0 /\ (n + 1) - 1 = n
        BY <3>1, RoundsType
      <4>3. back[n + 1] = p
        BY <1>3, <4>1, <4>2 DEF IsRetreat
      <4> QED BY <2>1, <4>3
    <3>2. CASE ~(n + 1 <= Rounds)
      BY <2>1, <3>2
    <3> QED BY <3>1, <3>2
  <2>4. Nat \subseteq T
    BY <2>2, <2>3, SetInduction
  <2> QED BY <2>1, <2>4
<1>5. back[Rounds] = p
  BY <1>4, RoundsType
<1>6. Retreat(m, p) =
        [mem |-> Forget(m, back[Rounds], ArenaEnd), end |-> back[Rounds],
         last |-> IF PrevBlock(m, back[Rounds]) = back[Rounds] THEN NULL ELSE PrevBlock(m, back[Rounds])]
  BY <1>2 DEF Retreat, IsRetreat
<1> QED BY <1>5, <1>6

(* What free has done with chunk l, the last of those of C. *)
Lower(C, x) == {c \in C : c < x}

Freed(a, C, l, r) ==
  /\ r \in Arenas /\ r.end = l /\ r.last = PrevChunk(a.mem, l)
  /\ Stack(r.mem, Lower(C, l), l, r.last)
  /\ \A w \in Cells : w < l - 2 => r.mem[w] = a.mem[w]

(* The chunks below one are whole, and lie below it. *)
LEMMA LowerChunks ==
  ASSUME NEW m, NEW C, NEW e, NEW l, Stack(m, C, e, l), NEW x \in C, NEW c \in Lower(C, x)
  PROVE  Chunk(m, x, c) /\ c \in Nat /\ Start + Nuggie <= c /\ c + 6 <= x /\ x \in Nat
<1>1. c \in C /\ c < x
  BY DEF Lower
<1>2. Chunk(m, e, c) /\ Chunk(m, e, x)
  BY <1>1 DEF Stack
<1>3. m[c] + Nuggie <= x
  BY <1>1 DEF Stack, Apart
<1> QED BY <1>2, <1>3 DEF Chunk

(* The last chunk is above all others. *)
LEMMA LastIsTop ==
  ASSUME NEW m, NEW C, NEW e, NEW l, Stack(m, C, e, l), l # NULL
  PROVE  l \in C /\ Chunk(m, e, l) /\ m[l] + Nuggie = e /\ \A c \in C : c = l \/ c \in Lower(C, l)
<1>1. l \in C /\ m[l] + Nuggie = e
  BY DEF Stack, Below
<1>2. \A c \in C : Chunk(m, e, c) /\ Chunk(m, e, l)
  BY <1>1 DEF Stack
<1>3. ASSUME NEW c \in C PROVE c = l \/ c \in Lower(C, l)
  <2>1. l < c => m[l] + Nuggie <= c
    BY <1>1 DEF Stack, Apart
  <2>2. c \in Nat /\ l \in Nat /\ m[c] \in Nat /\ c + Header <= m[c] /\ m[c] + Nuggie <= e
    BY <1>2 DEF Chunk
  <2>3. e \in Nat
    BY DEF Stack
  <2>4. ~(l < c)
    BY <1>1, <2>1, <2>2, <2>3
  <2> QED BY <2>2, <2>4 DEF Lower
<1> QED BY <1>1, <1>2, <1>3

LEMMA FreeTop ==
  ASSUME NEW a \in Arenas, NEW C, Stack(a.mem, C, a.end, a.last), a.last # NULL
  PROVE  Freed(a, C, a.last, XallocFree(a, a.last))
<1>1. PICK m \in [Cells -> Int], e \in Nat, l \in Nat : m = a.mem /\ e = a.end /\ l = a.last /\ Stack(m, C, e, l)
  BY DEF Arenas
<1>2. l \in C /\ l % 2 = 0 /\ 4 <= l /\ l + 6 <= e /\ e <= ArenaEnd
  BY <1>1, LastIsTop DEF Chunk, Stack
<1>3. l - 2 \in Cells /\ l - 1 \in Cells
  BY <1>2 DEF Cells
<1>4. PICK d : Below(m, C, l, d) /\ m[l - 2] = Gap(l, d) + 1 /\ m[l + 2] = d
  BY <1>1, <1>2 DEF Stack, Linked
<1>5. /\ d \in Nat
      /\ d # NULL => d \in Lower(C, l) /\ m[d] + Nuggie = l
      /\ d = NULL => l = Start + Nuggie
  <2>1. CASE d = NULL
    <3>1. d \notin C
      BY <1>1, <2>1 DEF Stack, Chunk
    <3> QED BY <1>4, <2>1, <3>1 DEF Below
  <2>2. CASE d # NULL
    <3>1. d \in C /\ m[d] + Nuggie = l
      BY <1>4, <2>2 DEF Below
    <3>2. Chunk(m, e, d)
      BY <1>1, <3>1 DEF Stack
    <3>3. d < l
      BY <3>1, <3>2 DEF Chunk
    <3> QED BY <2>2, <3>1, <3>2, <3>3 DEF Chunk, Lower
  <2> QED BY <2>1, <2>2
<1>6. PICK k \in Nat : /\ Gap(l, d) = 4 * k
                       /\ d = NULL => k = 0
                       /\ d # NULL => k = l - d
  <2>1. CASE d = NULL
    <3>1. Gap(l, d) = 4 * 0
      BY <2>1 DEF Gap
    <3> QED BY <2>1, <3>1
  <2>2. CASE d # NULL
    <3>1. Gap(l, d) = 4 * (l - d) /\ l - d \in Nat
      BY <1>5, <2>2 DEF Gap, Lower
    <3> QED BY <2>2, <3>1
  <2> QED BY <2>1, <2>2
<1>7. PICK m1 \in [Cells -> Int] :
        /\ m1 = ClearUse(m, l) /\ m1[l - 2] = 4 * k
        /\ \A w \in Cells : w # l - 2 /\ w # l - 1 => m1[w] = m[w]
  <2>1. 2 * (SizeLval(m, l) \div 2) = 4 * k
    BY <1>4, <1>6, SizeBits DEF SizeLval
  <2>2. ClearUse(m, l) = SetSize(m, l, 4 * k)
    BY <2>1 DEF ClearUse
  <2> QED BY <2>2, <1>2, SizeWords
<1>8. PrevBlock(m1, l) = l - k
  BY <1>7, SizeBits DEF PrevBlock, SizeLval
<1>9. PrevBlock(m1, l) = l \/ InUse(m1, PrevBlock(m1, l))
  <2>1. CASE d = NULL
    BY <2>1, <1>6, <1>8
  <2>2. CASE d # NULL
    <3>1. PrevBlock(m1, l) = d
      BY <2>2, <1>5, <1>6, <1>8
    <3>2. d \in C /\ d \in Nat /\ 4 <= d /\ d + 6 <= l
      BY <2>2, <1>1, <1>2, <1>5, LowerChunks DEF Lower
    <3>3. PICK b : Below(m, C, d, b) /\ m[d - 2] = Gap(d, b) + 1
      BY <3>2, <1>1 DEF Stack, Linked
    <3>4. PICK j \in Nat : Gap(d, b) = 4 * j
      <4>1. CASE b = NULL
        <5>1. Gap(d, b) = 4 * 0
          BY <4>1 DEF Gap
        <5> QED BY <5>1
      <4>2. CASE b # NULL
        <5>1. b \in C /\ m[b] + Nuggie = d
          BY <3>3, <4>2 DEF Below
        <5>2. Chunk(m, e, b)
          BY <5>1, <1>1 DEF Stack
        <5>3. Gap(d, b) = 4 * (d - b) /\ d - b \in Nat
          BY <3>2, <4>2, <5>1, <5>2 DEF Gap, Chunk
        <5> QED BY <5>3
      <4> QED BY <4>1, <4>2
    <3>5. m1[d - 2] = m[d - 2]
      <4>1. d - 2 \in Cells /\ d - 2 # l - 2 /\ d - 2 # l - 1
        BY <1>2, <3>2 DEF Cells
      <4> QED BY <4>1, <1>7
    <3>6. InUse(m1, d)
      BY <3>3, <3>4, <3>5, SizeBits DEF InUse, SizeLval
    <3> QED BY <3>1, <3>6
  <2> QED BY <2>1, <2>2
<1>10. PICK m2 \in [Cells -> Int] :
         /\ m2 = Forget(m1, l, ArenaEnd)
         /\ m2[l - 2] = 4 * k
         /\ \A w \in Cells : w < l - 2 => m2[w] = m[w]
  <2>1. Forget(m1, l, ArenaEnd) \in [Cells -> Int]
    BY ForgetType
  <2>2. \A w \in Cells : w < l => Forget(m1, l, ArenaEnd)[w] = m1[w]
    BY ForgetType
  <2>3. \A w \in Cells : w < l - 2 => m1[w] = m[w] /\ w < l
    <3>1. \A w \in Cells : w \in Int
      BY DEF Cells
    <3> QED BY <3>1, <1>7
  <2>4. l - 2 < l
    OBVIOUS
  <2> QED BY <2>1, <2>2, <2>3, <2>4, <1>3, <1>7
<1>11. PICK r : r = XallocFree(a, l) /\ r = [mem |-> m2, end |-> l, last |-> d]
  <2>1. XallocFree(a, l) = Retreat(m1, l)
    BY <1>1, <1>7 DEF XallocFree
  <2>2. (IF PrevBlock(m1, l) = l THEN NULL ELSE PrevBlock(m1, l)) = d
    BY <1>5, <1>6, <1>8 DEF Lower
  <2>3. Retreat(m1, l) = [mem |-> m2, end |-> l, last |-> d]
    BY <1>9, <1>10, <2>2, RetreatStays
  <2> QED BY <2>1, <2>3
<1>12. \A c \in Lower(C, l) :
         /\ c \in C /\ c \in Nat /\ 4 <= c /\ c + 6 <= l /\ Chunk(m, l, c)
         /\ m2[c] = m[c] /\ m2[c - 2] = m[c - 2] /\ m2[c + 2] = m[c + 2]
  <2> SUFFICES ASSUME NEW c \in Lower(C, l)
               PROVE  /\ c \in C /\ c \in Nat /\ 4 <= c /\ c + 6 <= l /\ Chunk(m, l, c)
                      /\ m2[c] = m[c] /\ m2[c - 2] = m[c - 2] /\ m2[c + 2] = m[c + 2]
    OBVIOUS
  <2>1. c \in C /\ c \in Nat /\ 4 <= c /\ c + 6 <= l /\ Chunk(m, l, c)
    BY <1>1, <1>2, LowerChunks DEF Lower
  <2>2. c \in Cells /\ c - 2 \in Cells /\ c + 2 \in Cells /\ c < l - 2 /\ c - 2 < l - 2 /\ c + 2 < l - 2
    <3>1. l <= ArenaEnd /\ Cells = 2 .. ArenaSize + 1
      BY <1>2 DEF Cells
    <3> QED BY <2>1, <3>1
  <2> QED BY <2>1, <2>2, <1>10
<1>13. \A x, y : Below(m, C, x, y) /\ x \in Nat /\ x <= l => Below(m2, Lower(C, l), x, y)
  <2> SUFFICES ASSUME NEW x \in Nat, NEW y, Below(m, C, x, y), x <= l
               PROVE  Below(m2, Lower(C, l), x, y)
    OBVIOUS
  <2>1. CASE y \in C /\ m[y] + Nuggie = x
    <3>1. Chunk(m, e, y)
      BY <2>1, <1>1 DEF Stack
    <3>2. y \in Lower(C, l)
      BY <2>1, <3>1 DEF Chunk, Lower
    <3> QED BY <2>1, <3>2, <1>12 DEF Below
  <2>2. CASE y = NULL /\ x = Start + Nuggie
    BY <2>2 DEF Below
  <2> QED BY <2>1, <2>2 DEF Below
<1>14. \A c \in Lower(C, l) : Chunk(m2, l, c)
  BY <1>12 DEF Chunk
<1>15. Apart(m2, Lower(C, l))
  BY <1>1, <1>12 DEF Apart, Stack
<1>16. ASSUME NEW c \in Lower(C, l) PROVE Linked(m2, Lower(C, l), c)
  <2>1. c \in C /\ c \in Nat /\ c <= l
    BY <1>12 DEF Lower
  <2>2. PICK b : Below(m, C, c, b) /\ m[c - 2] = Gap(c, b) + 1 /\ m[c + 2] = b
    BY <2>1, <1>1 DEF Stack, Linked
  <2> QED BY <2>1, <2>2, <1>12, <1>13 DEF Linked
<1>17. Below(m2, Lower(C, l), l, d) /\ m2[l - 2] = Gap(l, d)
  BY <1>4, <1>6, <1>10, <1>13
<1>18. Stack(m2, Lower(C, l), l, d)
  <2>1. l \in Nat /\ l % 2 = 0 /\ Start + Nuggie <= l /\ l <= ArenaEnd
    BY <1>2
  <2> QED BY <2>1, <1>10, <1>14, <1>15, <1>16, <1>17 DEF Stack
<1>19. r \in Arenas /\ r.mem = m2 /\ r.end = l /\ r.last = d
  BY <1>5, <1>10, <1>11 DEF Arenas
<1> QED BY <1>1, <1>4, <1>10, <1>11, <1>18, <1>19 DEF Freed, PrevChunk

-----------------------------------------------------------------------------
(* The loop of ObstackHeap::free.                                          *)

States == [arena : Arenas, chunk : Nat]

Stops(s, p) == s.chunk = NULL \/ Holds(s.arena.mem, s.chunk, p)

Round(s, p) ==
  IF s.chunk = NULL \/ Holds(s.arena.mem, s.chunk, p) THEN s
  ELSE [arena |-> XallocFree(s.arena, s.chunk), chunk |-> PrevChunk(s.arena.mem, s.chunk)]

(* On its way from arena a with the chunks of C: those from the end up are *)
(* gone, and did not hold p; those below are as they were.                 *)
OnTheWay(a, C, p, s) ==
  /\ s \in States /\ s.chunk = s.arena.last /\ s.arena.end <= a.end
  /\ Stack(s.arena.mem, Lower(C, s.arena.end), s.arena.end, s.chunk)
  /\ \A w \in Cells : w < s.arena.end - 2 => s.arena.mem[w] = a.mem[w]
  /\ \A c \in C : s.arena.end <= c => ~Holds(a.mem, c, p)

LEMMA StartOfWay ==
  ASSUME NEW a \in Arenas, NEW C, Stack(a.mem, C, a.end, a.last), NEW p
  PROVE  OnTheWay(a, C, p, [arena |-> a, chunk |-> a.last])
<1>1. PICK m \in [Cells -> Int], e \in Nat, l \in Nat : m = a.mem /\ e = a.end /\ l = a.last /\ Stack(m, C, e, l)
  BY DEF Arenas
<1>2. \A c \in C : c \in Nat /\ c < e
  BY <1>1 DEF Stack, Chunk
<1>3. Lower(C, e) = C
  BY <1>2 DEF Lower
<1>4. PICK s : s = [arena |-> a, chunk |-> a.last]
  OBVIOUS
<1>5. s \in States /\ s.arena = a /\ s.chunk = l
  BY <1>1, <1>4 DEF States
<1>6. \A c \in C : ~(e <= c)
  BY <1>2
<1>7. OnTheWay(a, C, p, s)
  BY <1>1, <1>3, <1>5, <1>6 DEF OnTheWay
<1> QED BY <1>4, <1>7

LEMMA RoundOnTheWay ==
  ASSUME NEW a \in Arenas, NEW C, Stack(a.mem, C, a.end, a.last), NEW p,
         NEW s, OnTheWay(a, C, p, s)
  PROVE  /\ OnTheWay(a, C, p, Round(s, p))
         /\ Stops(s, p) => Round(s, p) = s
         /\ ~Stops(s, p) => Round(s, p).arena.end + 6 <= s.arena.end
<1>1. CASE Stops(s, p)
  <2>1. Round(s, p) = s
    BY <1>1 DEF Stops, Round
  <2> QED BY <1>1, <2>1
<1>2. CASE ~Stops(s, p)
  <2>0. PICK D : D = Lower(C, s.arena.end)
    OBVIOUS
  <2>1. PICK b \in Arenas, l \in Nat, e \in Nat :
          /\ b = s.arena /\ D = Lower(C, e) /\ l = s.chunk /\ l = b.last /\ l # NULL /\ e = b.end
          /\ Stack(b.mem, D, e, l) /\ e <= a.end
          /\ \A w \in Cells : w < e - 2 => b.mem[w] = a.mem[w]
          /\ \A c \in C : e <= c => ~Holds(a.mem, c, p)
    <3>1. PICK b \in Arenas : b = s.arena
      BY DEF OnTheWay, States
    <3>2. b.last \in Nat /\ b.end \in Nat
      BY DEF Arenas
    <3> QED BY <1>2, <2>0, <3>1, <3>2 DEF OnTheWay, Stops
  <2>2. PICK r : r = XallocFree(b, l) /\ Freed(b, D, l, r)
    BY <2>1, FreeTop
  <2>3. PICK t : t = Round(s, p) /\ t = [arena |-> r, chunk |-> PrevChunk(b.mem, l)]
    BY <1>2, <2>1, <2>2 DEF Round, Stops
  <2>4. t \in States /\ t.arena = r /\ t.chunk = r.last /\ r.end = l
    BY <2>2, <2>3 DEF States, Freed, Arenas
  <2>5. l \in D /\ l \in C /\ 4 <= l /\ l + 6 <= e /\ e <= ArenaEnd /\ \A c \in D : c = l \/ c \in Lower(D, l)
    BY <2>1, LastIsTop DEF Chunk, Stack, Lower
  <2>6. \A c \in C : c \in Nat
    BY DEF Stack, Chunk
  <2>7. Lower(D, l) = Lower(C, l)
    <3>1. \A c : c \in C /\ c < l => c < e
      BY <2>5, <2>6
    <3> QED BY <2>1, <3>1 DEF Lower
  <2>8. Stack(r.mem, Lower(C, l), l, r.last)
    BY <2>2, <2>7 DEF Freed
  <2>9. l \in Cells /\ l < e - 2
    BY <2>5 DEF Cells
  <2>10. \A c \in C : l <= c => ~Holds(a.mem, c, p)
    <3> SUFFICES ASSUME NEW c \in C, l <= c PROVE ~Holds(a.mem, c, p)
      OBVIOUS
    <3>1. CASE e <= c
      BY <3>1, <2>1
    <3>2. CASE ~(e <= c)
      <4>1. c \in D
        BY <3>2, <2>1, <2>6 DEF Lower
      <4>2. c = l
        BY <4>1, <2>5, <2>6 DEF Lower
      <4>3. a.mem[l] = b.mem[l]
        BY <2>1, <2>9
      <4>4. ~Holds(b.mem, l, p)
        BY <1>2, <2>1 DEF Stops
      <4> QED BY <4>2, <4>3, <4>4 DEF Holds, Limit
    <3> QED BY <3>1, <3>2
  <2>11. \A w \in Cells : w < l - 2 => r.mem[w] = a.mem[w]
    <3> SUFFICES ASSUME NEW w \in Cells, w < l - 2 PROVE r.mem[w] = a.mem[w]
      OBVIOUS
    <3>1. w < e - 2
      BY <2>5 DEF Cells
    <3> QED BY <3>1, <2>1, <2>2 DEF Freed
  <2>12. l <= a.end /\ a.end \in Nat
    BY <2>1, <2>5 DEF Arenas
  <2>13. OnTheWay(a, C, p, t)
    BY <2>4, <2>8, <2>10, <2>11, <2>12 DEF OnTheWay
  <2>14. t.arena.end + 6 <= s.arena.end
    BY <2>1, <2>4, <2>5
  <2> QED BY <1>2, <2>3, <2>13, <2>14
<1> QED BY <1>1, <1>2

IsFreed(freed, a, c, p) ==
  freed = [n \in 0 .. Rounds |->
             IF n = 0 THEN [arena |-> a, chunk |-> c]
             ELSE LET f == freed[n - 1]
                  IN  IF f.chunk = NULL \/ Holds(f.arena.mem, f.chunk, p) THEN f
                      ELSE [arena |-> XallocFree(f.arena, f.chunk),
                            chunk |-> PrevChunk(f.arena.mem, f.chunk)]]

LEMMA FreedExists ==
  ASSUME NEW a \in Arenas, NEW C, Stack(a.mem, C, a.end, a.last), NEW p
  PROVE  \E f : IsFreed(f, a, a.last, p)
<1>1. PICK D : D = {s \in States : OnTheWay(a, C, p, s)}
  OBVIOUS
<1>2. PICK h : h = [arena |-> a, chunk |-> a.last] /\ h \in D
  BY <1>1, StartOfWay DEF OnTheWay
<1>3. PICK next : next = [s \in D |-> Round(s, p)]
  OBVIOUS
<1>4. ASSUME NEW s \in D PROVE next[s] = Round(s, p) /\ Round(s, p) \in D
  <2>1. OnTheWay(a, C, p, s)
    BY <1>1
  <2>2. OnTheWay(a, C, p, Round(s, p))
    BY <2>1, RoundOnTheWay
  <2>3. Round(s, p) \in States
    BY <2>2 DEF OnTheWay
  <2> QED BY <1>1, <1>3, <2>2, <2>3
<1>5. PICK w : Follows(w, Rounds, h, next, D, NULL)
  BY WalkExists, RoundsType
<1>6. PICK T : T = {n \in Nat : n <= Rounds => w[n] \in D}
  OBVIOUS
<1>7. 0 \in T
  BY <1>2, <1>5, <1>6, RoundsType DEF Follows
<1>8. ASSUME NEW n \in Nat, n \in T PROVE n + 1 \in T
  <2>1. CASE n + 1 <= Rounds
    <3>1. w[n] \in D
      BY <1>6, <1>8, <2>1, RoundsType
    <3>2. n + 1 \in 0 .. Rounds /\ n + 1 # 0 /\ (n + 1) - 1 = n
      BY <2>1, RoundsType
    <3>3. w[n + 1] = next[w[n]]
      BY <1>5, <3>1, <3>2 DEF Follows
    <3> QED BY <1>4, <1>6, <3>1, <3>3
  <2>2. CASE ~(n + 1 <= Rounds)
    BY <1>6, <2>2
  <2> QED BY <2>1, <2>2
<1>9. \A n \in Nat : n <= Rounds => w[n] \in D
  <2>1. Nat \subseteq T
    BY <1>7, <1>8, SetInduction
  <2> QED BY <1>6, <2>1
<1>10. PICK g : g = [n \in 0 .. Rounds |-> IF n = 0 THEN h ELSE Round(w[n - 1], p)]
  OBVIOUS
<1>11. w = g
  <2>1. w = [n \in 0 .. Rounds |-> w[n]] /\ g = [n \in 0 .. Rounds |-> g[n]]
    BY <1>5, <1>10 DEF Follows
  <2>2. ASSUME NEW n \in 0 .. Rounds PROVE w[n] = g[n]
    <3>1. CASE n = 0
      BY <3>1, <1>5, <1>10 DEF Follows
    <3>2. CASE n # 0
      <4>1. n - 1 \in Nat /\ n - 1 <= Rounds
        BY <3>2, RoundsType
      <4>2. w[n - 1] \in D
        BY <4>1, <1>9
      <4>3. w[n] = next[w[n - 1]]
        BY <3>2, <4>2, <1>5 DEF Follows
      <4> QED BY <3>2, <4>2, <4>3, <1>4, <1>10
    <3> QED BY <3>1, <3>2
  <2> QED BY <2>1, <2>2
<1>12. IsFreed(w, a, a.last, p)
  BY <1>2, <1>10, <1>11 DEF IsFreed, Round
<1> QED BY <1>12

LEMMA FreeChunksFacts ==
  ASSUME NEW a \in Arenas, NEW C, Stack(a.mem, C, a.end, a.last), NEW p
  PROVE  OnTheWay(a, C, p, FreeChunks(a, a.last, p)) /\ Stops(FreeChunks(a, a.last, p), p)
<1>1. PICK f : f = CHOOSE g : IsFreed(g, a, a.last, p)
  OBVIOUS
<1>2. IsFreed(f, a, a.last, p)
  BY <1>1, FreedExists
<1>3. FreeChunks(a, a.last, p) = f[Rounds]
  BY <1>1 DEF FreeChunks, IsFreed
<1>4. f[0] = [arena |-> a, chunk |-> a.last]
  BY <1>2, RoundsType DEF IsFreed
<1>5. ASSUME NEW n \in 1 .. Rounds PROVE f[n] = Round(f[n - 1], p)
  <2>1. n \in 0 .. Rounds /\ n # 0
    BY RoundsType
  <2>2. f = [k \in 0 .. Rounds |-> IF k = 0 THEN [arena |-> a, chunk |-> a.last] ELSE Round(f[k - 1], p)]
    BY <1>2 DEF IsFreed, Round
  <2> QED BY <2>1, <2>2
<1>6. PICK T : T = {n \in Nat : n <= Rounds =>
                      OnTheWay(a, C, p, f[n]) /\ (Stops(f[n], p) \/ f[n].arena.end + 6 * n <= a.end)}
  OBVIOUS
<1>7. 0 \in T
  <2>1. OnTheWay(a, C, p, f[0])
    BY <1>4, StartOfWay
  <2>2. f[0].arena.end + 6 * 0 <= a.end
    BY <1>4 DEF Arenas
  <2> QED BY <1>6, <2>1, <2>2
<1>8. ASSUME NEW n \in Nat, n \in T PROVE n + 1 \in T
  <2>1. CASE n + 1 <= Rounds
    <3>1. OnTheWay(a, C, p, f[n]) /\ (Stops(f[n], p) \/ f[n].arena.end + 6 * n <= a.end)
      BY <1>6, <1>8, <2>1, RoundsType
    <3>2. f[n + 1] = Round(f[n], p)
      <4>1. n + 1 \in 1 .. Rounds /\ (n + 1) - 1 = n
        BY <2>1, RoundsType
      <4> QED BY <4>1, <1>5
    <3>3. OnTheWay(a, C, p, f[n + 1])
      BY <3>1, <3>2, RoundOnTheWay
    <3>4. CASE Stops(f[n], p)
      <4>1. f[n + 1] = f[n]
        BY <3>1, <3>2, <3>4, RoundOnTheWay
      <4> QED BY <1>6, <3>3, <3>4, <4>1
    <3>5. CASE ~Stops(f[n], p)
      <4>1. f[n + 1].arena.end + 6 <= f[n].arena.end
        BY <3>1, <3>2, <3>5, RoundOnTheWay
      <4>2. f[n].arena.end \in Nat /\ f[n + 1].arena.end \in Nat /\ a.end \in Nat
        BY <3>1, <3>3 DEF OnTheWay, States, Arenas
      <4>3. f[n + 1].arena.end + 6 * (n + 1) <= a.end
        BY <3>1, <3>5, <4>1, <4>2
      <4> QED BY <1>6, <3>3, <4>3
    <3> QED BY <3>4, <3>5
  <2>2. CASE ~(n + 1 <= Rounds)
    BY <1>6, <2>2
  <2> QED BY <2>1, <2>2
<1>9. Nat \subseteq T
  BY <1>7, <1>8, SetInduction
<1>10. PICK s : s = f[Rounds] /\ OnTheWay(a, C, p, s) /\ (Stops(s, p) \/ s.arena.end + 6 * Rounds <= a.end)
  BY <1>6, <1>9, RoundsType
<1>11. Stops(s, p)
  <2> SUFFICES ASSUME ~Stops(s, p) PROVE FALSE
    OBVIOUS
  <2>1. s.chunk # NULL /\ Stack(s.arena.mem, Lower(C, s.arena.end), s.arena.end, s.chunk)
    BY <1>10 DEF Stops, OnTheWay
  <2>2. Chunk(s.arena.mem, s.arena.end, s.chunk) /\ s.arena.end \in Nat
    BY <2>1, LastIsTop DEF Stack
  <2>3. 10 <= s.arena.end
    BY <2>2 DEF Chunk
  <2>4. a.end <= ArenaEnd /\ a.end \in Nat
    BY DEF Stack
  <2> QED BY <1>10, <2>2, <2>3, <2>4, RoundsType
<1> QED BY <1>3, <1>10, <1>11

(* free(NULL) and the destructor leave the arena empty. *)
LEMMA FreeChunksAll ==
  ASSUME NEW a \in Arenas, NEW C, Stack(a.mem, C, a.end, a.last)
  PROVE  LET s == FreeChunks(a, a.last, NULL)
         IN  /\ s.arena \in Arenas /\ s.chunk = NULL /\ s.arena.last = NULL
             /\ s.arena.end = Start + Nuggie
             /\ Stack(s.arena.mem, {}, s.arena.end, NULL)
<1>1. PICK s : s = FreeChunks(a, a.last, NULL) /\ OnTheWay(a, C, NULL, s) /\ Stops(s, NULL)
  BY FreeChunksFacts
<1>2. PICK D : D = Lower(C, s.arena.end) /\ Stack(s.arena.mem, D, s.arena.end, s.chunk)
  BY <1>1 DEF OnTheWay
<1>3. s.chunk = NULL
  <2> SUFFICES ASSUME s.chunk # NULL PROVE FALSE
    OBVIOUS
  <2>1. Chunk(s.arena.mem, s.arena.end, s.chunk)
    BY <1>2, LastIsTop
  <2> QED BY <1>1, <2>1 DEF Stops, Holds, Chunk
<1>4. NULL \notin D
  BY <1>2 DEF Stack, Chunk
<1>5. s.arena.end = Start + Nuggie
  BY <1>2, <1>3, <1>4 DEF Stack, Below
<1>6. D = {}
  <2>1. \A c \in D : c \in Nat /\ 4 <= c /\ c + 6 <= s.arena.end
    <3> SUFFICES ASSUME NEW c \in D PROVE c \in Nat /\ 4 <= c /\ c + 6 <= s.arena.end
      OBVIOUS
    <3>1. Chunk(s.arena.mem, s.arena.end, c) /\ s.arena.end \in Nat
      BY <1>2 DEF Stack
    <3> QED BY <3>1 DEF Chunk
  <2> QED BY <2>1, <1>5
<1> QED BY <1>1, <1>2, <1>3, <1>5, <1>6 DEF OnTheWay, States

(* free(p) for p in chunk d leaves d the last one. *)
LEMMA FreeChunksTo ==
  ASSUME NEW a \in Arenas, NEW C, Stack(a.mem, C, a.end, a.last),
         NEW p \in Nat, NEW d \in C, d + Header <= p, p <= a.mem[d]
  PROVE  LET s == FreeChunks(a, a.last, p)
         IN  OnTheWay(a, C, p, s) /\ s.chunk = d /\ d \in Lower(C, s.arena.end)
<1>1. PICK s : s = FreeChunks(a, a.last, p) /\ OnTheWay(a, C, p, s) /\ Stops(s, p)
  BY FreeChunksFacts
<1>0. PICK e \in Nat : e = s.arena.end
  BY <1>1 DEF OnTheWay, Stack
<1>2. PICK D : D = Lower(C, e) /\ e = s.arena.end /\ Stack(s.arena.mem, D, e, s.chunk)
  BY <1>0, <1>1 DEF OnTheWay
<1>3. \A c \in C : c \in Nat /\ 4 <= c
  BY DEF Stack, Chunk
<1>4. d \in D
  <2>1. Holds(a.mem, d, p)
    BY <1>3 DEF Holds, Limit
  <2>2. ~(e <= d)
    BY <1>1, <1>2, <2>1 DEF OnTheWay
  <2> QED BY <1>2, <1>3, <2>2 DEF Lower
<1>5. s.chunk # NULL
  <2> SUFFICES ASSUME s.chunk = NULL PROVE FALSE
    OBVIOUS
  <2>1. NULL \notin D
    BY <1>2, <1>3 DEF Lower
  <2>2. e = Start + Nuggie
    BY <1>2, <2>1 DEF Stack, Below
  <2>3. Chunk(s.arena.mem, e, d)
    BY <1>2, <1>4 DEF Stack
  <2> QED BY <2>2, <2>3 DEF Chunk
<1>6. s.chunk = d
  <2> SUFFICES ASSUME s.chunk # d PROVE FALSE
    OBVIOUS
  <2>1. d \in Lower(D, s.chunk) /\ s.chunk \in D
    BY <1>2, <1>4, <1>5, LastIsTop
  <2>2. d < s.chunk /\ s.chunk \in C
    BY <2>1, <1>2 DEF Lower
  <2>3. a.mem[d] + Nuggie <= s.chunk /\ a.mem[d] \in Nat /\ s.chunk \in Nat
    BY <2>2, <1>3 DEF Stack, Apart, Chunk
  <2>4. s.chunk <= p
    BY <1>1, <1>5 DEF Stops, Holds
  <2> QED BY <2>3, <2>4
<1> QED BY <1>1, <1>2, <1>4, <1>6

-----------------------------------------------------------------------------
(* The objects on the chunks.                                              *)

LEMMA InRange ==
  ASSUME NEW p \in Int, NEW n \in Int, NEW w \in p .. p + n - 1, NEW low \in Int, NEW high \in Int,
         low <= p, p + n <= high
  PROVE  w \in Int /\ p <= w /\ w < p + n /\ low <= w /\ w < high
OBVIOUS

Object == [addr : Nat, size : Nat]

Objects == Seq(Object)

LEMMA ObjectType ==
  ASSUME NEW objs \in Objects, NEW i \in 1 .. Len(objs)
  PROVE  /\ objs[i] \in Object /\ objs[i].addr \in Nat /\ objs[i].size \in Nat
         /\ objs[i].addr + objs[i].size \in Nat
<1>1. objs[i] \in Object
  BY DEF Objects
<1>2. objs[i].addr \in Nat /\ objs[i].size \in Nat
  BY <1>1 DEF Object
<1> QED BY <1>1, <1>2

LEMMA ObjectsAppend ==
  ASSUME NEW objs \in Objects, NEW o \in Object
  PROVE  /\ Append(objs, o) \in Objects /\ Len(objs) \in Nat
         /\ Len(Append(objs, o)) = Len(objs) + 1 /\ Append(objs, o)[Len(objs) + 1] = o
         /\ \A i \in 1 .. Len(objs) : Append(objs, o)[i] = objs[i]
BY DEF Objects

LEMMA ObjectsTake ==
  ASSUME NEW objs \in Objects, NEW k \in 0 .. Len(objs)
  PROVE  /\ SubSeq(objs, 1, k) \in Objects /\ Len(objs) \in Nat /\ k \in Nat
         /\ Len(SubSeq(objs, 1, k)) = k
         /\ \A i \in 1 .. k : i \in 1 .. Len(objs) /\ SubSeq(objs, 1, k)[i] = objs[i]
BY DEF Objects

Words(o) == o.addr .. o.addr + o.size - 1

LEMMA WordsOf ==
  ASSUME NEW p \in Nat, NEW n \in Nat
  PROVE  Words([addr |-> p, size |-> n]) = p .. p + n - 1
BY DEF Words

Full(m, objs) == \A i \in 1 .. Len(objs) : \A w \in Words(objs[i]) : m[w] = -i

InChunk(m, C, o) == \E c \in C : c + Header <= o.addr /\ o.addr + o.size <= m[c]

InChunks(m, C, objs) == \A i \in 1 .. Len(objs) : InChunk(m, C, objs[i])

(* Each ends below the next, and all below p. *)
Piled(objs, p) ==
  /\ \A i \in 1 .. Len(objs) : objs[i].addr + objs[i].size <= p
  /\ \A i, j \in 1 .. Len(objs) : i < j => objs[i].addr + objs[i].size <= objs[j].addr

Sound(a, C, objs, p) ==
  /\ a \in Arenas /\ a.last # NULL /\ Stack(a.mem, C, a.end, a.last)
  /\ objs \in Objects /\ p \in Nat
  /\ Full(a.mem, objs) /\ InChunks(a.mem, C, objs) /\ Piled(objs, p)

LEMMA SoundObject ==
  ASSUME NEW a, NEW C, NEW objs, NEW p, Sound(a, C, objs, p), NEW i \in 1 .. Len(objs)
  PROVE  /\ objs[i] \in Object /\ objs[i].addr \in Nat /\ objs[i].size \in Nat
         /\ objs[i].addr + objs[i].size \in Nat
         /\ objs[i].addr + objs[i].size <= p /\ p \in Nat
<1>1. objs \in Objects /\ Piled(objs, p) /\ p \in Nat
  BY DEF Sound
<1>2. objs[i].addr + objs[i].size <= p
  BY <1>1 DEF Piled
<1> QED BY <1>1, <1>2, ObjectType

(* Where the words of an object are. *)
LEMMA WordsWhere ==
  ASSUME NEW a, NEW C, NEW objs, NEW p, Sound(a, C, objs, p),
         NEW i \in 1 .. Len(objs), NEW w \in Words(objs[i])
  PROVE  w \in Cells /\ w < p /\ w \in Int
<1>1. /\ objs[i].addr \in Nat /\ objs[i].size \in Nat
      /\ objs[i].addr + objs[i].size <= p /\ p \in Nat
  BY SoundObject
<1>2. PICK c \in C : c + Header <= objs[i].addr /\ objs[i].addr + objs[i].size <= a.mem[c]
  BY DEF Sound, InChunks, InChunk
<1>3. Chunk(a.mem, a.end, c) /\ a.end <= ArenaEnd /\ a.end \in Nat
  BY <1>2 DEF Sound, Stack
<1>4. /\ c \in Nat /\ 4 <= c /\ a.mem[c] \in Nat /\ a.mem[c] + 2 <= a.end
      /\ w \in objs[i].addr .. objs[i].addr + objs[i].size - 1
  BY <1>3 DEF Chunk, Words
<1>5. w \in Int /\ 2 <= w /\ w < p /\ w < a.mem[c]
  <2>1. 2 <= objs[i].addr
    BY <1>1, <1>2, <1>4
  <2>2. w < p /\ 2 <= w /\ w \in Int
    BY <2>1, <1>1, <1>4, InRange
  <2>3. w < a.mem[c]
    <3>1. PICK u \in Nat, k \in Nat : u = objs[i].addr /\ k = objs[i].size
      BY <1>1
    <3>2. PICK x \in Nat : x = a.mem[c]
      BY <1>4
    <3>3. w \in u .. u + k - 1 /\ u + k <= x
      BY <1>2, <1>4, <3>1, <3>2
    <3>4. w < x
      BY <3>3
    <3> QED BY <3>2, <3>4
  <2> QED BY <2>2, <2>3
<1>6. w <= ArenaEnd - 1
  <2>1. PICK x \in Nat, e \in Nat : x = a.mem[c] /\ e = a.end
    BY <1>3, <1>4
  <2>2. w \in Int /\ w < x /\ x + 2 <= e /\ e <= ArenaEnd
    BY <1>3, <1>4, <1>5, <2>1
  <2> QED BY <2>2
<1> QED BY <1>5, <1>6 DEF Cells

(* An object grows by sz words that follow its first size words; with none *)
(* of those it is new.                                                     *)
Holding(m, p, size, n) == \A w \in p .. p + size - 1 : m[w] = -n

Pushed(a, C, objs, p, size, sz) ==
  LET b == [a EXCEPT !.mem = Fill(@, p + size, sz, Len(objs) + 1)]
  IN  /\ Sound(b, C, Append(objs, [addr |-> p, size |-> size + sz]), p + size + sz)
      /\ b.mem[b.last] = a.mem[a.last] /\ b.last = a.last

LEMMA SoundPush ==
  ASSUME NEW a, NEW C, NEW objs, NEW p, Sound(a, C, objs, p),
         NEW size \in Nat, NEW sz \in Nat, a.last + Header <= p, p + size + sz <= a.mem[a.last],
         Holding(a.mem, p, size, Len(objs) + 1)
  PROVE  Pushed(a, C, objs, p, size, sz)
<1>1. PICK m \in [Cells -> Int], e \in Nat, l \in Nat :
        /\ m = a.mem /\ e = a.end /\ l = a.last /\ l # NULL /\ Stack(m, C, e, l)
        /\ l + Header <= p /\ p \in Nat /\ p + size + sz <= m[l]
  BY DEF Sound, Arenas
<1>2. l \in C /\ Chunk(m, e, l) /\ e <= ArenaEnd
  BY <1>1, LastIsTop DEF Stack
<1>14. /\ l \in Nat /\ 4 <= l /\ m[l] \in Nat /\ m[l] + 2 <= e
  BY <1>2 DEF Chunk
<1>15. p \in Nat /\ l + 4 <= p /\ p + size + sz <= m[l]
  BY <1>1
<1>3. p + size + sz < e /\ 2 <= p /\ p + size + sz <= ArenaEnd
  BY <1>2, <1>14, <1>15
<1>4. PICK n \in Nat : n = Len(objs) + 1 /\ Len(objs) \in Nat
  BY DEF Sound, Objects
<1>5. PICK m2 : m2 = Fill(m, p + size, sz, n)
  OBVIOUS
<1>6. \A w \in Cells : w \in Int
  BY DEF Cells
<1>7. m2 \in [Cells -> Int] /\ \A w \in Cells : m2[w] = IF w \in p + size .. p + size + sz - 1 THEN -n ELSE m[w]
  BY <1>5 DEF Fill
<1>8. OnlyBodies(m, m2, C)
  <2> SUFFICES ASSUME NEW w \in Cells, m2[w] # m[w] PROVE Body(m, C, w)
    BY DEF OnlyBodies
  <2>1. w \in p + size .. p + size + sz - 1
    BY <1>7
  <2>2. l + Header <= w /\ w < m[l]
    <3>1. l + Header <= p + size /\ (p + size) + sz <= m[l]
      BY <1>15, <1>14
    <3> QED BY <2>1, <3>1, <1>14, <1>15, InRange
  <2> QED BY <2>2, <1>2 DEF Body
<1>9. Stack(m2, C, e, l) /\ \A c \in C : m2[c] = m[c]
  BY <1>1, <1>7, <1>8, StackFrame
<1>10. PICK o : o = [addr |-> p, size |-> size + sz]
  OBVIOUS
<1>0. o \in Object /\ o.addr = p /\ o.size = size + sz /\ o.addr + o.size = p + size + sz
  <2>1. p \in Nat /\ size + sz \in Nat /\ p + (size + sz) = p + size + sz
    BY <1>1
  <2> QED BY <2>1, <1>10 DEF Object
<1>11. PICK objs2 : objs2 = Append(objs, o)
  OBVIOUS
<1>12. /\ objs2 \in Objects /\ Len(objs2) = n /\ objs2[n] = o
       /\ \A i \in 1 .. n : i = n \/ (i \in 1 .. Len(objs) /\ objs2[i] = objs[i])
  <2>1. objs \in Objects
    BY DEF Sound
  <2>2. \A i \in 1 .. n : i = n \/ i \in 1 .. Len(objs)
    BY <1>4
  <2> QED BY <2>1, <2>2, <1>0, <1>4, <1>11, ObjectsAppend
<1>13. \A i \in 1 .. Len(objs) : /\ objs[i].addr \in Nat /\ objs[i].size \in Nat
                                 /\ objs[i].addr + objs[i].size <= p
                                 /\ objs[i].addr + objs[i].size \in Nat
  BY SoundObject
<1>22. Full(m2, objs2)
  <2> SUFFICES ASSUME NEW i \in 1 .. n, NEW w \in Words(objs2[i]) PROVE m2[w] = -i
    BY <1>12 DEF Full
  <2>1. CASE i = n
    <3>1. w \in p .. p + size + sz - 1
      <4>1. w \in Words(o)
        BY <2>1, <1>12
      <4>2. p \in Nat /\ size + sz \in Nat
        BY <1>1
      <4>3. Words(o) = p .. p + (size + sz) - 1
        BY <4>2, <1>10, WordsOf
      <4> QED BY <4>1, <4>2, <4>3
    <3>2. w \in Cells
      <4>3. p \in Nat /\ p + size + sz <= ArenaEnd
        BY <1>3, <1>15
      <4>1. PICK k \in Nat : k = p + size + sz
        BY <4>3
      <4>2. w \in Int /\ 2 <= w /\ w < ArenaEnd
        <5>1. w \in p .. k - 1
          BY <3>1, <4>1, <4>3
        <5>2. p \in Nat /\ 2 <= p /\ k <= ArenaEnd
          BY <4>1, <4>3, <1>3
        <5> QED BY <5>1, <5>2
      <4> QED BY <4>2 DEF Cells
    <3>3. w \notin p + size .. p + size + sz - 1 => w \in p .. p + size - 1
      BY <3>1, <1>1
    <3> QED BY <2>1, <3>2, <3>3, <1>1, <1>4, <1>7 DEF Holding
  <2>2. CASE i \in 1 .. Len(objs) /\ objs2[i] = objs[i]
    <3>1. w \in Words(objs[i])
      BY <2>2
    <3>2. m[w] = -i
      BY <2>2, <3>1, <1>1 DEF Sound, Full
    <3>6. w \in Cells /\ w < p /\ w \in Int
      BY <2>2, <3>1, WordsWhere
    <3>7. w \notin p + size .. p + size + sz - 1
      BY <3>6, <1>1
    <3> QED BY <3>2, <3>6, <3>7, <1>7
  <2> QED BY <2>1, <2>2, <1>12
<1>21. InChunks(m2, C, objs2)
  <2> SUFFICES ASSUME NEW i \in 1 .. n PROVE InChunk(m2, C, objs2[i])
    BY <1>12 DEF InChunks
  <2>1. CASE i = n
    <3>1. l + Header <= o.addr /\ o.addr + o.size <= m2[l]
      BY <1>0, <1>1, <1>2, <1>9
    <3> QED BY <2>1, <3>1, <1>2, <1>12 DEF InChunk
  <2>2. CASE i \in 1 .. Len(objs) /\ objs2[i] = objs[i]
    <3>1. InChunk(m, C, objs[i])
      BY <2>2, <1>1 DEF Sound, InChunks
    <3> QED BY <2>2, <3>1, <1>9 DEF InChunk
  <2> QED BY <2>1, <2>2, <1>12
<1>20. Piled(objs2, p + size + sz)
  <2>1. ASSUME NEW i \in 1 .. n PROVE objs2[i].addr + objs2[i].size <= p + size + sz
    <3>1. CASE i = n
      BY <3>1, <1>0, <1>1, <1>12
    <3>2. CASE i \in 1 .. Len(objs) /\ objs2[i] = objs[i]
      <4>1. objs[i].addr + objs[i].size \in Nat /\ objs[i].addr + objs[i].size <= p /\ p \in Nat
        BY <3>2, <1>1, <1>13
      <4> QED BY <3>2, <4>1
    <3> QED BY <3>1, <3>2, <1>12
  <2>2. ASSUME NEW i \in 1 .. n, NEW j \in 1 .. n, i < j
        PROVE  objs2[i].addr + objs2[i].size <= objs2[j].addr
    <3>1. i \in 1 .. Len(objs) /\ objs2[i] = objs[i]
      BY <2>2, <1>4, <1>12
    <3>2. CASE j = n
      BY <3>1, <3>2, <1>0, <1>12, <1>13
    <3>3. CASE j \in 1 .. Len(objs) /\ objs2[j] = objs[j]
      BY <2>2, <3>1, <3>3 DEF Sound, Piled
    <3> QED BY <3>2, <3>3, <1>12
  <2> QED BY <2>1, <2>2, <1>12 DEF Piled
<1>17. PICK b : b = [a EXCEPT !.mem = Fill(@, p + size, sz, Len(objs) + 1)]
  OBVIOUS
<1>18. b \in Arenas /\ b.mem = m2 /\ b.end = e /\ b.last = l
  BY <1>1, <1>4, <1>5, <1>7, <1>17 DEF Sound, Arenas
<1>19. Sound(b, C, objs2, p + size + sz)
  <2>1. p + size + sz \in Nat
    BY <1>1
  <2> QED BY <2>1, <1>1, <1>9, <1>12, <1>20, <1>21, <1>22, <1>18 DEF Sound
<1> QED BY <1>1, <1>2, <1>9, <1>10, <1>11, <1>17, <1>18, <1>19 DEF Pushed

(* Objects off the top. *)
LEMMA SoundTake ==
  ASSUME NEW a, NEW C, NEW objs, NEW p, Sound(a, C, objs, p),
         NEW k \in 0 .. Len(objs), NEW q \in Nat,
         \A i \in 1 .. k : objs[i].addr + objs[i].size <= q
  PROVE  Sound(a, C, SubSeq(objs, 1, k), q) /\ Len(SubSeq(objs, 1, k)) = k
<1>0. objs \in Objects
  BY DEF Sound
<1>1. PICK s \in Objects : /\ s = SubSeq(objs, 1, k) /\ Len(s) = k
                           /\ \A i \in 1 .. k : i \in 1 .. Len(objs) /\ s[i] = objs[i]
  BY <1>0, ObjectsTake
<1>2. Full(a.mem, s)
  BY <1>1 DEF Sound, Full
<1>3. InChunks(a.mem, C, s)
  BY <1>1 DEF Sound, InChunks
<1>4. Piled(s, q)
  BY <1>1 DEF Sound, Piled
<1> QED BY <1>1, <1>2, <1>3, <1>4 DEF Sound

(* A new chunk leaves the objects alone. *)
MadeAbove(a, C, objs, p, r) ==
  /\ Sound(r.arena, C \union {r.ptr}, objs, r.ptr + Header)
  /\ \A w \in Cells : w < p => r.arena.mem[w] = a.mem[w]
  /\ p < r.ptr /\ r.ptr \in Nat /\ a.last \in C

LEMMA SoundMade ==
  ASSUME NEW a, NEW C, NEW objs, NEW p, Sound(a, C, objs, p), p <= a.mem[a.last],
         NEW sz, NEW r, Made(a, C, sz, r)
  PROVE  MadeAbove(a, C, objs, p, r)
<1>1. PICK m \in [Cells -> Int], e \in Nat, l \in Nat :
        /\ m = a.mem /\ e = a.end /\ l = a.last /\ l # NULL /\ Stack(m, C, e, l)
        /\ p \in Nat /\ p <= m[l]
  BY DEF Sound, Arenas
<1>2. l \in C /\ p <= e - 2 /\ m[l] \in Nat
  BY <1>1, LastIsTop DEF Chunk
<1>3. PICK m2 \in [Cells -> Int] :
        /\ m2 = r.arena.mem /\ r.arena \in Arenas /\ r.ptr = e /\ r.arena.last = e
        /\ Stack(m2, C \union {e}, r.arena.end, e)
        /\ \A w \in Cells : w < e - 2 => m2[w] = m[w]
  BY <1>1 DEF Made, Arenas
<1>4. \A w \in Cells : w < p => m2[w] = m[w]
  BY <1>1, <1>2, <1>3 DEF Cells
<1>5. Full(m2, objs)
  <2> SUFFICES ASSUME NEW i \in 1 .. Len(objs), NEW w \in Words(objs[i]) PROVE m2[w] = -i
    BY DEF Full
  <2>1. m[w] = -i
    BY <1>1 DEF Sound, Full
  <2>2. w \in Cells /\ w < p
    BY WordsWhere
  <2> QED BY <2>1, <2>2, <1>4
<1>6. \A c \in C : m2[c] = m[c]
  <2> SUFFICES ASSUME NEW c \in C PROVE m2[c] = m[c]
    OBVIOUS
  <2>1. Chunk(m, e, c) /\ e <= ArenaEnd
    BY <1>1 DEF Stack
  <2>2. c \in Cells /\ c < e - 2
    BY <2>1 DEF Chunk, Cells
  <2> QED BY <2>2, <1>3
<1>7. InChunks(m2, C \union {e}, objs)
  <2> SUFFICES ASSUME NEW i \in 1 .. Len(objs) PROVE InChunk(m2, C \union {e}, objs[i])
    BY DEF InChunks
  <2>1. PICK c \in C : c + Header <= objs[i].addr /\ objs[i].addr + objs[i].size <= m[c]
    BY <1>1 DEF Sound, InChunks, InChunk
  <2> QED BY <2>1, <1>6 DEF InChunk
<1>8. Piled(objs, e + Header)
  <2>1. \A i \in 1 .. Len(objs) : objs[i].addr + objs[i].size \in Nat /\ objs[i].addr + objs[i].size <= p
    BY SoundObject
  <2>2. \A i \in 1 .. Len(objs) : objs[i].addr + objs[i].size <= e + Header
    BY <2>1, <1>1, <1>2
  <2> QED BY <2>2 DEF Sound, Piled
<1>9. e # NULL
  BY <1>1 DEF Stack
<1>10. Sound(r.arena, C \union {e}, objs, e + Header)
  BY <1>3, <1>5, <1>7, <1>8, <1>9 DEF Sound
<1> QED BY <1>1, <1>2, <1>3, <1>4, <1>10 DEF MadeAbove

(* copyToNew: the top object goes from one place in a chunk to another.    *)
Copied(a, C, objs, to, size, b) ==
  /\ Sound(b, C, objs, to) /\ b.last = a.last /\ b.mem[b.last] = a.mem[a.last]
  /\ Holding(b.mem, to, size, Len(objs) + 1)

LEMMA SoundCopy ==
  ASSUME NEW a, NEW C, NEW objs, NEW from \in Nat, Sound(a, C, objs, from),
         NEW size \in Nat, NEW to \in Nat, from + size <= to,
         NEW c \in C, c + Header <= from, from + size <= a.mem[c],
         a.last + Header <= to, to + size <= a.mem[a.last],
         Holding(a.mem, from, size, Len(objs) + 1)
  PROVE  Copied(a, C, objs, to, size, [a EXCEPT !.mem = Copy(@, from, to, size)])
<1>1. PICK m \in [Cells -> Int], e \in Nat, l \in Nat :
        /\ m = a.mem /\ e = a.end /\ l = a.last /\ l # NULL /\ Stack(m, C, e, l)
        /\ l + Header <= to /\ to + size <= m[l] /\ from + size <= m[c]
  BY DEF Sound, Arenas
<1>2. l \in C /\ Chunk(m, e, l) /\ Chunk(m, e, c) /\ e <= ArenaEnd
  BY <1>1, LastIsTop DEF Stack
<1>3. Cells = 2 .. ArenaSize + 1
  BY DEF Cells
<1>0. /\ c \in Nat /\ 4 <= c /\ m[c] \in Nat /\ m[c] + 2 <= e
      /\ l \in Nat /\ 4 <= l /\ m[l] \in Nat /\ m[l] + 2 <= e
  BY <1>2 DEF Chunk
<1>30. PICK x \in Nat, y \in Nat : x = m[c] /\ y = m[l]
  BY <1>0
<1>31. c \in Nat /\ 4 <= c /\ c + 4 <= from /\ from + size <= x /\ x + 2 <= e
  BY <1>0, <1>1, <1>30
<1>32. l \in Nat /\ 4 <= l /\ l + 4 <= to /\ to + size <= y /\ y + 2 <= e
  BY <1>0, <1>1, <1>30
<1>4. from .. from + size - 1 \subseteq Cells /\ to .. to + size - 1 \subseteq Cells
  <2>1. 2 <= from /\ from + size <= ArenaSize + 2
    <3>1. e <= ArenaSize + 2
      BY <1>2
    <3> QED BY <3>1, <1>31
  <2>2. 2 <= to /\ to + size <= ArenaSize + 2
    <3>1. e <= ArenaSize + 2
      BY <1>2
    <3> QED BY <3>1, <1>32
  <2>3. ASSUME NEW w \in from .. from + size - 1 PROVE w \in Cells
    <3>1. w \in Int /\ 2 <= w /\ w < ArenaSize + 2
      BY <2>1, InRange
    <3> QED BY <3>1, <1>3
  <2>4. ASSUME NEW w \in to .. to + size - 1 PROVE w \in Cells
    <3>1. w \in Int /\ 2 <= w /\ w < ArenaSize + 2
      BY <2>2, InRange
    <3> QED BY <3>1, <1>3
  <2> QED BY <2>3, <2>4
<1>5. PICK m2 : m2 = Copy(m, from, to, size)
  OBVIOUS
<1>6. \A w \in to .. to + size - 1 : from + w - to \in from .. from + size - 1
  OBVIOUS
<1>7. /\ m2 \in [Cells -> Int]
      /\ \A w \in to .. to + size - 1 : m2[w] = m[from + w - to]
      /\ \A w \in Cells : w \notin to .. to + size - 1 /\ w \notin from .. from + size - 1 => m2[w] = m[w]
  <2>1. from \in Int /\ from + size \in Int
    OBVIOUS
  <2>2. PICK g \in [Cells -> Int] : g = Forget(m, from, from + size)
    BY <2>1, ForgetType
  <2>3. \A w \in Cells : w \notin from .. from + size - 1 => g[w] = m[w]
    BY <2>2 DEF Forget
  <2>4. m2 = [w \in Cells |-> IF w \in to .. to + size - 1 THEN m[from + w - to] ELSE g[w]]
    BY <1>5, <2>2 DEF Copy
  <2>5. \A w \in to .. to + size - 1 : m[from + w - to] \in Int
    BY <1>4, <1>6
  <2>6. m2 \in [Cells -> Int]
    BY <2>4, <2>5
  <2> QED BY <2>3, <2>4, <2>6, <1>4
<1>8. OnlyBodies(m, m2, C)
  <2> SUFFICES ASSUME NEW w \in Cells, m2[w] # m[w] PROVE Body(m, C, w)
    BY DEF OnlyBodies
  <2>1. CASE w \in to .. to + size - 1
    <3>1. l + Header <= w /\ w < m[l]
      <4>1. l + 4 <= w /\ w < y
        BY <2>1, <1>32
      <4> QED BY <4>1, <1>30
    <3> QED BY <3>1, <1>2 DEF Body
  <2>2. CASE w \in from .. from + size - 1
    <3>1. c + Header <= w /\ w < m[c]
      <4>1. c + 4 <= w /\ w < x
        BY <2>2, <1>31
      <4> QED BY <4>1, <1>30
    <3> QED BY <3>1, <1>2 DEF Body
  <2> QED BY <2>1, <2>2, <1>7
<1>9. Stack(m2, C, e, l) /\ \A d \in C : m2[d] = m[d]
  BY <1>1, <1>7, <1>8, StackFrame
<1>10. Full(m2, objs)
  <2> SUFFICES ASSUME NEW i \in 1 .. Len(objs), NEW w \in Words(objs[i]) PROVE m2[w] = -i
    BY DEF Full
  <2>1. m[w] = -i
    BY <1>1 DEF Sound, Full
  <2>2. w \in Cells /\ w < from /\ w \in Int
    BY WordsWhere
  <2>3. w \notin to .. to + size - 1 /\ w \notin from .. from + size - 1
    BY <2>2
  <2> QED BY <2>1, <2>2, <2>3, <1>7
<1>11. InChunks(m2, C, objs)
  BY <1>1, <1>9 DEF Sound, InChunks, InChunk
<1>12. Piled(objs, to)
  <2>1. \A i \in 1 .. Len(objs) : objs[i].addr + objs[i].size \in Nat /\ objs[i].addr + objs[i].size <= from
    BY SoundObject
  <2>2. \A i \in 1 .. Len(objs) : objs[i].addr + objs[i].size <= to
    BY <2>1
  <2> QED BY <2>2 DEF Sound, Piled
<1>13. PICK b : b = [a EXCEPT !.mem = Copy(@, from, to, size)]
  OBVIOUS
<1>14. b \in Arenas /\ b.mem = m2 /\ b.end = e /\ b.last = l
  BY <1>1, <1>5, <1>7, <1>13 DEF Sound, Arenas
<1>15. Sound(b, C, objs, to)
  BY <1>1, <1>9, <1>10, <1>11, <1>12, <1>14 DEF Sound
<1>16. Holding(m2, to, size, Len(objs) + 1)
  BY <1>1, <1>6, <1>7 DEF Holding
<1> QED BY <1>1, <1>2, <1>9, <1>13, <1>14, <1>15, <1>16 DEF Copied

(* free: the objects from object i on go, with the chunks above the one it *)
(* is in, and what is in the rest of that.                                 *)
TakenBack(C, objs, i, r) ==
  LET q == objs[i].addr
      b == [r.arena EXCEPT !.mem = Forget(@, q, Limit(@, r.chunk))]
  IN  /\ r.chunk # NULL /\ r.chunk = b.last
      /\ Sound(b, Lower(C, b.end), SubSeq(objs, 1, i - 1), q)
      /\ b.last + Header <= q /\ q <= b.mem[b.last]

LEMMA SoundFree ==
  ASSUME NEW a, NEW C, NEW objs, NEW p, Sound(a, C, objs, p), NEW i \in 1 .. Len(objs)
  PROVE  TakenBack(C, objs, i, FreeChunks(a, a.last, objs[i].addr))
<1>1. PICK q \in Nat, size \in Nat : q = objs[i].addr /\ size = objs[i].size
  BY SoundObject
<1>2. PICK d \in C : d + Header <= q /\ q + size <= a.mem[d]
  BY <1>1 DEF Sound, InChunks, InChunk
<1>3. a \in Arenas /\ Stack(a.mem, C, a.end, a.last)
  BY DEF Sound
<1>4. \A c \in C : Chunk(a.mem, a.end, c)
  BY <1>3 DEF Stack
<1>5. q <= a.mem[d]
  <2>1. a.mem[d] \in Nat
    BY <1>4 DEF Chunk
  <2>2. PICK x \in Nat : x = a.mem[d]
    BY <2>1
  <2> QED BY <1>2, <2>2
<1>6. PICK r : r = FreeChunks(a, a.last, q) /\ OnTheWay(a, C, q, r) /\ r.chunk = d /\ d \in Lower(C, r.arena.end)
  BY <1>2, <1>3, <1>5, FreeChunksTo
<1>7. PICK m \in [Cells -> Int], e \in Nat :
        /\ m = r.arena.mem /\ e = r.arena.end /\ r.arena \in Arenas /\ r.arena.last = d
        /\ Stack(m, Lower(C, e), e, d)
        /\ \A w \in Cells : w < e - 2 => m[w] = a.mem[w]
  BY <1>6 DEF OnTheWay, States, Arenas
<1>8. PICK D : D = Lower(C, e) /\ d \in D
  BY <1>6, <1>7
<1>9. d # NULL /\ Chunk(m, e, d) /\ m[d] + 2 = e /\ e <= ArenaEnd
  <2>1. d # NULL
    BY <1>4 DEF Chunk
  <2>2. Stack(m, Lower(C, e), e, d)
    BY <1>7
  <2>3. d \in Lower(C, e) /\ m[d] + Nuggie = e
    BY <2>1, <2>2, LastIsTop
  <2>4. Chunk(m, e, d) /\ e <= ArenaEnd
    BY <2>2, <2>3 DEF Stack
  <2> QED BY <2>1, <2>3, <2>4
<1>10. m[d] = a.mem[d] /\ d \in Nat /\ 4 <= d /\ d + 6 <= e /\ m[d] \in Nat
  <2>1. d \in Cells /\ d < e - 2
    BY <1>9 DEF Chunk, Cells
  <2>2. m[d] = a.mem[d]
    BY <2>1, <1>7
  <2>3. d \in Nat /\ 4 <= d /\ m[d] \in Nat /\ d + Header <= m[d] /\ m[d] + 2 = e
    BY <1>9 DEF Chunk
  <2>4. PICK x \in Nat : x = m[d]
    BY <2>3
  <2>5. d + 4 <= x /\ x + 2 = e
    BY <2>3, <2>4
  <2>6. d + 6 <= e
    BY <2>3, <2>5
  <2> QED BY <2>2, <2>3, <2>6
<1>11. PICK m2 \in [Cells -> Int] :
         /\ m2 = Forget(m, q, m[d])
         /\ \A w \in Cells : w < q \/ m[d] <= w => m2[w] = m[w]
  BY <1>10, ForgetType
<1>12. OnlyBodies(m, m2, D)
  <2> SUFFICES ASSUME NEW w \in Cells, m2[w] # m[w] PROVE Body(m, D, w)
    BY DEF OnlyBodies
  <2>1. w \in Int /\ ~(w < q) /\ ~(m[d] <= w)
    BY <1>11 DEF Cells
  <2>2. PICK x \in Nat : x = m[d]
    BY <1>10
  <2>3. d \in Nat /\ d + 4 <= q
    BY <1>2, <1>10
  <2>4. d + 4 <= w /\ w < x
    BY <2>1, <2>2, <2>3
  <2> QED BY <2>2, <2>4, <1>8 DEF Body
<1>13. Stack(m2, D, e, d) /\ \A c \in D : m2[c] = m[c]
  BY <1>7, <1>8, <1>11, <1>12, StackFrame
<1>14. PICK objs2 : objs2 = SubSeq(objs, 1, i - 1)
  OBVIOUS
<1>15. Sound(a, C, objs2, q) /\ Len(objs2) = i - 1
  <2>1. i - 1 \in 0 .. Len(objs) /\ \A j \in 1 .. i - 1 : j \in 1 .. Len(objs) /\ j < i
    BY DEF Sound, Objects
  <2>2. \A j \in 1 .. i - 1 : objs[j].addr + objs[j].size <= q
    BY <2>1, <1>1 DEF Sound, Piled
  <2> QED BY <2>1, <2>2, <1>14, SoundTake
<1>25. q + 2 <= e
  <2>1. PICK x \in Nat : x = m[d]
    BY <1>10
  <2>2. q <= x /\ x + 2 = e
    BY <1>5, <1>9, <1>10, <2>1
  <2> QED BY <2>2
<1>16. Full(m2, objs2)
  <2> SUFFICES ASSUME NEW j \in 1 .. Len(objs2), NEW w \in Words(objs2[j]) PROVE m2[w] = -j
    BY DEF Full
  <2>1. a.mem[w] = -j
    BY <1>15 DEF Sound, Full
  <2>2. w \in Cells /\ w < q /\ w \in Int
    BY <1>15, WordsWhere
  <2>3. w < e - 2
    BY <2>2, <1>25
  <2> QED BY <2>1, <2>2, <2>3, <1>7, <1>11
<1>17. InChunks(m2, D, objs2)
  <2> SUFFICES ASSUME NEW j \in 1 .. Len(objs2) PROVE InChunk(m2, D, objs2[j])
    BY DEF InChunks
  <2>1. objs2[j].addr + objs2[j].size <= q /\ objs2[j].addr \in Nat /\ objs2[j].size \in Nat
    BY <1>15, SoundObject
  <2>2. PICK c \in C : c + Header <= objs2[j].addr /\ objs2[j].addr + objs2[j].size <= a.mem[c]
    BY <1>15 DEF Sound, InChunks, InChunk
  <2>3. Chunk(a.mem, a.end, c)
    BY <1>4
  <2>4. c < e
    <3>1. c \in Nat /\ c <= q
      <4>1. c \in Nat
        BY <2>3 DEF Chunk
      <4>2. PICK u \in Nat, k \in Nat : u = objs2[j].addr /\ k = objs2[j].size
        BY <2>1
      <4>3. c + 4 <= u /\ u + k <= q
        BY <2>1, <2>2, <4>2
      <4>4. c <= q
        BY <4>1, <4>3
      <4> QED BY <4>1, <4>4
    <3> QED BY <3>1, <1>25
  <2>5. c \in D
    BY <2>4, <1>8 DEF Lower
  <2>6. c \in Cells /\ c < e - 2
    <3>1. Chunk(m, e, c)
      BY <2>5, <1>7, <1>8 DEF Stack
    <3>2. c \in Nat /\ 4 <= c /\ c + 6 <= e /\ e <= ArenaEnd
      <4>1. c \in Nat /\ 4 <= c /\ m[c] \in Nat /\ c + Header <= m[c] /\ m[c] + Nuggie <= e
        BY <3>1 DEF Chunk
      <4>2. PICK x \in Nat : x = m[c]
        BY <4>1
      <4>3. c + 4 <= x /\ x + 2 <= e
        BY <4>1, <4>2
      <4>4. c + 6 <= e
        BY <4>1, <4>3
      <4> QED BY <4>1, <4>4, <1>9
    <3> QED BY <3>2 DEF Cells
  <2>7. m2[c] = a.mem[c]
    BY <2>5, <2>6, <1>7, <1>13
  <2> QED BY <2>2, <2>5, <2>7 DEF InChunk
<1>18. PICK b : b = [r.arena EXCEPT !.mem = Forget(@, q, Limit(@, r.chunk))]
  OBVIOUS
<1>19. b \in Arenas /\ b.mem = m2 /\ b.end = e /\ b.last = d
  BY <1>6, <1>7, <1>11, <1>18 DEF Arenas, Limit
<1>20. Sound(b, D, objs2, q)
  <2>1. objs2 \in Objects /\ Piled(objs2, q)
    BY <1>15 DEF Sound
  <2> QED BY <2>1, <1>1, <1>9, <1>13, <1>16, <1>17, <1>19 DEF Sound
<1>21. d + Header <= q /\ q <= m2[d]
  BY <1>2, <1>5, <1>8, <1>10, <1>13
<1> QED BY <1>1, <1>6, <1>8, <1>9, <1>14, <1>18, <1>19, <1>20, <1>21 DEF TakenBack

-----------------------------------------------------------------------------
(* The whole obstack, while it has a chunk.                                *)

LiveAt(a, C, c, base, next, objs) ==
  /\ Sound(a, C, objs, next) /\ c = a.last
  /\ base \in Nat /\ c + Header <= base /\ base <= next /\ next <= a.mem[c]
  /\ base # next => /\ Len(objs) # 0
                    /\ objs[Len(objs)] = [addr |-> base, size |-> next - base]

ObstackInv ==
  /\ arena \in Arenas /\ objects \in Objects /\ status \in {"running", "stopped", "done"}
  /\ status = "stopped" => ArenaEnd < arena.end
  /\ status = "running" /\ currentChunk = NULL => ArenaEnd < arena.end
  /\ status = "done" => IF currentChunk = NULL THEN ArenaEnd < arena.end
                        ELSE arena.last = NULL /\ arena.end = Start + Nuggie
  /\ Ready => \E C : LiveAt(arena, C, currentChunk, currentBase, nextPos, objects)

(* The words of a sound arena's last chunk. *)
LEMMA SoundLast ==
  ASSUME NEW a, NEW C, NEW objs, NEW p, Sound(a, C, objs, p)
  PROVE  /\ a \in Arenas /\ a.last \in C /\ a.last \in Nat /\ a.last # 0 /\ 4 <= a.last
         /\ a.mem \in [Cells -> Int] /\ a.mem[a.last] \in Nat /\ a.mem[a.last] % 2 = 0
         /\ a.mem[a.last] + 2 = a.end /\ a.end \in Nat /\ a.end <= ArenaEnd
         /\ a.last + 4 <= a.mem[a.last] /\ a.last \in Cells
         /\ objs \in Objects /\ Len(objs) \in Nat /\ p \in Nat
<1>1. a \in Arenas /\ Stack(a.mem, C, a.end, a.last) /\ a.last # NULL /\ objs \in Objects /\ p \in Nat
  BY DEF Sound
<1>2. /\ a.last \in C /\ Chunk(a.mem, a.end, a.last) /\ a.mem[a.last] + Nuggie = a.end
      /\ a.end \in Nat /\ a.end <= ArenaEnd /\ a.mem \in [Cells -> Int]
  BY <1>1, LastIsTop DEF Stack
<1>3. /\ a.last \in Nat /\ 4 <= a.last /\ a.mem[a.last] \in Nat /\ a.mem[a.last] % 2 = 0
      /\ a.last + 4 <= a.mem[a.last]
  BY <1>2 DEF Chunk
<1>4. a.last \in Cells
  <2>1. PICK l \in Nat, x \in Nat, e \in Nat : l = a.last /\ x = a.mem[a.last] /\ e = a.end
    BY <1>2, <1>3
  <2>2. 4 <= l /\ l + 4 <= x /\ x + 2 = e /\ e <= ArenaEnd
    BY <1>2, <1>3, <2>1
  <2>3. l \in Cells
    BY <2>2 DEF Cells
  <2> QED BY <2>1, <2>3
<1>5. Len(objs) \in Nat
  BY <1>1 DEF Objects
<1> QED BY <1>1, <1>2, <1>3, <1>4, <1>5

LEMMA SoundAt ==
  ASSUME NEW a, NEW C, NEW objs, NEW p, Sound(a, C, objs, p), NEW q \in Nat,
         \A i \in 1 .. Len(objs) : objs[i].addr + objs[i].size <= q
  PROVE  Sound(a, C, objs, q)
BY DEF Sound, Piled

LEMMA SoundRaise ==
  ASSUME NEW a, NEW C, NEW objs, NEW p, Sound(a, C, objs, p), NEW q \in Nat, p <= q
  PROVE  Sound(a, C, objs, q)
<1>1. ASSUME NEW i \in 1 .. Len(objs) PROVE objs[i].addr + objs[i].size <= q
  <2>1. objs[i].addr + objs[i].size \in Nat /\ objs[i].addr + objs[i].size <= p /\ p \in Nat
    BY SoundObject
  <2> QED BY <2>1
<1> QED BY <1>1, SoundAt

(* malloc: a new object, finalized. *)
LEMMA LiveBump ==
  ASSUME NEW a, NEW C, NEW objs, NEW p, Sound(a, C, objs, p), NEW sz \in Nat,
         a.last + Header <= p, p + sz <= a.mem[a.last]
  PROVE  LiveAt([a EXCEPT !.mem = Fill(@, p, sz, Len(objs) + 1)], C, a.last,
                Align(p + sz), Align(p + sz), Append(objs, [addr |-> p, size |-> sz]))
<1>1. p \in Nat /\ a.mem[a.last] \in Nat /\ a.mem[a.last] % 2 = 0 /\ a.last \in Nat
  BY SoundLast
<1>2. PICK b : b = [a EXCEPT !.mem = Fill(@, p, sz, Len(objs) + 1)]
  OBVIOUS
<1>3. PICK objs2 : objs2 = Append(objs, [addr |-> p, size |-> sz])
  OBVIOUS
<1>4. Sound(b, C, objs2, p + sz) /\ b.mem[b.last] = a.mem[a.last] /\ b.last = a.last
  <2>1. p + 0 = p /\ 0 + sz = sz /\ p .. p + 0 - 1 = {} /\ 0 \in Nat
    BY <1>1
  <2>2. p + 0 + sz <= a.mem[a.last] /\ Holding(a.mem, p, 0, Len(objs) + 1)
    BY <2>1 DEF Holding
  <2>3. Pushed(a, C, objs, p, 0, sz)
    BY <2>1, <2>2, SoundPush
  <2> QED BY <2>1, <2>3, <1>2, <1>3 DEF Pushed
<1>5. Align(p + sz) \in Nat /\ p + sz <= Align(p + sz) /\ Align(p + sz) <= a.mem[a.last]
  <2>1. p + sz \in Nat
    BY <1>1
  <2> QED BY <2>1, <1>1, AlignFacts, AlignBelow
<1>6. Sound(b, C, objs2, Align(p + sz))
  BY <1>4, <1>5, SoundRaise
<1>7. a.last + Header <= Align(p + sz)
  BY <1>1, <1>5
<1> QED BY <1>2, <1>3, <1>4, <1>5, <1>6, <1>7 DEF LiveAt

(* grow: the object at base has size words, and gets sz more. *)
LEMMA LiveExtend ==
  ASSUME NEW a, NEW C, NEW objs, NEW base, Sound(a, C, objs, base),
         NEW size \in Nat, NEW sz \in Nat, a.last + Header <= base,
         base + size + sz <= a.mem[a.last],
         Holding(a.mem, base, size, Len(objs) + 1)
  PROVE  LiveAt([a EXCEPT !.mem = Fill(@, base + size, sz, Len(objs) + 1)], C, a.last,
                base, base + size + sz, Append(objs, [addr |-> base, size |-> size + sz]))
<1>1. base \in Nat /\ Len(objs) \in Nat /\ objs \in Objects /\ a.last \in Nat
  BY SoundLast
<1>2. PICK b : b = [a EXCEPT !.mem = Fill(@, base + size, sz, Len(objs) + 1)]
  OBVIOUS
<1>3. PICK o : o = [addr |-> base, size |-> size + sz]
  OBVIOUS
<1>4. PICK objs2 : objs2 = Append(objs, o)
  OBVIOUS
<1>5. Sound(b, C, objs2, base + size + sz) /\ b.mem[b.last] = a.mem[a.last] /\ b.last = a.last
  <2>1. Pushed(a, C, objs, base, size, sz)
    BY SoundPush
  <2> QED BY <2>1, <1>2, <1>3, <1>4 DEF Pushed
<1>6. o \in Object
  <2>1. size + sz \in Nat
    OBVIOUS
  <2> QED BY <1>1, <1>3, <2>1 DEF Object
<1>7. Len(objs2) = Len(objs) + 1 /\ objs2[Len(objs2)] = o
  BY <1>1, <1>4, <1>6, ObjectsAppend
<1>8. /\ (base + size + sz) - base = size + sz /\ base <= base + size + sz
      /\ Len(objs) + 1 # 0
  BY <1>1
<1> QED BY <1>1, <1>2, <1>3, <1>4, <1>5, <1>7, <1>8 DEF LiveAt

(* The object that grows, apart from those below it. *)
Grown(base, next, objs) == IF next # base THEN Len(objs) ELSE Len(objs) + 1

LEMMA LiveGrowing ==
  ASSUME NEW a, NEW C, NEW c, NEW base, NEW next, NEW objs, LiveAt(a, C, c, base, next, objs)
  PROVE  LET n == Grown(base, next, objs)
             rest == SubSeq(objs, 1, n - 1)
         IN  /\ Sound(a, C, rest, base) /\ n \in Nat /\ n # 0 /\ Len(rest) = n - 1
             /\ base \in Nat /\ next - base \in Nat /\ next \in Nat
             /\ Holding(a.mem, base, next - base, n)
<1>1. Sound(a, C, objs, next) /\ base \in Nat /\ base <= next
  BY DEF LiveAt
<1>2. objs \in Objects /\ Len(objs) \in Nat /\ next \in Nat
  BY <1>1, SoundLast
<1>3. PICK n \in Nat : n = Grown(base, next, objs) /\ n # 0 /\ n - 1 \in 0 .. Len(objs)
  <2>1. next # base => Len(objs) # 0
    BY DEF LiveAt
  <2> QED BY <1>2, <2>1 DEF Grown
<1>4. \A i \in 1 .. n - 1 : objs[i].addr + objs[i].size <= base
  <2> SUFFICES ASSUME NEW i \in 1 .. n - 1 PROVE objs[i].addr + objs[i].size <= base
    OBVIOUS
  <2>1. CASE next # base
    <3>1. n = Len(objs) /\ objs[n] = [addr |-> base, size |-> next - base]
      BY <2>1, <1>3 DEF Grown, LiveAt
    <3>2. i \in 1 .. Len(objs) /\ n \in 1 .. Len(objs) /\ i < n
      BY <3>1, <1>2, <1>3
    <3>3. objs[i].addr + objs[i].size <= objs[n].addr
      BY <3>2, <1>1 DEF Sound, Piled
    <3> QED BY <3>1, <3>3
  <2>2. CASE next = base
    <3>1. i \in 1 .. Len(objs)
      BY <2>2, <1>2, <1>3 DEF Grown
    <3> QED BY <3>1, <2>2, <1>1, SoundObject
  <2> QED BY <2>1, <2>2
<1>5. Sound(a, C, SubSeq(objs, 1, n - 1), base) /\ Len(SubSeq(objs, 1, n - 1)) = n - 1
  BY <1>1, <1>3, <1>4, SoundTake
<1>6. next - base \in Nat
  BY <1>1, <1>2
<1>7. Holding(a.mem, base, next - base, n)
  <2>1. CASE next # base
    <3>1. n = Len(objs) /\ objs[n] = [addr |-> base, size |-> next - base]
      BY <2>1, <1>3 DEF Grown, LiveAt
    <3>2. Words(objs[n]) = base .. base + (next - base) - 1
      BY <3>1, <1>1, <1>6, WordsOf
    <3>3. n \in 1 .. Len(objs)
      BY <3>1, <1>3
    <3> QED BY <3>2, <3>3, <1>1 DEF Sound, Full, Holding
  <2>2. CASE next = base
    <3>1. base .. base + (next - base) - 1 = {}
      BY <2>2, <1>1
    <3> QED BY <3>1 DEF Holding
  <2> QED BY <2>1, <2>2
<1> QED BY <1>1, <1>2, <1>3, <1>5, <1>6, <1>7

(* A chunk on top, or no memory. *)
LEMMA MakeChunkCases ==
  ASSUME NEW a, NEW C, NEW objs, NEW p, Sound(a, C, objs, p), NEW sz \in Nat
  PROVE  \/ NotMade(a, MakeChunk(a, a.last, sz))
         \/ Made(a, C, sz, MakeChunk(a, a.last, sz)) /\ MakeChunk(a, a.last, sz).ptr # NULL
<1>1. a \in Arenas /\ Stack(a.mem, C, a.end, a.last) /\ a.end \in Nat /\ a.end # 0
  BY DEF Sound, Stack
<1>2. ChunkRoom(sz) \in Nat
  BY ChunkRoomFacts
<1>3. CASE a.end + Header + ChunkRoom(sz) < ArenaEnd
  <2>1. Made(a, C, sz, MakeChunk(a, a.last, sz))
    BY <1>1, <1>3, MakeChunkFits
  <2> QED BY <1>1, <2>1 DEF Made
<1>4. CASE ~(a.end + Header + ChunkRoom(sz) < ArenaEnd)
  <2>1. ArenaEnd <= a.end + Header + ChunkRoom(sz)
    BY <1>1, <1>2, <1>4
  <2> QED BY <1>1, <2>1, MakeChunkFails
<1> QED BY <1>3, <1>4

(* The first chunk always fits. *)
LEMMA FirstChunk ==
  ASSUME NEW a \in Arenas, Stack(a.mem, {}, a.end, NULL), a.last = NULL, a.end = Start + Nuggie
  PROVE  LET r == MakeChunk(a, NULL, ChunkSize)
         IN  /\ LiveAt(r.arena, {r.ptr}, r.ptr, r.ptr + Header, r.ptr + Header, <<>>)
             /\ r.ptr # NULL
<1>1. ChunkRoom(ChunkSize) = ChunkSize
  <2>1. ChunkSize > ChunkSize - Header
    OBVIOUS
  <2> QED BY <2>1, AlignFacts DEF ChunkRoom
<1>2. PICK r : r = MakeChunk(a, NULL, ChunkSize) /\ Made(a, {}, ChunkSize, r)
  <2>1. a.end + Header + ChunkRoom(ChunkSize) < ArenaEnd
    BY <1>1
  <2> QED BY <2>1, MakeChunkFits
<1>3. PICK p : p = r.ptr
  OBVIOUS
<1>4. /\ p = 4 /\ r.arena \in Arenas /\ r.arena.last = p
      /\ Stack(r.arena.mem, {p}, r.arena.end, p) /\ p + Header + ChunkSize <= r.arena.mem[p]
  <2>1. {} \union {p} = {p}
    OBVIOUS
  <2>2. /\ p = a.end /\ r.arena \in Arenas /\ r.arena.last = p
        /\ Stack(r.arena.mem, {} \union {p}, r.arena.end, p) /\ p + Header + ChunkSize <= r.arena.mem[p]
    BY <1>2, <1>3 DEF Made
  <2> QED BY <2>1, <2>2
<1>5. <<>> \in Objects /\ Len(<<>>) = 0
  BY DEF Objects
<1>6. Sound(r.arena, {p}, <<>>, p + Header)
  <2>1. Full(r.arena.mem, <<>>) /\ InChunks(r.arena.mem, {p}, <<>>) /\ Piled(<<>>, p + Header)
    BY <1>5 DEF Full, InChunks, Piled
  <2> QED BY <2>1, <1>4, <1>5 DEF Sound
<1>7. r.arena.mem[p] \in Nat /\ p + Header <= r.arena.mem[p] /\ p + Header \in Nat
  BY <1>4, <1>6, SoundLast
<1> QED BY <1>2, <1>3, <1>4, <1>6, <1>7 DEF LiveAt

(* free without a chunk does nothing. *)
LEMMA FreeChunksNone ==
  ASSUME NEW a, NEW p
  PROVE  FreeChunks(a, NULL, p) = [arena |-> a, chunk |-> NULL]
<1>1. PICK s : s = [arena |-> a, chunk |-> NULL]
  OBVIOUS
<1>2. IsFreed([n \in 0 .. Rounds |-> s], a, NULL, p)
  BY <1>1, RoundsType DEF IsFreed
<1>3. PICK f : f = CHOOSE g : IsFreed(g, a, NULL, p)
  OBVIOUS
<1>4. IsFreed(f, a, NULL, p)
  BY <1>2, <1>3
<1>5. PICK T : T = {n \in Nat : n <= Rounds => f[n] = s}
  OBVIOUS
<1>6. 0 \in T
  BY <1>1, <1>4, <1>5, RoundsType DEF IsFreed
<1>7. ASSUME NEW n \in Nat, n \in T PROVE n + 1 \in T
  <2>1. CASE n + 1 <= Rounds
    <3>1. f[n] = s
      BY <1>5, <1>7, <2>1, RoundsType
    <3>2. n + 1 \in 0 .. Rounds /\ n + 1 # 0 /\ (n + 1) - 1 = n
      BY <2>1, RoundsType
    <3>3. f[n + 1] = s
      <4>1. f = [k \in 0 .. Rounds |-> IF k = 0 THEN [arena |-> a, chunk |-> NULL] ELSE Round(f[k - 1], p)]
        BY <1>4 DEF IsFreed, Round
      <4>2. f[n + 1] = Round(f[n], p)
        BY <3>2, <4>1
      <4>3. s.chunk = NULL
        BY <1>1
      <4> QED BY <3>1, <4>2, <4>3 DEF Round
    <3> QED BY <1>5, <3>3
  <2>2. CASE ~(n + 1 <= Rounds)
    BY <1>5, <2>2
  <2> QED BY <2>1, <2>2
<1>8. f[Rounds] = s
  <2>1. Nat \subseteq T
    BY <1>6, <1>7, SetInduction
  <2> QED BY <1>5, <2>1, RoundsType
<1>9. FreeChunks(a, NULL, p) = f[Rounds]
  BY <1>3 DEF FreeChunks, IsFreed
<1> QED BY <1>1, <1>8, <1>9

-----------------------------------------------------------------------------
(* Every step keeps the invariant.                                         *)

LEMMA EmptyArena ==
  /\ Empty \in Arenas /\ Stack(Empty.mem, {}, Empty.end, NULL)
  /\ Empty.last = NULL /\ Empty.end = Start + Nuggie
<1>0. PICK m : m = [w \in Cells |-> 0]
  OBVIOUS
<1>1. m \in [Cells -> Int] /\ m = [w \in Cells |-> 0]
  BY <1>0
<1>2. Empty = [mem |-> m, end |-> 4, last |-> 0]
  BY <1>1 DEF Empty, Cells
<1>3. 2 \in Cells
  BY DEF Cells
<1>4. Below(m, {}, 4, 0) /\ m[4 - 2] = Gap(4, 0)
  BY <1>1, <1>3 DEF Below, Gap
<1>5. Stack(m, {}, 4, 0)
  <2>1. 4 \in Nat /\ 4 % 2 = 0 /\ Start + Nuggie <= 4 /\ 4 <= ArenaEnd
    OBVIOUS
  <2>2. Apart(m, {})
    BY DEF Apart
  <2> QED BY <2>1, <2>2, <1>1, <1>4 DEF Stack
<1> QED BY <1>1, <1>2, <1>5 DEF Arenas

LEMMA LiveType ==
  ASSUME NEW a, NEW C, NEW c, NEW base, NEW next, NEW objs, LiveAt(a, C, c, base, next, objs)
  PROVE  /\ a \in Arenas /\ objs \in Objects /\ Sound(a, C, objs, next)
         /\ c = a.last /\ c # NULL /\ c \in Nat /\ c \in C /\ base \in Nat /\ next \in Nat
         /\ base <= next /\ next <= a.mem[c] /\ c + Header <= base /\ c + Header <= next
         /\ a.mem[c] \in Nat
<1>1. Sound(a, C, objs, next) /\ c = a.last /\ base \in Nat /\ c + Header <= base /\ base <= next /\ next <= a.mem[c]
  BY DEF LiveAt
<1>2. a \in Arenas /\ objs \in Objects /\ c # NULL /\ c \in Nat /\ c \in C /\ next \in Nat /\ a.mem[c] \in Nat
  BY <1>1, SoundLast
<1> QED BY <1>1, <1>2


LEMMA LiveInv ==
  ASSUME status' = "running", NEW C,
         LiveAt(arena', C, currentChunk', currentBase', nextPos', objects')
  PROVE  ObstackInv'
<1>1. arena' \in Arenas /\ objects' \in Objects /\ currentChunk' # NULL
  BY LiveType
<1> QED BY <1>1 DEF ObstackInv, Ready

LEMMA InitInv == Init => ObstackInv
<1> SUFFICES ASSUME Init PROVE ObstackInv
  OBVIOUS
<1>1. PICK r : r = MakeChunk(Empty, NULL, ChunkSize)
  OBVIOUS
<1>2. LiveAt(r.arena, {r.ptr}, r.ptr, r.ptr + Header, r.ptr + Header, <<>>) /\ r.ptr # NULL
  BY <1>1, EmptyArena, FirstChunk
<1>3. /\ arena = r.arena /\ currentChunk = r.ptr /\ currentBase = r.ptr + Header
      /\ nextPos = r.ptr + Header /\ status = "running" /\ objects = <<>>
  BY <1>1 DEF Init
<1>4. LiveAt(arena, {r.ptr}, currentChunk, currentBase, nextPos, objects)
  BY <1>2, <1>3
<1>5. arena \in Arenas /\ objects \in Objects /\ currentChunk # NULL
  BY <1>4, LiveType
<1> QED BY <1>3, <1>4, <1>5 DEF ObstackInv, Ready

LEMMA FailInv ==
  ASSUME ObstackInv, Ready, NEW r, NotMade(arena, r), Fail(r.arena)
  PROVE  ObstackInv' /\ arena'.mem = arena.mem
<1>1. PICK b \in Arenas : b = r.arena /\ ArenaEnd < b.end /\ b.mem = arena.mem
  <2>1. arena \in Arenas /\ r.arena = [arena EXCEPT !.end = r.arena.end] /\ r.arena.end \in Nat
        /\ ArenaEnd < r.arena.end
    BY DEF ObstackInv, NotMade
  <2>2. r.arena \in Arenas /\ r.arena.mem = arena.mem
    BY <2>1 DEF Arenas
  <2> QED BY <2>1, <2>2
<1>2. arena' = b /\ currentChunk' = NULL /\ status' = "running" /\ objects' = objects
  BY <1>1 DEF Fail, Ready
<1> QED BY <1>1, <1>2 DEF ObstackInv, Ready

(* malloc and grow in the chunk there is, and in a new one. *)
LEMMA MallocLive ==
  ASSUME NEW sz \in Nat, NEW C, Ready, Malloc(sz),
         LiveAt(arena, C, currentChunk, currentBase, nextPos, objects)
  PROVE  \/ /\ status' = "running" /\ \E D : LiveAt(arena', D, currentChunk', currentBase', nextPos', objects')
            /\ \E p : objects' = Append(objects, [addr |-> p, size |-> sz])
         \/ \E r : NotMade(arena, r) /\ Fail(r.arena)
<1>1. /\ Sound(arena, C, objects, nextPos) /\ currentChunk = arena.last /\ nextPos \in Nat
      /\ arena.mem[currentChunk] \in Nat /\ currentChunk + Header <= nextPos
      /\ nextPos <= arena.mem[currentChunk]
  BY LiveType
<1>2. CASE sz <= Room
  <2>1. Bump(arena, currentChunk, nextPos, sz)
    BY <1>2 DEF Malloc
  <2>2. nextPos + sz <= arena.mem[currentChunk]
    BY <1>1, <1>2 DEF Room, Limit
  <2>3. LiveAt([arena EXCEPT !.mem = Fill(@, nextPos, sz, Len(objects) + 1)], C, arena.last,
               Align(nextPos + sz), Align(nextPos + sz), Append(objects, [addr |-> nextPos, size |-> sz]))
    BY <1>1, <2>2, LiveBump
  <2>4. LiveAt(arena', C, currentChunk', currentBase', nextPos', objects')
    BY <1>1, <2>1, <2>3 DEF Bump
  <2>5. status' = "running" /\ objects' = Append(objects, [addr |-> nextPos, size |-> sz])
    BY <2>1 DEF Bump, Ready
  <2> QED BY <2>4, <2>5
<1>3. CASE ~(sz <= Room)
  <2>1. PICK r : r = MakeChunk(arena, arena.last, sz)
    OBVIOUS
  <2>2. CASE NotMade(arena, r)
    <3>1. Fail(r.arena)
      BY <1>1, <1>3, <2>1, <2>2 DEF Malloc, NotMade
    <3> QED BY <2>2, <3>1
  <2>3. CASE Made(arena, C, sz, r) /\ r.ptr # NULL
    <3>1. Bump(r.arena, r.ptr, r.ptr + Header, sz)
      BY <1>1, <1>3, <2>1, <2>3 DEF Malloc
    <3>2. Sound(r.arena, C \union {r.ptr}, objects, r.ptr + Header) /\ r.ptr \in Nat
      BY <1>1, <2>3, SoundMade DEF MadeAbove
    <3>3. /\ r.arena.last = r.ptr /\ r.ptr + Header + sz <= r.arena.mem[r.arena.last]
          /\ r.arena.last + Header <= r.ptr + Header
      BY <2>3, <3>2 DEF Made
    <3>4. LiveAt([r.arena EXCEPT !.mem = Fill(@, r.ptr + Header, sz, Len(objects) + 1)], C \union {r.ptr}, r.arena.last,
                 Align(r.ptr + Header + sz), Align(r.ptr + Header + sz),
                 Append(objects, [addr |-> r.ptr + Header, size |-> sz]))
      BY <3>2, <3>3, LiveBump
    <3>5. LiveAt(arena', C \union {r.ptr}, currentChunk', currentBase', nextPos', objects')
      BY <3>1, <3>3, <3>4 DEF Bump
    <3>6. status' = "running" /\ objects' = Append(objects, [addr |-> r.ptr + Header, size |-> sz])
      BY <3>1 DEF Bump, Ready
    <3> QED BY <3>5, <3>6
  <2> QED BY <1>1, <2>1, <2>2, <2>3, MakeChunkCases
<1> QED BY <1>2, <1>3

(* The objects after the top one grew by sz words, or a new one was grown. *)
GrownBy(sz) ==
  LET n == Grown(currentBase, nextPos, objects)
  IN  \E p : objects' = Append(SubSeq(objects, 1, n - 1),
                               [addr |-> p, size |-> (nextPos - currentBase) + sz])

LEMMA GrowLive ==
  ASSUME NEW sz \in Nat, NEW C, Ready, Grow(sz),
         LiveAt(arena, C, currentChunk, currentBase, nextPos, objects)
  PROVE  \/ /\ status' = "running" /\ \E D : LiveAt(arena', D, currentChunk', currentBase', nextPos', objects')
            /\ GrownBy(sz)
         \/ \E r : NotMade(arena, r) /\ Fail(r.arena)
<1>1. /\ Sound(arena, C, objects, nextPos) /\ currentChunk = arena.last /\ nextPos \in Nat
      /\ currentBase \in Nat /\ currentBase <= nextPos
      /\ arena.mem[currentChunk] \in Nat /\ currentChunk + Header <= currentBase
      /\ nextPos <= arena.mem[currentChunk] /\ currentChunk \in Nat /\ currentChunk \in C
  BY LiveType
<1>2. PICK n : n = Grown(currentBase, nextPos, objects)
  OBVIOUS
<1>3. PICK rest : rest = SubSeq(objects, 1, n - 1)
  OBVIOUS
<1>4. PICK size : size = nextPos - currentBase
  OBVIOUS
<1>5. /\ Sound(arena, C, rest, currentBase) /\ n \in Nat /\ n # 0 /\ Len(rest) = n - 1
      /\ size \in Nat /\ Holding(arena.mem, currentBase, size, n)
  BY <1>2, <1>3, <1>4, LiveGrowing
<1>6. Len(rest) + 1 = n /\ currentBase + size = nextPos
  BY <1>1, <1>4, <1>5
<1>7. \A a, c, base : Extend(a, c, base, sz) =>
        /\ arena' = [a EXCEPT !.mem = Fill(@, base + size, sz, n)]
        /\ currentChunk' = c /\ currentBase' = base /\ nextPos' = base + size + sz
        /\ objects' = Append(rest, [addr |-> base, size |-> size + sz])
        /\ status' = status
  BY <1>2, <1>3, <1>4 DEF Extend, Grown, Growing
<1>8. \A a, D, c, base : Extend(a, c, base, sz) /\ c = a.last
                         /\ LiveAt([a EXCEPT !.mem = Fill(@, base + size, sz, n)], D, a.last,
                                   base, base + size + sz, Append(rest, [addr |-> base, size |-> size + sz]))
        => /\ LiveAt(arena', D, currentChunk', currentBase', nextPos', objects')
           /\ status' = "running" /\ GrownBy(sz)
  <2> SUFFICES ASSUME NEW a, NEW D, NEW c, NEW base, Extend(a, c, base, sz), c = a.last,
                      LiveAt([a EXCEPT !.mem = Fill(@, base + size, sz, n)], D, a.last,
                             base, base + size + sz, Append(rest, [addr |-> base, size |-> size + sz]))
               PROVE  /\ LiveAt(arena', D, currentChunk', currentBase', nextPos', objects')
                      /\ status' = "running" /\ GrownBy(sz)
    OBVIOUS
  <2>1. /\ arena' = [a EXCEPT !.mem = Fill(@, base + size, sz, n)]
        /\ currentChunk' = c /\ currentBase' = base /\ nextPos' = base + size + sz
        /\ objects' = Append(rest, [addr |-> base, size |-> size + sz])
        /\ status' = status
    BY <1>7
  <2>2. LiveAt(arena', D, currentChunk', currentBase', nextPos', objects')
    BY <2>1
  <2>3. GrownBy(sz)
    BY <2>1, <1>2, <1>3, <1>4 DEF GrownBy
  <2> QED BY <2>1, <2>2, <2>3 DEF Ready
<1>9. CASE sz <= Room
  <2>1. Extend(arena, currentChunk, currentBase, sz)
    BY <1>9 DEF Grow
  <2>2. currentBase + size + sz <= arena.mem[arena.last]
    BY <1>1, <1>4, <1>6, <1>9 DEF Room, Limit
  <2>3. LiveAt([arena EXCEPT !.mem = Fill(@, currentBase + size, sz, n)], C, arena.last,
               currentBase, currentBase + size + sz, Append(rest, [addr |-> currentBase, size |-> size + sz]))
    BY <1>1, <1>5, <1>6, <2>2, LiveExtend
  <2> QED BY <1>1, <1>8, <2>1, <2>3
<1>10. CASE ~(sz <= Room)
  <2>0. PICK k \in Nat : k = NewSize(size, sz) /\ size + sz <= k
    BY <1>5, NewSizeFits
  <2>1. PICK r : r = MakeChunk(arena, arena.last, k)
    OBVIOUS
  <2>2. CASE NotMade(arena, r)
    <3>1. Fail(r.arena)
      BY <1>1, <1>4, <1>10, <2>0, <2>1, <2>2 DEF Grow, NotMade
    <3> QED BY <2>2, <3>1
  <2>3. CASE Made(arena, C, k, r) /\ r.ptr # NULL
    <3>1. PICK b : b = [r.arena EXCEPT !.mem = Copy(@, currentBase, r.ptr + Header, size)]
      OBVIOUS
    <3>2. Extend(b, r.ptr, r.ptr + Header, sz)
      BY <1>1, <1>4, <1>10, <2>0, <2>1, <2>3, <3>1 DEF Grow
    <3>3. Sound(arena, C, rest, nextPos)
      BY <1>1, <1>5, SoundRaise
    <3>4. /\ Sound(r.arena, C \union {r.ptr}, rest, r.ptr + Header)
          /\ \A w \in Cells : w < nextPos => r.arena.mem[w] = arena.mem[w]
          /\ nextPos < r.ptr /\ r.ptr \in Nat
      <4>1. nextPos <= arena.mem[arena.last]
        BY <1>1
      <4>2. MadeAbove(arena, C, rest, nextPos, r)
        BY <4>1, <3>3, <2>3, SoundMade
      <4> QED BY <4>2 DEF MadeAbove
    <3>5. Sound(r.arena, C \union {r.ptr}, rest, currentBase)
      <4>1. \A i \in 1 .. Len(rest) : rest[i].addr + rest[i].size <= currentBase
        BY <1>5 DEF Sound, Piled
      <4> QED BY <1>1, <3>4, <4>1, SoundAt
    <3>6. r.arena.mem[currentChunk] = arena.mem[currentChunk]
      <4>1. currentChunk \in Cells /\ currentChunk < nextPos
        <5>1. arena.last \in Cells
          BY <1>1, SoundLast
        <5> QED BY <1>1, <5>1
      <4> QED BY <3>4, <4>1
    <3>7. Holding(r.arena.mem, currentBase, size, n)
      <4> SUFFICES ASSUME NEW w \in currentBase .. currentBase + size - 1 PROVE r.arena.mem[w] = -n
        BY DEF Holding
      <4>1. arena.mem[w] = -n
        BY <1>5 DEF Holding
      <4>2. arena.mem[currentChunk] + 2 <= ArenaEnd
        <5>1. arena.mem[arena.last] + 2 = arena.end /\ arena.end <= ArenaEnd
          BY <1>1, SoundLast
        <5> QED BY <1>1, <5>1
      <4>3. 4 <= currentBase /\ currentBase + size <= nextPos
        BY <1>1, <1>6
      <4>4. w \in Int /\ 4 <= w /\ w < nextPos
        BY <4>3, <1>1, <1>5, InRange
      <4>5. w \in Cells
        BY <4>2, <4>4, <1>1 DEF Cells
      <4> QED BY <4>1, <4>4, <4>5, <3>4
    <3>8. /\ r.arena.last = r.ptr /\ r.ptr + Header + k <= r.arena.mem[r.arena.last]
          /\ r.arena.mem[r.arena.last] \in Nat
      <4>1. r.arena.last = r.ptr /\ r.ptr + Header + k <= r.arena.mem[r.ptr]
        BY <2>3 DEF Made
      <4> QED BY <4>1, <3>4, SoundLast
    <3>9. PICK to \in Nat : to = r.ptr + Header
      BY <3>4
    <3>10. /\ currentBase + size <= to /\ r.arena.last + Header <= to
           /\ to + size <= r.arena.mem[r.arena.last] /\ to + size + sz <= r.arena.mem[r.arena.last]
      <4>1. nextPos <= to /\ to + k <= r.arena.mem[r.arena.last]
        BY <1>1, <3>4, <3>8, <3>9
      <4>2. size \in Nat /\ to + size <= to + k /\ to + size + sz <= to + k
        BY <1>5, <2>0
      <4>3. PICK x \in Nat : x = r.arena.mem[r.arena.last]
        BY <3>8
      <4>4. to + size <= x /\ to + size + sz <= x
        BY <4>1, <4>2, <4>3
      <4>5. r.arena.last + Header <= to
        BY <3>8, <3>9
      <4>6. currentBase + size <= to
        BY <1>6, <4>1
      <4> QED BY <4>3, <4>4, <4>5, <4>6
    <3>11. Copied(r.arena, C \union {r.ptr}, rest, to, size, b)
      <4>1. currentChunk \in C \union {r.ptr} /\ currentChunk + Header <= currentBase
        BY <1>1
      <4>2. currentBase + size <= r.arena.mem[currentChunk]
        BY <1>1, <1>6, <3>6
      <4>3. Holding(r.arena.mem, currentBase, size, Len(rest) + 1)
        BY <1>6, <3>7
      <4> QED BY <1>1, <1>5, <3>1, <3>5, <3>9, <3>10, <4>1, <4>2, <4>3, SoundCopy
    <3>12. /\ Sound(b, C \union {r.ptr}, rest, to) /\ b.last = r.ptr
           /\ b.last + Header <= to /\ to + size + sz <= b.mem[b.last]
           /\ Holding(b.mem, to, size, Len(rest) + 1)
      BY <3>8, <3>10, <3>11 DEF Copied
    <3>13. LiveAt([b EXCEPT !.mem = Fill(@, to + size, sz, Len(rest) + 1)], C \union {r.ptr}, b.last,
                  to, to + size + sz, Append(rest, [addr |-> to, size |-> size + sz]))
      BY <1>5, <3>12, LiveExtend
    <3>14. LiveAt([b EXCEPT !.mem = Fill(@, to + size, sz, n)], C \union {r.ptr}, b.last,
                  to, to + size + sz, Append(rest, [addr |-> to, size |-> size + sz]))
      BY <1>6, <3>13
    <3> QED BY <1>8, <3>2, <3>9, <3>12, <3>14
  <2> QED BY <1>1, <2>0, <2>1, <2>2, <2>3, MakeChunkCases
<1> QED BY <1>9, <1>10

LEMMA FreeLive ==
  ASSUME NEW i \in 1 .. Len(objects), NEW C, Ready, Free(i),
         LiveAt(arena, C, currentChunk, currentBase, nextPos, objects)
  PROVE  /\ status' = "running" /\ objects' = SubSeq(objects, 1, i - 1)
         /\ \E D : LiveAt(arena', D, currentChunk', currentBase', nextPos', objects')
<1>1. Sound(arena, C, objects, nextPos) /\ currentChunk = arena.last
  BY LiveType
<1>2. PICK p : p = objects[i].addr
  OBVIOUS
<1>3. PICK r : r = FreeChunks(arena, arena.last, p)
  OBVIOUS
<1>4. TakenBack(C, objects, i, r)
  BY <1>1, <1>2, <1>3, SoundFree
<1>5. PICK b : b = [r.arena EXCEPT !.mem = Forget(@, p, Limit(@, r.chunk))]
  OBVIOUS
<1>6. /\ r.chunk # NULL /\ r.chunk = b.last
      /\ Sound(b, Lower(C, b.end), SubSeq(objects, 1, i - 1), p)
      /\ b.last + Header <= p /\ p <= b.mem[b.last]
  BY <1>2, <1>4, <1>5 DEF TakenBack
<1>7. /\ currentChunk' = r.chunk /\ currentBase' = p /\ nextPos' = p /\ arena' = b
      /\ objects' = SubSeq(objects, 1, i - 1) /\ status' = "running"
  BY <1>1, <1>2, <1>3, <1>5, <1>6 DEF Free, Ready
<1>8. p \in Nat
  BY <1>6, SoundLast
<1>9. LiveAt(b, Lower(C, b.end), r.chunk, p, p, SubSeq(objects, 1, i - 1))
  BY <1>6, <1>8 DEF LiveAt
<1> QED BY <1>7, <1>9

(* The steps that leave the program without a chunk, or without a heap. *)
LEMMA FreeFailed ==
  ASSUME NEW i \in 1 .. Len(objects), ObstackInv, currentChunk = NULL, Free(i)
  PROVE  ObstackInv' /\ arena' = arena /\ objects' = objects
<1>1. status = "running"
  BY DEF Free
<1>2. FreeChunks(arena, currentChunk, objects[i].addr) = [arena |-> arena, chunk |-> NULL]
  BY FreeChunksNone
<1>3. /\ currentChunk' = NULL /\ status' = "stopped" /\ arena' = arena /\ objects' = objects
  BY <1>2 DEF Free
<1> QED BY <1>1, <1>3 DEF ObstackInv, Ready

LEMMA FreeAllInv ==
  ASSUME ObstackInv, FreeAll
  PROVE  ObstackInv' /\ objects' = <<>>
<1>1. status = "running" /\ objects' = <<>> /\ ObstackInv
  BY DEF FreeAll
<1>2. CASE currentChunk = NULL
  <2>1. FreeChunks(arena, currentChunk, NULL).arena = arena
    BY <1>2, FreeChunksNone
  <2>2. arena \in Arenas /\ ArenaEnd < arena.end /\ arena.end \in Nat /\ ChunkSize \in Nat
    BY <1>1, <1>2 DEF ObstackInv, Arenas
  <2>3. ChunkRoom(ChunkSize) \in Nat
    BY <2>2, ChunkRoomFacts
  <2>4. ArenaEnd <= arena.end + Header + ChunkRoom(ChunkSize)
    BY <2>2, <2>3
  <2>5. PICK r : r = MakeChunk(arena, NULL, ChunkSize) /\ NotMade(arena, r)
    BY <2>2, <2>4, MakeChunkFails
  <2>6. /\ arena' = r.arena /\ currentChunk' = NULL /\ status' \in {"running", "stopped"}
    BY <1>1, <2>1, <2>5 DEF FreeAll, NotMade
  <2>7. r.arena \in Arenas /\ ArenaEnd < r.arena.end
    <3>1. r.arena = [arena EXCEPT !.end = r.arena.end] /\ r.arena.end \in Nat /\ ArenaEnd < r.arena.end
      BY <2>5 DEF NotMade
    <3> QED BY <2>2, <3>1 DEF Arenas
  <2>8. objects' \in Objects
    BY <1>1 DEF Objects
  <2> QED BY <1>1, <2>6, <2>7, <2>8 DEF ObstackInv, Ready
<1>3. CASE currentChunk # NULL
  <2>1. PICK C : LiveAt(arena, C, currentChunk, currentBase, nextPos, objects)
    BY <1>1, <1>3 DEF ObstackInv, Ready
  <2>2. arena \in Arenas /\ Stack(arena.mem, C, arena.end, arena.last) /\ currentChunk = arena.last
    BY <2>1, LiveType DEF Sound
  <2>3. PICK b \in Arenas : /\ b = FreeChunks(arena, currentChunk, NULL).arena
                            /\ Stack(b.mem, {}, b.end, NULL) /\ b.last = NULL /\ b.end = Start + Nuggie
    BY <2>2, FreeChunksAll
  <2>4. PICK r : r = MakeChunk(b, NULL, ChunkSize)
    OBVIOUS
  <2>5. LiveAt(r.arena, {r.ptr}, r.ptr, r.ptr + Header, r.ptr + Header, <<>>) /\ r.ptr # NULL
    BY <2>3, <2>4, FirstChunk
  <2>6. /\ arena' = r.arena /\ currentChunk' = r.ptr /\ currentBase' = r.ptr + Header
        /\ nextPos' = r.ptr + Header /\ status' = "running"
    BY <1>1, <2>3, <2>4, <2>5 DEF FreeAll
  <2>7. LiveAt(arena', {r.ptr}, currentChunk', currentBase', nextPos', objects')
    BY <1>1, <2>5, <2>6
  <2> QED BY <1>1, <2>6, <2>7, LiveInv
<1> QED BY <1>2, <1>3

LEMMA DestroyInv ==
  ASSUME ObstackInv, Destroy
  PROVE  ObstackInv' /\ objects' = <<>>
<1>1. /\ status = "running" /\ status' = "done" /\ objects' = <<>> /\ currentChunk' = currentChunk
      /\ arena' = FreeChunks(arena, currentChunk, NULL).arena
  BY DEF Destroy, position
<1>2. objects' \in Objects
  BY <1>1 DEF Objects
<1>3. CASE currentChunk = NULL
  <2>1. arena' = arena
    BY <1>1, <1>3, FreeChunksNone
  <2>2. arena \in Arenas /\ ArenaEnd < arena.end
    BY <1>1, <1>3 DEF ObstackInv
  <2> QED BY <1>1, <1>2, <1>3, <2>1, <2>2 DEF ObstackInv, Ready
<1>4. CASE currentChunk # NULL
  <2>1. PICK C : LiveAt(arena, C, currentChunk, currentBase, nextPos, objects)
    BY <1>1, <1>4 DEF ObstackInv, Ready
  <2>2. arena \in Arenas /\ Stack(arena.mem, C, arena.end, arena.last) /\ currentChunk = arena.last
    BY <2>1, LiveType DEF Sound
  <2>3. PICK b \in Arenas : /\ b = FreeChunks(arena, currentChunk, NULL).arena
                            /\ b.last = NULL /\ b.end = Start + Nuggie
    BY <2>2, FreeChunksAll
  <2>4. arena' = b
    BY <1>1, <2>3
  <2> QED BY <1>1, <1>2, <1>4, <2>3, <2>4 DEF ObstackInv, Ready
<1> QED BY <1>3, <1>4

LEMMA FinalizeLive ==
  ASSUME NEW C, Finalize, LiveAt(arena, C, currentChunk, currentBase, nextPos, objects)
  PROVE  /\ status' = "running" /\ objects' = objects /\ arena' = arena
         /\ LiveAt(arena', C, currentChunk', currentBase', nextPos', objects')
<1>1. /\ arena' = arena /\ currentChunk' = currentChunk /\ objects' = objects /\ status' = "running"
      /\ currentBase' = Align(nextPos) /\ nextPos' = Align(nextPos)
  BY DEF Finalize, Ready
<1>2. /\ Sound(arena, C, objects, nextPos) /\ currentChunk = arena.last /\ nextPos \in Nat
      /\ nextPos <= arena.mem[currentChunk] /\ currentChunk + Header <= nextPos /\ currentChunk \in Nat
  BY LiveType
<1>3. arena.mem[currentChunk] \in Nat /\ arena.mem[currentChunk] % 2 = 0
  BY <1>2, SoundLast
<1>4. Align(nextPos) \in Nat /\ nextPos <= Align(nextPos) /\ Align(nextPos) <= arena.mem[currentChunk]
  BY <1>2, <1>3, AlignFacts, AlignBelow
<1>5. Sound(arena, C, objects, Align(nextPos))
  BY <1>2, <1>4, SoundRaise
<1>6. currentChunk + Header <= Align(nextPos)
  BY <1>2, <1>4
<1>7. LiveAt(arena, C, currentChunk, Align(nextPos), Align(nextPos), objects)
  BY <1>2, <1>4, <1>5, <1>6 DEF LiveAt
<1> QED BY <1>1, <1>7

LEMMA NextInv == ObstackInv /\ Next => ObstackInv'
<1> SUFFICES ASSUME ObstackInv, Next PROVE ObstackInv'
  OBVIOUS
<1>1. ASSUME Ready PROVE \E C : LiveAt(arena, C, currentChunk, currentBase, nextPos, objects)
  BY <1>1 DEF ObstackInv
<1>2. ASSUME NEW sz \in Sizes, Malloc(sz) PROVE ObstackInv'
  <2>1. Ready /\ sz \in Nat
    BY <1>2 DEF Malloc
  <2>2. PICK C : LiveAt(arena, C, currentChunk, currentBase, nextPos, objects)
    BY <1>1, <2>1
  <2> QED BY <1>2, <2>1, <2>2, MallocLive, LiveInv, FailInv
<1>3. ASSUME NEW sz \in Steps, Grow(sz) PROVE ObstackInv'
  <2>1. Ready /\ sz \in Nat
    BY <1>3 DEF Grow
  <2>2. PICK C : LiveAt(arena, C, currentChunk, currentBase, nextPos, objects)
    BY <1>1, <2>1
  <2> QED BY <1>3, <2>1, <2>2, GrowLive, LiveInv, FailInv
<1>4. CASE Finalize
  <2>1. PICK C : LiveAt(arena, C, currentChunk, currentBase, nextPos, objects)
    BY <1>1, <1>4 DEF Finalize
  <2> QED BY <1>4, <2>1, FinalizeLive, LiveInv
<1>5. ASSUME NEW i \in 1 .. Len(objects), Free(i) PROVE ObstackInv'
  <2>1. CASE currentChunk = NULL
    BY <1>5, <2>1, FreeFailed
  <2>2. CASE currentChunk # NULL
    <3>1. Ready
      BY <1>5, <2>2 DEF Free, Ready
    <3>2. PICK C : LiveAt(arena, C, currentChunk, currentBase, nextPos, objects)
      BY <1>1, <3>1
    <3> QED BY <1>5, <3>1, <3>2, FreeLive, LiveInv
  <2> QED BY <2>1, <2>2
<1>6. CASE FreeAll
  BY <1>6, FreeAllInv
<1>7. CASE Stop
  <2>1. /\ status' = "stopped" /\ arena' = arena /\ objects' = objects /\ currentChunk' = currentChunk
        /\ status = "running" /\ currentChunk = NULL
    BY <1>7 DEF Stop, position
  <2> QED BY <2>1 DEF ObstackInv, Ready
<1>8. CASE Destroy
  BY <1>8, DestroyInv
<1> QED BY <1>2, <1>3, <1>4, <1>5, <1>6, <1>7, <1>8 DEF Next

LEMMA StutterInv == ObstackInv /\ UNCHANGED vars => ObstackInv'
BY DEF vars, position, ObstackInv, Ready

(* The invariant. *)
THEOREM ObstackInvariant == Spec => []ObstackInv
<1>1. ObstackInv /\ [Next]_vars => ObstackInv'
  BY NextInv, StutterInv
<1> QED BY <1>1, InitInv, PTL DEF Spec

-----------------------------------------------------------------------------
(* The chunks are stacked.                                                 *)

IsChunks(f, m) ==
  f = [c \in Start + Nuggie .. ArenaEnd - Header |->
         LET d == PrevChunk(m, c)
         IN  IF d \in Start + Nuggie .. c - 1 THEN {c} \union f[d] ELSE {c}]

LEMMA ChunksExist ==
  ASSUME NEW m
  PROVE  \E f : IsChunks(f, m)
<1> DEFINE Set(f, c) == IF PrevChunk(m, c) \in 4 .. c - 1 THEN {c} \union f[PrevChunk(m, c)] ELSE {c}
           T == {n \in Nat : \E f : f = [c \in 4 .. n |-> Set(f, c)]}
<1>1. 0 \in T
  <2> DEFINE w == [c \in 4 .. 0 |-> {}]
  <2>1. w = [c \in 4 .. 0 |-> Set(w, c)]
    OBVIOUS
  <2> QED BY <2>1
<1>2. ASSUME NEW n \in Nat, n \in T PROVE n + 1 \in T
  <2>1. PICK v : v = [c \in 4 .. n |-> Set(v, c)]
    BY <1>2
  <2> DEFINE w == [c \in 4 .. n + 1 |-> IF c <= n THEN v[c] ELSE Set(v, c)]
             u == [c \in 4 .. n + 1 |-> Set(w, c)]
  <2>2. \A d \in 4 .. n : w[d] = v[d]
    OBVIOUS
  <2>3. ASSUME NEW c \in 4 .. n + 1 PROVE w[c] = u[c]
    <3>1. Set(w, c) = Set(v, c)
      <4>1. CASE PrevChunk(m, c) \in 4 .. c - 1
        <5>1. PrevChunk(m, c) \in 4 .. n
          BY <4>1
        <5>2. w[PrevChunk(m, c)] = v[PrevChunk(m, c)]
          BY <5>1, <2>2
        <5> HIDE DEF w
        <5> QED BY <5>2
      <4>2. CASE PrevChunk(m, c) \notin 4 .. c - 1
        BY <4>2
      <4> QED BY <4>1, <4>2
    <3>2. w[c] = Set(v, c)
      <4>1. CASE c <= n
        <5>1. c \in 4 .. n
          BY <4>1
        <5>2. v[c] = Set(v, c)
          <6> HIDE DEF Set
          <6> QED BY <2>1, <5>1
        <5> QED BY <4>1, <5>2
      <4>2. CASE ~(c <= n)
        BY <4>2
      <4> QED BY <4>1, <4>2
    <3>3. u[c] = Set(w, c)
      OBVIOUS
    <3> QED BY <3>1, <3>2, <3>3
  <2>4. w = [c \in 4 .. n + 1 |-> w[c]] /\ u = [c \in 4 .. n + 1 |-> u[c]]
    OBVIOUS
  <2>5. w = u
    <3> HIDE DEF w, u
    <3> QED BY <2>3, <2>4
  <2>6. w = [c \in 4 .. n + 1 |-> Set(w, c)]
    <3> HIDE DEF w, Set
    <3> QED BY <2>5
  <2> HIDE DEF w, Set
  <2> QED BY <2>6
<1>3. ArenaEnd - Header \in Nat
  OBVIOUS
<1>4. ArenaEnd - Header \in T
  <2> HIDE DEF T, ArenaEnd
  <2>1. Nat \subseteq T
    BY <1>1, <1>2, SetInduction
  <2> QED BY <1>3, <2>1
<1> QED BY <1>4 DEF IsChunks

LEMMA ChunkStep ==
  ASSUME NEW m, NEW f, IsChunks(f, m), NEW c \in 4 .. ArenaEnd - 4
  PROVE  f[c] = IF PrevChunk(m, c) \in 4 .. c - 1 THEN {c} \union f[PrevChunk(m, c)] ELSE {c}
<1> DEFINE D == Start + Nuggie .. ArenaEnd - Header
           Set(x) == IF PrevChunk(m, x) \in Start + Nuggie .. x - 1
                     THEN {x} \union f[PrevChunk(m, x)] ELSE {x}
<1>1. f = [x \in D |-> Set(x)]
  BY Zenon DEF IsChunks
<1>2. c \in D
  OBVIOUS
<1>3. f[c] = Set(c)
  <2> HIDE DEF Set, D
  <2> QED BY <1>1, <1>2
<1> QED BY <1>3

(* What a chunk's size word and its link say. *)
LEMMA ChunkLinks ==
  ASSUME NEW m, NEW C, NEW e, NEW l, Stack(m, C, e, l), NEW c \in C
  PROVE  /\ InUse(m, c) /\ c \in 4 .. ArenaEnd - 4
         /\ \/ PrevBlock(m, c) = c /\ PrevChunk(m, c) = NULL /\ c = Start + Nuggie
            \/ /\ PrevBlock(m, c) = PrevChunk(m, c) /\ PrevChunk(m, c) \in C
               /\ PrevChunk(m, c) < c /\ PrevChunk(m, c) \in Nat /\ m[PrevChunk(m, c)] + Nuggie = c
<1>1. PICK d : Below(m, C, c, d) /\ m[c - 2] = Gap(c, d) + 1 /\ m[c + 2] = d
  BY DEF Stack, Linked
<1>2. Chunk(m, e, c) /\ e \in Nat /\ e <= ArenaEnd
  BY DEF Stack
<1>3. c \in Nat /\ 4 <= c /\ c <= ArenaEnd - 4
  BY <1>2 DEF Chunk
<1>4. \A x \in C : x # NULL
  BY DEF Stack, Chunk
<1>5. CASE d = NULL
  <2>1. c = 4
    BY <1>1, <1>4, <1>5 DEF Below
  <2>2. m[c - 2] = 4 * 0 + 1
    BY <1>1, <1>5 DEF Gap
  <2>3. InUse(m, c) /\ PrevBlock(m, c) = c - 0
    BY <2>2, SizeBits DEF InUse, PrevBlock, SizeLval
  <2> QED BY <1>1, <1>3, <1>5, <2>1, <2>3 DEF PrevChunk
<1>6. CASE d # NULL
  <2>1. d \in C /\ m[d] + Nuggie = c
    BY <1>1, <1>6 DEF Below
  <2>2. Chunk(m, e, d)
    BY <2>1 DEF Stack
  <2>3. d \in Nat /\ d < c /\ c - d \in Nat
    BY <1>3, <2>1, <2>2 DEF Chunk
  <2>4. m[c - 2] = 4 * (c - d) + 1
    BY <1>1, <1>6 DEF Gap
  <2>5. InUse(m, c) /\ PrevBlock(m, c) = c - (c - d)
    BY <2>3, <2>4, SizeBits DEF InUse, PrevBlock, SizeLval
  <2>6. PrevBlock(m, c) = d
    BY <1>3, <2>3, <2>5
  <2> QED BY <1>1, <1>3, <2>1, <2>3, <2>5, <2>6 DEF PrevChunk
<1> QED BY <1>5, <1>6

(* The links lead through all chunks. *)
LEMMA ChunksFromTop ==
  ASSUME NEW C, Stack(arena.mem, C, arena.end, arena.last), arena.last # NULL
  PROVE  ChunksFrom[arena.last] = C
<1>1. PICK m, e, l : m = arena.mem /\ e = arena.end /\ l = arena.last /\ Stack(m, C, e, l)
  OBVIOUS
<1>2. PICK f : f = CHOOSE g : IsChunks(g, m)
  OBVIOUS
<1>3. IsChunks(f, m)
  BY <1>2, ChunksExist
<1>4. ChunksFrom = f
  BY <1>1, <1>2 DEF ChunksFrom, IsChunks
<1>5. PICK T : T = {n \in Nat : \A x \in C : x <= n => f[x] = {y \in C : y <= x}}
  OBVIOUS
<1>6. \A x \in C : x \in Nat /\ 4 <= x /\ x <= ArenaEnd - 4 /\ m[x] \in Nat
  BY <1>1, ChunkLinks DEF Stack, Chunk
<1>7. 0 \in T
  BY <1>5, <1>6
<1>8. ASSUME NEW n \in Nat, n \in T PROVE n + 1 \in T
  <2> SUFFICES ASSUME NEW x \in C, x <= n + 1 PROVE f[x] = {y \in C : y <= x}
    BY <1>5
  <2>1. \A y \in C : y <= n => f[y] = {z \in C : z <= y}
    BY <1>5, <1>8
  <2>2. CASE x <= n
    BY <2>1, <2>2
  <2>3. CASE ~(x <= n)
    <3>1. x = n + 1
      BY <2>3, <1>6
    <3>2. PICK d : d = PrevChunk(m, x)
      OBVIOUS
    <3>3. x \in 4 .. ArenaEnd - 4
      BY <1>6
    <3>4. f[x] = IF d \in 4 .. x - 1 THEN {x} \union f[d] ELSE {x}
      BY <1>3, <3>2, <3>3, ChunkStep
    <3>5. CASE d = NULL /\ x = Start + Nuggie
      <4>1. f[x] = {x}
        BY <3>4, <3>5
      <4>2. \A y \in C : y <= x => y = x
        BY <3>5, <1>6
      <4> QED BY <3>1, <4>1, <4>2, <1>6
    <3>6. CASE d \in C /\ d < x /\ d \in Nat /\ m[d] + Nuggie = x
      <4>1. d \in 4 .. x - 1 /\ d <= n
        BY <3>1, <3>6, <1>6
      <4>2. f[x] = {x} \union {y \in C : y <= d}
        BY <3>4, <3>6, <4>1, <2>1
      <4>3. ASSUME NEW y \in C PROVE y <= x <=> y = x \/ y <= d
        <5>1. d < y => m[d] + Nuggie <= y
          BY <3>6, <1>1 DEF Stack, Apart
        <5> QED BY <5>1, <3>6, <1>6
      <4> QED BY <4>2, <4>3
    <3> QED BY <3>2, <3>5, <3>6, <1>1, ChunkLinks
  <2> QED BY <2>2, <2>3
<1>9. Nat \subseteq T
  BY <1>7, <1>8, SetInduction
<1>10. l \in C /\ l \in Nat /\ \A c \in C : c <= l
  <2>1. l \in C /\ \A c \in C : c = l \/ c \in Lower(C, l)
    BY <1>1, LastIsTop
  <2> QED BY <2>1, <1>6 DEF Lower
<1>11. f[l] = {y \in C : y <= l}
  BY <1>5, <1>9, <1>10
<1>12. f[l] = C
  BY <1>10, <1>11
<1> QED BY <1>1, <1>4, <1>12

LEMMA LiveStacked ==
  ASSUME NEW C, Ready, LiveAt(arena, C, currentChunk, currentBase, nextPos, objects),
         status = "running"
  PROVE  ChunksAreStacked
<1>1. PICK m, e, l : m = arena.mem /\ e = arena.end /\ l = arena.last
  OBVIOUS
<1>2. /\ Sound(arena, C, objects, nextPos) /\ currentChunk = l /\ l # NULL
      /\ l + Header <= currentBase /\ currentBase <= nextPos /\ nextPos <= m[l]
  BY <1>1, LiveType
<1>3. Stack(m, C, e, l) /\ m[l] + Nuggie = e /\ e <= ArenaEnd /\ e \in Nat /\ l \in Nat /\ l \in C /\ l <= e
  <2>1. Stack(m, C, e, l)
    BY <1>1, <1>2 DEF Sound
  <2>2. l \in C /\ m[l] + Nuggie = e /\ Chunk(m, e, l) /\ e <= ArenaEnd /\ e \in Nat
    BY <2>1, <1>2, LastIsTop DEF Stack
  <2> QED BY <2>1, <2>2 DEF Chunk
<1>4. ChunksFrom[currentChunk] = C
  BY <1>1, <1>2, <1>3, ChunksFromTop
<1>5. ~InUse(m, e)
  <2>1. m[e - 2] = 4 * (e - l) /\ e - l \in Nat
    BY <1>2, <1>3 DEF Stack, Gap
  <2> QED BY <2>1, SizeBits DEF InUse, SizeLval
<1>6. ASSUME NEW c \in C
      PROVE  /\ InUse(m, c)
             /\ \/ PrevBlock(m, c) = c /\ PrevChunk(m, c) = NULL /\ c = Start + Nuggie
                \/ \E d \in C : /\ PrevBlock(m, c) = d /\ PrevChunk(m, c) = d
                                /\ d < c /\ Limit(m, d) + Nuggie = c
  BY <1>3, ChunkLinks DEF Limit
<1>7. ASSUME NEW i \in 1 .. Len(objects)
      PROVE  /\ \E c \in C : c + Header <= objects[i].addr /\ objects[i].addr + objects[i].size <= Limit(m, c)
             /\ i > 1 => objects[i - 1].addr + objects[i - 1].size <= objects[i].addr
  <2>1. \E c \in C : c + Header <= objects[i].addr /\ objects[i].addr + objects[i].size <= Limit(m, c)
    BY <1>1, <1>2 DEF Sound, InChunks, InChunk, Limit
  <2>2. ASSUME i > 1 PROVE objects[i - 1].addr + objects[i - 1].size <= objects[i].addr
    <3>1. Len(objects) \in Nat
      BY <1>2, SoundLast
    <3>2. i - 1 \in 1 .. Len(objects) /\ i - 1 < i
      BY <2>2, <3>1
    <3> QED BY <3>2, <1>2 DEF Sound, Piled
  <2> QED BY <2>1, <2>2
<1> QED BY <1>1, <1>2, <1>3, <1>4, <1>5, <1>6, <1>7 DEF ChunksAreStacked, Limit

(* The two heaps' records agree, and the objects are where they say: the   *)
(* chunks, the blocks under them and the objects are one stack, whatever   *)
(* calls came before.  No legal call stops the program, and the destructor *)
(* leaves the array empty, unless memory ran out before; after that the    *)
(* destructor, too, finds no chunk to free, and nothing more is said of it.*)
THEOREM ObstackStacked == Spec => []ChunksAreStacked
<1>1. ObstackInv => ChunksAreStacked
  <2> SUFFICES ASSUME ObstackInv PROVE ChunksAreStacked
    OBVIOUS
  <2>1. CASE Ready
    BY <2>1, LiveStacked DEF ObstackInv, Ready
  <2>2. CASE ~Ready
    <3>1. ArenaSize \in Nat /\ arena.end \in Nat
      BY DEF ObstackInv, Arenas
    <3> QED BY <2>2, <3>1 DEF ObstackInv, ChunksAreStacked
  <2> QED BY <2>1, <2>2
<1> QED BY <1>1, ObstackInvariant, PTL

-----------------------------------------------------------------------------
(* The obstack implements its contract.                                    *)

(* The objects and their contents in memory m, and as they should be. *)
ContentsIn(m, objs) == [i \in 1 .. Len(objs) |->
  LET o == objs[i]
  IN  [addr |-> o.addr, size |-> o.size,
       kept |-> Cardinality({w \in o.addr .. o.addr + o.size - 1 : m[w] = -i})]]

Ideal(objs) == [i \in 1 .. Len(objs) |->
  [addr |-> objs[i].addr, size |-> objs[i].size, kept |-> objs[i].size]]

Item == [addr : Nat, size : Nat, kept : Nat]

LEMMA SoundIdeal ==
  ASSUME NEW a, NEW C, NEW objs, NEW p, Sound(a, C, objs, p)
  PROVE  ContentsIn(a.mem, objs) = Ideal(objs)
<1> SUFFICES ASSUME NEW i \in 1 .. Len(objs)
             PROVE  Cardinality({w \in objs[i].addr .. objs[i].addr + objs[i].size - 1 : a.mem[w] = -i})
                      = objs[i].size
  BY DEF ContentsIn, Ideal
<1>1. PICK x \in Nat, k \in Nat : x = objs[i].addr /\ k = objs[i].size
  BY SoundObject
<1>2. \A w \in x .. x + k - 1 : a.mem[w] = -i
  BY <1>1 DEF Sound, Full, Words
<1>3. {w \in x .. x + k - 1 : a.mem[w] = -i} = x .. x + k - 1
  BY <1>2
<1>4. Cardinality(x .. x + k - 1) = k
  <2>1. x + k - 1 \in Int /\ (x > x + k - 1 => k = 0) /\ (x + k - 1) - x + 1 = k
    OBVIOUS
  <2>2. Cardinality(x .. x + k - 1) = IF x > x + k - 1 THEN 0 ELSE (x + k - 1) - x + 1
    BY <2>1, FS_Interval
  <2> QED BY <2>1, <2>2
<1> QED BY <1>1, <1>3, <1>4

LEMMA ContentsSeq ==
  ASSUME NEW m, NEW objs \in Objects
  PROVE  /\ Len(ContentsIn(m, objs)) = Len(objs)
         /\ \E V : ContentsIn(m, objs) \in Seq(V)
<1>1. PICK n \in Nat : n = Len(objs)
  BY DEF Objects
<1>2. PICK s : s = ContentsIn(m, objs)
  OBVIOUS
<1>3. s = [i \in 1 .. n |-> s[i]]
  BY <1>1, <1>2 DEF ContentsIn
<1>4. PICK V : V = {s[i] : i \in 1 .. n}
  OBVIOUS
<1>5. s \in [1 .. n -> V]
  BY <1>3, <1>4
<1>6. s \in Seq(V) /\ Len(s) = n
  BY <1>5
<1> QED BY <1>1, <1>2, <1>6

LEMMA IdealSeq ==
  ASSUME NEW objs \in Objects
  PROVE  /\ Ideal(objs) \in Seq(Item)
         /\ Len(Ideal(objs)) = Len(objs)
         /\ \A i \in 1 .. Len(objs) :
              /\ Ideal(objs)[i] = [addr |-> objs[i].addr, size |-> objs[i].size, kept |-> objs[i].size]
              /\ Ideal(objs)[i].addr = objs[i].addr /\ Ideal(objs)[i].size = objs[i].size
              /\ Ideal(objs)[i].kept = objs[i].size
<1>1. PICK n \in Nat : n = Len(objs)
  BY DEF Objects
<1>2. PICK s : s = Ideal(objs)
  OBVIOUS
<1>3. \A i \in 1 .. n : s[i] = [addr |-> objs[i].addr, size |-> objs[i].size, kept |-> objs[i].size]
  BY <1>1, <1>2 DEF Ideal
<1>4. \A i \in 1 .. n : s[i] \in Item
  <2> SUFFICES ASSUME NEW i \in 1 .. n PROVE s[i] \in Item
    OBVIOUS
  <2>1. objs[i].addr \in Nat /\ objs[i].size \in Nat
    BY <1>1, ObjectType
  <2>2. PICK x \in Nat, k \in Nat : x = objs[i].addr /\ k = objs[i].size
    BY <2>1
  <2>3. s[i] = [addr |-> x, size |-> k, kept |-> k]
    BY <1>3, <2>2
  <2> QED BY <2>3 DEF Item
<1>5. s = [i \in 1 .. n |-> s[i]]
  BY <1>1, <1>2 DEF Ideal
<1>6. s \in [1 .. n -> Item]
  BY <1>4, <1>5
<1>7. s \in Seq(Item) /\ Len(s) = n
  BY <1>6
<1> QED BY <1>1, <1>2, <1>3, <1>7

LEMMA SameStart ==
  ASSUME NEW V, NEW s \in Seq(V), NEW t \in Seq(V), NEW k \in Nat, k <= Len(s), k <= Len(t),
         \A i \in 1 .. k : s[i] = t[i]
  PROVE  SubSeq(s, 1, k) = SubSeq(t, 1, k)
<1>1. PICK u : u = SubSeq(s, 1, k)
  OBVIOUS
<1>2. PICK v : v = SubSeq(t, 1, k)
  OBVIOUS
<1>3. u \in Seq(V) /\ Len(u) = k /\ \A i \in 1 .. k : u[i] = s[i]
  BY <1>1
<1>4. v \in Seq(V) /\ Len(v) = k /\ \A i \in 1 .. k : v[i] = t[i]
  BY <1>2
<1>5. u = [i \in 1 .. k |-> u[i]] /\ v = [i \in 1 .. k |-> v[i]]
  BY <1>3, <1>4
<1>6. \A i \in 1 .. k : u[i] = v[i]
  BY <1>3, <1>4
<1>7. u = v
  BY <1>5, <1>6
<1> QED BY <1>1, <1>2, <1>7

(* Freeing the objects above k of them. *)
LEMMA IdealTake ==
  ASSUME NEW objs \in Objects, NEW k \in 0 .. Len(objs)
  PROVE  Ideal(SubSeq(objs, 1, k)) = SubSeq(Ideal(objs), 1, k)
<1>1. PICK rest \in Objects : /\ rest = SubSeq(objs, 1, k) /\ Len(rest) = k
                              /\ \A i \in 1 .. k : i \in 1 .. Len(objs) /\ rest[i] = objs[i]
  BY ObjectsTake
<1>2. k \in Nat /\ k <= Len(objs)
  BY ObjectsTake
<1>3. SubSeq(Ideal(rest), 1, k) = SubSeq(Ideal(objs), 1, k)
  <2>1. \A i \in 1 .. k : Ideal(rest)[i] = Ideal(objs)[i]
    <3> SUFFICES ASSUME NEW i \in 1 .. k PROVE Ideal(rest)[i] = Ideal(objs)[i]
      OBVIOUS
    <3>1. i \in 1 .. Len(objs) /\ i \in 1 .. Len(rest) /\ rest[i] = objs[i]
      BY <1>1
    <3>2. Ideal(rest)[i] = [addr |-> rest[i].addr, size |-> rest[i].size, kept |-> rest[i].size]
      BY <3>1, IdealSeq
    <3>3. Ideal(objs)[i] = [addr |-> objs[i].addr, size |-> objs[i].size, kept |-> objs[i].size]
      BY <3>1, IdealSeq
    <3> QED BY <3>1, <3>2, <3>3
  <2> QED BY <2>1, <1>1, <1>2, IdealSeq, SameStart
<1>4. SubSeq(Ideal(rest), 1, k) = Ideal(rest)
  <2>1. PICK s \in Seq(Item) : s = Ideal(rest) /\ Len(s) = k
    BY <1>1, IdealSeq
  <2> QED BY <2>1, <1>2
<1> QED BY <1>1, <1>3, <1>4

(* The abstract malloc and grow, of values. *)
NewTop(x, y, n) ==
  /\ Len(y) = n + 1
  /\ SubSeq(y, 1, n) = SubSeq(x, 1, n)
  /\ y[n + 1].addr # 0 /\ y[n + 1].kept = y[n + 1].size
  /\ \A i \in 1 .. n : Words(y[n + 1]) \intersect Words(x[i]) = {}

LEMMA TopOf ==
  ASSUME NEW n, NewTop(Contents, Contents', n)
  PROVE  Contract!Top(n)
<1>1. Words(Contents'[n + 1]) \intersect UNION {Words(Contents[i]) : i \in 1 .. n} = {}
  BY DEF NewTop
<1> QED BY <1>1 DEF NewTop, Words, Contract!Top, Contract!Words, Contract!Below

(* A new object o on the first n is a new top. *)
LEMMA IdealTop ==
  ASSUME NEW objs \in Objects, NEW n \in 0 .. Len(objs), NEW o,
         NEW b, NEW D, NEW q, Sound(b, D, Append(SubSeq(objs, 1, n), o), q)
  PROVE  /\ NewTop(Ideal(objs), Ideal(Append(SubSeq(objs, 1, n), o)), n)
         /\ Ideal(Append(SubSeq(objs, 1, n), o))[n + 1].size = o.size
<1>1. PICK rest \in Objects : /\ rest = SubSeq(objs, 1, n) /\ Len(rest) = n
                              /\ \A i \in 1 .. n : i \in 1 .. Len(objs) /\ rest[i] = objs[i]
  BY ObjectsTake
<1>2. n \in Nat /\ n <= Len(objs) /\ Len(objs) \in Nat
  BY ObjectsTake
<1>3. PICK y : y = Append(rest, o) /\ Sound(b, D, y, q)
  BY <1>1
<1>4. y \in Objects
  BY <1>3 DEF Sound
<1>5. Len(y) = n + 1 /\ y[n + 1] = o /\ \A i \in 1 .. n : y[i] = objs[i]
  BY <1>1, <1>2, <1>3 DEF Objects
<1>6. n + 1 \in 1 .. Len(y) /\ \A i \in 1 .. n : i \in 1 .. Len(y) /\ i < n + 1
  BY <1>2, <1>5
<1>7. SubSeq(Ideal(y), 1, n) = SubSeq(Ideal(objs), 1, n)
  <2>1. \A i \in 1 .. n : Ideal(y)[i] = Ideal(objs)[i]
    <3> SUFFICES ASSUME NEW i \in 1 .. n PROVE Ideal(y)[i] = Ideal(objs)[i]
      OBVIOUS
    <3>1. i \in 1 .. Len(objs) /\ i \in 1 .. Len(y) /\ y[i] = objs[i]
      BY <1>1, <1>5, <1>6
    <3>2. Ideal(y)[i] = [addr |-> y[i].addr, size |-> y[i].size, kept |-> y[i].size]
      BY <3>1, <1>4, IdealSeq
    <3>3. Ideal(objs)[i] = [addr |-> objs[i].addr, size |-> objs[i].size, kept |-> objs[i].size]
      BY <3>1, IdealSeq
    <3> QED BY <3>1, <3>2, <3>3
  <2>2. n <= n + 1
    BY <1>2
  <2> QED BY <2>1, <2>2, <1>2, <1>4, <1>5, IdealSeq, SameStart
<1>8. /\ Ideal(y)[n + 1].addr = o.addr /\ Ideal(y)[n + 1].size = o.size
      /\ Ideal(y)[n + 1].kept = o.size
  BY <1>4, <1>5, <1>6, IdealSeq
<1>9. o.addr # 0
  <2>1. PICK c \in D : c + Header <= o.addr
    BY <1>3, <1>5, <1>6 DEF Sound, InChunks, InChunk
  <2>2. c \in Nat
    BY <1>3 DEF Sound, Stack, Chunk
  <2>3. o.addr \in Nat
    BY <1>3, <1>5, <1>6, SoundObject
  <2> QED BY <2>1, <2>2, <2>3
<1>10. ASSUME NEW i \in 1 .. n
       PROVE  Words(Ideal(y)[n + 1]) \intersect Words(Ideal(objs)[i]) = {}
  <2>1. i \in 1 .. Len(objs) /\ i \in 1 .. Len(y) /\ y[i] = objs[i]
    BY <1>1, <1>5, <1>6
  <2>2. Ideal(objs)[i].addr = y[i].addr /\ Ideal(objs)[i].size = y[i].size
    <3>1. Ideal(objs)[i].addr = objs[i].addr /\ Ideal(objs)[i].size = objs[i].size
      BY <2>1, IdealSeq
    <3> QED BY <2>1, <3>1
  <2>3. y[i].addr \in Nat /\ y[i].size \in Nat /\ o.addr \in Nat /\ o.size \in Nat
    BY <2>1, <1>3, <1>5, <1>6, SoundObject
  <2>4. y[i].addr + y[i].size <= o.addr
    BY <2>1, <1>3, <1>5, <1>6 DEF Sound, Piled
  <2>5. PICK u \in Nat, k \in Nat, v \in Nat, g \in Nat :
          u = y[i].addr /\ k = y[i].size /\ v = o.addr /\ g = o.size
    BY <2>3
  <2>6. Words(Ideal(y)[n + 1]) = v .. v + g - 1 /\ Words(Ideal(objs)[i]) = u .. u + k - 1
    BY <2>2, <2>5, <1>8 DEF Words
  <2>7. u + k <= v
    BY <2>4, <2>5
  <2>8. (v .. v + g - 1) \intersect (u .. u + k - 1) = {}
    BY <2>7
  <2> QED BY <2>6, <2>8
<1>11. Len(Ideal(y)) = n + 1
  BY <1>4, <1>5, IdealSeq
<1>12. NewTop(Ideal(objs), Ideal(y), n)
  BY <1>7, <1>8, <1>9, <1>10, <1>11 DEF NewTop
<1> QED BY <1>1, <1>3, <1>8, <1>12

LEMMA ContentsNow == Contents = ContentsIn(arena.mem, objects)
BY DEF Contents, ContentsIn

LEMMA ContentsNext == Contents' = ContentsIn(arena'.mem, objects')
BY DEF Contents, ContentsIn

LEMMA LiveContents ==
  ASSUME NEW C, LiveAt(arena, C, currentChunk, currentBase, nextPos, objects)
  PROVE  Contents = Ideal(objects)
BY ContentsNow, LiveType, SoundIdeal

LEMMA LiveContentsNext ==
  ASSUME NEW C, LiveAt(arena', C, currentChunk', currentBase', nextPos', objects')
  PROVE  Contents' = Ideal(objects') /\ \E q : Sound(arena', C, objects', q)
<1>1. Sound(arena', C, objects', nextPos')
  BY LiveType
<1> QED BY <1>1, ContentsNext, SoundIdeal

(* No memory: the objects are all still there. *)
LEMMA FailRefines ==
  ASSUME ObstackInv, Ready, NEW r, NotMade(arena, r), Fail(r.arena)
  PROVE  Contents' = Contents
<1>1. arena'.mem = arena.mem
  BY FailInv
<1>2. objects' = objects
  BY DEF Fail
<1> QED BY <1>1, <1>2, ContentsNow, ContentsNext

LEMMA MallocRefines ==
  ASSUME NEW sz \in Nat, ObstackInv, Malloc(sz)
  PROVE  Contract!Malloc \/ Contents' = Contents
<1>1. Ready
  BY DEF Malloc
<1>2. PICK C : LiveAt(arena, C, currentChunk, currentBase, nextPos, objects)
  BY <1>1 DEF ObstackInv
<1>3. CASE \E r : NotMade(arena, r) /\ Fail(r.arena)
  BY <1>1, <1>3, FailRefines
<1>4. CASE \E D : LiveAt(arena', D, currentChunk', currentBase', nextPos', objects')
           /\ \E p : objects' = Append(objects, [addr |-> p, size |-> sz])
  <2>1. PICK D : LiveAt(arena', D, currentChunk', currentBase', nextPos', objects')
    BY <1>4
  <2>2. PICK o : objects' = Append(objects, o)
    BY <1>4
  <2>3. objects \in Objects
    BY <1>2, LiveType
  <2>4. PICK n \in 0 .. Len(objects) : n = Len(objects) /\ SubSeq(objects, 1, n) = objects
    BY <2>3 DEF Objects
  <2>5. Contents' = Ideal(objects') /\ \E q : Sound(arena', D, objects', q)
    BY <2>1, LiveContentsNext
  <2>6. Contents = Ideal(objects)
    BY <1>2, LiveContents
  <2>7. NewTop(Contents, Contents', n)
    BY <2>2, <2>3, <2>4, <2>5, <2>6, IdealTop
  <2>8. Len(Contents) = n
    BY <2>3, <2>4, <2>6, IdealSeq
  <2> QED BY <2>7, <2>8, TopOf DEF Contract!Malloc
<1> QED BY <1>1, <1>2, <1>3, <1>4, MallocLive

LEMMA GrowRefines ==
  ASSUME NEW sz \in Nat \ {0}, ObstackInv, Grow(sz)
  PROVE  Contract!Malloc \/ Contract!Grow \/ Contents' = Contents
<1>1. Ready
  BY DEF Grow
<1>2. PICK C : LiveAt(arena, C, currentChunk, currentBase, nextPos, objects)
  BY <1>1 DEF ObstackInv
<1>3. CASE \E r : NotMade(arena, r) /\ Fail(r.arena)
  BY <1>1, <1>3, FailRefines
<1>4. CASE GrownBy(sz) /\ \E D : LiveAt(arena', D, currentChunk', currentBase', nextPos', objects')
  <2>1. PICK D : LiveAt(arena', D, currentChunk', currentBase', nextPos', objects')
    BY <1>4
  <2>2. PICK n : n = Grown(currentBase, nextPos, objects)
    OBVIOUS
  <2>3. PICK p : objects' = Append(SubSeq(objects, 1, n - 1),
                                   [addr |-> p, size |-> (nextPos - currentBase) + sz])
    BY <1>4, <2>2 DEF GrownBy
  <2>4. PICK o : /\ o = [addr |-> p, size |-> (nextPos - currentBase) + sz]
                 /\ objects' = Append(SubSeq(objects, 1, n - 1), o)
    BY <2>3
  <2>5. n \in Nat /\ n # 0 /\ nextPos - currentBase \in Nat
    BY <1>2, <2>2, LiveGrowing
  <2>6. objects \in Objects /\ Len(objects) \in Nat
    BY <1>2, LiveType DEF Objects
  <2>7. n - 1 \in 0 .. Len(objects)
    BY <2>2, <2>5, <2>6 DEF Grown
  <2>8. Contents' = Ideal(objects') /\ \E q : Sound(arena', D, objects', q)
    BY <2>1, LiveContentsNext
  <2>9. Contents = Ideal(objects)
    BY <1>2, LiveContents
  <2>10. NewTop(Contents, Contents', n - 1) /\ Contents'[(n - 1) + 1].size = o.size
    BY <2>4, <2>6, <2>7, <2>8, <2>9, IdealTop
  <2>11. Contract!Top(n - 1)
    BY <2>10, TopOf
  <2>12. Len(Contents) = Len(objects)
    BY <2>6, <2>9, IdealSeq
  <2>13. CASE nextPos = currentBase
    <3>1. n - 1 = Len(Contents)
      BY <2>2, <2>5, <2>6, <2>12, <2>13 DEF Grown
    <3> QED BY <2>11, <3>1 DEF Contract!Malloc
  <2>14. CASE nextPos # currentBase
    <3>1. n = Len(objects) /\ objects[n] = [addr |-> currentBase, size |-> nextPos - currentBase]
      BY <2>2, <2>14, <1>2 DEF Grown, LiveAt
    <3>2. n \in 1 .. Len(objects) /\ (n - 1) + 1 = n
      BY <3>1, <2>5
    <3>3. Contents[n].size = nextPos - currentBase
      <4>1. objects[n].size = nextPos - currentBase
        BY <3>1
      <4>2. Ideal(objects)[n].size = objects[n].size
        BY <3>2, <2>6, IdealSeq
      <4> QED BY <4>1, <4>2, <2>9
    <3>4. Contents'[n].size = (nextPos - currentBase) + sz
      BY <2>4, <2>10, <3>2
    <3>5. Contents'[n].size > Contents[n].size
      BY <3>3, <3>4, <2>5
    <3> QED BY <2>5, <2>11, <2>12, <3>1, <3>5 DEF Contract!Grow
  <2> QED BY <2>13, <2>14
<1> QED BY <1>1, <1>2, <1>3, <1>4, GrowLive

LEMMA FreeRefines ==
  ASSUME NEW i \in 1 .. Len(objects), ObstackInv, Free(i)
  PROVE  Contract!Free \/ Contents' = Contents
<1>1. CASE currentChunk = NULL
  BY <1>1, FreeFailed, ContentsNow, ContentsNext
<1>2. CASE currentChunk # NULL
  <2>1. Ready
    BY <1>2 DEF Free, Ready
  <2>2. PICK C : LiveAt(arena, C, currentChunk, currentBase, nextPos, objects)
    BY <2>1 DEF ObstackInv
  <2>3. objects' = SubSeq(objects, 1, i - 1)
    BY <2>1, <2>2, FreeLive
  <2>4. PICK D : LiveAt(arena', D, currentChunk', currentBase', nextPos', objects')
    BY <2>1, <2>2, FreeLive
  <2>5. objects \in Objects /\ Len(objects) \in Nat
    BY <2>2, LiveType DEF Objects
  <2>6. i - 1 \in 0 .. Len(objects) /\ i - 1 \in 0 .. Len(objects) - 1
    BY <2>5
  <2>7. Contents' = SubSeq(Contents, 1, i - 1)
    BY <2>2, <2>3, <2>4, <2>5, <2>6, LiveContents, LiveContentsNext, IdealTake
  <2>8. Len(Contents) = Len(objects)
    BY <2>2, <2>5, LiveContents, IdealSeq
  <2> QED BY <2>6, <2>7, <2>8 DEF Contract!Free
<1> QED BY <1>1, <1>2

(* free(NULL) and the destructor leave no object. *)
LEMMA EmptyRefines ==
  ASSUME ObstackInv, objects' = <<>>
  PROVE  Contract!Free \/ Contents' = Contents
<1>1. objects \in Objects /\ Len(objects) \in Nat
  BY DEF ObstackInv, Objects
<1>2. PICK V : Contents \in Seq(V) /\ Len(Contents) = Len(objects)
  BY <1>1, ContentsNow, ContentsSeq
<1>3. Contents' = <<>>
  BY ContentsNext DEF ContentsIn
<1>4. CASE Len(objects) = 0
  <2>1. Contents = <<>>
    BY <1>2, <1>4
  <2> QED BY <1>3, <2>1
<1>5. CASE Len(objects) # 0
  <2>1. SubSeq(Contents, 1, 0) = <<>> /\ 0 \in 0 .. Len(Contents) - 1
    BY <1>1, <1>2, <1>5
  <2> QED BY <1>3, <2>1 DEF Contract!Free
<1> QED BY <1>4, <1>5

LEMMA StepRefines ==
  ASSUME ObstackInv, [Next]_vars
  PROVE  [Contract!Next]_Contents
<1>1. ASSUME NEW sz \in Sizes, Malloc(sz) PROVE Contract!Malloc \/ Contents' = Contents
  BY <1>1, MallocRefines
<1>2. ASSUME NEW sz \in Steps, Grow(sz) PROVE Contract!Malloc \/ Contract!Grow \/ Contents' = Contents
  BY <1>2, GrowRefines
<1>3. CASE Finalize
  BY <1>3, ContentsNow, ContentsNext DEF Finalize
<1>4. ASSUME NEW i \in 1 .. Len(objects), Free(i) PROVE Contract!Free \/ Contents' = Contents
  BY <1>4, FreeRefines
<1>5. ASSUME FreeAll \/ Destroy PROVE Contract!Free \/ Contents' = Contents
  BY <1>5, EmptyRefines DEF FreeAll, Destroy
<1>6. CASE Stop
  BY <1>6, ContentsNow, ContentsNext DEF Stop
<1>7. CASE UNCHANGED vars
  BY <1>7, ContentsNow, ContentsNext DEF vars
<1> QED BY <1>1, <1>2, <1>3, <1>4, <1>5, <1>6, <1>7 DEF Next, Contract!Next

(* The obstack is a stack of objects that keep what was written into them: *)
(* no chunk's header, no size word and no younger object is ever laid over *)
(* one, moving the object that grows copies all of it, freeing goes no     *)
(* further than it should, and a call that finds no memory takes nothing.  *)
THEOREM ObstackContract == Spec => ImplementsStack
<1>1. Init => Contract!Init
  BY DEF Init, Contract!Init, Contents
<1>2. ObstackInv /\ [Next]_vars => [Contract!Next]_Contents
  BY StepRefines
<1> QED BY <1>1, <1>2, ObstackInvariant, PTL DEF Spec, ImplementsStack, Contract!Spec
=============================================================================
