-------------------------- MODULE LeaHeap_proofs --------------------------
(***************************************************************************)
(* Theorems about the coalescing allocator.  The invariant says how the    *)
(* memory is laid out, in terms the state has no variables for: the runs   *)
(* of objects, the objects they consist of, which of these are in bins and *)
(* which their successor's tag says are free, and the objects mapped one   *)
(* by one.  A run, an object and a mapped object are pairs: the header it  *)
(* starts at, and the header behind it.                                    *)
(***************************************************************************)
EXTENDS LeaHeap, Facts

Mem == Granule \union Heads
MapBlocks == {Block(c) : c \in Bins}

HeapType ==
  [mem : [Mem -> Int \X Int], maps : SUBSET (Int \X Int),
   arena : Nat, space : Nat, left : Nat, ptr : Nat, remaining : Nat,
   binmap : [MapBlocks -> SUBSET Int]]

(* What lies behind the header of an object, and how much it is. *)
Body(o) == o[1] + 1 .. o[2] - 1
Size(o) == o[2] - o[1] - 1

Starts(S) == {s[1] : s \in S}

(* The objects of each run follow each other from its start to its end,    *)
(* and neither runs nor mapped objects have a granule in common, the one   *)
(* before a run and the one behind its last header included.               *)
Adjoin(S, O) ==
  /\ \A o \in O : \E s \in S : s[1] <= o[1] /\ o[2] <= s[2]
  /\ \A o \in O : (\E s \in S : o[1] = s[1]) \/ \E p \in O : p[2] = o[1]
  /\ \A o \in O : (\E s \in S : o[2] = s[2]) \/ \E p \in O : p[1] = o[2]
  /\ \A s \in S : (\E o \in O : o[1] = s[1]) /\ \E o \in O : o[2] = s[2]

Layout(S, O, X) ==
  /\ S \subseteq Granule \X Granule /\ O \subseteq Granule \X Granule /\ X \subseteq Granule \X Granule
  /\ \A o \in O : o[1] + 2 <= o[2]
  /\ \A o, p \in O : o # p => o[2] <= p[1] \/ p[2] <= o[1]
  /\ Adjoin(S, O)
  /\ \A s \in S : 3 <= s[1] /\ s[1] < s[2] /\ s[2] < MemTop /\ s[2] <= s[1] + ChunkSize
  /\ \A s, t \in S : s # t => s[2] + 1 < t[1] - 1 \/ t[2] + 1 < s[1] - 1
  /\ \A x \in X : x[1] + 2 <= x[2]
  /\ \A x, y \in X : x # y => x[2] < y[1] \/ y[2] < x[1]
  /\ \A s \in S : \A x \in X : s[2] + 1 < x[1] \/ x[2] < s[1] - 1

(* Whether granules up to e are in what the kernel mapped from i on. *)
InMap(h, i, e) == \E m \in h.maps : m[1] = i /\ e < m[1] + m[2]

(* Mappings are apart, and each is that of a run or of a mapped object. *)
MapsInv(h, S, X) ==
  /\ \A m \in h.maps : 1 <= m[1] /\ m[1] <= MemTop /\ 1 <= m[2] /\ m[1] + m[2] - 1 <= MemTop
  /\ \A m, n \in h.maps : m # n => m[1] + m[2] <= n[1] \/ n[1] + n[2] <= m[1]
  /\ \A s \in S : InMap(h, s[1] - ArenaHeader, s[2] + 1)
  /\ \A x \in X : InMap(h, x[1], x[2])

(* The slop follows the last header of its run, and what the zone has left *)
(* follows the slop.                                                       *)
SlopInv(h, S) ==
  /\ h.ptr = NULL => h.remaining = 0
  /\ h.ptr # NULL =>
       \E s \in S :
         /\ s[2] = h.ptr /\ h.ptr + h.remaining <= s[1] + ChunkSize
         /\ InMap(h, s[1] - ArenaHeader, h.ptr + h.remaining + 1)

ArenaInv(h, S) ==
  h.arena # NULL =>
    /\ h.ptr # NULL /\ h.space = h.ptr + h.remaining + Slop
    /\ <<h.arena + ArenaHeader, h.ptr>> \in S
    /\ h.space + h.left <= h.arena + ArenaHeader + ChunkSize + Slop
    /\ InMap(h, h.arena, h.space + h.left)

(* The tags of objects, M being those marked as free, and what surrounds   *)
(* the objects of a run.                                                   *)
Tags(h, O, M) ==
  \A o \in O :
    /\ GetSize(h, o[1]) = Size(o) /\ ~IsMmapped(h, o[1])
    /\ GetPrevSize(h, o[2]) = Size(o)
    /\ IsPrevFree(h, o[2]) <=> o \in M

RunTags(h, S) ==
  \A s \in S :
    /\ GetSize(h, s[1] - 1) # 0
    /\ GetPrevSize(h, s[1]) = 0 /\ ~IsPrevFree(h, s[1])
    /\ GetSize(h, s[2]) = 0 /\ ~IsPrevFree(h, s[2] + 1)

MappedTags(h, X) == \A x \in X : GetSize(h, x[1]) = Size(x) /\ IsMmapped(h, x[1])

(* The entries of the objects in bin c form a ring with its head. *)
Entries(B, c) == {o[1] + 1 : o \in {o \in B : FreeClass(Size(o)) = c}}

IsRing(mem, E, hd) ==
  LET ring == E \union {hd}
  IN  /\ \A e \in ring : mem[e][2] \in ring /\ mem[mem[e][2]][1] = e
      /\ \A part \in (SUBSET ring) \ {{}, ring} : \E e \in part : mem[e][2] \notin part

Rings(h, B) == \A c \in Bins : IsRing(h.mem, Entries(B, c), Head(c))

(* A bit of the map is that of some bin, and a bin that has objects and a  *)
(* bit of its own has that bit set.                                        *)
BitsInv(h, B) ==
  /\ \A k \in MapBlocks : \A b \in h.binmap[k] : \E d \in Bins : Block(d) = k /\ Bit(d) = b
  /\ \A o \in B : HasOwnBit(FreeClass(Size(o))) =>
                    Bit(FreeClass(Size(o))) \in h.binmap[Block(FreeClass(Size(o)))]

Good(h, S, O, B, M, X) ==
  /\ h \in HeapType
  /\ B \subseteq O /\ M \subseteq O
  /\ Layout(S, O, X) /\ MapsInv(h, S, X) /\ SlopInv(h, S) /\ ArenaInv(h, S)
  /\ Tags(h, O, M) /\ RunTags(h, S) /\ MappedTags(h, X)
  /\ Rings(h, B) /\ BitsInv(h, B)

(* Between calls the objects in bins are marked, but for the first of a    *)
(* run.                                                                    *)
Marked(S, B) == {o \in B : o[1] \notin Starts(S)}
Steady(h, S, O, B, X) == Good(h, S, O, B, Marked(S, B), X)

(* Clients own the objects that are in no bin, and their contents are what *)
(* was written.                                                            *)
InUse(O, B, X) == (O \ B) \union X

BlockOf(u, b) == u[1] = GetHeader(b.addr) /\ Size(u) = b.size

BlocksInv(h, U, L) ==
  /\ \A b \in L :
       /\ b.addr \in Nat /\ b.size \in Nat /\ b.kept = b.size /\ b.data \in Data
       /\ \E u \in U : BlockOf(u, b)
       /\ \A i \in 0 .. b.kept - 1 : h.mem[b.addr + i] = <<b.data, b.data>>
  /\ \A u \in U : \E b \in L : BlockOf(u, b)
  /\ \A b, c \in L : b.addr = c.addr => b = c

LeaState(h, R, L) ==
  \E S, O, B, X :
    Steady(h, S, O, B, X) /\ R = Starts(S) /\ BlocksInv(h, InUse(O, B, X), L)

LeaInv == LeaState(heap, regions, live)

-----------------------------------------------------------------------------
(* Words and writes.                                                       *)

(* What a header's first word packs can be read back. *)
LEMMA PackFacts ==
  ASSUME NEW f \in BOOLEAN, NEW m \in BOOLEAN, NEW n \in Int
  PROVE  /\ Pack(f, m, n) \in Int
         /\ Pack(f, m, n) % 2 = 1 <=> f
         /\ (Pack(f, m, n) \div 2) % 2 = 1 <=> m
         /\ Pack(f, m, n) \div 4 = n
BY DEF Pack, Flag

(* Everything but memory and the map of bins is the same. *)
SameZone(h, k) ==
  /\ k.maps = h.maps /\ k.arena = h.arena /\ k.space = h.space /\ k.left = h.left
  /\ k.ptr = h.ptr /\ k.remaining = h.remaining

(* At most the granules of A are written. *)
Writes(h, k, A) ==
  /\ k \in HeapType /\ SameZone(h, k) /\ k.binmap = h.binmap
  /\ \A a \in Mem \ A : k.mem[a] = h.mem[a]

Put(h, g, v) == [h EXCEPT !.mem[g] = v]

LEMMA PutIs ==
  ASSUME NEW h \in HeapType, NEW g \in Mem, NEW v \in Int \X Int
  PROVE  Writes(h, Put(h, g, v), {g}) /\ Put(h, g, v).mem[g] = v
<1>1. /\ Put(h, g, v) \in HeapType
      /\ Put(h, g, v).mem = [a \in Mem |-> IF a = g THEN v ELSE h.mem[a]]
  BY DEF Put, HeapType
<1>2. SameZone(h, Put(h, g, v)) /\ Put(h, g, v).binmap = h.binmap
  BY DEF Put, HeapType, SameZone
<1> QED BY <1>1, <1>2 DEF Writes

LEMMA HeapWords ==
  ASSUME NEW h \in HeapType, NEW g \in Mem
  PROVE  /\ h.mem[g] = <<h.mem[g][1], h.mem[g][2]>>
         /\ h.mem[g][1] \in Int /\ h.mem[g][2] \in Int
BY DEF HeapType

(* The tags in the first word of g are the same. *)
SameTags(h, k, g) ==
  /\ IsPrevFree(k, g) <=> IsPrevFree(h, g)
  /\ IsMmapped(k, g) <=> IsMmapped(h, g)
  /\ GetPrevSize(k, g) = GetPrevSize(h, g)

LEMMA SetSizeIs ==
  ASSUME NEW h \in HeapType, NEW g \in Mem, NEW n \in Int
  PROVE  /\ Writes(h, SetSize(h, g, n), {g}) /\ SameTags(h, SetSize(h, g, n), g)
         /\ GetSize(SetSize(h, g, n), g) = n
<1>1. SetSize(h, g, n) = Put(h, g, <<h.mem[g][1], n>>)
  <2>1. h.mem \in [Mem -> Int \X Int]
    BY DEF HeapType
  <2> QED BY <2>1 DEF SetSize, Put
<1>2. <<h.mem[g][1], n>> \in Int \X Int
  BY HeapWords
<1>3. SetSize(h, g, n).mem[g] = <<h.mem[g][1], n>> /\ Writes(h, SetSize(h, g, n), {g})
  BY <1>1, <1>2, PutIs
<1>4. SetSize(h, g, n).mem[g][1] = h.mem[g][1] /\ SetSize(h, g, n).mem[g][2] = n
  BY <1>3
<1> QED BY <1>3, <1>4 DEF SameTags, IsPrevFree, IsMmapped, GetPrevSize, GetSize

(* Writing the first word of a header as a whole. *)
SetTags(h, g, f, m, n) == [h EXCEPT !.mem[g][1] = Pack(f, m, n)]

TagsSet(h, k, g, f, m, n) ==
  /\ Writes(h, k, {g}) /\ GetSize(k, g) = GetSize(h, g)
  /\ IsPrevFree(k, g) <=> f
  /\ IsMmapped(k, g) <=> m
  /\ GetPrevSize(k, g) = n

LEMMA SetTagsIs ==
  ASSUME NEW h \in HeapType, NEW g \in Mem, NEW f \in BOOLEAN, NEW m \in BOOLEAN, NEW n \in Int
  PROVE  TagsSet(h, SetTags(h, g, f, m, n), g, f, m, n)
<1> DEFINE w == Pack(f, m, n)
           v == <<w, h.mem[g][2]>>
           k == SetTags(h, g, f, m, n)
<1>1. w \in Int /\ (w % 2 = 1 <=> f) /\ ((w \div 2) % 2 = 1 <=> m) /\ w \div 4 = n
  BY PackFacts
<1>2. k = Put(h, g, v)
  <2>1. h.mem \in [Mem -> Int \X Int]
    BY DEF HeapType
  <2> QED BY <2>1 DEF Put, SetTags
<1> HIDE DEF w, k
<1>3. v \in Int \X Int
  BY <1>1, HeapWords
<1>4. k.mem[g] = v /\ Writes(h, k, {g})
  <2> HIDE DEF v
  <2> QED BY <1>2, <1>3, PutIs
<1>5. k.mem[g][1] = w /\ k.mem[g][2] = h.mem[g][2]
  BY <1>4
<1>6. /\ Writes(h, k, {g}) /\ GetSize(k, g) = GetSize(h, g)
      /\ IsPrevFree(k, g) <=> f
      /\ IsMmapped(k, g) <=> m
      /\ GetPrevSize(k, g) = n
  BY <1>1, <1>4, <1>5 DEF IsPrevFree, IsMmapped, GetPrevSize, GetSize
<1> QED BY <1>6 DEF k, TagsSet

LEMMA TagTypes ==
  ASSUME NEW h \in HeapType, NEW g \in Mem
  PROVE  IsPrevFree(h, g) \in BOOLEAN /\ IsMmapped(h, g) \in BOOLEAN /\ GetPrevSize(h, g) \in Int
BY HeapWords DEF IsPrevFree, IsMmapped, GetPrevSize

LEMMA SetPrevFreeIs ==
  ASSUME NEW h \in HeapType, NEW g \in Mem, NEW b \in BOOLEAN
  PROVE  /\ Writes(h, SetPrevFree(h, g, b), {g}) /\ GetSize(SetPrevFree(h, g, b), g) = GetSize(h, g)
         /\ IsPrevFree(SetPrevFree(h, g, b), g) <=> b
         /\ IsMmapped(SetPrevFree(h, g, b), g) <=> IsMmapped(h, g)
         /\ GetPrevSize(SetPrevFree(h, g, b), g) = GetPrevSize(h, g)
<1> DEFINE m == IsMmapped(h, g)
           n == GetPrevSize(h, g)
<1>1. m \in BOOLEAN /\ n \in Int
  BY TagTypes
<1>2. SetPrevFree(h, g, b) = SetTags(h, g, b, m, n)
  BY DEF SetPrevFree, SetTags
<1> HIDE DEF m, n
<1>3. TagsSet(h, SetTags(h, g, b, m, n), g, b, m, n)
  BY <1>1, SetTagsIs, Zenon
<1> QED BY <1>2, <1>3, Zenon DEF m, n, TagsSet

LEMMA SetPrevSizeIs ==
  ASSUME NEW h \in HeapType, NEW g \in Mem, NEW n \in Int
  PROVE  /\ Writes(h, SetPrevSize(h, g, n), {g}) /\ GetSize(SetPrevSize(h, g, n), g) = GetSize(h, g)
         /\ IsPrevFree(SetPrevSize(h, g, n), g) <=> IsPrevFree(h, g)
         /\ IsMmapped(SetPrevSize(h, g, n), g) <=> IsMmapped(h, g)
         /\ GetPrevSize(SetPrevSize(h, g, n), g) = n
<1> DEFINE f == IsPrevFree(h, g)
           m == IsMmapped(h, g)
<1>1. f \in BOOLEAN /\ m \in BOOLEAN
  BY TagTypes
<1>2. SetPrevSize(h, g, n) = SetTags(h, g, f, m, n)
  BY DEF SetPrevSize, SetTags
<1> HIDE DEF f, m
<1>3. TagsSet(h, SetTags(h, g, f, m, n), g, f, m, n)
  BY <1>1, SetTagsIs, Zenon
<1> QED BY <1>2, <1>3, Zenon DEF f, m, TagsSet

(* Writes one after the other. *)
LEMMA WritesBoth ==
  ASSUME NEW h, NEW k, NEW l, NEW A, NEW C, Writes(h, k, A), Writes(k, l, C)
  PROVE  Writes(h, l, A \union C)
BY DEF Writes, SameZone

(* A granule's tags and size are its two words. *)
LEMMA SameGranule ==
  ASSUME NEW h, NEW k, NEW g, k.mem[g] = h.mem[g]
  PROVE  SameTags(h, k, g) /\ GetSize(k, g) = GetSize(h, g)
BY DEF SameTags, IsPrevFree, IsMmapped, GetPrevSize, GetSize

-----------------------------------------------------------------------------
(* The layout.                                                             *)

LEMMA LayoutTypes ==
  ASSUME NEW S, NEW O, NEW X, Layout(S, O, X), NEW o \in S \union O \union X
  PROVE  /\ o = <<o[1], o[2]>> /\ o[1] \in Granule /\ o[2] \in Granule
         /\ o[1] \in Int /\ o[2] \in Int /\ o[1] < o[2]
         /\ Size(o) \in Int
BY DEF Layout, Granule, Size

(* An object lies in a run, or apart from it. *)
LEMMA InOrApart ==
  ASSUME NEW S, NEW O, NEW X, Layout(S, O, X), NEW o \in O, NEW t \in S
  PROVE  \/ t[1] <= o[1] /\ o[2] <= t[2]
         \/ o[2] + 1 < t[1] - 1
         \/ t[2] + 1 < o[1] - 1
<1>1. PICK s \in S : s[1] <= o[1] /\ o[2] <= s[2]
  BY DEF Layout, Adjoin
<1>2. s = t \/ s[2] + 1 < t[1] - 1 \/ t[2] + 1 < s[1] - 1
  BY DEF Layout
<1>3. /\ o[1] \in Int /\ o[2] \in Int /\ s[1] \in Int /\ s[2] \in Int
      /\ t[1] \in Int /\ t[2] \in Int
  BY LayoutTypes
<1> QED BY <1>1, <1>2, <1>3

(* No object is mapped. *)
LEMMA NotMapped ==
  ASSUME NEW S, NEW O, NEW X, Layout(S, O, X), NEW o \in O, NEW x \in X
  PROVE  o[2] + 1 < x[1] \/ x[2] < o[1] - 1
<1>1. PICK s \in S : s[1] <= o[1] /\ o[2] <= s[2]
  BY DEF Layout, Adjoin
<1>2. s[2] + 1 < x[1] \/ x[2] < s[1] - 1
  BY DEF Layout
<1>3. /\ o[1] \in Int /\ o[2] \in Int /\ s[1] \in Int /\ s[2] \in Int
      /\ x[1] \in Int /\ x[2] \in Int
  BY LayoutTypes
<1> QED BY <1>1, <1>2, <1>3

(* Granules that hold tags: a header, or the granule before a run or       *)
(* behind its last header.                                                 *)
IsTag(S, O, X, a) ==
  \/ \E o \in O : a = o[1] \/ a = o[2]
  \/ \E s \in S : a \in {s[1] - 1, s[1], s[2], s[2] + 1}
  \/ \E x \in X : a = x[1]

LEMMA TagsAreGranules ==
  ASSUME NEW S, NEW O, NEW X, Layout(S, O, X), NEW a, IsTag(S, O, X, a)
  PROVE  a \in Granule /\ a \in Mem
<1>1. ASSUME NEW s \in S PROVE {s[1] - 1, s[1], s[2], s[2] + 1} \subseteq Granule
  <2>1. s[1] \in Granule /\ s[2] \in Granule /\ 3 <= s[1] /\ s[2] < MemTop
    BY DEF Layout
  <2> QED BY <2>1, LeaAssumption DEF Granule
<1> QED BY <1>1, LayoutTypes DEF IsTag, Mem

(* Between the headers there are no tags. *)
LEMMA BodyHasNoTag ==
  ASSUME NEW S, NEW O, NEW X, Layout(S, O, X), NEW u \in O \union X, NEW a \in Body(u)
  PROVE  ~IsTag(S, O, X, a) /\ a \in Granule /\ a \in Mem
<1>1. /\ u[1] \in Int /\ u[2] \in Int /\ a \in Int /\ u[1] < a /\ a < u[2]
      /\ u[1] \in Granule /\ u[2] \in Granule
  BY LayoutTypes DEF Body
<1>2. a \in Granule /\ a \in Mem
  <2>1. a \in Granule
    BY <1>1, LeaAssumption DEF Granule
  <2> QED BY <2>1 DEF Mem
<1>3. ASSUME NEW o \in O PROVE a # o[1] /\ a # o[2]
  <2>1. o[1] \in Int /\ o[2] \in Int /\ o[1] < o[2]
    BY LayoutTypes
  <2>2. CASE u \in O
    <3>1. u = o \/ u[2] <= o[1] \/ o[2] <= u[1]
      BY <2>2 DEF Layout
    <3> QED BY <1>1, <2>1, <3>1
  <2>3. CASE u \in X
    BY <1>1, <2>1, <2>3, NotMapped
  <2> QED BY <2>2, <2>3
<1>4. ASSUME NEW s \in S PROVE a \notin {s[1] - 1, s[1], s[2], s[2] + 1}
  <2>1. s[1] \in Int /\ s[2] \in Int /\ s[1] < s[2]
    BY LayoutTypes
  <2>2. CASE u \in O
    BY <1>1, <2>1, <2>2, InOrApart
  <2>3. CASE u \in X
    <3>1. s[2] + 1 < u[1] \/ u[2] < s[1] - 1
      BY <2>3 DEF Layout
    <3> QED BY <1>1, <2>1, <3>1
  <2> QED BY <2>2, <2>3
<1>5. ASSUME NEW x \in X PROVE a # x[1]
  <2>1. x[1] \in Int /\ x[2] \in Int /\ x[1] < x[2]
    BY LayoutTypes
  <2>2. CASE u \in O
    BY <1>1, <2>1, <2>2, NotMapped
  <2>3. CASE u \in X
    <3>1. u = x \/ u[2] < x[1] \/ x[2] < u[1]
      BY <2>3 DEF Layout
    <3> QED BY <1>1, <2>1, <3>1
  <2> QED BY <2>2, <2>3
<1> QED BY <1>2, <1>3, <1>4, <1>5 DEF IsTag

(* What lies behind the headers of two objects is apart. *)
LEMMA BodiesApart ==
  ASSUME NEW S, NEW O, NEW X, Layout(S, O, X), NEW u \in O \union X, NEW v \in O \union X, u # v
  PROVE  u[1] # v[1] /\ \A a \in Body(u) : a \notin Body(v)
<1>1. /\ u[1] \in Int /\ u[2] \in Int /\ u[1] < u[2] /\ v[1] \in Int /\ v[2] \in Int /\ v[1] < v[2]
  BY LayoutTypes
<1>2. CASE u \in O /\ v \in O
  BY <1>1, <1>2 DEF Layout, Body
<1>3. CASE u \in X /\ v \in X
  BY <1>1, <1>3 DEF Layout, Body
<1>4. CASE u \in O /\ v \in X
  <2>1. u[2] + 1 < v[1] \/ v[2] < u[1] - 1
    BY <1>4, NotMapped
  <2> QED BY <1>1, <2>1 DEF Body
<1>5. CASE u \in X /\ v \in O
  <2>1. v[2] + 1 < u[1] \/ u[2] < v[1] - 1
    BY <1>5, NotMapped
  <2> QED BY <1>1, <2>1 DEF Body
<1> QED BY <1>2, <1>3, <1>4, <1>5

(* An object has room for an entry of a list. *)
LEMMA EntryInBody ==
  ASSUME NEW S, NEW O, NEW X, Layout(S, O, X), NEW o \in O \union X
  PROVE  o[1] + 1 \in Body(o) /\ o[1] + 1 \in Granule /\ o[1] + 1 \in Mem /\ Size(o) \in Nat \ {0}
<1>1. o[1] \in Int /\ o[2] \in Int /\ o[1] \in Granule /\ o[2] \in Granule
  BY LayoutTypes
<1>2. o[1] + 2 <= o[2]
  BY DEF Layout
<1>3. o[1] + 1 \in Body(o) /\ Size(o) \in Nat \ {0}
  BY <1>1, <1>2 DEF Body, Size
<1>4. o[1] + 1 \in Granule
  BY <1>1, <1>2, LeaAssumption DEF Granule
<1> QED BY <1>3, <1>4 DEF Mem

LEMMA HeadsAreNoGranules ==
  ASSUME NEW c \in Bins
  PROVE  /\ Head(c) \in Heads /\ Head(c) \in Mem /\ Head(c) \in Int /\ Head(c) \notin Granule
         /\ Head(c) < 0 /\ \A d \in Bins : Head(d) = Head(c) => d = c
<1>1. Bins = 0 .. NumBins - 1 /\ NumBins \in Nat /\ MemTop \in Nat
  BY LeaAssumption
<1>2. ASSUME NEW d \in Bins PROVE d \in Int /\ d >= 0 /\ Head(d) = -(d + 1) /\ Head(d) \in Heads
  BY <1>1 DEF Head, Heads
<1>3. Head(c) \in Int /\ Head(c) < 0 /\ \A d \in Bins : Head(d) = Head(c) => d = c
  BY <1>2
<1>4. Head(c) \notin Granule
  BY <1>1, <1>3 DEF Granule
<1> QED BY <1>2, <1>3, <1>4 DEF Mem

-----------------------------------------------------------------------------
(* What a write changes nothing of.                                        *)

AllTags(h, S, O, M, X) == Tags(h, O, M) /\ RunTags(h, S) /\ MappedTags(h, X)

LEMMA TagsFrame ==
  ASSUME NEW h, NEW k, NEW S, NEW O, NEW M, NEW X, AllTags(h, S, O, M, X),
         \A a : IsTag(S, O, X, a) => k.mem[a] = h.mem[a]
  PROVE  AllTags(k, S, O, M, X)
<1>1. ASSUME NEW o \in O PROVE k.mem[o[1]] = h.mem[o[1]] /\ k.mem[o[2]] = h.mem[o[2]]
  BY DEF IsTag
<1>2. ASSUME NEW s \in S
      PROVE  /\ k.mem[s[1] - 1] = h.mem[s[1] - 1] /\ k.mem[s[1]] = h.mem[s[1]]
             /\ k.mem[s[2]] = h.mem[s[2]] /\ k.mem[s[2] + 1] = h.mem[s[2] + 1]
  BY DEF IsTag
<1>3. ASSUME NEW x \in X PROVE k.mem[x[1]] = h.mem[x[1]]
  BY DEF IsTag
<1>4. Tags(k, O, M)
  BY <1>1 DEF AllTags, Tags, GetSize, IsMmapped, GetPrevSize, IsPrevFree
<1>5. RunTags(k, S)
  BY <1>2 DEF AllTags, RunTags, GetSize, GetPrevSize, IsPrevFree
<1>6. MappedTags(k, X)
  BY <1>3 DEF AllTags, MappedTags, GetSize, IsMmapped
<1> QED BY <1>4, <1>5, <1>6 DEF AllTags

(* Maps and the zone do not depend on memory. *)
LEMMA ZoneFrame ==
  ASSUME NEW h, NEW k, NEW S, NEW X, SameZone(h, k), MapsInv(h, S, X), SlopInv(h, S), ArenaInv(h, S)
  PROVE  MapsInv(k, S, X) /\ SlopInv(k, S) /\ ArenaInv(k, S)
<1>1. \A i, e : InMap(k, i, e) <=> InMap(h, i, e)
  BY DEF SameZone, InMap
<1>2. MapsInv(k, S, X)
  BY <1>1 DEF MapsInv, SameZone
<1>3. SlopInv(k, S)
  BY <1>1 DEF SlopInv, SameZone
<1>4. ArenaInv(k, S)
  BY <1>1 DEF ArenaInv, SameZone
<1> QED BY <1>2, <1>3, <1>4

(* A ring is its links. *)
LEMMA RingSame ==
  ASSUME NEW mem, NEW new, NEW E, NEW hd, IsRing(mem, E, hd),
         \A e \in E \union {hd} : new[e] = mem[e]
  PROVE  IsRing(new, E, hd)
BY DEF IsRing

LEMMA RingsFrame ==
  ASSUME NEW h, NEW k, NEW B, Rings(h, B),
         \A o \in B : k.mem[o[1] + 1] = h.mem[o[1] + 1],
         \A c \in Bins : k.mem[Head(c)] = h.mem[Head(c)]
  PROVE  Rings(k, B)
<1> SUFFICES ASSUME NEW c \in Bins PROVE IsRing(k.mem, Entries(B, c), Head(c))
  BY DEF Rings
<1>1. IsRing(h.mem, Entries(B, c), Head(c))
  BY DEF Rings
<1>2. \A e \in Entries(B, c) \union {Head(c)} : k.mem[e] = h.mem[e]
  BY DEF Entries
<1> QED BY <1>1, <1>2, RingSame

LEMMA BitsFrame ==
  ASSUME NEW h, NEW k, NEW B, BitsInv(h, B), k.binmap = h.binmap
  PROVE  BitsInv(k, B)
BY DEF BitsInv

(* The granules of the objects in U hold what they held. *)
Keeps(h, k, U) == \A u \in U : \A a \in Body(u) : k.mem[a] = h.mem[a]

(* Tags can be written without touching what lies between. *)
AreTags(S, O, X, A) == \A a \in A : IsTag(S, O, X, a)

KeepsEntries(h, k, B) ==
  /\ \A o \in B : k.mem[o[1] + 1] = h.mem[o[1] + 1]
  /\ \A c \in Bins : k.mem[Head(c)] = h.mem[Head(c)]

LEMMA TagWritesKeep ==
  ASSUME NEW S, NEW O, NEW X, Layout(S, O, X), NEW h, NEW k, NEW A, Writes(h, k, A), AreTags(S, O, X, A)
  PROVE  Keeps(h, k, O \union X) /\ KeepsEntries(h, k, O)
<1>1. ASSUME NEW u \in O \union X, NEW a \in Body(u) PROVE k.mem[a] = h.mem[a]
  <2>1. ~IsTag(S, O, X, a) /\ a \in Mem
    BY BodyHasNoTag
  <2>2. a \notin A
    BY <2>1 DEF AreTags
  <2> QED BY <2>1, <2>2 DEF Writes
<1>2. ASSUME NEW c \in Bins PROVE k.mem[Head(c)] = h.mem[Head(c)]
  <2>1. Head(c) \in Mem /\ Head(c) \notin Granule
    BY HeadsAreNoGranules
  <2>2. Head(c) \notin A
    BY <2>1, TagsAreGranules DEF AreTags
  <2> QED BY <2>1, <2>2 DEF Writes
<1>3. ASSUME NEW o \in O PROVE k.mem[o[1] + 1] = h.mem[o[1] + 1]
  BY <1>1, EntryInBody
<1> QED BY <1>1, <1>2, <1>3 DEF Keeps, KeepsEntries

(* Where an object's headers are, and where they are not. *)
LEMMA HeadersApart ==
  ASSUME NEW S, NEW O, NEW X, Layout(S, O, X), NEW o \in O
  PROVE  /\ \A p \in O : p[1] = o[1] \/ p[2] = o[2] => p = o
         /\ \A s \in S : /\ o[1] \notin {s[1] - 1, s[2], s[2] + 1}
                         /\ o[2] \notin {s[1] - 1, s[1], s[2] + 1}
         /\ \A x \in X : o[1] # x[1] /\ o[2] # x[1]
<1>1. o[1] \in Int /\ o[2] \in Int /\ o[1] < o[2]
  BY LayoutTypes
<1>2. ASSUME NEW p \in O, p[1] = o[1] \/ p[2] = o[2] PROVE p = o
  <2>1. p[1] \in Int /\ p[2] \in Int /\ p[1] < p[2]
    BY LayoutTypes
  <2>2. p = o \/ p[2] <= o[1] \/ o[2] <= p[1]
    BY DEF Layout
  <2> QED BY <1>1, <1>2, <2>1, <2>2
<1>3. ASSUME NEW s \in S
      PROVE  /\ o[1] \notin {s[1] - 1, s[2], s[2] + 1}
             /\ o[2] \notin {s[1] - 1, s[1], s[2] + 1}
  <2>1. s[1] \in Int /\ s[2] \in Int /\ s[1] < s[2]
    BY LayoutTypes
  <2> QED BY <1>1, <2>1, InOrApart
<1>4. ASSUME NEW x \in X PROVE o[1] # x[1] /\ o[2] # x[1]
  <2>1. x[1] \in Int /\ x[2] \in Int /\ x[1] < x[2]
    BY LayoutTypes
  <2> QED BY <1>1, <2>1, NotMapped
<1> QED BY <1>2, <1>3, <1>4

LEMMA GoodTags ==
  ASSUME NEW h, NEW S, NEW O, NEW B, NEW M, NEW X, Good(h, S, O, B, M, X)
  PROVE  Layout(S, O, X) /\ AllTags(h, S, O, M, X) /\ h \in HeapType /\ B \subseteq O /\ M \subseteq O
BY DEF Good, AllTags

LEMMA NextHeaderIs ==
  ASSUME NEW h, NEW S, NEW O, NEW B, NEW M, NEW X, Good(h, S, O, B, M, X), NEW o \in O
  PROVE  GetSize(h, o[1]) = Size(o) /\ NextHeader(h, o[1]) = o[2] /\ GetHeader(o[1] + 1) = o[1]
<1>1. GetSize(h, o[1]) = Size(o)
  BY DEF Good, Tags
<1>2. o[1] \in Int /\ o[2] \in Int
  BY GoodTags, LayoutTypes
<1> QED BY <1>1, <1>2 DEF NextHeader, Size, GetHeader

(* A step that writes tags only and leaves those of objects P, of which N  *)
(* are marked, is good if they are laid out.                               *)
LEMMA TagStep ==
  ASSUME NEW h, NEW k, NEW S, NEW O, NEW B, NEW M, NEW X, Good(h, S, O, B, M, X),
         NEW Q, Layout(S, Q, X), B \subseteq Q,
         NEW A, Writes(h, k, A), AreTags(S, Q, X, A),
         NEW P, NEW N, Layout(S, P, X), B \subseteq P, N \subseteq P, AllTags(k, S, P, N, X)
  PROVE  Good(k, S, P, B, N, X) /\ Keeps(h, k, Q \union X)
<1>1. Keeps(h, k, Q \union X) /\ KeepsEntries(h, k, Q)
  BY TagWritesKeep
<1>2. Rings(k, B)
  <2>1. Rings(h, B)
    BY DEF Good
  <2> QED BY <1>1, <2>1, RingsFrame DEF KeepsEntries
<1>3. k \in HeapType /\ SameZone(h, k) /\ k.binmap = h.binmap
  BY DEF Writes
<1>4. MapsInv(k, S, X) /\ SlopInv(k, S) /\ ArenaInv(k, S)
  <2>1. MapsInv(h, S, X) /\ SlopInv(h, S) /\ ArenaInv(h, S)
    BY DEF Good
  <2> QED BY <1>3, <2>1, ZoneFrame
<1>5. BitsInv(k, B)
  <2>1. BitsInv(h, B)
    BY DEF Good
  <2> QED BY <1>3, <2>1, BitsFrame
<1> QED BY <1>1, <1>2, <1>3, <1>4, <1>5 DEF Good, AllTags

(* Marking an object as free or in use. *)
Remarked(h, k, O, M, N, o) ==
  /\ N \subseteq O /\ \A p \in O : p # o => (p \in N <=> p \in M)
  /\ \/ o \in N /\ k = SetPrevFree(h, o[2], TRUE)
     \/ o \notin N /\ k = SetPrevFree(h, o[2], FALSE)

LEMMA MarkGood ==
  ASSUME NEW h, NEW S, NEW O, NEW B, NEW M, NEW X, Good(h, S, O, B, M, X), NEW o \in O,
         NEW N, NEW k, Remarked(h, k, O, M, N, o)
  PROVE  Good(k, S, O, B, N, X) /\ Keeps(h, k, O \union X) /\ Writes(h, k, {o[2]})
<1>0. N \subseteq O /\ \A p \in O : p # o => (p \in N <=> p \in M)
  BY DEF Remarked
<1>1. Layout(S, O, X) /\ AllTags(h, S, O, M, X) /\ h \in HeapType /\ B \subseteq O /\ M \subseteq O
  BY GoodTags
<1>2. IsTag(S, O, X, o[2]) /\ o[2] \in Mem
  BY <1>1, TagsAreGranules DEF IsTag
<1>3. /\ Writes(h, k, {o[2]}) /\ GetSize(k, o[2]) = GetSize(h, o[2])
      /\ IsPrevFree(k, o[2]) <=> o \in N
      /\ IsMmapped(k, o[2]) <=> IsMmapped(h, o[2])
      /\ GetPrevSize(k, o[2]) = GetPrevSize(h, o[2])
  <2>1. CASE o \in N /\ k = SetPrevFree(h, o[2], TRUE)
    <3>1. ASSUME NEW l, l = SetPrevFree(h, o[2], TRUE)
          PROVE  /\ Writes(h, l, {o[2]}) /\ GetSize(l, o[2]) = GetSize(h, o[2])
                 /\ IsPrevFree(l, o[2])
                 /\ IsMmapped(l, o[2]) <=> IsMmapped(h, o[2])
                 /\ GetPrevSize(l, o[2]) = GetPrevSize(h, o[2])
      BY <1>1, <1>2, <3>1, SetPrevFreeIs
    <3> QED BY <2>1, <3>1
  <2>2. CASE o \notin N /\ k = SetPrevFree(h, o[2], FALSE)
    <3>1. ASSUME NEW l, l = SetPrevFree(h, o[2], FALSE)
          PROVE  /\ Writes(h, l, {o[2]}) /\ GetSize(l, o[2]) = GetSize(h, o[2])
                 /\ ~IsPrevFree(l, o[2])
                 /\ IsMmapped(l, o[2]) <=> IsMmapped(h, o[2])
                 /\ GetPrevSize(l, o[2]) = GetPrevSize(h, o[2])
      BY <1>1, <1>2, <3>1, SetPrevFreeIs
    <3> QED BY <2>2, <3>1
  <2> QED BY <2>1, <2>2 DEF Remarked
<1>4. ASSUME NEW a, IsTag(S, O, X, a)
      PROVE  /\ GetSize(k, a) = GetSize(h, a) /\ GetPrevSize(k, a) = GetPrevSize(h, a)
             /\ IsMmapped(k, a) <=> IsMmapped(h, a)
             /\ a # o[2] => (IsPrevFree(k, a) <=> IsPrevFree(h, a))
  <2>1. a \in Mem
    BY <1>1, <1>4, TagsAreGranules
  <2>2. CASE a = o[2]
    BY <1>3, <2>2
  <2>3. CASE a # o[2]
    <3>1. k.mem[a] = h.mem[a]
      BY <1>3, <2>1, <2>3 DEF Writes
    <3> QED BY <3>1, SameGranule DEF SameTags
  <2> QED BY <2>2, <2>3
<1>5. Tags(k, O, N)
  <2>1. ASSUME NEW p \in O
        PROVE  /\ GetSize(k, p[1]) = Size(p) /\ ~IsMmapped(k, p[1])
               /\ GetPrevSize(k, p[2]) = Size(p)
    <3>1. IsTag(S, O, X, p[1]) /\ IsTag(S, O, X, p[2])
      BY DEF IsTag
    <3>2. GetSize(h, p[1]) = Size(p) /\ ~IsMmapped(h, p[1]) /\ GetPrevSize(h, p[2]) = Size(p)
      BY <1>1 DEF AllTags, Tags
    <3> QED BY <1>4, <3>1, <3>2
  <2>2. ASSUME NEW p \in O PROVE IsPrevFree(k, p[2]) <=> p \in N
    <3>1. CASE p = o
      BY <1>3, <1>0, <3>1
    <3>2. CASE p # o
      <4>1. p[2] # o[2]
        BY <1>1, <3>2, HeadersApart
      <4>2. IsTag(S, O, X, p[2])
        BY DEF IsTag
      <4>3. IsPrevFree(h, p[2]) <=> p \in M
        BY <1>1 DEF AllTags, Tags
      <4> QED BY <1>4, <1>0, <3>2, <4>1, <4>2, <4>3
    <3> QED BY <3>1, <3>2
  <2> QED BY <2>1, <2>2 DEF Tags
<1>6. RunTags(k, S)
  <2> SUFFICES ASSUME NEW s \in S
               PROVE  /\ GetSize(k, s[1] - 1) # 0
                      /\ GetPrevSize(k, s[1]) = 0 /\ ~IsPrevFree(k, s[1])
                      /\ GetSize(k, s[2]) = 0 /\ ~IsPrevFree(k, s[2] + 1)
    BY DEF RunTags
  <2>1. /\ IsTag(S, O, X, s[1] - 1) /\ IsTag(S, O, X, s[1])
        /\ IsTag(S, O, X, s[2]) /\ IsTag(S, O, X, s[2] + 1)
    BY DEF IsTag
  <2>2. o[2] # s[1] /\ o[2] # s[2] + 1
    BY <1>1, HeadersApart
  <2>3. /\ GetSize(h, s[1] - 1) # 0
        /\ GetPrevSize(h, s[1]) = 0 /\ ~IsPrevFree(h, s[1])
        /\ GetSize(h, s[2]) = 0 /\ ~IsPrevFree(h, s[2] + 1)
    BY <1>1 DEF AllTags, RunTags
  <2> QED BY <1>4, <2>1, <2>2, <2>3
<1>7. MappedTags(k, X)
  <2>1. \A x \in X : IsTag(S, O, X, x[1])
    BY DEF IsTag
  <2> QED BY <1>1, <1>4, <2>1 DEF AllTags, MappedTags
<1>8. AllTags(k, S, O, N, X)
  BY <1>5, <1>6, <1>7 DEF AllTags
<1>9. Good(k, S, O, B, N, X) /\ Keeps(h, k, O \union X)
  <2>1. AreTags(S, O, X, {o[2]})
    BY <1>2 DEF AreTags
  <2> QED BY <1>1, <1>3, <1>8, <1>0, <2>1, TagStep
<1> QED BY <1>3, <1>9

-----------------------------------------------------------------------------
(* Merging two neighbours.                                                 *)

Whole(o, q) == <<o[1], q[2]>>
Joined(O, o, q) == (O \ {o, q}) \union {Whole(o, q)}

LEMMA WholeFacts ==
  ASSUME NEW S, NEW O, NEW X, Layout(S, O, X), NEW o \in O, NEW q \in O, o[2] = q[1]
  PROVE  /\ Whole(o, q) \in Granule \X Granule /\ Whole(o, q)[1] = o[1] /\ Whole(o, q)[2] = q[2]
         /\ o[1] \in Int /\ o[2] \in Int /\ q[2] \in Int
         /\ o[1] + 2 <= o[2] /\ q[1] + 2 <= q[2] /\ o # q
         /\ \E s \in S : s[1] <= o[1] /\ q[2] <= s[2]
<1>1. /\ o[1] \in Granule /\ q[2] \in Granule
      /\ o[1] \in Int /\ o[2] \in Int /\ q[2] \in Int /\ q[1] \in Int
  BY LayoutTypes
<1>2. o[1] + 2 <= o[2] /\ q[1] + 2 <= q[2]
  BY DEF Layout
<1>3. PICK s \in S : s[1] <= o[1] /\ o[2] <= s[2]
  BY DEF Layout, Adjoin
<1>4. s[1] \in Int /\ s[2] \in Int
  BY LayoutTypes
<1>5. q[2] <= s[2]
  BY <1>1, <1>2, <1>3, <1>4, InOrApart
<1> QED BY <1>1, <1>2, <1>3, <1>5 DEF Whole

LEMMA JoinedLayout ==
  ASSUME NEW S, NEW O, NEW X, Layout(S, O, X), NEW o \in O, NEW q \in O, o[2] = q[1]
  PROVE  Layout(S, Joined(O, o, q), X)
<1> DEFINE w == Whole(o, q)
           P == Joined(O, o, q)
<1>1. /\ w \in Granule \X Granule /\ w[1] = o[1] /\ w[2] = q[2]
      /\ o[1] \in Int /\ o[2] \in Int /\ q[2] \in Int
      /\ o[1] + 2 <= o[2] /\ q[1] + 2 <= q[2] /\ o # q
      /\ \E s \in S : s[1] <= o[1] /\ q[2] <= s[2]
  BY WholeFacts
<1>2. w \in P /\ \A p \in P : p = w \/ (p \in O /\ p # o /\ p # q)
  BY DEF Joined
<1>3. \A p \in O : p # o /\ p # q => p \in P
  BY DEF Joined
<1> HIDE DEF w, P
<1>4. \A p \in O : p[1] \in Int /\ p[2] \in Int /\ p[1] + 2 <= p[2]
  <2>1. \A p \in O : p[1] \in Int /\ p[2] \in Int
    BY LayoutTypes
  <2> QED BY <2>1 DEF Layout
<1>5. \A p, r \in O : p # r => p[2] <= r[1] \/ r[2] <= p[1]
  BY DEF Layout
<1>6. ASSUME NEW p \in O, p # o, p # q PROVE p[2] <= w[1] \/ w[2] <= p[1]
  BY <1>1, <1>4, <1>5, <1>6
<1>7. P \subseteq Granule \X Granule
  BY <1>1, <1>2 DEF Layout
<1>8. \A p \in P : p[1] + 2 <= p[2]
  BY <1>1, <1>2, <1>4
<1>9. \A p, r \in P : p # r => p[2] <= r[1] \/ r[2] <= p[1]
  BY <1>2, <1>5, <1>6
<1>10. ASSUME NEW p \in P PROVE \E s \in S : s[1] <= p[1] /\ p[2] <= s[2]
  BY <1>1, <1>2 DEF Layout, Adjoin
<1>11. ASSUME NEW p \in P PROVE (\E s \in S : p[1] = s[1]) \/ \E r \in P : r[2] = p[1]
  <2>1. PICK z \in O : z[1] = p[1] /\ (z = p \/ z = o)
    BY <1>1, <1>2
  <2>2. CASE \E s \in S : z[1] = s[1]
    BY <2>1, <2>2
  <2>3. CASE \E r \in O : r[2] = z[1]
    <3>1. PICK r \in O : r[2] = z[1]
      BY <2>3
    <3>2. CASE r = q
      <4>1. w[2] = p[1]
        BY <1>1, <2>1, <3>1, <3>2
      <4> QED BY <1>2, <4>1
    <3>3. r # o
      <4>1. \A y \in O : y[1] = q[1] => y = q
        BY HeadersApart
      <4> QED BY <1>1, <1>2, <1>4, <2>1, <3>1, <4>1
    <3> QED BY <1>3, <2>1, <3>1, <3>2, <3>3
  <2> QED BY <2>2, <2>3 DEF Layout, Adjoin
<1>12. ASSUME NEW p \in P PROVE (\E s \in S : p[2] = s[2]) \/ \E r \in P : r[1] = p[2]
  <2>1. PICK z \in O : z[2] = p[2] /\ (z = p \/ z = q)
    BY <1>1, <1>2
  <2>2. CASE \E s \in S : z[2] = s[2]
    BY <2>1, <2>2
  <2>3. CASE \E r \in O : r[1] = z[2]
    <3>1. PICK r \in O : r[1] = z[2]
      BY <2>3
    <3>2. CASE r = o
      <4>1. w[1] = p[2]
        BY <1>1, <2>1, <3>1, <3>2
      <4> QED BY <1>2, <4>1
    <3>3. r # q
      <4>1. \A y \in O : y[2] = o[2] => y = o
        BY HeadersApart
      <4> QED BY <1>1, <1>2, <1>4, <2>1, <3>1, <4>1
    <3> QED BY <1>3, <2>1, <3>1, <3>2, <3>3
  <2> QED BY <2>2, <2>3 DEF Layout, Adjoin
<1>13. ASSUME NEW s \in S PROVE (\E p \in P : p[1] = s[1]) /\ \E p \in P : p[2] = s[2]
  <2>1. PICK y \in O, z \in O : y[1] = s[1] /\ z[2] = s[2]
    BY DEF Layout, Adjoin
  <2>2. y # q
    <3>1. s[1] # o[2]
      BY HeadersApart
    <3> QED BY <2>1, <3>1
  <2>3. z # o
    <3>1. s[2] # q[1]
      BY HeadersApart
    <3> QED BY <2>1, <3>1
  <2> QED BY <1>1, <1>2, <1>3, <2>1, <2>2, <2>3
<1>14. Adjoin(S, P)
  BY <1>10, <1>11, <1>12, <1>13 DEF Adjoin
<1>15. Layout(S, P, X)
  BY <1>7, <1>8, <1>9, <1>14 DEF Layout
<1> QED BY <1>15 DEF P

(* What coalesce writes: the size of the first, and the size before the    *)
(* next one.                                                               *)
LEMMA CoalesceIs ==
  ASSUME NEW h, NEW S, NEW O, NEW B, NEW M, NEW X, Good(h, S, O, B, M, X),
         NEW o \in O, NEW q \in O, o[2] = q[1],
         NEW k, k = Coalesce(h, o[1] + 1, q[1] + 1)
  PROVE  /\ Writes(h, k, {o[1], q[2]})
         /\ GetSize(k, o[1]) = Size(Whole(o, q)) /\ SameTags(h, k, o[1])
         /\ GetSize(k, q[2]) = GetSize(h, q[2]) /\ GetPrevSize(k, q[2]) = Size(Whole(o, q))
         /\ IsPrevFree(k, q[2]) <=> IsPrevFree(h, q[2])
         /\ IsMmapped(k, q[2]) <=> IsMmapped(h, q[2])
<1> DEFINE n == Size(Whole(o, q))
           l == SetSize(h, o[1], n)
<1>1. Layout(S, O, X) /\ h \in HeapType
  BY GoodTags
<1>2. /\ Whole(o, q)[1] = o[1] /\ Whole(o, q)[2] = q[2] /\ o # q
      /\ o[1] \in Int /\ o[2] \in Int /\ q[2] \in Int /\ o[1] + 2 <= o[2] /\ q[1] + 2 <= q[2]
  BY <1>1, WholeFacts
<1>3. n = q[2] - o[1] - 1 /\ n \in Int
  BY <1>2 DEF Size
<1>4. o[1] \in Mem /\ q[2] \in Mem /\ o[1] # q[2]
  BY <1>1, <1>2, LayoutTypes DEF Mem
<1>5. GetSize(h, q[1]) = q[2] - q[1] - 1
  BY NextHeaderIs DEF Size
<1> HIDE DEF n
<1>6. Writes(h, l, {o[1]}) /\ SameTags(h, l, o[1]) /\ GetSize(l, o[1]) = n
  BY <1>1, <1>3, <1>4, SetSizeIs
<1>7. k = SetPrevSize(l, q[2], n)
  <2>1. (q[1] + 1) - (o[1] + 1) + GetSize(h, q[1]) = n
    BY <1>2, <1>3, <1>5
  <2>2. GetHeader(o[1] + 1) = o[1] /\ GetHeader(q[1] + 1) = q[1]
    BY <1>2 DEF GetHeader
  <2>3. NextHeader(l, o[1]) = q[2]
    <3> HIDE DEF l
    <3> QED BY <1>2, <1>3, <1>6 DEF NextHeader
  <2> QED BY <2>1, <2>2, <2>3 DEF Coalesce
<1> HIDE DEF l
<1>8. l \in HeapType
  BY <1>6 DEF Writes
<1>9. /\ Writes(l, k, {q[2]}) /\ GetSize(k, q[2]) = GetSize(l, q[2])
      /\ IsPrevFree(k, q[2]) <=> IsPrevFree(l, q[2])
      /\ IsMmapped(k, q[2]) <=> IsMmapped(l, q[2])
      /\ GetPrevSize(k, q[2]) = n
  BY <1>3, <1>4, <1>7, <1>8, SetPrevSizeIs
<1>10. l.mem[q[2]] = h.mem[q[2]] /\ k.mem[o[1]] = l.mem[o[1]]
  BY <1>4, <1>6, <1>9 DEF Writes
<1>11. SameTags(h, l, q[2]) /\ GetSize(l, q[2]) = GetSize(h, q[2])
       /\ SameTags(l, k, o[1]) /\ GetSize(k, o[1]) = GetSize(l, o[1])
  BY <1>10, SameGranule
<1>12. Writes(h, k, {o[1], q[2]})
  <2>1. {o[1]} \union {q[2]} = {o[1], q[2]}
    OBVIOUS
  <2>2. Writes(h, k, {o[1]} \union {q[2]})
    BY <1>6, <1>9, WritesBoth
  <2> QED BY <2>1, <2>2
<1>13. GetSize(k, o[1]) = n /\ SameTags(h, k, o[1])
  BY <1>6, <1>11 DEF SameTags
<1>14. /\ GetSize(k, q[2]) = GetSize(h, q[2]) /\ GetPrevSize(k, q[2]) = n
       /\ IsPrevFree(k, q[2]) <=> IsPrevFree(h, q[2])
       /\ IsMmapped(k, q[2]) <=> IsMmapped(h, q[2])
  BY <1>9, <1>11 DEF SameTags
<1> QED BY <1>12, <1>13, <1>14 DEF n

JoinedMarks(M, o, q) == (M \ {o, q}) \union (IF q \in M THEN {Whole(o, q)} ELSE {})

LEMMA JoinedTags ==
  ASSUME NEW h, NEW S, NEW O, NEW B, NEW M, NEW X, Good(h, S, O, B, M, X),
         NEW o \in O, NEW q \in O, o[2] = q[1],
         NEW k, k = Coalesce(h, o[1] + 1, q[1] + 1)
  PROVE  AllTags(k, S, Joined(O, o, q), JoinedMarks(M, o, q), X)
<1> DEFINE w == Whole(o, q)
           P == Joined(O, o, q)
           N == JoinedMarks(M, o, q)
<1>1. Layout(S, O, X) /\ h \in HeapType /\ M \subseteq O /\ AllTags(h, S, O, M, X)
  BY GoodTags
<1>2. /\ w[1] = o[1] /\ w[2] = q[2] /\ o # q
      /\ o[1] \in Int /\ o[2] \in Int /\ q[2] \in Int /\ o[1] + 2 <= o[2] /\ q[1] + 2 <= q[2]
  BY <1>1, WholeFacts
<1>3. /\ Writes(h, k, {o[1], q[2]})
      /\ GetSize(k, o[1]) = Size(w) /\ SameTags(h, k, o[1])
      /\ GetSize(k, q[2]) = GetSize(h, q[2]) /\ GetPrevSize(k, q[2]) = Size(w)
      /\ IsPrevFree(k, q[2]) <=> IsPrevFree(h, q[2])
      /\ IsMmapped(k, q[2]) <=> IsMmapped(h, q[2])
  BY CoalesceIs
<1>4. w \notin O
  <2>1. w \in O => w = o
    BY <1>1, <1>2, HeadersApart
  <2>2. w # o
    BY <1>2
  <2> QED BY <2>1, <2>2
<1>5. \A p \in P : p = w \/ (p \in O /\ p # o /\ p # q)
  BY DEF Joined
<1>6. \A p \in P : p \in N <=> IF p = w THEN q \in M ELSE p \in M
  BY <1>1, <1>4, <1>5 DEF JoinedMarks
<1> HIDE DEF w, P, N
<1>7. ASSUME NEW a, IsTag(S, O, X, a), a # o[1], a # q[2] PROVE k.mem[a] = h.mem[a]
  <2>1. a \in Mem
    BY <1>1, <1>7, TagsAreGranules
  <2> QED BY <1>3, <1>7, <2>1 DEF Writes
<1>8. ASSUME NEW a, IsTag(S, O, X, a)
      PROVE  /\ IsPrevFree(k, a) <=> IsPrevFree(h, a)
             /\ IsMmapped(k, a) <=> IsMmapped(h, a)
             /\ a # o[1] => GetSize(k, a) = GetSize(h, a)
             /\ a # q[2] => GetPrevSize(k, a) = GetPrevSize(h, a)
  <2>1. CASE a = o[1]
    BY <1>2, <1>3, <2>1 DEF SameTags
  <2>2. CASE a = q[2]
    BY <1>3, <2>2
  <2>3. CASE a # o[1] /\ a # q[2]
    <3>1. k.mem[a] = h.mem[a]
      BY <1>7, <1>8, <2>3
    <3> QED BY <3>1, SameGranule DEF SameTags
  <2> QED BY <2>1, <2>2, <2>3
<1>9. Tags(k, P, N)
  <2>1. ASSUME NEW p \in P
        PROVE  /\ GetSize(k, p[1]) = Size(p) /\ ~IsMmapped(k, p[1])
               /\ GetPrevSize(k, p[2]) = Size(p)
    <3>1. CASE p = w
      <4>1. ~IsMmapped(h, o[1]) /\ IsTag(S, O, X, o[1])
        BY <1>1 DEF AllTags, Tags, IsTag
      <4> QED BY <1>2, <1>3, <1>8, <3>1, <4>1
    <3>2. CASE p \in O /\ p # o /\ p # q
      <4>1. GetSize(h, p[1]) = Size(p) /\ ~IsMmapped(h, p[1]) /\ GetPrevSize(h, p[2]) = Size(p)
        BY <1>1, <3>2 DEF AllTags, Tags
      <4>2. p[1] # o[1] /\ p[2] # q[2]
        BY <1>1, <3>2, HeadersApart
      <4>3. IsTag(S, O, X, p[1]) /\ IsTag(S, O, X, p[2])
        BY <3>2 DEF IsTag
      <4> QED BY <1>8, <4>1, <4>2, <4>3
    <3> QED BY <1>5, <3>1, <3>2
  <2>2. ASSUME NEW p \in P PROVE IsPrevFree(k, p[2]) <=> p \in N
    <3>1. CASE p = w
      <4>1. (IsPrevFree(h, q[2]) <=> q \in M) /\ (p \in N <=> q \in M)
        BY <1>1, <1>6, <3>1 DEF AllTags, Tags
      <4> QED BY <1>2, <1>3, <3>1, <4>1
    <3>2. CASE p \in O /\ p # o /\ p # q
      <4>1. (IsPrevFree(h, p[2]) <=> p \in M) /\ IsTag(S, O, X, p[2])
        BY <1>1, <3>2 DEF AllTags, Tags, IsTag
      <4>2. p \in N <=> p \in M
        BY <1>4, <1>6, <3>2
      <4> QED BY <1>8, <4>1, <4>2
    <3> QED BY <1>5, <3>1, <3>2
  <2> QED BY <2>1, <2>2 DEF Tags
<1>10. RunTags(k, S)
  <2> SUFFICES ASSUME NEW s \in S
               PROVE  /\ GetSize(k, s[1] - 1) # 0
                      /\ GetPrevSize(k, s[1]) = 0 /\ ~IsPrevFree(k, s[1])
                      /\ GetSize(k, s[2]) = 0 /\ ~IsPrevFree(k, s[2] + 1)
    BY DEF RunTags
  <2>1. /\ IsTag(S, O, X, s[1] - 1) /\ IsTag(S, O, X, s[1])
        /\ IsTag(S, O, X, s[2]) /\ IsTag(S, O, X, s[2] + 1)
    BY DEF IsTag
  <2>2. o[1] # s[1] - 1 /\ o[1] # s[2] /\ q[2] # s[1]
    BY <1>1, HeadersApart
  <2>3. /\ GetSize(h, s[1] - 1) # 0
        /\ GetPrevSize(h, s[1]) = 0 /\ ~IsPrevFree(h, s[1])
        /\ GetSize(h, s[2]) = 0 /\ ~IsPrevFree(h, s[2] + 1)
    BY <1>1 DEF AllTags, RunTags
  <2> QED BY <1>8, <2>1, <2>2, <2>3
<1>11. MappedTags(k, X)
  <2> SUFFICES ASSUME NEW x \in X PROVE GetSize(k, x[1]) = Size(x) /\ IsMmapped(k, x[1])
    BY DEF MappedTags
  <2>1. IsTag(S, O, X, x[1]) /\ GetSize(h, x[1]) = Size(x) /\ IsMmapped(h, x[1])
    BY <1>1 DEF AllTags, MappedTags, IsTag
  <2>2. o[1] # x[1]
    BY <1>1, HeadersApart
  <2> QED BY <1>8, <2>1, <2>2
<1> QED BY <1>9, <1>10, <1>11 DEF AllTags, P, N

(* Merging: the second of two objects that are in no bin goes, and what    *)
(* was said of its being free is said of the whole.                        *)
LEMMA JoinGood ==
  ASSUME NEW h, NEW S, NEW O, NEW B, NEW M, NEW X, Good(h, S, O, B, M, X),
         NEW o \in O \ B, NEW q \in O \ B, o[2] = q[1],
         NEW k, k = Coalesce(h, o[1] + 1, q[1] + 1)
  PROVE  /\ Good(k, S, Joined(O, o, q), B, JoinedMarks(M, o, q), X)
         /\ Keeps(h, k, O \union X) /\ SameZone(h, k)
<1>1. Layout(S, O, X) /\ h \in HeapType /\ B \subseteq O /\ M \subseteq O
  BY GoodTags
<1>2. Layout(S, Joined(O, o, q), X)
  BY <1>1, JoinedLayout
<1>3. AllTags(k, S, Joined(O, o, q), JoinedMarks(M, o, q), X)
  BY JoinedTags
<1>4. Writes(h, k, {o[1], q[2]})
  BY CoalesceIs
<1>5. AreTags(S, O, X, {o[1], q[2]})
  BY DEF AreTags, IsTag
<1>6. B \subseteq Joined(O, o, q) /\ JoinedMarks(M, o, q) \subseteq Joined(O, o, q)
  BY <1>1 DEF Joined, JoinedMarks
<1>7. Good(k, S, Joined(O, o, q), B, JoinedMarks(M, o, q), X) /\ Keeps(h, k, O \union X)
  BY <1>1, <1>2, <1>3, <1>4, <1>5, <1>6, TagStep
<1> QED BY <1>4, <1>7 DEF Writes

-----------------------------------------------------------------------------
(* Splitting an object at q.                                               *)

Left(o, q) == <<o[1], q>>
Right(o, q) == <<q, o[2]>>
Cut(O, o, q) == (O \ {o}) \union {Left(o, q), Right(o, q)}

LEMMA PieceFacts ==
  ASSUME NEW S, NEW O, NEW X, Layout(S, O, X), NEW o \in O,
         NEW q \in Int, o[1] + 2 <= q, q + 2 <= o[2]
  PROVE  /\ Left(o, q) \in Granule \X Granule /\ Left(o, q)[1] = o[1] /\ Left(o, q)[2] = q
         /\ Right(o, q) \in Granule \X Granule /\ Right(o, q)[1] = q /\ Right(o, q)[2] = o[2]
         /\ o[1] \in Int /\ o[2] \in Int /\ q \in Granule
         /\ Left(o, q) # Right(o, q) /\ Left(o, q) \notin O /\ Right(o, q) \notin O
<1>1. o[1] \in Granule /\ o[2] \in Granule /\ o[1] \in Int /\ o[2] \in Int
  BY LayoutTypes
<1>2. q \in Granule
  BY <1>1, LeaAssumption DEF Granule
<1>3. /\ Left(o, q) \in Granule \X Granule /\ Left(o, q)[1] = o[1] /\ Left(o, q)[2] = q
      /\ Right(o, q) \in Granule \X Granule /\ Right(o, q)[1] = q /\ Right(o, q)[2] = o[2]
  BY <1>1, <1>2 DEF Left, Right
<1>4. Left(o, q) # Right(o, q) /\ Left(o, q) # o /\ Right(o, q) # o
  BY <1>1, <1>3
<1>5. Left(o, q) \notin O /\ Right(o, q) \notin O
  <2>1. \A p \in O : p[1] = o[1] \/ p[2] = o[2] => p = o
    BY HeadersApart
  <2> QED BY <1>3, <1>4, <2>1
<1> QED BY <1>1, <1>2, <1>3, <1>4, <1>5

LEMMA CutLayout ==
  ASSUME NEW S, NEW O, NEW X, Layout(S, O, X), NEW o \in O,
         NEW q \in Int, o[1] + 2 <= q, q + 2 <= o[2]
  PROVE  Layout(S, Cut(O, o, q), X)
<1> DEFINE l == Left(o, q)
           r == Right(o, q)
           P == Cut(O, o, q)
<1>1. /\ l \in Granule \X Granule /\ l[1] = o[1] /\ l[2] = q
      /\ r \in Granule \X Granule /\ r[1] = q /\ r[2] = o[2]
      /\ o[1] \in Int /\ o[2] \in Int /\ l # r /\ l \notin O /\ r \notin O
  BY PieceFacts
<1>2. l \in P /\ r \in P /\ \A p \in P : p = l \/ p = r \/ (p \in O /\ p # o)
  BY DEF Cut
<1>3. \A p \in O : p # o => p \in P
  BY DEF Cut
<1> HIDE DEF l, r, P
<1>4. \A p \in O : p[1] \in Int /\ p[2] \in Int /\ p[1] + 2 <= p[2]
  <2>1. \A p \in O : p[1] \in Int /\ p[2] \in Int
    BY LayoutTypes
  <2> QED BY <2>1 DEF Layout
<1>5. \A p, y \in O : p # y => p[2] <= y[1] \/ y[2] <= p[1]
  BY DEF Layout
<1>6. P \subseteq Granule \X Granule
  BY <1>1, <1>2 DEF Layout
<1>7. \A p \in P : p[1] + 2 <= p[2]
  BY <1>1, <1>2, <1>4
<1>8. ASSUME NEW p \in O, p # o
      PROVE  (p[2] <= l[1] \/ l[2] <= p[1]) /\ (p[2] <= r[1] \/ r[2] <= p[1])
  BY <1>1, <1>4, <1>5, <1>8
<1>9. l[2] <= r[1]
  BY <1>1
<1>10. \A p, y \in P : p # y => p[2] <= y[1] \/ y[2] <= p[1]
  BY <1>2, <1>5, <1>8, <1>9
<1>11. ASSUME NEW p \in P PROVE \E s \in S : s[1] <= p[1] /\ p[2] <= s[2]
  <2>1. PICK z \in O : z[1] <= p[1] /\ p[2] <= z[2]
    BY <1>1, <1>2, <1>4
  <2>2. PICK s \in S : s[1] <= z[1] /\ z[2] <= s[2]
    BY DEF Layout, Adjoin
  <2>3. s[1] \in Int /\ s[2] \in Int
    BY LayoutTypes
  <2>4. p[1] \in Int /\ p[2] \in Int
    BY <1>6 DEF Granule
  <2> QED BY <1>4, <2>1, <2>2, <2>3, <2>4
<1>12. ASSUME NEW p \in P PROVE (\E s \in S : p[1] = s[1]) \/ \E y \in P : y[2] = p[1]
  <2>1. CASE p = r
    BY <1>1, <1>2, <2>1
  <2>2. CASE p # r
    <3>1. PICK z \in O : z[1] = p[1]
      BY <1>1, <1>2, <2>2
    <3>2. CASE \E s \in S : z[1] = s[1]
      BY <3>1, <3>2
    <3>3. CASE \E y \in O : y[2] = z[1]
      <4>1. PICK y \in O : y[2] = z[1]
        BY <3>3
      <4> QED BY <1>1, <1>2, <1>3, <3>1, <4>1
    <3> QED BY <3>2, <3>3 DEF Layout, Adjoin
  <2> QED BY <2>1, <2>2
<1>13. ASSUME NEW p \in P PROVE (\E s \in S : p[2] = s[2]) \/ \E y \in P : y[1] = p[2]
  <2>1. CASE p = l
    BY <1>1, <1>2, <2>1
  <2>2. CASE p # l
    <3>1. PICK z \in O : z[2] = p[2]
      BY <1>1, <1>2, <2>2
    <3>2. CASE \E s \in S : z[2] = s[2]
      BY <3>1, <3>2
    <3>3. CASE \E y \in O : y[1] = z[2]
      <4>1. PICK y \in O : y[1] = z[2]
        BY <3>3
      <4> QED BY <1>1, <1>2, <1>3, <3>1, <4>1
    <3> QED BY <3>2, <3>3 DEF Layout, Adjoin
  <2> QED BY <2>1, <2>2
<1>14. ASSUME NEW s \in S PROVE (\E p \in P : p[1] = s[1]) /\ \E p \in P : p[2] = s[2]
  <2>1. PICK y \in O, z \in O : y[1] = s[1] /\ z[2] = s[2]
    BY DEF Layout, Adjoin
  <2> QED BY <1>1, <1>2, <1>3, <2>1
<1>15. Adjoin(S, P)
  BY <1>11, <1>12, <1>13, <1>14 DEF Adjoin
<1>16. Layout(S, P, X)
  BY <1>6, <1>7, <1>10, <1>15 DEF Layout
<1> QED BY <1>16 DEF P

(* The headers split writes. *)
CutHeap(h, g, q, n, rest) ==
  LET cut == [SetSize(h, g, n) EXCEPT !.mem[q] = <<Pack(FALSE, FALSE, n), rest>>]
  IN  SetPrevSize(cut, NextHeader(cut, q), rest)

CutMade(h, k, g, q, e, n, rest) ==
  /\ Writes(h, k, {g, q, e})
  /\ GetSize(k, g) = n /\ SameTags(h, k, g)
  /\ GetSize(k, q) = rest /\ ~IsPrevFree(k, q) /\ ~IsMmapped(k, q) /\ GetPrevSize(k, q) = n
  /\ GetSize(k, e) = GetSize(h, e) /\ GetPrevSize(k, e) = rest
  /\ IsPrevFree(k, e) <=> IsPrevFree(h, e)
  /\ IsMmapped(k, e) <=> IsMmapped(h, e)

LEMMA CutHeapIs ==
  ASSUME NEW h \in HeapType, NEW g \in Mem, NEW q \in Mem, NEW e \in Mem, NEW n \in Int, NEW rest \in Int,
         g < q, q < e, q \in Int, e = q + 1 + rest
  PROVE  CutMade(h, CutHeap(h, g, q, n, rest), g, q, e, n, rest)
<1> DEFINE w == Pack(FALSE, FALSE, n)
           v == <<w, rest>>
           l == SetSize(h, g, n)
           c == Put(l, q, v)
           k == CutHeap(h, g, q, n, rest)
<1>0. g # q /\ q # e /\ g # e /\ g \in Int
  BY LeaAssumption DEF Mem, Granule, Heads, Head
<1>1. w \in Int /\ ~(w % 2 = 1) /\ ~((w \div 2) % 2 = 1) /\ w \div 4 = n
  BY PackFacts
<1> HIDE DEF w
<1>2. v \in Int \X Int /\ v[1] = w /\ v[2] = rest
  BY <1>1
<1>3. c = [SetSize(h, g, n) EXCEPT !.mem[q] = <<Pack(FALSE, FALSE, n), rest>>]
  BY DEF Put, w
<1> HIDE DEF v
<1>4. Writes(h, l, {g}) /\ SameTags(h, l, g) /\ GetSize(l, g) = n /\ l \in HeapType
  BY SetSizeIs DEF Writes
<1> HIDE DEF l
<1>5. Writes(l, c, {q}) /\ c.mem[q] = v /\ c \in HeapType
  BY <1>2, <1>4, PutIs DEF Writes
<1>6. k = SetPrevSize(c, NextHeader(c, q), rest)
  BY <1>3 DEF CutHeap
<1> HIDE DEF c, k
<1>7. /\ GetSize(c, q) = rest /\ ~IsPrevFree(c, q) /\ ~IsMmapped(c, q) /\ GetPrevSize(c, q) = n
  BY <1>1, <1>2, <1>5 DEF GetSize, IsPrevFree, IsMmapped, GetPrevSize
<1>8. NextHeader(c, q) = e
  BY <1>7 DEF NextHeader
<1>9. /\ Writes(c, k, {e}) /\ GetSize(k, e) = GetSize(c, e)
      /\ IsPrevFree(k, e) <=> IsPrevFree(c, e)
      /\ IsMmapped(k, e) <=> IsMmapped(c, e)
      /\ GetPrevSize(k, e) = rest
  BY <1>5, <1>6, <1>8, SetPrevSizeIs
<1>10. k.mem[g] = l.mem[g] /\ k.mem[q] = c.mem[q] /\ c.mem[e] = h.mem[e]
  <2>1. k.mem[g] = c.mem[g] /\ c.mem[g] = l.mem[g] /\ k.mem[q] = c.mem[q]
    BY <1>0, <1>5, <1>9 DEF Writes
  <2>2. c.mem[e] = l.mem[e] /\ l.mem[e] = h.mem[e]
    BY <1>0, <1>4, <1>5 DEF Writes
  <2> QED BY <2>1, <2>2
<1>11. /\ SameTags(l, k, g) /\ GetSize(k, g) = GetSize(l, g)
       /\ SameTags(c, k, q) /\ GetSize(k, q) = GetSize(c, q)
       /\ SameTags(h, c, e) /\ GetSize(c, e) = GetSize(h, e)
  BY <1>10, SameGranule
<1>12. Writes(h, k, {g, q, e})
  <2>1. ({g} \union {q}) \union {e} = {g, q, e}
    OBVIOUS
  <2>2. Writes(h, c, {g} \union {q})
    BY <1>4, <1>5, WritesBoth
  <2>3. Writes(h, k, ({g} \union {q}) \union {e})
    BY <1>9, <2>2, WritesBoth
  <2> QED BY <2>1, <2>3
<1>13. /\ GetSize(k, g) = n /\ SameTags(h, k, g)
       /\ GetSize(k, q) = rest
       /\ ~IsPrevFree(k, q) /\ ~IsMmapped(k, q)
       /\ GetPrevSize(k, q) = n
  BY <1>4, <1>7, <1>11 DEF SameTags
<1>14. /\ GetSize(k, e) = GetSize(h, e)
       /\ GetPrevSize(k, e) = rest
       /\ IsPrevFree(k, e) <=> IsPrevFree(h, e)
       /\ IsMmapped(k, e) <=> IsMmapped(h, e)
  BY <1>9, <1>11 DEF SameTags
<1> QED BY <1>12, <1>13, <1>14 DEF k, CutMade

LEMMA CutTags ==
  ASSUME NEW h, NEW S, NEW O, NEW B, NEW M, NEW X, Good(h, S, O, B, M, X),
         NEW o \in O, o \notin M, NEW q \in Int, o[1] + 2 <= q, q + 2 <= o[2],
         NEW k, k = CutHeap(h, o[1], q, Size(Left(o, q)), Size(Right(o, q)))
  PROVE  Writes(h, k, {o[1], q, o[2]}) /\ AllTags(k, S, Cut(O, o, q), M, X)
<1> DEFINE l == Left(o, q)
           r == Right(o, q)
           P == Cut(O, o, q)
<1>1. Layout(S, O, X) /\ h \in HeapType /\ M \subseteq O /\ AllTags(h, S, O, M, X)
  BY GoodTags
<1>2. /\ l[1] = o[1] /\ l[2] = q /\ r[1] = q /\ r[2] = o[2]
      /\ o[1] \in Int /\ o[2] \in Int /\ q \in Granule /\ l # r /\ l \notin O /\ r \notin O
  BY <1>1, PieceFacts
<1>3. \A p \in P : p = l \/ p = r \/ (p \in O /\ p # o)
  BY DEF Cut
<1>4. Layout(S, P, X) /\ l \in P /\ r \in P
  BY <1>1, CutLayout DEF Cut
<1> HIDE DEF l, r, P
<1>5. Size(l) = q - o[1] - 1 /\ Size(r) = o[2] - q - 1
  BY <1>2 DEF Size
<1>6. o[1] \in Mem /\ q \in Mem /\ o[2] \in Mem /\ o[1] < q /\ q < o[2] /\ o[2] = q + 1 + Size(r)
      /\ Size(l) \in Int /\ Size(r) \in Int
  <2>1. o[1] \in Granule /\ o[2] \in Granule
    BY <1>1, LayoutTypes
  <2>2. o[1] \in Mem /\ q \in Mem /\ o[2] \in Mem
    BY <1>2, <2>1 DEF Mem
  <2> QED BY <1>2, <1>5, <2>2
<1>7. k = CutHeap(h, o[1], q, Size(l), Size(r))
  BY DEF l, r
<1>8. /\ Writes(h, k, {o[1], q, o[2]})
      /\ GetSize(k, o[1]) = Size(l) /\ SameTags(h, k, o[1])
      /\ GetSize(k, q) = Size(r) /\ ~IsPrevFree(k, q) /\ ~IsMmapped(k, q) /\ GetPrevSize(k, q) = Size(l)
      /\ GetSize(k, o[2]) = GetSize(h, o[2]) /\ GetPrevSize(k, o[2]) = Size(r)
      /\ IsPrevFree(k, o[2]) <=> IsPrevFree(h, o[2])
      /\ IsMmapped(k, o[2]) <=> IsMmapped(h, o[2])
  <2>1. CutMade(h, CutHeap(h, o[1], q, Size(l), Size(r)), o[1], q, o[2], Size(l), Size(r))
    BY <1>1, <1>6, CutHeapIs
  <2> QED BY <1>7, <2>1 DEF CutMade
<1>9. ~IsTag(S, O, X, q)
  <2>1. q \in Body(o)
    BY <1>2 DEF Body
  <2> QED BY <1>1, <2>1, BodyHasNoTag
<1>10. ASSUME NEW a, IsTag(S, O, X, a)
       PROVE  /\ IsPrevFree(k, a) <=> IsPrevFree(h, a)
              /\ IsMmapped(k, a) <=> IsMmapped(h, a)
              /\ a # o[1] => GetSize(k, a) = GetSize(h, a)
              /\ a # o[2] => GetPrevSize(k, a) = GetPrevSize(h, a)
  <2>1. CASE a = o[1]
    BY <1>2, <1>8, <2>1 DEF SameTags
  <2>2. CASE a = o[2]
    BY <1>8, <2>2
  <2>3. CASE a # o[1] /\ a # o[2]
    <3>1. a \in Mem /\ a # q
      BY <1>1, <1>9, <1>10, TagsAreGranules
    <3>2. k.mem[a] = h.mem[a]
      BY <1>8, <2>3, <3>1 DEF Writes
    <3> QED BY <3>2, SameGranule DEF SameTags
  <2> QED BY <2>1, <2>2, <2>3
<1>11. ~IsMmapped(h, o[1]) /\ ~IsPrevFree(h, o[2]) /\ IsTag(S, O, X, o[1])
  BY <1>1 DEF AllTags, Tags, IsTag
<1>12. Tags(k, P, M)
  <2>1. ASSUME NEW p \in P
        PROVE  /\ GetSize(k, p[1]) = Size(p) /\ ~IsMmapped(k, p[1])
               /\ GetPrevSize(k, p[2]) = Size(p)
    <3>1. CASE p = l
      BY <1>2, <1>8, <1>10, <1>11, <3>1
    <3>2. CASE p = r
      BY <1>2, <1>8, <3>2
    <3>3. CASE p \in O /\ p # o
      <4>1. GetSize(h, p[1]) = Size(p) /\ ~IsMmapped(h, p[1]) /\ GetPrevSize(h, p[2]) = Size(p)
        BY <1>1, <3>3 DEF AllTags, Tags
      <4>2. p[1] # o[1] /\ p[2] # o[2]
        BY <1>1, <3>3, HeadersApart
      <4>3. IsTag(S, O, X, p[1]) /\ IsTag(S, O, X, p[2])
        BY <3>3 DEF IsTag
      <4> QED BY <1>10, <4>1, <4>2, <4>3
    <3> QED BY <1>3, <3>1, <3>2, <3>3
  <2>2. ASSUME NEW p \in P PROVE IsPrevFree(k, p[2]) <=> p \in M
    <3>1. CASE p = l
      <4>1. p \notin M
        BY <1>1, <1>2, <3>1
      <4> QED BY <1>2, <1>8, <3>1, <4>1
    <3>2. CASE p = r
      <4>1. p \notin M
        BY <1>1, <1>2, <3>2
      <4> QED BY <1>2, <1>8, <1>11, <3>2, <4>1
    <3>3. CASE p \in O /\ p # o
      <4>1. (IsPrevFree(h, p[2]) <=> p \in M) /\ IsTag(S, O, X, p[2])
        BY <1>1, <3>3 DEF AllTags, Tags, IsTag
      <4> QED BY <1>10, <4>1
    <3> QED BY <1>3, <3>1, <3>2, <3>3
  <2> QED BY <2>1, <2>2 DEF Tags
<1>13. RunTags(k, S)
  <2> SUFFICES ASSUME NEW s \in S
               PROVE  /\ GetSize(k, s[1] - 1) # 0
                      /\ GetPrevSize(k, s[1]) = 0 /\ ~IsPrevFree(k, s[1])
                      /\ GetSize(k, s[2]) = 0 /\ ~IsPrevFree(k, s[2] + 1)
    BY DEF RunTags
  <2>1. /\ IsTag(S, O, X, s[1] - 1) /\ IsTag(S, O, X, s[1])
        /\ IsTag(S, O, X, s[2]) /\ IsTag(S, O, X, s[2] + 1)
    BY DEF IsTag
  <2>2. o[1] # s[1] - 1 /\ o[1] # s[2] /\ o[2] # s[1]
    BY <1>1, HeadersApart
  <2>3. /\ GetSize(h, s[1] - 1) # 0
        /\ GetPrevSize(h, s[1]) = 0 /\ ~IsPrevFree(h, s[1])
        /\ GetSize(h, s[2]) = 0 /\ ~IsPrevFree(h, s[2] + 1)
    BY <1>1 DEF AllTags, RunTags
  <2> QED BY <1>10, <2>1, <2>2, <2>3
<1>14. MappedTags(k, X)
  <2> SUFFICES ASSUME NEW x \in X PROVE GetSize(k, x[1]) = Size(x) /\ IsMmapped(k, x[1])
    BY DEF MappedTags
  <2>1. IsTag(S, O, X, x[1]) /\ GetSize(h, x[1]) = Size(x) /\ IsMmapped(h, x[1])
    BY <1>1 DEF AllTags, MappedTags, IsTag
  <2>2. o[1] # x[1]
    BY <1>1, HeadersApart
  <2> QED BY <1>10, <2>1, <2>2
<1> QED BY <1>8, <1>12, <1>13, <1>14 DEF AllTags, P

(* Splitting: an object that is in no bin and not marked becomes two. *)
LEMMA CutGood ==
  ASSUME NEW h, NEW S, NEW O, NEW B, NEW M, NEW X, Good(h, S, O, B, M, X),
         NEW o \in O \ B, o \notin M, NEW q \in Int, o[1] + 2 <= q, q + 2 <= o[2],
         NEW k, k = CutHeap(h, o[1], q, Size(Left(o, q)), Size(Right(o, q)))
  PROVE  /\ Good(k, S, Cut(O, o, q), B, M, X)
         /\ Keeps(h, k, Cut(O, o, q) \union X) /\ SameZone(h, k)
<1>1. Layout(S, O, X) /\ h \in HeapType /\ B \subseteq O /\ M \subseteq O
  BY GoodTags
<1>2. Layout(S, Cut(O, o, q), X)
  BY <1>1, CutLayout
<1>3. Writes(h, k, {o[1], q, o[2]}) /\ AllTags(k, S, Cut(O, o, q), M, X)
  BY CutTags
<1>4. AreTags(S, Cut(O, o, q), X, {o[1], q, o[2]})
  <2>1. /\ Left(o, q)[1] = o[1] /\ Left(o, q)[2] = q /\ Right(o, q)[2] = o[2]
        /\ Left(o, q) \in Cut(O, o, q) /\ Right(o, q) \in Cut(O, o, q)
    BY <1>1, PieceFacts DEF Cut
  <2> QED BY <2>1 DEF AreTags, IsTag
<1>5. B \subseteq Cut(O, o, q) /\ M \subseteq Cut(O, o, q)
  BY <1>1 DEF Cut
<1>6. Good(k, S, Cut(O, o, q), B, M, X) /\ Keeps(h, k, Cut(O, o, q) \union X)
  BY <1>2, <1>3, <1>4, <1>5, TagStep
<1> QED BY <1>3, <1>6 DEF Writes

-----------------------------------------------------------------------------
(* Rings.                                                                  *)

(* Each entry has one before it: what is not followed by another one would *)
(* be left out by the rest.                                                *)
LEMMA RingLinks ==
  ASSUME NEW mem, NEW E, NEW hd, IsRing(mem, E, hd), NEW p \in E \union {hd}
  PROVE  /\ mem[p][1] \in E \union {hd} /\ mem[mem[p][1]][2] = p
         /\ mem[p][2] \in E \union {hd} /\ mem[mem[p][2]][1] = p
<1> DEFINE ring == E \union {hd}
           part == {mem[e][2] : e \in ring}
<1>1. \A e \in ring : mem[e][2] \in ring /\ mem[mem[e][2]][1] = e
  BY DEF IsRing
<1>2. \A a \in (SUBSET ring) \ {{}, ring} : \E e \in a : mem[e][2] \notin a
  BY DEF IsRing
<1>3. part \in SUBSET ring /\ part # {} /\ \A e \in part : mem[e][2] \in part
  BY <1>1
<1>4. part = ring
  <2> HIDE DEF part, ring
  <2> QED BY <1>2, <1>3
<1>5. PICK e \in ring : mem[e][2] = p
  BY <1>4
<1> QED BY <1>1, <1>5

LEMMA RingOthers ==
  ASSUME NEW mem, NEW E, NEW hd, IsRing(mem, E, hd), hd \notin E, NEW p \in E
  PROVE  mem[p][1] # p /\ mem[p][2] # p
<1>1. \A a \in (SUBSET (E \union {hd})) \ {{}, E \union {hd}} : \E e \in a : mem[e][2] \notin a
  BY DEF IsRing
<1>2. {p} \in (SUBSET (E \union {hd})) \ {{}, E \union {hd}}
  OBVIOUS
<1>3. mem[p][2] # p
  BY <1>1, <1>2
<1>4. mem[mem[p][1]][2] = p
  BY RingLinks
<1> QED BY <1>3, <1>4

(* The head leads to itself just if there are no entries. *)
LEMMA RingEmpty ==
  ASSUME NEW mem, NEW E, NEW hd, IsRing(mem, E, hd), hd \notin E
  PROVE  /\ mem[hd][2] = hd <=> E = {}
         /\ mem[hd][2] # hd => mem[hd][2] \in E
<1>1. \A a \in (SUBSET (E \union {hd})) \ {{}, E \union {hd}} : \E e \in a : mem[e][2] \notin a
  BY DEF IsRing
<1>2. mem[hd][2] \in E \union {hd}
  BY RingLinks
<1>3. ASSUME mem[hd][2] = hd, E # {} PROVE FALSE
  <2>1. {hd} \in (SUBSET (E \union {hd})) \ {{}, E \union {hd}}
    BY <1>3
  <2> QED BY <1>1, <1>3, <2>1
<1> QED BY <1>2, <1>3

(* What inserting p behind the head does to the links. *)
Inserted(mem, new, E, hd, p) ==
  /\ new[p][1] = hd /\ new[p][2] = mem[hd][2]
  /\ \A e \in E \union {hd} :
       /\ new[e][2] = IF e = hd THEN p ELSE mem[e][2]
       /\ new[e][1] = IF e = mem[hd][2] THEN p ELSE mem[e][1]

LEMMA RingInsert ==
  ASSUME NEW mem, NEW new, NEW E, NEW hd, IsRing(mem, E, hd), NEW p, p \notin E \union {hd},
         Inserted(mem, new, E, hd, p)
  PROVE  IsRing(new, E \union {p}, hd)
<1> DEFINE ring == E \union {hd}
           all == (E \union {p}) \union {hd}
           first == mem[hd][2]
<1>1. \A e \in ring : mem[e][2] \in ring /\ mem[mem[e][2]][1] = e
  BY DEF IsRing
<1>2. \A a \in (SUBSET ring) \ {{}, ring} : \E e \in a : mem[e][2] \notin a
  BY DEF IsRing
<1>3. /\ new[p][1] = hd /\ new[p][2] = first
      /\ \A e \in ring : /\ new[e][2] = IF e = hd THEN p ELSE mem[e][2]
                         /\ new[e][1] = IF e = first THEN p ELSE mem[e][1]
  BY DEF Inserted
<1>4. hd \in ring /\ p \notin ring /\ all = ring \union {p}
  OBVIOUS
<1> HIDE DEF ring, all, first
<1>5. first \in ring
  BY <1>1, <1>4 DEF first
<1>6. ASSUME NEW e \in all PROVE new[e][2] \in all /\ new[new[e][2]][1] = e
  <2>1. CASE e = p
    BY <1>3, <1>4, <1>5, <2>1
  <2>2. CASE e = hd
    BY <1>3, <1>4, <2>2
  <2>3. CASE e \in ring /\ e # hd
    <3>1. new[e][2] = mem[e][2] /\ mem[e][2] \in ring /\ mem[mem[e][2]][1] = e
      BY <1>1, <1>3, <2>3
    <3>2. mem[e][2] # first
      BY <1>1, <1>4, <2>3, <3>1 DEF first
    <3> QED BY <1>3, <1>4, <3>1, <3>2
  <2> QED BY <1>4, <2>1, <2>2, <2>3
<1>7. ASSUME NEW a \in SUBSET all, a # {}, a # all, \A e \in a : new[e][2] \in a PROVE FALSE
  <2> DEFINE b == a \ {p}
  <2>1. b \in SUBSET ring
    BY <1>4
  <2>2. ASSUME NEW e \in b PROVE mem[e][2] \in b
    <3>1. CASE e = hd
      <4>1. new[hd][2] = p
        BY <1>3, <1>4
      <4>2. p \in a
        BY <1>7, <3>1, <4>1
      <4>3. first \in a
        BY <1>3, <1>7, <4>2
      <4> QED BY <1>4, <1>5, <3>1, <4>3 DEF first
    <3>2. CASE e # hd
      <4>1. new[e][2] = mem[e][2] /\ mem[e][2] \in ring
        BY <1>1, <1>3, <2>1, <2>2, <3>2
      <4> QED BY <1>4, <1>7, <2>2, <4>1
    <3> QED BY <3>1, <3>2
  <2>3. b = {} \/ b = ring
    <3> HIDE DEF b
    <3> QED BY <1>2, <2>1, <2>2
  <2>4. CASE b = {}
    <3>1. p \in a
      BY <1>7, <2>4
    <3>2. first \in a
      BY <1>3, <1>7, <3>1
    <3> QED BY <1>4, <1>5, <2>4, <3>2
  <2>5. CASE b = ring
    <3>1. hd \in a
      BY <1>4, <2>5
    <3>2. p \in a
      BY <1>3, <1>4, <1>7, <3>1
    <3> QED BY <1>4, <1>7, <2>5, <3>2
  <2> QED BY <2>3, <2>4, <2>5
<1>8. \A a \in (SUBSET all) \ {{}, all} : \E e \in a : new[e][2] \notin a
  BY <1>7
<1> QED BY <1>6, <1>8 DEF IsRing, all

(* What taking p out does to the links of the others. *)
Removed(mem, new, E, hd, p) ==
  \A e \in (E \union {hd}) \ {p} :
    /\ new[e][2] = IF e = mem[p][1] THEN mem[p][2] ELSE mem[e][2]
    /\ new[e][1] = IF e = mem[p][2] THEN mem[p][1] ELSE mem[e][1]

LEMMA RingRemove ==
  ASSUME NEW mem, NEW new, NEW E, NEW hd, IsRing(mem, E, hd), hd \notin E, NEW p \in E,
         Removed(mem, new, E, hd, p)
  PROVE  IsRing(new, E \ {p}, hd)
<1> DEFINE ring == E \union {hd}
           rest == (E \ {p}) \union {hd}
           prev == mem[p][1]
           next == mem[p][2]
<1>1. \A e \in ring : mem[e][2] \in ring /\ mem[mem[e][2]][1] = e
  BY DEF IsRing
<1>2. \A a \in (SUBSET ring) \ {{}, ring} : \E e \in a : mem[e][2] \notin a
  BY DEF IsRing
<1>3. \A e \in rest : /\ new[e][2] = IF e = prev THEN next ELSE mem[e][2]
                      /\ new[e][1] = IF e = next THEN prev ELSE mem[e][1]
  BY DEF Removed
<1>4. p \in ring /\ rest = ring \ {p}
  OBVIOUS
<1>5. prev \in ring /\ mem[prev][2] = p /\ next \in ring /\ prev # p /\ next # p
  BY RingLinks, RingOthers
<1> HIDE DEF ring, rest, prev, next
<1>6. ASSUME NEW e \in rest PROVE new[e][2] \in rest /\ new[new[e][2]][1] = e
  <2>1. CASE e = prev
    BY <1>3, <1>4, <1>5, <2>1
  <2>2. CASE e # prev
    <3>1. new[e][2] = mem[e][2] /\ mem[e][2] \in ring /\ mem[mem[e][2]][1] = e
      BY <1>1, <1>3, <1>4, <2>2
    <3>2. mem[e][2] # p
      BY <2>2, <3>1 DEF prev
    <3>3. mem[e][2] # next
      <4>1. mem[next][1] = p
        BY <1>1, <1>4 DEF next
      <4> QED BY <1>4, <3>1, <4>1
    <3> QED BY <1>3, <1>4, <3>1, <3>2, <3>3
  <2> QED BY <2>1, <2>2
<1>7. ASSUME NEW a \in SUBSET rest, a # {}, a # rest, \A e \in a : new[e][2] \in a PROVE FALSE
  <2>1. CASE prev \in a
    <3> DEFINE b == a \union {p}
    <3>1. b \in SUBSET ring /\ b # {} /\ b # ring
      BY <1>4, <1>7
    <3>2. next \in a
      BY <1>3, <1>7, <2>1
    <3>3. ASSUME NEW e \in b PROVE mem[e][2] \in b
      <4>1. CASE e = p
        BY <3>2, <4>1 DEF next
      <4>2. CASE e = prev
        BY <1>5, <4>2
      <4>3. CASE e \in a /\ e # prev
        BY <1>3, <1>7, <4>3
      <4> QED BY <4>1, <4>2, <4>3
    <3> HIDE DEF b
    <3> QED BY <1>2, <3>1, <3>3
  <2>2. CASE prev \notin a
    <3>1. a \in SUBSET ring /\ a # ring
      BY <1>4, <1>7
    <3>2. \A e \in a : mem[e][2] \in a
      BY <1>3, <1>7, <2>2
    <3> QED BY <1>2, <1>7, <3>1, <3>2
  <2> QED BY <2>1, <2>2
<1>8. \A a \in (SUBSET rest) \ {{}, rest} : \E e \in a : new[e][2] \notin a
  BY <1>7
<1> QED BY <1>6, <1>8 DEF IsRing, rest

(* Writing one link. *)
SetNextLink(h, g, p) == [h EXCEPT !.mem[g][2] = p]
SetPrevLink(h, g, p) == [h EXCEPT !.mem[g][1] = p]

NextSet(h, k, g, p) ==
  /\ Writes(h, k, {g})
  /\ \A a \in Mem : k.mem[a][2] = (IF a = g THEN p ELSE h.mem[a][2]) /\ k.mem[a][1] = h.mem[a][1]

LEMMA SetNextLinkIs ==
  ASSUME NEW h \in HeapType, NEW g \in Mem, NEW p \in Int
  PROVE  NextSet(h, SetNextLink(h, g, p), g, p)
<1> DEFINE k == SetNextLink(h, g, p)
           v == <<h.mem[g][1], p>>
<1>1. v \in Int \X Int /\ v[2] = p /\ v[1] = h.mem[g][1]
  BY HeapWords
<1>2. k = Put(h, g, v)
  <2>1. h.mem \in [Mem -> Int \X Int]
    BY DEF HeapType
  <2> QED BY <2>1 DEF SetNextLink, Put
<1> HIDE DEF k, v
<1>3. Writes(h, k, {g}) /\ k.mem[g] = v
  BY <1>1, <1>2, PutIs
<1>4. ASSUME NEW a \in Mem
      PROVE  k.mem[a][2] = (IF a = g THEN p ELSE h.mem[a][2]) /\ k.mem[a][1] = h.mem[a][1]
  BY <1>1, <1>3 DEF Writes
<1> QED BY <1>3, <1>4 DEF NextSet, k

PrevSet(h, k, g, p) ==
  /\ Writes(h, k, {g})
  /\ \A a \in Mem : k.mem[a][1] = (IF a = g THEN p ELSE h.mem[a][1]) /\ k.mem[a][2] = h.mem[a][2]

LEMMA SetPrevLinkIs ==
  ASSUME NEW h \in HeapType, NEW g \in Mem, NEW p \in Int
  PROVE  PrevSet(h, SetPrevLink(h, g, p), g, p)
<1> DEFINE k == SetPrevLink(h, g, p)
           v == <<p, h.mem[g][2]>>
<1>1. v \in Int \X Int /\ v[1] = p /\ v[2] = h.mem[g][2]
  BY HeapWords
<1>2. k = Put(h, g, v)
  <2>1. h.mem \in [Mem -> Int \X Int]
    BY DEF HeapType
  <2> QED BY <2>1 DEF SetPrevLink, Put
<1> HIDE DEF k, v
<1>3. Writes(h, k, {g}) /\ k.mem[g] = v
  BY <1>1, <1>2, PutIs
<1>4. ASSUME NEW a \in Mem
      PROVE  k.mem[a][1] = (IF a = g THEN p ELSE h.mem[a][1]) /\ k.mem[a][2] = h.mem[a][2]
  BY <1>1, <1>3 DEF Writes
<1> QED BY <1>3, <1>4 DEF PrevSet, k

LEMMA MemInt == Mem \subseteq Int
BY LeaAssumption DEF Mem, Granule, Heads, Head

LEMMA UnlinkIs ==
  ASSUME NEW h \in HeapType, NEW p \in Mem, h.mem[p][1] \in Mem, h.mem[p][2] \in Mem,
         NEW k, k = Unlink(h, p)
  PROVE  /\ Writes(h, k, {h.mem[p][1], h.mem[p][2]})
         /\ \A a \in Mem : /\ k.mem[a][2] = IF a = h.mem[p][1] THEN h.mem[p][2] ELSE h.mem[a][2]
                           /\ k.mem[a][1] = IF a = h.mem[p][2] THEN h.mem[p][1] ELSE h.mem[a][1]
<1> DEFINE prev == h.mem[p][1]
           next == h.mem[p][2]
           l == SetNextLink(h, prev, next)
<1>1. k = SetPrevLink(l, next, prev)
  BY DEF Unlink, SetNextLink, SetPrevLink
<1>2. prev \in Mem /\ next \in Mem /\ prev \in Int /\ next \in Int
  BY MemInt
<1> HIDE DEF prev, next
<1>3. /\ Writes(h, l, {prev}) /\ l \in HeapType
      /\ \A a \in Mem : l.mem[a][2] = (IF a = prev THEN next ELSE h.mem[a][2]) /\ l.mem[a][1] = h.mem[a][1]
  <2>1. NextSet(h, SetNextLink(h, prev, next), prev, next)
    BY <1>2, SetNextLinkIs
  <2> QED BY <2>1 DEF NextSet, Writes, l
<1> HIDE DEF l
<1>4. /\ Writes(l, k, {next})
      /\ \A a \in Mem : k.mem[a][1] = (IF a = next THEN prev ELSE l.mem[a][1]) /\ k.mem[a][2] = l.mem[a][2]
  <2>1. PrevSet(l, SetPrevLink(l, next, prev), next, prev)
    BY <1>2, <1>3, SetPrevLinkIs
  <2> QED BY <1>1, <2>1 DEF PrevSet
<1>5. Writes(h, k, {prev} \union {next})
  BY <1>3, <1>4, WritesBoth
<1>6. {prev} \union {next} = {prev, next}
  OBVIOUS
<1>7. \A a \in Mem : /\ k.mem[a][2] = IF a = prev THEN next ELSE h.mem[a][2]
                     /\ k.mem[a][1] = IF a = next THEN prev ELSE h.mem[a][1]
  BY <1>3, <1>4
<1> QED BY <1>5, <1>6, <1>7 DEF prev, next

LEMMA InsertIs ==
  ASSUME NEW h \in HeapType, NEW c, Head(c) \in Mem, NEW p \in Mem, First(h, c) \in Mem, p # Head(c),
         p # First(h, c), NEW k, k = Insert(h, c, p)
  PROVE  /\ Writes(h, k, {p, Head(c), First(h, c)})
         /\ k.mem[p][1] = Head(c) /\ k.mem[p][2] = First(h, c)
         /\ \A a \in Mem \ {p} : /\ k.mem[a][2] = IF a = Head(c) THEN p ELSE h.mem[a][2]
                                 /\ k.mem[a][1] = IF a = First(h, c) THEN p ELSE h.mem[a][1]
<1> DEFINE hd == Head(c)
           first == First(h, c)
           v == <<hd, first>>
           j == Put(h, p, v)
           l == SetNextLink(j, hd, p)
<1>1. k = SetPrevLink(l, first, p)
  BY DEF Insert, SetNextLink, SetPrevLink, Put
<1>2. /\ hd \in Mem /\ first \in Mem /\ hd \in Int /\ first \in Int /\ p \in Int
      /\ p # hd /\ p # first /\ v \in Int \X Int
  BY MemInt
<1>3. v[1] = hd /\ v[2] = first
  OBVIOUS
<1> HIDE DEF hd, first, v
<1>4. Writes(h, j, {p}) /\ j \in HeapType /\ j.mem[p] = v
  BY <1>2, PutIs DEF Writes
<1> HIDE DEF j
<1>5. /\ Writes(j, l, {hd}) /\ l \in HeapType
      /\ \A a \in Mem : l.mem[a][2] = (IF a = hd THEN p ELSE j.mem[a][2]) /\ l.mem[a][1] = j.mem[a][1]
  <2>1. NextSet(j, SetNextLink(j, hd, p), hd, p)
    BY <1>2, <1>4, SetNextLinkIs
  <2> QED BY <2>1 DEF NextSet, Writes, l
<1> HIDE DEF l
<1>6. /\ Writes(l, k, {first})
      /\ \A a \in Mem : k.mem[a][1] = (IF a = first THEN p ELSE l.mem[a][1]) /\ k.mem[a][2] = l.mem[a][2]
  <2>1. PrevSet(l, SetPrevLink(l, first, p), first, p)
    BY <1>2, <1>5, SetPrevLinkIs
  <2> QED BY <1>1, <2>1 DEF PrevSet
<1>7. Writes(h, k, {p, hd, first})
  <2>1. ({p} \union {hd}) \union {first} = {p, hd, first}
    OBVIOUS
  <2>2. Writes(h, l, {p} \union {hd})
    BY <1>4, <1>5, WritesBoth
  <2>3. Writes(h, k, ({p} \union {hd}) \union {first})
    BY <1>6, <2>2, WritesBoth
  <2> QED BY <2>1, <2>3
<1>8. k.mem[p][1] = hd /\ k.mem[p][2] = first
  BY <1>2, <1>3, <1>4, <1>5, <1>6
<1>9. \A a \in Mem \ {p} : j.mem[a] = h.mem[a]
  BY <1>4 DEF Writes
<1>10. \A a \in Mem \ {p} : /\ k.mem[a][2] = IF a = hd THEN p ELSE h.mem[a][2]
                            /\ k.mem[a][1] = IF a = first THEN p ELSE h.mem[a][1]
  BY <1>5, <1>6, <1>9
<1> QED BY <1>7, <1>8, <1>10 DEF hd, first

-----------------------------------------------------------------------------
(* Classes.                                                                *)

LEMMA BinFacts ==
  /\ Bins = 0 .. NumBins - 1 /\ NumBins \in Nat \ {0} /\ NumBins - 1 \in Bins
  /\ \A c \in Bins : c \in Nat /\ ClassMax[c] \in Nat
  /\ \A n \in Sizes : n \in Nat \ {0} /\ ClassOf[n] \in Bins
<1>1. Bins = 0 .. NumBins - 1 /\ NumBins \in Nat \ {0}
  BY LeaAssumption
<1>2. \A c \in Bins : ClassMax[c] \in Nat
  BY LeaAssumption
<1>3. NumBins - 1 \in Bins /\ \A c \in Bins : c \in Nat
  BY <1>1
<1>4. \A n \in Sizes : n \in Nat \ {0}
  <2>1. Sizes = 1 .. ClassMax[NumBins - 1] /\ ClassMax[NumBins - 1] \in Nat
    BY <1>2, <1>3, LeaAssumption
  <2> QED BY <2>1
<1>5. \A n \in Sizes : ClassOf[n] \in Bins
  BY LeaAssumption
<1> QED BY <1>1, <1>2, <1>3, <1>4, <1>5

LEMMA ClassesGrow ==
  ASSUME NEW c \in Bins, NEW d \in Bins, c < d
  PROVE  ClassMax[c] < ClassMax[d]
<1> DEFINE T == {n \in Nat : c + 1 + n \in Bins => ClassMax[c] < ClassMax[c + 1 + n]}
<1>1. /\ Bins = 0 .. NumBins - 1 /\ c \in Nat /\ d \in Nat
      /\ \A e \in Bins : ClassMax[e] \in Nat
  BY BinFacts
<1>2. \A e \in Bins \ {0} : ClassMax[e] > ClassMax[e - 1]
  BY LeaAssumption
<1>3. 0 \in T
  <2> SUFFICES ASSUME c + 1 \in Bins PROVE ClassMax[c] < ClassMax[c + 1]
    BY <1>1
  <2>1. c + 1 \in Bins \ {0} /\ (c + 1) - 1 = c
    BY <1>1
  <2>2. ClassMax[c + 1] > ClassMax[(c + 1) - 1]
    BY <1>2, <2>1
  <2> QED BY <1>1, <2>1, <2>2
<1>4. ASSUME NEW n \in Nat, n \in T PROVE n + 1 \in T
  <2> SUFFICES ASSUME c + 1 + (n + 1) \in Bins PROVE ClassMax[c] < ClassMax[c + 1 + (n + 1)]
    OBVIOUS
  <2> DEFINE e == c + 1 + (n + 1)
  <2>1. e \in Bins \ {0} /\ e - 1 = c + 1 + n /\ e - 1 \in Bins
    BY <1>1, BinFacts
  <2>2. ClassMax[e] > ClassMax[e - 1]
    <3> HIDE DEF e
    <3> QED BY <1>2, <2>1
  <2>3. ClassMax[c] < ClassMax[e - 1]
    BY <1>4, <2>1
  <2>4. ClassMax[c] \in Nat /\ ClassMax[e - 1] \in Nat /\ ClassMax[e] \in Nat
    BY <1>1, <2>1
  <2> HIDE DEF e
  <2>5. ClassMax[c] < ClassMax[e]
    BY <2>2, <2>3, <2>4
  <2> QED BY <2>5 DEF e
<1>5. d - c - 1 \in T
  <2>1. d - c - 1 \in Nat
    BY <1>1
  <2> HIDE DEF T
  <2> QED BY <1>3, <1>4, <2>1, SetInduction
<1>6. c + 1 + (d - c - 1) = d
  BY <1>1
<1> QED BY <1>5, <1>6

(* Each size has a class to be freed to: the first class is that of one    *)
(* granule.                                                                *)
LEMMA FreeClassIs ==
  ASSUME NEW n \in Sizes
  PROVE  FreeClass(n) \in Bins /\ ClassMax[FreeClass(n)] <= n
<1> DEFINE Last(m) == \E c \in 0 .. m : ClassMax[c] <= n /\ \A d \in c + 1 .. m : ClassMax[d] > n
           T == {m \in Nat : m \in Bins => Last(m)}
<1>1. /\ Bins = 0 .. NumBins - 1 /\ NumBins \in Nat /\ n \in Nat \ {0} /\ ClassOf[n] \in Bins
      /\ \A c \in Bins : c \in Nat /\ ClassMax[c] \in Nat
  BY BinFacts
<1>2. 0 \in T
  <2>1. ClassMax[0] <= n
    BY <1>1, LeaAssumption
  <2>2. 0 \in 0 .. 0 /\ \A d \in 0 + 1 .. 0 : ClassMax[d] > n
    OBVIOUS
  <2> QED BY <2>1, <2>2
<1>3. ASSUME NEW m \in Nat, m \in T PROVE m + 1 \in T
  <2> SUFFICES ASSUME m + 1 \in Bins PROVE Last(m + 1)
    OBVIOUS
  <2>1. m \in Bins /\ ClassMax[m + 1] \in Nat
    BY <1>1
  <2>2. PICK c \in 0 .. m : ClassMax[c] <= n /\ \A d \in c + 1 .. m : ClassMax[d] > n
    BY <1>3, <2>1
  <2>3. CASE ClassMax[m + 1] <= n
    <3>1. m + 1 \in 0 .. m + 1 /\ \A d \in (m + 1) + 1 .. m + 1 : ClassMax[d] > n
      OBVIOUS
    <3> QED BY <2>3, <3>1
  <2>4. CASE ClassMax[m + 1] > n
    <3>1. \A d \in c + 1 .. m + 1 : d = m + 1 \/ d \in c + 1 .. m
      OBVIOUS
    <3>2. c \in 0 .. m + 1
      OBVIOUS
    <3> QED BY <2>2, <2>4, <3>1, <3>2
  <2> QED BY <1>1, <2>1, <2>3, <2>4
<1>4. Last(ClassOf[n])
  <2>1. ClassOf[n] \in T
    <3> HIDE DEF T
    <3> QED BY <1>1, <1>2, <1>3, SetInduction
  <2> QED BY <1>1, <2>1
<1>5. FreeClass(n) \in 0 .. ClassOf[n] /\ ClassMax[FreeClass(n)] <= n
  BY <1>4 DEF FreeClass
<1> QED BY <1>1, <1>5

(* Any object of an arena has a class. *)
LEMMA ObjectSize ==
  ASSUME NEW S, NEW O, NEW X, Layout(S, O, X), NEW o \in O
  PROVE  Size(o) \in Sizes /\ Size(o) <= ClassMax[NumBins - 1] /\ FreeClass(Size(o)) \in Bins
<1>1. PICK s \in S : s[1] <= o[1] /\ o[2] <= s[2] /\ s[2] <= s[1] + ChunkSize
  BY DEF Layout, Adjoin
<1>2. s[1] \in Int /\ s[2] \in Int /\ o[1] \in Int /\ o[2] \in Int
  BY LayoutTypes
<1>3. Size(o) \in Nat \ {0} /\ Size(o) = o[2] - o[1] - 1
  BY EntryInBody DEF Size
<1>4. ChunkSize \in Nat /\ ClassMax[NumBins - 1] >= ChunkSize /\ Sizes = 1 .. ClassMax[NumBins - 1]
      /\ ClassMax[NumBins - 1] \in Nat
  BY LeaAssumption, BinFacts
<1>5. Size(o) \in Sizes /\ Size(o) <= ClassMax[NumBins - 1]
  BY <1>1, <1>2, <1>3, <1>4
<1> QED BY <1>5, FreeClassIs

-----------------------------------------------------------------------------
(* Bins: steps that link objects into lists and out of them.               *)

LEMMA EntryFacts ==
  ASSUME NEW S, NEW O, NEW X, Layout(S, O, X), NEW B, B \subseteq O, NEW c, NEW e \in Entries(B, c)
  PROVE  /\ e \in Granule /\ e \in Mem /\ ~IsTag(S, O, X, e)
         /\ \E q \in B : e = q[1] + 1 /\ FreeClass(Size(q)) = c /\ e \in Body(q)
<1>1. PICK q \in B : e = q[1] + 1 /\ FreeClass(Size(q)) = c
  BY DEF Entries
<1>2. q \in O \union X
  OBVIOUS
<1>3. e \in Body(q) /\ e \in Granule /\ e \in Mem
  BY <1>1, <1>2, EntryInBody
<1>4. ~IsTag(S, O, X, e)
  BY <1>2, <1>3, BodyHasNoTag
<1> QED BY <1>1, <1>3, <1>4

LEMMA SameEntry ==
  ASSUME NEW S, NEW O, NEW X, Layout(S, O, X), NEW o \in O, NEW q \in O, o[1] + 1 = q[1] + 1
  PROVE  o = q
<1>1. o[1] \in Int /\ q[1] \in Int
  BY LayoutTypes
<1> QED BY <1>1, HeadersApart

(* The ring of a bin lies in memory, and no two rings have a granule in    *)
(* common.                                                                 *)
LEMMA RingsApart ==
  ASSUME NEW S, NEW O, NEW X, Layout(S, O, X), NEW B, B \subseteq O, NEW c \in Bins, NEW d \in Bins, c # d,
         NEW e \in Entries(B, c) \union {Head(c)}
  PROVE  e \notin Entries(B, d) \union {Head(d)}
<1>1. e \in Entries(B, c) => e \in Granule /\ \E q \in B : e = q[1] + 1 /\ FreeClass(Size(q)) = c
  BY EntryFacts
<1>2. e \in Entries(B, d) => e \in Granule /\ \E q \in B : e = q[1] + 1 /\ FreeClass(Size(q)) = d
  BY EntryFacts
<1>3. Head(c) \notin Granule /\ Head(d) \notin Granule /\ Head(c) # Head(d)
  BY HeadsAreNoGranules
<1>4. CASE e = Head(c)
  BY <1>2, <1>3, <1>4
<1>5. CASE e \in Entries(B, c)
  <2>1. PICK q \in B : e = q[1] + 1 /\ FreeClass(Size(q)) = c
    BY <1>1, <1>5
  <2>2. \A y \in B : e = y[1] + 1 => y = q
    BY <2>1, SameEntry
  <2> QED BY <1>1, <1>2, <1>3, <1>5, <2>1, <2>2
<1> QED BY <1>4, <1>5

RingOf(B, c) == Entries(B, c) \union {Head(c)}

LEMMA RingInMem ==
  ASSUME NEW S, NEW O, NEW X, Layout(S, O, X), NEW B, B \subseteq O, NEW c \in Bins
  PROVE  RingOf(B, c) \subseteq Mem /\ Head(c) \notin Entries(B, c)
BY EntryFacts, HeadsAreNoGranules DEF RingOf

(* Memory may be written at A, and the map of bins as well. *)
MemWrites(h, k, A) ==
  /\ k \in HeapType /\ SameZone(h, k)
  /\ \A a \in Mem \ A : k.mem[a] = h.mem[a]

(* A step that writes the ring of a bin only, with the entry of an object  *)
(* that is in the bin before or after, is good if the rings and the map of *)
(* bins are.                                                               *)
LEMMA BinStep ==
  ASSUME NEW h, NEW k, NEW S, NEW O, NEW B, NEW M, NEW X, Good(h, S, O, B, M, X),
         NEW o \in O, NEW c \in Bins, MemWrites(h, k, RingOf(B, c) \union {o[1] + 1}),
         NEW D, D \subseteq O, Rings(k, D), BitsInv(k, D)
  PROVE  Good(k, S, O, D, M, X) /\ Keeps(h, k, (O \ (B \union {o})) \union X)
<1>1. Layout(S, O, X) /\ AllTags(h, S, O, M, X) /\ h \in HeapType /\ B \subseteq O /\ M \subseteq O
  BY GoodTags
<1>2. ASSUME NEW a \in RingOf(B, c) \union {o[1] + 1}
      PROVE  ~IsTag(S, O, X, a)
             /\ (a \in Granule => \E q \in B \union {o} : a \in Body(q))
  <2>1. CASE a = o[1] + 1
    <3>1. a \in Body(o)
      BY <1>1, <2>1, EntryInBody
    <3> QED BY <1>1, <3>1, BodyHasNoTag
  <2>2. CASE a = Head(c)
    BY <1>1, <2>2, HeadsAreNoGranules, TagsAreGranules
  <2>3. CASE a \in Entries(B, c)
    BY <1>1, <2>3, EntryFacts
  <2> QED BY <2>1, <2>2, <2>3 DEF RingOf
<1>3. AllTags(k, S, O, M, X)
  <2>1. ASSUME NEW a, IsTag(S, O, X, a) PROVE k.mem[a] = h.mem[a]
    <3>1. a \in Mem
      BY <1>1, <2>1, TagsAreGranules
    <3>2. a \notin RingOf(B, c) \union {o[1] + 1}
      BY <1>2, <2>1
    <3> QED BY <3>1, <3>2 DEF MemWrites
  <2> QED BY <1>1, <2>1, TagsFrame
<1>4. Keeps(h, k, (O \ (B \union {o})) \union X)
  <2> SUFFICES ASSUME NEW u \in (O \ (B \union {o})) \union X, NEW a \in Body(u)
               PROVE  k.mem[a] = h.mem[a]
    BY DEF Keeps
  <2>1. u \in O \union X
    OBVIOUS
  <2>2. a \in Mem /\ a \in Granule
    BY <1>1, <2>1, BodyHasNoTag
  <2>3. ASSUME NEW q \in B \union {o} PROVE a \notin Body(q)
    <3>1. q \in O \union X /\ q # u
      <4>1. CASE u \in X
        <5>1. u \notin O
          <6>1. u[1] \in Int /\ u[2] \in Int /\ u[1] < u[2]
            BY <1>1, <2>1, LayoutTypes
          <6> QED BY <1>1, <4>1, <6>1, NotMapped
        <5> QED BY <1>1, <5>1
      <4>2. CASE u \in O \ (B \union {o})
        BY <1>1, <4>2
      <4> QED BY <4>1, <4>2
    <3> QED BY <1>1, <2>1, <3>1, BodiesApart
  <2>4. a \notin RingOf(B, c) \union {o[1] + 1}
    BY <1>2, <2>2, <2>3
  <2> QED BY <2>2, <2>4 DEF MemWrites
<1>5. MapsInv(k, S, X) /\ SlopInv(k, S) /\ ArenaInv(k, S)
  <2>1. MapsInv(h, S, X) /\ SlopInv(h, S) /\ ArenaInv(h, S) /\ SameZone(h, k)
    BY DEF Good, MemWrites
  <2> QED BY <2>1, ZoneFrame
<1> QED BY <1>1, <1>3, <1>4, <1>5 DEF Good, AllTags, MemWrites

(* Entry::remove. *)
LEMMA RemoveRings ==
  ASSUME NEW h, NEW S, NEW O, NEW B, NEW M, NEW X, Good(h, S, O, B, M, X), NEW o \in B,
         NEW k, k = Unlink(h, o[1] + 1)
  PROVE  /\ Writes(h, k, RingOf(B, FreeClass(Size(o)))) /\ Rings(k, B \ {o})
         /\ FreeClass(Size(o)) \in Bins
<1> DEFINE c == FreeClass(Size(o))
           p == o[1] + 1
           E == Entries(B, c)
           hd == Head(c)
<1>1. Layout(S, O, X) /\ h \in HeapType /\ B \subseteq O /\ o \in O
  BY GoodTags
<1>2. c \in Bins
  BY <1>1, ObjectSize
<1>3. p \in E
  BY DEF Entries
<1>4. RingOf(B, c) \subseteq Mem /\ RingOf(B, c) = E \union {hd} /\ hd \notin E
  BY <1>1, <1>2, RingInMem DEF RingOf
<1>5. IsRing(h.mem, E, hd)
  BY <1>2 DEF Good, Rings
<1> HIDE DEF c, p, E, hd
<1>6. h.mem[p][1] \in E \union {hd} /\ h.mem[p][2] \in E \union {hd}
  BY <1>3, <1>5, RingLinks
<1>7. /\ Writes(h, k, {h.mem[p][1], h.mem[p][2]})
      /\ \A a \in Mem : /\ k.mem[a][2] = IF a = h.mem[p][1] THEN h.mem[p][2] ELSE h.mem[a][2]
                        /\ k.mem[a][1] = IF a = h.mem[p][2] THEN h.mem[p][1] ELSE h.mem[a][1]
  <2>1. k = Unlink(h, p)
    BY DEF p
  <2> QED BY <1>1, <1>3, <1>4, <1>6, <2>1, UnlinkIs
<1>8. Writes(h, k, RingOf(B, c))
  BY <1>4, <1>6, <1>7 DEF Writes
<1>9. IsRing(k.mem, E \ {p}, hd)
  <2>1. Removed(h.mem, k.mem, E, hd, p)
    BY <1>4, <1>7 DEF Removed
  <2> QED BY <1>3, <1>4, <1>5, <2>1, RingRemove
<1>10. Entries(B \ {o}, c) = E \ {p}
  <2>1. \A q \in B : q[1] + 1 = p => q = o
    BY <1>1, SameEntry DEF p
  <2> QED BY <2>1 DEF Entries, E, p
<1>11. ASSUME NEW d \in Bins PROVE IsRing(k.mem, Entries(B \ {o}, d), Head(d))
  <2>1. CASE d = c
    BY <1>9, <1>10, <2>1 DEF hd
  <2>2. CASE d # c
    <3>1. Entries(B \ {o}, d) = Entries(B, d)
      BY <2>2 DEF Entries, c
    <3>2. IsRing(h.mem, Entries(B, d), Head(d))
      BY DEF Good, Rings
    <3>3. ASSUME NEW e \in Entries(B, d) \union {Head(d)} PROVE k.mem[e] = h.mem[e]
      <4>1. e \notin RingOf(B, c)
        BY <1>1, <1>2, <2>2, RingsApart DEF RingOf
      <4>2. e \in Mem
        BY <1>1, RingInMem DEF RingOf
      <4> QED BY <1>8, <4>1, <4>2 DEF Writes
    <3> QED BY <3>1, <3>2, <3>3, RingSame
  <2> QED BY <2>1, <2>2
<1> QED BY <1>2, <1>8, <1>11 DEF Rings, c

LEMMA RemoveGood ==
  ASSUME NEW h, NEW S, NEW O, NEW B, NEW M, NEW X, Good(h, S, O, B, M, X), NEW o \in B,
         NEW k, k = Unlink(h, o[1] + 1)
  PROVE  /\ Good(k, S, O, B \ {o}, M, X)
         /\ Keeps(h, k, (O \ B) \union X) /\ SameZone(h, k) /\ k.binmap = h.binmap
<1> DEFINE c == FreeClass(Size(o))
<1>1. Writes(h, k, RingOf(B, c)) /\ Rings(k, B \ {o}) /\ c \in Bins
  BY RemoveRings
<1>2. B \subseteq O
  BY GoodTags
<1> HIDE DEF c
<1>3. MemWrites(h, k, RingOf(B, c) \union {o[1] + 1})
  BY <1>1 DEF Writes, MemWrites
<1>4. BitsInv(k, B \ {o})
  <2>1. BitsInv(h, B) /\ k.binmap = h.binmap
    BY <1>1 DEF Good, Writes
  <2> QED BY <2>1 DEF BitsInv
<1>5. Good(k, S, O, B \ {o}, M, X) /\ Keeps(h, k, (O \ (B \union {o})) \union X)
  <2>1. B \ {o} \subseteq O /\ o \in O
    BY <1>2
  <2> QED BY <1>1, <1>3, <1>4, <2>1, BinStep
<1>6. B \union {o} = B
  OBVIOUS
<1> QED BY <1>1, <1>5, <1>6 DEF Writes

LEMMA BitFacts ==
  ASSUME NEW c \in Bins
  PROVE  Block(c) \in MapBlocks /\ Block(c) \in Nat /\ Bit(c) \in 0 .. IntBits - 1
<1>1. c \in Nat /\ IntBits \in Nat \ {0} /\ LongBits \in Nat \ {0}
  BY BinFacts, LeaAssumption
<1>2. Block(c) \in Nat
  BY <1>1, Division DEF Block
<1>3. c % LongBits \in Nat
  BY <1>1, Division
<1>4. Bit(c) \in 0 .. IntBits - 1
  BY <1>1, <1>3, Division DEF Bit
<1> QED BY <1>2, <1>4 DEF MapBlocks

SetBit(h, c) == [h EXCEPT !.binmap[Block(c)] = @ \union {Bit(c)}]

BitSet(h, k, c) ==
  /\ k \in HeapType /\ SameZone(h, k) /\ k.mem = h.mem
  /\ \A j \in MapBlocks : k.binmap[j] = IF j = Block(c) THEN h.binmap[j] \union {Bit(c)} ELSE h.binmap[j]

LEMMA SetBitIs ==
  ASSUME NEW h \in HeapType, NEW c \in Bins
  PROVE  BitSet(h, SetBit(h, c), c)
<1>1. Block(c) \in MapBlocks /\ Bit(c) \in Int
  BY BitFacts, LeaAssumption
<1>2. SetBit(h, c) = [h EXCEPT !.binmap = [h.binmap EXCEPT ![Block(c)] = h.binmap[Block(c)] \union {Bit(c)}]]
  BY DEF SetBit
<1> DEFINE m == [h.binmap EXCEPT ![Block(c)] = h.binmap[Block(c)] \union {Bit(c)}]
<1>3. /\ m \in [MapBlocks -> SUBSET Int]
      /\ \A j \in MapBlocks : m[j] = IF j = Block(c) THEN h.binmap[j] \union {Bit(c)} ELSE h.binmap[j]
  <2>1. h.binmap \in [MapBlocks -> SUBSET Int]
    BY DEF HeapType
  <2>2. h.binmap[Block(c)] \union {Bit(c)} \in SUBSET Int
    BY <1>1, <2>1
  <2> QED BY <1>1, <2>1, <2>2
<1> HIDE DEF m
<1>4. SetBit(h, c) = [h EXCEPT !.binmap = m]
  BY <1>2 DEF m
<1>5. /\ SetBit(h, c) \in HeapType /\ SameZone(h, SetBit(h, c)) /\ SetBit(h, c).mem = h.mem
      /\ SetBit(h, c).binmap = m
  BY <1>3, <1>4 DEF HeapType, SameZone
<1> QED BY <1>3, <1>5 DEF BitSet

LEMMA SegFreeIs ==
  ASSUME NEW h, NEW S, NEW O, NEW B, NEW M, NEW X, Good(h, S, O, B, M, X), NEW o \in O
  PROVE  SegFree(h, o[1] + 1) = SetBit(Insert(h, FreeClass(Size(o)), o[1] + 1), FreeClass(Size(o)))
<1>1. GetHeader(o[1] + 1) = o[1] /\ GetSize(h, o[1]) = Size(o)
  BY NextHeaderIs
<1>2. Size(o) <= ClassMax[NumBins - 1] /\ Size(o) \in Nat /\ ClassMax[NumBins - 1] \in Nat
  BY GoodTags, ObjectSize, BinFacts
<1>3. ~(Size(o) > ClassMax[NumBins - 1])
  BY <1>2
<1> QED BY <1>1, <1>3 DEF SegFree, SetBit

LEMMA InsertRings ==
  ASSUME NEW h, NEW S, NEW O, NEW B, NEW M, NEW X, Good(h, S, O, B, M, X), NEW o \in O \ B,
         NEW k, k = Insert(h, FreeClass(Size(o)), o[1] + 1)
  PROVE  /\ Writes(h, k, RingOf(B, FreeClass(Size(o))) \union {o[1] + 1}) /\ Rings(k, B \union {o})
         /\ FreeClass(Size(o)) \in Bins
<1> DEFINE c == FreeClass(Size(o))
           p == o[1] + 1
           E == Entries(B, c)
           hd == Head(c)
<1>1. Layout(S, O, X) /\ h \in HeapType /\ B \subseteq O /\ o \in O
  BY GoodTags
<1>2. c \in Bins
  BY <1>1, ObjectSize
<1>3. \A d : p \notin Entries(B, d)
  BY <1>1, SameEntry DEF Entries
<1>4. RingOf(B, c) \subseteq Mem /\ RingOf(B, c) = E \union {hd} /\ hd \notin E
  BY <1>1, <1>2, RingInMem DEF RingOf
<1>5. IsRing(h.mem, E, hd)
  BY <1>2 DEF Good, Rings
<1>6. p \in Mem /\ p \in Granule
  BY <1>1, EntryInBody
<1>7. \A d \in Bins : p # Head(d)
  BY <1>6, HeadsAreNoGranules
<1> HIDE DEF c, p, E, hd
<1>8. First(h, c) = h.mem[hd][2] /\ First(h, c) \in E \union {hd} /\ p \notin E \union {hd}
  BY <1>2, <1>3, <1>5, <1>7, RingLinks DEF First, hd, E
<1>9. /\ Writes(h, k, {p, hd, First(h, c)})
      /\ k.mem[p][1] = hd /\ k.mem[p][2] = First(h, c)
      /\ \A a \in Mem \ {p} : /\ k.mem[a][2] = IF a = hd THEN p ELSE h.mem[a][2]
                              /\ k.mem[a][1] = IF a = First(h, c) THEN p ELSE h.mem[a][1]
  <2>1. k = Insert(h, c, p)
    BY DEF c, p
  <2>2. Head(c) \in Mem /\ First(h, c) \in Mem /\ p # Head(c) /\ p # First(h, c)
    BY <1>4, <1>8 DEF hd
  <2> QED BY <1>1, <1>6, <2>1, <2>2, InsertIs DEF hd
<1>10. Writes(h, k, RingOf(B, c) \union {p})
  BY <1>4, <1>8, <1>9 DEF Writes
<1>11. IsRing(k.mem, E \union {p}, hd)
  <2>1. \A e \in E \union {hd} : e \in Mem \ {p}
    BY <1>4, <1>8
  <2>2. Inserted(h.mem, k.mem, E, hd, p)
    BY <1>8, <1>9, <2>1 DEF Inserted
  <2> QED BY <1>5, <1>8, <2>2, RingInsert
<1>12. Entries(B \union {o}, c) = E \union {p}
  BY DEF Entries, E, p, c
<1>13. ASSUME NEW d \in Bins PROVE IsRing(k.mem, Entries(B \union {o}, d), Head(d))
  <2>1. CASE d = c
    BY <1>11, <1>12, <2>1 DEF hd
  <2>2. CASE d # c
    <3>1. Entries(B \union {o}, d) = Entries(B, d)
      BY <2>2 DEF Entries, c
    <3>2. IsRing(h.mem, Entries(B, d), Head(d))
      BY DEF Good, Rings
    <3>3. ASSUME NEW e \in Entries(B, d) \union {Head(d)} PROVE k.mem[e] = h.mem[e]
      <4>1. e \notin RingOf(B, c) /\ e # p
        BY <1>1, <1>2, <1>3, <1>7, <2>2, RingsApart DEF RingOf
      <4>2. e \in Mem
        BY <1>1, RingInMem DEF RingOf
      <4> QED BY <1>10, <4>1, <4>2 DEF Writes
    <3> QED BY <3>1, <3>2, <3>3, RingSame
  <2> QED BY <2>1, <2>2
<1>14. Rings(k, B \union {o})
  BY <1>13 DEF Rings
<1> QED BY <1>2, <1>10, <1>14 DEF c, p

(* An object that is in no bin goes to that of its class. *)
LEMMA BinGood ==
  ASSUME NEW h, NEW S, NEW O, NEW B, NEW M, NEW X, Good(h, S, O, B, M, X), NEW o \in O \ B,
         NEW k, k = SegFree(h, o[1] + 1)
  PROVE  /\ Good(k, S, O, B \union {o}, M, X)
         /\ Keeps(h, k, (O \ (B \union {o})) \union X) /\ SameZone(h, k)
<1> DEFINE c == FreeClass(Size(o))
           l == Insert(h, c, o[1] + 1)
<1>1. /\ Writes(h, l, RingOf(B, c) \union {o[1] + 1}) /\ Rings(l, B \union {o})
      /\ c \in Bins
  BY InsertRings
<1>2. B \subseteq O
  BY GoodTags
<1>3. k = SetBit(l, c)
  BY SegFreeIs
<1>4. l \in HeapType /\ SameZone(h, l) /\ l.binmap = h.binmap
  BY <1>1 DEF Writes
<1>5. /\ k \in HeapType /\ SameZone(l, k) /\ k.mem = l.mem
      /\ \A j \in MapBlocks : k.binmap[j] =
           IF j = Block(c) THEN h.binmap[j] \union {Bit(c)} ELSE h.binmap[j]
  <2>1. BitSet(l, k, c)
    <3> HIDE DEF l, c
    <3> QED BY <1>1, <1>3, <1>4, SetBitIs
  <2> QED BY <1>4, <2>1 DEF BitSet
<1>6. Rings(k, B \union {o})
  BY <1>1, <1>5 DEF Rings
<1>7. BitsInv(k, B \union {o})
  <2>1. BitsInv(h, B)
    BY DEF Good
  <2>2. ASSUME NEW j \in MapBlocks, NEW b \in k.binmap[j] PROVE \E d \in Bins : Block(d) = j /\ Bit(d) = b
    <3>1. CASE b \in h.binmap[j]
      BY <2>1, <3>1 DEF BitsInv
    <3>2. CASE b \notin h.binmap[j]
      BY <1>1, <1>5, <2>2, <3>2
    <3> QED BY <3>1, <3>2
  <2>3. ASSUME NEW q \in B \union {o}, HasOwnBit(FreeClass(Size(q)))
        PROVE  Bit(FreeClass(Size(q))) \in k.binmap[Block(FreeClass(Size(q)))]
    <3>1. CASE q = o
      BY <1>1, <1>5, <3>1, BitFacts
    <3>2. CASE q \in B
      <4>1. FreeClass(Size(q)) \in Bins
        BY <1>2, <3>2, GoodTags, ObjectSize
      <4>2. Bit(FreeClass(Size(q))) \in h.binmap[Block(FreeClass(Size(q)))]
        BY <2>1, <2>3, <3>2 DEF BitsInv
      <4> QED BY <1>5, <4>1, <4>2, BitFacts
    <3> QED BY <3>1, <3>2
  <2> QED BY <2>2, <2>3 DEF BitsInv
<1>8. MemWrites(h, k, RingOf(B, c) \union {o[1] + 1})
  BY <1>1, <1>4, <1>5 DEF Writes, MemWrites, SameZone
<1>9. Good(k, S, O, B \union {o}, M, X) /\ Keeps(h, k, (O \ (B \union {o})) \union X)
  <2>1. B \union {o} \subseteq O
    BY <1>2
  <2> HIDE DEF c, l
  <2> QED BY <1>1, <1>6, <1>7, <1>8, <2>1, BinStep
<1> QED BY <1>8, <1>9 DEF MemWrites

-----------------------------------------------------------------------------
(* Layouts grow.                                                           *)

(* The last object of run t of T is new and starts at g: it continues a    *)
(* run of S, or t is new too.                                              *)
Grows(S, T, X, t, g) ==
  /\ t \in T /\ t \in Granule \X Granule /\ t \notin S
  /\ \A s \in T : s = t \/ s \in S
  /\ \A s \in S : s \in T \/ s = <<t[1], g>>
  /\ t[1] = g \/ <<t[1], g>> \in S
  /\ g \in Granule /\ t[1] <= g /\ g + 2 <= t[2]
  /\ 3 <= t[1] /\ t[2] < MemTop /\ t[2] <= t[1] + ChunkSize
  /\ \A s \in T : s # t => s[2] + 1 < t[1] - 1 \/ t[2] + 1 < s[1] - 1
  /\ \A x \in X : t[2] + 1 < x[1] \/ x[2] < t[1] - 1

New(t, g) == <<g, t[2]>>

LEMMA NewApart ==
  ASSUME NEW S, NEW O, NEW X, Layout(S, O, X), NEW T, NEW t, NEW g, Grows(S, T, X, t, g), NEW o \in O
  PROVE  o[2] <= g \/ t[2] + 1 < o[1] - 1
<1>1. PICK s \in S : s[1] <= o[1] /\ o[2] <= s[2]
  BY DEF Layout, Adjoin
<1>2. /\ o[1] \in Int /\ o[2] \in Int /\ s[1] \in Int /\ s[2] \in Int /\ s[1] < s[2]
      /\ o[1] < o[2]
  BY LayoutTypes
<1>3. t[1] \in Int /\ t[2] \in Int /\ g \in Int /\ t[1] <= g
  BY DEF Grows, Granule
<1>4. CASE s \in T
  <2>1. s[2] + 1 < t[1] - 1 \/ t[2] + 1 < s[1] - 1
    BY <1>4 DEF Grows
  <2> QED BY <1>1, <1>2, <1>3, <2>1
<1>5. CASE s = <<t[1], g>>
  BY <1>1, <1>2, <1>3, <1>5
<1> QED BY <1>4, <1>5 DEF Grows

LEMMA GrownAdjoin ==
  ASSUME NEW S, NEW O, NEW X, Layout(S, O, X), NEW T, NEW t, NEW g, Grows(S, T, X, t, g)
  PROVE  Adjoin(T, O \union {New(t, g)})
<1> DEFINE u == New(t, g)
           P == O \union {u}
           old == <<t[1], g>>
<1>1. u[1] = g /\ u[2] = t[2] /\ old[1] = t[1] /\ old[2] = g /\ t \in T
      /\ t[1] \in Int /\ t[2] \in Int /\ g \in Int /\ t[1] <= g /\ g + 2 <= t[2]
  BY DEF New, Grows, Granule
<1>2. \A o \in P : o \in O \/ o = u
  OBVIOUS
<1>3. /\ \A o \in O : \E s \in S : s[1] <= o[1] /\ o[2] <= s[2]
      /\ \A o \in O : (\E s \in S : o[1] = s[1]) \/ \E p \in O : p[2] = o[1]
      /\ \A o \in O : (\E s \in S : o[2] = s[2]) \/ \E p \in O : p[1] = o[2]
      /\ \A s \in S : (\E o \in O : o[1] = s[1]) /\ \E o \in O : o[2] = s[2]
  BY DEF Layout, Adjoin
<1>4. u \in P /\ O \subseteq P
  OBVIOUS
<1>5. \A s \in S : s \in T \/ s = old
  BY DEF Grows
<1>6. \A s \in T : s \in S \/ s = t
  BY DEF Grows
<1>7. t[1] = g \/ old \in S
  BY DEF Grows
<1> HIDE DEF u, P, old
<1>8. ASSUME NEW o \in P PROVE \E s \in T : s[1] <= o[1] /\ o[2] <= s[2]
  <2>1. CASE o = u
    BY <1>1, <2>1
  <2>2. CASE o \in O
    <3>1. PICK s \in S : s[1] <= o[1] /\ o[2] <= s[2]
      BY <1>3, <2>2
    <3>2. CASE s = old
      <4>1. o[2] \in Int
        BY <2>2, LayoutTypes
      <4>2. t[1] <= o[1] /\ o[2] <= t[2]
        BY <1>1, <3>1, <3>2, <4>1
      <4> QED BY <1>1, <4>2
    <3> QED BY <1>5, <3>1, <3>2
  <2> QED BY <1>2, <2>1, <2>2
<1>9. ASSUME NEW o \in P PROVE (\E s \in T : o[1] = s[1]) \/ \E p \in P : p[2] = o[1]
  <2>1. CASE o = u
    <3>1. CASE t[1] = g
      BY <1>1, <2>1, <3>1
    <3>2. CASE old \in S
      BY <1>1, <1>3, <1>4, <2>1, <3>2
    <3> QED BY <1>7, <3>1, <3>2
  <2>2. CASE o \in O
    <3>1. ASSUME NEW s \in S, o[1] = s[1] PROVE \E r \in T : o[1] = r[1]
      BY <1>1, <1>5, <3>1
    <3> QED BY <1>3, <1>4, <2>2, <3>1
  <2> QED BY <1>2, <2>1, <2>2
<1>10. ASSUME NEW o \in P PROVE (\E s \in T : o[2] = s[2]) \/ \E p \in P : p[1] = o[2]
  <2>1. CASE o = u
    BY <1>1, <2>1
  <2>2. CASE o \in O
    <3>1. ASSUME NEW s \in S, o[2] = s[2] PROVE (\E r \in T : o[2] = r[2]) \/ u[1] = o[2]
      BY <1>1, <1>5, <3>1
    <3> QED BY <1>3, <1>4, <2>2, <3>1
  <2> QED BY <1>2, <2>1, <2>2
<1>11. ASSUME NEW s \in T PROVE (\E o \in P : o[1] = s[1]) /\ \E o \in P : o[2] = s[2]
  <2>1. CASE s \in S
    BY <1>3, <1>4, <2>1
  <2>2. CASE s = t
    <3>1. \E o \in P : o[1] = t[1]
      BY <1>1, <1>3, <1>4, <1>7
    <3> QED BY <1>1, <1>4, <2>2, <3>1
  <2> QED BY <1>6, <2>1, <2>2
<1>12. Adjoin(T, P)
  BY <1>8, <1>9, <1>10, <1>11 DEF Adjoin
<1> QED BY <1>12 DEF P, u

LEMMA GrownLayout ==
  ASSUME NEW S, NEW O, NEW X, Layout(S, O, X), NEW T, NEW t, NEW g, Grows(S, T, X, t, g)
  PROVE  /\ Layout(T, O \union {New(t, g)}, X) /\ New(t, g) \notin O
         /\ New(t, g)[1] = g /\ New(t, g)[2] = t[2]
<1> DEFINE u == New(t, g)
           P == O \union {u}
<1>1. u[1] = g /\ u[2] = t[2] /\ t \in T /\ t[1] \in Int /\ t[2] \in Int /\ g \in Int
      /\ u \in Granule \X Granule /\ t[1] <= g /\ g + 2 <= t[2]
  BY DEF New, Grows, Granule
<1>2. Adjoin(T, P)
  BY GrownAdjoin
<1>3. \A o \in P : o \in O \/ o = u
  OBVIOUS
<1>4. ASSUME NEW o \in O PROVE o # u /\ (o[2] <= u[1] \/ u[2] <= o[1])
  <2>1. o[1] \in Int /\ o[2] \in Int /\ o[1] < o[2]
    BY LayoutTypes
  <2>2. o[2] <= g \/ t[2] + 1 < o[1] - 1
    BY NewApart
  <2> QED BY <1>1, <2>1, <2>2
<1>5. u \notin O
  BY <1>4
<1> HIDE DEF u
<1>6. P \subseteq Granule \X Granule /\ T \subseteq Granule \X Granule
  BY <1>1 DEF Layout, Grows
<1>7. \A o \in P : o[1] + 2 <= o[2]
  BY <1>1, <1>3 DEF Layout
<1>8. \A o, p \in P : o # p => o[2] <= p[1] \/ p[2] <= o[1]
  <2>1. \A o, p \in O : o # p => o[2] <= p[1] \/ p[2] <= o[1]
    BY DEF Layout
  <2> QED BY <1>3, <1>4, <2>1
<1>9. \A s \in T : 3 <= s[1] /\ s[1] < s[2] /\ s[2] < MemTop /\ s[2] <= s[1] + ChunkSize
  <2>1. t[1] < t[2] /\ 3 <= t[1] /\ t[2] < MemTop /\ t[2] <= t[1] + ChunkSize
    BY <1>1 DEF Grows
  <2>2. \A s \in T : s = t \/ s \in S
    BY DEF Grows
  <2> QED BY <2>1, <2>2 DEF Layout
<1>10. \A r, s \in T : r # s => r[2] + 1 < s[1] - 1 \/ s[2] + 1 < r[1] - 1
  <2>1. \A s \in T : s = t \/ s \in S
    BY DEF Grows
  <2>2. \A s \in T : s # t => s[2] + 1 < t[1] - 1 \/ t[2] + 1 < s[1] - 1
    BY DEF Grows
  <2>3. \A r, s \in S : r # s => r[2] + 1 < s[1] - 1 \/ s[2] + 1 < r[1] - 1
    BY DEF Layout
  <2> QED BY <2>1, <2>2, <2>3
<1>11. \A s \in T : \A x \in X : s[2] + 1 < x[1] \/ x[2] < s[1] - 1
  BY DEF Layout, Grows
<1>12. Layout(T, P, X)
  BY <1>2, <1>6, <1>7, <1>8, <1>9, <1>10, <1>11 DEF Layout
<1> QED BY <1>1, <1>5, <1>12 DEF u

(* The header of a new object of n granules at g and of the empty one      *)
(* behind it, at next.                                                     *)
Tagged(z, g, next, n) ==
  LET sized == SetPrevSize(SetSize(z, g, n), next, n)
      plain == [sized EXCEPT !.mem[g][1] = Pack(IsPrevFree(sized, g), FALSE, GetPrevSize(sized, g))]
  IN  SetPrevFree(SetSize(plain, next, 0), next + 1, FALSE)

TagsMade(z, k, g, next, n) ==
  /\ Writes(z, k, {g, next, next + 1})
  /\ GetSize(k, g) = n /\ ~IsMmapped(k, g) /\ GetPrevSize(k, g) = GetPrevSize(z, g)
  /\ IsPrevFree(k, g) <=> IsPrevFree(z, g)
  /\ GetSize(k, next) = 0 /\ GetPrevSize(k, next) = n
  /\ IsPrevFree(k, next) <=> IsPrevFree(z, next)
  /\ ~IsPrevFree(k, next + 1)

LEMMA SameElsewhere ==
  ASSUME NEW h, NEW k, NEW A, Writes(h, k, A), NEW g \in Mem, g \notin A
  PROVE  SameTags(h, k, g) /\ GetSize(k, g) = GetSize(h, g)
<1>1. k.mem[g] = h.mem[g]
  BY DEF Writes
<1> QED BY <1>1, SameGranule

LEMMA TaggedIs ==
  ASSUME NEW z \in HeapType, NEW g \in Mem, NEW next \in Mem, next + 1 \in Mem, NEW n \in Int, g < next
  PROVE  TagsMade(z, Tagged(z, g, next, n), g, next, n)
<1> DEFINE z1 == SetSize(z, g, n)
           z2 == SetPrevSize(z1, next, n)
           f == IsPrevFree(z2, g)
           s == GetPrevSize(z2, g)
           z3 == SetTags(z2, g, f, FALSE, s)
           z4 == SetSize(z3, next, 0)
           k == SetPrevFree(z4, next + 1, FALSE)
<1>0. k = Tagged(z, g, next, n)
  BY DEF Tagged, SetTags
<1>1. g # next /\ g # next + 1 /\ next # next + 1 /\ 0 \in Int
  BY MemInt
<1>2. /\ Writes(z, z1, {g}) /\ SameTags(z, z1, g) /\ GetSize(z1, g) = n /\ z1 \in HeapType
  BY SetSizeIs DEF Writes
<1> HIDE DEF z1
<1>3. /\ Writes(z1, z2, {next}) /\ GetPrevSize(z2, next) = n /\ z2 \in HeapType
      /\ IsPrevFree(z2, next) <=> IsPrevFree(z1, next)
  BY <1>2, SetPrevSizeIs DEF Writes
<1> HIDE DEF z2
<1>4. f \in BOOLEAN /\ s \in Int /\ FALSE \in BOOLEAN
  BY <1>3, TagTypes
<1> HIDE DEF f, s
<1>5. TagsSet(z2, z3, g, f, FALSE, s)
  BY <1>3, <1>4, SetTagsIs, Zenon
<1> HIDE DEF z3
<1>6. /\ Writes(z2, z3, {g}) /\ GetSize(z3, g) = GetSize(z2, g) /\ ~IsMmapped(z3, g)
      /\ GetPrevSize(z3, g) = s /\ z3 \in HeapType
      /\ IsPrevFree(z3, g) <=> f
  BY <1>5, Zenon DEF TagsSet, Writes
<1>7. /\ Writes(z3, z4, {next}) /\ SameTags(z3, z4, next) /\ GetSize(z4, next) = 0 /\ z4 \in HeapType
  BY <1>1, <1>6, SetSizeIs DEF Writes
<1> HIDE DEF z4
<1>8. /\ Writes(z4, k, {next + 1}) /\ ~IsPrevFree(k, next + 1)
  BY <1>4, <1>7, SetPrevFreeIs
<1> HIDE DEF k
<1>9. /\ SameTags(z1, z2, g) /\ GetSize(z2, g) = GetSize(z1, g)
      /\ SameTags(z3, z4, g) /\ GetSize(z4, g) = GetSize(z3, g)
      /\ SameTags(z4, k, g) /\ GetSize(k, g) = GetSize(z4, g)
  BY <1>1, <1>3, <1>7, <1>8, SameElsewhere
<1>10. /\ SameTags(z, z1, next) /\ SameTags(z2, z3, next)
       /\ SameTags(z4, k, next) /\ GetSize(k, next) = GetSize(z4, next)
  BY <1>1, <1>2, <1>6, <1>8, SameElsewhere
<1>11. GetSize(k, g) = n /\ ~IsMmapped(k, g)
  BY <1>2, <1>6, <1>9 DEF SameTags
<1>12. GetPrevSize(k, g) = GetPrevSize(z, g)
  BY <1>2, <1>6, <1>9 DEF SameTags, s
<1>13. IsPrevFree(k, g) <=> IsPrevFree(z, g)
  BY <1>2, <1>6, <1>9 DEF SameTags, f
<1>14. /\ GetSize(k, next) = 0 /\ GetPrevSize(k, next) = n
       /\ IsPrevFree(k, next) <=> IsPrevFree(z, next)
  BY <1>3, <1>7, <1>10 DEF SameTags
<1>15. Writes(z, k, {g, next, next + 1})
  <2>1. Writes(z, z2, {g} \union {next})
    BY <1>2, <1>3, WritesBoth
  <2>2. Writes(z, z3, ({g} \union {next}) \union {g})
    BY <1>6, <2>1, WritesBoth
  <2>3. Writes(z, z4, (({g} \union {next}) \union {g}) \union {next})
    BY <1>7, <2>2, WritesBoth
  <2>4. Writes(z, k, ((({g} \union {next}) \union {g}) \union {next}) \union {next + 1})
    BY <1>8, <2>3, WritesBoth
  <2>5. ((({g} \union {next}) \union {g}) \union {next}) \union {next + 1} = {g, next, next + 1}
    OBVIOUS
  <2> QED BY <2>4, <2>5
<1>16. TagsMade(z, k, g, next, n)
  BY <1>8, <1>11, <1>12, <1>13, <1>14, <1>15 DEF TagsMade
<1> QED BY <1>0, <1>16

(* What the memory behind a run, or of a new run, has at g.                *)
RunBegins(z, t, g) ==
  t[1] = g => GetSize(z, g - 1) # 0 /\ GetPrevSize(z, g) = 0 /\ ~IsPrevFree(z, g)

LEMMA GrownTags ==
  ASSUME NEW z, NEW k, NEW S, NEW O, NEW M, NEW X, Layout(S, O, X), M \subseteq O, AllTags(z, S, O, M, X),
         NEW T, NEW t, NEW g, Grows(S, T, X, t, g), RunBegins(z, t, g),
         TagsMade(z, k, g, t[2], Size(New(t, g))),
         NEW N \in SUBSET (O \union {New(t, g)}),
         \A p \in O \union {New(t, g)} : p \in N <=> IF p \in O THEN p \in M ELSE IsPrevFree(z, t[2])
  PROVE  AllTags(k, T, O \union {New(t, g)}, N, X)
<1> DEFINE u == New(t, g)
           P == O \union {u}
           e == t[2]
<1>1. /\ Layout(T, P, X) /\ u \notin O /\ u[1] = g /\ u[2] = e
  BY GrownLayout
<1>2. /\ Writes(z, k, {g, e, e + 1})
      /\ GetSize(k, g) = Size(u) /\ ~IsMmapped(k, g) /\ GetPrevSize(k, g) = GetPrevSize(z, g)
      /\ IsPrevFree(k, g) <=> IsPrevFree(z, g)
      /\ GetSize(k, e) = 0 /\ GetPrevSize(k, e) = Size(u)
      /\ IsPrevFree(k, e) <=> IsPrevFree(z, e)
      /\ ~IsPrevFree(k, e + 1)
  BY DEF TagsMade
<1>3. /\ t \in T /\ t[1] \in Int /\ e \in Int /\ g \in Int /\ t[1] <= g /\ g + 2 <= e /\ e < MemTop
      /\ 3 <= t[1] /\ MemTop \in Nat
  BY LeaAssumption DEF Grows, Granule
<1>4. \A p \in P : p \in O \/ p = u
  OBVIOUS
<1>5. \A p \in P : p \in N <=> IF p \in O THEN p \in M ELSE IsPrevFree(z, e)
  OBVIOUS
<1> HIDE DEF u, P, e
<1>6. ASSUME NEW a \in Mem, a \notin {g, e, e + 1}
      PROVE  SameTags(z, k, a) /\ GetSize(k, a) = GetSize(z, a)
  BY <1>2, <1>6, SameElsewhere
<1>7. Tags(k, P, N)
  <2>1. ASSUME NEW p \in O
        PROVE  /\ GetSize(k, p[1]) = Size(p) /\ ~IsMmapped(k, p[1])
               /\ GetPrevSize(k, p[2]) = Size(p)
               /\ IsPrevFree(k, p[2]) <=> p \in M
    <3>1. /\ GetSize(z, p[1]) = Size(p) /\ ~IsMmapped(z, p[1])
          /\ GetPrevSize(z, p[2]) = Size(p)
          /\ IsPrevFree(z, p[2]) <=> p \in M
      BY DEF AllTags, Tags
    <3>2. /\ p[1] \in Mem /\ p[2] \in Mem /\ p[1] \in Int /\ p[2] \in Int /\ p[1] < p[2]
      BY LayoutTypes DEF Mem
    <3>3. p[2] <= g \/ e + 1 < p[1] - 1
      BY NewApart DEF e
    <3>4. p[1] \notin {g, e, e + 1} /\ p[2] \notin {e, e + 1}
      BY <1>3, <3>2, <3>3
    <3>5. SameTags(z, k, p[1]) /\ GetSize(k, p[1]) = GetSize(z, p[1])
      BY <1>6, <3>2, <3>4
    <3>6. GetPrevSize(k, p[2]) = GetPrevSize(z, p[2]) /\ (IsPrevFree(k, p[2]) <=> IsPrevFree(z, p[2]))
      <4>1. CASE p[2] = g
        BY <1>2, <4>1
      <4>2. CASE p[2] # g
        BY <1>6, <3>2, <3>4, <4>2 DEF SameTags
      <4> QED BY <4>1, <4>2
    <3> QED BY <3>1, <3>5, <3>6 DEF SameTags
  <2>2. ASSUME NEW p \in P
        PROVE  /\ GetSize(k, p[1]) = Size(p) /\ ~IsMmapped(k, p[1])
               /\ GetPrevSize(k, p[2]) = Size(p)
               /\ IsPrevFree(k, p[2]) <=> p \in N
    <3>1. CASE p \in O
      BY <1>5, <2>1, <3>1
    <3>2. CASE p = u
      BY <1>1, <1>2, <1>5, <3>2
    <3> QED BY <1>4, <3>1, <3>2
  <2> QED BY <2>2 DEF Tags
<1>8. RunTags(k, T)
  <2> SUFFICES ASSUME NEW s \in T
               PROVE  /\ GetSize(k, s[1] - 1) # 0
                      /\ GetPrevSize(k, s[1]) = 0 /\ ~IsPrevFree(k, s[1])
                      /\ GetSize(k, s[2]) = 0 /\ ~IsPrevFree(k, s[2] + 1)
    BY DEF RunTags
  <2>1. CASE s = t
    <3>1. CASE t[1] = g
      <4>1. g - 1 \in Mem /\ g - 1 \notin {g, e, e + 1}
        <5>1. g - 1 \in Granule
          BY <1>3, <3>1 DEF Granule
        <5> QED BY <1>3, <5>1 DEF Mem
      <4>2. GetSize(z, g - 1) # 0 /\ GetPrevSize(z, g) = 0 /\ ~IsPrevFree(z, g)
        BY <3>1 DEF RunBegins
      <4> QED BY <1>2, <1>6, <2>1, <3>1, <4>1, <4>2 DEF e
    <3>2. CASE t[1] # g
      <4>1. <<t[1], g>> \in S
        BY <3>2 DEF Grows
      <4>2. GetSize(z, t[1] - 1) # 0 /\ GetPrevSize(z, t[1]) = 0 /\ ~IsPrevFree(z, t[1])
        BY <4>1 DEF AllTags, RunTags
      <4>3. t[1] - 1 \in Mem /\ t[1] \in Mem
        <5>1. t[1] - 1 \in Granule /\ t[1] \in Granule
          BY <1>3 DEF Granule
        <5> QED BY <5>1 DEF Mem
      <4>4. t[1] - 1 \notin {g, e, e + 1} /\ t[1] \notin {g, e, e + 1}
        BY <1>3, <3>2
      <4> QED BY <1>2, <1>6, <2>1, <4>2, <4>3, <4>4 DEF e, SameTags
    <3> QED BY <3>1, <3>2
  <2>2. CASE s # t
    <3>1. s \in S /\ (s[2] + 1 < t[1] - 1 \/ t[2] + 1 < s[1] - 1)
      BY <2>2 DEF Grows
    <3>2. s[1] \in Int /\ s[2] \in Int /\ s[1] < s[2]
      BY <3>1, LayoutTypes
    <3>3. /\ s[1] - 1 \in Mem /\ s[1] \in Mem /\ s[2] \in Mem /\ s[2] + 1 \in Mem
      BY <3>1, TagsAreGranules DEF IsTag
    <3>4. /\ s[1] - 1 \notin {g, e, e + 1} /\ s[1] \notin {g, e, e + 1}
          /\ s[2] \notin {g, e, e + 1} /\ s[2] + 1 \notin {g, e, e + 1}
      BY <1>3, <3>1, <3>2 DEF e
    <3>5. /\ GetSize(z, s[1] - 1) # 0
          /\ GetPrevSize(z, s[1]) = 0 /\ ~IsPrevFree(z, s[1])
          /\ GetSize(z, s[2]) = 0 /\ ~IsPrevFree(z, s[2] + 1)
      BY <3>1 DEF AllTags, RunTags
    <3> QED BY <1>6, <3>3, <3>4, <3>5 DEF SameTags
  <2> QED BY <2>1, <2>2
<1>9. MappedTags(k, X)
  <2> SUFFICES ASSUME NEW x \in X PROVE GetSize(k, x[1]) = Size(x) /\ IsMmapped(k, x[1])
    BY DEF MappedTags
  <2>1. GetSize(z, x[1]) = Size(x) /\ IsMmapped(z, x[1])
    BY DEF AllTags, MappedTags
  <2>2. x[1] \in Int /\ x[2] \in Int /\ x[1] < x[2] /\ x[1] \in Mem
    BY LayoutTypes DEF Mem
  <2>3. t[2] + 1 < x[1] \/ x[2] < t[1] - 1
    BY DEF Grows
  <2>4. x[1] \notin {g, e, e + 1}
    BY <1>3, <2>2, <2>3 DEF e
  <2> QED BY <1>6, <2>1, <2>2, <2>4 DEF SameTags
<1>10. AllTags(k, T, P, N, X)
  BY <1>7, <1>8, <1>9 DEF AllTags
<1> QED BY <1>10 DEF P, u

-----------------------------------------------------------------------------
(* What the kernel maps.                                                   *)

LEMMA PagesIs ==
  ASSUME NEW n \in Nat
  PROVE  Pages(n) \in Nat /\ n + 1 <= Pages(n)
<1> DEFINE x == n + PageSize - 1
           q == x \div PageSize
           r == x % PageSize
           y == q * PageSize
<1>1. PageSize \in Nat \ {0} /\ x \in Nat
  BY LeaAssumption
<1>2. q \in Nat /\ r \in 0 .. PageSize - 1 /\ x = q * PageSize + r
  BY <1>1, Division
<1>3. y \in Nat
  BY <1>1, <1>2
<1>4. x = y + r /\ Pages(n) = y + 1
  BY <1>2 DEF Pages
<1> HIDE DEF y, q, r
<1> QED BY <1>1, <1>2, <1>3, <1>4

(* k has e granules at a mapped that h has not, and writes there only.     *)
Mapped(h, k, a, e) ==
  /\ k \in HeapType /\ k.maps = h.maps \union {<<a, e>>} /\ k.binmap = h.binmap
  /\ a \in Granule /\ e \in Nat \ {0} /\ a + e - 1 <= MemTop
  /\ \A m \in h.maps : a + e <= m[1] \/ m[1] + m[2] <= a
  /\ \A g \in Mem : g \notin a .. a + e - 1 => k.mem[g] = h.mem[g]

(* It holds zeros, and nothing else has changed.                           *)
Blank(h, k, a, e) ==
  /\ Mapped(h, k, a, e)
  /\ k.arena = h.arena /\ k.space = h.space /\ k.left = h.left
  /\ k.ptr = h.ptr /\ k.remaining = h.remaining
  /\ \A g \in Mem : g \in a .. a + e - 1 => k.mem[g] = <<0, 0>>

LEMMA MmapIs ==
  ASSUME NEW h \in HeapType, NEW n \in Nat, NEW out \in Mmap(h, n)
  PROVE  Blank(h, out.heap, out.ptr, Pages(n))
<1> DEFINE e == Pages(n)
           mem(a) == [g \in Mem |-> IF g \in a .. a + e - 1 THEN <<0, 0>> ELSE h.mem[g]]
<1>1. e \in Nat \ {0}
  BY PagesIs
<1>2. h.mem \in [Mem -> Int \X Int] /\ DOMAIN h.mem = Mem
  BY DEF HeapType
<1>3. PICK a \in MapAddrs :
        /\ a + e - 1 <= MemTop
        /\ \A m \in h.maps : a + e <= m[1] \/ m[1] + m[2] <= a
        /\ out = Outcome(a, [h EXCEPT !.maps = h.maps \union {<<a, e>>}, !.mem = mem(a)])
  BY <1>2 DEF Mmap
<1>4. a \in Granule /\ a \in Int
  BY LeaAssumption DEF Granule
<1> HIDE DEF e
<1>5. mem(a) \in [Mem -> Int \X Int]
  BY <1>2
<1>6. \A g \in Mem : mem(a)[g] = IF g \in a .. a + e - 1 THEN <<0, 0>> ELSE h.mem[g]
  OBVIOUS
<1> HIDE DEF mem
<1>7. out.ptr = a /\ out.heap = [h EXCEPT !.maps = h.maps \union {<<a, e>>}, !.mem = mem(a)]
  BY <1>3 DEF Outcome
<1>8. <<a, e>> \in Int \X Int /\ h.maps \in SUBSET (Int \X Int)
  BY <1>1, <1>4 DEF HeapType
<1> DEFINE w == mem(a)
           d == h.maps \union {<<a, e>>}
<1>9. /\ out.heap \in HeapType /\ out.heap.mem = w /\ out.heap.maps = d
      /\ out.heap.binmap = h.binmap
      /\ out.heap.arena = h.arena /\ out.heap.space = h.space /\ out.heap.left = h.left
      /\ out.heap.ptr = h.ptr /\ out.heap.remaining = h.remaining
  <2>1. w \in [Mem -> Int \X Int] /\ d \in SUBSET (Int \X Int)
    BY <1>5, <1>8
  <2>2. out.heap = [h EXCEPT !.maps = d, !.mem = w]
    BY <1>7
  <2> HIDE DEF w, d
  <2> QED BY <2>1, <2>2 DEF HeapType
<1>10. \A g \in Mem : /\ g \notin a .. a + e - 1 => w[g] = h.mem[g]
                      /\ g \in a .. a + e - 1 => w[g] = <<0, 0>>
  BY <1>6
<1> HIDE DEF w
<1>11. Mapped(h, out.heap, a, e)
  BY <1>1, <1>3, <1>4, <1>9, <1>10, Zenon DEF Mapped
<1>12. Blank(h, out.heap, a, e)
  BY <1>9, <1>10, <1>11, Zenon DEF Blank
<1> QED BY <1>7, <1>12 DEF e

(* Everything an object or a run consists of is mapped.                    *)
LEMMA TagsMapped ==
  ASSUME NEW h \in HeapType, NEW S, NEW O, NEW X, Layout(S, O, X), MapsInv(h, S, X), NEW a,
         IsTag(S, O, X, a) \/ \E u \in O \union X : a \in Body(u)
  PROVE  a \in Int /\ \E m \in h.maps : m[1] <= a /\ a < m[1] + m[2]
<1>1. \A m \in h.maps : m[1] \in Int /\ m[2] \in Int
  BY DEF HeapType
<1>2. ASSUME NEW s \in S, a \in Int, s[1] - 1 <= a, a <= s[2] + 1
      PROVE  \E m \in h.maps : m[1] <= a /\ a < m[1] + m[2]
  <2>1. PICK m \in h.maps : m[1] = s[1] - 2 /\ s[2] + 1 < m[1] + m[2]
    BY DEF MapsInv, InMap, ArenaHeader
  <2>2. s[1] \in Int /\ s[2] \in Int
    BY LayoutTypes
  <2> QED BY <1>1, <1>2, <2>1, <2>2
<1>3. ASSUME NEW o \in O, a \in Int, o[1] <= a, a <= o[2]
      PROVE  \E m \in h.maps : m[1] <= a /\ a < m[1] + m[2]
  <2>1. PICK s \in S : s[1] <= o[1] /\ o[2] <= s[2]
    BY DEF Layout, Adjoin
  <2>2. s[1] \in Int /\ s[2] \in Int /\ o[1] \in Int /\ o[2] \in Int
    BY LayoutTypes
  <2> QED BY <1>2, <1>3, <2>1, <2>2
<1>4. ASSUME NEW x \in X, a \in Int, x[1] <= a, a <= x[2]
      PROVE  \E m \in h.maps : m[1] <= a /\ a < m[1] + m[2]
  <2>1. PICK m \in h.maps : m[1] = x[1] /\ x[2] < m[1] + m[2]
    BY DEF MapsInv, InMap
  <2>2. x[1] \in Int /\ x[2] \in Int
    BY LayoutTypes
  <2> QED BY <1>1, <1>4, <2>1, <2>2
<1>5. a \in Int
  BY TagsAreGranules, BodyHasNoTag DEF Granule
<1>6. CASE IsTag(S, O, X, a)
  <2>1. ASSUME NEW s \in S, a \in {s[1] - 1, s[1], s[2], s[2] + 1}
        PROVE  s[1] - 1 <= a /\ a <= s[2] + 1
    BY <2>1, LayoutTypes
  <2>2. ASSUME NEW o \in O, a = o[1] \/ a = o[2] PROVE o[1] <= a /\ a <= o[2]
    BY <2>2, LayoutTypes
  <2>3. ASSUME NEW x \in X, a = x[1] PROVE x[1] <= a /\ a <= x[2]
    BY <2>3, LayoutTypes
  <2> QED BY <1>2, <1>3, <1>4, <1>5, <1>6, <2>1, <2>2, <2>3 DEF IsTag
<1>7. CASE \E u \in O \union X : a \in Body(u)
  <2>1. PICK u \in O \union X : a \in Body(u)
    BY <1>7
  <2>2. u[1] <= a /\ a <= u[2]
    BY <2>1, LayoutTypes DEF Body
  <2> QED BY <1>3, <1>4, <1>5, <2>2
<1> QED BY <1>5, <1>6, <1>7

(* What is mapped anew holds nothing of what is there.                     *)
LEMMA MappedKeeps ==
  ASSUME NEW h, NEW k, NEW S, NEW O, NEW B, NEW M, NEW X, Good(h, S, O, B, M, X),
         NEW a, NEW e, Mapped(h, k, a, e)
  PROVE  /\ AllTags(k, S, O, M, X) /\ Keeps(h, k, O \union X)
         /\ Rings(k, B) /\ BitsInv(k, B)
<1>1. Layout(S, O, X) /\ AllTags(h, S, O, M, X) /\ h \in HeapType /\ B \subseteq O /\ MapsInv(h, S, X)
  BY GoodTags DEF Good
<1>2. a \in Int /\ e \in Int
  BY DEF Mapped, Granule
<1>3. ASSUME NEW g, IsTag(S, O, X, g) \/ \E u \in O \union X : g \in Body(u)
      PROVE  k.mem[g] = h.mem[g]
  <2>1. g \in Int /\ \E m \in h.maps : m[1] <= g /\ g < m[1] + m[2]
    BY <1>1, <1>3, TagsMapped
  <2>2. \A m \in h.maps : m[1] \in Int /\ m[2] \in Int
    BY <1>1 DEF HeapType
  <2>3. g \notin a .. a + e - 1
    BY <1>2, <2>1, <2>2 DEF Mapped
  <2>4. g \in Mem
    BY <1>1, <1>3, TagsAreGranules, BodyHasNoTag
  <2> QED BY <2>3, <2>4 DEF Mapped
<1>4. AllTags(k, S, O, M, X)
  BY <1>1, <1>3, TagsFrame
<1>5. Keeps(h, k, O \union X)
  BY <1>3 DEF Keeps
<1>6. Rings(k, B)
  <2>1. \A o \in B : k.mem[o[1] + 1] = h.mem[o[1] + 1]
    <3> TAKE o \in B
    <3>1. o \in O \union X
      BY <1>1
    <3>2. o[1] + 1 \in Body(o)
      BY <1>1, <3>1, EntryInBody
    <3> QED BY <1>3, <3>1, <3>2
  <2>2. \A c \in Bins : k.mem[Head(c)] = h.mem[Head(c)]
    <3> TAKE c \in Bins
    <3>1. Head(c) \in Mem /\ Head(c) < 0 /\ Head(c) \in Int
      BY HeadsAreNoGranules
    <3>2. Head(c) \notin a .. a + e - 1
      BY <1>2, <3>1 DEF Mapped, Granule
    <3> QED BY <3>1, <3>2 DEF Mapped
  <2>3. Rings(h, B)
    BY DEF Good
  <2> QED BY <2>1, <2>2, <2>3, RingsFrame
<1>7. BitsInv(k, B)
  <2>1. BitsInv(h, B) /\ k.binmap = h.binmap
    BY DEF Good, Mapped
  <2> QED BY <2>1, BitsFrame
<1> QED BY <1>4, <1>5, <1>6, <1>7

(* A run grows up to e, which is mapped.                                   *)
Longer(s, e) == <<s[1], e>>
Extended(S, s, e) == (S \ {s}) \union {Longer(s, e)}

(* The mappings of runs and mapped objects are not the same.               *)
LEMMA OwnMaps ==
  ASSUME NEW S, NEW O, NEW X, Layout(S, O, X)
  PROVE  /\ \A s, r \in S : s # r => s[1] # r[1]
         /\ \A s \in S : \A x \in X : s[1] - 2 # x[1]
<1>1. ASSUME NEW s \in S, NEW r \in S, s # r PROVE s[1] # r[1]
  <2>1. s[2] + 1 < r[1] - 1 \/ r[2] + 1 < s[1] - 1
    BY <1>1 DEF Layout
  <2>2. s[1] \in Int /\ s[2] \in Int /\ s[1] < s[2] /\ r[1] \in Int /\ r[2] \in Int /\ r[1] < r[2]
    BY LayoutTypes
  <2> QED BY <2>1, <2>2
<1>2. ASSUME NEW s \in S, NEW x \in X PROVE s[1] - 2 # x[1]
  <2>1. s[2] + 1 < x[1] \/ x[2] < s[1] - 1
    BY DEF Layout
  <2>2. s[1] \in Int /\ s[2] \in Int /\ s[1] < s[2] /\ x[1] \in Int /\ x[2] \in Int
    BY LayoutTypes
  <2>3. x[1] + 2 <= x[2]
    BY DEF Layout
  <2> QED BY <2>1, <2>2, <2>3
<1> QED BY <1>1, <1>2

LEMMA ExtendGrows ==
  ASSUME NEW h, NEW S, NEW O, NEW B, NEW M, NEW X, Good(h, S, O, B, M, X), NEW s \in S, NEW e \in Int,
         InMap(h, s[1] - ArenaHeader, e + 1), s[2] + 2 <= e, e <= s[1] + ChunkSize
  PROVE  /\ Grows(S, Extended(S, s, e), X, Longer(s, e), s[2])
         /\ MapsInv(h, Extended(S, s, e), X) /\ Starts(Extended(S, s, e)) = Starts(S)
<1> DEFINE t == Longer(s, e)
           T == Extended(S, s, e)
<1>1. Layout(S, O, X) /\ h \in HeapType
  BY GoodTags
<1>2. /\ s = <<s[1], s[2]>> /\ s[1] \in Granule /\ s[2] \in Granule /\ s[1] \in Int /\ s[2] \in Int
      /\ s[1] < s[2]
  BY <1>1, LayoutTypes
<1>3. 3 <= s[1]
  BY <1>1 DEF Layout
<1>4. t[1] = s[1] /\ t[2] = e
  BY DEF Longer
<1>5. PICK m \in h.maps : m[1] = s[1] - 2 /\ e + 1 < m[1] + m[2]
  BY DEF InMap, ArenaHeader
<1>6. /\ \A i \in h.maps : /\ i[1] \in Int /\ i[2] \in Int /\ 1 <= i[1] /\ i[1] <= MemTop /\ 1 <= i[2]
                           /\ i[1] + i[2] - 1 <= MemTop
      /\ \A i, j \in h.maps : i # j => i[1] + i[2] <= j[1] \/ j[1] + j[2] <= i[1]
  BY <1>1 DEF Good, HeapType, MapsInv
<1>7. e \in Granule /\ e < MemTop
  <2>1. MemTop \in Nat /\ m[1] \in Int /\ m[2] \in Int /\ m[1] + m[2] - 1 <= MemTop
    BY <1>6, LeaAssumption
  <2>2. 1 <= e /\ e < MemTop
    BY <1>2, <1>3, <1>5, <2>1
  <2> QED BY <2>1, <2>2 DEF Granule
<1>8. t \in T /\ (\A r \in T : r = t \/ (r \in S /\ r # s)) /\ (\A r \in S : r \in T \/ r = s)
  BY DEF Extended
<1>9. t \in Granule \X Granule
  BY <1>2, <1>7 DEF Longer
<1> HIDE DEF t, T
<1>10. ASSUME NEW r \in S, r # s PROVE r[2] + 1 < t[1] - 1 \/ t[2] + 1 < r[1] - 1
  <2>1. r[1] # s[1] /\ r[1] \in Int /\ r[2] \in Int
    BY <1>1, <1>10, OwnMaps, LayoutTypes
  <2>2. PICK i \in h.maps : i[1] = r[1] - 2 /\ r[2] + 1 < i[1] + i[2]
    BY DEF Good, MapsInv, InMap, ArenaHeader
  <2>3. i # m
    BY <1>2, <1>5, <2>1, <2>2
  <2> QED BY <1>2, <1>4, <1>5, <1>6, <2>1, <2>2, <2>3
<1>11. ASSUME NEW x \in X PROVE t[2] + 1 < x[1] \/ x[2] < t[1] - 1
  <2>1. s[1] - 2 # x[1] /\ x[1] \in Int /\ x[2] \in Int
    BY <1>1, OwnMaps, LayoutTypes
  <2>2. PICK i \in h.maps : i[1] = x[1] /\ x[2] < i[1] + i[2]
    BY DEF Good, MapsInv, InMap
  <2>3. i # m
    BY <1>5, <2>1, <2>2
  <2> QED BY <1>2, <1>4, <1>5, <1>6, <2>1, <2>2, <2>3
<1>12. t \notin S
  <2> SUFFICES ASSUME t \in S PROVE FALSE
    OBVIOUS
  <2>1. t = s
    BY <1>1, <1>4, OwnMaps
  <2> QED BY <1>2, <1>4, <2>1
<1>13. Grows(S, T, X, t, s[2])
  <2>1. \A r \in S : r \in T \/ r = <<t[1], s[2]>>
    BY <1>2, <1>4, <1>8
  <2>2. <<t[1], s[2]>> \in S
    BY <1>2, <1>4
  <2>3. t[1] <= s[2] /\ s[2] + 2 <= t[2] /\ 3 <= t[1] /\ t[2] < MemTop /\ t[2] <= t[1] + ChunkSize
    BY <1>2, <1>3, <1>4, <1>7
  <2>4. \A r \in T : r # t => r[2] + 1 < t[1] - 1 \/ t[2] + 1 < r[1] - 1
    BY <1>8, <1>10
  <2> QED BY <1>2, <1>8, <1>9, <1>11, <1>12, <2>1, <2>2, <2>3, <2>4 DEF Grows
<1>14. MapsInv(h, T, X)
  <2>1. MapsInv(h, S, X)
    BY DEF Good
  <2>2. \A r \in T : InMap(h, r[1] - ArenaHeader, r[2] + 1)
    BY <1>4, <1>8, <2>1 DEF MapsInv
  <2> QED BY <2>1, <2>2 DEF MapsInv
<1>15. Starts(T) = Starts(S)
  <2>1. \A r \in T : \E i \in S : i[1] = r[1]
    BY <1>4, <1>8
  <2>2. \A i \in S : \E r \in T : i[1] = r[1]
    BY <1>4, <1>8
  <2> QED BY <2>1, <2>2 DEF Starts
<1> QED BY <1>13, <1>14, <1>15 DEF t, T

(* A run of one object at the start of a new arena.                        *)
FirstRun(a, n) == <<a + ArenaHeader, a + ArenaHeader + 1 + n>>

Adds(S, T, g) == Starts(T) = Starts(S) \union {g}

LEMMA FirstRunGrows ==
  ASSUME NEW h, NEW k, NEW S, NEW O, NEW B, NEW M, NEW X, Good(h, S, O, B, M, X),
         NEW a, NEW p, Mapped(h, k, a, p), NEW n \in Nat \ {0}, n + ArenaHeader + 2 < p, n + 1 <= ChunkSize
  PROVE  /\ Grows(S, S \union {FirstRun(a, n)}, X, FirstRun(a, n), a + ArenaHeader)
         /\ MapsInv(k, S \union {FirstRun(a, n)}, X)
         /\ Adds(S, S \union {FirstRun(a, n)}, a + ArenaHeader)
<1> DEFINE t == FirstRun(a, n)
           T == S \union {t}
<1>1. Layout(S, O, X) /\ h \in HeapType
  BY GoodTags
<1>2. /\ a \in Granule /\ a \in Int /\ p \in Nat \ {0} /\ a + p - 1 <= MemTop /\ 1 <= a
      /\ \A m \in h.maps : a + p <= m[1] \/ m[1] + m[2] <= a
      /\ k.maps = h.maps \union {<<a, p>>}
  BY DEF Mapped, Granule
<1>3. t[1] = a + 2 /\ t[2] = a + 2 + 1 + n /\ ArenaHeader = 2
  BY DEF FirstRun, ArenaHeader
<1>4. t \in T /\ (\A r \in T : r = t \/ r \in S) /\ (\A r \in S : r \in T)
  OBVIOUS
<1>5. t \in Granule \X Granule /\ a + 2 \in Granule
  BY <1>2, <1>3, LeaAssumption DEF Granule, FirstRun
<1> HIDE DEF t
<1>6. /\ \A i \in h.maps : /\ i[1] \in Int /\ i[2] \in Int /\ 1 <= i[1] /\ i[1] <= MemTop /\ 1 <= i[2]
                           /\ i[1] + i[2] - 1 <= MemTop
      /\ \A i, j \in h.maps : i # j => i[1] + i[2] <= j[1] \/ j[1] + j[2] <= i[1]
  BY <1>1 DEF Good, HeapType, MapsInv
<1>7. ASSUME NEW r \in S PROVE r[2] + 1 < t[1] - 1 \/ t[2] + 1 < r[1] - 1
  <2>1. r[1] \in Int /\ r[2] \in Int /\ r[1] < r[2]
    BY <1>1, LayoutTypes
  <2>2. PICK i \in h.maps : i[1] = r[1] - 2 /\ r[2] + 1 < i[1] + i[2]
    BY DEF Good, MapsInv, InMap, ArenaHeader
  <2> QED BY <1>2, <1>3, <1>6, <2>1, <2>2
<1>8. ASSUME NEW x \in X PROVE t[2] + 1 < x[1] \/ x[2] < t[1] - 1
  <2>1. x[1] \in Int /\ x[2] \in Int
    BY <1>1, LayoutTypes
  <2>2. PICK i \in h.maps : i[1] = x[1] /\ x[2] < i[1] + i[2]
    BY DEF Good, MapsInv, InMap
  <2> QED BY <1>2, <1>3, <1>6, <2>1, <2>2
<1>9. t \notin S
  <2> SUFFICES ASSUME t \in S PROVE FALSE
    OBVIOUS
  <2> QED BY <1>2, <1>3, <1>7
<1>10. Grows(S, T, X, t, a + 2)
  <2>1. t[1] <= a + 2 /\ a + 2 + 2 <= t[2] /\ 3 <= t[1] /\ t[2] < MemTop /\ t[2] <= t[1] + ChunkSize
    BY <1>2, <1>3, LeaAssumption
  <2>2. \A r \in T : r # t => r[2] + 1 < t[1] - 1 \/ t[2] + 1 < r[1] - 1
    BY <1>4, <1>7
  <2> QED BY <1>3, <1>4, <1>5, <1>8, <1>9, <2>1, <2>2 DEF Grows
<1>11. MapsInv(k, T, X)
  <2>1. MapsInv(h, S, X) /\ <<a, p>>[1] = a /\ <<a, p>>[2] = p
    BY DEF Good
  <2>2. \A i, e : InMap(h, i, e) => InMap(k, i, e)
    BY <1>2 DEF InMap
  <2>3. InMap(k, t[1] - 2, t[2] + 1)
    <3>1. t[1] - 2 = a /\ t[2] + 1 < a + p
      BY <1>2, <1>3
    <3> QED BY <1>2, <2>1, <3>1 DEF InMap
  <2>4. \A r \in T : InMap(k, r[1] - ArenaHeader, r[2] + 1)
    BY <1>3, <1>4, <2>1, <2>2, <2>3 DEF MapsInv
  <2>5. \A x \in X : InMap(k, x[1], x[2])
    BY <2>1, <2>2 DEF MapsInv
  <2>6. \A m \in k.maps : m \in h.maps \/ m = <<a, p>>
    BY <1>2
  <2>7. \A m \in k.maps : 1 <= m[1] /\ m[1] <= MemTop /\ 1 <= m[2] /\ m[1] + m[2] - 1 <= MemTop
    BY <1>2, <1>6, <2>1, <2>6, LeaAssumption
  <2>8. \A m, j \in k.maps : m # j => m[1] + m[2] <= j[1] \/ j[1] + j[2] <= m[1]
    BY <1>2, <1>6, <2>1, <2>6
  <2> QED BY <2>4, <2>5, <2>7, <2>8 DEF MapsInv
<1>12. Starts(T) = Starts(S) \union {a + 2}
  BY <1>3 DEF Starts
<1> QED BY <1>3, <1>10, <1>11, <1>12 DEF t, Adds

(* The memory up to the end of run t of T is there for its last object.    *)
Room(h, z, S, T, O, B, M, X, t, g) ==
  /\ Grows(S, T, X, t, g) /\ RunBegins(z, t, g)
  /\ z \in HeapType /\ AllTags(z, S, O, M, X) /\ Keeps(h, z, O \union X)
  /\ Rings(z, B) /\ BitsInv(z, B)
  /\ MapsInv(z, T, X) /\ SlopInv(z, T) /\ ArenaInv(z, T)
  /\ Starts(S) \subseteq Starts(T) /\ Starts(T) \subseteq Starts(S) \union {g}

(* The slop of run s, and what the arena has left, begin behind e.         *)
EndsAt(z, s, e) ==
  /\ z.ptr = e /\ e + z.remaining <= s[1] + ChunkSize
  /\ InMap(z, s[1] - ArenaHeader, e + z.remaining + 1)
  /\ z.arena # NULL =>
       /\ z.space = e + z.remaining + 1 /\ z.arena + ArenaHeader = s[1]
       /\ z.space + z.left <= z.arena + ArenaHeader + ChunkSize + Slop
       /\ InMap(z, z.arena, z.space + z.left)

SameMemory(h, z) == z \in HeapType /\ z.mem = h.mem /\ z.maps = h.maps /\ z.binmap = h.binmap

LEMMA SameMemoryKeeps ==
  ASSUME NEW h, NEW z, NEW S, NEW O, NEW B, NEW M, NEW X, Good(h, S, O, B, M, X), SameMemory(h, z)
  PROVE  AllTags(z, S, O, M, X) /\ Keeps(h, z, O \union X) /\ Rings(z, B) /\ BitsInv(z, B)
<1>1. AllTags(h, S, O, M, X) /\ Rings(h, B) /\ BitsInv(h, B)
  BY GoodTags DEF Good
<1>2. z.mem = h.mem /\ z.binmap = h.binmap
  BY DEF SameMemory
<1>3. AllTags(z, S, O, M, X)
  BY <1>1, <1>2, TagsFrame
<1>4. Rings(z, B)
  BY <1>1, <1>2, RingsFrame
<1>5. BitsInv(z, B)
  BY <1>1, <1>2, BitsFrame
<1> QED BY <1>2, <1>3, <1>4, <1>5 DEF Keeps

LEMMA ExtendedRoom ==
  ASSUME NEW h, NEW z, NEW S, NEW O, NEW B, NEW M, NEW X, Good(h, S, O, B, M, X), SameMemory(h, z),
         NEW s \in S, NEW e \in Nat, s[2] + 2 <= e, EndsAt(z, s, e)
  PROVE  Room(h, z, S, Extended(S, s, e), O, B, M, X, Longer(s, e), s[2])
<1> DEFINE t == Longer(s, e)
           T == Extended(S, s, e)
<1>1. Layout(S, O, X) /\ h \in HeapType /\ z \in HeapType /\ z.maps = h.maps
  BY GoodTags DEF SameMemory
<1>2. s[1] \in Int /\ s[2] \in Int /\ s[1] < s[2] /\ 3 <= s[1]
  BY <1>1, LayoutTypes DEF Layout
<1>3. z.remaining \in Nat /\ z.left \in Nat /\ z.arena \in Nat /\ z.space \in Nat
      /\ \A m \in z.maps : m[1] \in Int /\ m[2] \in Int
  BY <1>1 DEF HeapType
<1>4. /\ z.ptr = e /\ e + z.remaining <= s[1] + ChunkSize
      /\ InMap(z, s[1] - ArenaHeader, e + z.remaining + 1)
  BY DEF EndsAt
<1>5. InMap(h, s[1] - ArenaHeader, e + 1) /\ e <= s[1] + ChunkSize
  <2>1. PICK m \in z.maps : m[1] = s[1] - ArenaHeader /\ e + z.remaining + 1 < m[1] + m[2]
    BY <1>4 DEF InMap
  <2>2. e + 1 < m[1] + m[2]
    BY <1>3, <2>1
  <2>3. e <= s[1] + ChunkSize
    BY <1>2, <1>3, <1>4, LeaAssumption
  <2> QED BY <1>1, <2>1, <2>2, <2>3 DEF InMap
<1>6. t[1] = s[1] /\ t[2] = e /\ t \in T
  BY DEF Longer, Extended
<1>7. Grows(S, T, X, t, s[2]) /\ MapsInv(h, T, X) /\ Starts(T) = Starts(S)
  BY <1>5, ExtendGrows
<1> HIDE DEF t, T
<1>8. RunBegins(z, t, s[2])
  BY <1>2, <1>6 DEF RunBegins
<1>9. MapsInv(z, T, X)
  BY <1>1, <1>7 DEF MapsInv, InMap
<1>10. SlopInv(z, T)
  <2>1. z.ptr # NULL
    BY <1>2, <1>4 DEF NULL
  <2> QED BY <1>4, <1>6, <2>1 DEF SlopInv
<1>11. ArenaInv(z, T)
  <2> SUFFICES ASSUME z.arena # NULL
               PROVE  /\ z.ptr # NULL /\ z.space = z.ptr + z.remaining + Slop
                      /\ <<z.arena + ArenaHeader, z.ptr>> \in T
                      /\ z.space + z.left <= z.arena + ArenaHeader + ChunkSize + Slop
                      /\ InMap(z, z.arena, z.space + z.left)
    BY DEF ArenaInv
  <2>1. /\ z.space = e + z.remaining + 1 /\ z.arena + ArenaHeader = s[1]
        /\ z.space + z.left <= z.arena + ArenaHeader + ChunkSize + Slop
        /\ InMap(z, z.arena, z.space + z.left)
    BY DEF EndsAt
  <2>2. t = <<s[1], e>>
    BY DEF t, Longer
  <2>3. z.ptr # NULL
    BY <1>2, <1>4 DEF NULL
  <2> QED BY <1>4, <1>6, <2>1, <2>2, <2>3 DEF Slop
<1>12. AllTags(z, S, O, M, X) /\ Keeps(h, z, O \union X) /\ Rings(z, B) /\ BitsInv(z, B)
  BY SameMemoryKeeps
<1> QED BY <1>1, <1>7, <1>8, <1>9, <1>10, <1>11, <1>12 DEF Room, t, T

(* The run that ends where the slop begins.                                *)
LEMMA LastRun ==
  ASSUME NEW h, NEW S, NEW O, NEW B, NEW M, NEW X, Good(h, S, O, B, M, X), h.ptr # NULL
  PROVE  \E s \in S : /\ s[2] = h.ptr /\ EndsAt(h, s, h.ptr)
                      /\ h.arena # NULL => <<h.arena + ArenaHeader, h.ptr>> = s
<1>1. Layout(S, O, X) /\ h \in HeapType
  BY GoodTags
<1>2. PICK s \in S :
        /\ s[2] = h.ptr /\ h.ptr + h.remaining <= s[1] + ChunkSize
        /\ InMap(h, s[1] - ArenaHeader, h.ptr + h.remaining + 1)
  BY DEF Good, SlopInv
<1>3. ASSUME h.arena # NULL
      PROVE  /\ h.space = h.ptr + h.remaining + 1 /\ h.arena + ArenaHeader = s[1]
             /\ h.space + h.left <= h.arena + ArenaHeader + ChunkSize + Slop
             /\ InMap(h, h.arena, h.space + h.left)
             /\ <<h.arena + ArenaHeader, h.ptr>> = s
  <2>1. /\ h.space = h.ptr + h.remaining + Slop
        /\ <<h.arena + ArenaHeader, h.ptr>> \in S
        /\ h.space + h.left <= h.arena + ArenaHeader + ChunkSize + Slop
        /\ InMap(h, h.arena, h.space + h.left)
    BY <1>3 DEF Good, ArenaInv
  <2> DEFINE r == <<h.arena + ArenaHeader, h.ptr>>
  <2>2. r = s
    <3>1. r = s \/ r[2] + 1 < s[1] - 1 \/ s[2] + 1 < r[1] - 1
      BY <1>1, <2>1 DEF Layout
    <3>2. r[2] = s[2] /\ r[1] \in Int /\ r[2] \in Int /\ r[1] < r[2] /\ s[1] \in Int /\ s[1] < s[2]
      BY <1>1, <1>2, <2>1, LayoutTypes
    <3> HIDE DEF r
    <3> QED BY <3>1, <3>2
  <2>3. s[1] = h.arena + ArenaHeader
    BY <2>2
  <2> QED BY <2>1, <2>2, <2>3 DEF Slop
<1> QED BY <1>2, <1>3 DEF EndsAt

(* Memory for n granules from the slop. *)
LEMMA SlopRoom ==
  ASSUME NEW h, NEW S, NEW O, NEW B, NEW M, NEW X, Good(h, S, O, B, M, X),
         NEW n \in Nat \ {0, 1}, n <= h.remaining,
         NEW z, z = [h EXCEPT !.ptr = @ + n, !.remaining = @ - n]
  PROVE  \E T, t : t[2] = h.ptr + n /\ Room(h, z, S, T, O, B, M, X, t, h.ptr)
<1>1. Layout(S, O, X) /\ h \in HeapType
  BY GoodTags
<1>2. h.ptr \in Nat /\ h.remaining \in Nat
  BY <1>1 DEF HeapType
<1>3. h.ptr # NULL
  BY <1>2 DEF Good, SlopInv
<1>4. PICK s \in S : s[2] = h.ptr /\ EndsAt(h, s, h.ptr)
  BY <1>3, LastRun
<1> DEFINE e == h.ptr + n
           r == h.remaining - n
<1>5. e \in Nat /\ r \in Nat /\ e + r = h.ptr + h.remaining
  BY <1>2
<1>6. z = [h EXCEPT !.ptr = e, !.remaining = r]
  OBVIOUS
<1> HIDE DEF e, r
<1>7. /\ z \in HeapType /\ z.mem = h.mem /\ z.maps = h.maps /\ z.binmap = h.binmap
      /\ z.arena = h.arena /\ z.space = h.space /\ z.left = h.left /\ z.ptr = e /\ z.remaining = r
  BY <1>1, <1>5, <1>6 DEF HeapType
<1>8. SameMemory(h, z)
  BY <1>7 DEF SameMemory
<1>9. EndsAt(z, s, e)
  <2>1. \A i, j : InMap(z, i, j) <=> InMap(h, i, j)
    BY <1>7 DEF InMap
  <2> QED BY <1>4, <1>5, <1>7, <2>1 DEF EndsAt
<1>10. s[2] + 2 <= e
  BY <1>2, <1>4 DEF e
<1>11. Room(h, z, S, Extended(S, s, e), O, B, M, X, Longer(s, e), s[2])
  BY <1>5, <1>8, <1>9, <1>10, ExtendedRoom
<1>12. Longer(s, e)[2] = e
  BY DEF Longer
<1> QED BY <1>4, <1>11, <1>12 DEF e

(* Memory for n granules, and one more, from the arena, which follows the  *)
(* slop.                                                                   *)
LEMMA ArenaRoom ==
  ASSUME NEW h, NEW S, NEW O, NEW B, NEW M, NEW X, Good(h, S, O, B, M, X),
         NEW n \in Nat \ {0, 1}, HasRoom(h, n + Slop),
         NEW z, z = [h EXCEPT !.space = @ + (n + Slop), !.left = @ - (n + Slop),
                              !.ptr = @ + n, !.remaining = @ + Slop]
  PROVE  /\ Contiguous(h, h.space)
         /\ \E T, t : t[2] = h.ptr + n /\ Room(h, z, S, T, O, B, M, X, t, h.ptr)
<1>1. Layout(S, O, X) /\ h \in HeapType
  BY GoodTags
<1>2. h.ptr \in Nat /\ h.remaining \in Nat /\ h.space \in Nat /\ h.left \in Nat /\ Slop = 1
  BY <1>1 DEF HeapType, Slop
<1>3. h.arena # NULL /\ n + 1 <= h.left /\ h.ptr # NULL
  BY <1>2 DEF Good, ArenaInv, HasRoom
<1>4. PICK s \in S : s[2] = h.ptr /\ EndsAt(h, s, h.ptr)
  BY <1>3, LastRun
<1>5. /\ h.space = h.ptr + h.remaining + 1 /\ h.arena + ArenaHeader = s[1]
      /\ h.space + h.left <= h.arena + ArenaHeader + ChunkSize + Slop
      /\ InMap(h, h.arena, h.space + h.left)
  BY <1>3, <1>4 DEF EndsAt
<1>6. Contiguous(h, h.space)
  BY <1>2, <1>3, <1>5 DEF Contiguous
<1> DEFINE e == h.ptr + n
           r == h.remaining + Slop
           p == h.space + (n + Slop)
           l == h.left - (n + Slop)
<1>7. e \in Nat /\ r \in Nat /\ p \in Nat /\ l \in Nat /\ p + l = h.space + h.left /\ p = e + r + 1
  BY <1>2, <1>3, <1>5
<1>8. s[2] + 2 <= e
  BY <1>2, <1>4
<1>9. z = [h EXCEPT !.space = p, !.left = l, !.ptr = e, !.remaining = r]
  OBVIOUS
<1> HIDE DEF e, r, p, l
<1>10. /\ z \in HeapType /\ z.mem = h.mem /\ z.maps = h.maps /\ z.binmap = h.binmap
       /\ z.arena = h.arena /\ z.space = p /\ z.left = l /\ z.ptr = e /\ z.remaining = r
  BY <1>1, <1>7, <1>9 DEF HeapType
<1>11. SameMemory(h, z)
  BY <1>10 DEF SameMemory
<1>12. EndsAt(z, s, e)
  <2>1. \A i, j : InMap(z, i, j) <=> InMap(h, i, j)
    BY <1>10 DEF InMap
  <2>2. e + r <= s[1] + ChunkSize
    <3>1. s[1] \in Int /\ h.arena \in Int /\ ChunkSize \in Int
      BY <1>1, LayoutTypes, LeaAssumption DEF HeapType
    <3> QED BY <1>2, <1>5, <1>7, <3>1
  <2>3. InMap(h, s[1] - ArenaHeader, e + r + 1)
    <3>1. PICK m \in h.maps : m[1] = h.arena /\ h.space + h.left < m[1] + m[2]
      BY <1>5 DEF InMap
    <3>2. m[1] \in Int /\ m[2] \in Int /\ h.arena \in Int
      BY <1>1 DEF HeapType
    <3>3. e + r + 1 < m[1] + m[2] /\ m[1] = s[1] - ArenaHeader
      BY <1>5, <1>7, <3>1, <3>2 DEF ArenaHeader
    <3> QED BY <3>1, <3>3 DEF InMap
  <2> QED BY <1>5, <1>7, <1>10, <2>1, <2>2, <2>3 DEF EndsAt
<1>13. Room(h, z, S, Extended(S, s, e), O, B, M, X, Longer(s, e), s[2])
  BY <1>7, <1>8, <1>11, <1>12, ExtendedRoom
<1>14. Longer(s, e)[2] = e
  BY DEF Longer
<1> QED BY <1>4, <1>6, <1>13, <1>14 DEF e

ArenaSize(n) == IF ChunkSize < n THEN n ELSE ChunkSize

(* A new arena at a for a first object of n granules. *)
Opened(k, a, size, n) ==
  [k EXCEPT !.arena = a, !.space = a + ArenaHeader + (n + 2), !.left = size - (n + 2),
            !.ptr = a + ArenaHeader + (n + 1), !.remaining = 0, !.mem[a + 1] = <<0, size + ArenaHeader>>]

IsOpened(k, z, a, size, n) ==
  /\ z \in HeapType /\ z.maps = k.maps /\ z.binmap = k.binmap
  /\ z.arena = a /\ z.space = a + ArenaHeader + (n + 2) /\ z.left = size - (n + 2)
  /\ z.ptr = a + ArenaHeader + (n + 1) /\ z.remaining = 0
  /\ z.mem[a + 1] = <<0, size + ArenaHeader>>
  /\ \A g \in Mem \ {a + 1} : z.mem[g] = k.mem[g]

LEMMA OpenedIs ==
  ASSUME NEW k \in HeapType, NEW a \in Nat, a + 1 \in Mem, NEW size \in Nat, NEW n \in Nat, n + 2 <= size,
         NEW z, z = Opened(k, a, size, n)
  PROVE  IsOpened(k, z, a, size, n)
<1> DEFINE v == <<0, size + ArenaHeader>>
           mem == [k.mem EXCEPT ![a + 1] = v]
           p == a + ArenaHeader + (n + 2)
           l == size - (n + 2)
           e == a + ArenaHeader + (n + 1)
<1>1. v \in Int \X Int /\ p \in Nat /\ l \in Nat /\ e \in Nat
  BY DEF ArenaHeader
<1>2. z = [k EXCEPT !.arena = a, !.space = p, !.left = l, !.ptr = e, !.remaining = 0, !.mem = mem]
  BY DEF Opened
<1> HIDE DEF v
<1>3. mem \in [Mem -> Int \X Int] /\ mem[a + 1] = v /\ \A g \in Mem \ {a + 1} : mem[g] = k.mem[g]
  <2>1. k.mem \in [Mem -> Int \X Int]
    BY DEF HeapType
  <2> QED BY <1>1, <2>1
<1> HIDE DEF mem, p, l, e
<1>4. /\ z \in HeapType /\ z.maps = k.maps /\ z.binmap = k.binmap
      /\ z.arena = a /\ z.space = p /\ z.left = l /\ z.ptr = e /\ z.remaining = 0 /\ z.mem = mem
  <2> DEFINE j == [k EXCEPT !.arena = a, !.space = p, !.left = l]
  <2>1. /\ j \in HeapType /\ j.maps = k.maps /\ j.binmap = k.binmap
        /\ j.arena = a /\ j.space = p /\ j.left = l
    BY <1>1 DEF HeapType
  <2>2. z = [j EXCEPT !.ptr = e, !.remaining = 0, !.mem = mem]
    BY <1>2 DEF HeapType
  <2> HIDE DEF j
  <2>3. /\ z \in HeapType /\ z.maps = j.maps /\ z.binmap = j.binmap
        /\ z.arena = j.arena /\ z.space = j.space /\ z.left = j.left
        /\ z.ptr = e /\ z.remaining = 0 /\ z.mem = mem
    <3>1. e \in Nat /\ 0 \in Nat /\ mem \in [Mem -> Int \X Int]
      BY <1>1, <1>3
    <3>2. [j EXCEPT !.ptr = e, !.remaining = 0] \in HeapType
      BY <2>1, <3>1 DEF HeapType
    <3>3. z = [[j EXCEPT !.ptr = e, !.remaining = 0] EXCEPT !.mem = mem]
      BY <2>1, <2>2 DEF HeapType
    <3> QED BY <2>1, <3>1, <3>2, <3>3 DEF HeapType
  <2> QED BY <2>1, <2>3
<1> QED BY <1>3, <1>4 DEF p, l, e, v, IsOpened

LEMMA OpenedRoom ==
  ASSUME NEW h, NEW S, NEW O, NEW B, NEW M, NEW X, Good(h, S, O, B, M, X),
         NEW n \in Nat \ {0}, n + 1 <= ChunkSize, NEW out \in Mmap(h, ArenaSize(n + 2) + ArenaHeader),
         NEW z, z = Opened(out.heap, out.ptr, ArenaSize(n + 2), n)
  PROVE  /\ out.ptr \in Nat \ {0} /\ ~Contiguous(h, out.ptr + ArenaHeader)
         /\ \E T, t : /\ t[2] = out.ptr + ArenaHeader + (n + 1)
                      /\ Room(h, z, S, T, O, B, M, X, t, out.ptr + ArenaHeader)
<1> DEFINE a == out.ptr
           k == out.heap
           size == ArenaSize(n + 2)
           p == Pages(size + ArenaHeader)
           t == FirstRun(a, n)
           T == S \union {t}
<1>1. Layout(S, O, X) /\ h \in HeapType
  BY GoodTags
<1>2. ChunkSize \in Nat /\ size \in Nat /\ n + 2 <= size /\ size <= ChunkSize + 1 /\ ArenaHeader = 2
  BY LeaAssumption DEF ArenaSize, ArenaHeader
<1>3. p \in Nat /\ size + 3 <= p
  <2>1. size + 2 \in Nat
    BY <1>2
  <2>2. Pages(size + 2) \in Nat /\ (size + 2) + 1 <= Pages(size + 2)
    BY <2>1, PagesIs
  <2> QED BY <1>2, <2>2
<1>4. Blank(h, k, a, p)
  <2>1. size + ArenaHeader \in Nat
    BY <1>2
  <2> QED BY <1>1, <2>1, MmapIs
<1> HIDE DEF size, p
<1>5. z = Opened(k, a, size, n)
  BY DEF size
<1> HIDE DEF a, k
<1>6. Mapped(h, k, a, p)
  BY <1>4 DEF Blank
<1>7. k \in HeapType /\ a \in Nat \ {0} /\ a \in Granule /\ a + p - 1 <= MemTop
      /\ k.maps = h.maps \union {<<a, p>>} /\ k.binmap = h.binmap
      /\ \A m \in h.maps : a + p <= m[1] \/ m[1] + m[2] <= a
  BY <1>6 DEF Mapped, Granule
<1>8. a + 1 \in Mem /\ a + 1 \in Granule /\ a + 2 \in Mem /\ a + 2 \in Granule
  <2>1. a + 1 \in Granule /\ a + 2 \in Granule
    BY <1>2, <1>3, <1>7, LeaAssumption DEF Granule
  <2> QED BY <2>1 DEF Mem
<1>9. /\ z \in HeapType /\ z.maps = k.maps /\ z.binmap = k.binmap
      /\ z.arena = a /\ z.space = a + ArenaHeader + (n + 2) /\ z.left = size - (n + 2)
      /\ z.ptr = a + ArenaHeader + (n + 1) /\ z.remaining = 0
      /\ z.mem[a + 1] = <<0, size + ArenaHeader>>
      /\ \A g \in Mem \ {a + 1} : z.mem[g] = k.mem[g]
  <2>1. IsOpened(k, z, a, size, n)
    BY <1>2, <1>5, <1>7, <1>8, OpenedIs
  <2> QED BY <2>1 DEF IsOpened
<1>10. Mapped(h, z, a, p)
  <2>1. \A g \in Mem : g \notin a .. a + p - 1 => z.mem[g] = h.mem[g]
    <3> TAKE g \in Mem
    <3> HAVE g \notin a .. a + p - 1
    <3>1. k.mem[g] = h.mem[g]
      BY <1>6 DEF Mapped
    <3>2. g # a + 1
      BY <1>2, <1>3, <1>7
    <3> QED BY <1>9, <3>1, <3>2
  <2> QED BY <1>6, <1>9, <2>1 DEF Mapped
<1>11. /\ Grows(S, T, X, t, a + ArenaHeader) /\ MapsInv(z, T, X)
       /\ Starts(T) = Starts(S) \union {a + ArenaHeader}
  <2>1. n + ArenaHeader + 2 < p
    BY <1>2, <1>3
  <2>2. /\ Grows(S, T, X, t, a + ArenaHeader) /\ MapsInv(z, T, X) /\ Adds(S, T, a + ArenaHeader)
    BY <1>10, <2>1, FirstRunGrows
  <2> QED BY <2>2 DEF Adds
<1>12. AllTags(z, S, O, M, X) /\ Keeps(h, z, O \union X) /\ Rings(z, B) /\ BitsInv(z, B)
  BY <1>10, MappedKeeps
<1>13. t[1] = a + 2 /\ t[2] = a + 2 + (n + 1) /\ t = <<a + 2, a + 2 + (n + 1)>> /\ t \in T
  BY <1>2, <1>7 DEF FirstRun
<1>14. RunBegins(z, t, a + ArenaHeader)
  <2>1. z.mem[a + 2] = <<0, 0>>
    <3>1. k.mem[a + 2] = <<0, 0>>
      <4>1. a + 2 \in a .. a + p - 1
        BY <1>2, <1>3, <1>7
      <4> QED BY <1>4, <1>8, <4>1 DEF Blank
    <3>2. a + 2 # a + 1
      BY <1>7
    <3> QED BY <1>8, <1>9, <3>1, <3>2
  <2>2. GetSize(z, (a + 2) - 1) # 0
    <3>1. (a + 2) - 1 = a + 1 /\ size + ArenaHeader # 0
      BY <1>2, <1>7
    <3> QED BY <1>9, <3>1 DEF GetSize
  <2>3. GetPrevSize(z, a + 2) = 0 /\ ~IsPrevFree(z, a + 2)
    BY <2>1 DEF GetPrevSize, IsPrevFree
  <2> QED BY <1>2, <2>2, <2>3 DEF RunBegins
<1>15. InMap(z, a, z.space + z.left) /\ InMap(z, t[1] - ArenaHeader, z.ptr + z.remaining + 1)
  <2>1. <<a, p>> \in z.maps /\ <<a, p>>[1] = a /\ <<a, p>>[2] = p
    BY <1>7, <1>9
  <2>2. z.space + z.left < a + p
    BY <1>2, <1>3, <1>7, <1>9
  <2>3. z.ptr + z.remaining + 1 < a + p /\ t[1] - ArenaHeader = a
    BY <1>2, <1>3, <1>7, <1>9, <1>13
  <2> QED BY <2>1, <2>2, <2>3 DEF InMap
<1>16. SlopInv(z, T)
  <2>1. z.ptr # NULL /\ t[2] = z.ptr /\ z.ptr + z.remaining <= t[1] + ChunkSize
    BY <1>2, <1>7, <1>9, <1>13 DEF NULL
  <2> QED BY <1>13, <1>15, <2>1 DEF SlopInv
<1>17. ArenaInv(z, T)
  <2>1. /\ z.ptr # NULL /\ z.space = z.ptr + z.remaining + Slop
        /\ <<z.arena + ArenaHeader, z.ptr>> \in T
        /\ z.space + z.left <= z.arena + ArenaHeader + ChunkSize + Slop
    BY <1>2, <1>7, <1>9, <1>13 DEF NULL, Slop
  <2> QED BY <1>9, <1>15, <2>1 DEF ArenaInv
<1>18. ~Contiguous(h, a + ArenaHeader)
  <2> SUFFICES ASSUME h.ptr # NULL PROVE h.ptr + h.remaining + 1 # a + 2
    BY <1>2 DEF Contiguous, Slop
  <2>1. PICK s \in S : s[2] = h.ptr /\ InMap(h, s[1] - ArenaHeader, h.ptr + h.remaining + 1)
    BY DEF Good, SlopInv
  <2>2. PICK m \in h.maps : m[1] = s[1] - 2 /\ h.ptr + h.remaining + 1 < m[1] + m[2]
    BY <1>2, <2>1 DEF InMap
  <2>3. m[1] \in Int /\ m[2] \in Int /\ h.ptr \in Nat /\ h.remaining \in Nat
        /\ s[1] \in Int /\ s[2] \in Int /\ s[1] < s[2]
    BY <1>1, LayoutTypes DEF HeapType
  <2>4. a + p <= m[1] \/ m[1] + m[2] <= a
    BY <1>7
  <2> QED BY <1>2, <1>3, <1>7, <2>1, <2>2, <2>3, <2>4
<1>19. Room(h, z, S, T, O, B, M, X, t, a + ArenaHeader)
  BY <1>9, <1>11, <1>12, <1>14, <1>16, <1>17 DEF Room
<1>20. t[2] = a + ArenaHeader + (n + 1)
  BY <1>2, <1>13
<1> QED BY <1>7, <1>18, <1>19, <1>20 DEF a

(* The kernel has no room for an arena. *)
LEMMA NoArenaGood ==
  ASSUME NEW h, NEW S, NEW O, NEW B, NEW M, NEW X, Good(h, S, O, B, M, X),
         NEW z, z = [h EXCEPT !.arena = NULL]
  PROVE  Good(z, S, O, B, M, X) /\ Keeps(h, z, O \union X) /\ z.ptr = h.ptr /\ z.remaining = h.remaining
<1>1. Layout(S, O, X) /\ h \in HeapType /\ B \subseteq O /\ M \subseteq O
  BY GoodTags
<1>2. /\ z \in HeapType /\ z.mem = h.mem /\ z.maps = h.maps /\ z.binmap = h.binmap
      /\ z.arena = NULL /\ z.ptr = h.ptr /\ z.remaining = h.remaining
  BY <1>1 DEF HeapType, NULL
<1>3. SameMemory(h, z)
  BY <1>2 DEF SameMemory
<1>4. AllTags(z, S, O, M, X) /\ Keeps(h, z, O \union X) /\ Rings(z, B) /\ BitsInv(z, B)
  BY <1>3, SameMemoryKeeps
<1>5. \A i, e : InMap(z, i, e) <=> InMap(h, i, e)
  BY <1>2 DEF InMap
<1>6. MapsInv(z, S, X)
  BY <1>2, <1>5 DEF Good, MapsInv
<1>7. SlopInv(z, S)
  BY <1>2, <1>5 DEF Good, SlopInv
<1>8. ArenaInv(z, S)
  BY <1>2 DEF ArenaInv
<1> QED BY <1>1, <1>2, <1>4, <1>6, <1>7, <1>8 DEF Good, AllTags

(* What SlopHeap gives for an object of n granules and its header. *)
SlopGives(h, out, S, O, B, M, X, n) ==
  \/ out.ptr = NULL /\ Good(out.heap, S, O, B, M, X) /\ Keeps(h, out.heap, O \union X)
  \/ /\ out.ptr # NULL
     /\ \E T, t : t[2] = out.ptr + (n + 1) /\ Room(h, out.heap, S, T, O, B, M, X, t, out.ptr)

LEMMA RoomSomewhere ==
  ASSUME NEW h, NEW out, NEW S, NEW O, NEW B, NEW M, NEW X, NEW n, NEW T, NEW t,
         t[2] = out.ptr + (n + 1), Room(h, out.heap, S, T, O, B, M, X, t, out.ptr)
  PROVE  SlopGives(h, out, S, O, B, M, X, n)
<1>1. out.ptr \in Granule
  BY DEF Room, Grows
<1>2. out.ptr # NULL
  BY <1>1 DEF Granule, NULL
<1> QED BY <1>2 DEF SlopGives

LEMMA SlopMallocIs ==
  ASSUME NEW h, NEW S, NEW O, NEW B, NEW M, NEW X, Good(h, S, O, B, M, X),
         NEW n \in Nat \ {0}, n <= ThresholdSize, NEW out \in SlopMalloc(h, n + 1)
  PROVE  SlopGives(h, out, S, O, B, M, X, n)
<1>1. h \in HeapType /\ n + 1 <= ChunkSize /\ n + 1 \in Nat \ {0, 1}
  <2>1. ThresholdSize \in Nat /\ ChunkSize \in Nat /\ ThresholdSize < ChunkSize
    BY LeaAssumption
  <2> QED BY <2>1, GoodTags
<1>2. CASE n + 1 <= h.remaining
  <2>1. out = Outcome(h.ptr, [h EXCEPT !.ptr = @ + (n + 1), !.remaining = @ - (n + 1)])
    BY <1>2 DEF SlopMalloc
  <2>2. out.ptr = h.ptr /\ out.heap = [h EXCEPT !.ptr = @ + (n + 1), !.remaining = @ - (n + 1)]
    BY <2>1 DEF Outcome
  <2> DEFINE z == out.heap
  <2>3. \E T, t : t[2] = h.ptr + (n + 1) /\ Room(h, z, S, T, O, B, M, X, t, h.ptr)
    <3>1. z = [h EXCEPT !.ptr = @ + (n + 1), !.remaining = @ - (n + 1)]
      BY <2>2
    <3> HIDE DEF z
    <3> QED BY <1>1, <1>2, <3>1, SlopRoom
  <2> QED BY <2>2, <2>3, RoomSomewhere
<1>3. CASE ~(n + 1 <= h.remaining)
  <2> DEFINE After(zone) == CASE zone.ptr = NULL -> zone
              [] zone.ptr # NULL /\ Contiguous(h, zone.ptr) ->
                   Outcome(h.ptr, [zone.heap EXCEPT !.ptr = @ + (n + 1), !.remaining = @ + Slop])
              [] OTHER ->
                   Outcome(zone.ptr, [zone.heap EXCEPT !.ptr = zone.ptr + (n + 1), !.remaining = 0])
  <2>1. PICK zone \in ZoneMalloc(h, n + 1 + Slop) : out = After(zone)
    BY <1>3 DEF SlopMalloc
  <2>2. n + 1 + Slop = n + 2
    BY DEF Slop
  <2> DEFINE Given(z) == IF z.arena = NULL THEN Outcome(NULL, z)
                         ELSE Outcome(z.space, [z EXCEPT !.space = @ + (n + 2), !.left = @ - (n + 2)])
  <2>3. PICK z \in (IF HasRoom(h, n + 2) THEN {h} ELSE NewArena(h, n + 2)) : zone = Given(z)
    BY <2>1, <2>2 DEF ZoneMalloc
  <2>4. CASE HasRoom(h, n + 2)
    <3>1. z = h /\ h.arena # NULL
      BY <2>3, <2>4 DEF HasRoom
    <3>2. zone.ptr = h.space /\ zone.heap = [h EXCEPT !.space = @ + (n + 2), !.left = @ - (n + 2)]
      BY <2>3, <3>1 DEF Outcome
    <3> DEFINE w == [h EXCEPT !.space = @ + (n + 1 + Slop), !.left = @ - (n + 1 + Slop),
                              !.ptr = @ + (n + 1), !.remaining = @ + Slop]
    <3>3. /\ Contiguous(h, h.space)
          /\ \E T, t : t[2] = h.ptr + (n + 1) /\ Room(h, w, S, T, O, B, M, X, t, h.ptr)
      <4>1. HasRoom(h, n + 1 + Slop)
        BY <2>2, <2>4
      <4> QED BY <1>1, <4>1, ArenaRoom
    <3>4. h.space # NULL
      BY <1>1, <3>3 DEF Contiguous, Slop, NULL, HeapType
    <3>5. out = Outcome(h.ptr, [zone.heap EXCEPT !.ptr = @ + (n + 1), !.remaining = @ + Slop])
      BY <2>1, <3>2, <3>3, <3>4
    <3>6. out.heap = w /\ out.ptr = h.ptr
      BY <1>1, <2>2, <3>2, <3>5 DEF Outcome, HeapType
    <3> HIDE DEF w
    <3> QED BY <3>3, <3>6, RoomSomewhere
  <2>5. CASE ~HasRoom(h, n + 2)
    <3> DEFINE size == ArenaSize(n + 2)
               outs == Mmap(h, size + ArenaHeader)
    <3>1. z \in NewArena(h, n + 2)
      BY <2>3, <2>5
    <3>2. CASE z = [h EXCEPT !.arena = NULL]
      <4>1. z = [h EXCEPT !.arena = NULL]
        BY <3>2
      <4>2. z.arena = NULL
        BY <1>1, <4>1 DEF HeapType
      <4>3. out.ptr = NULL /\ out.heap = z
        BY <2>1, <2>3, <4>2 DEF Outcome
      <4>4. Good(z, S, O, B, M, X) /\ Keeps(h, z, O \union X)
        BY <4>1, NoArenaGood
      <4> QED BY <4>3, <4>4 DEF SlopGives
    <3>3. CASE z # [h EXCEPT !.arena = NULL]
      <4>1. PICK map \in outs :
              z = [map.heap EXCEPT !.arena = map.ptr, !.space = map.ptr + ArenaHeader, !.left = size,
                                   !.mem[map.ptr + 1] = <<0, size + ArenaHeader>>]
        BY <3>1, <3>3 DEF NewArena, ArenaSize
      <4> DEFINE a == map.ptr
                 k == map.heap
                 w == Opened(k, a, size, n)
      <4>2. k \in HeapType
        <5>1. size + ArenaHeader \in Nat
          BY LeaAssumption DEF ArenaSize, ArenaHeader
        <5>2. map \in Mmap(h, size + ArenaHeader)
          BY <4>1
        <5> QED BY <1>1, <5>1, <5>2, MmapIs DEF Blank, Mapped
      <4>3. /\ a \in Nat \ {0} /\ ~Contiguous(h, a + ArenaHeader)
            /\ \E T, t : /\ t[2] = a + ArenaHeader + (n + 1)
                         /\ Room(h, w, S, T, O, B, M, X, t, a + ArenaHeader)
        BY <1>1, OpenedRoom
      <4>4. z = [k EXCEPT !.arena = a, !.space = a + ArenaHeader, !.left = size,
                          !.mem[a + 1] = <<0, size + ArenaHeader>>]
        BY <4>1
      <4> HIDE DEF a, k, size
      <4>5. z.arena = a /\ z.space = a + ArenaHeader /\ a # NULL /\ z.left = size
        BY <4>2, <4>3, <4>4 DEF HeapType, NULL
      <4>6. /\ zone.ptr = a + ArenaHeader /\ zone.ptr # NULL
            /\ zone.heap = [z EXCEPT !.space = @ + (n + 2), !.left = @ - (n + 2)]
        BY <2>3, <4>3, <4>5 DEF Outcome, ArenaHeader, NULL
      <4>7. out = Outcome(zone.ptr, [zone.heap EXCEPT !.ptr = zone.ptr + (n + 1), !.remaining = 0])
        BY <2>1, <4>3, <4>6
      <4>8. out.ptr = a + ArenaHeader /\ out.heap = w
        <5>1. zone.heap = [k EXCEPT !.arena = a, !.space = a + ArenaHeader + (n + 2),
                                    !.left = size - (n + 2), !.mem[a + 1] = <<0, size + ArenaHeader>>]
          BY <4>2, <4>4, <4>5, <4>6 DEF HeapType
        <5>2. out.ptr = a + ArenaHeader
              /\ out.heap = [zone.heap EXCEPT !.ptr = a + ArenaHeader + (n + 1), !.remaining = 0]
          BY <4>6, <4>7 DEF Outcome
        <5> DEFINE mem == [k.mem EXCEPT ![a + 1] = <<0, size + ArenaHeader>>]
                   p == a + ArenaHeader + (n + 2)
                   l == size - (n + 2)
                   e == a + ArenaHeader + (n + 1)
        <5>3. zone.heap = [k EXCEPT !.arena = a, !.space = p, !.left = l, !.mem = mem]
          BY <5>1
        <5>4. w = [k EXCEPT !.arena = a, !.space = p, !.left = l, !.ptr = e, !.remaining = 0, !.mem = mem]
          BY DEF Opened
        <5>5. out.heap = [zone.heap EXCEPT !.ptr = e, !.remaining = 0]
          BY <5>2
        <5> HIDE DEF mem, p, l, e, w
        <5>6. out.heap = w
          BY <4>2, <5>3, <5>4, <5>5 DEF HeapType
        <5> QED BY <5>2, <5>6
      <4> HIDE DEF w
      <4> QED BY <4>3, <4>8, RoomSomewhere
    <3> QED BY <3>2, <3>3
  <2> QED BY <2>4, <2>5
<1> QED BY <1>2, <1>3

(* A new object behind the run, which no bin has.                          *)
GrownBy(h, k, S, T, O, B, M, N, X, u) ==
  /\ Good(k, T, O \union {u}, B, N, X) /\ u \notin O /\ Keeps(h, k, O \union X)
  /\ \A o \in O : o \in N <=> o \in M
  /\ Starts(S) \subseteq Starts(T) /\ Starts(T) \subseteq Starts(S) \union {u[1]}

LEMMA GrowGood ==
  ASSUME NEW h, NEW S, NEW O, NEW B, NEW M, NEW X, Good(h, S, O, B, M, X),
         NEW z, NEW T, NEW t, NEW g, Room(h, z, S, T, O, B, M, X, t, g), NEW n \in Nat, t[2] = g + 1 + n,
         NEW k, k = Tagged(z, g, t[2], n)
  PROVE  \E N : GrownBy(h, k, S, T, O, B, M, N, X, New(t, g)) /\ Size(New(t, g)) = n
<1> DEFINE u == New(t, g)
           P == O \union {u}
           N == {p \in P : IF p \in O THEN p \in M ELSE IsPrevFree(z, t[2])}
<1>1. Layout(S, O, X) /\ h \in HeapType /\ B \subseteq O /\ M \subseteq O
  BY GoodTags
<1>2. /\ Grows(S, T, X, t, g) /\ RunBegins(z, t, g)
      /\ z \in HeapType /\ AllTags(z, S, O, M, X) /\ Keeps(h, z, O \union X)
      /\ Rings(z, B) /\ BitsInv(z, B)
      /\ MapsInv(z, T, X) /\ SlopInv(z, T) /\ ArenaInv(z, T)
      /\ Starts(S) \subseteq Starts(T) /\ Starts(T) \subseteq Starts(S) \union {g}
  BY DEF Room
<1>3. Layout(T, P, X) /\ u \notin O /\ u[1] = g /\ u[2] = t[2]
  BY <1>1, <1>2, GrownLayout
<1>4. t \in T /\ t[2] \in Int /\ g \in Int /\ g < t[2] /\ u \in P
  BY <1>2 DEF Grows, Granule
<1>5. Size(u) = n
  BY <1>3, <1>4 DEF Size
<1>6. IsTag(T, P, X, g) /\ IsTag(T, P, X, t[2]) /\ IsTag(T, P, X, t[2] + 1)
  <2> HIDE DEF u, P
  <2> QED BY <1>3, <1>4 DEF IsTag
<1>7. g \in Mem /\ t[2] \in Mem /\ t[2] + 1 \in Mem
  BY <1>3, <1>6, TagsAreGranules
<1>8. TagsMade(z, k, g, t[2], Size(u))
  BY <1>2, <1>4, <1>5, <1>7, TaggedIs
<1>9. AllTags(k, T, P, N, X)
  <2>1. N \in SUBSET P /\ \A p \in P : p \in N <=> IF p \in O THEN p \in M ELSE IsPrevFree(z, t[2])
    OBVIOUS
  <2> HIDE DEF N
  <2> QED BY <1>1, <1>2, <1>8, <2>1, GrownTags
<1>10. Writes(z, k, {g, t[2], t[2] + 1})
  BY <1>8 DEF TagsMade
<1>11. Keeps(z, k, P \union X) /\ KeepsEntries(z, k, P)
  <2>1. AreTags(T, P, X, {g, t[2], t[2] + 1})
    BY <1>6 DEF AreTags
  <2> HIDE DEF P
  <2> QED BY <1>3, <1>10, <2>1, TagWritesKeep
<1>12. Keeps(h, k, O \union X)
  BY <1>2, <1>11 DEF Keeps
<1>13. Rings(k, B)
  BY <1>1, <1>2, <1>11, RingsFrame DEF KeepsEntries
<1>14. k \in HeapType /\ SameZone(z, k) /\ BitsInv(k, B)
  BY <1>2, <1>10, BitsFrame DEF Writes
<1>15. MapsInv(k, T, X) /\ SlopInv(k, T) /\ ArenaInv(k, T)
  BY <1>2, <1>14, ZoneFrame
<1>16. B \subseteq P /\ N \subseteq P /\ \A o \in O : o \in N <=> o \in M
  BY <1>1
<1> HIDE DEF N, P
<1>17. Good(k, T, P, B, N, X)
  BY <1>3, <1>9, <1>13, <1>14, <1>15, <1>16 DEF Good, AllTags
<1>18. GrownBy(h, k, S, T, O, B, M, N, X, u)
  BY <1>2, <1>3, <1>12, <1>16, <1>17 DEF GrownBy, P
<1> QED BY <1>5, <1>18

(* CoalesceableHeap gives a new object.                                    *)
BigGives(h, out, S, O, B, M, X, n) ==
  \/ out.ptr = NULL /\ Good(out.heap, S, O, B, M, X) /\ Keeps(h, out.heap, O \union X)
  \/ \E T, N, u : /\ out.ptr = u[1] + 1 /\ Size(u) = n
                  /\ GrownBy(h, out.heap, S, T, O, B, M, N, X, u)

LEMMA CoalesceableMallocIs ==
  ASSUME NEW h, NEW S, NEW O, NEW B, NEW M, NEW X, Good(h, S, O, B, M, X),
         NEW n \in Nat \ {0}, n <= ThresholdSize, NEW out \in CoalesceableMalloc(h, n)
  PROVE  BigGives(h, out, S, O, B, M, X, n)
<1>1. PICK got \in SlopMalloc(h, n + 1) :
        out = IF got.ptr = NULL THEN got
              ELSE Outcome(got.ptr + 1, Tagged(got.heap, got.ptr, got.ptr + 1 + n, n))
  BY DEF CoalesceableMalloc, Tagged
<1>2. SlopGives(h, got, S, O, B, M, X, n)
  BY SlopMallocIs
<1>3. CASE got.ptr = NULL /\ Good(got.heap, S, O, B, M, X) /\ Keeps(h, got.heap, O \union X)
  BY <1>1, <1>3 DEF BigGives
<1>4. CASE /\ got.ptr # NULL
           /\ \E T, t : t[2] = got.ptr + (n + 1) /\ Room(h, got.heap, S, T, O, B, M, X, t, got.ptr)
  <2> DEFINE g == got.ptr
             z == got.heap
  <2>1. PICK T, t : t[2] = g + (n + 1) /\ Room(h, z, S, T, O, B, M, X, t, g)
    BY <1>4
  <2>2. g \in Granule /\ g \in Int
    BY <2>1 DEF Room, Grows, Granule
  <2>3. t[2] = g + 1 + n
    BY <2>1, <2>2
  <2>4. out.ptr = g + 1 /\ out.heap = Tagged(z, g, t[2], n)
    BY <1>1, <1>4, <2>3 DEF Outcome
  <2> HIDE DEF g, z
  <2>5. \E N : GrownBy(h, out.heap, S, T, O, B, M, N, X, New(t, g)) /\ Size(New(t, g)) = n
    <3>1. \A k : k = Tagged(z, g, t[2], n) =>
            \E N : GrownBy(h, k, S, T, O, B, M, N, X, New(t, g)) /\ Size(New(t, g)) = n
      BY <2>1, <2>3, GrowGood
    <3> QED BY <2>4, <3>1
  <2>6. New(t, g)[1] = g
    BY DEF New
  <2> QED BY <2>4, <2>5, <2>6 DEF BigGives
<1> QED BY <1>2, <1>3, <1>4 DEF SlopGives

-----------------------------------------------------------------------------
(* Where the map of bins leads.                                            *)

LEMMA DivisionUnique ==
  ASSUME NEW n \in Nat \ {0}, NEW q \in Nat, NEW r \in 0 .. n - 1
  PROVE  (q * n + r) \div n = q /\ (q * n + r) % n = r
<1> DEFINE x == q * n + r
           d == x \div n
           s == x % n
<1>1. q * n \in Nat /\ x \in Nat
  OBVIOUS
<1>2. d \in Nat /\ s \in 0 .. n - 1 /\ x = d * n + s
  BY <1>1, Division
<1>3. d * n \in Int /\ x = q * n + r
  BY <1>2
<1> HIDE DEF x, d, s
<1>4. d = q
  <2>1. ASSUME d * n < q * n PROVE FALSE
    <3>1. d * n + n <= q * n
      BY <1>2, <2>1, MultiplesApart
    <3> QED BY <1>1, <1>2, <1>3, <3>1
  <2>2. ASSUME q * n < d * n PROVE FALSE
    <3>1. q * n + n <= d * n
      BY <1>2, <2>2, MultiplesApart
    <3> QED BY <1>1, <1>2, <1>3, <3>1
  <2>3. d * n = q * n
    BY <1>1, <1>3, <2>1, <2>2
  <2>4. ASSUME d < q PROVE FALSE
    <3>1. (d + 1) * n <= q * n
      BY <1>2, <2>4
    <3>2. (d + 1) * n = d * n + n
      BY <1>2
    <3> QED BY <1>1, <1>3, <2>3, <3>1, <3>2
  <2>5. ASSUME q < d PROVE FALSE
    <3>1. (q + 1) * n <= d * n
      BY <1>2, <2>5
    <3>2. (q + 1) * n = q * n + n
      OBVIOUS
    <3> QED BY <1>1, <1>3, <2>3, <3>1, <3>2
  <2> QED BY <1>2, <2>4, <2>5
<1>5. s = r
  BY <1>1, <1>2, <1>3, <1>4
<1> QED BY <1>4, <1>5 DEF x, d, s

(* Where a bin stands in its block. *)
Place(c) == c % LongBits
Base(k) == k * LongBits

LEMMA BitWidths ==
  /\ IntBits \in Nat \ {0} /\ LongBits \in Nat \ {0}
  /\ LongBits = IntBits \/ LongBits = 2 * IntBits
BY LeaAssumption

LEMMA BitOfPlace ==
  ASSUME NEW r \in 0 .. LongBits - 1
  PROVE  r % IntBits = IF r < IntBits THEN r ELSE r - IntBits
<1>1. CASE r < IntBits
  <2>1. (0 * IntBits + r) % IntBits = r
    <3>1. r \in 0 .. IntBits - 1 /\ 0 \in Nat
      BY <1>1, BitWidths
    <3> QED BY <3>1, BitWidths, DivisionUnique
  <2>2. 0 * IntBits + r = r
    BY BitWidths
  <2> QED BY <1>1, <2>1, <2>2
<1>2. CASE ~(r < IntBits)
  <2>1. (1 * IntBits + (r - IntBits)) % IntBits = r - IntBits
    <3>1. r - IntBits \in 0 .. IntBits - 1 /\ 1 \in Nat
      BY <1>2, BitWidths
    <3> QED BY <3>1, BitWidths, DivisionUnique
  <2>2. 1 * IntBits + (r - IntBits) = r
    BY BitWidths
  <2> QED BY <1>2, <2>1, <2>2
<1> QED BY <1>1, <1>2

LEMMA BinPlace ==
  ASSUME NEW c \in Bins
  PROVE  /\ c = Base(Block(c)) + Place(c) /\ Place(c) \in 0 .. LongBits - 1
         /\ Block(c) \in Nat /\ Base(Block(c)) \in Nat /\ c \in Nat /\ c < NumBins
         /\ Bit(c) = IF Place(c) < IntBits THEN Place(c) ELSE Place(c) - IntBits
<1>1. c \in Nat /\ c < NumBins
  BY BinFacts
<1>2. Block(c) \in Nat /\ Place(c) \in 0 .. LongBits - 1 /\ c = Base(Block(c)) + Place(c)
  BY <1>1, BitWidths, Division DEF Block, Place, Base
<1>3. Base(Block(c)) \in Nat
  BY <1>2, BitWidths DEF Base
<1>4. Bit(c) = IF Place(c) < IntBits THEN Place(c) ELSE Place(c) - IntBits
  BY <1>2, BitOfPlace DEF Bit, Place
<1> QED BY <1>1, <1>2, <1>3, <1>4

LEMMA PlaceInBlock ==
  ASSUME NEW k \in Nat, NEW r \in 0 .. LongBits - 1
  PROVE  /\ Block(Base(k) + r) = k
         /\ Bit(Base(k) + r) = IF r < IntBits THEN r ELSE r - IntBits
<1>1. (k * LongBits + r) \div LongBits = k /\ (k * LongBits + r) % LongBits = r
  BY BitWidths, DivisionUnique
<1> QED BY <1>1, BitOfPlace DEF Block, Bit, Base

(* Later blocks begin behind the whole of earlier ones. *)
LEMMA BlocksApart ==
  ASSUME NEW j \in Nat, NEW k \in Nat, j < k
  PROVE  Base(j) + LongBits <= Base(k) /\ Base(j) \in Nat /\ Base(k) \in Nat
<1>1. (j + 1) * LongBits <= k * LongBits /\ (j + 1) * LongBits = j * LongBits + LongBits
  BY BitWidths
<1> QED BY <1>1, BitWidths DEF Base

(* A block with a bin in its upper half is full. *)
LEMMA FullBlock ==
  ASSUME NEW c \in Bins, IntBits <= Place(c)
  PROVE  LongBits = 2 * IntBits /\ Base(Block(c)) + LongBits <= NumBins
<1>1. /\ c = Base(Block(c)) + Place(c) /\ Place(c) \in 0 .. LongBits - 1
      /\ Block(c) \in Nat /\ Base(Block(c)) \in Nat /\ c < NumBins
  BY BinPlace
<1>2. LongBits = 2 * IntBits /\ IntBits \in Nat \ {0}
  BY <1>1, BitWidths
<1> DEFINE q == NumBins \div LongBits
           r == NumBins % LongBits
<1>3. NumBins \in Nat /\ q \in Nat /\ NumBins = Base(q) + r /\ r \in Nat /\ Base(q) \in Nat
  <2>1. NumBins \in Nat
    BY BinFacts
  <2>2. q \in Nat /\ r \in 0 .. LongBits - 1 /\ NumBins = Base(q) + r
    BY <2>1, BitWidths, Division DEF Base
  <2>3. Base(q) \in Nat /\ r \in Nat
    BY <2>2, BitWidths DEF Base
  <2> QED BY <2>1, <2>2, <2>3
<1>4. r <= IntBits
  BY LeaAssumption
<1> HIDE DEF q, r
<1>5. CASE Block(c) < q
  <2>1. Base(Block(c)) + LongBits <= Base(q)
    BY <1>1, <1>3, <1>5, BlocksApart
  <2> QED BY <1>1, <1>2, <1>3, <2>1
<1>6. CASE Block(c) = q
  BY <1>1, <1>2, <1>3, <1>4, <1>6
<1>7. CASE q < Block(c)
  <2>1. Base(q) + LongBits <= Base(Block(c))
    BY <1>1, <1>3, <1>7, BlocksApart
  <2> QED BY <1>1, <1>2, <1>3, <1>4, <2>1
<1> QED BY <1>1, <1>3, <1>5, <1>6, <1>7

(* Every bit of the map is that of a bin. *)
KnownBits(h) ==
  /\ DOMAIN h.binmap = MapBlocks
  /\ \A k \in MapBlocks : \A b \in h.binmap[k] : \E d \in Bins : Block(d) = k /\ Bit(d) = b

(* A look is at a bin that has this bit, of the class asked for or more.   *)
LooksAt(l, c) == l[3] \in Bins /\ Block(l[3]) = l[1] /\ Bit(l[3]) = l[2] /\ c <= l[3]

LEMMA LookIsBin ==
  ASSUME NEW h, KnownBits(h), NEW c \in Bins, NEW l \in Looks(h, c)
  PROVE  LooksAt(l, c)
<1>1. /\ c = Base(Block(c)) + Place(c) /\ Place(c) \in 0 .. LongBits - 1
      /\ Block(c) \in Nat /\ Base(Block(c)) \in Nat /\ c < NumBins
      /\ Bit(c) = IF Place(c) < IntBits THEN Place(c) ELSE Place(c) - IntBits
  BY BinPlace
<1>2. IntBits \in Nat \ {0} /\ LongBits \in Nat \ {0} /\ Bins = 0 .. NumBins - 1 /\ NumBins \in Nat
  BY BitWidths, BinFacts
<1>3. ASSUME NEW d \in Bins
      PROVE  /\ Base(Block(d)) + Bit(d) \in Bins /\ Block(Base(Block(d)) + Bit(d)) = Block(d)
             /\ Bit(Base(Block(d)) + Bit(d)) = Bit(d)
  <2>1. /\ d = Base(Block(d)) + Place(d) /\ Place(d) \in 0 .. LongBits - 1
        /\ Block(d) \in Nat /\ Base(Block(d)) \in Nat /\ d < NumBins
        /\ Bit(d) = IF Place(d) < IntBits THEN Place(d) ELSE Place(d) - IntBits
    BY BinPlace
  <2>2. Bit(d) \in 0 .. LongBits - 1 /\ Bit(d) < IntBits /\ Bit(d) <= Place(d)
    BY <1>2, <2>1, BitWidths
  <2>3. Base(Block(d)) + Bit(d) \in Bins
    BY <1>2, <2>1, <2>2
  <2>4. Block(Base(Block(d)) + Bit(d)) = Block(d)
    BY <2>1, <2>2, PlaceInBlock
  <2>5. Bit(Base(Block(d)) + Bit(d)) = Bit(d)
    BY <2>1, <2>2, PlaceInBlock
  <2> QED BY <2>3, <2>4, <2>5
<1>4. CASE \E b \in h.binmap[Block(c)] : b >= Bit(c) /\ l = <<Block(c), b, c + b - Bit(c)>>
  <2>1. PICK b \in h.binmap[Block(c)] : b >= Bit(c) /\ l = <<Block(c), b, c + b - Bit(c)>>
    BY <1>4
  <2>2. PICK d \in Bins : Block(d) = Block(c) /\ Bit(d) = b
    BY BitFacts DEF KnownBits
  <2>3. b \in 0 .. IntBits - 1 /\ Bit(c) \in 0 .. IntBits - 1
    BY <2>2, BitFacts
  <2>4. CASE Place(c) < IntBits
    <3>1. c + b - Bit(c) = Base(Block(d)) + Bit(d)
      BY <1>1, <2>2, <2>3, <2>4
    <3>2. c <= c + b - Bit(c)
      BY <1>1, <2>1, <2>3
    <3> QED BY <1>3, <2>1, <2>2, <3>1, <3>2 DEF LooksAt
  <2>5. CASE ~(Place(c) < IntBits)
    <3>1. LongBits = 2 * IntBits /\ Base(Block(c)) + LongBits <= NumBins
      BY <1>1, <1>2, <2>5, FullBlock
    <3>2. c + b - Bit(c) = Base(Block(c)) + (IntBits + b) /\ c <= c + b - Bit(c)
      <4>1. Bit(c) = Place(c) - IntBits
        BY <1>1, <2>5
      <4>2. c = Base(Block(c)) + Place(c) /\ Place(c) \in Int /\ Base(Block(c)) \in Int /\ IntBits \in Int
            /\ b \in Int /\ Bit(c) <= b /\ Bit(c) \in Int
        BY <1>1, <1>2, <2>1, <2>3
      <4> QED BY <4>1, <4>2
    <3>3. IntBits + b \in 0 .. LongBits - 1 /\ ~(IntBits + b < IntBits) /\ IntBits + b - IntBits = b
      BY <1>2, <2>3, <3>1
    <3>4. c + b - Bit(c) \in Bins
      BY <1>1, <1>2, <3>1, <3>2, <3>3
    <3>5. Block(c + b - Bit(c)) = Block(c) /\ Bit(c + b - Bit(c)) = b
      <4>1. /\ Block(Base(Block(c)) + (IntBits + b)) = Block(c)
            /\ Bit(Base(Block(c)) + (IntBits + b)) = b
        <5> DEFINE r == IntBits + b
        <5>1. r \in 0 .. LongBits - 1 /\ ~(r < IntBits) /\ r - IntBits = b
          BY <1>2, <2>3, <3>1
        <5> HIDE DEF r
        <5>2. Block(Base(Block(c)) + r) = Block(c) /\ Bit(Base(Block(c)) + r) = r - IntBits
          BY <1>1, <5>1, PlaceInBlock
        <5> QED BY <5>1, <5>2 DEF r
      <4> QED BY <3>2, <4>1
    <3> QED BY <2>1, <3>2, <3>4, <3>5 DEF LooksAt
  <2> QED BY <2>4, <2>5
<1>5. CASE \E k \in MapBlocks : k > Block(c) /\ \E b \in h.binmap[k] : l = <<k, b, k * LongBits + b>>
  <2>1. PICK k \in MapBlocks : k > Block(c) /\ \E b \in h.binmap[k] : l = <<k, b, k * LongBits + b>>
    BY <1>5
  <2>2. PICK b \in h.binmap[k] : l = <<k, b, k * LongBits + b>>
    BY <2>1
  <2>3. PICK d \in Bins : Block(d) = k /\ Bit(d) = b
    BY DEF KnownBits
  <2>4. l[3] = Base(Block(d)) + Bit(d)
    BY <2>2, <2>3 DEF Base
  <2>5. c <= l[3]
    <3>1. k \in Nat /\ b \in 0 .. IntBits - 1
      BY <2>3, BitFacts
    <3>2. Base(Block(c)) + LongBits <= Base(k) /\ Base(k) \in Nat
      BY <1>1, <2>1, <3>1, BlocksApart
    <3> QED BY <1>1, <1>2, <2>3, <2>4, <3>1, <3>2
  <2> QED BY <1>3, <2>2, <2>3, <2>4, <2>5 DEF LooksAt
<1>6. l \in {<<Block(c), b, c + b - Bit(c)>> : b \in {b \in h.binmap[Block(c)] : b >= Bit(c)}}
      \/ \E k \in DOMAIN h.binmap : k > Block(c) /\ l \in {<<k, b, k * LongBits + b>> : b \in h.binmap[k]}
  BY DEF Looks
<1> QED BY <1>4, <1>5, <1>6 DEF KnownBits

(* A bit no other bin has leads to its bin.                                *)
LEMMA OwnBitIsLook ==
  ASSUME NEW h, KnownBits(h), NEW c \in Bins, NEW d \in Bins, c <= d, HasOwnBit(d), Bit(d) \in h.binmap[Block(d)]
  PROVE  \E l \in Looks(h, c) : l[3] = d
<1>1. /\ c = Base(Block(c)) + Place(c) /\ Place(c) \in 0 .. LongBits - 1
      /\ Block(c) \in Nat /\ Base(Block(c)) \in Nat
      /\ Bit(c) = IF Place(c) < IntBits THEN Place(c) ELSE Place(c) - IntBits
  BY BinPlace
<1>2. /\ d = Base(Block(d)) + Place(d) /\ Place(d) \in 0 .. LongBits - 1
      /\ Block(d) \in Nat /\ Base(Block(d)) \in Nat /\ d < NumBins
      /\ Bit(d) = IF Place(d) < IntBits THEN Place(d) ELSE Place(d) - IntBits
  BY BinPlace
<1>3. IntBits \in Nat \ {0} /\ LongBits \in Nat \ {0} /\ Bins = 0 .. NumBins - 1 /\ NumBins \in Nat
  BY BitWidths, BinFacts
<1>4. Place(d) < IntBits
  <2> SUFFICES ASSUME IntBits <= Place(d) PROVE FALSE
    BY <1>2, <1>3
  <2> DEFINE r == Place(d) - IntBits
             e == Base(Block(d)) + r
  <2>1. LongBits = 2 * IntBits
    BY FullBlock
  <2>2. r \in 0 .. LongBits - 1 /\ r < IntBits
    BY <1>2, <1>3, <2>1
  <2>3. e \in Bins /\ e # d
    BY <1>2, <1>3, <2>2
  <2>4. Block(e) = Block(d) /\ Bit(e) = r
    BY <1>2, <2>2, PlaceInBlock
  <2>5. Bit(d) = r
    BY <1>2, <1>3
  <2> HIDE DEF e, r
  <2> QED BY <2>3, <2>4, <2>5 DEF HasOwnBit
<1>5. Bit(d) = Place(d)
  BY <1>2, <1>4
<1>6. CASE Block(d) = Block(c)
  <2>1. Place(c) <= Place(d) /\ Bit(c) = Place(c)
    BY <1>1, <1>2, <1>3, <1>4, <1>6
  <2>2. Bit(d) >= Bit(c) /\ c + Bit(d) - Bit(c) = d
    BY <1>1, <1>2, <1>5, <1>6, <2>1
  <2> DEFINE l == <<Block(c), Bit(d), c + Bit(d) - Bit(c)>>
  <2>3. l \in Looks(h, c)
    BY <1>6, <2>2 DEF Looks
  <2> QED BY <2>2, <2>3
<1>7. CASE Block(d) > Block(c)
  <2> DEFINE l == <<Block(d), Bit(d), Block(d) * LongBits + Bit(d)>>
  <2>1. Block(d) \in DOMAIN h.binmap
    BY BitFacts DEF KnownBits
  <2>2. l \in Looks(h, c)
    BY <1>7, <2>1 DEF Looks
  <2>3. l[3] = d
    BY <1>2, <1>5 DEF Base
  <2> QED BY <2>2, <2>3
<1>8. CASE Block(d) < Block(c)
  <2>1. Base(Block(d)) + LongBits <= Base(Block(c))
    BY <1>1, <1>2, <1>8, BlocksApart
  <2> QED BY <1>1, <1>2, <1>3, <2>1
<1> QED BY <1>1, <1>2, <1>6, <1>7, <1>8

-----------------------------------------------------------------------------
(* Looking for an object in the bins.                                      *)

LEMMA GoodBits ==
  ASSUME NEW h, NEW S, NEW O, NEW B, NEW M, NEW X, Good(h, S, O, B, M, X)
  PROVE  KnownBits(h)
<1>1. h \in HeapType /\ BitsInv(h, B)
  BY DEF Good
<1>2. DOMAIN h.binmap = MapBlocks
  BY <1>1 DEF HeapType
<1> QED BY <1>1, <1>2 DEF BitsInv, KnownBits

LEMMA BinEmpty ==
  ASSUME NEW h, NEW S, NEW O, NEW B, NEW M, NEW X, Good(h, S, O, B, M, X), NEW c \in Bins
  PROVE  /\ IsEmpty(h, c) <=> \A o \in B : FreeClass(Size(o)) # c
         /\ ~IsEmpty(h, c) => \E o \in B : FreeClass(Size(o)) = c /\ First(h, c) = o[1] + 1
<1> DEFINE E == Entries(B, c)
<1>1. Layout(S, O, X) /\ B \subseteq O /\ IsRing(h.mem, E, Head(c))
  BY GoodTags DEF Good, Rings
<1>2. Head(c) \notin E
  BY <1>1, RingInMem
<1>3. E = {} <=> \A o \in B : FreeClass(Size(o)) # c
  BY DEF Entries
<1>4. \A e \in E : \E o \in B : FreeClass(Size(o)) = c /\ e = o[1] + 1
  BY DEF Entries
<1> HIDE DEF E
<1>5. /\ h.mem[Head(c)][2] = Head(c) <=> E = {}
      /\ h.mem[Head(c)][2] # Head(c) => h.mem[Head(c)][2] \in E
  BY <1>1, <1>2, RingEmpty
<1> QED BY <1>3, <1>4, <1>5 DEF IsEmpty, First

(* The map of bins alone changes.                                          *)
MapOnly(h, k) == k \in HeapType /\ SameZone(h, k) /\ k.mem = h.mem

LEMMA MapOnlyGood ==
  ASSUME NEW h, NEW k, NEW S, NEW O, NEW B, NEW M, NEW X, Good(h, S, O, B, M, X), MapOnly(h, k),
         BitsInv(k, B)
  PROVE  Good(k, S, O, B, M, X)
<1>1. Layout(S, O, X) /\ AllTags(h, S, O, M, X) /\ B \subseteq O /\ M \subseteq O /\ Rings(h, B)
  BY GoodTags DEF Good
<1>2. k.mem = h.mem /\ k \in HeapType /\ SameZone(h, k)
  BY DEF MapOnly
<1>3. AllTags(k, S, O, M, X)
  BY <1>1, <1>2, TagsFrame
<1>4. Rings(k, B)
  BY <1>1, <1>2, RingsFrame
<1>5. MapsInv(k, S, X) /\ SlopInv(k, S) /\ ArenaInv(k, S)
  <2>1. MapsInv(h, S, X) /\ SlopInv(h, S) /\ ArenaInv(h, S)
    BY DEF Good
  <2> QED BY <1>2, <2>1, ZoneFrame
<1> QED BY <1>1, <1>2, <1>3, <1>4, <1>5 DEF Good, AllTags

LEMMA ClearedIs ==
  ASSUME NEW h \in HeapType, NEW looks
  PROVE  /\ MapOnly(h, Cleared(h, looks))
         /\ \A k \in MapBlocks : Cleared(h, looks).binmap[k] =
              {b \in h.binmap[k] : \A l \in looks : <<l[1], l[2]>> # <<k, b>>}
<1> DEFINE m == [k \in MapBlocks |-> {b \in h.binmap[k] : \A l \in looks : <<l[1], l[2]>> # <<k, b>>}]
<1>1. h.binmap \in [MapBlocks -> SUBSET Int] /\ DOMAIN h.binmap = MapBlocks
  BY DEF HeapType
<1>2. Cleared(h, looks) = [h EXCEPT !.binmap = m]
  BY <1>1 DEF Cleared
<1>3. m \in [MapBlocks -> SUBSET Int]
  BY <1>1
<1>4. \A k \in MapBlocks : m[k] = {b \in h.binmap[k] : \A l \in looks : <<l[1], l[2]>> # <<k, b>>}
  OBVIOUS
<1> HIDE DEF m
<1>5. /\ Cleared(h, looks) \in HeapType /\ SameZone(h, Cleared(h, looks)) /\ Cleared(h, looks).mem = h.mem
      /\ Cleared(h, looks).binmap = m
  BY <1>2, <1>3 DEF HeapType, SameZone
<1> QED BY <1>4, <1>5 DEF MapOnly

(* Bits of empty bins can go. *)
LEMMA ClearedGood ==
  ASSUME NEW h, NEW S, NEW O, NEW B, NEW M, NEW X, Good(h, S, O, B, M, X),
         NEW c, NEW looks, \A l \in looks : LooksAt(l, c) /\ IsEmpty(h, l[3])
  PROVE  Good(Cleared(h, looks), S, O, B, M, X) /\ MapOnly(h, Cleared(h, looks))
<1> DEFINE k == Cleared(h, looks)
<1>1. Layout(S, O, X) /\ h \in HeapType /\ B \subseteq O /\ BitsInv(h, B)
  BY GoodTags DEF Good
<1>2. /\ MapOnly(h, k)
      /\ \A j \in MapBlocks : k.binmap[j] = {b \in h.binmap[j] : \A l \in looks : <<l[1], l[2]>> # <<j, b>>}
  BY <1>1, ClearedIs
<1> HIDE DEF k
<1>3. BitsInv(k, B)
  <2>1. \A j \in MapBlocks : \A b \in k.binmap[j] : \E d \in Bins : Block(d) = j /\ Bit(d) = b
    BY <1>1, <1>2 DEF BitsInv
  <2>2. ASSUME NEW o \in B, HasOwnBit(FreeClass(Size(o)))
        PROVE  Bit(FreeClass(Size(o))) \in k.binmap[Block(FreeClass(Size(o)))]
    <3> DEFINE d == FreeClass(Size(o))
    <3>1. d \in Bins
      BY <1>1, ObjectSize
    <3>2. Bit(d) \in h.binmap[Block(d)] /\ Block(d) \in MapBlocks
      BY <1>1, <2>2, <3>1, BitFacts DEF BitsInv
    <3>3. ~IsEmpty(h, d)
      <4>1. ~\A q \in B : FreeClass(Size(q)) # d
        OBVIOUS
      <4> HIDE DEF d
      <4> QED BY <3>1, <4>1, BinEmpty
    <3>4. ASSUME NEW l \in looks, <<l[1], l[2]>> = <<Block(d), Bit(d)>> PROVE FALSE
      <4>1. l[3] \in Bins /\ Block(l[3]) = l[1] /\ Bit(l[3]) = l[2] /\ IsEmpty(h, l[3])
        BY DEF LooksAt
      <4>2. Block(l[3]) = Block(d) /\ Bit(l[3]) = Bit(d)
        BY <3>4, <4>1
      <4>3. l[3] = d
        BY <2>2, <4>1, <4>2 DEF HasOwnBit
      <4> QED BY <3>3, <4>1, <4>3
    <3> HIDE DEF d
    <3>5. Bit(d) \in k.binmap[Block(d)]
      BY <1>2, <3>2, <3>4
    <3> QED BY <3>5 DEF d
  <2> QED BY <2>1, <2>2 DEF BitsInv
<1> QED BY <1>2, <1>3, MapOnlyGood DEF k

LEMMA LeastExists ==
  ASSUME NEW T \in SUBSET Nat, T # {}
  PROVE  \E c \in T : \A d \in T : c <= d
<1> SUFFICES ASSUME ~\E c \in T : \A d \in T : c <= d PROVE FALSE
  OBVIOUS
<1> DEFINE U == {n \in Nat : \A m \in T : n < m}
<1>1. 0 \in U
  <2>1. 0 \notin T
    BY \A d \in T : 0 <= d
  <2> QED BY <2>1
<1>2. ASSUME NEW n \in Nat, n \in U PROVE n + 1 \in U
  <2>1. n + 1 \notin T
    BY <1>2
  <2> QED BY <1>2, <2>1
<1>3. Nat \subseteq U
  <2> HIDE DEF U
  <2> QED BY <1>1, <1>2, SetInduction
<1>4. PICK m \in T : TRUE
  OBVIOUS
<1>5. m \in Nat /\ m \in U
  BY <1>3, <1>4
<1>6. m < m
  BY <1>4, <1>5
<1> QED BY <1>5, <1>6

(* No bin with a bit of its own, from that of the size on, has an object.  *)
NoneFits(h, n) == n \in Sizes => \A c \in Bins : c >= ClassOf[n] /\ HasOwnBit(c) => IsEmpty(h, c)

(* An object is taken from its bin, or put there.                          *)
Taken(h, k, S, O, B, M, X, o) ==
  /\ Good(k, S, O, B \ {o}, M, X)
  /\ Keeps(h, k, (O \ B) \union X) /\ SameZone(h, k)

LEMMA TakeGood ==
  ASSUME NEW h, NEW S, NEW O, NEW B, NEW M, NEW X, Good(h, S, O, B, M, X), NEW o \in B
  PROVE  Taken(h, Unlink(h, o[1] + 1), S, O, B, M, X, o)
<1> DEFINE k == Unlink(h, o[1] + 1)
<1>1. k = Unlink(h, o[1] + 1)
  OBVIOUS
<1> HIDE DEF k
<1>2. /\ Good(k, S, O, B \ {o}, M, X)
      /\ Keeps(h, k, (O \ B) \union X) /\ SameZone(h, k)
  BY <1>1, RemoveGood
<1>3. Taken(h, k, S, O, B, M, X, o)
  BY <1>2 DEF Taken
<1> QED BY <1>1, <1>3

Binned(h, k, S, O, B, M, X, o) ==
  /\ Good(k, S, O, B \union {o}, M, X)
  /\ Keeps(h, k, (O \ (B \union {o})) \union X) /\ SameZone(h, k)

LEMMA PutGood ==
  ASSUME NEW h, NEW S, NEW O, NEW B, NEW M, NEW X, Good(h, S, O, B, M, X), NEW o \in O \ B
  PROVE  Binned(h, SegFree(h, o[1] + 1), S, O, B, M, X, o)
<1> DEFINE k == SegFree(h, o[1] + 1)
<1>1. k = SegFree(h, o[1] + 1)
  OBVIOUS
<1> HIDE DEF k
<1>2. /\ Good(k, S, O, B \union {o}, M, X)
      /\ Keeps(h, k, (O \ (B \union {o})) \union X) /\ SameZone(h, k)
  BY <1>1, BinGood
<1>3. Binned(h, k, S, O, B, M, X, o)
  BY <1>2 DEF Binned
<1> QED BY <1>1, <1>3

(* An object of a bin.                                                     *)
BinGives(h, out, S, O, B, M, X, n) ==
  \E o \in B : /\ out.ptr = o[1] + 1 /\ n <= Size(o)
               /\ Good(out.heap, S, O, B \ {o}, M, X)
               /\ Keeps(h, out.heap, (O \ B) \union X) /\ SameZone(h, out.heap)

SegGives(h, out, S, O, B, M, X, n) ==
  \/ BigGives(h, out, S, O, B, M, X, n) /\ NoneFits(h, n)
  \/ BinGives(h, out, S, O, B, M, X, n)

LEMMA SegMallocIs ==
  ASSUME NEW h, NEW S, NEW O, NEW B, NEW M, NEW X, Good(h, S, O, B, M, X),
         NEW n \in Nat \ {0}, n <= ThresholdSize, NEW out \in SegMalloc(h, n)
  PROVE  SegGives(h, out, S, O, B, M, X, n)
<1> DEFINE c0 == ClassOf[n]
           looks == IF n \in Sizes THEN Looks(h, c0) ELSE {}
           hits == {l[3] : l \in {l \in looks : ~IsEmpty(h, l[3])}}
<1>1. Layout(S, O, X) /\ h \in HeapType /\ B \subseteq O /\ KnownBits(h) /\ BitsInv(h, B)
  BY GoodTags, GoodBits DEF Good
<1>2. n \in Sizes => c0 \in Bins
  BY BinFacts
<1>3. \A l \in looks : n \in Sizes /\ LooksAt(l, c0)
  <2> HIDE DEF c0
  <2> QED BY <1>1, <1>2, LookIsBin
<1>4. hits \in SUBSET Nat /\ hits \subseteq Bins
  BY <1>3, BinFacts DEF LooksAt
<1>5. CASE hits = {}
  <2> DEFINE k == Cleared(h, looks)
  <2>1. out \in CoalesceableMalloc(k, n)
    BY <1>5 DEF SegMalloc
  <2>2. \A l \in looks : IsEmpty(h, l[3])
    BY <1>5
  <2>3. Good(k, S, O, B, M, X) /\ MapOnly(h, k)
    <3> HIDE DEF looks, c0
    <3> QED BY <1>3, <2>2, ClearedGood
  <2> HIDE DEF k
  <2>4. BigGives(k, out, S, O, B, M, X, n)
    BY <2>1, <2>3, CoalesceableMallocIs
  <2>5. BigGives(h, out, S, O, B, M, X, n)
    <3>1. k.mem = h.mem
      BY <2>3 DEF MapOnly
    <3>2. \A j, U : Keeps(k, j, U) <=> Keeps(h, j, U)
      BY <3>1 DEF Keeps
    <3> QED BY <2>4, <3>2 DEF BigGives, GrownBy
  <2>6. NoneFits(h, n)
    <3> SUFFICES ASSUME n \in Sizes, NEW d \in Bins, d >= c0, HasOwnBit(d), ~IsEmpty(h, d) PROVE FALSE
      BY DEF NoneFits
    <3>1. PICK o \in B : FreeClass(Size(o)) = d
      BY BinEmpty
    <3>2. Bit(d) \in h.binmap[Block(d)]
      BY <1>1, <3>1 DEF BitsInv
    <3>3. c0 <= d
      BY <1>2, BinFacts
    <3>4. \E l \in Looks(h, c0) : l[3] = d
      <4> HIDE DEF c0
      <4> QED BY <1>1, <1>2, <3>2, <3>3, OwnBitIsLook
    <3> QED BY <2>2, <3>4
  <2> QED BY <2>5, <2>6 DEF SegGives
<1>6. CASE hits # {}
  <2> DEFINE c == CHOOSE c \in hits : \A d \in hits : c <= d
             vain == {l \in looks : l[3] < c}
             k == Cleared(h, vain)
  <2>1. c \in hits /\ \A d \in hits : c <= d
    <3> HIDE DEF hits
    <3> QED BY <1>4, <1>6, LeastExists
  <2>2. out = Get(k, c)
    BY <1>6 DEF SegMalloc
  <2> HIDE DEF c
  <2>3. \A l \in vain : LooksAt(l, c0) /\ IsEmpty(h, l[3])
    <3>1. ASSUME NEW l \in vain, ~IsEmpty(h, l[3]) PROVE FALSE
      <4>1. l[3] \in hits /\ l[3] < c
        BY <3>1
      <4> HIDE DEF hits, vain, looks
      <4>2. l[3] \in Nat /\ c \in Nat /\ c <= l[3]
        BY <1>4, <2>1, <4>1
      <4> QED BY <4>1, <4>2
    <3> QED BY <1>3, <3>1
  <2>4. c \in Bins /\ ~IsEmpty(h, c) /\ n \in Sizes /\ c0 <= c
    BY <1>3, <2>1 DEF LooksAt
  <2> HIDE DEF looks, hits, vain
  <2>5. Good(k, S, O, B, M, X) /\ MapOnly(h, k)
    <3> HIDE DEF c0
    <3> QED BY <2>3, ClearedGood
  <2> HIDE DEF k
  <2>6. k.mem = h.mem /\ SameZone(h, k)
    BY <2>5 DEF MapOnly
  <2>7. First(k, c) = First(h, c)
    BY <2>6 DEF First
  <2>8. PICK o \in B : FreeClass(Size(o)) = c /\ First(h, c) = o[1] + 1
    BY <2>4, BinEmpty
  <2>9. out.ptr = o[1] + 1 /\ out.heap = Unlink(k, o[1] + 1)
    BY <2>2, <2>7, <2>8 DEF Get, Outcome
  <2>10. /\ Good(out.heap, S, O, B \ {o}, M, X)
         /\ Keeps(k, out.heap, (O \ B) \union X) /\ SameZone(k, out.heap)
    <3>1. Taken(k, Unlink(k, o[1] + 1), S, O, B, M, X, o)
      BY <2>5, TakeGood
    <3> QED BY <2>9, <3>1 DEF Taken
  <2>11. n <= Size(o)
    <3>1. Size(o) \in Sizes /\ ClassMax[c] <= Size(o) /\ Size(o) \in Nat
      BY <1>1, <2>8, ObjectSize, FreeClassIs, BinFacts
    <3>2. ClassMax[c0] >= n /\ ClassMax[c0] \in Nat /\ ClassMax[c] \in Nat /\ c0 \in Nat /\ c \in Nat
      BY <1>2, <2>4, BinFacts, LeaAssumption
    <3>3. c = c0 \/ ClassMax[c0] < ClassMax[c]
      BY <1>2, <2>4, <3>2, ClassesGrow
    <3> QED BY <3>1, <3>2, <3>3
  <2>12. Keeps(h, out.heap, (O \ B) \union X) /\ SameZone(h, out.heap)
    BY <2>6, <2>10 DEF Keeps, SameZone
  <2>13. BinGives(h, out, S, O, B, M, X, n)
    BY <2>9, <2>10, <2>11, <2>12 DEF BinGives
  <2> QED BY <2>13 DEF SegGives
<1> QED BY <1>5, <1>6

-----------------------------------------------------------------------------
(* Malloc of CoalesceHeap.                                                 *)

(* Clients have one object more, or one less.                              *)
Gains(U, V, u) == u \notin U /\ \A v : v \in V <=> v \in U \/ v = u
Loses(U, V, u) == u \in U /\ \A v : v \in V <=> v \in U /\ v # u

SameSlop(h, k) == k.ptr = h.ptr /\ k.remaining = h.remaining

(* What a call that gives the client object u of n granules or more has    *)
(* made of the heap.                                                       *)
Given(h, k, S, O, B, X, T, P, C, Y, u, n) ==
  /\ Steady(k, T, P, C, Y) /\ Gains(InUse(O, B, X), InUse(P, C, Y), u)
  /\ Keeps(h, k, InUse(O, B, X)) /\ n <= Size(u)
  /\ Starts(S) \subseteq Starts(T) /\ Starts(T) \subseteq Starts(S) \union {u[1]}
  /\ u \in Y => Starts(T) \subseteq Starts(S)
  /\ u \in Y \/ SameSlop(h, k) \/ NoneFits(h, n)

LEMMA MarkIs ==
  ASSUME NEW h, NEW S, NEW O, NEW B, NEW M, NEW X, Good(h, S, O, B, M, X), NEW o \in O
  PROVE  /\ MarkFree(h, o[1] + 1) = SetPrevFree(h, o[2], TRUE)
         /\ MarkInUse(h, o[1] + 1) = SetPrevFree(h, o[2], FALSE)
BY NextHeaderIs DEF MarkFree, MarkInUse

LEMMA UnmarkSteady ==
  ASSUME NEW z, NEW T, NEW P, NEW C, NEW N, NEW X, Good(z, T, P, C, N, X), NEW u \in P \ C,
         \A p \in P : p # u => (p \in N <=> p \in Marked(T, C))
  PROVE  /\ Steady(MarkInUse(z, u[1] + 1), T, P, C, X)
         /\ Keeps(z, MarkInUse(z, u[1] + 1), P \union X) /\ SameZone(z, MarkInUse(z, u[1] + 1))
<1>1. PICK k : k = SetPrevFree(z, u[2], FALSE)
  OBVIOUS
<1>2. k = MarkInUse(z, u[1] + 1)
  BY <1>1, MarkIs
<1>3. PICK K : K = Marked(T, C)
  OBVIOUS
<1>4. C \subseteq P /\ u \in P
  BY GoodTags
<1>5. Remarked(z, k, P, N, K, u)
  BY <1>1, <1>3, <1>4 DEF Marked, Remarked
<1>6. Good(k, T, P, C, K, X)
  BY <1>4, <1>5, MarkGood
<1>7. Keeps(z, k, P \union X) /\ Writes(z, k, {u[2]})
  BY <1>4, <1>5, MarkGood
<1> QED BY <1>2, <1>3, <1>6, <1>7 DEF Steady, Writes

LEMMA InUseApart ==
  ASSUME NEW S, NEW O, NEW X, Layout(S, O, X)
  PROVE  \A o \in O : o \notin X
<1> SUFFICES ASSUME NEW o \in O, o \in X PROVE FALSE
  OBVIOUS
<1>1. o[1] # o[1]
  BY HeadersApart
<1> QED BY <1>1

(* The object a bin gave, no longer marked.                                *)
LEMMA BinGiven ==
  ASSUME NEW h, NEW out, NEW S, NEW O, NEW B, NEW X, NEW n,
         Steady(h, S, O, B, X), BinGives(h, out, S, O, B, Marked(S, B), X, n)
  PROVE  \E C, u : /\ out.ptr = u[1] + 1 /\ u \in O
                   /\ Given(h, MarkInUse(out.heap, out.ptr), S, O, B, X, S, O, C, X, u, n)
<1>1. PICK o \in B : /\ out.ptr = o[1] + 1 /\ n <= Size(o)
                     /\ Good(out.heap, S, O, B \ {o}, Marked(S, B), X)
                     /\ Keeps(h, out.heap, (O \ B) \union X) /\ SameZone(h, out.heap)
  BY DEF BinGives
<1> DEFINE z == out.heap
           C == B \ {o}
           k == MarkInUse(z, o[1] + 1)
<1>2. Layout(S, O, X) /\ B \subseteq O
  BY GoodTags DEF Steady
<1>3. \A p \in O : p # o => (p \in Marked(S, B) <=> p \in Marked(S, C))
  BY DEF Marked
<1>4. o \in O \ C /\ Good(z, S, O, C, Marked(S, B), X)
  BY <1>1, <1>2
<1> HIDE DEF C, z
<1>5. Steady(k, S, O, C, X) /\ Keeps(z, k, O \union X) /\ SameZone(z, k)
  BY <1>3, <1>4, UnmarkSteady
<1> HIDE DEF k
<1>6. Gains(InUse(O, B, X), InUse(O, C, X), o)
  <2>1. o \notin X
    BY <1>2, <1>4, InUseApart
  <2> QED BY <1>1, <1>2, <2>1 DEF Gains, InUse, C
<1>7. Keeps(h, k, InUse(O, B, X))
  BY <1>1, <1>5 DEF Keeps, InUse, z
<1>8. o \notin X /\ SameSlop(h, k)
  BY <1>1, <1>2, <1>4, <1>5, InUseApart DEF SameSlop, SameZone, z
<1>9. Given(h, k, S, O, B, X, S, O, C, X, o, n)
  BY <1>1, <1>5, <1>6, <1>7, <1>8 DEF Given
<1>10. k = MarkInUse(out.heap, out.ptr)
  BY <1>1 DEF k, z
<1> QED BY <1>1, <1>4, <1>9, <1>10

(* A new object behind a run, not marked either.                           *)
LEMMA BigGiven ==
  ASSUME NEW h, NEW k, NEW S, NEW O, NEW B, NEW X, NEW n, Steady(h, S, O, B, X), NoneFits(h, n),
         NEW T, NEW N, NEW u, Size(u) = n, n \in Int, GrownBy(h, k, S, T, O, B, Marked(S, B), N, X, u)
  PROVE  \E P : u \in P /\ Given(h, MarkInUse(k, u[1] + 1), S, O, B, X, T, P, B, X, u, n)
<1> DEFINE P == O \union {u}
           l == MarkInUse(k, u[1] + 1)
<1>1. /\ Good(k, T, P, B, N, X) /\ u \notin O /\ Keeps(h, k, O \union X)
      /\ \A o \in O : o \in N <=> o \in Marked(S, B)
      /\ Starts(S) \subseteq Starts(T) /\ Starts(T) \subseteq Starts(S) \union {u[1]}
  BY DEF GrownBy
<1>2. B \subseteq O
  BY GoodTags DEF Steady
<1>3. Layout(T, P, X) /\ u \in P /\ u \in P \ B
  BY <1>1, <1>2, GoodTags
<1>4. ASSUME NEW p \in P, p # u PROVE p \in N <=> p \in Marked(T, B)
  <2>1. p[1] # u[1]
    <3> HIDE DEF P
    <3> QED BY <1>3, <1>4, HeadersApart
  <2>2. p[1] \in Starts(S) <=> p[1] \in Starts(T)
    BY <1>1, <2>1
  <2>3. p \in O
    BY <1>4
  <2> QED BY <1>1, <2>2, <2>3 DEF Marked
<1> HIDE DEF P, l
<1>5. Steady(l, T, P, B, X) /\ Keeps(k, l, P \union X) /\ SameZone(k, l)
  BY <1>1, <1>3, <1>4, UnmarkSteady DEF l
<1>6. u \notin X
  BY <1>3, InUseApart
<1>7. Gains(InUse(O, B, X), InUse(P, B, X), u)
  BY <1>1, <1>2, <1>6 DEF Gains, InUse, P
<1>8. Keeps(h, l, InUse(O, B, X))
  BY <1>1, <1>5 DEF Keeps, InUse, P
<1>9. Given(h, l, S, O, B, X, T, P, B, X, u, n)
  BY <1>1, <1>5, <1>6, <1>7, <1>8 DEF Given
<1> QED BY <1>3, <1>9 DEF l

-----------------------------------------------------------------------------
(* Splitting.                                                              *)

(* Object u is replaced by v, which starts there too.                      *)
Replaced(U, V, u, v) ==
  v[1] = u[1] /\ \A w : w \in V <=> (w \in U /\ w # u) \/ w = v

SplitTo(h, k, T, P, C, Q, D, X, u, v, n) ==
  /\ Steady(k, T, Q, D, X) /\ v \in Q \ D /\ n <= Size(v)
  /\ Replaced(InUse(P, C, X), InUse(Q, D, X), u, v)
  /\ \A w \in InUse(P, C, X) : w # u => w # v
  /\ Keeps(h, k, InUse(P, C, X) \ {u}) /\ SameZone(h, k)

LEMMA SplitText ==
  ASSUME NEW h, NEW g \in Int, NEW n \in Int, NEW actual \in Int, GetSize(h, g) = actual
  PROVE  /\ actual - n < 2 => Split(h, g + 1, n) = h
         /\ actual - n >= 2 => Split(h, g + 1, n) =
              SegFree(MarkFree(CutHeap(h, g, g + 1 + n, n, actual - n - 1), g + 1 + n + 1), g + 1 + n + 1)
<1>1. GetHeader(g + 1) = g /\ g + 1 + n + 1 = (g + 1) + n + 1 /\ GetHeader(g + 1 + n + 1) = g + 1 + n
  BY DEF GetHeader
<1>2. WorthSplitting(actual - n) <=> actual - n >= 2
  BY DEF WorthSplitting
<1>3. (actual - n >= 2) <=> ~(actual - n < 2)
  OBVIOUS
<1> QED BY <1>1, <1>2, <1>3 DEF Split, CutHeap

(* What is left of an object and what is cut off.                          *)
LEMMA NoStartWithin ==
  ASSUME NEW S, NEW O, NEW X, Layout(S, O, X), NEW o \in O, NEW q \in Int, o[1] < q, q < o[2]
  PROVE  q \notin Starts(S)
<1> SUFFICES ASSUME NEW t \in S, t[1] = q PROVE FALSE
  BY DEF Starts
<1>1. o[1] \in Int /\ o[2] \in Int /\ t[1] \in Int /\ t[2] \in Int /\ t[1] < t[2]
  BY LayoutTypes
<1>2. \/ t[1] <= o[1] /\ o[2] <= t[2]
      \/ o[2] + 1 < t[1] - 1
      \/ t[2] + 1 < o[1] - 1
  BY InOrApart
<1> QED BY <1>1, <1>2

LEMMA SplitGood ==
  ASSUME NEW h, NEW T, NEW P, NEW C, NEW X, Steady(h, T, P, C, X), NEW u \in P \ C,
         NEW n \in Nat \ {0}, Size(u) - n >= 2
  PROVE  \E Q, D, v : SplitTo(h, Split(h, u[1] + 1, n), T, P, C, Q, D, X, u, v, n)
<1>1. PICK M : M = Marked(T, C)
  OBVIOUS
<1>2. Good(h, T, P, C, M, X) /\ Layout(T, P, X) /\ C \subseteq P /\ u \in P /\ u \notin M
  BY <1>1, GoodTags DEF Steady, Marked
<1>3. GetSize(h, u[1]) = Size(u)
  BY <1>2, NextHeaderIs
<1>4. u[1] \in Int /\ u[2] \in Int /\ Size(u) \in Int
  BY <1>2, LayoutTypes
<1>5. PICK q \in Int : q = u[1] + 1 + n
  BY <1>4
<1>6. u[1] + 2 <= q /\ q + 2 <= u[2]
  BY <1>4, <1>5 DEF Size
<1>7. PICK l, r : l = Left(u, q) /\ r = Right(u, q)
  OBVIOUS
<1>8. /\ l \notin P /\ r \notin P /\ l # r /\ l[1] = u[1] /\ l[2] = q /\ r[1] = q /\ r[2] = u[2]
  BY <1>2, <1>6, <1>7, PieceFacts
<1>9. Size(l) = n /\ Size(r) = Size(u) - n - 1
  BY <1>4, <1>5, <1>8 DEF Size
<1>10. PICK Q : Q = Cut(P, u, q)
  OBVIOUS
<1>11. \A w : w \in Q <=> (w \in P /\ w # u) \/ w = l \/ w = r
  BY <1>7, <1>10 DEF Cut
<1>12. PICK k1 : k1 = CutHeap(h, u[1], q, Size(l), Size(r))
  OBVIOUS
<1>13. Good(k1, T, Q, C, M, X) /\ Keeps(h, k1, Q \union X) /\ SameZone(h, k1)
  <2>1. k1 = CutHeap(h, u[1], q, Size(Left(u, q)), Size(Right(u, q)))
    BY <1>7, <1>12
  <2>2. /\ Good(k1, T, Cut(P, u, q), C, M, X)
        /\ Keeps(h, k1, Cut(P, u, q) \union X) /\ SameZone(h, k1)
    BY <1>2, <1>6, <2>1, CutGood
  <2> QED BY <1>10, <2>2
<1>14. PICK D : D = C \union {r}
  OBVIOUS
<1>15. PICK N : N = Marked(T, D)
  OBVIOUS
<1>16. PICK k2 : k2 = SetPrevFree(k1, r[2], TRUE)
  OBVIOUS
<1>17. r \in Q /\ r \notin C /\ C \subseteq Q
  BY <1>2, <1>8, <1>11
<1>18. r[1] \notin Starts(T)
  <2>1. u[1] < q /\ q < u[2]
    BY <1>4, <1>6
  <2> QED BY <1>2, <1>8, <2>1, NoStartWithin
<1>19. Remarked(k1, k2, Q, M, N, r)
  <2>1. \A w : w \in N <=> w \in M \/ w = r
    BY <1>1, <1>14, <1>15, <1>18 DEF Marked
  <2>2. M \subseteq Q
    BY <1>1, <1>17 DEF Marked
  <2> QED BY <1>16, <1>17, <2>1, <2>2 DEF Remarked
<1>20. Good(k2, T, Q, C, N, X) /\ Keeps(k1, k2, Q \union X) /\ SameZone(k1, k2)
  BY <1>13, <1>17, <1>19, MarkGood DEF Writes
<1>21. PICK k : k = SegFree(k2, r[1] + 1)
  OBVIOUS
<1>22. Binned(k2, k, T, Q, C, N, X, r)
  BY <1>17, <1>20, <1>21, PutGood
<1>23. Steady(k, T, Q, D, X) /\ Keeps(k2, k, (Q \ D) \union X) /\ SameZone(k2, k)
  BY <1>14, <1>15, <1>22 DEF Binned, Steady
<1>24. k = Split(h, u[1] + 1, n)
  <2>1. k2 = MarkFree(k1, q + 1)
    BY <1>8, <1>13, <1>16, <1>17, MarkIs
  <2>2. k1 = CutHeap(h, u[1], u[1] + 1 + n, n, Size(u) - n - 1)
    BY <1>5, <1>9, <1>12
  <2>3. Split(h, u[1] + 1, n) =
          SegFree(MarkFree(CutHeap(h, u[1], u[1] + 1 + n, n, Size(u) - n - 1), u[1] + 1 + n + 1), u[1] + 1 + n + 1)
    BY <1>3, <1>4, SplitText
  <2> QED BY <1>5, <1>8, <1>21, <2>1, <2>2, <2>3
<1>25. Replaced(InUse(P, C, X), InUse(Q, D, X), u, l)
  BY <1>2, <1>8, <1>11, <1>14, InUseApart DEF Replaced, InUse
<1>26. \A w \in InUse(P, C, X) : w # u => w # l
  <2>1. Layout(T, Q, X) /\ l \in Q
    BY <1>11, <1>13, GoodTags
  <2>2. l \notin X
    BY <2>1, InUseApart
  <2> QED BY <1>8, <2>2 DEF InUse
<1>27. Keeps(h, k, InUse(P, C, X) \ {u}) /\ SameZone(h, k)
  <2>1. \A w \in InUse(P, C, X) \ {u} : w \in (Q \ D) \union X /\ w \in Q \union X
    BY <1>8, <1>11, <1>14 DEF InUse
  <2> QED BY <1>13, <1>20, <1>23, <2>1 DEF Keeps, SameZone
<1>28. l \in Q \ D /\ n <= Size(l)
  BY <1>2, <1>8, <1>9, <1>11, <1>14
<1>29. SplitTo(h, k, T, P, C, Q, D, X, u, l, n)
  BY <1>23, <1>25, <1>26, <1>27, <1>28 DEF SplitTo
<1> QED BY <1>24, <1>29

LEMMA SplitIs ==
  ASSUME NEW h, NEW T, NEW P, NEW C, NEW X, Steady(h, T, P, C, X), NEW u \in P \ C,
         NEW n \in Nat \ {0}, n <= Size(u)
  PROVE  \E Q, D, v : SplitTo(h, Split(h, u[1] + 1, n), T, P, C, Q, D, X, u, v, n)
<1>1. CASE Size(u) - n >= 2
  BY <1>1, SplitGood
<1>2. CASE ~(Size(u) - n >= 2)
  <2>1. Good(h, T, P, C, Marked(T, C), X) /\ Layout(T, P, X) /\ u \in P
    BY GoodTags DEF Steady
  <2>2. GetSize(h, u[1]) = Size(u) /\ u[1] \in Int /\ Size(u) \in Int
    BY <2>1, NextHeaderIs, LayoutTypes
  <2>3. Split(h, u[1] + 1, n) = h
    BY <1>2, <2>2, SplitText
  <2>4. SplitTo(h, h, T, P, C, P, C, X, u, u, n)
    BY <2>1 DEF SplitTo, Replaced, InUse, Keeps, SameZone
  <2> QED BY <2>3, <2>4
<1> QED BY <1>1, <1>2

-----------------------------------------------------------------------------
(* What malloc of CoalesceHeap gives.                                      *)

LEMMA SplitGiven ==
  ASSUME NEW h, NEW k, NEW l, NEW S, NEW O, NEW B, NEW X, NEW T, NEW P, NEW C, NEW u, NEW n,
         Given(h, k, S, O, B, X, T, P, C, X, u, n), u \notin X,
         NEW Q, NEW D, NEW v, SplitTo(k, l, T, P, C, Q, D, X, u, v, n)
  PROVE  Given(h, l, S, O, B, X, T, Q, D, X, v, n)
<1>1. /\ Steady(l, T, Q, D, X) /\ v \in Q \ D /\ n <= Size(v) /\ v[1] = u[1]
      /\ \A w : w \in InUse(Q, D, X) <=> (w \in InUse(P, C, X) /\ w # u) \/ w = v
      /\ \A w \in InUse(P, C, X) : w # u => w # v
      /\ Keeps(k, l, InUse(P, C, X) \ {u}) /\ SameZone(k, l)
  BY DEF SplitTo, Replaced
<1>2. /\ u \notin InUse(O, B, X) /\ \A w : w \in InUse(P, C, X) <=> w \in InUse(O, B, X) \/ w = u
      /\ Keeps(h, k, InUse(O, B, X))
      /\ Starts(S) \subseteq Starts(T) /\ Starts(T) \subseteq Starts(S) \union {u[1]}
      /\ SameSlop(h, k) \/ NoneFits(h, n)
  BY DEF Given, Gains
<1>3. Gains(InUse(O, B, X), InUse(Q, D, X), v)
  BY <1>1, <1>2 DEF Gains
<1>4. Keeps(h, l, InUse(O, B, X))
  BY <1>1, <1>2 DEF Keeps
<1>5. SameSlop(h, l) \/ NoneFits(h, n)
  BY <1>1, <1>2 DEF SameSlop, SameZone
<1>6. v \notin X
  BY <1>1, InUseApart, GoodTags DEF Steady
<1> QED BY <1>1, <1>2, <1>3, <1>4, <1>5, <1>6 DEF Given

(* What a call may come to.                                                *)
NoneGiven(h, out, S, O, B, X) ==
  out.ptr = NULL /\ Steady(out.heap, S, O, B, X) /\ Keeps(h, out.heap, InUse(O, B, X))

Gives(h, out, S, O, B, X, n) ==
  \E T, P, C, Y, u : out.ptr = u[1] + 1 /\ Given(h, out.heap, S, O, B, X, T, P, C, Y, u, n)

LEMMA MarkedGiven ==
  ASSUME NEW h, NEW S, NEW O, NEW B, NEW X, Steady(h, S, O, B, X),
         NEW n \in Nat \ {0}, NEW out, SegGives(h, out, S, O, B, Marked(S, B), X, n)
  PROVE  \/ NoneGiven(h, out, S, O, B, X)
         \/ \E T, P, C, u :
              /\ out.ptr = u[1] + 1 /\ u \in P
              /\ Given(h, MarkInUse(out.heap, out.ptr), S, O, B, X, T, P, C, X, u, n)
<1>1. CASE BinGives(h, out, S, O, B, Marked(S, B), X, n)
  BY <1>1, BinGiven
<1>2. CASE BigGives(h, out, S, O, B, Marked(S, B), X, n) /\ NoneFits(h, n)
  <2>1. CASE /\ out.ptr = NULL /\ Good(out.heap, S, O, B, Marked(S, B), X)
             /\ Keeps(h, out.heap, O \union X)
    BY <2>1 DEF NoneGiven, Steady, Keeps, InUse
  <2>2. CASE \E T, N, u : /\ out.ptr = u[1] + 1 /\ Size(u) = n
                          /\ GrownBy(h, out.heap, S, T, O, B, Marked(S, B), N, X, u)
    <3>1. PICK T, N, u : /\ out.ptr = u[1] + 1 /\ Size(u) = n
                         /\ GrownBy(h, out.heap, S, T, O, B, Marked(S, B), N, X, u)
      BY <2>2
    <3>2. n \in Int
      OBVIOUS
    <3>3. \E P : u \in P /\ Given(h, MarkInUse(out.heap, u[1] + 1), S, O, B, X, T, P, B, X, u, n)
      BY <1>2, <3>1, <3>2, BigGiven
    <3> QED BY <3>1, <3>3
  <2> QED BY <1>2, <2>1, <2>2 DEF BigGives
<1> QED BY <1>1, <1>2 DEF SegGives

LEMMA CoalesceMallocIs ==
  ASSUME NEW h, NEW S, NEW O, NEW B, NEW X, Steady(h, S, O, B, X),
         NEW n \in Nat \ {0}, n <= ThresholdSize, NEW out \in CoalesceMalloc(h, n)
  PROVE  NoneGiven(h, out, S, O, B, X) \/ (out.ptr # NULL /\ Gives(h, out, S, O, B, X, n))
<1>1. PICK got \in SegMalloc(h, n) :
        out = IF got.ptr = NULL THEN got
              ELSE Outcome(got.ptr, Split(MarkInUse(got.heap, got.ptr), got.ptr, n))
  BY DEF CoalesceMalloc
<1>2. SegGives(h, got, S, O, B, Marked(S, B), X, n)
  BY SegMallocIs DEF Steady
<1>3. CASE NoneGiven(h, got, S, O, B, X)
  BY <1>1, <1>3 DEF NoneGiven
<1>4. CASE \E T, P, C, u : /\ got.ptr = u[1] + 1 /\ u \in P
                           /\ Given(h, MarkInUse(got.heap, got.ptr), S, O, B, X, T, P, C, X, u, n)
  <2>1. PICK T, P, C, u : /\ got.ptr = u[1] + 1 /\ u \in P
                          /\ Given(h, MarkInUse(got.heap, got.ptr), S, O, B, X, T, P, C, X, u, n)
    BY <1>4
  <2>2. PICK k : k = MarkInUse(got.heap, u[1] + 1)
    OBVIOUS
  <2>3. Given(h, k, S, O, B, X, T, P, C, X, u, n)
    BY <2>1, <2>2
  <2>4. Steady(k, T, P, C, X) /\ Gains(InUse(O, B, X), InUse(P, C, X), u) /\ n <= Size(u)
    BY <2>3 DEF Given
  <2>5. Layout(T, P, X) /\ C \subseteq P
    BY <2>4, GoodTags DEF Steady
  <2>6. u \notin X
    BY <2>1, <2>5, InUseApart
  <2>7. u \in P \ C
    BY <2>1, <2>4, <2>6 DEF Gains, InUse
  <2>8. \E Q, D, v : SplitTo(k, Split(k, u[1] + 1, n), T, P, C, Q, D, X, u, v, n)
    BY <2>4, <2>7, SplitIs
  <2>9. PICK Q, D, v, l : l = Split(k, u[1] + 1, n) /\ SplitTo(k, l, T, P, C, Q, D, X, u, v, n)
    BY <2>8
  <2>10. Given(h, l, S, O, B, X, T, Q, D, X, v, n)
    BY <2>3, <2>6, <2>9, SplitGiven
  <2>11. v[1] = u[1]
    BY <2>9 DEF SplitTo, Replaced
  <2>12. u[1] + 1 # NULL
    BY <2>1, <2>5, LayoutTypes DEF Granule, NULL
  <2>13. out.ptr = u[1] + 1 /\ out.heap = l
    BY <1>1, <2>1, <2>2, <2>9, <2>12 DEF Outcome
  <2> QED BY <2>10, <2>11, <2>12, <2>13 DEF Gives
<1> QED BY <1>2, <1>3, <1>4, MarkedGiven

-----------------------------------------------------------------------------
(* Objects mapped one by one.                                              *)

LEMMA MappedLayout ==
  ASSUME NEW h, NEW S, NEW O, NEW B, NEW M, NEW X, Good(h, S, O, B, M, X),
         NEW k, NEW a, NEW e, Mapped(h, k, a, e), NEW x, x = <<a, x[2]>>, x[2] \in Int,
         a + 2 <= x[2], x[2] < a + e
  PROVE  Layout(S, O, X \union {x}) /\ MapsInv(k, S, X \union {x}) /\ x \notin X /\ x[1] = a
<1>1. Layout(S, O, X) /\ h \in HeapType /\ MapsInv(h, S, X)
  BY GoodTags DEF Good
<1>2. /\ k.maps = h.maps \union {<<a, e>>} /\ a \in Int /\ 1 <= a /\ e \in Int /\ 1 <= e /\ a + e - 1 <= MemTop
      /\ \A m \in h.maps : a + e <= m[1] \/ m[1] + m[2] <= a
      /\ a <= MemTop /\ MemTop \in Int
  <2>1. MemTop \in Int
    BY LeaAssumption
  <2> QED BY <2>1 DEF Mapped, Granule
<1>3. x[1] = a /\ x \in Granule \X Granule
  BY <1>2 DEF Granule
<1>4. \A m \in h.maps : m[1] \in Int /\ m[2] \in Int
  BY <1>1 DEF HeapType
<1>5. ASSUME NEW y \in X PROVE x[2] < y[1] \/ y[2] < x[1]
  <2>1. PICK m \in h.maps : m[1] = y[1] /\ y[2] < m[1] + m[2]
    BY <1>1 DEF MapsInv, InMap
  <2>2. y[1] \in Int /\ y[2] \in Int
    BY <1>1, LayoutTypes
  <2> QED BY <1>2, <1>3, <1>4, <2>1, <2>2
<1>6. ASSUME NEW s \in S PROVE s[2] + 1 < x[1] \/ x[2] < s[1] - 1
  <2>1. PICK m \in h.maps : m[1] = s[1] - 2 /\ s[2] + 1 < m[1] + m[2]
    BY <1>1 DEF MapsInv, InMap, ArenaHeader
  <2>2. s[1] \in Int /\ s[2] \in Int
    BY <1>1, LayoutTypes
  <2> QED BY <1>2, <1>3, <1>4, <2>1, <2>2
<1>7. x \notin X
  <2>1. x[1] < x[2] /\ x[1] \in Int /\ x[2] \in Int
    BY <1>2, <1>3
  <2> QED BY <1>5, <2>1
<1>8. Layout(S, O, X \union {x})
  <2>1. \A y \in X \union {x} : y[1] + 2 <= y[2]
    BY <1>1, <1>3 DEF Layout
  <2>2. \A y, z \in X \union {x} : y # z => y[2] < z[1] \/ z[2] < y[1]
    BY <1>1, <1>5 DEF Layout
  <2>3. \A s \in S : \A y \in X \union {x} : s[2] + 1 < y[1] \/ y[2] < s[1] - 1
    BY <1>1, <1>6 DEF Layout
  <2>4. X \union {x} \subseteq Granule \X Granule
    BY <1>1, <1>3 DEF Layout
  <2> QED BY <1>1, <2>1, <2>2, <2>3, <2>4 DEF Layout
<1>9. MapsInv(k, S, X \union {x})
  <2>1. PICK d : d = <<a, e>>
    OBVIOUS
  <2>2. d[1] = a /\ d[2] = e /\ \A m : m \in k.maps <=> m \in h.maps \/ m = d
    BY <1>2, <2>1
  <2>3. \A m \in k.maps : 1 <= m[1] /\ m[1] <= MemTop /\ 1 <= m[2] /\ m[1] + m[2] - 1 <= MemTop
    BY <1>1, <1>2, <2>2 DEF MapsInv
  <2>4. \A m, n \in k.maps : m # n => m[1] + m[2] <= n[1] \/ n[1] + n[2] <= m[1]
    BY <1>1, <1>2, <2>2 DEF MapsInv
  <2>5. \A i, j : InMap(h, i, j) => InMap(k, i, j)
    BY <2>2 DEF InMap
  <2>6. InMap(k, x[1], x[2])
    BY <1>3, <2>2 DEF InMap
  <2>7. \A s \in S : InMap(k, s[1] - ArenaHeader, s[2] + 1)
    BY <1>1, <2>5 DEF MapsInv
  <2>8. \A y \in X \union {x} : InMap(k, y[1], y[2])
    BY <1>1, <2>5, <2>6 DEF MapsInv
  <2> QED BY <2>3, <2>4, <2>7, <2>8 DEF MapsInv
<1> QED BY <1>3, <1>7, <1>8, <1>9

(* The zone's own state does not depend on other mappings.                 *)
LEMMA MoreMaps ==
  ASSUME NEW h, NEW k, NEW S, SlopInv(h, S), ArenaInv(h, S), h.maps \subseteq k.maps,
         k.arena = h.arena, k.space = h.space, k.left = h.left, k.ptr = h.ptr, k.remaining = h.remaining
  PROVE  SlopInv(k, S) /\ ArenaInv(k, S)
<1>1. \A i, j : InMap(h, i, j) => InMap(k, i, j)
  BY DEF InMap
<1> QED BY <1>1 DEF SlopInv, ArenaInv

(* The header of a mapped object and the one behind it.                    *)
MappedTo(z, a, n) ==
  LET made == Put(z, a, <<Pack(FALSE, TRUE, 0), n>>)
  IN  SetPrevFree(SetPrevSize(made, a + 1 + n, n), a + 1 + n, FALSE)

LEMMA MappedToIs ==
  ASSUME NEW z \in HeapType, NEW a \in Int, NEW n \in Nat, a \in Mem, a + 1 + n \in Mem,
         NEW k, k = MappedTo(z, a, n)
  PROVE  Writes(z, k, {a, a + 1 + n}) /\ GetSize(k, a) = n /\ IsMmapped(k, a)
<1>1. PICK w : w = Pack(FALSE, TRUE, 0)
  OBVIOUS
<1>2. w \in Int /\ (w \div 2) % 2 = 1
  <2>1. w = 2
    BY <1>1 DEF Pack, Flag
  <2> QED BY <2>1
<1>3. PICK v, made : v = <<w, n>> /\ made = Put(z, a, v)
  OBVIOUS
<1>4. v \in Int \X Int /\ v[1] = w /\ v[2] = n
  BY <1>2, <1>3
<1>5. Writes(z, made, {a}) /\ made.mem[a] = v
  BY <1>3, <1>4, PutIs
<1>6. PICK next : next = a + 1 + n
  OBVIOUS
<1>7. next \in Mem /\ next # a
  BY <1>6
<1>8. PICK l : l = SetPrevSize(made, next, n)
  OBVIOUS
<1>9. Writes(made, l, {next})
  <2>1. made \in HeapType
    BY <1>5 DEF Writes
  <2> QED BY <1>7, <1>8, <2>1, SetPrevSizeIs
<1>10. k = SetPrevFree(l, next, FALSE)
  BY <1>1, <1>3, <1>6, <1>8 DEF MappedTo
<1>11. Writes(l, k, {next})
  <2>1. l \in HeapType
    BY <1>9 DEF Writes
  <2> QED BY <1>7, <1>10, <2>1, SetPrevFreeIs
<1>12. k.mem[a] = v
  BY <1>5, <1>7, <1>9, <1>11 DEF Writes
<1>13. Writes(z, k, {a, next})
  BY <1>5, <1>9, <1>11 DEF Writes, SameZone
<1> QED BY <1>2, <1>4, <1>6, <1>12, <1>13 DEF GetSize, IsMmapped

(* The call ends at address 0: the process goes no further, and the blocks *)
(* clients have are as they were.                                          *)
Dies(h, out, S, O, B, X) ==
  out.ptr = Crash /\ Steady(out.heap, S, O, B, X) /\ Keeps(h, out.heap, InUse(O, B, X))

LEMMA MappedMallocIs ==
  ASSUME NEW h, NEW S, NEW O, NEW B, NEW X, Steady(h, S, O, B, X),
         NEW n \in Nat \ {0}, NEW out \in MappedMalloc(h, n), ~Dies(h, out, S, O, B, X)
  PROVE  \E Y, x : /\ out.ptr = x[1] + 1 /\ out.ptr # NULL /\ x \in Y
                   /\ Given(h, out.heap, S, O, B, X, S, O, B, Y, x, n)
<1>1. PICK got \in Mmap(h, n + 1) : out = Outcome(got.ptr + 1, MappedTo(got.heap, got.ptr, n))
  <2>1. out # Outcome(Crash, h)
    BY DEF Dies, Outcome, Keeps
  <2> QED BY <2>1 DEF MappedMalloc, MappedTo, Put
<1>2. PICK M : M = Marked(S, B)
  OBVIOUS
<1>3. Good(h, S, O, B, M, X) /\ h \in HeapType /\ Layout(S, O, X) /\ B \subseteq O /\ M \subseteq O
  BY <1>2, GoodTags DEF Steady
<1>4. PICK a, z, e : a = got.ptr /\ z = got.heap /\ e = Pages(n + 1)
  OBVIOUS
<1>5. Blank(h, z, a, e) /\ n + 2 <= e /\ e \in Nat
  <2>1. n + 1 \in Nat /\ n + 1 + 1 = n + 2
    OBVIOUS
  <2> QED BY <1>3, <1>4, <2>1, MmapIs, PagesIs
<1>6. Mapped(h, z, a, e) /\ z \in HeapType
  BY <1>5 DEF Blank, Mapped
<1>7. a \in Int /\ 1 <= a /\ a + e - 1 <= MemTop /\ MemTop \in Int
  <2>1. MemTop \in Int
    BY LeaAssumption
  <2> QED BY <1>6, <2>1 DEF Mapped, Granule
<1>8. PICK end : end = a + 1 + n
  OBVIOUS
<1>9. end \in Int /\ a + 2 <= end /\ end < a + e /\ a \in Granule /\ end \in Granule
  BY <1>5, <1>7, <1>8 DEF Granule
<1>10. PICK k : k = MappedTo(z, a, n)
  OBVIOUS
<1>11. Writes(z, k, {a, end}) /\ GetSize(k, a) = n /\ IsMmapped(k, a)
  <2>1. a \in Mem /\ end \in Mem
    BY <1>9 DEF Mem
  <2> QED BY <1>6, <1>7, <1>8, <1>10, <2>1, MappedToIs
<1>12. Mapped(h, k, a, e)
  <2>1. a \in a .. a + e - 1 /\ end \in a .. a + e - 1
    BY <1>5, <1>7, <1>9
  <2>2. \A g \in Mem : g \notin a .. a + e - 1 => k.mem[g] = z.mem[g]
    BY <1>11, <2>1 DEF Writes
  <2>3. k \in HeapType /\ k.maps = z.maps /\ k.binmap = z.binmap
    BY <1>11 DEF Writes, SameZone
  <2> QED BY <1>6, <2>2, <2>3 DEF Mapped
<1>13. AllTags(k, S, O, M, X) /\ Keeps(h, k, O \union X) /\ Rings(k, B) /\ BitsInv(k, B)
  BY <1>3, <1>12, MappedKeeps
<1>14. PICK x : x = <<a, end>>
  OBVIOUS
<1>15. x = <<a, x[2]>> /\ x[1] = a /\ x[2] = end
  BY <1>14
<1>16. PICK Y : Y = X \union {x}
  OBVIOUS
<1>17. Layout(S, O, Y) /\ MapsInv(k, S, Y) /\ x \notin X
  BY <1>3, <1>9, <1>12, <1>15, <1>16, MappedLayout
<1>18. /\ k.arena = h.arena /\ k.space = h.space /\ k.left = h.left /\ k.ptr = h.ptr
       /\ k.remaining = h.remaining /\ h.maps \subseteq k.maps
  BY <1>5, <1>11, <1>12 DEF Blank, Writes, SameZone, Mapped
<1>19. SlopInv(k, S) /\ ArenaInv(k, S)
  BY <1>3, <1>18, MoreMaps DEF Good
<1>20. Size(x) = n
  BY <1>7, <1>8, <1>9, <1>15 DEF Size
<1>21. MappedTags(k, Y)
  BY <1>11, <1>13, <1>15, <1>16, <1>20 DEF AllTags, MappedTags
<1>22. Good(k, S, O, B, M, Y)
  BY <1>3, <1>12, <1>13, <1>17, <1>19, <1>21 DEF Good, AllTags, Mapped
<1>23. x \notin O
  BY <1>16, <1>17, InUseApart
<1>24. Gains(InUse(O, B, X), InUse(O, B, Y), x)
  BY <1>16, <1>17, <1>23 DEF Gains, InUse
<1>25. Keeps(h, k, InUse(O, B, X))
  BY <1>13 DEF Keeps, InUse
<1>26. Given(h, k, S, O, B, X, S, O, B, Y, x, n)
  BY <1>2, <1>16, <1>20, <1>22, <1>24, <1>25 DEF Given, Steady
<1>27. out.ptr = x[1] + 1 /\ out.heap = k
  BY <1>1, <1>4, <1>10, <1>15 DEF Outcome
<1>28. x[1] + 1 # NULL
  BY <1>7, <1>15 DEF NULL
<1> QED BY <1>16, <1>26, <1>27, <1>28

LEMMA MunmapGood ==
  ASSUME NEW h, NEW S, NEW O, NEW B, NEW M, NEW X, Good(h, S, O, B, M, X), NEW x \in X,
         NEW k, k = Munmap(h, x[1])
  PROVE  Good(k, S, O, B, M, X \ {x}) /\ k.mem = h.mem /\ SameSlop(h, k)
<1>1. /\ Layout(S, O, X) /\ h \in HeapType /\ B \subseteq O /\ M \subseteq O /\ AllTags(h, S, O, M, X)
      /\ MapsInv(h, S, X) /\ SlopInv(h, S) /\ ArenaInv(h, S) /\ Rings(h, B) /\ BitsInv(h, B)
  BY GoodTags DEF Good
<1>2. PICK d : d = {m \in h.maps : m[1] # x[1]}
  OBVIOUS
<1>3. k = [h EXCEPT !.maps = d] /\ d \in SUBSET (Int \X Int)
  BY <1>1, <1>2 DEF Munmap, HeapType
<1>4. /\ k \in HeapType /\ k.mem = h.mem /\ k.binmap = h.binmap /\ k.maps = d
      /\ k.arena = h.arena /\ k.space = h.space /\ k.left = h.left
      /\ k.ptr = h.ptr /\ k.remaining = h.remaining
  BY <1>1, <1>3 DEF HeapType
<1>5. \A i, j : i # x[1] /\ InMap(h, i, j) => InMap(k, i, j)
  BY <1>2, <1>4 DEF InMap
<1>6. \A s \in S : s[1] - ArenaHeader # x[1]
  BY <1>1, OwnMaps DEF ArenaHeader
<1>7. Layout(S, O, X \ {x})
  BY <1>1 DEF Layout
<1>8. MapsInv(k, S, X \ {x})
  <2>1. \A s \in S : InMap(k, s[1] - ArenaHeader, s[2] + 1)
    BY <1>1, <1>5, <1>6 DEF MapsInv
  <2>2. \A y \in X \ {x} : InMap(k, y[1], y[2])
    <3> TAKE y \in X \ {x}
    <3>1. y[1] # x[1]
      BY <1>1, BodiesApart
    <3> QED BY <1>1, <1>5, <3>1 DEF MapsInv
  <2> QED BY <1>1, <1>2, <1>4, <2>1, <2>2 DEF MapsInv
<1>9. SlopInv(k, S)
  BY <1>1, <1>4, <1>5, <1>6 DEF SlopInv
<1>10. ArenaInv(k, S)
  <2>1. ASSUME h.arena # NULL PROVE InMap(k, h.arena, h.space + h.left)
    <3>1. PICK s : s = <<h.arena + ArenaHeader, h.ptr>>
      OBVIOUS
    <3>2. s \in S /\ s[1] - ArenaHeader = h.arena
      <4>1. h.arena \in Nat
        BY <1>1 DEF HeapType
      <4> QED BY <1>1, <2>1, <3>1, <4>1 DEF ArenaInv, ArenaHeader
    <3>3. h.arena # x[1]
      BY <1>6, <3>2
    <3> QED BY <1>1, <1>5, <2>1, <3>3 DEF ArenaInv
  <2> QED BY <1>1, <1>4, <2>1 DEF ArenaInv
<1>11. AllTags(k, S, O, M, X)
  BY <1>1, <1>4, TagsFrame
<1>12. MappedTags(k, X \ {x})
  BY <1>11 DEF AllTags, MappedTags
<1>13. Rings(k, B) /\ BitsInv(k, B)
  BY <1>1, <1>4, RingsFrame, BitsFrame
<1> QED BY <1>1, <1>4, <1>7, <1>8, <1>9, <1>10, <1>11, <1>12, <1>13 DEF Good, AllTags, SameSlop

-----------------------------------------------------------------------------
(* Malloc, and what clients write.                                         *)

AtLeastOne(asked) == IF asked = 0 THEN 1 ELSE asked

LEMMA MallocIs ==
  ASSUME NEW h, NEW S, NEW O, NEW B, NEW X, Steady(h, S, O, B, X),
         NEW asked \in Nat, NEW out \in Malloc(h, asked)
  PROVE  \/ NoneGiven(h, out, S, O, B, X)
         \/ Dies(h, out, S, O, B, X)
         \/ out.ptr # NULL /\ Gives(h, out, S, O, B, X, AtLeastOne(asked))
<1>1. PICK n : n = AtLeastOne(asked)
  OBVIOUS
<1>2. n \in Nat \ {0} /\ HalfRange \in Nat /\ ThresholdSize \in Nat
  BY <1>1, LeaAssumption DEF AtLeastOne
<1>3. CASE n >= HalfRange
  <2>1. n \notin ThresholdSize + 1 .. HalfRange - 1
    BY <1>2, <1>3
  <2>2. out = Outcome(NULL, h)
    BY <1>1, <1>3, <2>1 DEF Malloc, AtLeastOne
  <2> QED BY <2>2 DEF NoneGiven, Outcome, Keeps
<1>4. CASE n \in ThresholdSize + 1 .. HalfRange - 1
  <2>1. ~(n >= HalfRange)
    BY <1>2, <1>4
  <2>2. out \in MappedMalloc(h, n)
    BY <1>1, <1>4, <2>1 DEF Malloc, AtLeastOne
  <2> QED BY <1>1, <1>2, <2>2, MappedMallocIs DEF Gives
<1>5. CASE ~(n >= HalfRange) /\ n \notin ThresholdSize + 1 .. HalfRange - 1
  <2>1. n <= ThresholdSize
    BY <1>2, <1>5
  <2>2. PICK got \in CoalesceMalloc(h, n) :
          out \in IF got.ptr = NULL THEN MappedMalloc(got.heap, n) ELSE {got}
    BY <1>1, <1>5 DEF Malloc, AtLeastOne
  <2>3. CASE NoneGiven(h, got, S, O, B, X)
    <3>1. got.ptr = NULL /\ Steady(got.heap, S, O, B, X) /\ Keeps(h, got.heap, InUse(O, B, X))
      BY <2>3 DEF NoneGiven
    <3>2. out \in MappedMalloc(got.heap, n)
      BY <2>2, <3>1
    <3> SUFFICES ASSUME ~Dies(h, out, S, O, B, X)
                 PROVE  out.ptr # NULL /\ Gives(h, out, S, O, B, X, n)
      BY <1>1
    <3>3. ~Dies(got.heap, out, S, O, B, X)
      BY <3>1 DEF Dies, Keeps
    <3>4. PICK Y, x : /\ out.ptr = x[1] + 1 /\ out.ptr # NULL /\ x \in Y
                      /\ Given(got.heap, out.heap, S, O, B, X, S, O, B, Y, x, n)
      BY <1>2, <3>1, <3>2, <3>3, MappedMallocIs
    <3>5. Given(h, out.heap, S, O, B, X, S, O, B, Y, x, n)
      BY <3>1, <3>4 DEF Given, Keeps
    <3> QED BY <3>4, <3>5 DEF Gives
  <2>4. CASE got.ptr # NULL /\ Gives(h, got, S, O, B, X, n)
    BY <1>1, <2>2, <2>4
  <2> QED BY <1>2, <2>1, <2>2, <2>3, <2>4, CoalesceMallocIs
<1> QED BY <1>3, <1>4, <1>5

(* What a client writes to its object disturbs nothing else.               *)
LEMMA BodyStep ==
  ASSUME NEW h, NEW S, NEW O, NEW B, NEW M, NEW X, Good(h, S, O, B, M, X), NEW u \in InUse(O, B, X),
         NEW k, Writes(h, k, Body(u))
  PROVE  Good(k, S, O, B, M, X) /\ Keeps(h, k, (O \union X) \ {u})
<1>1. /\ Layout(S, O, X) /\ B \subseteq O /\ M \subseteq O /\ AllTags(h, S, O, M, X)
      /\ MapsInv(h, S, X) /\ SlopInv(h, S) /\ ArenaInv(h, S) /\ Rings(h, B) /\ BitsInv(h, B)
  BY GoodTags DEF Good
<1>2. u \in O \union X /\ u \notin B
  BY <1>1, InUseApart DEF InUse
<1>3. k \in HeapType /\ SameZone(h, k) /\ k.binmap = h.binmap /\ \A a \in Mem \ Body(u) : k.mem[a] = h.mem[a]
  BY DEF Writes
<1>4. AllTags(k, S, O, M, X)
  <2>1. ASSUME NEW a, IsTag(S, O, X, a) PROVE k.mem[a] = h.mem[a]
    BY <1>1, <1>2, <1>3, <2>1, TagsAreGranules, BodyHasNoTag
  <2> QED BY <1>1, <2>1, TagsFrame
<1>5. Keeps(h, k, (O \union X) \ {u})
  <2> SUFFICES ASSUME NEW v \in (O \union X) \ {u}, NEW a \in Body(v) PROVE k.mem[a] = h.mem[a]
    BY DEF Keeps
  <2>1. a \in Mem
    BY <1>1, BodyHasNoTag
  <2>2. a \notin Body(u)
    BY <1>1, <1>2, BodiesApart
  <2> QED BY <1>3, <2>1, <2>2
<1>6. Rings(k, B)
  <2>1. \A o \in B : k.mem[o[1] + 1] = h.mem[o[1] + 1]
    <3> TAKE o \in B
    <3>1. o \in (O \union X) \ {u}
      BY <1>1, <1>2
    <3>2. o[1] + 1 \in Body(o)
      BY <1>1, <3>1, EntryInBody
    <3> QED BY <1>5, <3>1, <3>2 DEF Keeps
  <2>2. \A c \in Bins : k.mem[Head(c)] = h.mem[Head(c)]
    <3> TAKE c \in Bins
    <3>1. Head(c) \in Mem /\ Head(c) \notin Granule
      BY HeadsAreNoGranules
    <3>2. Head(c) \notin Body(u)
      BY <1>1, <1>2, <3>1, BodyHasNoTag
    <3> QED BY <1>3, <3>1, <3>2
  <2> QED BY <1>1, <2>1, <2>2, RingsFrame
<1>7. BitsInv(k, B)
  BY <1>1, <1>3, BitsFrame
<1>8. MapsInv(k, S, X) /\ SlopInv(k, S) /\ ArenaInv(k, S)
  BY <1>1, <1>3, ZoneFrame
<1> QED BY <1>1, <1>3, <1>4, <1>5, <1>6, <1>7, <1>8 DEF Good, AllTags

LEMMA FillIs ==
  ASSUME NEW h \in HeapType, NEW p \in Int, NEW n \in Int, NEW x \in Int, p .. p + n - 1 \subseteq Mem
  PROVE  /\ Writes(h, Fill(h, p, n, x), p .. p + n - 1)
         /\ \A g \in p .. p + n - 1 : Fill(h, p, n, x).mem[g] = <<x, x>>
<1>1. h.mem \in [Mem -> Int \X Int] /\ DOMAIN h.mem = Mem
  BY DEF HeapType
<1>2. PICK A : A = p .. p + n - 1
  OBVIOUS
<1>3. PICK m : m = [g \in Mem |-> IF g \in A THEN <<x, x>> ELSE h.mem[g]]
  OBVIOUS
<1>4. m \in [Mem -> Int \X Int] /\ \A g \in Mem : m[g] = IF g \in A THEN <<x, x>> ELSE h.mem[g]
  BY <1>1, <1>3
<1>5. PICK k : k = [h EXCEPT !.mem = m]
  OBVIOUS
<1>6. k = Fill(h, p, n, x)
  BY <1>1, <1>2, <1>3, <1>5 DEF Fill
<1>7. k \in HeapType /\ SameZone(h, k) /\ k.binmap = h.binmap /\ k.mem = m
  BY <1>4, <1>5 DEF HeapType, SameZone
<1> QED BY <1>2, <1>4, <1>6, <1>7 DEF Writes

LEMMA CopyIs ==
  ASSUME NEW h \in HeapType, NEW p \in Int, NEW q \in Int, NEW n \in Int,
         p .. p + n - 1 \subseteq Mem, q .. q + n - 1 \subseteq Mem
  PROVE  /\ Writes(h, Copy(h, p, q, n), q .. q + n - 1)
         /\ \A g \in q .. q + n - 1 : Copy(h, p, q, n).mem[g] = h.mem[p + g - q]
<1>1. h.mem \in [Mem -> Int \X Int] /\ DOMAIN h.mem = Mem
  BY DEF HeapType
<1>2. PICK A : A = q .. q + n - 1
  OBVIOUS
<1>3. PICK m : m = [g \in Mem |-> IF g \in A THEN h.mem[p + g - q] ELSE h.mem[g]]
  OBVIOUS
<1>4. \A g \in A : g \in Int /\ p + g - q \in Mem
  <2> SUFFICES ASSUME NEW g \in A PROVE g \in Int /\ p + g - q \in Mem
    OBVIOUS
  <2>1. g \in Int /\ p + g - q \in p .. p + n - 1
    BY <1>2
  <2> QED BY <2>1
<1>5. m \in [Mem -> Int \X Int] /\ \A g \in Mem : m[g] = IF g \in A THEN h.mem[p + g - q] ELSE h.mem[g]
  BY <1>1, <1>3, <1>4
<1>6. PICK k : k = [h EXCEPT !.mem = m]
  OBVIOUS
<1>7. k = Copy(h, p, q, n)
  BY <1>1, <1>2, <1>3, <1>6 DEF Copy
<1>8. k \in HeapType /\ SameZone(h, k) /\ k.binmap = h.binmap /\ k.mem = m
  BY <1>5, <1>6 DEF HeapType, SameZone
<1> QED BY <1>2, <1>5, <1>7, <1>8 DEF Writes

CopyFits(h, p, q, n) ==
  /\ h \in HeapType /\ p \in Int /\ q \in Int /\ n \in Int
  /\ p .. p + n - 1 \subseteq Mem /\ q .. q + n - 1 \subseteq Mem

IsCopy(h, k, p, q, n) ==
  /\ Writes(h, k, q .. q + n - 1)
  /\ \A g \in q .. q + n - 1 : k.mem[g] = h.mem[p + g - q]

LEMMA CopyMakes ==
  ASSUME NEW h, NEW k, NEW p, NEW q, NEW n, CopyFits(h, p, q, n), k = Copy(h, p, q, n)
  PROVE  IsCopy(h, k, p, q, n)
<1>1. /\ h \in HeapType /\ p \in Int /\ q \in Int /\ n \in Int
      /\ p .. p + n - 1 \subseteq Mem /\ q .. q + n - 1 \subseteq Mem
  BY DEF CopyFits
<1>2. IsCopy(h, Copy(h, p, q, n), p, q, n)
  BY <1>1, CopyIs DEF IsCopy
<1> QED BY <1>2

-----------------------------------------------------------------------------
(* Free of CoalesceHeap.                                                   *)

(* What is freed, u, has become w, which is in no bin and marked or not.   *)
Loose(h, k, S, O, B, X, P, C, N, u, w) ==
  /\ Good(k, S, P, C, N, X) /\ w \in P \ C
  /\ \A p \in P : p # w => (p \in N <=> p \in Marked(S, C))
  /\ \A v : v \in InUse(P, C, X) <=> (v \in InUse(O, B, X) /\ v # u) \/ v = w
  /\ w \notin InUse(O, B, X) \ {u}
  /\ Keeps(h, k, InUse(O, B, X) \ {u}) /\ SameZone(h, k)

(* Two neighbours, a before b, one of them in a bin.                       *)
LEMMA JoinBinned ==
  ASSUME NEW k, NEW S, NEW P, NEW C, NEW N, NEW X, Good(k, S, P, C, N, X),
         NEW a \in P, NEW b \in P, a[2] = b[1], NEW v \in C, v = a \/ v = b, ~(a \in C /\ b \in C),
         NEW l, l = Coalesce(Unlink(k, v[1] + 1), a[1] + 1, b[1] + 1)
  PROVE  /\ Good(l, S, Joined(P, a, b), C \ {v}, JoinedMarks(N, a, b), X)
         /\ Keeps(k, l, (P \ C) \union X) /\ SameZone(k, l)
<1>1. PICK D, j : D = C \ {v} /\ j = Unlink(k, v[1] + 1)
  OBVIOUS
<1>2. Taken(k, j, S, P, C, N, X, v)
  BY <1>1, TakeGood
<1>3. Good(j, S, P, D, N, X) /\ Keeps(k, j, (P \ C) \union X) /\ SameZone(k, j)
  BY <1>1, <1>2 DEF Taken
<1>4. a \in P \ D /\ b \in P \ D
  BY <1>1
<1>5. l = Coalesce(j, a[1] + 1, b[1] + 1)
  BY <1>1
<1>6. /\ Good(l, S, Joined(P, a, b), D, JoinedMarks(N, a, b), X)
      /\ Keeps(j, l, P \union X) /\ SameZone(j, l)
  BY <1>3, <1>4, <1>5, JoinGood
<1> QED BY <1>1, <1>3, <1>6 DEF Keeps, SameZone

(* Merging what is loose with a marked neighbour.                          *)
LEMMA MergeLoose ==
  ASSUME NEW h, NEW k, NEW S, NEW O, NEW B, NEW X, NEW P, NEW C, NEW N, NEW u, NEW w,
         Loose(h, k, S, O, B, X, P, C, N, u, w),
         NEW v \in P, v \in N, v # w, NEW a, NEW b, (a = v /\ b = w) \/ (a = w /\ b = v), a[2] = b[1],
         NEW l, l = Coalesce(Unlink(k, v[1] + 1), a[1] + 1, b[1] + 1)
  PROVE  \E Q, D, K : Loose(h, l, S, O, B, X, Q, D, K, u, Whole(a, b))
<1>1. /\ Good(k, S, P, C, N, X) /\ w \in P \ C /\ Layout(S, P, X)
      /\ \A p \in P : p # w => (p \in N <=> p \in Marked(S, C))
      /\ \A x : x \in InUse(P, C, X) <=> (x \in InUse(O, B, X) /\ x # u) \/ x = w
      /\ w \notin InUse(O, B, X) \ {u}
      /\ Keeps(h, k, InUse(O, B, X) \ {u}) /\ SameZone(h, k)
  BY GoodTags DEF Loose
<1>2. v \in C /\ C \subseteq P
  BY <1>1, GoodTags DEF Marked
<1>3. PICK Q, D, K, t : /\ Q = Joined(P, a, b) /\ D = C \ {v} /\ K = JoinedMarks(N, a, b)
                        /\ t = Whole(a, b)
  OBVIOUS
<1>4. Good(l, S, Q, D, K, X) /\ Keeps(k, l, (P \ C) \union X) /\ SameZone(k, l)
  <2>1. a \in P /\ b \in P /\ ~(a \in C /\ b \in C) /\ (v = a \/ v = b)
    BY <1>1
  <2> QED BY <1>1, <1>2, <1>3, <2>1, JoinBinned
<1>5. /\ \A x : x \in Q <=> (x \in P /\ x # v /\ x # w) \/ x = t
      /\ \A x : x # t => (x \in K <=> (x \in N /\ x # v /\ x # w))
  BY <1>3 DEF Joined, JoinedMarks
<1>6. t \notin P
  <2>1. a \in P /\ b \in P /\ a # b
    BY <1>1
  <2>2. t[1] = a[1] /\ t[2] = b[2]
    BY <1>3 DEF Whole
  <2>3. t # a
    <3>1. b[1] < b[2] /\ b[1] \in Int /\ b[2] \in Int
      BY <1>1, <2>1, LayoutTypes
    <3> QED BY <2>2, <3>1
  <2> QED BY <1>1, <2>1, <2>2, <2>3, HeadersApart
<1>7. t \in Q \ D
  BY <1>2, <1>3, <1>5, <1>6
<1>8. \A p \in Q : p # t => (p \in K <=> p \in Marked(S, D))
  <2> SUFFICES ASSUME NEW p \in P, p # v, p # w PROVE p \in N <=> p \in Marked(S, D)
    BY <1>5
  <2> QED BY <1>1, <1>3 DEF Marked
<1>9. t \notin X
  <2>1. Layout(S, Q, X)
    BY <1>4, GoodTags
  <2> QED BY <1>7, <2>1, InUseApart
<1>10. \A x : x \in InUse(Q, D, X) <=> (x \in InUse(O, B, X) /\ x # u) \/ x = t
  <2>1. v \notin X /\ w \notin X
    BY <1>1, InUseApart
  <2>2. \A x : x \in InUse(Q, D, X) <=> (x \in InUse(P, C, X) /\ x # w) \/ x = t
    BY <1>2, <1>3, <1>5, <1>6, <2>1 DEF InUse
  <2> QED BY <1>1, <2>2
<1>11. t \notin InUse(O, B, X) \ {u}
  <2>1. t \notin InUse(P, C, X)
    BY <1>6, <1>9 DEF InUse
  <2> QED BY <1>1, <2>1
<1>12. Keeps(h, l, InUse(O, B, X) \ {u})
  <2>1. \A x \in InUse(O, B, X) \ {u} : x \in (P \ C) \union X
    BY <1>1 DEF InUse
  <2> QED BY <1>1, <1>4, <2>1 DEF Keeps
<1>13. SameZone(h, l)
  BY <1>1, <1>4 DEF SameZone
<1>14. Loose(h, l, S, O, B, X, Q, D, K, u, t)
  BY <1>4, <1>7, <1>8, <1>10, <1>11, <1>12, <1>13 DEF Loose
<1> QED BY <1>3, <1>14

(* What a call that frees the client's object u has made of the heap.      *)
Freed(h, k, S, O, B, X, P, C, Y, u) ==
  /\ Steady(k, S, P, C, Y) /\ Loses(InUse(O, B, X), InUse(P, C, Y), u)
  /\ Keeps(h, k, InUse(O, B, X) \ {u}) /\ SameSlop(h, k)
  /\ \A x : x \in Y <=> x \in X /\ x # u

(* What is loose is marked and goes to its bin.                            *)
LEMMA LooseFreed ==
  ASSUME NEW h, NEW k, NEW S, NEW O, NEW B, NEW X, NEW P, NEW C, NEW N, NEW u \in InUse(O, B, X), NEW w,
         Loose(h, k, S, O, B, X, P, C, N, u, w), w[1] \notin Starts(S)
  PROVE  \E D : Freed(h, SegFree(MarkFree(k, w[1] + 1), w[1] + 1), S, O, B, X, P, D, X, u)
<1>1. /\ Good(k, S, P, C, N, X) /\ w \in P \ C /\ C \subseteq P /\ N \subseteq P /\ Layout(S, P, X)
      /\ \A p \in P : p # w => (p \in N <=> p \in Marked(S, C))
      /\ \A x : x \in InUse(P, C, X) <=> (x \in InUse(O, B, X) /\ x # u) \/ x = w
      /\ w \notin InUse(O, B, X) \ {u}
      /\ Keeps(h, k, InUse(O, B, X) \ {u}) /\ SameZone(h, k)
  BY GoodTags DEF Loose
<1>2. PICK D : D = C \union {w}
  OBVIOUS
<1>3. PICK K : K = Marked(S, D)
  OBVIOUS
<1>4. PICK j : j = SetPrevFree(k, w[2], TRUE)
  OBVIOUS
<1>5. w \in P
  BY <1>1
<1>6. j = MarkFree(k, w[1] + 1)
  BY <1>1, <1>4, <1>5, MarkIs
<1>7. Remarked(k, j, P, N, K, w)
  <2>1. K \subseteq P
    BY <1>1, <1>2, <1>3 DEF Marked
  <2>2. \A p \in P : p # w => (p \in K <=> p \in N)
    BY <1>1, <1>2, <1>3 DEF Marked
  <2>3. w \in K
    BY <1>2, <1>3 DEF Marked
  <2> QED BY <1>4, <2>1, <2>2, <2>3 DEF Remarked
<1>8. Good(j, S, P, C, K, X)
  BY <1>1, <1>5, <1>7, MarkGood
<1>9. Keeps(k, j, P \union X) /\ SameZone(k, j)
  BY <1>1, <1>5, <1>7, MarkGood DEF Writes
<1>10. PICK l : l = SegFree(j, w[1] + 1)
  OBVIOUS
<1>11. Binned(j, l, S, P, C, K, X, w)
  BY <1>1, <1>8, <1>10, PutGood
<1>12. Steady(l, S, P, D, X) /\ Keeps(j, l, (P \ D) \union X) /\ SameZone(j, l)
  BY <1>2, <1>3, <1>11 DEF Binned, Steady
<1>13. \A x : x \in InUse(P, D, X) <=> x \in InUse(O, B, X) /\ x # u
  <2>1. w \notin X
    BY <1>1, <1>5, InUseApart
  <2>2. \A x : x \in InUse(P, D, X) <=> x \in InUse(P, C, X) /\ x # w
    BY <1>2, <2>1 DEF InUse
  <2> QED BY <1>1, <2>2
<1>14. Keeps(h, l, InUse(O, B, X) \ {u})
  <2>1. \A x \in InUse(O, B, X) \ {u} : x \in (P \ D) \union X /\ x \in P \union X
    BY <1>13 DEF InUse
  <2> QED BY <1>1, <1>9, <1>12, <2>1 DEF Keeps
<1>15. SameSlop(h, l)
  BY <1>1, <1>9, <1>12 DEF SameZone, SameSlop
<1>16. Freed(h, l, S, O, B, X, P, D, X, u)
  <2>1. u \notin X
    <3>1. \A x \in X : x \in InUse(P, D, X)
      BY DEF InUse
    <3> QED BY <1>13, <3>1
  <2> QED BY <1>12, <1>13, <1>14, <1>15, <2>1 DEF Freed, Loses
<1> QED BY <1>6, <1>10, <1>16

(* Neighbours as the tags tell them.                                       *)
LEMMA NeighbourTags ==
  ASSUME NEW h, NEW S, NEW O, NEW B, NEW M, NEW X, Good(h, S, O, B, M, X), NEW o \in O
  PROVE  /\ GetNext(h, o[1] + 1) = o[2] + 1 /\ GetPrev(h, o[2] + 1) = o[1] + 1
         /\ \A q \in O : q[2] = o[1] => GetPrev(h, o[1] + 1) = q[1] + 1
         /\ o[1] \in Starts(S) => GetPrev(h, o[1] + 1) = o[1] /\ GetNext(h, o[1]) # o[1] + 1
<1>1. Layout(S, O, X) /\ AllTags(h, S, O, M, X) /\ h \in HeapType
  BY GoodTags
<1>2. \A p \in O : /\ GetSize(h, p[1]) = Size(p) /\ GetPrevSize(h, p[2]) = Size(p)
                   /\ NextHeader(h, p[1]) = p[2] /\ GetHeader(p[1] + 1) = p[1]
                   /\ p[1] \in Int /\ p[2] \in Int
  BY <1>1, NextHeaderIs, LayoutTypes DEF AllTags, Tags
<1>3. GetNext(h, o[1] + 1) = o[2] + 1
  BY <1>2 DEF GetNext
<1>4. \A p \in O : GetPrev(h, p[2] + 1) = p[1] + 1
  <2> TAKE p \in O
  <2>1. GetHeader(p[2] + 1) = p[2] /\ GetPrevSize(h, p[2]) = p[2] - p[1] - 1
    BY <1>2 DEF GetHeader, Size
  <2> QED BY <1>2, <2>1 DEF GetPrev
<1>5. ASSUME o[1] \in Starts(S) PROVE GetPrev(h, o[1] + 1) = o[1] /\ GetNext(h, o[1]) # o[1] + 1
  <2>1. PICK s \in S : s[1] = o[1]
    BY <1>5 DEF Starts
  <2>2. GetPrevSize(h, o[1]) = 0 /\ GetSize(h, o[1] - 1) # 0
    BY <1>1, <2>1 DEF AllTags, RunTags
  <2>3. GetPrev(h, o[1] + 1) = o[1]
    BY <1>2, <2>2 DEF GetPrev
  <2>4. GetSize(h, o[1] - 1) \in Int
    <3>1. o[1] - 1 \in Mem
      BY <1>1, <2>1, TagsAreGranules DEF IsTag
    <3> QED BY <1>1, <3>1, HeapWords DEF GetSize
  <2>5. GetNext(h, o[1]) = o[1] + GetSize(h, o[1] - 1) + 1
    <3>1. o[1] - 1 + 1 = o[1]
      BY <1>2
    <3> QED BY <1>2, <2>4, <3>1 DEF GetNext, NextHeader, GetHeader
  <2> QED BY <1>2, <2>2, <2>3, <2>4, <2>5
<1> QED BY <1>3, <1>4, <1>5

(* The object behind one, if any, is marked or not as its own successor    *)
(* says; behind the last of a run none is.                                 *)
LEMMA NextIsFree ==
  ASSUME NEW h, NEW S, NEW O, NEW B, NEW M, NEW X, Good(h, S, O, B, M, X), NEW o \in O
  PROVE  IsFree(h, o[2] + 1) <=> \E r \in O : o[2] = r[1] /\ r \in M
<1>1. Layout(S, O, X) /\ AllTags(h, S, O, M, X)
  BY GoodTags
<1>2. o[1] \in Int /\ o[2] \in Int /\ GetHeader(o[2] + 1) = o[2]
  BY <1>1, LayoutTypes DEF GetHeader
<1>3. CASE \E s \in S : o[2] = s[2]
  <2>1. PICK s \in S : o[2] = s[2]
    BY <1>3
  <2>2. GetSize(h, o[2]) = 0 /\ ~IsPrevFree(h, o[2] + 1)
    BY <1>1, <2>1 DEF AllTags, RunTags
  <2>3. NextHeader(h, o[2]) = o[2] + 1
    BY <1>2, <2>2 DEF NextHeader
  <2>4. \A r \in O : r[1] # o[2]
    BY <1>1, <2>1, HeadersApart
  <2> QED BY <1>2, <2>2, <2>3, <2>4 DEF IsFree
<1>4. CASE \E r \in O : r[1] = o[2]
  <2>1. PICK r \in O : r[1] = o[2]
    BY <1>4
  <2>2. NextHeader(h, o[2]) = r[2]
    BY <2>1, NextHeaderIs
  <2>3. IsPrevFree(h, r[2]) <=> r \in M
    BY <1>1 DEF AllTags, Tags
  <2>4. \A p \in O : p[1] = o[2] => p = r
    BY <1>1, <2>1, HeadersApart
  <2> QED BY <1>2, <2>1, <2>2, <2>3, <2>4 DEF IsFree
<1>5. (\E s \in S : o[2] = s[2]) \/ \E r \in O : r[1] = o[2]
  BY <1>1 DEF Layout, Adjoin
<1> QED BY <1>3, <1>4, <1>5

LEMMA FirstFreed ==
  ASSUME NEW h, NEW S, NEW O, NEW B, NEW X, Steady(h, S, O, B, X), NEW u \in O \ B, u[1] \in Starts(S)
  PROVE  \E D : Freed(h, SegFree(h, u[1] + 1), S, O, B, X, O, D, X, u)
<1>1. PICK M : M = Marked(S, B)
  OBVIOUS
<1>2. Good(h, S, O, B, M, X) /\ Layout(S, O, X)
  BY <1>1, GoodTags DEF Steady
<1>3. PICK D, k : D = B \union {u} /\ k = SegFree(h, u[1] + 1)
  OBVIOUS
<1>4. Binned(h, k, S, O, B, M, X, u)
  BY <1>2, <1>3, PutGood
<1>5. M = Marked(S, D)
  BY <1>1, <1>3 DEF Marked
<1>6. u \notin X
  BY <1>2, InUseApart
<1>7. \A x : x \in InUse(O, D, X) <=> x \in InUse(O, B, X) /\ x # u
  BY <1>3, <1>6 DEF InUse
<1>8. Keeps(h, k, InUse(O, B, X) \ {u})
  <2>1. Keeps(h, k, (O \ D) \union X)
    BY <1>3, <1>4 DEF Binned
  <2> QED BY <1>7, <2>1 DEF Keeps, InUse
<1>9. Steady(k, S, O, D, X) /\ SameSlop(h, k)
  BY <1>3, <1>4, <1>5 DEF Binned, Steady, SameZone, SameSlop
<1>10. u \in InUse(O, B, X)
  BY DEF InUse
<1>11. Freed(h, k, S, O, B, X, O, D, X, u)
  BY <1>6, <1>7, <1>8, <1>9, <1>10 DEF Freed, Loses
<1> QED BY <1>3, <1>11

(* The object before is taken in if it is marked.                          *)
Back(h, p) == IsPrevFree(h, GetHeader(p))
MergedBack(h, p) == IF Back(h, p) THEN Coalesce(Unlink(h, GetPrev(h, p)), GetPrev(h, p), p) ELSE h
Begin(h, p) == IF Back(h, p) THEN GetPrev(h, p) ELSE p

LEMMA CoalesceFreeText ==
  ASSUME NEW h, NEW p
  PROVE  LET k == MergeNext(MergedBack(h, p), Begin(h, p), GetNext(h, p))
         IN  CoalesceFree(h, p) = IF HasNoNeighbours(h, p) THEN SegFree(h, p)
                                  ELSE SegFree(MarkFree(k, Begin(h, p)), Begin(h, p))
BY DEF CoalesceFree, MergedBack, Begin, Back

LEMMA BackLoose ==
  ASSUME NEW h, NEW S, NEW O, NEW B, NEW X, Steady(h, S, O, B, X), NEW u \in O \ B, u[1] \notin Starts(S)
  PROVE  \E P, C, N, w : /\ Loose(h, MergedBack(h, u[1] + 1), S, O, B, X, P, C, N, u, w)
                         /\ w[1] + 1 = Begin(h, u[1] + 1) /\ w[1] \notin Starts(S) /\ w[2] = u[2]
<1>1. PICK M : M = Marked(S, B)
  OBVIOUS
<1>2. Good(h, S, O, B, M, X) /\ Layout(S, O, X) /\ AllTags(h, S, O, M, X) /\ B \subseteq O
  BY <1>1, GoodTags DEF Steady
<1>3. u \in O /\ u \notin B /\ u \notin M
  BY <1>1 DEF Marked
<1>4. Loose(h, h, S, O, B, X, O, B, M, u, u)
  BY <1>1, <1>2, <1>3 DEF Loose, InUse, Keeps, SameZone
<1>5. PICK q \in O : q[2] = u[1]
  BY <1>2, <1>3 DEF Layout, Adjoin, Starts
<1>6. GetHeader(u[1] + 1) = u[1] /\ GetPrev(h, u[1] + 1) = q[1] + 1
  BY <1>2, <1>3, <1>5, NeighbourTags, NextHeaderIs
<1>7. IsPrevFree(h, u[1]) <=> q \in M
  BY <1>2, <1>5 DEF AllTags, Tags
<1>8. CASE q \in M
  <2>1. PICK k : k = Coalesce(Unlink(h, q[1] + 1), q[1] + 1, u[1] + 1)
    OBVIOUS
  <2>2. k = MergedBack(h, u[1] + 1) /\ Begin(h, u[1] + 1) = q[1] + 1
    BY <1>6, <1>7, <1>8, <2>1 DEF MergedBack, Begin, Back
  <2>3. q # u
    BY <1>3, <1>8
  <2>4. \E Q, D, K : Loose(h, k, S, O, B, X, Q, D, K, u, Whole(q, u))
    BY <1>4, <1>5, <1>8, <2>1, <2>3, MergeLoose
  <2>5. q[1] \notin Starts(S)
    BY <1>1, <1>8 DEF Marked
  <2>6. Whole(q, u)[1] = q[1] /\ Whole(q, u)[2] = u[2]
    BY DEF Whole
  <2> QED BY <2>2, <2>4, <2>5, <2>6
<1>9. CASE q \notin M
  <2>1. MergedBack(h, u[1] + 1) = h /\ Begin(h, u[1] + 1) = u[1] + 1
    BY <1>6, <1>7, <1>9 DEF MergedBack, Begin, Back
  <2> QED BY <1>4, <2>1
<1> QED BY <1>8, <1>9

LEMMA NextLoose ==
  ASSUME NEW h, NEW k, NEW S, NEW O, NEW B, NEW X, NEW P, NEW C, NEW N, NEW u, NEW w,
         Loose(h, k, S, O, B, X, P, C, N, u, w)
  PROVE  \E Q, D, K, t : /\ Loose(h, MergeNext(k, w[1] + 1, w[2] + 1), S, O, B, X, Q, D, K, u, t)
                         /\ t[1] = w[1]
<1>1. Good(k, S, P, C, N, X) /\ w \in P
  BY DEF Loose
<1>2. CASE ~IsFree(k, w[2] + 1)
  <2>1. MergeNext(k, w[1] + 1, w[2] + 1) = k
    BY <1>2 DEF MergeNext
  <2> QED BY <2>1
<1>3. CASE IsFree(k, w[2] + 1)
  <2>1. PICK r \in P : w[2] = r[1] /\ r \in N
    BY <1>1, <1>3, NextIsFree
  <2>2. PICK l : l = Coalesce(Unlink(k, r[1] + 1), w[1] + 1, r[1] + 1)
    OBVIOUS
  <2>3. l = MergeNext(k, w[1] + 1, w[2] + 1)
    BY <1>3, <2>1, <2>2 DEF MergeNext
  <2>4. r # w
    <3>1. Layout(S, P, X)
      BY <1>1, GoodTags
    <3> QED BY <1>1, <2>1, <3>1, LayoutTypes
  <2>5. \E Q, D, K : Loose(h, l, S, O, B, X, Q, D, K, u, Whole(w, r))
    BY <1>1, <2>1, <2>2, <2>4, MergeLoose
  <2>6. Whole(w, r)[1] = w[1]
    BY DEF Whole
  <2> QED BY <2>3, <2>5, <2>6
<1> QED BY <1>2, <1>3

LEMMA CoalesceFreeIs ==
  ASSUME NEW h, NEW S, NEW O, NEW B, NEW X, Steady(h, S, O, B, X), NEW u \in O \ B
  PROVE  \E P, D : Freed(h, CoalesceFree(h, u[1] + 1), S, O, B, X, P, D, X, u)
<1>1. PICK M : M = Marked(S, B)
  OBVIOUS
<1>2. Good(h, S, O, B, M, X) /\ Layout(S, O, X) /\ u \in O
  BY <1>1, GoodTags DEF Steady
<1>3. PICK p : p = u[1] + 1
  OBVIOUS
<1>4. GetNext(h, p) = u[2] + 1 /\ GetPrev(h, GetNext(h, p)) = p
  BY <1>2, <1>3, NeighbourTags
<1>5. CASE u[1] \in Starts(S)
  <2>1. HasNoNeighbours(h, p)
    BY <1>2, <1>3, <1>5, NeighbourTags DEF HasNoNeighbours
  <2>2. CoalesceFree(h, p) = SegFree(h, p)
    BY <2>1, CoalesceFreeText
  <2> QED BY <1>3, <1>5, <2>2, FirstFreed
<1>6. CASE u[1] \notin Starts(S)
  <2>1. PICK q \in O : q[2] = u[1]
    BY <1>2, <1>6 DEF Layout, Adjoin, Starts
  <2>2. GetPrev(h, p) = q[1] + 1 /\ GetNext(h, q[1] + 1) = p
    BY <1>2, <1>3, <2>1, NeighbourTags
  <2>3. ~HasNoNeighbours(h, p)
    BY <1>4, <2>2 DEF HasNoNeighbours
  <2>4. PICK j : j = MergedBack(h, p)
    OBVIOUS
  <2>5. PICK P, C, N, w : /\ Loose(h, j, S, O, B, X, P, C, N, u, w)
                          /\ w[1] + 1 = Begin(h, p) /\ w[1] \notin Starts(S) /\ w[2] = u[2]
    BY <1>3, <1>6, <2>4, BackLoose
  <2>6. PICK k : k = MergeNext(j, w[1] + 1, w[2] + 1)
    OBVIOUS
  <2>7. PICK Q, D, K, t : Loose(h, k, S, O, B, X, Q, D, K, u, t) /\ t[1] = w[1]
    BY <2>5, <2>6, NextLoose
  <2>8. CoalesceFree(h, p) = SegFree(MarkFree(k, t[1] + 1), t[1] + 1)
    BY <1>4, <2>3, <2>4, <2>5, <2>6, <2>7, CoalesceFreeText
  <2>9. u \in InUse(O, B, X)
    BY DEF InUse
  <2>10. t[1] \notin Starts(S)
    BY <2>5, <2>7
  <2>11. \E E : Freed(h, SegFree(MarkFree(k, t[1] + 1), t[1] + 1), S, O, B, X, Q, E, X, u)
    BY <2>7, <2>9, <2>10, LooseFreed
  <2> QED BY <1>3, <2>8, <2>11
<1> QED BY <1>5, <1>6

LEMMA FreeIs ==
  ASSUME NEW h, NEW S, NEW O, NEW B, NEW X, Steady(h, S, O, B, X), NEW u \in InUse(O, B, X)
  PROVE  \E P, D, Y : Freed(h, Free(h, u[1] + 1), S, O, B, X, P, D, Y, u)
<1>1. PICK M : M = Marked(S, B)
  OBVIOUS
<1>2. Good(h, S, O, B, M, X) /\ Layout(S, O, X) /\ AllTags(h, S, O, M, X) /\ B \subseteq O
  BY <1>1, GoodTags DEF Steady
<1>3. GetHeader(u[1] + 1) = u[1]
  <2>1. u \in S \union O \union X
    BY DEF InUse
  <2> QED BY <1>2, <2>1, LayoutTypes DEF GetHeader
<1>4. CASE u \in O \ B
  <2>1. ~IsMmapped(h, u[1])
    BY <1>2, <1>4 DEF AllTags, Tags
  <2>2. Free(h, u[1] + 1) = CoalesceFree(h, u[1] + 1)
    BY <1>3, <2>1 DEF Free
  <2> QED BY <1>4, <2>2, CoalesceFreeIs
<1>5. CASE u \in X
  <2>1. IsMmapped(h, u[1])
    BY <1>2, <1>5 DEF AllTags, MappedTags
  <2>2. PICK k, Y : k = Munmap(h, u[1]) /\ Y = X \ {u}
    OBVIOUS
  <2>3. k = Free(h, u[1] + 1)
    BY <1>3, <2>1, <2>2 DEF Free
  <2>4. Good(k, S, O, B, M, Y) /\ k.mem = h.mem /\ SameSlop(h, k)
    BY <1>2, <1>5, <2>2, MunmapGood
  <2>5. u \notin O
    BY <1>2, <1>5, InUseApart
  <2>6. Loses(InUse(O, B, X), InUse(O, B, Y), u)
    BY <1>5, <2>2, <2>5 DEF Loses, InUse
  <2>7. Freed(h, k, S, O, B, X, O, B, Y, u)
    BY <1>1, <2>2, <2>4, <2>6 DEF Freed, Steady, Keeps
  <2> QED BY <2>3, <2>7
<1> QED BY <1>4, <1>5 DEF InUse

-----------------------------------------------------------------------------
(* Blocks and objects.                                                     *)

(* Objects of clients, as far as their blocks are concerned.               *)
Owned(U) ==
  /\ \A u \in U : /\ u[1] \in Int /\ u[2] \in Int /\ u[1] + 2 <= u[2] /\ 1 <= u[1]
                  /\ u[1] \in Granule /\ u[2] \in Granule /\ Body(u) \subseteq Mem
  /\ \A u, v \in U : u # v => u[1] # v[1] /\ (u[2] <= v[1] \/ v[2] <= u[1])

LEMMA SteadyOwned ==
  ASSUME NEW h, NEW S, NEW O, NEW B, NEW X, Steady(h, S, O, B, X)
  PROVE  Owned(InUse(O, B, X))
<1>1. Layout(S, O, X)
  BY GoodTags DEF Steady
<1>2. ASSUME NEW u \in InUse(O, B, X)
      PROVE  /\ u \in O \union X /\ u[1] \in Int /\ u[2] \in Int /\ u[1] + 2 <= u[2] /\ 1 <= u[1]
             /\ u[1] \in Granule /\ u[2] \in Granule /\ Body(u) \subseteq Mem
  <2>1. u \in O \union X
    BY DEF InUse
  <2>2. u[1] \in Granule /\ u[2] \in Granule
    BY <1>1, <2>1, LayoutTypes
  <2>3. u[1] + 2 <= u[2]
    BY <1>1, <2>1 DEF Layout
  <2>4. Body(u) \subseteq Mem
    BY <1>1, <2>1, BodyHasNoTag
  <2> QED BY <2>1, <2>2, <2>3, <2>4 DEF Granule
<1>3. ASSUME NEW u \in InUse(O, B, X), NEW v \in InUse(O, B, X), u # v
      PROVE  u[1] # v[1] /\ (u[2] <= v[1] \/ v[2] <= u[1])
  <2>1. u \in O \union X /\ v \in O \union X
    BY <1>2
  <2>2. u[1] # v[1]
    BY <1>1, <1>3, <2>1, BodiesApart
  <2>3. CASE u \in O /\ v \in O
    <3>1. \A o, p \in O : o # p => o[2] <= p[1] \/ p[2] <= o[1]
      BY <1>1 DEF Layout
    <3> QED BY <1>3, <2>2, <2>3, <3>1
  <2>4. CASE u \in X /\ v \in X
    <3>1. u[2] < v[1] \/ v[2] < u[1]
      BY <1>1, <1>3, <2>4 DEF Layout
    <3> QED BY <1>2, <2>2, <3>1
  <2>5. CASE u \in O /\ v \in X
    <3>1. u[2] + 1 < v[1] \/ v[2] < u[1] - 1
      BY <1>1, <2>5, NotMapped
    <3> QED BY <1>2, <2>2, <3>1
  <2>6. CASE u \in X /\ v \in O
    <3>1. v[2] + 1 < u[1] \/ u[2] < v[1] - 1
      BY <1>1, <2>6, NotMapped
    <3> QED BY <1>2, <2>2, <3>1
  <2> QED BY <2>1, <2>2, <2>3, <2>4, <2>5, <2>6
<1> QED BY <1>2, <1>3 DEF Owned

(* A block as it should be, in object u.                                   *)
BlockIn(h, b, u) ==
  /\ b.addr \in Nat /\ b.size \in Nat /\ b.kept = b.size /\ b.data \in Data
  /\ BlockOf(u, b)
  /\ \A i \in 0 .. b.kept - 1 : h.mem[b.addr + i] = <<b.data, b.data>>

LEMMA BlockKept ==
  ASSUME NEW h, NEW k, NEW U, NEW u \in U, Owned(U), NEW b, BlockIn(h, b, u),
         \A a \in Body(u) : k.mem[a] = h.mem[a]
  PROVE  BlockIn(k, b, u)
<1>1. u[1] \in Int /\ u[2] \in Int
  BY DEF Owned
<1>2. u[1] = b.addr - 1 /\ b.size = u[2] - u[1] - 1 /\ b.addr \in Nat /\ b.size \in Nat /\ b.kept = b.size
  BY DEF BlockIn, BlockOf, GetHeader, Size
<1>3. \A i \in 0 .. b.kept - 1 : b.addr + i \in Body(u)
  BY <1>1, <1>2 DEF Body
<1> QED BY <1>3 DEF BlockIn

LEMMA BlocksIn ==
  ASSUME NEW h, NEW U, NEW L
  PROVE  BlocksInv(h, U, L) <=> /\ \A b \in L : \E u \in U : BlockIn(h, b, u)
                                /\ \A u \in U : \E b \in L : BlockOf(u, b)
                                /\ \A b, c \in L : b.addr = c.addr => b = c
BY DEF BlocksInv, BlockIn

LEMMA BlockAdded ==
  ASSUME NEW h, NEW k, NEW U, NEW V, NEW L, NEW u, NEW b, BlocksInv(h, U, L), Gains(U, V, u), Owned(V),
         Keeps(h, k, U), BlockIn(k, b, u)
  PROVE  BlocksInv(k, V, L \union {b})
<1>1. /\ \A c \in L : \E v \in U : BlockIn(h, c, v)
      /\ \A v \in U : \E c \in L : BlockOf(v, c)
      /\ \A c, d \in L : c.addr = d.addr => c = d
  BY BlocksIn
<1>2. u \notin U /\ \A v : v \in V <=> v \in U \/ v = u
  BY DEF Gains
<1>3. ASSUME NEW c \in L PROVE c.addr # b.addr /\ \E v \in V : BlockIn(k, c, v)
  <2>1. PICK v \in U : BlockIn(h, c, v)
    BY <1>1
  <2>2. v \in V /\ u \in V /\ v # u
    BY <1>2
  <2>3. BlockIn(k, c, v)
    BY <2>1, <2>2, BlockKept DEF Keeps
  <2>4. v[1] # u[1]
    BY <2>2 DEF Owned
  <2>5. c.addr # b.addr
    BY <2>1, <2>4 DEF BlockIn, BlockOf
  <2> QED BY <2>2, <2>3, <2>5
<1>4. u \in V /\ BlockOf(u, b)
  BY <1>2 DEF BlockIn
<1>5. \A v \in V : \E c \in L \union {b} : BlockOf(v, c)
  BY <1>1, <1>2, <1>4
<1>6. \A c \in L \union {b} : \E v \in V : BlockIn(k, c, v)
  BY <1>3, <1>4
<1>7. \A c, d \in L \union {b} : c.addr = d.addr => c = d
  BY <1>1, <1>3
<1> QED BY <1>5, <1>6, <1>7, BlocksIn

LEMMA BlockGone ==
  ASSUME NEW h, NEW k, NEW U, NEW V, NEW L, NEW u, NEW b \in L, BlocksInv(h, U, L), Loses(U, V, u), Owned(U),
         Keeps(h, k, U \ {u}), BlockOf(u, b)
  PROVE  BlocksInv(k, V, L \ {b})
<1>1. /\ \A c \in L : \E v \in U : BlockIn(h, c, v)
      /\ \A v \in U : \E c \in L : BlockOf(v, c)
      /\ \A c, d \in L : c.addr = d.addr => c = d
  BY BlocksIn
<1>2. u \in U /\ \A v : v \in V <=> v \in U /\ v # u
  BY DEF Loses
<1>3. ASSUME NEW c \in L \ {b} PROVE \E v \in V : BlockIn(k, c, v)
  <2>1. PICK v \in U : BlockIn(h, c, v)
    BY <1>1
  <2>2. v # u
    <3>1. ASSUME v = u PROVE FALSE
      <4>1. c.addr - 1 = b.addr - 1 /\ c.addr \in Nat
        BY <2>1, <3>1 DEF BlockIn, BlockOf, GetHeader
      <4>2. b.addr \in Nat
        BY <1>1 DEF BlockIn
      <4> QED BY <1>1, <4>1, <4>2
    <3> QED BY <3>1
  <2>3. BlockIn(k, c, v)
    BY <2>1, <2>2, BlockKept DEF Keeps
  <2> QED BY <1>2, <2>2, <2>3
<1>4. ASSUME NEW v \in V PROVE \E c \in L \ {b} : BlockOf(v, c)
  <2>1. v \in U /\ v # u
    BY <1>2
  <2>2. PICK c \in L : BlockOf(v, c)
    BY <1>1, <2>1
  <2>3. c # b
    <3>1. v[1] # u[1]
      BY <1>2, <2>1 DEF Owned
    <3> QED BY <2>2, <3>1 DEF BlockOf
  <2> QED BY <2>2, <2>3
<1> QED BY <1>1, <1>3, <1>4, BlocksIn

(* Every block has its object.                                             *)
LEMMA BlockHas ==
  ASSUME NEW h, NEW U, NEW L, BlocksInv(h, U, L), Owned(U), NEW b \in L
  PROVE  \E u \in U : BlockIn(h, b, u) /\ b.addr = u[1] + 1 /\ b.size = Size(u)
<1>1. PICK u \in U : BlockIn(h, b, u)
  BY BlocksIn
<1>2. u[1] \in Int
  BY DEF Owned
<1>3. b.addr = u[1] + 1 /\ b.size = Size(u)
  BY <1>1, <1>2 DEF BlockIn, BlockOf, GetHeader
<1> QED BY <1>1, <1>3

-----------------------------------------------------------------------------
(* The calls.                                                              *)

LEMMA LeaFacts ==
  /\ MemTop \in Nat /\ HalfRange \in Nat /\ ThresholdSize \in Nat
  /\ Requests \subseteq Nat /\ Data \subseteq Int /\ MaxObjects \in Nat
BY LeaAssumption

LEMMA InUseHeader ==
  ASSUME NEW h, NEW S, NEW O, NEW B, NEW X, Steady(h, S, O, B, X), NEW u \in InUse(O, B, X)
  PROVE  /\ GetSize(h, u[1]) = Size(u) /\ GetHeader(u[1] + 1) = u[1]
         /\ IsMmapped(h, u[1]) <=> u \in X
         /\ u \notin X => (GetPrevSize(h, u[1]) = 0 <=> u[1] \in Starts(S))
<1>1. PICK M : M = Marked(S, B)
  OBVIOUS
<1>2. Good(h, S, O, B, M, X) /\ Layout(S, O, X) /\ AllTags(h, S, O, M, X)
  BY <1>1, GoodTags DEF Steady
<1>3. u \in O \union X /\ u \in S \union O \union X
  BY DEF InUse
<1>4. GetHeader(u[1] + 1) = u[1]
  BY <1>2, <1>3, LayoutTypes DEF GetHeader
<1>5. CASE u \in X
  BY <1>2, <1>4, <1>5 DEF AllTags, MappedTags
<1>6. CASE u \in O
  <2>1. u \notin X /\ GetSize(h, u[1]) = Size(u) /\ ~IsMmapped(h, u[1])
    BY <1>2, <1>6, InUseApart DEF AllTags, Tags
  <2>2. CASE u[1] \in Starts(S)
    BY <1>2, <1>4, <2>1, <2>2 DEF AllTags, RunTags, Starts
  <2>3. CASE u[1] \notin Starts(S)
    <3>1. PICK q \in O : q[2] = u[1]
      BY <1>2, <1>6, <2>3 DEF Layout, Adjoin, Starts
    <3>2. GetPrevSize(h, u[1]) = Size(q)
      BY <1>2, <3>1 DEF AllTags, Tags
    <3>3. Size(q) # 0
      BY <1>2, EntryInBody
    <3> QED BY <1>4, <2>1, <2>3, <3>2, <3>3
  <2> QED BY <2>2, <2>3
<1> QED BY <1>3, <1>5, <1>6

(* What Return makes of the regions.                                       *)
Region(k, p, R) ==
  IF p \notin {NULL, Crash} /\ ~IsMmapped(k, GetHeader(p)) /\ GetPrevSize(k, GetHeader(p)) = 0
  THEN R \union {GetHeader(p)} ELSE R

LEMMA RegionIs ==
  ASSUME NEW k, NEW S, NEW T, NEW P, NEW C, NEW Y, Steady(k, T, P, C, Y), NEW u \in InUse(P, C, Y),
         Starts(S) \subseteq Starts(T), Starts(T) \subseteq Starts(S) \union {u[1]},
         u \in Y => Starts(T) \subseteq Starts(S)
  PROVE  Region(k, u[1] + 1, Starts(S)) = Starts(T)
<1>1. /\ GetHeader(u[1] + 1) = u[1]
      /\ IsMmapped(k, u[1]) <=> u \in Y
      /\ u \notin Y => (GetPrevSize(k, u[1]) = 0 <=> u[1] \in Starts(T))
  BY InUseHeader
<1>2. u[1] + 1 \notin {NULL, Crash}
  <2>1. u[1] \in Int /\ 1 <= u[1]
    BY SteadyOwned DEF Owned
  <2> QED BY <2>1 DEF NULL, Crash
<1> QED BY <1>1, <1>2 DEF Region

(* Writing to an object of a client.                                       *)
LEMMA ClientWrites ==
  ASSUME NEW h, NEW S, NEW O, NEW B, NEW X, Steady(h, S, O, B, X), NEW u \in InUse(O, B, X),
         NEW k, NEW A, Writes(h, k, A), A \subseteq Body(u)
  PROVE  Steady(k, S, O, B, X) /\ Keeps(h, k, InUse(O, B, X) \ {u})
<1>1. PICK M : M = Marked(S, B)
  OBVIOUS
<1>2. Good(h, S, O, B, M, X)
  BY <1>1 DEF Steady
<1>3. Writes(h, k, Body(u))
  BY DEF Writes
<1>4. Good(k, S, O, B, M, X) /\ Keeps(h, k, (O \union X) \ {u})
  BY <1>2, <1>3, BodyStep
<1> QED BY <1>1, <1>4 DEF Steady, Keeps, InUse

(* What a call of malloc that gives out.ptr means for the client: k is the *)
(* heap once the block is filled.                                          *)
Fresh(h, k, L, p, asked, size) ==
  /\ p \in Nat /\ size \in Nat /\ asked <= size
  /\ \A c \in L : c.addr # p
  /\ IsMmapped(k, GetHeader(p)) \/ SameSlop(h, k) \/ NoneFits(h, AtLeastOne(asked))

LEMMA MallocCall ==
  ASSUME NEW h, NEW R, NEW L, LeaState(h, R, L), NEW asked \in Requests, NEW out \in Malloc(h, asked),
         out.ptr \notin {NULL, Crash}, NEW x \in Data, NEW size, size = GetSize(out.heap, GetHeader(out.ptr)),
         NEW k, k = Fill(out.heap, out.ptr, size, x)
  PROVE  /\ LeaState(k, Region(k, out.ptr, R), L \union {NewBlock(out, asked, x, size)})
         /\ Fresh(h, k, L, out.ptr, asked, size)
<1>1. PICK S, O, B, X : Steady(h, S, O, B, X) /\ R = Starts(S) /\ BlocksInv(h, InUse(O, B, X), L)
  BY DEF LeaState
<1>2. PICK n : n = AtLeastOne(asked)
  OBVIOUS
<1>3. asked \in Nat /\ x \in Int /\ asked <= n /\ n \in Nat
  BY <1>2, LeaFacts DEF AtLeastOne
<1>4. Gives(h, out, S, O, B, X, n)
  BY <1>1, <1>2, <1>3, MallocIs DEF NoneGiven, Dies
<1>5. PICK T, P, C, Y, u : out.ptr = u[1] + 1 /\ Given(h, out.heap, S, O, B, X, T, P, C, Y, u, n)
  BY <1>4 DEF Gives
<1>6. PICK z, U, V : z = out.heap /\ U = InUse(O, B, X) /\ V = InUse(P, C, Y)
  OBVIOUS
<1>7. /\ Steady(z, T, P, C, Y) /\ Gains(U, V, u) /\ Keeps(h, z, U) /\ n <= Size(u)
      /\ Starts(S) \subseteq Starts(T) /\ Starts(T) \subseteq Starts(S) \union {u[1]}
      /\ u \in Y => Starts(T) \subseteq Starts(S)
      /\ u \in Y \/ SameSlop(h, z) \/ NoneFits(h, n)
  BY <1>5, <1>6 DEF Given
<1>8. u \in V /\ u \notin U /\ \A v \in U : v \in V /\ v # u
  BY <1>7 DEF Gains
<1>9. Owned(V) /\ u[1] \in Int /\ u[2] \in Int /\ u[1] + 2 <= u[2] /\ 1 <= u[1] /\ Body(u) \subseteq Mem
  BY <1>6, <1>7, <1>8, SteadyOwned DEF Owned
<1>10. size = Size(u) /\ Size(u) = u[2] - u[1] - 1 /\ size \in Nat
  BY <1>5, <1>6, <1>7, <1>8, <1>9, InUseHeader DEF Size
<1>11. PICK p : p = u[1] + 1
  OBVIOUS
<1>12. p .. p + size - 1 = Body(u) /\ p \in Nat
  <2>1. p + size - 1 = u[2] - 1 /\ p \in Nat
    BY <1>9, <1>10, <1>11
  <2> QED BY <1>11, <2>1, Zenon DEF Body
<1>13. k = Fill(z, p, size, x) /\ z \in HeapType
  BY <1>5, <1>6, <1>7, <1>11, GoodTags DEF Steady
<1>14. Writes(z, k, Body(u)) /\ \A g \in Body(u) : k.mem[g] = <<x, x>>
  <2>1. p \in Int /\ size \in Int /\ p .. p + size - 1 \subseteq Mem
    BY <1>9, <1>10, <1>12
  <2> QED BY <1>3, <1>12, <1>13, <2>1, FillIs
<1>15. Steady(k, T, P, C, Y) /\ Keeps(z, k, V \ {u})
  BY <1>6, <1>7, <1>8, <1>14, ClientWrites
<1>16. Keeps(h, k, U)
  BY <1>7, <1>8, <1>15 DEF Keeps
<1>17. PICK b : b = NewBlock(out, asked, x, size)
  OBVIOUS
<1>18. b.addr = p /\ b.size = size /\ b.kept = size /\ b.data = x
  BY <1>5, <1>11, <1>17 DEF NewBlock
<1>19. BlockIn(k, b, u)
  <2>1. BlockOf(u, b)
    BY <1>9, <1>10, <1>11, <1>18 DEF BlockOf, GetHeader
  <2>2. \A i \in 0 .. size - 1 : p + i \in Body(u)
    BY <1>10, <1>12
  <2> QED BY <1>10, <1>12, <1>14, <1>18, <2>1, <2>2 DEF BlockIn
<1>20. BlocksInv(k, V, L \union {b})
  BY <1>1, <1>6, <1>7, <1>9, <1>16, <1>19, BlockAdded
<1>21. Region(k, p, R) = Starts(T)
  BY <1>1, <1>6, <1>7, <1>8, <1>11, <1>15, RegionIs
<1>22. LeaState(k, Region(k, out.ptr, R), L \union {b})
  BY <1>5, <1>6, <1>11, <1>15, <1>20, <1>21 DEF LeaState
<1>23. Fresh(h, k, L, p, asked, size)
  <2>1. \A c \in L : c.addr # p
    <3> TAKE c \in L
    <3>1. Owned(U)
      BY <1>1, <1>6, SteadyOwned
    <3>2. PICK v \in U : c.addr = v[1] + 1
      BY <1>1, <1>6, <3>1, BlockHas
    <3>3. v[1] # u[1] /\ v[1] \in Int
      BY <1>8, <1>9, <3>2 DEF Owned
    <3> QED BY <1>9, <1>11, <3>2, <3>3
  <2>2. IsMmapped(k, u[1]) <=> u \in Y
    BY <1>6, <1>8, <1>15, InUseHeader
  <2>3. GetHeader(p) = u[1]
    BY <1>9, <1>11 DEF GetHeader
  <2>4. SameSlop(h, z) => SameSlop(h, k)
    BY <1>14 DEF SameSlop, Writes, SameZone
  <2>5. asked <= size
    BY <1>3, <1>7, <1>10
  <2> QED BY <1>2, <1>7, <1>10, <1>12, <2>1, <2>2, <2>3, <2>4, <2>5 DEF Fresh
<1> QED BY <1>5, <1>11, <1>17, <1>22, <1>23

LEMMA GivenSomewhere ==
  ASSUME NEW h, NEW out, NEW S, NEW O, NEW B, NEW X, NEW n, Gives(h, out, S, O, B, X, n)
  PROVE  out.ptr \notin {NULL, Crash}
<1>1. PICK T, P, C, Y, u : out.ptr = u[1] + 1 /\ Given(h, out.heap, S, O, B, X, T, P, C, Y, u, n)
  BY DEF Gives
<1>2. Steady(out.heap, T, P, C, Y) /\ u \in InUse(P, C, Y)
  BY <1>1 DEF Given, Gains
<1>3. u[1] \in Int /\ 1 <= u[1]
  BY <1>2, SteadyOwned DEF Owned
<1> QED BY <1>1, <1>3 DEF NULL, Crash

(* Without a block, or killed.                                             *)
LEMMA MallocFails ==
  ASSUME NEW h, NEW R, NEW L, LeaState(h, R, L), NEW asked \in Requests, NEW out \in Malloc(h, asked),
         out.ptr \in {NULL, Crash}
  PROVE  LeaState(out.heap, R, L)
<1>1. PICK S, O, B, X : Steady(h, S, O, B, X) /\ R = Starts(S) /\ BlocksInv(h, InUse(O, B, X), L)
  BY DEF LeaState
<1>2. asked \in Nat
  BY LeaFacts
<1>3. NoneGiven(h, out, S, O, B, X) \/ Dies(h, out, S, O, B, X)
  BY <1>1, <1>2, MallocIs, GivenSomewhere
<1>4. PICK z, U : z = out.heap /\ U = InUse(O, B, X)
  OBVIOUS
<1>5. Steady(z, S, O, B, X) /\ Keeps(h, z, U) /\ Owned(U)
  BY <1>1, <1>3, <1>4, SteadyOwned DEF NoneGiven, Dies
<1>6. BlocksInv(z, U, L)
  <2>1. \A b \in L : \E u \in U : BlockIn(h, b, u)
    BY <1>1, <1>4, BlocksIn
  <2>2. \A b \in L : \E u \in U : BlockIn(z, b, u)
    BY <1>5, <2>1, BlockKept DEF Keeps
  <2> QED BY <1>1, <1>4, <2>2, BlocksIn
<1> QED BY <1>1, <1>4, <1>5, <1>6 DEF LeaState

LEMMA FreeCall ==
  ASSUME NEW h, NEW R, NEW L, LeaState(h, R, L), NEW b \in L
  PROVE  LeaState(Free(h, b.addr), R, L \ {b}) /\ SameSlop(h, Free(h, b.addr))
<1>1. PICK S, O, B, X : Steady(h, S, O, B, X) /\ R = Starts(S) /\ BlocksInv(h, InUse(O, B, X), L)
  BY DEF LeaState
<1>2. PICK U : U = InUse(O, B, X)
  OBVIOUS
<1>3. Owned(U)
  BY <1>1, <1>2, SteadyOwned
<1>4. PICK u \in U : BlockIn(h, b, u) /\ b.addr = u[1] + 1
  BY <1>1, <1>2, <1>3, BlockHas
<1>5. PICK P, D, Y : Freed(h, Free(h, u[1] + 1), S, O, B, X, P, D, Y, u)
  BY <1>1, <1>2, FreeIs
<1>6. PICK k : k = Free(h, u[1] + 1)
  OBVIOUS
<1>7. Steady(k, S, P, D, Y) /\ Loses(U, InUse(P, D, Y), u) /\ Keeps(h, k, U \ {u}) /\ SameSlop(h, k)
  BY <1>2, <1>5, <1>6 DEF Freed
<1>8. BlocksInv(k, InUse(P, D, Y), L \ {b})
  <2>1. BlockOf(u, b)
    BY <1>4 DEF BlockIn
  <2> QED BY <1>1, <1>2, <1>3, <1>7, <2>1, BlockGone
<1>9. LeaState(k, R, L \ {b})
  BY <1>1, <1>7, <1>8 DEF LeaState
<1> QED BY <1>4, <1>6, <1>7, <1>9

(* The new block of realloc and the old one.                               *)
LEMMA ReallocCall ==
  ASSUME NEW h, NEW R, NEW L, LeaState(h, R, L), NEW old \in L, NEW asked \in Requests,
         NEW out \in Malloc(h, asked), out.ptr \notin {NULL, Crash},
         NEW size, size = GetSize(out.heap, GetHeader(out.ptr)),
         NEW kept, kept = IF old.size < asked THEN old.size ELSE asked,
         NEW c, c = Copy(out.heap, old.addr, out.ptr, kept),
         NEW f, f = Free(c, old.addr),
         NEW k, k = Fill(f, out.ptr + kept, size - kept, old.data)
  PROVE  /\ LeaState(k, Region(k, out.ptr, R), (L \ {old}) \union {NewBlock(out, asked, old.data, size)})
         /\ Fresh(h, k, L, out.ptr, asked, size)
<1>1. PICK S, O, B, X : Steady(h, S, O, B, X) /\ R = Starts(S) /\ BlocksInv(h, InUse(O, B, X), L)
  BY DEF LeaState
<1>2. PICK n : n = AtLeastOne(asked)
  OBVIOUS
<1>3. asked \in Nat /\ asked <= n /\ n \in Nat
  BY <1>2, LeaFacts DEF AtLeastOne
<1>4. Gives(h, out, S, O, B, X, n)
  BY <1>1, <1>2, <1>3, MallocIs DEF NoneGiven, Dies
<1>5. PICK T, P, C, Y, u : out.ptr = u[1] + 1 /\ Given(h, out.heap, S, O, B, X, T, P, C, Y, u, n)
  BY <1>4 DEF Gives
<1>6. PICK z, U, V : z = out.heap /\ U = InUse(O, B, X) /\ V = InUse(P, C, Y)
  OBVIOUS
<1>7. /\ Steady(z, T, P, C, Y) /\ Gains(U, V, u) /\ Keeps(h, z, U) /\ n <= Size(u)
      /\ Starts(S) \subseteq Starts(T) /\ Starts(T) \subseteq Starts(S) \union {u[1]}
      /\ u \in Y => Starts(T) \subseteq Starts(S)
      /\ u \in Y \/ SameSlop(h, z) \/ NoneFits(h, n)
  BY <1>5, <1>6 DEF Given
<1>8. u \in V /\ u \notin U /\ \A v \in U : v \in V /\ v # u
  BY <1>7 DEF Gains
<1>9. Owned(V) /\ u[1] \in Int /\ u[2] \in Int /\ u[1] + 2 <= u[2] /\ 1 <= u[1] /\ Body(u) \subseteq Mem
  BY <1>6, <1>7, <1>8, SteadyOwned DEF Owned
<1>10. size = Size(u) /\ Size(u) = u[2] - u[1] - 1 /\ size \in Nat
  BY <1>5, <1>6, <1>7, <1>8, <1>9, InUseHeader DEF Size
<1>11. PICK p : p = u[1] + 1
  OBVIOUS
<1>12. p \in Nat /\ \A g : g \in Body(u) <=> g \in Int /\ p <= g /\ g <= p + size - 1
  BY <1>9, <1>10, <1>11 DEF Body
<1>13. Owned(U)
  BY <1>1, <1>6, SteadyOwned
<1>14. PICK w \in U : BlockIn(h, old, w) /\ old.addr = w[1] + 1 /\ old.size = Size(w)
  BY <1>1, <1>6, <1>13, BlockHas
<1>15. w \in V /\ w # u /\ w[1] \in Int /\ w[2] \in Int /\ w[1] + 2 <= w[2] /\ Body(w) \subseteq Mem
  BY <1>8, <1>9, <1>14 DEF Owned
<1>16. /\ old.addr \in Nat /\ old.size \in Nat /\ old.kept = old.size /\ old.data \in Data
       /\ \A i \in 0 .. old.size - 1 : h.mem[old.addr + i] = <<old.data, old.data>>
  BY <1>14 DEF BlockIn
<1>17. old.data \in Int
  BY <1>16, LeaFacts
<1>18. kept \in Nat /\ kept <= old.size /\ kept <= size
  <2>1. kept <= asked /\ kept \in Nat /\ kept <= old.size
    BY <1>3, <1>16
  <2> QED BY <1>3, <1>7, <1>10, <2>1
<1>19. \A g : g \in Body(w) <=> g \in Int /\ old.addr <= g /\ g <= old.addr + old.size - 1
  BY <1>14, <1>15 DEF Body, Size
<1>20. old.addr .. old.addr + kept - 1 \subseteq Body(w) /\ p .. p + kept - 1 \subseteq Body(u)
  BY <1>10, <1>12, <1>16, <1>18, <1>19
<1>21. c = Copy(z, old.addr, p, kept) /\ z \in HeapType
  BY <1>5, <1>6, <1>7, <1>11, GoodTags DEF Steady
<1>22. Writes(z, c, p .. p + kept - 1) /\ \A g \in p .. p + kept - 1 : c.mem[g] = z.mem[old.addr + g - p]
  <2>1. /\ old.addr \in Int /\ p \in Int /\ kept \in Int
        /\ old.addr .. old.addr + kept - 1 \subseteq Mem /\ p .. p + kept - 1 \subseteq Mem
    BY <1>9, <1>12, <1>15, <1>16, <1>18, <1>20
  <2>2. CopyFits(z, old.addr, p, kept)
    BY <1>21, <2>1 DEF CopyFits
  <2>3. IsCopy(z, c, old.addr, p, kept)
    BY <1>21, <2>2, CopyMakes
  <2> QED BY <2>3 DEF IsCopy
<1>23. Steady(c, T, P, C, Y) /\ Keeps(z, c, V \ {u})
  BY <1>6, <1>7, <1>8, <1>20, <1>22, ClientWrites
<1>24. \A g \in p .. p + kept - 1 : c.mem[g] = <<old.data, old.data>>
  <2> SUFFICES ASSUME NEW g \in p .. p + kept - 1 PROVE c.mem[g] = <<old.data, old.data>>
    OBVIOUS
  <2>1. PICK i : i = g - p
    OBVIOUS
  <2>2. i \in 0 .. old.size - 1 /\ old.addr + g - p = old.addr + i /\ old.addr + i \in Body(w)
    BY <1>12, <1>16, <1>18, <1>19, <2>1
  <2>3. z.mem[old.addr + i] = h.mem[old.addr + i]
    BY <1>7, <1>14, <2>2 DEF Keeps
  <2> QED BY <1>16, <1>22, <2>2, <2>3
<1>25. PICK Q, D, Z : Freed(c, Free(c, w[1] + 1), T, P, C, Y, Q, D, Z, w)
  BY <1>6, <1>15, <1>23, FreeIs
<1>26. PICK W : W = InUse(Q, D, Z)
  OBVIOUS
<1>27. /\ Steady(f, T, Q, D, Z) /\ Loses(V, W, w) /\ Keeps(c, f, V \ {w}) /\ SameSlop(c, f)
       /\ \A x : x \in Z <=> x \in Y /\ x # w
  BY <1>6, <1>14, <1>25, <1>26 DEF Freed
<1>28. u \in W /\ \A v : v \in W <=> v \in V /\ v # w
  BY <1>8, <1>15, <1>27 DEF Loses
<1>29. k = Fill(f, p + kept, size - kept, old.data) /\ f \in HeapType
  BY <1>5, <1>11, <1>27, GoodTags DEF Steady
<1>30. PICK A : A = (p + kept) .. (p + kept) + (size - kept) - 1
  OBVIOUS
<1>31. A \subseteq Body(u) /\ A \subseteq Mem /\ \A g \in Body(u) : g \in A \/ g \in p .. p + kept - 1
  <2>1. (p + kept) + (size - kept) - 1 = p + size - 1 /\ p + kept \in Int /\ p + size - 1 \in Int
    BY <1>10, <1>12, <1>18
  <2>2. \A g : g \in A <=> g \in Int /\ p + kept <= g /\ g <= p + size - 1
    BY <1>30, <2>1
  <2>3. A \subseteq Body(u) /\ \A g \in Body(u) : g \in A \/ g \in p .. p + kept - 1
    BY <1>10, <1>12, <1>18, <2>2
  <2> QED BY <1>9, <2>3
<1>32. Writes(f, k, A) /\ \A g \in A : k.mem[g] = <<old.data, old.data>>
  <2>1. p + kept \in Int /\ size - kept \in Int /\ (p + kept) .. (p + kept) + (size - kept) - 1 \subseteq Mem
    BY <1>10, <1>12, <1>18, <1>30, <1>31
  <2> QED BY <1>17, <1>29, <1>30, <2>1, FillIs
<1>33. Steady(k, T, Q, D, Z) /\ Keeps(f, k, W \ {u})
  BY <1>26, <1>27, <1>28, <1>31, <1>32, ClientWrites
<1>34. \A g \in Body(u) : k.mem[g] = <<old.data, old.data>>
  <2> SUFFICES ASSUME NEW g \in Body(u), g \notin A PROVE k.mem[g] = <<old.data, old.data>>
    BY <1>32
  <2>1. g \in p .. p + kept - 1 /\ g \in Mem
    BY <1>9, <1>31
  <2>2. k.mem[g] = f.mem[g]
    BY <1>32, <2>1 DEF Writes
  <2>3. f.mem[g] = c.mem[g]
    BY <1>8, <1>15, <1>27 DEF Keeps
  <2> QED BY <1>24, <2>1, <2>2, <2>3
<1>35. PICK J : J = U \ {w}
  OBVIOUS
<1>36. Loses(U, J, w) /\ Gains(J, W, u)
  BY <1>7, <1>14, <1>15, <1>28, <1>35 DEF Loses, Gains
<1>37. Keeps(h, k, J)
  <2>1. \A v \in J : v \in U /\ v \in V /\ v \in W /\ v # u /\ v # w
    BY <1>8, <1>28, <1>35
  <2> QED BY <1>7, <1>23, <1>27, <1>33, <2>1 DEF Keeps
<1>38. BlocksInv(h, J, L \ {old})
  <2>1. BlockOf(w, old)
    BY <1>14 DEF BlockIn
  <2>2. Keeps(h, h, U \ {w})
    BY DEF Keeps
  <2> QED BY <1>1, <1>6, <1>13, <1>36, <2>1, <2>2, BlockGone
<1>39. PICK b : b = NewBlock(out, asked, old.data, size)
  OBVIOUS
<1>40. b.addr = p /\ b.size = size /\ b.kept = size /\ b.data = old.data
  BY <1>5, <1>11, <1>39 DEF NewBlock
<1>41. BlockIn(k, b, u)
  <2>1. BlockOf(u, b)
    BY <1>9, <1>10, <1>11, <1>40 DEF BlockOf, GetHeader
  <2>2. \A i \in 0 .. size - 1 : p + i \in Body(u)
    BY <1>10, <1>12
  <2> QED BY <1>10, <1>12, <1>16, <1>34, <1>40, <2>1, <2>2 DEF BlockIn
<1>42. BlocksInv(k, W, (L \ {old}) \union {b})
  <2>1. Owned(W)
    BY <1>26, <1>33, SteadyOwned
  <2> QED BY <1>36, <1>37, <1>38, <1>41, <2>1, BlockAdded
<1>43. Region(k, p, R) = Starts(T)
  <2>1. u \in Z => Starts(T) \subseteq Starts(S)
    BY <1>7, <1>27
  <2> QED BY <1>1, <1>7, <1>11, <1>26, <1>28, <1>33, <2>1, RegionIs
<1>44. LeaState(k, Region(k, out.ptr, R), (L \ {old}) \union {b})
  BY <1>5, <1>11, <1>26, <1>33, <1>42, <1>43 DEF LeaState
<1>45. Fresh(h, k, L, p, asked, size)
  <2>1. \A a \in L : a.addr # p
    <3> TAKE a \in L
    <3>1. PICK v \in U : a.addr = v[1] + 1
      BY <1>1, <1>6, <1>13, BlockHas
    <3>2. v[1] # u[1] /\ v[1] \in Int
      BY <1>8, <1>9, <3>1 DEF Owned
    <3> QED BY <1>9, <1>11, <3>1, <3>2
  <2>2. IsMmapped(k, u[1]) <=> u \in Z
    BY <1>26, <1>28, <1>33, InUseHeader
  <2>3. u \in Z <=> u \in Y
    BY <1>15, <1>27
  <2>4. GetHeader(p) = u[1]
    BY <1>9, <1>11 DEF GetHeader
  <2>5. SameSlop(h, z) => SameSlop(h, k)
    <3>1. SameZone(z, c) /\ SameZone(f, k) /\ SameSlop(c, f)
      BY <1>22, <1>27, <1>32 DEF Writes
    <3> QED BY <3>1 DEF SameSlop, SameZone
  <2>6. asked <= size
    BY <1>3, <1>7, <1>10
  <2> QED BY <1>2, <1>7, <1>10, <1>12, <2>1, <2>2, <2>3, <2>4, <2>5, <2>6 DEF Fresh
<1> QED BY <1>5, <1>11, <1>39, <1>44, <1>45

-----------------------------------------------------------------------------
(* The invariant.                                                          *)

LEMMA InitSteady ==
  ASSUME NEW h,
         h = [mem |-> [a \in Granule \union Heads |-> IF a \in Heads THEN <<a, a>> ELSE <<0, 0>>],
              maps |-> {}, arena |-> NULL, space |-> NULL, left |-> 0, ptr |-> NULL, remaining |-> 0,
              binmap |-> [k \in {Block(c) : c \in Bins} |-> {}]]
  PROVE  Steady(h, {}, {}, {}, {})
<1>1. PICK m : m = [a \in Granule \union Heads |-> IF a \in Heads THEN <<a, a>> ELSE <<0, 0>>]
  OBVIOUS
<1>2. PICK f : f = [k \in MapBlocks |-> {}]
  OBVIOUS
<1>3. \A a \in Heads : a \in Int
  BY HeadsAreNoGranules DEF Heads
<1>4. m \in [Mem -> Int \X Int] /\ \A a \in Heads : m[a] = <<a, a>>
  BY <1>1, <1>3 DEF Mem
<1>5. f \in [MapBlocks -> SUBSET Int] /\ \A k \in MapBlocks : f[k] = {}
  BY <1>2
<1>6. h = [mem |-> m, maps |-> {}, arena |-> 0, space |-> 0, left |-> 0, ptr |-> 0, remaining |-> 0,
           binmap |-> f]
  BY <1>1, <1>2 DEF MapBlocks, NULL
<1>7. h \in HeapType /\ h.mem = m /\ h.binmap = f /\ h.maps = {} /\ h.arena = NULL /\ h.ptr = NULL /\ h.remaining = 0
  BY <1>4, <1>5, <1>6 DEF HeapType, NULL
<1>8. Layout({}, {}, {})
  BY DEF Layout, Adjoin
<1>9. MapsInv(h, {}, {}) /\ SlopInv(h, {}) /\ ArenaInv(h, {})
  BY <1>7 DEF MapsInv, SlopInv, ArenaInv
<1>10. Tags(h, {}, {}) /\ RunTags(h, {}) /\ MappedTags(h, {})
  BY DEF Tags, RunTags, MappedTags
<1>11. Rings(h, {})
  <2> SUFFICES ASSUME NEW c \in Bins PROVE IsRing(h.mem, Entries({}, c), Head(c))
    BY DEF Rings
  <2>1. PICK d : d = Head(c)
    OBVIOUS
  <2>2. h.mem[d] = <<d, d>>
    BY <1>4, <1>7, <2>1 DEF Heads
  <2>3. Entries({}, c) = {}
    BY DEF Entries
  <2>4. PICK E : E = {} \union {d}
    OBVIOUS
  <2>5. \A e \in E : e = d /\ h.mem[e][2] \in E /\ h.mem[h.mem[e][2]][1] = e
    <3>1. h.mem[d][1] = d /\ h.mem[d][2] = d
      <4>1. PICK v : v = h.mem[d]
        OBVIOUS
      <4>2. v = <<d, d>>
        BY <2>2, <4>1
      <4>3. v[1] = d /\ v[2] = d
        BY <4>2
      <4> QED BY <4>1, <4>3
    <3> QED BY <2>4, <3>1
  <2>6. \A part \in (SUBSET E) \ {{}, E} : FALSE
    BY <2>4
  <2>7. IsRing(h.mem, {}, d)
    BY <2>4, <2>5, <2>6 DEF IsRing
  <2> QED BY <2>1, <2>3, <2>7
<1>12. BitsInv(h, {})
  BY <1>5, <1>7 DEF BitsInv
<1>13. Marked({}, {}) = {}
  BY DEF Marked
<1> QED BY <1>7, <1>8, <1>9, <1>10, <1>11, <1>12, <1>13 DEF Steady, Good

LEMMA InitInv == Init => LeaInv
<1> SUFFICES ASSUME Init PROVE LeaInv
  OBVIOUS
<1>1. Steady(heap, {}, {}, {}, {}) /\ live = {} /\ regions = {}
  BY InitSteady DEF Init
<1>2. Starts({}) = {} /\ InUse({}, {}, {}) = {}
  BY DEF Starts, InUse
<1>3. BlocksInv(heap, {}, {})
  BY DEF BlocksInv
<1> QED BY <1>1, <1>2, <1>3 DEF LeaInv, LeaState

LEMMA ReturnIs ==
  ASSUME NEW out, Return(out)
  PROVE  heap' = out.heap /\ regions' = Region(heap', out.ptr, regions)
BY DEF Return, Region

(* Outcomes are records.                                                   *)
IsOutcome(out) == out = Outcome(out.ptr, out.heap)

LEMMA OutcomeIs ==
  ASSUME NEW p, NEW h
  PROVE  IsOutcome(Outcome(p, h))
BY DEF IsOutcome, Outcome

LEMMA MallocOutcome ==
  ASSUME NEW h, NEW n, NEW out \in Malloc(h, n)
  PROVE  IsOutcome(out)
<1>1. ASSUME NEW g, NEW m, NEW o \in ZoneMalloc(g, m) PROVE IsOutcome(o)
  BY OutcomeIs DEF ZoneMalloc
<1>2. ASSUME NEW g, NEW m, NEW o \in SlopMalloc(g, m) PROVE IsOutcome(o)
  <2>1. CASE m <= g.remaining
    BY <1>2, <2>1, OutcomeIs DEF SlopMalloc
  <2>2. CASE ~(m <= g.remaining)
    <3>1. PICK got \in ZoneMalloc(g, m + Slop) :
            o = LET z == got.heap
                IN  CASE got.ptr = NULL -> got
                      [] got.ptr # NULL /\ Contiguous(g, got.ptr) ->
                           Outcome(g.ptr, [z EXCEPT !.ptr = @ + m, !.remaining = @ + Slop])
                      [] OTHER ->
                           Outcome(got.ptr, [z EXCEPT !.ptr = got.ptr + m, !.remaining = 0])
      BY <1>2, <2>2 DEF SlopMalloc
    <3>2. IsOutcome(got)
      BY <1>1
    <3>3. CASE got.ptr = NULL
      BY <3>1, <3>2, <3>3
    <3>4. CASE got.ptr # NULL /\ Contiguous(g, got.ptr)
      BY <3>1, <3>4, OutcomeIs
    <3>5. CASE got.ptr # NULL /\ ~Contiguous(g, got.ptr)
      BY <3>1, <3>5, OutcomeIs
    <3> QED BY <3>3, <3>4, <3>5
  <2> QED BY <2>1, <2>2
<1>3. ASSUME NEW g, NEW m, NEW o \in CoalesceableMalloc(g, m) PROVE IsOutcome(o)
  <2>1. PICK got \in SlopMalloc(g, m + 1) :
          o = IF got.ptr = NULL THEN got
              ELSE Outcome(got.ptr + 1, Tagged(got.heap, got.ptr, got.ptr + 1 + m, m))
    BY <1>3 DEF CoalesceableMalloc, Tagged
  <2> QED BY <1>2, <2>1, OutcomeIs
<1>4. ASSUME NEW g, NEW m, NEW o \in SegMalloc(g, m) PROVE IsOutcome(o)
  <2>1. (\E k : o \in CoalesceableMalloc(k, m)) \/ \E k, c : o = Get(k, c)
    BY <1>4 DEF SegMalloc
  <2> QED BY <1>3, <2>1, OutcomeIs DEF Get
<1>5. ASSUME NEW g, NEW m, NEW o \in CoalesceMalloc(g, m) PROVE IsOutcome(o)
  BY <1>4, <1>5, OutcomeIs DEF CoalesceMalloc
<1>6. ASSUME NEW g, NEW m, NEW o \in MappedMalloc(g, m) PROVE IsOutcome(o)
  BY <1>6, OutcomeIs DEF MappedMalloc
<1>7. PICK m : m = IF n = 0 THEN 1 ELSE n
  OBVIOUS
<1>8. \/ out = Outcome(NULL, h) \/ \E g : out \in MappedMalloc(g, m) \/ out \in CoalesceMalloc(h, m)
  <2>1. Malloc(h, n) = CASE m >= HalfRange -> {Outcome(NULL, h)}
                         [] m \in ThresholdSize + 1 .. HalfRange - 1 -> MappedMalloc(h, m)
                         [] OTHER -> UNION {IF o.ptr = NULL THEN MappedMalloc(o.heap, m) ELSE {o} :
                                              o \in CoalesceMalloc(h, m)}
    BY <1>7 DEF Malloc
  <2>2. CASE m >= HalfRange /\ m \notin ThresholdSize + 1 .. HalfRange - 1
    BY <2>1, <2>2
  <2>3. CASE ~(m >= HalfRange) /\ m \in ThresholdSize + 1 .. HalfRange - 1
    BY <2>1, <2>3
  <2>4. CASE ~(m >= HalfRange) /\ m \notin ThresholdSize + 1 .. HalfRange - 1
    BY <2>1, <2>4
  <2>5. CASE m >= HalfRange /\ m \in ThresholdSize + 1 .. HalfRange - 1
    BY <2>5, LeaFacts
  <2> QED BY <2>2, <2>3, <2>4, <2>5
<1> QED BY <1>5, <1>6, <1>8, OutcomeIs

(* What a call that gives out a block does to it and to the others: b is   *)
(* the new block.                                                          *)
Step(asked, b) ==
  /\ LeaInv' /\ b \in live' /\ b.asked = asked /\ b.align = 1
  /\ Fresh(heap, heap', live, b.addr, asked, b.size) /\ b.kept = b.size

LEMMA MallocStep ==
  ASSUME LeaInv, NEW n \in Requests, NEW x \in Data, CallMalloc(n, x)
  PROVE  /\ ~taken'
         /\ \/ LeaInv' /\ UNCHANGED live
            \/ \E b : /\ Step(n, b) /\ b.data = x
                      /\ live' = live \union {b} /\ Cardinality(live) < MaxObjects
<1>1. Cardinality(live) < MaxObjects /\ ~taken'
  BY DEF CallMalloc
<1>2. PICK out \in Malloc(heap, n) :
        IF out.ptr \in {NULL, Crash} THEN Return(out) /\ UNCHANGED live
        ELSE LET size == GetSize(out.heap, GetHeader(out.ptr))
             IN  /\ Return([out EXCEPT !.heap = Fill(@, out.ptr, size, x)])
                 /\ live' = live \union {NewBlock(out, n, x, size)}
  BY DEF CallMalloc
<1>3. CASE out.ptr \in {NULL, Crash}
  <2>1. heap' = out.heap /\ regions' = regions /\ live' = live
    BY <1>2, <1>3, ReturnIs DEF Region
  <2>2. LeaState(out.heap, regions, live)
    BY <1>3, MallocFails DEF LeaInv
  <2> QED BY <1>1, <2>1, <2>2 DEF LeaInv
<1>4. CASE out.ptr \notin {NULL, Crash}
  <2>1. PICK size : size = GetSize(out.heap, GetHeader(out.ptr))
    OBVIOUS
  <2>2. PICK k : k = Fill(out.heap, out.ptr, size, x)
    OBVIOUS
  <2>3. PICK b : b = NewBlock(out, n, x, size)
    OBVIOUS
  <2>4. Return([out EXCEPT !.heap = k]) /\ live' = live \union {b}
    BY <1>2, <1>4, <2>1, <2>2, <2>3
  <2>5. heap' = k /\ regions' = Region(k, out.ptr, regions)
    <3>1. IsOutcome(out)
      BY MallocOutcome
    <3>2. PICK o : o = [out EXCEPT !.heap = k]
      OBVIOUS
    <3>3. o.heap = k /\ o.ptr = out.ptr
      BY <3>1, <3>2 DEF IsOutcome, Outcome
    <3>4. Return(o)
      BY <2>4, <3>2
    <3> QED BY <3>3, <3>4, ReturnIs
  <2>6. LeaState(k, Region(k, out.ptr, regions), live \union {b}) /\ Fresh(heap, k, live, out.ptr, n, size)
    BY <1>4, <2>1, <2>2, <2>3, MallocCall DEF LeaInv
  <2>7. b.addr = out.ptr /\ b.asked = n /\ b.align = 1 /\ b.size = size /\ b.kept = size /\ b.data = x
    BY <2>1, <2>3 DEF NewBlock
  <2>8. Step(n, b)
    BY <2>4, <2>5, <2>6, <2>7 DEF Step, LeaInv
  <2> QED BY <1>1, <2>4, <2>7, <2>8
<1> QED BY <1>3, <1>4

LEMMA FreeStep ==
  ASSUME LeaInv, NEW b \in live, CallFree(b)
  PROVE  LeaInv' /\ live' = live \ {b} /\ ~taken' /\ SameSlop(heap, heap')
<1>1. heap' = Free(heap, b.addr) /\ live' = live \ {b} /\ ~taken' /\ regions' = regions
  BY DEF CallFree
<1>2. LeaState(Free(heap, b.addr), regions, live \ {b}) /\ SameSlop(heap, Free(heap, b.addr))
  BY FreeCall DEF LeaInv
<1> QED BY <1>1, <1>2 DEF LeaInv

LEMMA ReallocStep ==
  ASSUME LeaInv, NEW old \in live, NEW n \in Requests, CallRealloc(old, n)
  PROVE  /\ n \notin {0, old.size}
         /\ \/ LeaInv' /\ UNCHANGED live /\ ~taken'
            \/ LeaInv' /\ live' = live \ {old} /\ taken'
            \/ \E b : /\ Step(n, b) /\ b.data = old.data
                      /\ live' = (live \ {old}) \union {b} /\ ~taken'
<1>1. n \notin {0, old.size}
  BY DEF CallRealloc
<1>2. PICK out \in Malloc(heap, n) :
       CASE out.ptr = Crash -> Return(out) /\ UNCHANGED live /\ taken' = FALSE
         [] out.ptr = NULL ->
              /\ Return([out EXCEPT !.heap = Free(@, old.addr)])
              /\ live' = live \ {old} /\ taken' = TRUE
         [] OTHER ->
            LET size == GetSize(out.heap, GetHeader(out.ptr))
                kept == IF old.size < n THEN old.size ELSE n
                moved == Free(Copy(out.heap, old.addr, out.ptr, kept), old.addr)
            IN  /\ Return([out EXCEPT !.heap = Fill(moved, out.ptr + kept, size - kept, old.data)])
                /\ live' = (live \ {old}) \union {NewBlock(out, n, old.data, size)}
                /\ taken' = FALSE
  BY DEF CallRealloc
<1>3. ASSUME NEW k, Return([out EXCEPT !.heap = k])
      PROVE  heap' = k /\ regions' = Region(k, out.ptr, regions)
  <2>1. IsOutcome(out)
    BY MallocOutcome
  <2>2. PICK o : o = [out EXCEPT !.heap = k]
    OBVIOUS
  <2>3. o.heap = k /\ o.ptr = out.ptr
    BY <2>1, <2>2 DEF IsOutcome, Outcome
  <2>4. Return(o)
    BY <1>3, <2>2
  <2> QED BY <2>3, <2>4, ReturnIs
<1>4. NULL # Crash
  BY DEF NULL, Crash
<1>5. CASE out.ptr = Crash
  <2>1. Return(out) /\ UNCHANGED live /\ ~taken'
    BY <1>2, <1>4, <1>5
  <2>2. heap' = out.heap /\ regions' = regions
    BY <1>5, <2>1, ReturnIs DEF Region
  <2>3. LeaState(out.heap, regions, live)
    BY <1>5, MallocFails DEF LeaInv
  <2> QED BY <1>1, <2>1, <2>2, <2>3 DEF LeaInv
<1>6. CASE out.ptr = NULL
  <2>1. PICK k : k = Free(out.heap, old.addr)
    OBVIOUS
  <2>2. Return([out EXCEPT !.heap = k]) /\ live' = live \ {old} /\ taken'
    BY <1>2, <1>6, <1>4, <2>1
  <2>3. heap' = k /\ regions' = regions
    BY <1>3, <1>6, <2>2 DEF Region
  <2>4. LeaState(out.heap, regions, live)
    BY <1>6, MallocFails DEF LeaInv
  <2>5. LeaState(k, regions, live \ {old})
    BY <2>1, <2>4, FreeCall
  <2> QED BY <1>1, <2>2, <2>3, <2>5 DEF LeaInv
<1>7. CASE out.ptr \notin {NULL, Crash}
  <2>1. PICK size : size = GetSize(out.heap, GetHeader(out.ptr))
    OBVIOUS
  <2>2. PICK kept : kept = IF old.size < n THEN old.size ELSE n
    OBVIOUS
  <2>3. PICK c, f, k : /\ c = Copy(out.heap, old.addr, out.ptr, kept) /\ f = Free(c, old.addr)
                       /\ k = Fill(f, out.ptr + kept, size - kept, old.data)
    OBVIOUS
  <2>4. PICK b : b = NewBlock(out, n, old.data, size)
    OBVIOUS
  <2>5. Return([out EXCEPT !.heap = k]) /\ live' = (live \ {old}) \union {b} /\ ~taken'
    BY <1>2, <1>7, <2>1, <2>2, <2>3, <2>4
  <2>6. heap' = k /\ regions' = Region(k, out.ptr, regions)
    BY <1>3, <2>5
  <2>7. /\ LeaState(k, Region(k, out.ptr, regions), (live \ {old}) \union {b})
        /\ Fresh(heap, k, live, out.ptr, n, size)
    BY <1>7, <2>1, <2>2, <2>3, <2>4, ReallocCall DEF LeaInv
  <2>8. b.addr = out.ptr /\ b.asked = n /\ b.align = 1 /\ b.size = size /\ b.kept = size /\ b.data = old.data
    BY <2>1, <2>4 DEF NewBlock
  <2>9. Step(n, b)
    BY <2>5, <2>6, <2>7, <2>8 DEF Step, LeaInv
  <2> QED BY <1>1, <2>5, <2>8, <2>9
<1> QED BY <1>6, <1>7, <1>5

LEMMA NextInv == LeaInv /\ [Next]_vars => LeaInv'
<1> SUFFICES ASSUME LeaInv, [Next]_vars PROVE LeaInv'
  OBVIOUS
<1>1. CASE UNCHANGED vars
  BY <1>1 DEF vars, LeaInv
<1>2. ASSUME NEW n \in Requests, NEW x \in Data, CallMalloc(n, x) PROVE LeaInv'
  BY <1>2, MallocStep DEF Step
<1>3. ASSUME NEW b \in live, CallFree(b) PROVE LeaInv'
  BY <1>3, FreeStep
<1>4. ASSUME NEW b \in live, NEW n \in Requests, CallRealloc(b, n) PROVE LeaInv'
  BY <1>4, ReallocStep DEF Step
<1> QED BY <1>1, <1>2, <1>3, <1>4 DEF Next

(* The memory is always laid out as the tags say, whatever clients ask for *)
(* and wherever the kernel maps memory.                                    *)
THEOREM LeaInvariant == Spec => []LeaInv
BY InitInv, NextInv, PTL DEF Spec

-----------------------------------------------------------------------------
(* The contract.                                                           *)

LEMMA LiveBlock ==
  ASSUME NEW h, NEW R, NEW L, LeaState(h, R, L), NEW b \in L
  PROVE  /\ b.addr \in Nat \ {0} /\ b.size \in Nat /\ b.kept = b.size /\ b.data \in Data
         /\ \A i \in 0 .. b.kept - 1 : h.mem[b.addr + i] = <<b.data, b.data>>
<1>1. PICK S, O, B, X : Steady(h, S, O, B, X) /\ BlocksInv(h, InUse(O, B, X), L)
  BY DEF LeaState
<1>2. PICK U : U = InUse(O, B, X)
  OBVIOUS
<1>3. Owned(U)
  BY <1>1, <1>2, SteadyOwned
<1>4. PICK u \in U : BlockIn(h, b, u) /\ b.addr = u[1] + 1
  BY <1>1, <1>2, <1>3, BlockHas
<1>5. u[1] \in Int /\ 1 <= u[1]
  BY <1>3 DEF Owned
<1> QED BY <1>4, <1>5 DEF BlockIn

LEMMA LiveDisjoint ==
  ASSUME NEW h, NEW R, NEW L, LeaState(h, R, L), NEW b \in L, NEW c \in L, b.addr # c.addr
  PROVE  Contract!Disjoint(b, c)
<1>1. PICK S, O, B, X : Steady(h, S, O, B, X) /\ BlocksInv(h, InUse(O, B, X), L)
  BY DEF LeaState
<1>2. PICK U : U = InUse(O, B, X)
  OBVIOUS
<1>3. Owned(U)
  BY <1>1, <1>2, SteadyOwned
<1>4. PICK u \in U : b.addr = u[1] + 1 /\ b.size = Size(u)
  BY <1>1, <1>2, <1>3, BlockHas
<1>5. PICK v \in U : c.addr = v[1] + 1 /\ c.size = Size(v)
  BY <1>1, <1>2, <1>3, BlockHas
<1>6. u # v
  BY <1>4, <1>5
<1>7. /\ u[1] \in Int /\ u[2] \in Int /\ v[1] \in Int /\ v[2] \in Int
      /\ u[2] <= v[1] \/ v[2] <= u[1]
  BY <1>3, <1>6 DEF Owned
<1>8. b.addr + b.size - 1 = u[2] - 1 /\ c.addr + c.size - 1 = v[2] - 1
  BY <1>4, <1>5, <1>7 DEF Size
<1>9. ASSUME NEW g \in Contract!Words(b), g \in Contract!Words(c) PROVE FALSE
  <2>1. g \in u[1] + 1 .. u[2] - 1 /\ g \in v[1] + 1 .. v[2] - 1
    BY <1>4, <1>5, <1>8, <1>9 DEF Contract!Words
  <2> QED BY <1>7, <2>1
<1> QED BY <1>9 DEF Contract!Disjoint

(* A new block is as large as asked and beside those clients have.         *)
LEMMA StepGives ==
  ASSUME NEW asked, NEW b, Step(asked, b)
  PROVE  /\ b.addr \in Nat \ {0} /\ b.addr % b.align = 0 /\ b.asked <= b.size
         /\ b.size \in Nat /\ b.kept = b.size /\ b.data \in Data
         /\ \A c \in live : c \in live' => Contract!Disjoint(b, c)
<1>1. /\ LeaState(heap', regions', live') /\ b \in live' /\ b.asked = asked /\ b.align = 1
      /\ asked <= b.size /\ \A c \in live : c.addr # b.addr
  BY DEF Step, Fresh, LeaInv
<1>2. b.addr \in Nat \ {0} /\ b.size \in Nat /\ b.kept = b.size /\ b.data \in Data
  BY <1>1, LiveBlock
<1>3. \A c \in live : c \in live' => Contract!Disjoint(b, c)
  BY <1>1, LiveDisjoint
<1>4. b.addr % b.align = 0
  BY <1>1, <1>2
<1> QED BY <1>1, <1>2, <1>3, <1>4

(* A step of the contract, or a realloc that fails and takes its block.    *)
Promised == ReallocTakes \/ (~taken' /\ Contract!Next)

LEMMA ContractStep == LeaInv /\ [Next]_vars => [Promised]_live
<1> SUFFICES ASSUME LeaInv, [Next]_vars PROVE [Promised]_live
  OBVIOUS
<1>1. CASE UNCHANGED vars
  BY <1>1 DEF vars
<1>2. ASSUME NEW n \in Requests, NEW x \in Data, CallMalloc(n, x) PROVE [Promised]_live
  <2>1. CASE UNCHANGED live
    BY <2>1
  <2>2. CASE \E b : Step(n, b) /\ live' = live \union {b}
    <3>1. PICK b : Step(n, b) /\ live' = live \union {b}
      BY <2>2
    <3>2. b \in live' /\ b.kept <= b.size
      BY <3>1, StepGives
    <3>3. Contract!Give
      BY <3>1, <3>2, StepGives DEF Contract!Give
    <3> QED BY <1>2, <3>3, MallocStep DEF Promised, Contract!Next
  <2> QED BY <1>2, <2>1, <2>2, MallocStep
<1>3. ASSUME NEW b \in live, CallFree(b) PROVE [Promised]_live
  <2>1. live' = live \ {b} /\ ~taken'
    BY <1>3, FreeStep
  <2> QED BY <2>1 DEF Promised, Contract!Next, Contract!Free
<1>4. ASSUME NEW old \in live, NEW n \in Requests, CallRealloc(old, n) PROVE [Promised]_live
  <2>1. CASE UNCHANGED live
    BY <2>1
  <2>2. CASE live' = live \ {old} /\ taken'
    BY <2>2 DEF Promised, ReallocTakes
  <2>3. CASE ~taken' /\ \E b : Step(n, b) /\ b.data = old.data /\ live' = (live \ {old}) \union {b}
    <3>1. PICK b : Step(n, b) /\ b.data = old.data /\ live' = (live \ {old}) \union {b}
      BY <2>3
    <3>2. /\ b \in live' /\ b.addr # 0 /\ b.asked <= b.size /\ b.kept = b.size /\ b.size \in Nat /\ b.asked \in Nat
          /\ \A c \in live \ {old} : Contract!Disjoint(b, c)
      BY <3>1, StepGives, LeaFacts DEF Step
    <3>3. old.kept \in Nat
      BY LiveBlock DEF LeaInv
    <3>4. b.kept >= IF old.kept < b.asked THEN old.kept ELSE b.asked
      BY <3>2, <3>3
    <3>5. Contract!Realloc
      BY <3>1, <3>2, <3>4 DEF Contract!Realloc
    <3> QED BY <2>3, <3>5 DEF Promised, Contract!Next
  <2> QED BY <1>4, <2>1, <2>2, <2>3, ReallocStep
<1> QED BY <1>1, <1>2, <1>3, <1>4 DEF Next

(* Whatever clients ask for, wherever the kernel maps memory and whenever  *)
(* it refuses to, until that kills the process, the blocks that malloc and *)
(* realloc return are as large as asked and share no granule with another, *)
(* and realloc keeps what it must.  One step is not C's: a realloc that    *)
(* fails frees the block it was given, and no other.                       *)
THEOREM LeaContract == Spec => ImplementsContract
<1>1. Init => Contract!Init
  BY DEF Init, Contract!Init
<1>2. Spec => [][Promised]_live
  BY ContractStep, LeaInvariant, PTL DEF Spec
<1> QED BY <1>1, <1>2, PTL DEF Spec, ImplementsContract, Promised

-----------------------------------------------------------------------------
(* Bins come first.                                                        *)

(* The large heap grows only when no bin the map speaks for has an object. *)
Unavoidable(n) ==
  (\E b \in live' \ live : b.asked = n /\ ~IsMmapped(heap', GetHeader(b.addr)))
    /\ <<heap.ptr, heap.remaining>> # <<heap'.ptr, heap'.remaining>>
  => \A c \in Bins : c >= ClassOf[n] /\ HasOwnBit(c) => IsEmpty(heap, c)

LEMMA FreshUnavoidable ==
  ASSUME NEW asked, NEW b, Step(asked, b), NEW L, L \subseteq live, live' = L \union {b},
         NEW n \in Requests \intersect Sizes
  PROVE  Unavoidable(n)
<1> SUFFICES ASSUME NEW d \in live' \ live, d.asked = n, ~IsMmapped(heap', GetHeader(d.addr)),
                    <<heap.ptr, heap.remaining>> # <<heap'.ptr, heap'.remaining>>
             PROVE  \A c \in Bins : c >= ClassOf[n] /\ HasOwnBit(c) => IsEmpty(heap, c)
  BY DEF Unavoidable
<1>1. d = b
  OBVIOUS
<1>2. asked = n /\ Fresh(heap, heap', live, b.addr, asked, b.size)
  BY <1>1 DEF Step
<1>3. ~SameSlop(heap, heap')
  BY DEF SameSlop
<1>4. NoneFits(heap, AtLeastOne(n))
  BY <1>1, <1>2, <1>3 DEF Fresh
<1>5. AtLeastOne(n) = n /\ n \in Sizes
  BY BinFacts DEF AtLeastOne
<1> QED BY <1>4, <1>5 DEF NoneFits

LEMMA NothingGrows ==
  ASSUME live' \subseteq live, NEW n
  PROVE  Unavoidable(n)
BY DEF Unavoidable

(* The arenas grow only when no bin that has a bit of the map to itself    *)
(* holds an object as large as asked: the map, which malloc clears bit by  *)
(* bit as it looks in vain and merging never tells of objects that are     *)
(* gone, forgets none that is there.                                       *)
THEOREM LeaBinsFirst == Spec => BinsFirst
<1> DEFINE Reuse == \A n \in Requests \intersect Sizes : Unavoidable(n)
<1>1. LeaInv /\ [Next]_vars => [Reuse]_vars
  <2> SUFFICES ASSUME LeaInv, Next, NEW n \in Requests \intersect Sizes PROVE Unavoidable(n)
    OBVIOUS
  <2>1. ASSUME NEW m \in Requests, NEW x \in Data, CallMalloc(m, x) PROVE Unavoidable(n)
    <3>1. CASE UNCHANGED live
      BY <3>1, NothingGrows
    <3>2. CASE \E b : Step(m, b) /\ live' = live \union {b}
      BY <3>2, FreshUnavoidable
    <3> QED BY <2>1, <3>1, <3>2, MallocStep
  <2>2. ASSUME NEW b \in live, CallFree(b) PROVE Unavoidable(n)
    <3>1. live' \subseteq live
      BY <2>2, FreeStep
    <3> QED BY <3>1, NothingGrows
  <2>3. ASSUME NEW old \in live, NEW m \in Requests, CallRealloc(old, m) PROVE Unavoidable(n)
    <3>1. CASE live' = live \/ live' = live \ {old}
      BY <3>1, NothingGrows
    <3>2. CASE \E b : Step(m, b) /\ live' = (live \ {old}) \union {b}
      <4>1. PICK b : Step(m, b) /\ live' = (live \ {old}) \union {b}
        BY <3>2
      <4>2. live \ {old} \subseteq live
        OBVIOUS
      <4> QED BY <4>1, <4>2, FreshUnavoidable
    <3> QED BY <2>3, <3>1, <3>2, ReallocStep
  <2> QED BY <2>1, <2>2, <2>3 DEF Next
<1>2. Spec => [][Reuse]_vars
  <2> HIDE DEF Reuse
  <2> QED BY <1>1, LeaInvariant, PTL DEF Spec
<1> QED BY <1>2 DEF BinsFirst, Unavoidable

-----------------------------------------------------------------------------
(* The walk along the headers.                                             *)

Leads(h, g) == GetSize(h, g) \in Nat \ {0} /\ NextHeader(h, g) \in Granule

IsWalk(h, f) ==
  f = [g \in Granule |-> IF ~Leads(h, g) THEN {} ELSE {g} \union f[NextHeader(h, g)]]

(* A set that whoever starts in it does not leave.                         *)
Closed(h, A) == A \subseteq Granule /\ \A y \in A : Leads(h, y) => NextHeader(h, y) \in A

(* The function that walks along the headers exists, so what CHOOSE picks  *)
(* for its recursive definition is it: from g on come the headers in every *)
(* closed set that g is in.                                                *)
LEMMA HeadersWalk == IsWalk(heap, HeadersFrom)
<1>1. \E f : IsWalk(heap, f)
  <2>1. PICK h : h = heap
    OBVIOUS
  <2>2. PICK f : f = [g \in Granule |->
                        {x \in Granule : Leads(h, x) /\ \A A : Closed(h, A) /\ g \in A => x \in A}]
    OBVIOUS
  <2>3. \A g \in Granule : \A x :
          x \in f[g] <=> x \in Granule /\ Leads(h, x) /\ \A A : Closed(h, A) /\ g \in A => x \in A
    BY <2>2
  <2>4. ASSUME NEW g \in Granule, ~Leads(h, g) PROVE f[g] = {}
    <3>1. Closed(h, {g})
      BY <2>4 DEF Closed
    <3>2. \A x \in f[g] : FALSE
      <4> SUFFICES ASSUME NEW x \in f[g] PROVE FALSE
        OBVIOUS
      <4>1. Leads(h, x) /\ x \in {g}
        BY <2>3, <3>1
      <4> QED BY <2>4, <4>1
    <3> QED BY <3>2
  <2>5. ASSUME NEW g \in Granule, Leads(h, g) PROVE f[g] = {g} \union f[NextHeader(h, g)]
    <3>1. PICK n : n = NextHeader(h, g)
      OBVIOUS
    <3>2. n \in Granule
      BY <2>5, <3>1 DEF Leads
    <3>3. g \in f[g]
      BY <2>3, <2>5
    <3>4. ASSUME NEW x \in f[n] PROVE x \in f[g]
      <4>1. x \in Granule /\ Leads(h, x)
        BY <2>3, <3>2
      <4>2. ASSUME NEW A, Closed(h, A), g \in A PROVE x \in A
        <5>1. n \in A
          BY <2>5, <3>1, <4>2 DEF Closed
        <5> QED BY <2>3, <3>2, <4>2, <5>1
      <4> QED BY <2>3, <4>1, <4>2
    <3>5. ASSUME NEW x \in f[g], x # g PROVE x \in f[n]
      <4>1. x \in Granule /\ Leads(h, x)
        BY <2>3
      <4>2. ASSUME NEW A, Closed(h, A), n \in A PROVE x \in A
        <5>1. Closed(h, A \union {g})
          BY <2>5, <3>1, <4>2 DEF Closed
        <5>2. x \in A \union {g}
          BY <2>3, <5>1
        <5> QED BY <3>5, <5>2
      <4> QED BY <2>3, <3>2, <4>1, <4>2
    <3>6. \A x : x \in f[g] <=> x \in {g} \union f[n]
      BY <3>3, <3>4, <3>5
    <3> QED BY <3>1, <3>6
  <2>6. \A g \in Granule : f[g] = IF ~Leads(h, g) THEN {} ELSE {g} \union f[NextHeader(h, g)]
    BY <2>4, <2>5
  <2>7. DOMAIN f = Granule /\ f = [g \in DOMAIN f |-> f[g]]
    BY <2>2
  <2>8. f = [g \in Granule |-> f[g]]
    BY <2>7
  <2>9. [g \in Granule |-> f[g]] = [g \in Granule |-> IF ~Leads(h, g) THEN {} ELSE {g} \union f[NextHeader(h, g)]]
    BY <2>6
  <2>10. IsWalk(h, f)
    BY <2>8, <2>9, Zenon DEF IsWalk
  <2> QED BY <2>1, <2>10
<1>2. HeadersFrom = CHOOSE f : IsWalk(heap, f)
  <2>1. \A f : IsWalk(heap, f) <=>
          f = [g \in Granule |-> IF GetSize(heap, g) \notin Nat \ {0} \/ NextHeader(heap, g) \notin Granule
                                 THEN {} ELSE {g} \union f[NextHeader(heap, g)]]
    BY DEF IsWalk, Leads
  <2> QED BY <2>1 DEF HeadersFrom
<1> QED BY <1>1, <1>2

(* The object of a run that comes next after o, if any.                    *)
LEMMA AfterObject ==
  ASSUME NEW S, NEW O, NEW X, Layout(S, O, X), NEW s \in S, NEW o \in O, s[1] <= o[1], o[2] <= s[2]
  PROVE  \/ o[2] = s[2]
         \/ \E q \in O : q[1] = o[2] /\ s[1] <= q[1] /\ q[2] <= s[2]
<1>1. o[1] \in Int /\ o[2] \in Int /\ o[1] < o[2] /\ s[1] \in Int /\ s[2] \in Int
  BY LayoutTypes
<1>2. (\E t \in S : o[2] = t[2]) \/ \E q \in O : q[1] = o[2]
  BY DEF Layout, Adjoin
<1>3. ASSUME NEW t \in S, o[2] = t[2] PROVE o[2] = s[2]
  <2>1. t[1] \in Int /\ t[2] \in Int /\ t[1] < t[2]
    BY LayoutTypes
  <2>2. s = t \/ s[2] + 1 < t[1] - 1 \/ t[2] + 1 < s[1] - 1
    BY DEF Layout
  <2> QED BY <1>1, <1>3, <2>1, <2>2
<1>4. ASSUME NEW q \in O, q[1] = o[2] PROVE (s[1] <= q[1] /\ q[2] <= s[2]) \/ o[2] = s[2]
  <2>1. q[1] \in Int /\ q[2] \in Int /\ q[1] < q[2]
    BY LayoutTypes
  <2>2. \/ s[1] <= q[1] /\ q[2] <= s[2]
        \/ q[2] + 1 < s[1] - 1
        \/ s[2] + 1 < q[1] - 1
    BY InOrApart
  <2> QED BY <1>1, <1>4, <2>1, <2>2
<1> QED BY <1>2, <1>3, <1>4

(* The walk from an object to the end of its run.                          *)
Onward(O, o, s, x) == \E p \in O : x = p[1] /\ o[1] <= p[1] /\ p[2] <= s[2]

LEMMA WalkIs ==
  ASSUME NEW h, NEW S, NEW O, NEW B, NEW M, NEW X, Good(h, S, O, B, M, X), NEW f, IsWalk(h, f),
         NEW s \in S, NEW o \in O, s[1] <= o[1], o[2] <= s[2]
  PROVE  \A x : x \in f[o[1]] <=> Onward(O, o, s, x)
<1>1. Layout(S, O, X) /\ RunTags(h, S)
  BY GoodTags DEF AllTags
<1>2. /\ s[1] \in Int /\ s[2] \in Int /\ s[2] \in Granule
      /\ \A p \in O : p[1] \in Int /\ p[2] \in Int /\ p[1] \in Granule /\ p[2] \in Granule /\ p[1] < p[2]
  BY <1>1, LayoutTypes
<1>3. \A g \in Granule : f[g] = IF ~Leads(h, g) THEN {} ELSE {g} \union f[NextHeader(h, g)]
  BY DEF IsWalk
<1>4. f[s[2]] = {}
  <2>1. ~Leads(h, s[2])
    BY <1>1 DEF RunTags, Leads
  <2> QED BY <1>2, <1>3, <2>1
<1>5. ASSUME NEW p \in O PROVE f[p[1]] = {p[1]} \union f[p[2]]
  <2>1. GetSize(h, p[1]) = Size(p) /\ NextHeader(h, p[1]) = p[2] /\ Size(p) \in Nat \ {0}
    BY <1>1, NextHeaderIs, EntryInBody
  <2>2. Leads(h, p[1])
    BY <1>2, <2>1 DEF Leads
  <2> QED BY <1>2, <1>3, <2>1, <2>2
<1>6. \A p, q \in O : p # q => p[2] <= q[1] \/ q[2] <= p[1]
  BY <1>1 DEF Layout
<1>7. PICK T : T = {n \in Nat : \A p \in O : s[1] <= p[1] /\ p[2] <= s[2] /\ s[2] - p[1] <= n =>
                                  \A x : x \in f[p[1]] <=> Onward(O, p, s, x)}
  OBVIOUS
<1>8. 0 \in T
  <2>1. \A p \in O : p[2] <= s[2] => ~(s[2] - p[1] <= 0)
    BY <1>2
  <2> QED BY <1>7, <2>1
<1>9. ASSUME NEW n \in Nat, n \in T PROVE n + 1 \in T
  <2> SUFFICES ASSUME NEW p \in O, s[1] <= p[1], p[2] <= s[2], s[2] - p[1] <= n + 1, NEW x
               PROVE  x \in f[p[1]] <=> Onward(O, p, s, x)
    BY <1>7
  <2>1. x \in f[p[1]] <=> x = p[1] \/ x \in f[p[2]]
    BY <1>5
  <2>2. Onward(O, p, s, p[1])
    BY <1>2 DEF Onward
  <2>3. CASE p[2] = s[2]
    <3>1. ASSUME NEW q \in O, p[1] <= q[1], q[2] <= s[2] PROVE q = p
      BY <1>2, <1>6, <2>3, <3>1
    <3>2. Onward(O, p, s, x) <=> x = p[1]
      BY <2>2, <3>1 DEF Onward
    <3> QED BY <1>4, <2>1, <2>3, <3>2
  <2>4. ASSUME NEW q \in O, q[1] = p[2], s[1] <= q[1], q[2] <= s[2]
        PROVE  x \in f[p[1]] <=> Onward(O, p, s, x)
    <3>1. s[2] - q[1] <= n
      BY <1>2, <2>4
    <3>2. x \in f[q[1]] <=> Onward(O, q, s, x)
      BY <1>7, <1>9, <2>4, <3>1
    <3>3. ASSUME NEW r \in O, p[1] <= r[1] PROVE r = p \/ q[1] <= r[1]
      BY <1>2, <1>6, <2>4, <3>3
    <3>4. ASSUME NEW r \in O, q[1] <= r[1] PROVE p[1] <= r[1]
      BY <1>2, <2>4, <3>4
    <3>5. Onward(O, p, s, x) <=> x = p[1] \/ Onward(O, q, s, x)
      BY <2>2, <3>3, <3>4 DEF Onward
    <3> QED BY <2>1, <2>4, <3>2, <3>5
  <2> QED BY <1>1, <2>3, <2>4, AfterObject
<1>10. PICK n : n = s[2] - o[1]
  OBVIOUS
<1>11. n \in Nat
  BY <1>2, <1>10
<1>12. n \in T
  BY <1>8, <1>9, <1>11, SetInduction
<1>13. s[2] - o[1] <= n
  BY <1>10, <1>11
<1> QED BY <1>7, <1>12, <1>13

(* The state as the properties see it.                                     *)
Shown(S, O, B, X) ==
  /\ Steady(heap, S, O, B, X) /\ regions = Starts(S) /\ BlocksInv(heap, InUse(O, B, X), live)

LEMMA HeadersAre ==
  ASSUME NEW S, NEW O, NEW B, NEW X, Shown(S, O, B, X)
  PROVE  \A x : x \in Headers <=> \E o \in O : x = o[1]
<1>1. PICK M : M = Marked(S, B)
  OBVIOUS
<1>2. Good(heap, S, O, B, M, X) /\ Layout(S, O, X) /\ regions = Starts(S)
  BY <1>1, GoodTags DEF Shown, Steady
<1>3. \A o \in O : o[1] \in Int /\ o[2] \in Int /\ o[1] < o[2]
  BY <1>2, LayoutTypes
<1>4. ASSUME NEW s \in S PROVE \A x : x \in HeadersFrom[s[1]] <=> \E p \in O : x = p[1] /\ s[1] <= p[1] /\ p[2] <= s[2]
  <2>1. PICK o \in O : o[1] = s[1]
    BY <1>2 DEF Layout, Adjoin
  <2>2. s[1] \in Int /\ s[2] \in Int /\ s[1] < s[2]
    BY <1>2, LayoutTypes
  <2>3. s[1] <= o[1] /\ o[2] <= s[2]
    BY <1>2, <1>3, <2>1, <2>2, InOrApart
  <2>4. \A x : x \in HeadersFrom[o[1]] <=> Onward(O, o, s, x)
    BY <1>2, <2>3, HeadersWalk, WalkIs
  <2> QED BY <2>1, <2>4 DEF Onward
<1>5. ASSUME NEW o \in O PROVE o[1] \in Headers
  <2>1. PICK s \in S : s[1] <= o[1] /\ o[2] <= s[2]
    BY <1>2 DEF Layout, Adjoin
  <2>2. o[1] \in HeadersFrom[s[1]]
    BY <1>4, <2>1
  <2> QED BY <1>2, <2>2 DEF Headers, Starts
<1>6. ASSUME NEW x \in Headers PROVE \E o \in O : x = o[1]
  <2>1. PICK r \in regions : x \in HeadersFrom[r]
    BY DEF Headers
  <2>2. PICK s \in S : r = s[1]
    BY <1>2, <2>1 DEF Starts
  <2> QED BY <1>4, <2>1, <2>2
<1> QED BY <1>5, <1>6

LEMMA FreeHeadersAre ==
  ASSUME NEW S, NEW O, NEW B, NEW X, Shown(S, O, B, X)
  PROVE  \A x : x \in FreeHeaders <=> \E o \in B : x = o[1]
<1>1. PICK U, M : U = InUse(O, B, X) /\ M = Marked(S, B)
  OBVIOUS
<1>2. /\ Good(heap, S, O, B, M, X) /\ Layout(S, O, X) /\ B \subseteq O
      /\ BlocksInv(heap, U, live) /\ Owned(U)
  BY <1>1, GoodTags, SteadyOwned DEF Shown, Steady
<1>3. \A b \in live : \E u \in U : b.addr = u[1] + 1
  BY <1>2, BlockHas
<1>4. \A u \in U : u[1] \in Int /\ u \in O \union X
  BY <1>1, <1>2 DEF Owned, InUse
<1>5. \A o \in O : o[1] \in Int
  BY <1>2, LayoutTypes
<1>6. ASSUME NEW o \in B, NEW b \in live PROVE b.addr # o[1] + 1
  <2>1. PICK u \in U : b.addr = u[1] + 1
    BY <1>3
  <2>2. u # o
    <3>1. o \notin X
      BY <1>2, InUseApart
    <3> QED BY <1>1, <3>1 DEF InUse
  <2>3. u[1] # o[1]
    BY <1>2, <1>4, <2>2, BodiesApart
  <2> QED BY <1>2, <1>4, <1>5, <2>1, <2>3
<1>7. ASSUME NEW o \in O, o \notin B PROVE \E b \in live : b.addr = o[1] + 1
  <2>1. o \in U
    BY <1>1, <1>7 DEF InUse
  <2>2. PICK b \in live : BlockOf(o, b)
    BY <1>2, <2>1, BlocksIn
  <2>3. PICK u \in U : BlockIn(heap, b, u)
    BY <1>2, BlocksIn
  <2>4. o[1] = b.addr - 1 /\ b.addr \in Nat
    BY <2>2, <2>3 DEF BlockOf, BlockIn, GetHeader
  <2>5. b.addr = o[1] + 1
    BY <2>4
  <2> QED BY <2>5
<1>8. \A x : x \in Headers <=> \E o \in O : x = o[1]
  BY HeadersAre
<1>9. \A x : x \in FreeHeaders <=> x \in Headers /\ \A b \in live : b.addr # x + 1
  BY DEF FreeHeaders
<1>10. ASSUME NEW x \in FreeHeaders PROVE \E o \in B : x = o[1]
  BY <1>7, <1>8, <1>9
<1>11. ASSUME NEW o \in B PROVE o[1] \in FreeHeaders
  BY <1>2, <1>6, <1>8, <1>9
<1> QED BY <1>10, <1>11

LEMMA InvShown == LeaInv => \E S, O, B, X : Shown(S, O, B, X)
BY DEF LeaInv, LeaState, Shown

LEMMA TagsShown ==
  ASSUME NEW S, NEW O, NEW B, NEW X, Shown(S, O, B, X)
  PROVE  TagsAreTrue
<1>1. PICK U, M : U = InUse(O, B, X) /\ M = Marked(S, B)
  OBVIOUS
<1>2. /\ Good(heap, S, O, B, M, X) /\ Layout(S, O, X) /\ AllTags(heap, S, O, M, X) /\ B \subseteq O
      /\ Steady(heap, S, O, B, X) /\ MapsInv(heap, S, X)
      /\ BlocksInv(heap, U, live) /\ Owned(U) /\ regions = Starts(S)
  BY <1>1, GoodTags, SteadyOwned DEF Shown, Steady, Good
<1>3. ASSUME NEW g \in Headers
      PROVE  /\ GetPrevSize(heap, NextHeader(heap, g)) = GetSize(heap, g)
             /\ IsPrevFree(heap, NextHeader(heap, g)) <=> g \in FreeHeaders \ regions
             /\ ~IsMmapped(heap, g)
  <2>1. PICK o \in O : g = o[1]
    BY HeadersAre
  <2>2. GetSize(heap, g) = Size(o) /\ NextHeader(heap, g) = o[2]
    BY <1>2, <2>1, NextHeaderIs
  <2>3. /\ GetPrevSize(heap, o[2]) = Size(o) /\ ~IsMmapped(heap, g)
        /\ IsPrevFree(heap, o[2]) <=> o \in M
    BY <1>2, <2>1 DEF AllTags, Tags
  <2>4. o \in M <=> o \in B /\ g \notin regions
    BY <1>1, <1>2, <2>1 DEF Marked
  <2>5. g \in FreeHeaders <=> o \in B
    <3>1. g \in FreeHeaders <=> \E p \in B : g = p[1]
      BY FreeHeadersAre
    <3>2. \A p \in O : p[1] = o[1] => p = o
      BY <1>2, HeadersApart
    <3> QED BY <1>2, <2>1, <3>1, <3>2
  <2> QED BY <2>2, <2>3, <2>4, <2>5
<1>4. \A r \in regions : ~IsPrevFree(heap, r)
  BY <1>2 DEF AllTags, RunTags, Starts
<1>5. ASSUME NEW b \in live
      PROVE  \/ GetHeader(b.addr) \in Headers /\ b.size = GetSize(heap, GetHeader(b.addr))
             \/ IsMmapped(heap, GetHeader(b.addr)) /\ \E m \in heap.maps : m[1] = GetHeader(b.addr)
  <2>1. PICK u \in U : b.addr = u[1] + 1 /\ b.size = Size(u)
    BY <1>2, BlockHas
  <2>2. GetHeader(b.addr) = u[1] /\ GetSize(heap, u[1]) = Size(u) /\ (IsMmapped(heap, u[1]) <=> u \in X)
    BY <1>1, <1>2, <2>1, InUseHeader
  <2>3. CASE u \in X
    <3>1. \E m \in heap.maps : m[1] = u[1]
      BY <1>2, <2>3 DEF MapsInv, InMap
    <3> QED BY <2>2, <2>3, <3>1
  <2>4. CASE u \in O
    <3>1. u[1] \in Headers
      BY <2>4, HeadersAre
    <3> QED BY <2>1, <2>2, <3>1
  <2> QED BY <1>1, <2>3, <2>4 DEF InUse
<1> QED BY <1>3, <1>4, <1>5 DEF TagsAreTrue

LEMMA BinsShown ==
  ASSUME NEW S, NEW O, NEW B, NEW X, Shown(S, O, B, X)
  PROVE  BinsAreIntact
<1>1. PICK M : M = Marked(S, B)
  OBVIOUS
<1>2. Good(heap, S, O, B, M, X) /\ B \subseteq O
  BY <1>1, GoodTags DEF Shown, Steady
<1>3. ASSUME NEW c \in Bins PROVE FreeIn(c) = Entries(B, c)
  <2>1. \A x : x \in FreeHeaders <=> \E o \in B : x = o[1]
    BY FreeHeadersAre
  <2>2. \A o \in B : GetSize(heap, o[1]) = Size(o)
    BY <1>2, NextHeaderIs
  <2>3. \A y : y \in FreeIn(c) <=> \E g \in FreeHeaders : FreeClass(GetSize(heap, g)) = c /\ y = g + 1
    BY DEF FreeIn
  <2>4. \A y : y \in Entries(B, c) <=> \E o \in B : FreeClass(Size(o)) = c /\ y = o[1] + 1
    BY DEF Entries
  <2>5. \A y : y \in FreeIn(c) <=> y \in Entries(B, c)
    BY <2>1, <2>2, <2>3, <2>4
  <2> QED BY <2>5
<1>4. \A c \in Bins : IsRing(heap.mem, FreeIn(c), Head(c))
  BY <1>2, <1>3 DEF Good, Rings
<1> QED BY <1>4 DEF IsRing, BinsAreIntact

LEMMA EndShown ==
  ASSUME NEW S, NEW O, NEW B, NEW X, Shown(S, O, B, X)
  PROVE  EndIsOurs
<1>1. PICK M : M = Marked(S, B)
  OBVIOUS
<1>2. /\ Good(heap, S, O, B, M, X) /\ Layout(S, O, X) /\ AllTags(heap, S, O, M, X) /\ heap \in HeapType
      /\ SlopInv(heap, S) /\ ArenaInv(heap, S)
  BY <1>1, GoodTags DEF Shown, Steady, Good
<1>3. heap.left \in Nat /\ heap.remaining \in Nat /\ heap.ptr \in Nat
  BY <1>2 DEF HeapType
<1>4. ASSUME heap.ptr # NULL
      PROVE  /\ \E m \in heap.maps :
                  /\ heap.ptr + heap.remaining + 1 < m[1] + m[2]
                  /\ \E g \in Headers : g >= m[1] /\ NextHeader(heap, g) = heap.ptr
                  /\ heap.arena = m[1] => heap.space = heap.ptr + heap.remaining + 1
             /\ GetSize(heap, heap.ptr) = 0
  <2>1. PICK s \in S : s[2] = heap.ptr /\ InMap(heap, s[1] - ArenaHeader, heap.ptr + heap.remaining + 1)
    BY <1>2, <1>4 DEF SlopInv
  <2>2. PICK m \in heap.maps : m[1] = s[1] - ArenaHeader /\ heap.ptr + heap.remaining + 1 < m[1] + m[2]
    BY <2>1 DEF InMap
  <2>3. s[1] \in Int /\ s[2] \in Int /\ s[1] < s[2] /\ 3 <= s[1]
    BY <1>2, <2>1, LayoutTypes DEF Layout
  <2>4. \E g \in Headers : g >= m[1] /\ NextHeader(heap, g) = heap.ptr
    <3>1. PICK o \in O : o[2] = s[2]
      BY <1>2, <2>1 DEF Layout, Adjoin
    <3>2. o[1] \in Int /\ o[2] \in Int /\ o[1] < o[2]
      BY <1>2, LayoutTypes
    <3>3. s[1] <= o[1]
      BY <1>2, <2>3, <3>1, <3>2, InOrApart
    <3>4. o[1] \in Headers /\ NextHeader(heap, o[1]) = o[2]
      BY <1>2, HeadersAre, NextHeaderIs
    <3>5. o[1] >= m[1]
      BY <2>2, <2>3, <3>2, <3>3 DEF ArenaHeader
    <3> QED BY <2>1, <3>1, <3>4, <3>5
  <2>5. ASSUME heap.arena = m[1] PROVE heap.space = heap.ptr + heap.remaining + 1
    <3>1. heap.arena # NULL
      BY <2>2, <2>3, <2>5 DEF ArenaHeader, NULL
    <3> QED BY <1>2, <3>1 DEF ArenaInv, Slop
  <2>6. GetSize(heap, heap.ptr) = 0
    BY <1>2, <2>1 DEF AllTags, RunTags
  <2> QED BY <2>2, <2>4, <2>5, <2>6
<1> QED BY <1>3, <1>4 DEF EndIsOurs

-----------------------------------------------------------------------------
(* The properties.                                                         *)

(* The tags say how memory is divided, however objects were split, merged  *)
(* and given out: each object's header has the size of the one before, the *)
(* bit that it is free is set if and only if nobody owns it, and every     *)
(* block of a client is an object or mapped.                               *)
THEOREM LeaTags == Spec => []TagsAreTrue
<1>1. LeaInv => TagsAreTrue
  <2> SUFFICES ASSUME LeaInv PROVE TagsAreTrue
    OBVIOUS
  <2>1. PICK S, O, B, X : Shown(S, O, B, X)
    BY InvShown
  <2> QED BY <2>1, TagsShown
<1> QED BY <1>1, LeaInvariant, PTL

(* Every bin's list goes once through exactly the free objects of its      *)
(* class, backwards as forwards, though splitting puts pieces into bins    *)
(* and merging takes objects out of their middle.                          *)
THEOREM LeaBins == Spec => []BinsAreIntact
<1>1. LeaInv => BinsAreIntact
  <2> SUFFICES ASSUME LeaInv PROVE BinsAreIntact
    OBVIOUS
  <2>1. PICK S, O, B, X : Shown(S, O, B, X)
    BY InvShown
  <2> QED BY <2>1, BinsShown
<1> QED BY <1>1, LeaInvariant, PTL

(* The header behind the last object lies in the mapping and in nothing    *)
(* the layers below give away again, and what they give next joins it.     *)
THEOREM LeaEnd == Spec => []EndIsOurs
<1>1. LeaInv => EndIsOurs
  <2> SUFFICES ASSUME LeaInv PROVE EndIsOurs
    OBVIOUS
  <2>1. PICK S, O, B, X : Shown(S, O, B, X)
    BY InvShown
  <2> QED BY <2>1, EndShown
<1> QED BY <1>1, LeaInvariant, PTL

(* The contents of clients' blocks stay while their neighbours are split,  *)
(* merged and linked into bins.                                            *)
THEOREM LeaContents == Spec => []ContentsKept
<1>1. LeaInv => ContentsKept
  BY LiveBlock DEF LeaInv, ContentsKept
<1> QED BY <1>1, LeaInvariant, PTL
=============================================================================
